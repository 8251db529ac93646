--------------------------- MODULE BackendRouting ---------------------------
(***************************************************************************)
(* One batch of configurations on its way to a verdict: the filters of the *)
(* collector and of the Light builder, the choice of a core for each, the  *)
(* two cores asked at the same time, and the second try of Xray for what   *)
(* sing-box did not verify (validate_light_batch, its transfer, stability  *)
(* and stream variants, and check_proxies).                                *)
(*                                                                         *)
(* A core verifies any part of what it accepts, or cannot run at all; what *)
(* happens inside it is CoreBatch and ProbePolicy.                         *)
(***************************************************************************)
EXTENDS ConfigSupport

CONSTANT Calls   \* calls: [gate : Gates, batch : SUBSET Features]

Gates == {"prefilter", "strict", "transfer", "stability", "stream", "check"}

ASSUME CallsAssumption ==
  \A c \in Calls : c.gate \in Gates /\ c.batch \subseteq Features

MiB == 1048576

\* The targets of a gate, the minimum its policy asks for, and the bytes of body
\* it asks each target for (0: the answer alone), on the first try and the retry.
GateTargets(gate) ==
  IF gate \in {"strict", "stability", "stream"} THEN {"first", "second"} ELSE {"first"}
MinTargets(gate)  == Cardinality(GateTargets(gate))

FirstBytes(gate) ==
  CASE gate = "transfer"  -> 10 * MiB
    [] gate = "stability" -> MiB
    [] gate = "stream"    -> 3 * MiB
    [] OTHER              -> 0

\* Mutant: the retry asks for the answer alone.
RetryBytesNone(gate) == 0

\* The retry of the stability gate is given no minimum, and the targets' own is larger.
RetryBytes(gate) == IF gate = "stability" THEN 10 * MiB ELSE FirstBytes(gate)

VARIABLES
  call,
  stage,     \* "collected", "light", "routed", "settle", "retry", "recorded", "aborted"
  batch,     \* the configurations still in the batch
  answer,    \* what each core answered: verified configurations, or a failure
  retried,   \* the answer of the second try of Xray
  healthy,   \* the targets that answer their health check
  probed     \* [core |-> the targets it probed through]

vars == <<call, stage, batch, answer, retried, healthy, probed>>

None     == [state |-> "none",   verified |-> {}]
Failure  == [state |-> "failed", verified |-> {}]
Verified(S) == [state |-> "ok", verified |-> S]

Gate == call.gate

Init ==
  /\ call \in Calls
  /\ stage = IF call.gate = "check" THEN "routed" ELSE "collected"
  /\ batch = call.batch
  /\ answer = [core \in Cores |-> None]
  /\ retried = None
  /\ healthy \in SUBSET GateTargets(call.gate)
  /\ probed = [core \in Cores |-> {}]

CollectorFilter ==
  /\ stage = "collected"
  /\ batch' = {c \in batch : Cheap(c)}
  /\ stage' = "light"
  /\ UNCHANGED <<call, answer, retried, healthy, probed>>

\* Without candidates the Light builder ends with an error.
LightFilter ==
  /\ stage = "light"
  /\ batch' = {c \in batch : ~DisabledTls(c) /\ Consumer(c)}
  /\ stage' = IF batch' = {} THEN "aborted" ELSE "routed"
  /\ UNCHANGED <<call, answer, retried, healthy, probed>>

-----------------------------------------------------------------------------

\* Where check_proxies sends a configuration: requires_singbox.
CheckBackend(c) == IF c.scheme \in {"hysteria", "socks4"} THEN "sing-box" ELSE "xray"

Route(c)    == IF Gate = "check" THEN CheckBackend(c) ELSE LightBackend(c)

Share(core) == {c \in batch : Route(c) = core \/ (core = "sing-box" /\ Route(c) = "fallback")}
Fallbacks   == {c \in batch : Route(c) = "fallback"}

\* What a core takes of its share; only the calls with targets leave out what
\* Xray parses and cannot run.
Accepts(core, c) ==
  IF core = "xray" /\ Gate = "check" THEN XrayParses(c) ELSE Runs(core, c)
Accepted(core) == {c \in Share(core) : Accepts(core, c)}

\* Mutant: the unhealthy targets are left out however many remain.
HealthyTargetsOnly(targets, minimum) == targets \cap healthy

\* healthy_targets: the healthy ones if they are enough, all of them if not.
HealthyTargets(targets, minimum) ==
  IF Cardinality(targets \cap healthy) >= minimum THEN targets \cap healthy ELSE targets

\* sing-box asks for two healthy targets whatever the policy.
Minimum(core) == IF core = "sing-box" THEN 2 ELSE MinTargets(Gate)
Probed(core) ==
  IF Gate = "check" THEN GateTargets(Gate)
  ELSE HealthyTargets(GateTargets(Gate), Minimum(core))

\* check_proxies asks Xray and, once it has answered, sing-box.
Turn(core) ==
  Gate = "check" /\ core = "sing-box" => answer["xray"].state = "ok"

\* A core given nothing it accepts is not started.
CoreIdle(core) ==
  /\ stage = "routed" /\ answer[core].state = "none" /\ Turn(core)
  /\ Accepted(core) = {}
  /\ answer' = [answer EXCEPT ![core] = Verified({})]
  /\ UNCHANGED <<call, stage, batch, retried, healthy, probed>>

CoreAnswers(core) ==
  /\ stage = "routed" /\ answer[core].state = "none" /\ Turn(core)
  /\ Accepted(core) # {}
  /\ \E S \in SUBSET Accepted(core) : answer' = [answer EXCEPT ![core] = Verified(S)]
  /\ probed' = [probed EXCEPT ![core] = Probed(core)]
  /\ UNCHANGED <<call, stage, batch, retried, healthy>>

CoreFails(core) ==
  /\ stage = "routed" /\ answer[core].state = "none" /\ Turn(core)
  /\ Accepted(core) # {}
  /\ answer' = [answer EXCEPT ![core] = Failure]
  /\ UNCHANGED <<call, stage, batch, retried, healthy, probed>>

\* check_proxies ends at its first failure; the others wait for both cores.
Answered ==
  \/ \A core \in Cores : answer[core].state # "none"
  \/ Gate = "check" /\ answer["xray"].state = "failed"

Failed == \E core \in Cores : answer[core].state = "failed"

\* Mutant: a failing core ends the transfer test too.
SettleStrictly ==
  /\ stage = "routed" /\ Answered
  /\ stage' = IF Failed THEN "aborted" ELSE "retry"
  /\ UNCHANGED <<call, batch, answer, retried, healthy, probed>>

\* The answers are in: all gates but the transfer test pass an error on.
Settle ==
  /\ stage = "routed" /\ Answered
  /\ stage' = IF Failed /\ Gate # "transfer" THEN "aborted" ELSE "retry"
  /\ UNCHANGED <<call, batch, answer, retried, healthy, probed>>

\* Mutant: nothing is retried when sing-box failed.
RetriedIfAnswered ==
  IF answer["sing-box"].state = "failed" THEN {}
  ELSE Fallbacks \ answer["sing-box"].verified

\* Mutant: all of the fallback candidates are tried again.
RetriedAll == Fallbacks

\* fallback_retry
Retried == Fallbacks \ answer["sing-box"].verified

NoRetry ==
  /\ stage = "retry"
  /\ {c \in Retried : XrayRuns(c)} = {}
  /\ stage' = "recorded"
  /\ UNCHANGED <<call, batch, answer, retried, healthy, probed>>

RetryAnswers ==
  /\ stage = "retry"
  /\ {c \in Retried : XrayRuns(c)} # {}
  /\ \E S \in SUBSET {c \in Retried : XrayRuns(c)} : retried' = Verified(S)
  /\ probed' = [probed EXCEPT !["xray"] = Probed("xray")]
  /\ stage' = "recorded"
  /\ UNCHANGED <<call, batch, answer, healthy>>

RetryFails ==
  /\ stage = "retry"
  /\ {c \in Retried : XrayRuns(c)} # {}
  /\ retried' = Failure
  /\ stage' = IF Gate = "transfer" THEN "recorded" ELSE "aborted"
  /\ UNCHANGED <<call, batch, answer, healthy, probed>>

Next ==
  \/ CollectorFilter \/ LightFilter
  \/ \E core \in Cores : CoreIdle(core) \/ CoreAnswers(core) \/ CoreFails(core)
  \/ Settle
  \/ NoRetry \/ RetryAnswers \/ RetryFails

Spec == Init /\ [][Next]_vars

-----------------------------------------------------------------------------

Results == answer["xray"].verified \union answer["sing-box"].verified \union retried.verified

\* Configurations a core can run that the routing never shows to that core.
Overlooked(c) ==
  \/ \* the transport is written as a list or with spaces: the gRPC authority is missed
     Gate # "check" /\ ~c.plain /\ c.transport = "grpc" /\ c.authority
  \/ \* ciphers and packet encodings are not looked at
     Gate # "check" /\ c.exotic /\ LightBackend(c) = "sing-box"
  \/ \* check_proxies has Xray try the HTTP transport, which only sing-box still has
     Gate = "check" /\ c.transport = "http"

\* A core that can run c was given it and answered.
Judged(c) ==
  \/ c \in Share("sing-box") /\ SingBoxRuns(c) /\ answer["sing-box"].state = "ok"
  \/ c \in Share("xray") /\ XrayRuns(c) /\ answer["xray"].state = "ok"
  \/ c \in Retried /\ XrayRuns(c) /\ retried.state = "ok"

\* Every configuration of a recorded batch that some core can run was judged by such
\* a core, so that an unverified one failed its probes.  The exceptions are those of
\* Overlooked, and the transfer test, which records through an outage of a core
\* (light_backend against the parsers, the `?` of every other gate).
VerdictsAreJudged ==
  stage = "recorded" =>
    \A c \in batch : Usable(c) => \/ Judged(c) \/ Overlooked(c)
                                  \/ Gate = "transfer" /\ (Failed \/ retried.state = "failed")

\* An outage of a core is no verdict and no end.  What sing-box did not verify of
\* the fallback candidates is always tried on Xray before a batch is recorded (the
\* comment of validate_light_transfer_batch), and a transfer batch with candidates
\* is recorded whatever fails: LightPipeline takes its transfer batches so.
OutagesAreContained ==
  /\ stage = "recorded" =>
       \A c \in Fallbacks : \/ c \in answer["sing-box"].verified \/ ~XrayRuns(c)
                            \/ retried.state # "none"
  /\ Gate = "transfer" /\ batch # {} => stage # "aborted"

\* No configuration is verified by both cores, so that it does not matter whose
\* metrics merge_light_metadata lets win.
OneCoreVerifies ==
  answer["sing-box"].verified \cap (answer["xray"].verified \union retried.verified) = {}

\* What Light could publish is not lost to the cheap filter of the collector, except
\* for VMess whose TLS is "none", or "reality" over a transport without it, and for
\* Trojan with a flow, which its parser ignores.
ScreeningKeepsUsable ==
  stage \notin {"collected", "light"} /\ Gate # "check" =>
    \A c \in call.batch :
      Usable(c) /\ Consumer(c) /\ ~DisabledTls(c) =>
        \/ c \in batch
        \/ c.scheme = "vmess" /\ c.security \in {"none", "reality"}
        \/ c.scheme = "trojan" /\ c.flow = "other"

\* The body that a verified configuration delivered.
Delivered(c) == IF c \in retried.verified THEN RetryBytes(Gate) ELSE FirstBytes(Gate)

\* The verified configurations of one batch were asked for the same body, through
\* the same targets.  Only the Xray retry of the stability gate asks for more than
\* the first try did.  And the vote on the targets never takes one away: its
\* minimum is all of them, or, for sing-box, more than there are (healthy_targets
\* with MIN_SUCCESSFUL_TARGETS).
EvidenceComparable ==
  /\ \A c, d \in Results :
       \/ Delivered(c) = Delivered(d)
       \/ Gate = "stability" /\ (c \in retried.verified <=> Delivered(c) > Delivered(d))
  /\ \A core \in Cores : probed[core] \in {{}, GateTargets(Gate)}
=============================================================================
