----------------------------- MODULE CoreBatch ------------------------------
(***************************************************************************)
(* check_batch_targets: one external proxy core (sing-box or Xray) carries *)
(* a whole batch of candidates.  When the core does not start, or exits    *)
(* while it is probed, the batch is halved and the halves are tried again, *)
(* up to a budget of core failures.                                        *)
(*                                                                         *)
(* A step is a popped batch, a core start, one round of probes over the    *)
(* batch, or the verdicts of a batch.  Which probes succeed is the         *)
(* environment's choice, as far as the number of rounds admits.            *)
(***************************************************************************)
EXTENDS Naturals, Sequences, FiniteSets, Functions

CONSTANTS
  Calls,       \* the calls that may be made: see CallRecord
  NoEndpoint

\* A call, with what the environment may do to it.
CallRecord(C, E) ==
  [entries    : {q \in Seq(C) : q # << >>},  \* the batch: candidates in order
   blockerSets: SUBSET SUBSET C,  \* candidates with which no core starts
   crasherSets: SUBSET SUBSET C,  \* candidates whose traffic may end the core
   crashRounds: SUBSET Nat,       \* when: a round, attempts + 1 for the secondary probes
   unsureHosts: SUBSET C,         \* candidates whose host name may not resolve
   flakyStart : BOOLEAN,          \* a core may fail to start for no candidate's fault
   udpEndpoint: [C -> E],         \* pinned address of hysteria2 candidates
   watchesCore: BOOLEAN,          \* sing-box polls the core after each round, Xray does not
   splits     : BOOLEAN,          \* Xray: no two hysteria2 candidates of one endpoint at once
   attempts   : Nat \ {0},        \* policy.stability_attempts
   minSuccesses  : Nat \ {0},     \* policy.min_successful_attempts
   needsSecondary: BOOLEAN,       \* policy.min_successful_targets > 1
   budget     : Nat \ {0}]        \* 12: MAX_CORE_FAILURES_PER_VALIDATION

ASSUME CoreAssumption ==
  \A c \in Calls :
    /\ c \in CallRecord(Range(c.entries), Range(c.udpEndpoint))
    /\ \A i, j \in DOMAIN c.entries : c.entries[i] = c.entries[j] => i = j
    /\ c.minSuccesses <= c.attempts

VARIABLES
  call,                \* the call, fixed
  blockers, crashers,  \* which candidates break a core, fixed
  stage,      \* "pop", "start", "probe", "verdict", "done", "failed"
  pending,    \* the stack of batches, its top at the end
  batch,      \* batch_entries
  failures,   \* core_failures
  round,      \* attempts of the loop over policy.stability_attempts
  exited,     \* the core of this batch is gone
  live,       \* rounds in which a probe could succeed
  cache,      \* candidates whose endpoint is in the endpoint cache
  verified,   \* candidates with metrics
  judged,     \* candidates probed by a core that did not exit (history)
  started     \* cores started (history)

fixedVars  == <<call, blockers, crashers>>
resultVars == <<verified, judged>>
coreVars   == <<round, exited, live>>
vars == <<fixedVars, stage, pending, batch, failures, coreVars, cache,
          resultVars, started>>

Entries         == call.entries
WatchesCore     == call.watchesCore
SplitsConflicts == call.splits
Attempts        == call.attempts
MinSuccesses    == call.minSuccesses
NeedsSecondary  == call.needsSecondary
FailureBudget   == call.budget
UdpEndpoint     == call.udpEndpoint

-----------------------------------------------------------------------------
\* Batches

Front(s) == SubSeq(s, 1, Len(s) - 1)
Top(s)   == s[Len(s)]

\* Mutants: the candidate in the middle is in no half, or in both.
HalvesWithoutMiddle(s) ==
  LET mid == Len(s) \div 2
  IN  <<SubSeq(s, 1, mid), SubSeq(s, mid + 2, Len(s))>>

HalvesOverlap(s) ==
  LET mid == Len(s) \div 2
  IN  <<SubSeq(s, 1, mid + 1), SubSeq(s, mid + 1, Len(s))>>

Halves(s) ==
  LET mid == Len(s) \div 2
  IN  <<SubSeq(s, 1, mid), SubSeq(s, mid + 1, Len(s))>>

\* Mutant: every endpoint counts as new.
TurnOfFirst(s, i) == 1

\* split_hysteria2_endpoint_conflicts puts a candidate into the first group
\* without its endpoint: the n-th one of an endpoint into the n-th group.
Turn(s, i) ==
  IF UdpEndpoint[s[i]] = NoEndpoint THEN 1
  ELSE Cardinality({j \in 1..i : UdpEndpoint[s[j]] = UdpEndpoint[s[i]]})

\* The elements of s at the positions in I, in their order.
At(s, I) ==
  LET nth(n) == CHOOSE i \in I : Cardinality({j \in I : j <= i}) = n
  IN  [n \in 1..Cardinality(I) |-> s[nth(n)]]

Hysteria2(s) == {i \in DOMAIN s : UdpEndpoint[s[i]] # NoEndpoint}
InTurn(s, k) == At(s, {i \in Hysteria2(s) : Turn(s, i) = k})

ConflictFree(s) ==
  IF ~SplitsConflicts THEN <<s>>
  ELSE LET groups == Cardinality({Turn(s, i) : i \in DOMAIN s})
           others == At(s, DOMAIN s \ Hysteria2(s))
       IN  [k \in 1..groups |-> IF k = 1 THEN others \o InTurn(s, 1) ELSE InTurn(s, k)]

Reversed(s) == [i \in 1..Len(s) |-> s[Len(s) + 1 - i]]

-----------------------------------------------------------------------------

Init ==
  /\ call \in Calls
  /\ blockers \in call.blockerSets /\ crashers \in call.crasherSets
  /\ stage = "pop"
  /\ pending = <<Entries>>
  /\ batch = << >>
  /\ failures = 0
  /\ round = 0 /\ exited = FALSE /\ live = 0
  /\ cache = {}
  /\ verified = {} /\ judged = {}
  /\ started = 0

\* pin_*_entries: hosts that are not in the cache are resolved; candidates
\* without an address are dropped.
Pinned(s, known) == At(s, {i \in DOMAIN s : s[i] \in known})

Pop ==
  /\ stage = "pop" /\ pending # << >>
  /\ \E resolved \in SUBSET (Range(Top(pending)) \ cache) :
       LET pinned == Pinned(Top(pending), cache \cup resolved)
           groups == ConflictFree(pinned)
       IN  /\ Range(Top(pending)) \ call.unsureHosts \subseteq cache \cup resolved
           /\ cache' = cache \cup resolved
           /\ \/ /\ pinned = << >>
                 /\ pending' = Front(pending)
                 /\ UNCHANGED <<batch, stage>>
              \/ /\ pinned # << >> /\ Len(groups) > 1
                 /\ pending' = Front(pending) \o Reversed(groups)
                 /\ UNCHANGED <<batch, stage>>
              \/ /\ pinned # << >> /\ Len(groups) = 1
                 /\ pending' = Front(pending)
                 /\ batch' = groups[1]
                 /\ stage' = "start"
  /\ UNCHANGED <<fixedVars, failures, coreVars, resultVars, started>>

Finish ==
  /\ stage = "pop" /\ pending = << >>
  /\ stage' = "done"
  /\ UNCHANGED <<fixedVars, pending, batch, failures, coreVars, cache,
                 resultVars, started>>

\* Mutant: the budget is not looked at.
CountFailureWithoutBudget ==
  /\ failures' = failures + 1
  /\ pending' = IF Len(batch) > 1 THEN pending \o Halves(batch) ELSE pending

\* A failure of the core is counted; within the budget a batch of several
\* candidates is halved.
CountFailure ==
  /\ failures' = failures + 1
  /\ pending' = IF Len(batch) > 1 /\ failures + 1 < FailureBudget
                THEN pending \o Halves(batch) ELSE pending

\* ports_ready fails.  An exhausted budget leaves the outer loop: what is still
\* pending is never tested.
StartFails ==
  /\ stage = "start"
  /\ call.flakyStart \/ Range(batch) \cap blockers # {}
  /\ CountFailure
  /\ stage' = IF failures + 1 >= FailureBudget THEN "done" ELSE "pop"
  /\ started' = started + 1
  /\ UNCHANGED <<fixedVars, batch, coreVars, cache, resultVars>>

Starts ==
  /\ stage = "start"
  /\ Range(batch) \cap blockers = {}
  /\ stage' = "probe"
  /\ round' = 0 /\ exited' = FALSE /\ live' = 0
  /\ started' = started + 1
  /\ UNCHANGED <<fixedVars, pending, batch, failures, cache, resultVars>>

\* No temporary directory, no configuration file, no core binary, no client:
\* the whole call returns the error.
CannotRun ==
  /\ stage = "start"
  /\ stage' = "failed"
  /\ UNCHANGED <<fixedVars, pending, batch, failures, coreVars, cache,
                 resultVars, started>>

\* A round of probes over the candidates still active, results recorded.
Probe ==
  /\ stage = "probe" /\ round < Attempts /\ ~exited
  /\ round' = round + 1 /\ live' = live + 1
  /\ UNCHANGED <<fixedVars, stage, pending, batch, failures, exited, cache,
                 resultVars, started>>

MayCrash(r) == Range(batch) \cap crashers # {} /\ r \in call.crashRounds

\* sing-box: the core is found to have exited after a round, whose results are
\* thrown away.  continue and break act on the loop over the rounds: the next
\* round finds the same core gone and counts and halves once more, and an
\* exhausted budget only ends the rounds of this batch.
CrashSeen ==
  /\ stage = "probe" /\ round < Attempts /\ WatchesCore
  /\ exited \/ MayCrash(round + 1)
  /\ exited' = TRUE
  /\ CountFailure
  /\ round' = round + 1
  /\ stage' = IF failures + 1 >= FailureBudget THEN "verdict" ELSE "probe"
  /\ UNCHANGED <<fixedVars, batch, live, cache, resultVars, started>>

\* Xray: nobody looks; the probes of this and the later rounds just fail.
CrashMissed ==
  /\ stage = "probe" /\ round < Attempts /\ ~WatchesCore
  /\ exited \/ MayCrash(round + 1)
  /\ exited' = TRUE
  /\ round' = round + 1
  /\ live' = IF exited THEN live ELSE live + 1
  /\ UNCHANGED <<fixedVars, stage, pending, batch, failures, cache, resultVars,
                 started>>

\* Mutant: only a core that is still up ends the rounds.
EndRoundsOfLiveCore ==
  /\ stage = "probe" /\ ~exited
  /\ round = Attempts \/ round > Attempts - MinSuccesses
  /\ stage' = "verdict"
  /\ UNCHANGED <<fixedVars, pending, batch, failures, coreVars, cache,
                 resultVars, started>>

\* All rounds are over, or no candidate can reach the minimum any more.
EndRounds ==
  /\ stage = "probe"
  /\ \/ round = Attempts
     \/ round > Attempts - MinSuccesses /\ ~(WatchesCore /\ exited)
  /\ stage' = "verdict"
  /\ UNCHANGED <<fixedVars, pending, batch, failures, coreVars, cache,
                 resultVars, started>>

\* The secondary targets are probed through the same core, which nobody watches
\* any more; then the candidates that meet the policy are inserted.
Verdict ==
  /\ stage = "verdict"
  /\ \E passed \in SUBSET Range(batch) :
       /\ passed # {} => live >= MinSuccesses /\ ~(NeedsSecondary /\ exited)
       /\ verified' = verified \cup passed
  /\ \/ judged' = IF exited THEN judged ELSE judged \cup Range(batch)
     \/ NeedsSecondary /\ MayCrash(Attempts + 1) /\ judged' = judged
  /\ stage' = "pop"
  /\ UNCHANGED <<fixedVars, pending, batch, failures, coreVars, cache, started>>

Next ==
  \/ Pop \/ Finish
  \/ StartFails \/ Starts \/ CannotRun
  \/ Probe \/ CrashSeen \/ CrashMissed \/ EndRounds
  \/ Verdict

Spec == Init /\ [][Next]_vars

\* Every awaited probe, resolution and readiness check has a timeout.
FairSpec == Spec /\ WF_vars(Next)
-----------------------------------------------------------------------------

\* One bad configuration does not poison unrelated candidates: when a call of
\* sing-box returns its verdicts, every candidate with an address that neither
\* blocks nor crashes a core was probed by a core that stayed up, unless cores
\* fail for no candidate's fault (the halving in check_batch_targets).
InnocentsJudged ==
  stage = "done" /\ WatchesCore /\ ~call.flakyStart =>
    cache \ (blockers \cup crashers) \subseteq judged

\* A candidate is asked once: it waits in at most one batch, and not in one when
\* it has its verdict (no second, contradicting verdict overwrites the first).
\* With several rounds a crash that is seen queues the halves once per round.
EachAskedOnce ==
  (WatchesCore => Attempts = 1 \/ crashers = {}) =>
    /\ \A i, j \in DOMAIN pending :
         i # j => Range(pending[i]) \cap Range(pending[j]) = {}
    /\ \A i \in DOMAIN pending : Range(pending[i]) \cap judged = {}

\* However often cores fail, a call of sing-box starts at most 2 * budget - 1 of
\* them: only failures within the budget push batches
\* (MAX_CORE_FAILURES_PER_VALIDATION).
CoreStartsBounded == ~SplitsConflicts => started <= 2 * FailureBudget - 1

\* No core of Xray carries two hysteria2 candidates of one endpoint, also after
\* halving (split_hysteria2_endpoint_conflicts).
NoConflictStarted ==
  stage \in {"start", "probe"} /\ SplitsConflicts =>
    \A i, j \in DOMAIN batch :
      i # j /\ UdpEndpoint[batch[i]] # NoEndpoint
        => UdpEndpoint[batch[i]] # UdpEndpoint[batch[j]]

\* The call ends: each batch that is split is smaller than before.
Termination == <>(stage \in {"done", "failed"})
=============================================================================
