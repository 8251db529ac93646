---------------------------- MODULE ProbePolicy -----------------------------
(***************************************************************************)
(* The verdict on one candidate of a batch whose core stays up: rounds of  *)
(* probes against the first target with early drops, then the secondary    *)
(* targets, then the decision (check_batch_targets of sing-box and Xray).  *)
(*                                                                         *)
(* How every probe would end is fixed from the start, so that the verdict  *)
(* reached with early drops can be compared with what the policy says of   *)
(* all the probes: Policy is the reference definition.                     *)
(***************************************************************************)
EXTENDS Naturals, FiniteSets

CONSTANTS
  Policies,           \* the policies candidates are validated under
  StrictAttempts,     \* 6: STRICT_STABILITY_ATTEMPTS
  LateStreak,         \* 2: STRICT_LATE_SUCCESS_STREAK
  SecondaryAttempts,  \* 2: STRICT_SECONDARY_ATTEMPTS
  SecondaryMin        \* 1: STRICT_SECONDARY_MIN_SUCCESSFUL_ATTEMPTS

\* ValidationPolicy, and the number of targets after the first.
PolicyRecord == [attempts    : Nat \ {0},   \* stability_attempts
                 minSuccesses: Nat \ {0},   \* min_successful_attempts
                 minTargets  : Nat \ {0},   \* min_successful_targets
                 secondaries : Nat]

ASSUME PolicyAssumption ==
  /\ Policies \subseteq PolicyRecord
  /\ StrictAttempts \in Nat /\ LateStreak \in 0..StrictAttempts
  /\ SecondaryAttempts \in Nat \ {0} /\ SecondaryMin \in Nat \ {0}

\* A probe fails, succeeds, or succeeds above policy.max_latency_ms.
Outcomes == {"fail", "ok", "slow"}

VARIABLES
  policy,            \* the policy of this call
  primary,           \* outcome of each round's probe of the first target
  secondary,         \* outcomes of the probes of the others
  phase,             \* "rounds", "secondary", "decide", "decided"
  round,             \* rounds done, or secondary probes done of this target
  target,            \* secondary targets done
  active,            \* the candidate is still probed
  successes, lateStreak,
  attempts,          \* probes recorded: attempts of the metrics
  overLatency,       \* the largest recorded latency is over the maximum
  hits,              \* secondary_successes for this target
  secondarySuccess,  \* secondary_success
  verified

policyVars == <<policy, primary, secondary, phase, round, target, active, successes,
                lateStreak, attempts, overLatency, hits, secondarySuccess, verified>>

Attempts      == policy.attempts
MinSuccesses  == policy.minSuccesses
NeededTargets == policy.minTargets
Secondaries   == policy.secondaries
Strict        == Attempts >= StrictAttempts

inputs    == <<policy, primary, secondary>>
tallies   == <<active, successes, lateStreak, attempts, overLatency>>
secondaryVars == <<target, hits, secondarySuccess>>

PolicyInit ==
  /\ policy \in Policies
  /\ primary \in [1..Attempts -> Outcomes]
  /\ secondary \in [1..Secondaries -> [1..SecondaryAttempts -> Outcomes]]
  /\ phase = "rounds"
  /\ round = 0 /\ target = 0
  /\ active = TRUE
  /\ successes = 0 /\ lateStreak = 0 /\ attempts = 0
  /\ overLatency = FALSE
  /\ hits = 0 /\ secondarySuccess = FALSE
  /\ verified = FALSE

\* The condition of active.retain.
CanStillPass(won, streak, remaining) ==
  /\ won + remaining >= MinSuccesses
  /\ Strict => streak + remaining >= LateStreak

\* Mutant: a failed probe does not end the streak.
RecordedWithoutReset(won) ==
  /\ attempts' = attempts + 1
  /\ successes' = IF won = "fail" THEN successes ELSE successes + 1
  /\ lateStreak' = IF won = "fail" THEN lateStreak ELSE lateStreak + 1
  /\ overLatency' = (overLatency \/ won = "slow")

\* The result of a probe is recorded.
Recorded(won) ==
  /\ attempts' = attempts + 1
  /\ successes' = IF won = "fail" THEN successes ELSE successes + 1
  /\ lateStreak' = IF won = "fail" THEN 0 ELSE lateStreak + 1
  /\ overLatency' = (overLatency \/ won = "slow")

ProbeRound ==
  /\ phase = "rounds" /\ round < Attempts /\ active
  /\ Recorded(primary[round + 1])
  /\ round' = round + 1
  /\ active' = (/\ round + 1 < Attempts
                /\ CanStillPass(successes', lateStreak', Attempts - (round + 1)))
  /\ UNCHANGED <<inputs, phase, secondaryVars, verified>>

\* Others of the batch are probed on, or the rounds are over.
LeaveRounds ==
  /\ phase = "rounds" /\ ~active
  /\ phase' = IF NeededTargets > 1 THEN "secondary" ELSE "decide"
  /\ round' = 0
  /\ UNCHANGED <<inputs, secondaryVars, tallies, verified>>

Eligible ==
  successes >= MinSuccesses /\ (Strict => lateStreak >= LateStreak)

SecondaryProbe ==
  /\ phase = "secondary" /\ target < Secondaries
  /\ Eligible /\ round < SecondaryAttempts
  /\ hits' = IF secondary[target + 1][round + 1] = "ok" THEN hits + 1 ELSE hits
  /\ round' = round + 1
  /\ UNCHANGED <<inputs, phase, target, tallies, secondarySuccess, verified>>

SecondaryTargetDone ==
  /\ phase = "secondary" /\ target < Secondaries
  /\ ~Eligible \/ round = SecondaryAttempts
  /\ secondarySuccess' = (secondarySuccess \/ hits >= SecondaryMin)
  /\ target' = target + 1
  /\ hits' = 0 /\ round' = 0
  /\ UNCHANGED <<inputs, phase, tallies, verified>>

LeaveSecondary ==
  /\ phase = "secondary" /\ target = Secondaries
  /\ phase' = "decide"
  /\ UNCHANGED <<inputs, round, secondaryVars, tallies, verified>>

TargetCount == (IF successes > 0 THEN 1 ELSE 0) + (IF secondarySuccess THEN 1 ELSE 0)

Decide ==
  /\ phase = "decide"
  /\ verified' = (Eligible /\ TargetCount >= NeededTargets /\ ~overLatency)
  /\ phase' = "decided"
  /\ UNCHANGED <<inputs, round, secondaryVars, tallies>>

PolicyNext ==
  \/ ProbeRound \/ LeaveRounds
  \/ SecondaryProbe \/ SecondaryTargetDone \/ LeaveSecondary
  \/ Decide

PolicySpec == PolicyInit /\ [][PolicyNext]_policyVars

-----------------------------------------------------------------------------

\* What the policy asks of a candidate, were every probe made.
Policy ==
  /\ Cardinality({i \in 1..Attempts : primary[i] # "fail"}) >= MinSuccesses
  /\ Strict => \A i \in 1..Attempts : i + LateStreak > Attempts => primary[i] # "fail"
  /\ \A i \in 1..Attempts : primary[i] # "slow"
  /\ NeededTargets > 1 =>
       /\ NeededTargets = 2
       /\ \E t \in 1..Secondaries :
            Cardinality({k \in 1..SecondaryAttempts : secondary[t][k] = "ok"})
              >= SecondaryMin

\* Dropping a candidate early, skipping its secondary probes and recording only
\* what was probed never changes its verdict: it is verified exactly when all the
\* probes together meet the policy (active.retain and the eligible filter).  And
\* a verified one was probed in every round, so the success rate that ranking
\* and training rows take from its metrics is out of all the rounds.
VerdictIsPolicy ==
  /\ phase = "decided" => (verified <=> Policy)
  /\ verified => attempts = Attempts
=============================================================================
