----------------------------- MODULE GateProofs ------------------------------
(***************************************************************************)
(* What happens to the candidates of a batch at a gate: the routing to the *)
(* cores, the verdict on one candidate, and how many tests the transfer    *)
(* gate runs at once.  Each part is about one module, for every value of   *)
(* its constants.                                                          *)
(***************************************************************************)
EXTENDS BackendRouting, TransferWorkers, ProbePolicy, FiniteSetTheorems, TLAPS

-----------------------------------------------------------------------------
(* The controller of the transfer gate.                                    *)

CtrlInv == WorkersTypeOK /\ RecoversInStep /\ BacksOff

\* The percentage is a natural number, whatever the answers of a batch.
LEMMA PercentNat ==
  ASSUME NEW e \in Nat, NEW n \in Nat \ {0}
  PROVE  RateLimitPercent(e, n) \in Nat
<1> DEFINE top == e * 100 + n - 1
<1>1. top \in Nat
  OBVIOUS
<1>2. top \div n \in Nat
  <2> HIDE DEF top
  <2> QED  BY <1>1
<1> QED  BY <1>2 DEF RateLimitPercent, CeilDiv

\* What adjust_transfer_workers returns in terms of the percentage alone.
LEMMA Adjusted ==
  ASSUME CtrlInv, NEW e \in Nat, NEW n \in Nat \ {0}
  PROVE  LET adj == AdjustTransferWorkers(workers, e, n, cleanBatches) IN
         IF RateLimitPercent(e, n) >= 25
           THEN /\ adj[2] = 0
                /\ adj[1] \in MinWorkers..MaxWorkers
                /\ adj[1] <= Greatest(MinWorkers, workers - 1)
           ELSE IF cleanBatches = 1
             THEN adj[2] = 0 /\ adj[1] = Least(workers + 1, MaxWorkers)
             ELSE adj[2] = 1 /\ adj[1] = workers
<1> DEFINE percent == RateLimitPercent(e, n)
<1>1. percent \in Nat
  BY PercentNat
<1>2. workers \in MinWorkers..MaxWorkers /\ cleanBatches \in 0..1
  BY DEF CtrlInv, WorkersTypeOK
<1>3. MinWorkers \in Nat \ {0} /\ MaxWorkers \in Nat /\ MinWorkers <= MaxWorkers
  BY BudgetsAssumption
<1> HIDE DEF percent
<1>4. AdjustTransferWorkers(workers, e, n, cleanBatches) =
        IF percent >= 50 THEN <<Greatest(Monus(workers, 2), MinWorkers), 0>>
        ELSE IF percent >= 25 THEN <<Greatest(Monus(workers, 1), MinWorkers), 0>>
        ELSE IF cleanBatches + 1 >= 2 THEN <<Least(workers + 1, MaxWorkers), 0>>
        ELSE <<workers, cleanBatches + 1>>
  BY DEF AdjustTransferWorkers, percent
<1>5. CASE percent >= 50
  BY <1>1, <1>2, <1>3, <1>4, <1>5 DEF Greatest, Monus, percent
<1>6. CASE percent >= 25 /\ ~(percent >= 50)
  BY <1>1, <1>2, <1>3, <1>4, <1>6 DEF Greatest, Monus, percent
<1>7. CASE ~(percent >= 25)
  BY <1>1, <1>2, <1>3, <1>4, <1>7 DEF percent
<1> QED  BY <1>1, <1>5, <1>6, <1>7

\* One batch keeps the invariant.
LEMMA BatchKeeps ==
  ASSUME CtrlInv, NEW n \in 1..BatchLimit, NEW e \in Nat, Batch(n, e),
         tested < TransferTestLimit
  PROVE  CtrlInv'
<1>1. /\ workers \in MinWorkers..MaxWorkers /\ cleanBatches \in 0..1
      /\ tested \in 0..TransferTestLimit /\ calm \in Nat /\ limited \in Nat
      /\ cleanBatches = calm % 2
      /\ workers >= Least(MaxWorkers, MinWorkers + calm \div 2)
      /\ workers <= Greatest(MinWorkers, MaxWorkers - limited)
  BY DEF CtrlInv, WorkersTypeOK, RecoversInStep, BacksOff
<1>2. /\ MinWorkers \in Nat \ {0} /\ MaxWorkers \in Nat /\ MinWorkers <= MaxWorkers
      /\ TransferTestLimit \in Nat
  BY BudgetsAssumption
<1>3. n \in Nat \ {0} /\ tested + n <= TransferTestLimit
  <2>1. QueueWindow(workers) \in Nat /\ BatchSize \in Nat
    BY <1>1, <1>2, WorkersAssumption DEF QueueWindow, Greatest
  <2> QED  BY <1>1, <1>2, <2>1 DEF BatchLimit, Least
<1>4. tested' \in 0..TransferTestLimit
  BY <1>1, <1>2, <1>3 DEF Batch
<1>5. CASE RateLimitPercent(e, n) >= 25
  <2>1. /\ cleanBatches' = 0 /\ calm' = 0 /\ limited' = limited + 1
        /\ workers' \in MinWorkers..MaxWorkers
        /\ workers' <= Greatest(MinWorkers, workers - 1)
    BY <1>3, <1>5, Adjusted DEF Batch
  <2>2. workers' <= Greatest(MinWorkers, MaxWorkers - limited')
    BY <1>1, <1>2, <2>1 DEF Greatest
  <2>3. cleanBatches' = calm' % 2
        /\ workers' >= Least(MaxWorkers, MinWorkers + calm' \div 2)
    BY <1>2, <2>1 DEF Least
  <2> QED  BY <1>1, <1>4, <2>1, <2>2, <2>3 DEF CtrlInv, WorkersTypeOK, RecoversInStep, BacksOff
<1>6. CASE ~(RateLimitPercent(e, n) >= 25) /\ cleanBatches = 1
  <2>1. /\ cleanBatches' = 0 /\ calm' = calm + 1 /\ limited' = 0
        /\ workers' = Least(workers + 1, MaxWorkers)
    BY <1>3, <1>6, Adjusted DEF Batch
  <2>2. (calm + 1) % 2 = 0 /\ (calm + 1) \div 2 = calm \div 2 + 1
    BY <1>1, <1>6
  <2>3. calm \div 2 \in Nat
    BY <1>1
  <2>4. workers' \in MinWorkers..MaxWorkers
    BY <1>1, <1>2, <2>1 DEF Least
  <2>5. workers' >= Least(MaxWorkers, MinWorkers + calm' \div 2)
    BY <1>1, <1>2, <2>1, <2>2, <2>3 DEF Least
  <2>6. workers' <= Greatest(MinWorkers, MaxWorkers - limited')
    BY <1>2, <2>1, <2>4 DEF Greatest
  <2> QED  BY <1>1, <1>4, <2>1, <2>2, <2>4, <2>5, <2>6
               DEF CtrlInv, WorkersTypeOK, RecoversInStep, BacksOff
<1>7. CASE ~(RateLimitPercent(e, n) >= 25) /\ cleanBatches = 0
  <2>1. /\ cleanBatches' = 1 /\ calm' = calm + 1 /\ limited' = 0
        /\ workers' = workers
    BY <1>3, <1>7, Adjusted DEF Batch
  <2>2. (calm + 1) % 2 = 1 /\ (calm + 1) \div 2 = calm \div 2
    BY <1>1, <1>7
  <2>3. workers' >= Least(MaxWorkers, MinWorkers + calm' \div 2)
    BY <1>1, <2>1, <2>2
  <2>4. workers' <= Greatest(MinWorkers, MaxWorkers - limited')
    BY <1>1, <1>2, <2>1 DEF Greatest
  <2> QED  BY <1>1, <1>4, <2>1, <2>2, <2>3, <2>4
               DEF CtrlInv, WorkersTypeOK, RecoversInStep, BacksOff
<1> QED  BY <1>1, <1>5, <1>6, <1>7

THEOREM ControllerInvariant == WorkersSpec => []CtrlInv
<1>1. WorkersInit => CtrlInv
  BY BudgetsAssumption, WorkersAssumption
     DEF WorkersInit, CtrlInv, WorkersTypeOK, RecoversInStep, BacksOff, Least, Greatest
<1>2. CtrlInv /\ [WorkersNext]_workersVars => CtrlInv'
  <2> SUFFICES ASSUME CtrlInv, [WorkersNext]_workersVars PROVE CtrlInv'
    OBVIOUS
  <2>1. CASE WorkersNext
    <3>1. PICK n \in 1..BatchLimit : \E e \in 0..(EventsPerTest * n) : Batch(n, e)
      BY <2>1 DEF WorkersNext
    <3>2. PICK e \in 0..(EventsPerTest * n) : Batch(n, e)
      BY <3>1
    <3>3. e \in Nat
      OBVIOUS
    <3>4. tested < TransferTestLimit
      BY <2>1 DEF WorkersNext
    <3> QED  BY <3>2, <3>3, <3>4, BatchKeeps
  <2>2. CASE UNCHANGED workersVars
    BY <2>2 DEF workersVars, CtrlInv, WorkersTypeOK, RecoversInStep, BacksOff
  <2> QED  BY <2>1, <2>2
<1> QED  BY <1>1, <1>2, PTL DEF WorkersSpec

\* The controller recovers one worker for every two batches below the tolerance
\* since the last limited batch: adjust_transfer_workers never leaves the gate
\* slower than that, whatever happened before.
THEOREM WorkersRecover == WorkersSpec => []RecoversInStep
<1>1. CtrlInv => RecoversInStep
  BY DEF CtrlInv
<1> QED  BY <1>1, ControllerInvariant, PTL

\* Every limited batch in a row costs at least one worker down to the minimum,
\* and a limited batch forgets the clean ones before it.
THEOREM WorkersBackOff == WorkersSpec => []BacksOff
<1>1. CtrlInv => BacksOff
  BY DEF CtrlInv
<1> QED  BY <1>1, ControllerInvariant, PTL

-----------------------------------------------------------------------------
(* The verdict of ProbePolicy.                                             *)

\* The rounds among the first n whose probe of the first target got through, and
\* the probes among the first n of a secondary target that count for it.
Won(n)    == {i \in 1..n : primary[i] # "fail"}
Oks(t, n) == {k \in 1..n : secondary[t][k] = "ok"}

PolicyTypes ==
  /\ policy \in PolicyRecord
  /\ primary \in [1..Attempts -> Outcomes]
  /\ phase \in {"rounds", "secondary", "decide", "decided"}
  /\ round \in Nat /\ target \in Nat /\ successes \in Nat /\ lateStreak \in Nat
  /\ attempts \in Nat /\ hits \in Nat
  /\ active \in BOOLEAN /\ overLatency \in BOOLEAN
  /\ secondarySuccess \in BOOLEAN /\ verified \in BOOLEAN

\* The tallies say of the recorded rounds what Policy says of all rounds.
TalliesAreOfRounds ==
  /\ attempts <= Attempts
  /\ successes = Cardinality(Won(attempts))
  /\ overLatency <=> \E i \in 1..attempts : primary[i] = "slow"
  /\ lateStreak <= attempts
  /\ \A i \in 1..attempts : i + lateStreak > attempts => primary[i] # "fail"
  /\ lateStreak < attempts => primary[attempts - lateStreak] = "fail"

\* A candidate is no longer probed after all rounds, or when it is lost.
DropsAreLost ==
  /\ phase = "rounds" => round = attempts /\ target = 0 /\ hits = 0
  /\ active => phase = "rounds" /\ attempts < Attempts
  /\ ~active => attempts = Attempts \/ ~CanStillPass(successes, lateStreak, Attempts - attempts)

\* The secondary probes made so far say what Policy says of their targets.
SecondariesCounted ==
  /\ phase = "secondary" =>
       /\ NeededTargets > 1 /\ target <= Secondaries /\ round <= SecondaryAttempts
       /\ target < Secondaries =>
            hits = IF Eligible THEN Cardinality(Oks(target + 1, round)) ELSE 0
  /\ phase \in {"decide", "decided"} =>
       target = IF NeededTargets > 1 THEN Secondaries ELSE 0
  /\ secondarySuccess <=>
       Eligible /\ \E t \in 1..target : Cardinality(Oks(t, SecondaryAttempts)) >= SecondaryMin

VerdictTaken ==
  /\ verified => phase = "decided"
  /\ phase = "decided" =>
       (verified <=> Eligible /\ TargetCount >= NeededTargets /\ ~overLatency)

PolicyInv == PolicyTypes /\ TalliesAreOfRounds /\ DropsAreLost /\ SecondariesCounted /\ VerdictTaken

LEMMA WonIsFinite ==
  ASSUME NEW n \in Nat
  PROVE  IsFiniteSet(Won(n)) /\ Cardinality(Won(n)) \in Nat /\ Cardinality(Won(n)) <= n
<1>1. IsFiniteSet(1..n) /\ Cardinality(1..n) = n
  BY FS_Interval
<1> QED  BY <1>1, FS_Subset, FS_CardinalityType DEF Won

LEMMA OksAreFinite ==
  ASSUME NEW t, NEW n \in Nat
  PROVE  IsFiniteSet(Oks(t, n)) /\ Cardinality(Oks(t, n)) \in Nat
<1>1. IsFiniteSet(1..n)
  BY FS_Interval
<1> QED  BY <1>1, FS_Subset, FS_CardinalityType DEF Oks

\* One more round adds its probe to the successes.
LEMMA WonGrows ==
  ASSUME NEW n \in Nat
  PROVE  Cardinality(Won(n + 1)) =
           IF primary[n + 1] = "fail" THEN Cardinality(Won(n)) ELSE Cardinality(Won(n)) + 1
<1>1. CASE primary[n + 1] = "fail"
  <2>1. Won(n + 1) = Won(n)
    BY <1>1 DEF Won
  <2> QED  BY <1>1, <2>1
<1>2. CASE primary[n + 1] # "fail"
  <2>1. Won(n + 1) = Won(n) \union {n + 1} /\ n + 1 \notin Won(n)
    BY <1>2 DEF Won
  <2> QED  BY <1>2, <2>1, WonIsFinite, FS_AddElement
<1> QED  BY <1>1, <1>2

LEMMA OksGrow ==
  ASSUME NEW t, NEW n \in Nat
  PROVE  Cardinality(Oks(t, n + 1)) =
           IF secondary[t][n + 1] = "ok" THEN Cardinality(Oks(t, n)) + 1
           ELSE Cardinality(Oks(t, n))
<1>1. CASE secondary[t][n + 1] # "ok"
  <2>1. Oks(t, n + 1) = Oks(t, n)
    BY <1>1 DEF Oks
  <2> QED  BY <1>1, <2>1
<1>2. CASE secondary[t][n + 1] = "ok"
  <2>1. Oks(t, n + 1) = Oks(t, n) \union {n + 1} /\ n + 1 \notin Oks(t, n)
    BY <1>2 DEF Oks
  <2> QED  BY <1>2, <2>1, OksAreFinite, FS_AddElement
<1> QED  BY <1>1, <1>2

\* Nothing was counted before the first probe.
LEMMA NothingCounted ==
  Cardinality(Won(0)) = 0 /\ \A t : Cardinality(Oks(t, 0)) = 0
<1>1. Won(0) = {} /\ \A t : Oks(t, 0) = {}
  BY DEF Won, Oks
<1> QED  BY <1>1, FS_EmptySet

\* The rounds not yet made add at most themselves.
LEMMA WonIsBounded ==
  ASSUME NEW m \in Nat, NEW n \in 0..m
  PROVE  Cardinality(Won(m)) <= Cardinality(Won(n)) + (m - n)
<1>1. IsFiniteSet((n + 1)..m) /\ Cardinality((n + 1)..m) = m - n
  <2> DEFINE a == n + 1
  <2>1. a \in Int /\ m \in Int /\ a <= m + 1 /\ m - n = m - a + 1
    OBVIOUS
  <2> HIDE DEF a
  <2>2. /\ IsFiniteSet(a..m)
        /\ Cardinality(a..m) = IF a > m THEN 0 ELSE m - a + 1
    BY <2>1, FS_Interval
  <2>3. Cardinality(a..m) = m - a + 1
    BY <2>1, <2>2
  <2> QED  BY <2>1, <2>2, <2>3 DEF a
<1>2. n \in Nat /\ IsFiniteSet(Won(n)) /\ Cardinality(Won(n)) \in Nat
  <2>1. n \in Nat
    OBVIOUS
  <2> QED  BY <2>1, WonIsFinite
<1>3. Won(m) \subseteq Won(n) \union ((n + 1)..m)
  BY DEF Won
<1>4. /\ IsFiniteSet(Won(n) \union ((n + 1)..m))
      /\ Cardinality(Won(n) \union ((n + 1)..m)) <=
           Cardinality(Won(n)) + Cardinality((n + 1)..m)
  <2>1. /\ IsFiniteSet(Won(n) \union ((n + 1)..m))
        /\ Cardinality(Won(n) \union ((n + 1)..m)) =
             Cardinality(Won(n)) + Cardinality((n + 1)..m)
               - Cardinality(Won(n) \cap ((n + 1)..m))
    BY <1>1, <1>2, FS_Union
  <2>2. Cardinality(Won(n) \cap ((n + 1)..m)) \in Nat
    BY <1>2, FS_Intersection, FS_CardinalityType
  <2> QED  BY <1>1, <1>2, <2>1, <2>2
<1>5. Cardinality(Won(m)) <= Cardinality(Won(n) \union ((n + 1)..m))
  BY <1>3, <1>4, FS_Subset
<1>6. /\ Cardinality(Won(m)) \in Nat
      /\ Cardinality(Won(n) \union ((n + 1)..m)) \in Nat
  BY <1>4, WonIsFinite, FS_CardinalityType
<1> QED  BY <1>1, <1>2, <1>4, <1>5, <1>6

\* The policy of the call is one of PolicyRecord.
LEMMA PolicyNumbers ==
  ASSUME PolicyTypes
  PROVE  /\ Attempts \in Nat \ {0} /\ MinSuccesses \in Nat \ {0}
         /\ NeededTargets \in Nat \ {0} /\ Secondaries \in Nat
         /\ StrictAttempts \in Nat /\ LateStreak \in Nat
         /\ SecondaryAttempts \in Nat \ {0} /\ SecondaryMin \in Nat \ {0}
         /\ Strict => LateStreak <= Attempts
         /\ Strict \in BOOLEAN
BY PolicyAssumption
   DEF PolicyTypes, PolicyRecord, Attempts, MinSuccesses, NeededTargets, Secondaries, Strict

\* A candidate that can no longer pass is not eligible, and not what Policy asks for.
LEMMA LostIsNoMatch ==
  ASSUME PolicyInv, ~active, attempts # Attempts
  PROVE  ~Eligible /\ ~Policy
<1>1. /\ attempts \in Nat /\ attempts < Attempts /\ successes \in Nat /\ lateStreak \in Nat
      /\ successes = Cardinality(Won(attempts))
      /\ ~CanStillPass(successes, lateStreak, Attempts - attempts)
      /\ lateStreak <= attempts
      /\ lateStreak < attempts => primary[attempts - lateStreak] = "fail"
  BY PolicyNumbers DEF PolicyInv, PolicyTypes, TalliesAreOfRounds, DropsAreLost
<1>2. /\ Attempts \in Nat /\ MinSuccesses \in Nat /\ LateStreak \in Nat
      /\ Strict => LateStreak <= Attempts
  BY PolicyNumbers DEF PolicyInv
<1>3. CASE successes + (Attempts - attempts) < MinSuccesses
  <2>1. Cardinality(Won(Attempts)) <= successes + (Attempts - attempts)
    BY <1>1, <1>2, WonIsBounded
  <2>2. Cardinality(Won(Attempts)) \in Nat
    BY <1>2, WonIsFinite
  <2>3. ~(Cardinality(Won(Attempts)) >= MinSuccesses)
    BY <1>1, <1>2, <1>3, <2>1, <2>2
  <2>4. ~Policy
    BY <2>3 DEF Policy, Won
  <2>5. ~Eligible
    BY <1>1, <1>2, <1>3 DEF Eligible
  <2> QED  BY <2>4, <2>5
<1>4. CASE Strict /\ lateStreak + (Attempts - attempts) < LateStreak
  <2>1. lateStreak < attempts
    BY <1>1, <1>2, <1>4
  <2>2. /\ attempts - lateStreak \in 1..Attempts
        /\ (attempts - lateStreak) + LateStreak > Attempts
    BY <1>1, <1>2, <1>4, <2>1
  <2>3. ~Policy
    BY <1>1, <1>4, <2>1, <2>2 DEF Policy
  <2>4. ~Eligible
    BY <1>1, <1>2, <1>4 DEF Eligible
  <2> QED  BY <2>3, <2>4
<1> QED  BY <1>1, <1>2, <1>3, <1>4 DEF CanStillPass

\* After all the rounds the tallies decide what Policy asks of them.
LEMMA FinishedRounds ==
  ASSUME PolicyInv, attempts = Attempts
  PROVE  /\ successes >= MinSuccesses <=>
              Cardinality({i \in 1..Attempts : primary[i] # "fail"}) >= MinSuccesses
         /\ (Strict => lateStreak >= LateStreak) <=>
              (Strict => \A i \in 1..Attempts : i + LateStreak > Attempts => primary[i] # "fail")
         /\ ~overLatency <=> \A i \in 1..Attempts : primary[i] # "slow"
<1>1. /\ successes = Cardinality(Won(Attempts))
      /\ overLatency <=> \E i \in 1..Attempts : primary[i] = "slow"
      /\ lateStreak \in Nat /\ lateStreak <= Attempts
      /\ \A i \in 1..Attempts : i + lateStreak > Attempts => primary[i] # "fail"
      /\ lateStreak < Attempts => primary[Attempts - lateStreak] = "fail"
  BY DEF PolicyInv, PolicyTypes, TalliesAreOfRounds
<1>2. Attempts \in Nat \ {0} /\ LateStreak \in Nat /\ (Strict => LateStreak <= Attempts)
  BY PolicyNumbers DEF PolicyInv
<1>3. ASSUME lateStreak >= LateStreak, NEW i \in 1..Attempts, i + LateStreak > Attempts
      PROVE  primary[i] # "fail"
  BY <1>1, <1>2, <1>3
<1>4. ASSUME Strict, ~(lateStreak >= LateStreak)
      PROVE  \E i \in 1..Attempts : i + LateStreak > Attempts /\ primary[i] = "fail"
  <2>1. /\ lateStreak < Attempts /\ Attempts - lateStreak \in 1..Attempts
        /\ (Attempts - lateStreak) + LateStreak > Attempts
    BY <1>1, <1>2, <1>4
  <2> QED  BY <1>1, <2>1
<1> QED  BY <1>1, <1>3, <1>4 DEF Won

\* The verdict of the code is the verdict of the policy on all the probes.
LEMMA DecidedByPolicy ==
  ASSUME PolicyInv
  PROVE  VerdictIsPolicy
<1> USE DEF PolicyInv
<1>1. PolicyTypes /\ (Eligible \in BOOLEAN)
  BY DEF Eligible
<1>2. ASSUME phase = "decided" PROVE (verified <=> Policy) /\ (verified => attempts = Attempts)
  <2>1. verified <=> Eligible /\ TargetCount >= NeededTargets /\ ~overLatency
    BY <1>2 DEF VerdictTaken
  <2>2. ~active
    BY <1>2 DEF DropsAreLost
  <2>3. CASE attempts # Attempts
    BY <2>1, <2>2, <2>3, LostIsNoMatch
  <2>4. CASE attempts = Attempts
    <3>1. Eligible => successes > 0
      BY PolicyNumbers DEF Eligible, PolicyTypes
    <3>2. Eligible => TargetCount = IF secondarySuccess THEN 2 ELSE 1
      BY <3>1 DEF TargetCount
    <3>3. target = IF NeededTargets > 1 THEN Secondaries ELSE 0
      BY <1>2 DEF SecondariesCounted
    <3>4. secondarySuccess <=>
            /\ Eligible
            /\ \E t \in 1..target : Cardinality(Oks(t, SecondaryAttempts)) >= SecondaryMin
      BY DEF SecondariesCounted
    <3>5. Eligible => (TargetCount >= NeededTargets <=>
            (NeededTargets > 1 =>
               /\ NeededTargets = 2
               /\ \E t \in 1..Secondaries :
                    Cardinality({k \in 1..SecondaryAttempts : secondary[t][k] = "ok"})
                      >= SecondaryMin))
      <4>1. CASE NeededTargets > 1
        <5>1. secondarySuccess <=>
                /\ Eligible
                /\ \E t \in 1..Secondaries :
                     Cardinality({k \in 1..SecondaryAttempts : secondary[t][k] = "ok"})
                       >= SecondaryMin
          BY <3>3, <3>4, <4>1 DEF Oks
        <5> QED  BY <3>2, <4>1, <5>1, PolicyNumbers
      <4>2. CASE ~(NeededTargets > 1)
        BY <3>2, <4>2, PolicyNumbers
      <4> QED  BY <4>1, <4>2
    <3>6. Eligible /\ ~overLatency <=>
            /\ Cardinality({i \in 1..Attempts : primary[i] # "fail"}) >= MinSuccesses
            /\ Strict => \A i \in 1..Attempts : i + LateStreak > Attempts => primary[i] # "fail"
            /\ \A i \in 1..Attempts : primary[i] # "slow"
      BY <2>4, FinishedRounds DEF Eligible
    <3> QED  BY <2>1, <2>4, <3>5, <3>6 DEF Policy
  <2> QED  BY <2>3, <2>4
<1>3. verified => phase = "decided"
  BY DEF VerdictTaken
<1> QED  BY <1>2, <1>3 DEF VerdictIsPolicy

LEMMA PolicyStarts == PolicyInit => PolicyInv
<1> SUFFICES ASSUME PolicyInit PROVE PolicyInv
  OBVIOUS
<1>1. policy \in PolicyRecord
  BY PolicyAssumption DEF PolicyInit
<1>2. PolicyTypes
  BY <1>1 DEF PolicyInit, PolicyTypes
<1>3. Attempts \in Nat \ {0}
  BY <1>2, PolicyNumbers
<1>4. TalliesAreOfRounds
  BY <1>3, NothingCounted DEF PolicyInit, TalliesAreOfRounds
<1>5. DropsAreLost
  BY <1>3 DEF PolicyInit, DropsAreLost
<1>6. SecondariesCounted
  BY DEF PolicyInit, SecondariesCounted
<1> QED  BY <1>2, <1>4, <1>5, <1>6 DEF PolicyInit, PolicyInv, VerdictTaken

\* What a call works on stays as it is.
LEMMA ReadOnly ==
  ASSUME UNCHANGED inputs
  PROVE  /\ Attempts' = Attempts /\ MinSuccesses' = MinSuccesses
         /\ NeededTargets' = NeededTargets /\ Secondaries' = Secondaries /\ Strict' = Strict
         /\ \A n : Won(n)' = Won(n)
         /\ \A t, n : Oks(t, n)' = Oks(t, n)
BY DEF inputs, Attempts, MinSuccesses, NeededTargets, Secondaries, Strict, Won, Oks

\* A recorded round is in the tallies.
LEMMA RoundIsTallied ==
  ASSUME PolicyInv, ProbeRound
  PROVE  PolicyTypes' /\ TalliesAreOfRounds'
<1>1. /\ PolicyTypes /\ attempts \in Nat /\ attempts < Attempts /\ round = attempts
      /\ successes \in Nat /\ lateStreak \in Nat /\ lateStreak <= attempts
  BY DEF PolicyInv, PolicyTypes, TalliesAreOfRounds, DropsAreLost, ProbeRound
<1>2. /\ Attempts \in Nat /\ Attempts' = Attempts /\ primary' = primary
      /\ \A n : Won(n)' = Won(n)
  BY <1>1, ReadOnly, PolicyNumbers DEF ProbeRound, inputs
<1>3. /\ attempts' = attempts + 1
      /\ successes' = IF primary[attempts + 1] = "fail" THEN successes ELSE successes + 1
      /\ lateStreak' = IF primary[attempts + 1] = "fail" THEN 0 ELSE lateStreak + 1
      /\ overLatency' = (overLatency \/ primary[attempts + 1] = "slow")
  BY <1>1 DEF ProbeRound, Recorded
<1>4. PolicyTypes'
  <2>1. active' \in BOOLEAN
    BY DEF ProbeRound
  <2>2. policy' = policy /\ round' = round + 1 /\ UNCHANGED <<phase, target, hits,
          secondarySuccess, verified>>
    BY DEF ProbeRound, inputs, secondaryVars
  <2>3. overLatency' \in BOOLEAN
    BY <1>1, <1>3 DEF PolicyTypes
  <2>4. successes' \in Nat /\ lateStreak' \in Nat /\ attempts' \in Nat /\ round' \in Nat
    BY <1>1, <1>3, <2>2
  <2> QED  BY <1>1, <1>2, <2>1, <2>2, <2>3, <2>4 DEF PolicyTypes
<1>5. successes' = Cardinality(Won(attempts'))
  BY <1>1, <1>3, WonGrows DEF PolicyInv, TalliesAreOfRounds
<1>6. overLatency' <=> \E i \in 1..(attempts + 1) : primary[i] = "slow"
  <2>1. 1..(attempts + 1) = (1..attempts) \union {attempts + 1}
    BY <1>1
  <2>2. overLatency <=> \E i \in 1..attempts : primary[i] = "slow"
    BY DEF PolicyInv, TalliesAreOfRounds
  <2> QED  BY <1>3, <2>1, <2>2
<1>7. lateStreak' <= attempts'
  BY <1>1, <1>3
<1>8. \A i \in 1..(attempts + 1) : i + lateStreak' > attempts + 1 => primary[i] # "fail"
  BY <1>1, <1>3 DEF PolicyInv, TalliesAreOfRounds
<1>9. lateStreak' < attempts + 1 => primary[(attempts + 1) - lateStreak'] = "fail"
  <2>1. CASE primary[attempts + 1] = "fail"
    BY <1>1, <1>3, <2>1
  <2>2. CASE primary[attempts + 1] # "fail"
    <3>1. lateStreak' = lateStreak + 1 /\ (attempts + 1) - lateStreak' = attempts - lateStreak
      BY <1>1, <1>3, <2>2
    <3>2. lateStreak' < attempts + 1 => lateStreak < attempts
      BY <1>1, <3>1
    <3> QED  BY <3>1, <3>2 DEF PolicyInv, TalliesAreOfRounds
  <2> QED  BY <2>1, <2>2
<1> QED  BY <1>1, <1>2, <1>3, <1>4, <1>5, <1>6, <1>7, <1>8, <1>9 DEF TalliesAreOfRounds

LEMMA ProbeRoundKeeps ==
  ASSUME PolicyInv, ProbeRound
  PROVE  PolicyInv'
<1>1. PolicyTypes' /\ TalliesAreOfRounds'
  BY RoundIsTallied
<1>2. /\ phase = "rounds" /\ phase' = "rounds" /\ round = attempts /\ attempts < Attempts
      /\ target = 0 /\ hits = 0 /\ target' = 0 /\ hits' = 0
      /\ attempts' = attempts + 1 /\ round' = round + 1 /\ Attempts' = Attempts
      /\ attempts \in Nat /\ Attempts \in Nat
      /\ active' = (/\ round + 1 < Attempts
                    /\ CanStillPass(successes', lateStreak', Attempts - (round + 1)))
  BY ReadOnly, PolicyNumbers
     DEF ProbeRound, Recorded, secondaryVars, PolicyInv, PolicyTypes, DropsAreLost
<1>3. CanStillPass(successes, lateStreak, Attempts - attempts)'
        = CanStillPass(successes', lateStreak', Attempts - (round + 1))
  BY <1>2, ReadOnly DEF CanStillPass, ProbeRound
<1>4. DropsAreLost'
  BY <1>2, <1>3 DEF DropsAreLost
<1>5. ~secondarySuccess /\ ~secondarySuccess' /\ ~verified' 
  BY <1>2 DEF ProbeRound, secondaryVars, PolicyInv, SecondariesCounted, VerdictTaken
<1>6. SecondariesCounted'
  BY <1>2, <1>5 DEF SecondariesCounted
<1>7. VerdictTaken'
  BY <1>2, <1>5 DEF VerdictTaken
<1> QED  BY <1>1, <1>4, <1>6, <1>7 DEF PolicyInv

\* After the rounds the tallies are left alone, and what is said of them.
LEMMA TalliesKept ==
  ASSUME PolicyInv, UNCHANGED <<inputs, tallies>>
  PROVE  /\ TalliesAreOfRounds'
         /\ Eligible' = Eligible
         /\ active' = active /\ overLatency' = overLatency /\ successes' = successes
         /\ policy' = policy /\ primary' = primary /\ attempts' = attempts
         /\ lateStreak' = lateStreak
         /\ Attempts' = Attempts /\ NeededTargets' = NeededTargets
         /\ Secondaries' = Secondaries
         /\ CanStillPass(successes, lateStreak, Attempts - attempts)'
              = CanStillPass(successes, lateStreak, Attempts - attempts)
         /\ \A t, n : Oks(t, n)' = Oks(t, n)
<1>1. /\ active' = active /\ successes' = successes /\ lateStreak' = lateStreak
      /\ attempts' = attempts /\ overLatency' = overLatency
      /\ policy' = policy /\ primary' = primary
  BY DEF tallies, inputs
<1>2. /\ Attempts' = Attempts /\ MinSuccesses' = MinSuccesses /\ Strict' = Strict
      /\ NeededTargets' = NeededTargets /\ Secondaries' = Secondaries
      /\ \A n : Won(n)' = Won(n)
      /\ \A t, n : Oks(t, n)' = Oks(t, n)
  BY ReadOnly
<1>3. TalliesAreOfRounds'
  BY <1>1, <1>2 DEF PolicyInv, TalliesAreOfRounds
<1> QED  BY <1>1, <1>2, <1>3 DEF Eligible, CanStillPass

LEMMA LeaveRoundsKeeps ==
  ASSUME PolicyInv, LeaveRounds
  PROVE  PolicyInv'
<1>1. /\ UNCHANGED <<inputs, tallies>> /\ round' = 0 /\ ~active /\ target = 0 /\ hits = 0
      /\ phase' = IF NeededTargets > 1 THEN "secondary" ELSE "decide"
      /\ UNCHANGED <<target, hits, secondarySuccess, verified>>
      /\ phase = "rounds"
  BY DEF LeaveRounds, secondaryVars, PolicyInv, DropsAreLost
<1>2. PolicyTypes'
  BY <1>1, TalliesKept DEF PolicyInv, PolicyTypes
<1>3. DropsAreLost'
  BY <1>1, TalliesKept DEF PolicyInv, DropsAreLost
<1>4. ~verified /\ ~verified' /\ ~secondarySuccess /\ ~secondarySuccess'
  BY <1>1 DEF PolicyInv, VerdictTaken, SecondariesCounted
<1>5. VerdictTaken'
  BY <1>1, <1>4 DEF VerdictTaken
<1>6. SecondariesCounted'
  <2>1. \A t : Cardinality(Oks(t, 0)') = 0
    BY <1>1, NothingCounted, TalliesKept
  <2>2. SecondaryAttempts \in Nat /\ Secondaries \in Nat
    BY PolicyNumbers DEF PolicyInv
  <2> QED  BY <1>1, <1>4, <2>1, <2>2, TalliesKept DEF SecondariesCounted
<1> QED  BY <1>1, <1>2, <1>3, <1>5, <1>6, TalliesKept DEF PolicyInv

LEMMA SecondaryProbeKeeps ==
  ASSUME PolicyInv, SecondaryProbe
  PROVE  PolicyInv'
<1>1. /\ UNCHANGED <<inputs, tallies>> /\ phase = "secondary" /\ phase' = "secondary"
      /\ target < Secondaries /\ Eligible /\ round < SecondaryAttempts
      /\ hits' = IF secondary[target + 1][round + 1] = "ok" THEN hits + 1 ELSE hits
      /\ round' = round + 1
      /\ UNCHANGED <<target, secondarySuccess, verified>>
  BY DEF SecondaryProbe
<1>2. /\ PolicyTypes /\ NeededTargets > 1 /\ target <= Secondaries
      /\ hits = Cardinality(Oks(target + 1, round))
  BY <1>1 DEF PolicyInv, SecondariesCounted
<1>3. round \in Nat /\ hits \in Nat /\ target \in Nat /\ SecondaryAttempts \in Nat
  BY <1>2, PolicyNumbers DEF PolicyTypes
<1>4. hits' = Cardinality(Oks(target + 1, round + 1))
  BY <1>1, <1>2, <1>3, OksGrow
<1>5. PolicyTypes'
  <2>1. hits' \in Nat /\ round' \in Nat
    BY <1>1, <1>3
  <2> QED  BY <1>1, <1>2, <2>1, TalliesKept DEF PolicyTypes
<1>6. DropsAreLost'
  <2>1. ~active /\ (attempts = Attempts \/
                      ~CanStillPass(successes, lateStreak, Attempts - attempts))
    BY <1>1 DEF PolicyInv, DropsAreLost
  <2> QED  BY <1>1, <2>1, TalliesKept DEF DropsAreLost
<1>7. SecondariesCounted'
  <2>1. round' <= SecondaryAttempts
    BY <1>1, <1>3
  <2> QED  BY <1>1, <1>2, <1>4, <2>1, TalliesKept DEF PolicyInv, SecondariesCounted
<1>8. VerdictTaken'
  BY <1>1 DEF PolicyInv, VerdictTaken
<1> QED  BY <1>1, <1>5, <1>6, <1>7, <1>8, TalliesKept DEF PolicyInv

LEMMA SecondaryTargetDoneKeeps ==
  ASSUME PolicyInv, SecondaryTargetDone
  PROVE  PolicyInv'
<1>1. /\ UNCHANGED <<inputs, tallies>> /\ phase = "secondary" /\ phase' = "secondary"
      /\ target < Secondaries /\ (~Eligible \/ round = SecondaryAttempts)
      /\ secondarySuccess' = (secondarySuccess \/ hits >= SecondaryMin)
      /\ target' = target + 1 /\ hits' = 0 /\ round' = 0
      /\ verified' = verified
  BY DEF SecondaryTargetDone
<1>2. /\ PolicyTypes /\ NeededTargets > 1
      /\ hits = IF Eligible THEN Cardinality(Oks(target + 1, round)) ELSE 0
      /\ secondarySuccess <=>
           /\ Eligible
           /\ \E t \in 1..target : Cardinality(Oks(t, SecondaryAttempts)) >= SecondaryMin
  BY <1>1 DEF PolicyInv, SecondariesCounted
<1>3. /\ target \in Nat /\ Secondaries \in Nat /\ SecondaryAttempts \in Nat
      /\ SecondaryMin \in Nat \ {0}
  BY <1>2, PolicyNumbers DEF PolicyTypes
<1>4. hits >= SecondaryMin <=>
        Eligible /\ Cardinality(Oks(target + 1, SecondaryAttempts)) >= SecondaryMin
  BY <1>1, <1>2, <1>3
<1>5. 1..(target + 1) = (1..target) \union {target + 1}
  BY <1>3
<1>6. secondarySuccess' <=>
        /\ Eligible
        /\ \E t \in 1..(target + 1) : Cardinality(Oks(t, SecondaryAttempts)) >= SecondaryMin
  BY <1>1, <1>2, <1>4, <1>5
<1>7. PolicyTypes'
  <2>1. target' \in Nat /\ secondarySuccess' \in BOOLEAN
    BY <1>1, <1>3
  <2> QED  BY <1>1, <1>2, <2>1, TalliesKept DEF PolicyTypes
<1>8. DropsAreLost'
  BY <1>1, TalliesKept DEF PolicyInv, DropsAreLost
<1>9. SecondariesCounted'
  <2>1. target' <= Secondaries /\ round' <= SecondaryAttempts
    BY <1>1, <1>3
  <2>2. \A t : Cardinality(Oks(t, 0)') = 0
    BY <1>1, NothingCounted, TalliesKept
  <2> QED  BY <1>1, <1>2, <1>6, <2>1, <2>2, TalliesKept DEF SecondariesCounted
<1>10. VerdictTaken'
  BY <1>1 DEF PolicyInv, VerdictTaken
<1> QED  BY <1>1, <1>7, <1>8, <1>9, <1>10, TalliesKept DEF PolicyInv

LEMMA LeaveSecondaryKeeps ==
  ASSUME PolicyInv, LeaveSecondary
  PROVE  PolicyInv'
<1>1. /\ UNCHANGED <<inputs, tallies>> /\ phase = "secondary" /\ phase' = "decide"
      /\ target = Secondaries
      /\ UNCHANGED <<round, target, hits, secondarySuccess, verified>>
  BY DEF LeaveSecondary, secondaryVars
<1>2. PolicyTypes'
  BY <1>1, TalliesKept DEF PolicyInv, PolicyTypes
<1>3. DropsAreLost'
  BY <1>1, TalliesKept DEF PolicyInv, DropsAreLost
<1>4. SecondariesCounted'
  BY <1>1, TalliesKept DEF PolicyInv, SecondariesCounted
<1>5. VerdictTaken'
  BY <1>1 DEF PolicyInv, VerdictTaken
<1> QED  BY <1>1, <1>2, <1>3, <1>4, <1>5, TalliesKept DEF PolicyInv

LEMMA DecideKeeps ==
  ASSUME PolicyInv, Decide
  PROVE  PolicyInv'
<1>1. /\ UNCHANGED <<inputs, tallies>> /\ phase = "decide" /\ phase' = "decided"
      /\ verified' = (Eligible /\ TargetCount >= NeededTargets /\ ~overLatency)
      /\ UNCHANGED <<round, target, hits, secondarySuccess>>
  BY DEF Decide, secondaryVars
<1>2. PolicyTypes'
  <2>1. verified' \in BOOLEAN
    BY <1>1
  <2> QED  BY <1>1, <2>1, TalliesKept DEF PolicyInv, PolicyTypes
<1>3. DropsAreLost'
  BY <1>1, TalliesKept DEF PolicyInv, DropsAreLost
<1>4. SecondariesCounted'
  BY <1>1, TalliesKept DEF PolicyInv, SecondariesCounted
<1>5. TargetCount' = TargetCount
  BY <1>1, TalliesKept DEF TargetCount
<1>6. VerdictTaken'
  <2>1. /\ Eligible' <=> Eligible
        /\ NeededTargets' = NeededTargets /\ overLatency' = overLatency
    BY <1>1, TalliesKept
  <2>2. verified' <=> Eligible /\ TargetCount >= NeededTargets /\ ~overLatency
    BY <1>1
  <2> QED  BY <1>1, <1>5, <2>1, <2>2 DEF VerdictTaken
<1> QED  BY <1>1, <1>2, <1>3, <1>4, <1>6, TalliesKept DEF PolicyInv

LEMMA PolicyStutters ==
  ASSUME PolicyInv, UNCHANGED policyVars
  PROVE  PolicyInv'
<1>1. /\ UNCHANGED <<inputs, tallies>>
      /\ UNCHANGED <<phase, round, target, hits, secondarySuccess, verified>>
  BY DEF policyVars, inputs, tallies
<1>2. PolicyTypes'
  BY <1>1, TalliesKept DEF PolicyInv, PolicyTypes
<1>3. DropsAreLost'
  BY <1>1, TalliesKept DEF PolicyInv, DropsAreLost
<1>4. SecondariesCounted'
  BY <1>1, TalliesKept DEF PolicyInv, SecondariesCounted
<1>5. TargetCount' = TargetCount
  BY <1>1, TalliesKept DEF TargetCount
<1>6. VerdictTaken'
  BY <1>1, <1>5, TalliesKept DEF PolicyInv, VerdictTaken
<1> QED  BY <1>1, <1>2, <1>3, <1>4, <1>6, TalliesKept DEF PolicyInv

THEOREM PolicyInvariant == PolicySpec => []PolicyInv
<1>1. PolicyInit => PolicyInv
  BY PolicyStarts
<1>2. PolicyInv /\ [PolicyNext]_policyVars => PolicyInv'
  BY ProbeRoundKeeps, LeaveRoundsKeeps, SecondaryProbeKeeps, SecondaryTargetDoneKeeps,
     LeaveSecondaryKeeps, DecideKeeps, PolicyStutters DEF PolicyNext
<1> QED  BY <1>1, <1>2, PTL DEF PolicySpec

\* Dropping a candidate early, skipping its secondary probes and recording only what
\* was probed never changes its verdict, whatever the policy, the number of targets
\* and the outcomes of the probes: check_batch_targets verifies exactly what the
\* policy asks of all the probes, and what it verifies it probed in every round.
THEOREM VerdictsFollowPolicy == PolicySpec => []VerdictIsPolicy
<1>1. PolicyInv => VerdictIsPolicy
  BY DecidedByPolicy
<1> QED  BY <1>1, PolicyInvariant, PTL

-----------------------------------------------------------------------------
(* The routing of a batch.                                                 *)

\* What a configuration that reached its batch went through.
Screened(c) == Cheap(c) /\ ~DisabledTls(c) /\ Consumer(c)

BatchIsScreened ==
  /\ call \in Calls
  /\ stage \in {"collected", "light", "routed", "retry", "recorded", "aborted"}
  /\ stage \in {"collected", "light"} => Gate # "check"
  /\ batch = CASE stage = "collected" \/ Gate = "check" -> call.batch
               [] stage = "light" -> {c \in call.batch : Cheap(c)}
               [] OTHER -> {c \in call.batch : Screened(c)}

\* A core verifies of what it accepts, and what failed verifies nothing.
AnswersAreAccepted ==
  /\ answer \in [Cores -> [state : {"none", "ok", "failed"}, verified : SUBSET Features]]
  /\ \A core \in Cores :
       /\ answer[core].state = "ok" => answer[core].verified \subseteq Accepted(core)
       /\ answer[core].state # "ok" => answer[core].verified = {}
       /\ stage \in {"collected", "light"} => answer[core].state = "none"
       /\ stage \in {"retry", "recorded"} =>
            \/ answer[core].state = "ok"
            \/ answer[core].state = "failed" /\ Gate = "transfer"

\* The second try of Xray: of what sing-box left, once, and before the record.
RetryIsOfTheRest ==
  /\ retried \in [state : {"none", "ok", "failed"}, verified : SUBSET Features]
  /\ retried.state = "ok" => retried.verified \subseteq {c \in Retried : XrayRuns(c)}
  /\ retried.state # "ok" => retried.verified = {}
  /\ retried.state # "none" => stage \in {"recorded", "aborted"}
  /\ stage = "recorded" =>
       /\ retried.state = "none" => {c \in Retried : XrayRuns(c)} = {}
       /\ retried.state = "failed" => Gate = "transfer"

ProbesAreThroughAll == probed \in [Cores -> {{}, GateTargets(Gate)}]

EndsAreFailures == stage = "aborted" /\ Gate = "transfer" => batch = {}

RoutingInv ==
  /\ BatchIsScreened /\ AnswersAreAccepted /\ RetryIsOfTheRest
  /\ ProbesAreThroughAll /\ EndsAreFailures

\* A configuration of a call is a record of Features.
LEMMA CallIsOfFeatures ==
  ASSUME RoutingInv
  PROVE  /\ Gate \in Gates /\ call.batch \subseteq Features
         /\ batch \subseteq Features
BY CallsAssumption DEF RoutingInv, BatchIsScreened, Gate

LEMMA FeatureValues ==
  ASSUME NEW c \in Features
  PROVE  /\ c.scheme \in {"vless", "vmess", "trojan", "ss", "hysteria", "hysteria2", "wg",
                          "socks", "socks4", "other"}
         /\ c.transport \in {"raw", "ws", "http", "grpc", "httpupgrade", "xhttp", "unknown"}
         /\ c.mode \in {"gun", "multi", "other"}
         /\ c.header \in {"none", "http", "other"}
         /\ c.security \in {"absent", "none", "tls", "truncated", "reality", "unknown"}
         /\ c.key \in {"none", "pbk", "pbk and sni"}
         /\ c.flow \in {"none", "vision", "vision-udp443", "other"}
         /\ c.extension \in {"none", "pin", "ech", "ech resolver"}
         /\ c.plugin \in {"none", "known", "unknown"}
         /\ c.obfs \in {"none", "known", "broken"}
         /\ c.ports \in {"single", "hopping", "bad"}
         /\ c.addressed \in BOOLEAN /\ c.credential \in BOOLEAN /\ c.plain \in BOOLEAN
         /\ c.authority \in BOOLEAN /\ c.crypt \in BOOLEAN /\ c.exotic \in BOOLEAN
         /\ c.insecure \in BOOLEAN
BY DEF Features

\* What is usable runs on one of the two cores.
LEMMA UsableRuns ==
  ASSUME NEW c, Usable(c)
  PROVE  XrayRuns(c) \/ SingBoxRuns(c)
BY DEF Usable, Cores, Runs

\* light_backend sends what it sends to Xray alone to a core that can run it.
LEMMA XrayRouteRuns ==
  ASSUME NEW c \in Features, Screened(c), Usable(c), LightBackend(c) = "xray"
  PROVE  XrayRuns(c)
<1>1. XrayRuns(c) \/ SingBoxRuns(c)
  BY UsableRuns
<1>2. c.scheme \in {"vless", "vmess", "trojan", "ss", "hysteria", "hysteria2", "wg",
                    "socks", "socks4", "other"}
  BY FeatureValues
<1>3. CASE c.scheme \in {"vless", "trojan"}
  BY <1>1, <1>3 DEF Screened, Consumer, ConsumerUrl, XrayRuns, SingBoxRuns, SingBoxVless,
                    SingBoxStream
<1>4. CASE c.scheme = "vmess"
  BY <1>1, <1>4 DEF Screened, Consumer, ConsumerVmess, XrayRuns, SingBoxRuns, SingBoxVmess,
                    SingBoxStream
<1>5. CASE c.scheme = "ss"
  BY <1>1, <1>5 DEF XrayRuns, SingBoxRuns, Streamed
<1>6. CASE c.scheme = "hysteria2"
  BY <1>1, <1>6 DEF XrayRuns, SingBoxRuns, SingBoxHysteria2, XrayParses, ParsesHysteria2,
                    Streamed
<1>7. CASE c.scheme = "socks"
  BY <1>7 DEF XrayRuns, XrayParses, Streamed
<1>8. CASE c.scheme \in {"hysteria", "wg", "socks4", "other"}
  BY <1>8 DEF Screened, Consumer
<1> QED  BY <1>2, <1>3, <1>4, <1>5, <1>6, <1>7, <1>8

\* And to sing-box alone, except for the two it is known not to look at.
LEMMA SingBoxRouteRuns ==
  ASSUME NEW c \in Features, Screened(c), Usable(c), LightBackend(c) = "sing-box",
         ~(~c.plain /\ c.transport = "grpc" /\ c.authority), ~c.exotic
  PROVE  SingBoxRuns(c)
<1>1. XrayRuns(c) \/ SingBoxRuns(c)
  BY UsableRuns
<1>2. c.scheme \in {"vless", "vmess", "trojan", "ss", "hysteria", "hysteria2", "wg",
                    "socks", "socks4", "other"}
  BY FeatureValues
<1>3. CASE c.scheme \in {"vless", "trojan"}
  <2>1. /\ c.transport \in {"raw", "ws", "grpc"} /\ c.extension = "none"
        /\ c.header = "none" /\ ~c.crypt
        /\ c.transport = "grpc" => c.mode = "gun"
        /\ c.scheme = "vless" => c.flow \in Flows
    BY <1>3 DEF Screened, Consumer, ConsumerUrl
  <2>2. XrayParses(c)
    BY <1>1, <1>3 DEF XrayRuns, SingBoxRuns, SingBoxVless, SingBoxStream
  <2>3. ~XrayOnlyTls(c) /\ ~LegacyRawHttp(c)
    BY <2>1 DEF XrayOnlyTls, LegacyRawHttp
  <2>4. ~XrayTransport(c) /\ ~XrayVless(c)
    BY <1>3, <2>3 DEF LightBackend
  <2>5. c.transport = "grpc" => ~c.authority
    BY <2>4 DEF XrayTransport, Written
  <2>6. TransportSettingsOk(c) /\ TlsSettingsOk(c)
    BY <2>1, <2>3, <2>5 DEF TransportSettingsOk, TlsSettingsOk
  <2>7. c.scheme = "vless" => c.flow \in {"none", "vision"}
    BY <2>4 DEF XrayVless
  <2> QED  BY <1>3, <2>2, <2>6, <2>7 DEF SingBoxRuns, SingBoxVless, SingBoxStream
<1>4. CASE c.scheme = "vmess"
  <2>1. /\ c.transport \in {"raw", "ws", "grpc"} /\ c.extension = "none"
        /\ c.transport = "grpc" => c.mode = "gun"
    BY <1>4 DEF Screened, Consumer, ConsumerVmess
  <2>2. XrayParses(c)
    BY <1>1, <1>4 DEF XrayRuns, SingBoxRuns, SingBoxVmess, SingBoxStream
  <2>3. ~XrayTransport(c)
    BY <1>4 DEF LightBackend
  <2>4. TransportSettingsOk(c) /\ TlsSettingsOk(c)
    BY <2>1, <2>3 DEF TransportSettingsOk, TlsSettingsOk, XrayOnlyTls, XrayTransport, Written
  <2> QED  BY <1>4, <2>2, <2>4 DEF SingBoxRuns, SingBoxVmess, SingBoxStream
<1>5. CASE c.scheme = "ss"
  BY <1>1, <1>5 DEF XrayRuns, SingBoxRuns
<1>6. CASE c.scheme = "hysteria2"
  BY <1>1, <1>6 DEF Screened, Consumer, ConsumerHysteria2, XrayRuns, XrayParses,
                    ParsesHysteria2, SingBoxRuns, SingBoxHysteria2, XrayOnlyTls
<1>7. CASE c.scheme = "socks"
  BY <1>7 DEF LightBackend
<1>8. CASE c.scheme \in {"hysteria", "wg", "socks4", "other"}
  BY <1>8 DEF Screened, Consumer
<1> QED  BY <1>2, <1>3, <1>4, <1>5, <1>6, <1>7, <1>8

\* check_proxies sends each configuration to a core that can run it, but for the
\* HTTP transport.
LEMMA CheckRouteRuns ==
  ASSUME NEW c \in Features, Usable(c), c.transport # "http"
  PROVE  IF CheckBackend(c) = "sing-box" THEN SingBoxRuns(c) ELSE XrayRuns(c)
<1>1. XrayRuns(c) \/ SingBoxRuns(c)
  BY UsableRuns
<1>2. c.scheme \in {"vless", "vmess", "trojan", "ss", "hysteria", "hysteria2", "wg",
                    "socks", "socks4", "other"}
  BY FeatureValues
<1>3. CASE c.scheme \in {"hysteria", "socks4"}
  BY <1>1, <1>3 DEF CheckBackend, XrayRuns, XrayParses
<1>4. CASE c.scheme \notin {"hysteria", "socks4"}
  BY <1>1, <1>2, <1>4
     DEF CheckBackend, XrayRuns, SingBoxRuns, SingBoxVless, SingBoxVmess, SingBoxStream,
         SingBoxHysteria2, XrayParses, ParsesHysteria2
<1> QED  BY <1>3, <1>4

\* A route is one of three.
LEMMA RouteValues ==
  ASSUME NEW c
  PROVE  LightBackend(c) \in {"xray", "sing-box", "fallback"}
BY DEF LightBackend

\* What reached a recorded batch was screened, unless check_proxies took it as it was.
LEMMA RecordedIsScreened ==
  ASSUME RoutingInv, stage = "recorded", Gate # "check", NEW c \in batch
  PROVE  c \in Features /\ Screened(c)
BY CallIsOfFeatures DEF RoutingInv, BatchIsScreened

LEMMA RoutingJudges ==
  ASSUME RoutingInv
  PROVE  VerdictsAreJudged
<1> SUFFICES ASSUME stage = "recorded", NEW c \in batch, Usable(c), ~Overlooked(c),
                    ~(Gate = "transfer" /\ (Failed \/ retried.state = "failed"))
             PROVE  Judged(c)
  BY DEF VerdictsAreJudged
<1>1. c \in Features
  BY CallIsOfFeatures
<1>2. \A core \in Cores :
        answer[core].state = "ok" /\ answer[core].verified \subseteq Accepted(core)
  BY DEF RoutingInv, AnswersAreAccepted, Failed
<1>3. retried.state # "failed"
  BY DEF RoutingInv, RetryIsOfTheRest
<1>4. "xray" \in Cores /\ "sing-box" \in Cores
  BY DEF Cores
<1>5. CASE Gate = "check"
  <2>1. IF CheckBackend(c) = "sing-box" THEN SingBoxRuns(c) ELSE XrayRuns(c)
    BY <1>1, <1>5, CheckRouteRuns DEF Overlooked
  <2>2. c \in Share(CheckBackend(c)) /\ CheckBackend(c) \in {"xray", "sing-box"}
    BY <1>5 DEF Share, Route, CheckBackend
  <2> QED  BY <1>2, <1>4, <2>1, <2>2 DEF Judged
<1>6. CASE Gate # "check"
  <2>1. Screened(c) /\ Route(c) = LightBackend(c)
    BY <1>6, RecordedIsScreened DEF Route
  <2>2. CASE LightBackend(c) = "xray"
    BY <1>1, <1>2, <1>4, <2>1, <2>2, XrayRouteRuns DEF Judged, Share
  <2>3. CASE LightBackend(c) = "sing-box"
    BY <1>1, <1>2, <1>4, <1>6, <2>1, <2>3, SingBoxRouteRuns DEF Judged, Share, Overlooked
  <2>4. CASE LightBackend(c) = "fallback"
    <3>1. c \in Share("sing-box") /\ c \in Fallbacks
      BY <2>1, <2>4 DEF Share, Fallbacks
    <3>2. CASE SingBoxRuns(c)
      BY <1>2, <1>4, <3>1, <3>2 DEF Judged
    <3>3. CASE ~SingBoxRuns(c)
      <4>1. c \notin answer["sing-box"].verified
        BY <1>2, <1>4, <1>6, <3>3 DEF Accepted, Accepts, Runs
      <4>2. c \in Retried /\ XrayRuns(c)
        BY <3>1, <3>3, <4>1, UsableRuns DEF Retried
      <4>3. retried.state = "ok"
        BY <1>3, <4>2 DEF RoutingInv, RetryIsOfTheRest
      <4> QED  BY <4>2, <4>3 DEF Judged
    <3> QED  BY <3>2, <3>3
  <2> QED  BY <2>2, <2>3, <2>4, RouteValues
<1> QED  BY <1>5, <1>6

LEMMA RoutingContains ==
  ASSUME RoutingInv
  PROVE  OutagesAreContained
<1>1. ASSUME stage = "recorded", NEW c \in Fallbacks
      PROVE  \/ c \in answer["sing-box"].verified \/ ~XrayRuns(c)
             \/ retried.state # "none"
  <2> SUFFICES ASSUME c \notin answer["sing-box"].verified, XrayRuns(c)
               PROVE  retried.state # "none"
    OBVIOUS
  <2>1. c \in {d \in Retried : XrayRuns(d)}
    BY DEF Retried
  <2> QED  BY <1>1, <2>1 DEF RoutingInv, RetryIsOfTheRest
<1>2. Gate = "transfer" /\ batch # {} => stage # "aborted"
  BY DEF RoutingInv, EndsAreFailures
<1> QED  BY <1>1, <1>2 DEF OutagesAreContained

LEMMA RoutingSeparates ==
  ASSUME RoutingInv
  PROVE  OneCoreVerifies
<1>1. /\ answer["sing-box"].verified \subseteq Accepted("sing-box")
      /\ answer["xray"].verified \subseteq Accepted("xray")
      /\ retried.verified \subseteq Retried
  BY DEF RoutingInv, AnswersAreAccepted, RetryIsOfTheRest, Cores
<1>2. Accepted("sing-box") \cap Accepted("xray") = {}
  BY DEF Accepted, Share
<1>3. answer["sing-box"].verified \cap Retried = {}
  BY DEF Retried
<1> QED  BY <1>1, <1>2, <1>3 DEF OneCoreVerifies

\* What Light could publish passes the cheap filter of the collector.
LEMMA CheapKeepsUsable ==
  ASSUME NEW c \in Features, Usable(c), Consumer(c), ~DisabledTls(c)
  PROVE  \/ Cheap(c)
         \/ c.scheme = "vmess" /\ c.security \in {"none", "reality"}
         \/ c.scheme = "trojan" /\ c.flow = "other"
<1>1. XrayRuns(c) \/ SingBoxRuns(c)
  BY UsableRuns
<1>2. /\ c.scheme \in {"vless", "vmess", "trojan", "ss", "hysteria", "hysteria2", "wg",
                       "socks", "socks4", "other"}
      /\ c.security \in {"absent", "none", "tls", "truncated", "reality", "unknown"}
      /\ c.flow \in {"none", "vision", "vision-udp443", "other"}
      /\ c.plugin \in {"none", "known", "unknown"}
  BY FeatureValues
<1>3. CASE c.scheme \in {"vless", "trojan"}
  <2>1. XrayParses(c)
    BY <1>1, <1>3 DEF XrayRuns, SingBoxRuns, SingBoxVless, SingBoxStream
  <2>2. c.transport \in Transports /\ SecurityOk(c) /\ c.addressed /\ c.credential
    BY <1>3, <2>1 DEF XrayParses, ParsesVless, ParsesTrojan, StreamOk, TransportOk
  <2>3. c.flow \in Flows \/ (c.scheme = "trojan" /\ c.flow = "other")
    <3>1. c.scheme = "vless" => c.flow \in Flows
      BY <2>1 DEF XrayParses, ParsesVless
    <3>2. c.flow \in Flows \/ c.flow = "other"
      BY <1>2 DEF Flows
    <3>3. c.scheme = "vless" \/ c.scheme = "trojan"
      BY <1>3
    <3> QED  BY <3>1, <3>2, <3>3
  <2> QED  BY <1>3, <2>2, <2>3 DEF Cheap, CheapUrl, CheapFlow
<1>4. CASE c.scheme = "vmess"
  <2>1. XrayParses(c)
    BY <1>1, <1>4 DEF XrayRuns, SingBoxRuns, SingBoxVmess, SingBoxStream
  <2>2. c.transport \in Transports /\ c.security # "unknown"
    BY <1>4, <2>1 DEF XrayParses, ParsesVmess, StreamOk, TransportOk, SecurityOk
  <2> QED  BY <1>2, <1>4, <2>2 DEF Cheap
<1>5. CASE c.scheme = "ss"
  BY <1>5 DEF Cheap, Consumer
<1>6. CASE c.scheme = "hysteria2"
  BY <1>6 DEF Cheap, Consumer, ConsumerHysteria2
<1>7. CASE c.scheme = "socks"
  BY <1>7 DEF Cheap
<1>8. CASE c.scheme \in {"hysteria", "wg", "socks4", "other"}
  BY <1>8 DEF Consumer
<1> QED  BY <1>2, <1>3, <1>4, <1>5, <1>6, <1>7, <1>8

LEMMA RoutingScreens ==
  ASSUME RoutingInv
  PROVE  ScreeningKeepsUsable
<1> SUFFICES ASSUME stage \notin {"collected", "light"}, Gate # "check",
                    NEW c \in call.batch, Usable(c), Consumer(c), ~DisabledTls(c)
             PROVE  \/ c \in batch
                    \/ c.scheme = "vmess" /\ c.security \in {"none", "reality"}
                    \/ c.scheme = "trojan" /\ c.flow = "other"
  BY DEF ScreeningKeepsUsable
<1>1. batch = {d \in call.batch : Screened(d)}
  BY DEF RoutingInv, BatchIsScreened
<1>2. c \in Features
  BY CallIsOfFeatures
<1> QED  BY <1>1, <1>2, CheapKeepsUsable DEF Screened

LEMMA RoutingCompares ==
  ASSUME RoutingInv
  PROVE  EvidenceComparable
<1>1. ASSUME NEW c \in Results, NEW d \in Results
      PROVE  \/ Delivered(c) = Delivered(d)
             \/ Gate = "stability" /\ (c \in retried.verified <=> Delivered(c) > Delivered(d))
  <2>1. CASE Gate # "stability"
    BY <2>1 DEF Delivered, RetryBytes
  <2>2. CASE Gate = "stability"
    <3>1. RetryBytes(Gate) = 10485760 /\ FirstBytes(Gate) = 1048576
      BY <2>2 DEF RetryBytes, FirstBytes, MiB
    <3> QED  BY <2>2, <3>1 DEF Delivered
  <2> QED  BY <2>1, <2>2
<1> QED  BY <1>1 DEF EvidenceComparable, RoutingInv, ProbesAreThroughAll

\* The vote on the targets takes none away: a minimum of as many as there are can
\* only be met by all of them.
LEMMA VoteKeepsAll ==
  ASSUME RoutingInv, NEW core \in Cores
  PROVE  Probed(core) = GateTargets(Gate)
<1> DEFINE T == GateTargets(Gate)
<1>1. IsFiniteSet(T) /\ Cardinality(T) \in Nat /\ Cardinality(T) <= 2
  <2>1. IsFiniteSet({"first"}) /\ Cardinality({"first"}) = 1
    BY FS_Singleton
  <2>2. /\ IsFiniteSet({"first"} \union {"second"})
        /\ Cardinality({"first"} \union {"second"}) = 2
    BY <2>1, FS_AddElement
  <2>3. {"first", "second"} = {"first"} \union {"second"}
    OBVIOUS
  <2>4. T = {"first"} \/ T = {"first", "second"}
    BY DEF GateTargets
  <2> HIDE DEF T
  <2> QED  BY <2>1, <2>2, <2>3, <2>4
<1>2. Minimum(core) >= Cardinality(T)
  BY <1>1 DEF Minimum, MinTargets
<1>3. Minimum(core) \in Nat
  BY <1>1 DEF Minimum, MinTargets
<1>4. IsFiniteSet(T \cap healthy) /\ Cardinality(T \cap healthy) \in Nat
  BY <1>1, FS_Intersection, FS_CardinalityType
<1>5. ASSUME Cardinality(T \cap healthy) >= Minimum(core) PROVE T \cap healthy = T
  <2>1. /\ T \cap healthy \subseteq T
        /\ Cardinality(T \cap healthy) <= Cardinality(T)
        /\ Cardinality(T \cap healthy) = Cardinality(T) => T \cap healthy = T
    BY <1>1, FS_Subset
  <2> QED  BY <1>1, <1>2, <1>3, <1>4, <1>5, <2>1
<1> QED  BY <1>5 DEF Probed, HealthyTargets

LEMMA RoutingStarts == Init => RoutingInv
<1> SUFFICES ASSUME Init PROVE RoutingInv
  OBVIOUS
<1>1. BatchIsScreened
  BY DEF Init, BatchIsScreened, Gate
<1>2. AnswersAreAccepted
  BY DEF Init, AnswersAreAccepted, None, Gate
<1>3. RetryIsOfTheRest /\ ProbesAreThroughAll /\ EndsAreFailures
  BY DEF Init, RetryIsOfTheRest, ProbesAreThroughAll, EndsAreFailures, None
<1> QED  BY <1>1, <1>2, <1>3 DEF RoutingInv

\* What the answers and the retry are judged by only depends on the batch.
LEMMA SharesKept ==
  ASSUME UNCHANGED <<call, batch>>
  PROVE  /\ Gate' = Gate
         /\ \A core : Accepted(core)' = Accepted(core)
         /\ Fallbacks' = Fallbacks
BY DEF Gate, Accepted, Accepts, Share, Route, Fallbacks

\* Before the routing nothing was answered.
LEMMA NothingAnswered ==
  ASSUME RoutingInv, stage \in {"collected", "light"}
  PROVE  /\ \A core \in Cores : answer[core].state = "none" /\ answer[core].verified = {}
         /\ retried.state = "none" /\ retried.verified = {}
BY DEF RoutingInv, AnswersAreAccepted, RetryIsOfTheRest

LEMMA FiltersKeep ==
  ASSUME RoutingInv, CollectorFilter \/ LightFilter
  PROVE  RoutingInv'
<1>1. /\ stage \in {"collected", "light"} /\ UNCHANGED <<call, answer, retried, healthy, probed>>
      /\ stage' \in {"light", "routed", "aborted"}
      /\ stage' = "aborted" => batch' = {}
  BY DEF CollectorFilter, LightFilter
<1>2. Gate' = Gate /\ Gate # "check"
  BY <1>1 DEF Gate, RoutingInv, BatchIsScreened
<1>3. BatchIsScreened'
  <2>1. call' \in Calls
    BY <1>1 DEF RoutingInv, BatchIsScreened
  <2>2. CASE CollectorFilter
    <3>1. batch = call.batch /\ stage' = "light" /\ batch' = {c \in batch : Cheap(c)}
      BY <2>2, <1>2 DEF CollectorFilter, RoutingInv, BatchIsScreened
    <3> QED  BY <1>1, <1>2, <2>1, <3>1 DEF BatchIsScreened
  <2>3. CASE LightFilter
    <3>1. /\ batch = {c \in call.batch : Cheap(c)} /\ stage' \in {"routed", "aborted"}
          /\ batch' = {c \in batch : ~DisabledTls(c) /\ Consumer(c)}
      BY <2>3, <1>2 DEF LightFilter, RoutingInv, BatchIsScreened
    <3>2. batch' = {c \in call.batch : Screened(c)}
      BY <3>1 DEF Screened
    <3> QED  BY <1>1, <1>2, <2>1, <3>1, <3>2 DEF BatchIsScreened
  <2> QED  BY <2>2, <2>3
<1>4. AnswersAreAccepted' /\ RetryIsOfTheRest'
  BY <1>1, NothingAnswered
     DEF RoutingInv, AnswersAreAccepted, RetryIsOfTheRest
<1>5. ProbesAreThroughAll' /\ EndsAreFailures'
  BY <1>1, <1>2 DEF RoutingInv, ProbesAreThroughAll, EndsAreFailures
<1> QED  BY <1>3, <1>4, <1>5 DEF RoutingInv

LEMMA AnswersKeep ==
  ASSUME RoutingInv, NEW core \in Cores, CoreIdle(core) \/ CoreAnswers(core) \/ CoreFails(core)
  PROVE  RoutingInv'
<1>1. /\ UNCHANGED <<call, stage, batch, retried, healthy>> /\ stage = "routed"
      /\ \E S \in SUBSET Accepted(core), r \in {"ok", "failed"} :
           /\ r = "failed" => S = {}
           /\ answer' = [answer EXCEPT ![core] = [state |-> r, verified |-> S]]
      /\ probed' = probed \/ probed' = [probed EXCEPT ![core] = Probed(core)]
  BY DEF CoreIdle, CoreAnswers, CoreFails, Verified, Failure
<1>2. PICK S \in SUBSET Accepted(core), r \in {"ok", "failed"} :
        /\ r = "failed" => S = {}
        /\ answer' = [answer EXCEPT ![core] = [state |-> r, verified |-> S]]
  BY <1>1
<1>3. Gate' = Gate /\ \A k : Accepted(k)' = Accepted(k)
  BY <1>1, SharesKept
<1>4. Accepted(core) \subseteq Features
  BY CallIsOfFeatures DEF Accepted, Share
<1>5. BatchIsScreened'
  BY <1>1, <1>3 DEF RoutingInv, BatchIsScreened
<1>6. AnswersAreAccepted'
  <2>1. answer \in [Cores -> [state : {"none", "ok", "failed"}, verified : SUBSET Features]]
    BY DEF RoutingInv, AnswersAreAccepted
  <2>2. [state |-> r, verified |-> S]
          \in [state : {"none", "ok", "failed"}, verified : SUBSET Features]
    BY <1>4
  <2>3. answer' \in [Cores -> [state : {"none", "ok", "failed"}, verified : SUBSET Features]]
    BY <1>2, <2>1, <2>2
  <2>4. ASSUME NEW k \in Cores
        PROVE  /\ answer'[k].state = "ok" => answer'[k].verified \subseteq Accepted(k)
               /\ answer'[k].state # "ok" => answer'[k].verified = {}
    <3>1. CASE k = core
      BY <1>2, <2>1, <3>1
    <3>2. CASE k # core
      BY <1>2, <2>1, <3>2 DEF RoutingInv, AnswersAreAccepted
    <3> QED  BY <3>1, <3>2
  <2> QED  BY <1>1, <1>3, <2>3, <2>4 DEF AnswersAreAccepted
<1>7. RetryIsOfTheRest'
  BY <1>1 DEF RoutingInv, RetryIsOfTheRest
<1>8. ProbesAreThroughAll'
  <2>1. Probed(core) = GateTargets(Gate) /\ probed \in [Cores -> {{}, GateTargets(Gate)}]
    BY VoteKeepsAll DEF RoutingInv, ProbesAreThroughAll
  <2> QED  BY <1>1, <1>3, <2>1 DEF ProbesAreThroughAll
<1>9. EndsAreFailures'
  BY <1>1 DEF EndsAreFailures
<1> QED  BY <1>5, <1>6, <1>7, <1>8, <1>9 DEF RoutingInv

LEMMA SettleKeeps ==
  ASSUME RoutingInv, Settle
  PROVE  RoutingInv'
<1>1. /\ stage = "routed" /\ Answered /\ UNCHANGED <<call, batch, answer, retried, healthy, probed>>
      /\ stage' = IF Failed /\ Gate # "transfer" THEN "aborted" ELSE "retry"
  BY DEF Settle
<1>2. Gate' = Gate /\ \A k : Accepted(k)' = Accepted(k)
  BY <1>1, SharesKept
<1>3. ASSUME stage' = "retry", NEW core \in Cores
      PROVE  \/ answer[core].state = "ok"
             \/ answer[core].state = "failed" /\ Gate = "transfer"
  <2>1. answer[core].state \in {"none", "ok", "failed"}
    BY DEF RoutingInv, AnswersAreAccepted
  <2>2. Failed => Gate = "transfer"
    BY <1>1, <1>3
  <2>3. answer[core].state # "none"
    BY <1>1, <2>2 DEF Answered, Failed, Cores
  <2> QED  BY <2>1, <2>2, <2>3 DEF Failed
<1>4. BatchIsScreened'
  BY <1>1, <1>2 DEF RoutingInv, BatchIsScreened
<1>5. AnswersAreAccepted'
  BY <1>1, <1>2, <1>3 DEF RoutingInv, AnswersAreAccepted
<1>6. RetryIsOfTheRest'
  BY <1>1 DEF RoutingInv, RetryIsOfTheRest
<1>7. ProbesAreThroughAll' /\ EndsAreFailures'
  BY <1>1, <1>2 DEF RoutingInv, ProbesAreThroughAll, EndsAreFailures
<1> QED  BY <1>4, <1>5, <1>6, <1>7 DEF RoutingInv

LEMMA RetryKeeps ==
  ASSUME RoutingInv, NoRetry \/ RetryAnswers \/ RetryFails
  PROVE  RoutingInv'
<1>1. /\ stage = "retry" /\ UNCHANGED <<call, batch, answer, healthy>>
      /\ stage' \in {"recorded", "aborted"}
      /\ stage' = "aborted" => Gate # "transfer"
      /\ \/ /\ retried' = retried /\ {c \in Retried : XrayRuns(c)} = {} /\ probed' = probed
         \/ /\ \E S \in SUBSET {c \in Retried : XrayRuns(c)} :
                 retried' = [state |-> "ok", verified |-> S]
            /\ probed' = [probed EXCEPT !["xray"] = Probed("xray")]
         \/ /\ retried' = [state |-> "failed", verified |-> {}] /\ probed' = probed
            /\ stage' = "recorded" => Gate = "transfer"
  BY DEF NoRetry, RetryAnswers, RetryFails, Verified, Failure
<1>2. /\ Gate' = Gate /\ \A k : Accepted(k)' = Accepted(k)
      /\ Retried' = Retried
  BY <1>1, SharesKept DEF Retried
<1>3. BatchIsScreened'
  BY <1>1, <1>2 DEF RoutingInv, BatchIsScreened
<1>4. AnswersAreAccepted'
  BY <1>1, <1>2 DEF RoutingInv, AnswersAreAccepted
<1>5. RetryIsOfTheRest'
  <2>1. Retried \subseteq Features
    BY CallIsOfFeatures DEF Retried, Fallbacks
  <2>2. retried.state = "none" /\ retried.verified = {} /\
        retried \in [state : {"none", "ok", "failed"}, verified : SUBSET Features]
    BY <1>1 DEF RoutingInv, RetryIsOfTheRest
  <2>3. CASE retried' = retried /\ {c \in Retried : XrayRuns(c)} = {}
    BY <1>1, <1>2, <2>2, <2>3 DEF RetryIsOfTheRest
  <2>4. CASE \E S \in SUBSET {c \in Retried : XrayRuns(c)} :
               retried' = [state |-> "ok", verified |-> S]
    <3>1. PICK S \in SUBSET {c \in Retried : XrayRuns(c)} :
            retried' = [state |-> "ok", verified |-> S]
      BY <2>4
    <3>2. S \in SUBSET Features
      BY <2>1
    <3> QED  BY <1>1, <1>2, <3>1, <3>2 DEF RetryIsOfTheRest
  <2>5. CASE /\ retried' = [state |-> "failed", verified |-> {}]
             /\ stage' = "recorded" => Gate = "transfer"
    BY <1>1, <1>2, <2>5 DEF RetryIsOfTheRest
  <2> QED  BY <1>1, <2>3, <2>4, <2>5
<1>6. ProbesAreThroughAll'
  <2>1. "xray" \in Cores
    BY DEF Cores
  <2>2. Probed("xray") = GateTargets(Gate) /\ probed \in [Cores -> {{}, GateTargets(Gate)}]
    BY <2>1, VoteKeepsAll DEF RoutingInv, ProbesAreThroughAll
  <2> QED  BY <1>1, <1>2, <2>1, <2>2 DEF ProbesAreThroughAll
<1>7. EndsAreFailures'
  BY <1>1, <1>2 DEF EndsAreFailures
<1> QED  BY <1>3, <1>4, <1>5, <1>6, <1>7 DEF RoutingInv

LEMMA RoutingStutters ==
  ASSUME RoutingInv, UNCHANGED vars
  PROVE  RoutingInv'
<1>1. UNCHANGED <<call, stage, batch, answer, retried, probed>>
  BY DEF vars
<1>2. Gate' = Gate /\ (\A k : Accepted(k)' = Accepted(k)) /\ Retried' = Retried
  BY <1>1, SharesKept DEF Retried
<1>3. BatchIsScreened' /\ AnswersAreAccepted'
  BY <1>1, <1>2 DEF RoutingInv, BatchIsScreened, AnswersAreAccepted
<1>4. RetryIsOfTheRest' /\ ProbesAreThroughAll' /\ EndsAreFailures'
  BY <1>1, <1>2 DEF RoutingInv, RetryIsOfTheRest, ProbesAreThroughAll, EndsAreFailures
<1> QED  BY <1>3, <1>4 DEF RoutingInv

THEOREM RoutingInvariant == Spec => []RoutingInv
<1>1. Init => RoutingInv
  BY RoutingStarts
<1>2. RoutingInv /\ [Next]_vars => RoutingInv'
  BY FiltersKeep, AnswersKeep, SettleKeeps, RetryKeeps, RoutingStutters DEF Next
<1> QED  BY <1>1, <1>2, PTL DEF Spec

\* Whatever the features of a batch, every configuration of a recorded one that some
\* core can run was judged by such a core, but for those Overlooked names and for
\* the transfer test: the tables of light_backend, requires_singbox and of the two
\* parsers agree.
THEOREM RecordedVerdictsAreJudged == Spec => []VerdictsAreJudged
<1>1. RoutingInv => VerdictsAreJudged
  BY RoutingJudges
<1> QED  BY <1>1, RoutingInvariant, PTL

\* What sing-box did not verify of the fallback candidates is tried on Xray before
\* a batch is recorded, and no outage ends a transfer test (validate_light_batch).
THEOREM OutagesStayContained == Spec => []OutagesAreContained
<1>1. RoutingInv => OutagesAreContained
  BY RoutingContains
<1> QED  BY <1>1, RoutingInvariant, PTL

\* No configuration is verified twice, so the order in which merge_light_metadata
\* takes the answers decides nothing.
THEOREM NoneVerifiedTwice == Spec => []OneCoreVerifies
<1>1. RoutingInv => OneCoreVerifies
  BY RoutingSeparates
<1> QED  BY <1>1, RoutingInvariant, PTL

\* The cheap filter of the collector keeps what Light could publish, but for the
\* VMess and Trojan configurations the property names (is_cheaply_supported_config
\* against is_light_consumer_compatible and the parsers).
THEOREM ScreeningLosesNoOther == Spec => []ScreeningKeepsUsable
<1>1. RoutingInv => ScreeningKeepsUsable
  BY RoutingScreens
<1> QED  BY <1>1, RoutingInvariant, PTL

\* What a gate verifies was asked for the same body through the same targets, except
\* by the Xray retry of the stability gate, which asks for more.
THEOREM EvidenceStaysComparable == Spec => []EvidenceComparable
<1>1. RoutingInv => EvidenceComparable
  BY RoutingCompares
<1> QED  BY <1>1, RoutingInvariant, PTL
=============================================================================
