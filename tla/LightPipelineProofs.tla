------------------------ MODULE LightPipelineProofs -------------------------
(***************************************************************************)
(* What the Light builder keeps for every pool, ranking, cap and budget.   *)
(***************************************************************************)
EXTENDS LightPipeline, LightSelectionProofs

-----------------------------------------------------------------------------
\* The budget arithmetic

\* A rounded up quotient of naturals is a natural.
LEMMA CeilDivType ==
  ASSUME NEW x \in Nat, NEW y \in Nat \ {0}
  PROVE  CeilDiv(x, y) \in Nat
BY DEF CeilDiv

\* The pass-rate estimate is a natural number of candidates.
LEMMA PerRateType ==
  ASSUME NEW n \in Nat, NEW percent \in Nat, NEW passed \in Nat,
         NEW tested \in Nat, NEW warmup \in Nat, NEW default \in Nat,
         NEW low \in Nat, NEW high \in Nat,
         default > 0, low > 0, high > 0
  PROVE  PerRate(n, percent, passed, tested, warmup, default, low, high) \in Nat
<1>1. n * percent \in Nat /\ n * percent * (tested + 4) \in Nat
  OBVIOUS
<1>2. 100 * (passed + 2) \in Nat \ {0}
  OBVIOUS
<1>3. /\ CeilDiv(n * percent, default) \in Nat
      /\ CeilDiv(n * percent, low) \in Nat
      /\ CeilDiv(n * percent, high) \in Nat
      /\ CeilDiv(n * percent * (tested + 4), 100 * (passed + 2)) \in Nat
  BY <1>1, <1>2, CeilDivType
<1>4. QED
  BY <1>3 DEF PerRate

\* The transfer reserve is never below the free slots and its margin.
LEMMA ReserveIsAboveSlots ==
  ASSUME NEW limit \in Nat, NEW chosen \in Nat, chosen < limit,
         NEW tested \in Nat, NEW passed \in Nat
  PROVE  LET target == TransferReserveTarget(limit, chosen, tested, passed)
         IN  target \in Nat /\ target >= limit - chosen + ReserveMargin
<1> DEFINE rem == Monus(limit, chosen)
           est == PerRate(rem, 108, passed, tested, 16, 80, 60, 95)
<1>1. rem \in Nat /\ rem = limit - chosen /\ rem # 0
  BY DEF Monus
<1> HIDE DEF rem
<1>2. est \in Nat
  <2>1. ASSUME NEW percent \in Nat, NEW warmup \in Nat, NEW default \in Nat,
               NEW low \in Nat, NEW high \in Nat,
               default > 0, low > 0, high > 0
        PROVE  PerRate(rem, percent, passed, tested, warmup, default, low, high) \in Nat
    BY <1>1, <2>1, PerRateType
  <2>2. QED
    BY ONLY <2>1, 108 \in Nat, 80 > 0, 60 > 0, 95 > 0
<1> HIDE DEF est
<1>3. /\ Clamp(est, rem + ReserveMargin, rem + ReserveHeadroom) \in Nat
      /\ Clamp(est, rem + ReserveMargin, rem + ReserveHeadroom) >= rem + ReserveMargin
  BY <1>1, <1>2, BudgetsAssumption DEF Clamp, Greatest, Least
<1>4. TransferReserveTarget(limit, chosen, tested, passed)
        = Clamp(est, rem + ReserveMargin, rem + ReserveHeadroom)
  BY <1>1 DEF TransferReserveTarget, est, rem
<1>5. QED
  BY <1>1, <1>3, <1>4

\* The transfer gate may test no more than the candidates that still fit, and
\* no more than the test limit unless it is over it already.
LEMMA TransferLimitIsBounded ==
  ASSUME NEW limit \in Nat, NEW chosen \in Nat, NEW tested \in Nat,
         NEW passed \in Nat, NEW eligible \in Nat
  PROVE  LET total == AdaptiveTransferTestLimit(limit, chosen, tested, passed, eligible)
         IN  /\ total \in Nat
             /\ total <= tested + eligible
             /\ total > tested => total <= TransferTestLimit
<1> DEFINE rem == Monus(limit, chosen)
           est == PerRate(rem, 120, passed, tested, 16, 80, 35, 95)
<1>1. rem \in Nat
  BY DEF Monus
<1> HIDE DEF rem
<1>2. est \in Nat
  <2>1. ASSUME NEW percent \in Nat, NEW warmup \in Nat, NEW default \in Nat,
               NEW low \in Nat, NEW high \in Nat,
               default > 0, low > 0, high > 0
        PROVE  PerRate(rem, percent, passed, tested, warmup, default, low, high) \in Nat
    BY <1>1, <2>1, PerRateType
  <2>2. QED
    BY ONLY <2>1, 120 \in Nat, 80 > 0, 35 > 0, 95 > 0
<1> DEFINE budget == Least(Greatest(est, rem + 8), eligible)
<1>3. AdaptiveTransferTestLimit(limit, chosen, tested, passed, eligible)
        = IF chosen >= limit \/ eligible = 0 THEN tested
          ELSE Least(tested + budget, TransferTestLimit)
  BY DEF AdaptiveTransferTestLimit, rem
<1> HIDE DEF est
<1>4. budget \in Nat /\ budget <= eligible
  BY <1>1, <1>2 DEF Least, Greatest
<1> HIDE DEF budget
<1>5. QED
  BY <1>3, <1>4, BudgetsAssumption DEF Least

-----------------------------------------------------------------------------
\* The inductive invariant

\* A candidate holds a gate only with all the gates before it, and nothing is
\* selected before the output is written.
GatesNest ==
  /\ strict \subseteq prefiltered
  /\ stabTested \subseteq strict /\ stable \subseteq stabTested
  /\ xferTested \subseteq stable /\ xferOk \subseteq xferTested
  /\ streamTested \subseteq xferOk /\ streamOk \subseteq streamTested
  /\ phase # "published" => selected = {}

\* The target is met only inside the transfer gate, and a wave that sees it met
\* rechecks and discovers nothing more.
MetOnlyInGate ==
  phase \in {"discover", "decide", "recheck"} => Cardinality(xferOk) < Limit

IInv == /\ TypeOK
        /\ GatesNest
        /\ PassesFitTogether
        /\ BudgetsKept
        /\ MetOnlyInGate
        /\ PublishesEveryStreamPass

\* The walk over the transfer passes, or over a part of them, takes them all.
LEMMA PassesAreSelected ==
  ASSUME TypeOK, PassesFitTogether, NEW S \in SUBSET xferOk
  PROVE  /\ Selected(S) = {S}
         /\ Fits(S, MaxEndpoint, MaxFamily)
         /\ Cardinality(S) \in Nat /\ Cardinality(S) <= Limit
<1>1. /\ xferOk \in SUBSET Configs /\ S \in SUBSET Configs
      /\ Limit \in Nat /\ MaxEndpoint \in Nat /\ MaxFamily \in Nat
  BY PipelineAssumption DEF TypeOK
<1>2. Fits(S, MaxEndpoint, MaxFamily)
  BY <1>1, PartFits DEF PassesFitTogether
<1>3. Cardinality(S) \in Nat /\ Cardinality(S) <= Limit
  <2>1. Cardinality(xferOk) \in Nat /\ Cardinality(S) \in Nat
    BY <1>1, SetsAreCounted
  <2>2. Cardinality(S) <= Cardinality(xferOk)
    BY <1>1, PartIsSmaller
  <2>3. QED
    BY <1>1, <2>1, <2>2 DEF PassesFitTogether
<1>4. Selected(S) = {S}
  BY <1>1, <1>2, <1>3, FittingPoolIsSelected DEF Selected
<1>5. QED
  BY <1>2, <1>3, <1>4

\* The candidates that still fit are no more than the free slots.
LEMMA AdditionalPotentialIsBounded ==
  ASSUME NEW chosen \in SUBSET Configs, NEW S \in SUBSET Configs,
         Cardinality(chosen) <= Limit,
         NEW extra \in AdditionalPotential(chosen, S)
  PROVE  extra \in Nat /\ extra <= Limit - Cardinality(chosen)
<1>1. PICK R \in SUBSET Configs :
        /\ extra = Cardinality(R) - Cardinality(chosen)
        /\ chosen \in SUBSET R
        /\ Cardinality(R) <= Limit
  BY DEF AdditionalPotential, Selections
<1>2. /\ Cardinality(R) \in Nat /\ Cardinality(chosen) \in Nat
      /\ Cardinality(chosen) <= Cardinality(R)
  BY <1>1, SetsAreCounted, PartIsSmaller
<1>3. QED
  BY <1>1, <1>2, PipelineAssumption

\* A batch is a part of what it is taken from, and no larger than asked for.
LEMMA BatchIsBounded ==
  ASSUME NEW S \in SUBSET Configs, NEW size, NEW maxEndpoint, NEW maxFamily,
         NEW batch \in Selections({}, S, size, maxEndpoint, maxFamily)
  PROVE  /\ batch \in SUBSET S
         /\ Cardinality(batch) \in Nat /\ Cardinality(batch) <= size
BY SetsAreCounted DEF Selections

\* Testing a batch within the remaining budget stays within the budget.
LEMMA BudgetIsKept ==
  ASSUME NEW S \in SUBSET Configs, NEW batch \in SUBSET Configs,
         NEW limit \in Nat, NEW room \in Nat,
         Cardinality(S) <= limit,
         Cardinality(batch) <= room, room <= limit - Cardinality(S)
  PROVE  Cardinality(S \cup batch) <= limit
<1>1. /\ Cardinality(S) \in Nat /\ Cardinality(batch) \in Nat
      /\ Cardinality(S \cup batch) \in Nat
  BY SetsAreCounted
<1>2. Cardinality(S \cup batch) <= Cardinality(S) + Cardinality(batch)
  BY UnionIsBounded
<1>3. QED
  BY <1>1, <1>2

\* The size of a stability or stream batch: at least one, within the budget.
LEMMA BatchSizeIsWithinBudget ==
  ASSUME NEW limit \in Nat, NEW used \in Nat, used < limit, NEW size \in Nat \ {0}
  PROVE  /\ Clamp(Monus(limit, used), 1, size) \in Nat \ {0}
         /\ Clamp(Monus(limit, used), 1, size) <= limit - used
BY DEF Clamp, Monus, Greatest, Least

LEMMA InitIInv == Init => IInv
<1> SUFFICES ASSUME Init PROVE IInv
  OBVIOUS
<1>1. Cardinality({}) = 0
  BY FS_EmptySet
<1>2. TypeOK
  <2>1. Len(Waves) \in Nat
    BY PipelineAssumption
  <2>2. wave \in 0..Len(Waves) /\ attempts \in [Configs -> Nat]
    BY <2>1 DEF Init
  <2>3. QED
    BY <2>2 DEF Init, TypeOK, Phases
<1>3. GatesNest /\ MetOnlyInGate /\ PublishesEveryStreamPass
  BY <1>1, PipelineAssumption
  DEF Init, GatesNest, MetOnlyInGate, PublishesEveryStreamPass
<1>4. PassesFitTogether
  BY <1>1, PipelineAssumption DEF Init, PassesFitTogether, Fits
<1>5. BudgetsKept
  BY <1>1, PipelineAssumption, BudgetsAssumption DEF Init, BudgetsKept
<1>6. QED
  BY <1>2, <1>3, <1>4, <1>5 DEF IInv

\* The steps that decide between batches change no set of candidates.
LEMMA DecisionKeepsIInv ==
  ASSUME IInv,
         \/ EndOfWaves \/ Decide \/ NothingToRecheck \/ EnterGate
         \/ LeaveStability \/ LeaveTransfer \/ LeaveStream \/ CoreFails
  PROVE  IInv'
<1> USE DEF discoveryVars, strictVars, stabilityVars, transferVars, streamVars
<1>1. /\ UNCHANGED <<discoveryVars, strictVars, stabilityVars, xferTested, xferOk,
                     streamVars>>
      /\ phase \notin {"published", "failed"} /\ phase' # "published"
      /\ phase' \in Phases /\ caller' \in {"wave", "final"} /\ cutShort' \in BOOLEAN
  BY DEF IInv, TypeOK, Phases, EndOfWaves, Decide, NothingToRecheck, EnterGate,
         LeaveStability, LeaveTransfer, LeaveStream, CoreFails, ReturnCount
<1>2. Selected(xferOk) = {xferOk} /\ Cardinality(xferOk) \in Nat
  BY PassesAreSelected DEF IInv
<1>3. xferSelected' \in Nat
  BY <1>2 DEF IInv, TypeOK, EndOfWaves, Decide, NothingToRecheck, EnterGate,
         LeaveStability, LeaveTransfer, LeaveStream, CoreFails, ReturnCount
<1>4. phase' \in {"discover", "decide", "recheck"} => Cardinality(xferOk) < Limit
  BY <1>2, PipelineAssumption
     DEF IInv, MetOnlyInGate, EndOfWaves, Decide, NothingToRecheck,
         EnterGate, LeaveStability, LeaveTransfer, LeaveStream, CoreFails, ReturnCount
<1>5. TypeOK'
  BY <1>1, <1>3 DEF IInv, TypeOK
<1>6. GatesNest' /\ BudgetsKept' /\ PublishesEveryStreamPass'
  BY <1>1 DEF IInv, GatesNest, BudgetsKept, PublishesEveryStreamPass
<1>7. PassesFitTogether'
  BY <1>1 DEF IInv, PassesFitTogether
<1>8. MetOnlyInGate'
  BY <1>1, <1>4 DEF MetOnlyInGate
<1>9. QED
  BY <1>5, <1>6, <1>7, <1>8 DEF IInv

\* A prefilter or strict recheck batch touches no gate behind it.
LEMMA DiscoveryBatchKeepsIInv ==
  ASSUME IInv, Prefilter \/ StrictRecheck
  PROVE  IInv'
<1> USE DEF discoveryVars, strictVars, stabilityVars, transferVars, streamVars
<1>1. /\ UNCHANGED <<caller, stabilityVars, transferVars, streamVars, cutShort>>
      /\ phase \in {"discover", "recheck"} /\ phase' \in {"discover", "decide"}
  BY DEF Prefilter, StrictRecheck
<1>2. CASE Prefilter
  <2>1. Waves[wave + 1] \in SUBSET Configs /\ wave + 1 \in 0..Len(Waves)
    BY <1>2, PipelineAssumption DEF IInv, TypeOK, Prefilter
  <2>2. TypeOK'
    BY <1>1, <1>2, <2>1 DEF IInv, TypeOK, Phases, Prefilter
  <2>3. GatesNest'
    BY <1>1, <1>2 DEF IInv, GatesNest, Prefilter
  <2>4. QED
    BY <1>1, <2>2, <2>3
    DEF IInv, PassesFitTogether, BudgetsKept, MetOnlyInGate, PublishesEveryStreamPass
<1>3. CASE StrictRecheck
  <2>1. PICK batch \in RecheckBatches :
          /\ attempts' = [c \in Configs |->
                            IF c \in batch THEN attempts[c] + 1 ELSE attempts[c]]
          /\ \E passed \in SUBSET batch : strict' = strict \cup passed
    BY <1>3 DEF StrictRecheck
  <2>2. Recheckable \in SUBSET Configs
    BY DEF IInv, TypeOK, Recheckable
  <2>3. batch \in SUBSET Recheckable
    BY <2>2, BatchIsBounded DEF RecheckBatches, Diverse
  <2>4. TypeOK'
    BY <1>1, <1>3, <2>1, <2>2, <2>3 DEF IInv, TypeOK, Phases, StrictRecheck
  <2>5. GatesNest'
    BY <1>1, <1>3, <2>1, <2>3 DEF IInv, GatesNest, StrictRecheck, Recheckable
  <2>6. QED
    BY <1>1, <2>4, <2>5
    DEF IInv, PassesFitTogether, BudgetsKept, MetOnlyInGate, PublishesEveryStreamPass
<1>4. QED
  BY <1>2, <1>3

LEMMA StabilityBatchKeepsIInv ==
  ASSUME IInv, StabilityBatch
  PROVE  IInv'
<1> USE DEF discoveryVars, strictVars, stabilityVars, transferVars, streamVars
<1> DEFINE size == Clamp(Monus(StabilityLimit, Cardinality(stabTested)), 1,
                         StabilityBatchSize)
<1>1. /\ UNCHANGED <<phase, caller, discoveryVars, strictVars, transferVars,
                     streamVars, cutShort>>
      /\ phase = "stability"
  BY DEF StabilityBatch
<1>2. PICK batch \in Selections({}, strict \ stabTested, size,
                                MaxEndpoint, MaxFamily) :
        /\ stabTested' = stabTested \cup batch
        /\ \E passed \in SUBSET batch : stable' = stable \cup passed
  BY DEF StabilityBatch
<1>3. /\ strict \ stabTested \in SUBSET Configs /\ stabTested \in SUBSET Configs
      /\ Cardinality(stabTested) \in Nat /\ Cardinality(stabTested) < StabilityLimit
  <2>1. strict \ stabTested \in SUBSET Configs /\ stabTested \in SUBSET Configs
    BY DEF IInv, TypeOK
  <2>2. ~(Cardinality(stabTested) >= StabilityLimit)
    BY DEF StabilityBatch, StabilityFilled
  <2>3. QED
    BY <2>1, <2>2, SetsAreCounted, PipelineAssumption
<1>4. size \in Nat \ {0} /\ size <= StabilityLimit - Cardinality(stabTested)
  BY <1>3, BatchSizeIsWithinBudget, PipelineAssumption
<1> HIDE DEF size
<1>5. batch \in SUBSET (strict \ stabTested) /\ Cardinality(batch) <= size
  BY <1>2, <1>3, BatchIsBounded
<1>6. Cardinality(stabTested') <= StabilityLimit
  BY <1>2, <1>3, <1>4, <1>5, BudgetIsKept, PipelineAssumption DEF IInv, BudgetsKept
<1>7. TypeOK'
  BY <1>1, <1>2, <1>3, <1>5 DEF IInv, TypeOK
<1>8. GatesNest'
  BY <1>1, <1>2, <1>5 DEF IInv, GatesNest
<1>9. BudgetsKept'
  BY <1>1, <1>6 DEF IInv, BudgetsKept
<1>10. QED
  BY <1>1, <1>7, <1>8, <1>9
  DEF IInv, PassesFitTogether, MetOnlyInGate, PublishesEveryStreamPass

\* A transfer batch: the selection before it is all that has passed, and the
\* batch adds candidates that fit beside it into slots that are free.
LEMMA TransferBatchKeepsIInv ==
  ASSUME IInv, TransferBatch
  PROVE  IInv'
<1> USE DEF discoveryVars, strictVars, stabilityVars, transferVars, streamVars
<1> DEFINE E == EligibleUntested(xferOk)
           n == Cardinality(xferOk)
           t == Cardinality(xferTested)
<1>1. /\ UNCHANGED <<phase, caller, discoveryVars, strictVars, stabilityVars,
                     xferSelected, streamVars, cutShort>>
      /\ phase = "transfer"
  BY DEF TransferBatch
<1>2. /\ Selected(xferOk) = {xferOk}
      /\ Fits(xferOk, MaxEndpoint, MaxFamily)
      /\ n \in Nat /\ n <= Limit
  BY PassesAreSelected DEF IInv
<1>3. /\ E \in SUBSET Configs /\ E \in SUBSET (stable \ xferTested)
      /\ xferOk \in SUBSET Configs /\ xferTested \in SUBSET Configs
      /\ \A c \in E : ~Blocked(xferOk, c, MaxEndpoint, MaxFamily)
  BY DEF IInv, TypeOK, EligibleUntested
<1>4. t \in Nat /\ t <= TransferTestLimit
  BY <1>3, SetsAreCounted DEF IInv, BudgetsKept
<1>5. PICK eligible \in AdditionalPotential(xferOk, E), window \in TransferBatchSizes :
        LET room == Monus(DynamicTestLimit(xferOk, eligible), t) IN
        /\ room > 0
        /\ \E batch \in Diverse(E, Least(room, window), 1) :
             /\ xferTested' = xferTested \cup batch
             /\ \E passed \in SUBSET batch : xferOk' = xferOk \cup passed
  BY <1>2 DEF TransferBatch
<1> DEFINE total == DynamicTestLimit(xferOk, eligible)
           room  == Monus(total, t)
           size  == Least(room, window)
<1>6. PICK batch \in Selections({}, E, size, 1, 1) :
        /\ xferTested' = xferTested \cup batch
        /\ \E passed \in SUBSET batch : xferOk' = xferOk \cup passed
  BY <1>5 DEF Diverse
<1>7. PICK passed \in SUBSET batch : xferOk' = xferOk \cup passed
  BY <1>6
<1> HIDE DEF E
<1>8. eligible \in Nat /\ eligible <= Limit - n /\ window \in Nat
  BY <1>2, <1>3, AdditionalPotentialIsBounded, PipelineAssumption
<1>9. /\ total \in Nat /\ total <= t + eligible
      /\ total > t => total <= TransferTestLimit
  BY <1>2, <1>4, <1>8, TransferLimitIsBounded, PipelineAssumption DEF DynamicTestLimit
<1>10. room > 0
  BY <1>5
<1> HIDE DEF total
<1>11. /\ size \in Nat /\ size <= eligible
       /\ size <= TransferTestLimit - t
  BY <1>4, <1>8, <1>9, <1>10, BudgetsAssumption DEF Monus, Least
<1> HIDE DEF size, n, t, room
<1>12. batch \in SUBSET E /\ Cardinality(batch) \in Nat /\ Cardinality(batch) <= size
  BY <1>3, <1>6, BatchIsBounded
<1>13. Fits(xferOk', MaxEndpoint, MaxFamily)
  BY <1>2, <1>3, <1>6, <1>7, <1>11, BatchFitsBeside, PipelineAssumption
<1>14. Cardinality(xferOk') <= Limit
  <2>1. Cardinality(passed) \in Nat /\ Cardinality(passed) <= Cardinality(batch)
    BY <1>3, <1>7, <1>12, SetsAreCounted, PartIsSmaller
  <2>2. Cardinality(passed) <= size /\ size <= Limit - n
    BY <1>2, <1>8, <1>11, <1>12, <2>1, PipelineAssumption
  <2>3. QED
    BY <1>2, <1>3, <1>7, <1>11, <1>12, <2>2, BudgetIsKept, PipelineAssumption DEF n
<1>15. Cardinality(xferTested') <= TransferTestLimit
  BY <1>3, <1>4, <1>6, <1>11, <1>12, BudgetIsKept, BudgetsAssumption DEF t
<1>16. TypeOK'
  BY <1>1, <1>3, <1>6, <1>7, <1>12 DEF IInv, TypeOK
<1>17. GatesNest'
  BY <1>1, <1>3, <1>6, <1>7, <1>12 DEF IInv, GatesNest
<1>18. PassesFitTogether' /\ BudgetsKept'
  BY <1>1, <1>13, <1>14, <1>15 DEF IInv, PassesFitTogether, BudgetsKept
<1>19. QED
  BY <1>1, <1>16, <1>17, <1>18 DEF IInv, MetOnlyInGate, PublishesEveryStreamPass

LEMMA StreamBatchKeepsIInv ==
  ASSUME IInv, StreamBatch
  PROVE  IInv'
<1> USE DEF discoveryVars, strictVars, stabilityVars, transferVars, streamVars
<1> DEFINE size == Clamp(Monus(StreamTestLimit, Cardinality(streamTested)), 1,
                         StreamBatchSize)
<1>1. /\ UNCHANGED <<phase, caller, discoveryVars, strictVars, stabilityVars,
                     transferVars, selected, cutShort>>
      /\ phase = "stream"
  BY DEF StreamBatch
<1>2. PICK batch \in Selections({}, xferOk \ streamTested, size, 1, RecheckFamily) :
        /\ streamTested' = streamTested \cup batch
        /\ \E passed \in SUBSET batch : streamOk' = streamOk \cup passed
  BY DEF StreamBatch, Diverse
<1>3. /\ xferOk \ streamTested \in SUBSET Configs /\ streamTested \in SUBSET Configs
      /\ Cardinality(streamTested) \in Nat /\ StreamTestLimit \in Nat
      /\ StreamTestLimit <= StreamLimit
      /\ Cardinality(streamTested) < StreamTestLimit
  <2>1. /\ xferOk \ streamTested \in SUBSET Configs /\ streamTested \in SUBSET Configs
        /\ xferOk \in SUBSET Configs
    BY DEF IInv, TypeOK
  <2>2. Cardinality(xferOk) \in Nat /\ Cardinality(streamTested) \in Nat
    BY <2>1, SetsAreCounted
  <2>3. QED
    BY <2>1, <2>2, PipelineAssumption DEF StreamBatch, StreamTestLimit, Least
<1>4. size \in Nat \ {0} /\ size <= StreamTestLimit - Cardinality(streamTested)
  BY <1>3, BatchSizeIsWithinBudget, PipelineAssumption
<1> HIDE DEF size
<1>5. batch \in SUBSET (xferOk \ streamTested) /\ Cardinality(batch) <= size
  BY <1>2 DEF Selections
<1>6. Cardinality(streamTested') <= StreamLimit
  <2>1. size <= StreamLimit - Cardinality(streamTested)
        /\ Cardinality(streamTested) <= StreamLimit
    BY <1>3, <1>4, PipelineAssumption
  <2>2. QED
    BY <1>2, <1>3, <1>4, <1>5, <2>1, BudgetIsKept, PipelineAssumption
<1>7. TypeOK'
  BY <1>1, <1>2, <1>3, <1>5 DEF IInv, TypeOK
<1>8. GatesNest'
  BY <1>1, <1>2, <1>5 DEF IInv, GatesNest
<1>9. BudgetsKept'
  BY <1>1, <1>6 DEF IInv, BudgetsKept
<1>10. QED
  BY <1>1, <1>7, <1>8, <1>9
  DEF IInv, PassesFitTogether, MetOnlyInGate, PublishesEveryStreamPass

\* The output is the whole set of stream passes, whatever the final ranking.
LEMMA PublishKeepsIInv ==
  ASSUME IInv, Publish
  PROVE  IInv' /\ selected' = streamOk
<1> USE DEF discoveryVars, strictVars, stabilityVars, transferVars
<1>1. /\ UNCHANGED <<caller, discoveryVars, strictVars, stabilityVars, transferVars,
                     streamTested, streamOk, cutShort>>
      /\ phase' = "published" /\ selected' \in Selected(streamOk)
  BY DEF Publish
<1>2. streamOk \in SUBSET xferOk /\ streamOk \in SUBSET Configs
  BY DEF IInv, GatesNest, TypeOK
<1>3. selected' = streamOk
  BY <1>1, <1>2, PassesAreSelected DEF IInv
<1>4. TypeOK'
  BY <1>1, <1>2, <1>3 DEF IInv, TypeOK, Phases
<1>5. QED
  BY <1>1, <1>3, <1>4
  DEF IInv, GatesNest, PassesFitTogether, BudgetsKept, MetOnlyInGate,
      PublishesEveryStreamPass

LEMMA StepKeepsIInv == IInv /\ [Next]_vars => IInv'
<1> SUFFICES ASSUME IInv, [Next]_vars PROVE IInv'
  OBVIOUS
<1>1. CASE Next
  BY <1>1, DecisionKeepsIInv, DiscoveryBatchKeepsIInv, StabilityBatchKeepsIInv,
     TransferBatchKeepsIInv, StreamBatchKeepsIInv, PublishKeepsIInv
  DEF Next, Discovery, TransferGate, StreamGate
<1>2. CASE UNCHANGED vars
  BY <1>2 DEF vars, IInv, TypeOK, GatesNest, PassesFitTogether, BudgetsKept,
              MetOnlyInGate, PublishesEveryStreamPass
<1>3. QED
  BY <1>1, <1>2

LEMMA InvariantHolds == Spec => []IInv
BY InitIInv, StepKeepsIInv, PTL DEF Spec

-----------------------------------------------------------------------------
\* What follows from the invariant

\* Every variable keeps its type (main and the fill functions).
THEOREM TypeCorrect == Spec => []TypeOK
<1>1. IInv => TypeOK
  BY DEF IInv
<1>2. QED
  BY <1>1, InvariantHolds, PTL

\* The transfer passes fit the caps and the limit together, for every ranking,
\* pass rate, cap and batch size (fill_transfer_gate).
THEOREM TransferPassesFit == Spec => []PassesFitTogether
<1>1. IInv => PassesFitTogether
  BY DEF IInv
<1>2. QED
  BY <1>1, InvariantHolds, PTL

\* The output is the set of stream passes: the last selection drops none (main).
THEOREM NoStreamPassDropped == Spec => []PublishesEveryStreamPass
<1>1. IInv => PublishesEveryStreamPass
  BY DEF IInv
<1>2. QED
  BY <1>1, InvariantHolds, PTL

\* No gate runs more tests than its limit (the three fill functions).
THEOREM BudgetsAreKept == Spec => []BudgetsKept
<1>1. IInv => BudgetsKept
  BY DEF IInv
<1>2. QED
  BY <1>1, InvariantHolds, PTL

\* The reserve target is above the free slots by its margin, and the potential is
\* cut at the free slots: at the top of a wave the reserve is never ready.
LEMMA ReserveIsNeverReady ==
  ASSUME IInv, phase = "decide", NEW chosen \in Selected(xferOk),
         NEW extra \in AdditionalPotential(chosen, StrictUntested)
  PROVE  /\ ~(Cardinality(chosen) >= Limit)
         /\ ~(extra >= ReserveTarget(Cardinality(chosen)))
<1>1. /\ chosen = xferOk
      /\ xferOk \in SUBSET Configs /\ xferTested \in SUBSET Configs
      /\ StrictUntested \in SUBSET Configs
  BY PassesAreSelected DEF IInv, TypeOK, StrictUntested
<1>2. /\ Cardinality(chosen) \in Nat /\ Cardinality(xferTested) \in Nat
      /\ Cardinality(xferOk) \in Nat
  BY <1>1, SetsAreCounted
<1>3. Cardinality(chosen) < Limit
  BY <1>1 DEF IInv, MetOnlyInGate
<1>4. extra \in Nat /\ extra <= Limit - Cardinality(chosen)
  BY <1>1, <1>2, <1>3, AdditionalPotentialIsBounded, PipelineAssumption
<1> DEFINE target == ReserveTarget(Cardinality(chosen))
<1>5. target \in Nat /\ target >= Limit - Cardinality(chosen) + ReserveMargin
  BY <1>2, <1>3, ReserveIsAboveSlots, PipelineAssumption DEF ReserveTarget
<1> HIDE DEF target
<1>6. ~(extra >= target)
  BY <1>2, <1>4, <1>5, BudgetsAssumption, PipelineAssumption
<1>7. QED
  BY <1>2, <1>3, <1>6, PipelineAssumption DEF target

\* With a margin in the reserve target, as the code's 8, no wave ever fills the
\* transfer gate, whatever passes, and every chunk is discovered first
\* (fill_transfer_gate's first call in main and the three breaks around it are
\* never reached).
THEOREM WavesNeverFillGate == Spec => []WaveNeverFillsGate
<1> USE DEF discoveryVars, strictVars, stabilityVars, transferVars, streamVars
<1>1. Init => WaveNeverFillsGate
  BY DEF Init, WaveNeverFillsGate
<1>2. IInv /\ Decide => phase' = "recheck" /\ UNCHANGED <<caller, wave>>
  BY ReserveIsNeverReady DEF Decide
<1>3. IInv /\ WaveNeverFillsGate /\ [Next]_vars => WaveNeverFillsGate'
  <2> SUFFICES ASSUME IInv, WaveNeverFillsGate, [Next]_vars
               PROVE  WaveNeverFillsGate'
    OBVIOUS
  <2>1. CASE Prefilter
    <3>1. wave < Len(Waves) /\ wave \in Nat /\ Len(Waves) \in Nat
      BY <2>1, PipelineAssumption DEF Prefilter, IInv, TypeOK
    <3>2. caller = "wave"
      BY <3>1 DEF WaveNeverFillsGate, IInv, TypeOK
    <3> QED  BY <2>1, <3>2 DEF Prefilter, WaveNeverFillsGate
  <2>2. CASE Decide
    BY <2>2, <1>2 DEF WaveNeverFillsGate
  <2>3. CASE EndOfWaves \/ NothingToRecheck \/ StrictRecheck
    BY <2>3 DEF WaveNeverFillsGate, EndOfWaves, NothingToRecheck, StrictRecheck
  <2>4. CASE LeaveTransfer
    <3>1. caller = "final" /\ UNCHANGED wave
      BY <2>4 DEF LeaveTransfer, WaveNeverFillsGate, IInv, TypeOK
    <3>2. caller' = "final" /\ phase' = "stream"
      BY <2>4, <3>1 DEF LeaveTransfer, ReturnCount
    <3> QED  BY <3>1, <3>2 DEF WaveNeverFillsGate
  <2>5. CASE EnterGate \/ StabilityBatch \/ LeaveStability \/ TransferBatch
    BY <2>5 DEF WaveNeverFillsGate, EnterGate, StabilityBatch, LeaveStability,
       TransferBatch
  <2>6. CASE StreamGate \/ CoreFails
    BY <2>6 DEF StreamGate, WaveNeverFillsGate, StreamBatch, LeaveStream, Publish,
       CoreFails
  <2>7. CASE UNCHANGED vars
    BY <2>7 DEF vars, WaveNeverFillsGate
  <2>8. QED
    BY <2>1, <2>2, <2>3, <2>4, <2>5, <2>6, <2>7 DEF Next, Discovery, TransferGate
<1>4. QED
  BY <1>1, <1>3, InvariantHolds, PTL DEF Spec

-----------------------------------------------------------------------------
\* Verdicts

\* A failed gate is never held later and no candidate is rechecked after it has
\* passed or more than MaxAttempts times (the *_tested sets, final_attempts).
THEOREM VerdictsStay == Spec => VerdictsAreFinal
<1> USE DEF discoveryVars, strictVars, stabilityVars, transferVars, streamVars
<1> DEFINE Keeps(c) ==
      /\ c \in stabTested \ stable => c \notin stable'
      /\ c \in xferTested \ xferOk => c \notin xferOk'
      /\ c \in streamTested \ streamOk => c \notin streamOk'
      /\ attempts'[c] # attempts[c] => c \notin strict /\ attempts'[c] <= MaxAttempts
<1>1. ASSUME IInv, [Next]_vars PROVE \A c \in Configs : Keeps(c)
  <2>1. CASE StabilityBatch
    BY <2>1 DEF StabilityBatch, Selections
  <2>2. CASE TransferBatch
    BY <2>2 DEF TransferBatch, Diverse, Selections, EligibleUntested
  <2>3. CASE StreamBatch
    BY <2>3 DEF StreamBatch, Diverse, Selections
  <2>4. CASE StrictRecheck
    <3>1. PICK batch \in RecheckBatches :
            attempts' = [c \in Configs |->
                           IF c \in batch THEN attempts[c] + 1 ELSE attempts[c]]
      BY <2>4 DEF StrictRecheck
    <3>2. batch \in SUBSET Recheckable
      BY DEF RecheckBatches, Diverse, Selections
    <3>3. ASSUME NEW c \in Configs, attempts'[c] # attempts[c]
          PROVE  c \notin strict /\ attempts'[c] <= MaxAttempts
      <4>1. c \in batch /\ attempts'[c] = attempts[c] + 1
        BY <3>1, <3>3
      <4>2. c \notin strict /\ attempts[c] < MaxAttempts
        BY <4>1, <3>2 DEF Recheckable
      <4>3. attempts[c] \in Nat
        BY <1>1, <3>3 DEF IInv, TypeOK
      <4>4. QED
        BY <4>1, <4>2, <4>3, PipelineAssumption
    <3>4. QED
      BY <2>4, <3>3 DEF StrictRecheck
  <2>5. CASE \/ Prefilter \/ EndOfWaves \/ Decide \/ NothingToRecheck
             \/ EnterGate \/ LeaveStability \/ LeaveTransfer
             \/ LeaveStream \/ Publish \/ CoreFails
    BY <2>5 DEF Prefilter, EndOfWaves, Decide, NothingToRecheck, EnterGate,
       LeaveStability, LeaveTransfer, LeaveStream, Publish, CoreFails, ReturnCount
  <2>6. CASE UNCHANGED vars
    BY <2>6 DEF vars
  <2>7. QED
    BY <1>1, <2>1, <2>2, <2>3, <2>4, <2>5, <2>6
    DEF Next, Discovery, TransferGate, StreamGate
<1>2. IInv /\ [Next]_vars => [\A c \in Configs : Keeps(c)]_vars
  BY <1>1
<1>3. QED
  BY <1>2, InvariantHolds, PTL DEF Spec, VerdictsAreFinal

-----------------------------------------------------------------------------
\* The builder implements LightFunnel

\* How many gates a candidate has passed, read off the nested gate sets.
LEMMA LevelsOfGates ==
  ASSUME IInv, NEW c \in Configs
  PROVE  /\ c \notin prefiltered => Passed(c) = 0
         /\ c \in prefiltered \ strict => Passed(c) = 1
         /\ c \in strict \ stable => Passed(c) = 2
         /\ c \in stable \ xferOk => Passed(c) = 3
         /\ c \in xferOk \ streamOk => Passed(c) = 4
         /\ c \in streamOk <=> Passed(c) = 5
BY DEF IInv, GatesNest, Passed

\* Some candidates of level k pass gate k + 1: a PassGate step of the funnel.
LEMMA BatchPassesGate ==
  ASSUME NEW k \in 0..4, NEW S \in SUBSET Configs,
         \A c \in S : Levels[c] = k,
         Levels' = [c \in Configs |-> IF c \in S THEN k + 1 ELSE Levels[c]],
         selected' = selected,
         Outcome = "running", Outcome' = "running"
  PROVE  Funnel!PassGate
<1>1. S \in SUBSET {c \in Configs : Levels[c] = k}
  OBVIOUS
<1>2. k \in 0..(Funnel!Gates - 1)
  BY DEF Funnel!Gates
<1>3. QED
  BY <1>1, <1>2 DEF Funnel!PassGate

\* A step that adds S to the set of one gate, S drawn from the set before it.
LEMMA GateSetGrows ==
  ASSUME IInv, IInv', NEW S \in SUBSET Configs, NEW k \in 0..4,
         selected' = selected,
         phase \notin {"published", "failed"}, phase' \notin {"published", "failed"},
         \/ k = 0 /\ S \cap prefiltered = {} /\ prefiltered' = prefiltered \cup S
              /\ UNCHANGED <<strict, stable, xferOk, streamOk>>
         \/ k = 1 /\ S \subseteq prefiltered \ strict /\ strict' = strict \cup S
              /\ UNCHANGED <<prefiltered, stable, xferOk, streamOk>>
         \/ k = 2 /\ S \subseteq strict \ stable /\ stable' = stable \cup S
              /\ UNCHANGED <<prefiltered, strict, xferOk, streamOk>>
         \/ k = 3 /\ S \subseteq stable \ xferOk /\ xferOk' = xferOk \cup S
              /\ UNCHANGED <<prefiltered, strict, stable, streamOk>>
         \/ k = 4 /\ S \subseteq xferOk \ streamOk /\ streamOk' = streamOk \cup S
              /\ UNCHANGED <<prefiltered, strict, stable, xferOk>>
  PROVE  Funnel!PassGate
<1>1. \A c \in S : Levels[c] = k
  BY LevelsOfGates DEF Levels
<1>2. Levels' = [c \in Configs |-> IF c \in S THEN k + 1 ELSE Levels[c]]
  <2>1. ASSUME NEW c \in Configs
        PROVE  Passed(c)' = IF c \in S THEN k + 1 ELSE Passed(c)
    BY DEF IInv, GatesNest, Passed
  <2>2. QED
    BY <2>1 DEF Levels
<1>3. Outcome = "running" /\ Outcome' = "running"
  BY DEF Outcome
<1>4. QED
  BY <1>1, <1>2, <1>3, BatchPassesGate

\* The funnel counts sets and reads the caps as the builder does.
LEMMA SameCaps ==
  /\ \A S : Funnel!Cardinality(S) = Cardinality(S)
  /\ \A S, m, n : Funnel!Fits(S, m, n) <=> Fits(S, m, n)
<1>1. ASSUME NEW S PROVE Funnel!Cardinality(S) = Cardinality(S)
  BY DEF Funnel!Cardinality, Cardinality
<1>2. QED
  BY <1>1 DEF Funnel!Fits, Fits, Funnel!AtEndpoint, AtEndpoint, Funnel!InFamily, InFamily

\* Every step of the builder is a step of the funnel or changes nothing of it.
LEMMA StepsImplementFunnel ==
  IInv /\ IInv' /\ [Next]_vars => [Funnel!Next]_(Funnel!funnelVars)
<1> SUFFICES ASSUME IInv, IInv', [Next]_vars
             PROVE  Funnel!Next \/ UNCHANGED Funnel!funnelVars
  OBVIOUS
<1> USE DEF discoveryVars, strictVars, stabilityVars, transferVars, streamVars
<1>1. CASE Prefilter
  <2>1. PICK passed \in SUBSET Waves[wave + 1] : prefiltered' = prefiltered \cup passed
    BY <1>1 DEF Prefilter
  <2> DEFINE S == passed \ prefiltered
  <2>2. prefiltered' = prefiltered \cup S /\ S \cap prefiltered = {}
    BY <2>1
  <2>3. S \in SUBSET Configs /\ 0 \in 0..4
    BY <2>2 DEF IInv, TypeOK
  <2> HIDE DEF S
  <2>4. Funnel!PassGate
    BY <1>1, <2>2, <2>3, GateSetGrows DEF Prefilter
  <2>5. QED
    BY <2>4 DEF Funnel!Next
<1>2. CASE StrictRecheck
  <2>1. PICK batch \in RecheckBatches :
          \E passed \in SUBSET batch : strict' = strict \cup passed
    BY <1>2 DEF StrictRecheck
  <2>2. PICK passed \in SUBSET batch : strict' = strict \cup passed
    BY <2>1
  <2>3. passed \in SUBSET (prefiltered \ strict) /\ passed \in SUBSET Configs
    BY <2>2 DEF RecheckBatches, Diverse, Selections, Recheckable, IInv, TypeOK
  <2>4. Funnel!PassGate
    BY <1>2, <2>2, <2>3, GateSetGrows DEF StrictRecheck
  <2>5. QED
    BY <2>4 DEF Funnel!Next
<1>3. CASE StabilityBatch
  <2>1. PICK passed \in SUBSET (strict \ stabTested) : stable' = stable \cup passed
    BY <1>3 DEF StabilityBatch, Selections
  <2>2. passed \in SUBSET (strict \ stable) /\ passed \in SUBSET Configs
    BY <2>1 DEF IInv, GatesNest, TypeOK
  <2>3. Funnel!PassGate
    BY <1>3, <2>1, <2>2, GateSetGrows DEF StabilityBatch
  <2>4. QED
    BY <2>3 DEF Funnel!Next
<1>4. CASE TransferBatch
  <2>1. PICK passed \in SUBSET (stable \ xferTested) : xferOk' = xferOk \cup passed
    BY <1>4 DEF TransferBatch, Diverse, Selections, EligibleUntested
  <2>2. passed \in SUBSET (stable \ xferOk) /\ passed \in SUBSET Configs
    BY <2>1 DEF IInv, GatesNest, TypeOK
  <2>3. Funnel!PassGate
    BY <1>4, <2>1, <2>2, GateSetGrows DEF TransferBatch
  <2>4. QED
    BY <2>3 DEF Funnel!Next
<1>5. CASE StreamBatch
  <2>1. PICK passed \in SUBSET (xferOk \ streamTested) : streamOk' = streamOk \cup passed
    BY <1>5 DEF StreamBatch, Diverse, Selections
  <2>2. passed \in SUBSET (xferOk \ streamOk) /\ passed \in SUBSET Configs
    BY <2>1 DEF IInv, GatesNest, TypeOK
  <2>3. Funnel!PassGate
    BY <1>5, <2>1, <2>2, GateSetGrows DEF StreamBatch
  <2>4. QED
    BY <2>3 DEF Funnel!Next
<1>6. CASE Publish
  <2>1. selected' = streamOk
    BY <1>6, PublishKeepsIInv
  <2>2. streamOk \in SUBSET {c \in Configs : Levels[c] = Funnel!Gates}
    BY LevelsOfGates DEF IInv, TypeOK, Levels, Funnel!Gates
  <2>3. Fits(streamOk, MaxEndpoint, MaxFamily) /\ Cardinality(streamOk) <= Limit
    BY PassesAreSelected DEF IInv, GatesNest
  <2>4. Outcome = "running" /\ Outcome' = "published" /\ UNCHANGED Levels
    BY <1>6 DEF Publish, Outcome, Levels, Passed
  <2>5. Funnel!Publish
    BY <2>1, <2>2, <2>3, <2>4, SameCaps DEF Funnel!Publish
  <2>6. QED
    BY <2>5 DEF Funnel!Next
<1>7. CASE CoreFails
  <2>1. Outcome = "running" /\ Outcome' = "failed" /\ UNCHANGED <<Levels, selected>>
    BY <1>7 DEF CoreFails, Outcome, Levels, Passed
  <2>2. QED
    BY <2>1 DEF Funnel!Fail, Funnel!Next
<1>8. CASE \/ EndOfWaves \/ Decide \/ NothingToRecheck \/ EnterGate
           \/ LeaveStability \/ LeaveTransfer \/ LeaveStream
  <2>1. /\ UNCHANGED <<prefiltered, strict, stable, xferOk, streamOk, selected>>
        /\ phase \notin {"published", "failed"} /\ phase' \notin {"published", "failed"}
    BY <1>8 DEF EndOfWaves, Decide, NothingToRecheck, EnterGate,
       LeaveStability, LeaveTransfer, LeaveStream, ReturnCount
  <2>2. QED
    BY <2>1 DEF Funnel!funnelVars, Levels, Passed, Outcome
<1>9. CASE UNCHANGED vars
  BY <1>9 DEF vars, Funnel!funnelVars, Levels, Passed, Outcome
<1>10. QED
  BY <1>1, <1>2, <1>3, <1>4, <1>5, <1>6, <1>7, <1>8, <1>9
  DEF Next, Discovery, TransferGate, StreamGate

\* The builder keeps the promise of LightFunnel, for every pool, ranking, cap
\* and budget (main from the first wave to the output).
THEOREM BuilderKeepsPromise == Spec => FunnelPromise
<1>1. Init => Funnel!Init
  BY DEF Init, Funnel!Init, Levels, Passed, Outcome
<1>2. QED
  BY <1>1, StepsImplementFunnel, InvariantHolds, PTL
  DEF Spec, FunnelPromise, Funnel!Spec
-----------------------------------------------------------------------------
\* Exhaustion of the gates

TransferDone ==
  \/ Cardinality(xferOk) >= Limit
  \/ Cardinality(xferTested) >= TransferTestLimit
  \/ \A c \in stable \ xferTested : Blocked(xferOk, c, MaxEndpoint, MaxFamily)

StabilityDone == Cardinality(xferOk) >= Limit \/ StabilityFilled

StreamDone == xferOk = streamTested \/ Cardinality(streamTested) = StreamLimit

\* Each gate is left behind done, unless its time ran out.
GatesDone ==
  ~cutShort =>
    /\ phase \in {"transfer", "stream", "publish", "published"} => StabilityDone
    /\ phase \in {"stream", "publish", "published"} => TransferDone
    /\ phase \in {"publish", "published"} => StreamDone

\* While something that fits is untested and there are free slots, at least one
\* more candidate is thought to fit.
LEMMA PotentialIsPositive ==
  ASSUME NEW chosen \in SUBSET Configs, NEW S \in SUBSET Configs,
         Cardinality(chosen) < Limit,
         NEW c \in S \ chosen, ~Blocked(chosen, c, MaxEndpoint, MaxFamily),
         NEW extra \in AdditionalPotential(chosen, S)
  PROVE  extra \in Nat \ {0}
<1>1. Cardinality(chosen) \in Nat /\ Limit \in Nat
  BY SetsAreCounted, PipelineAssumption
<1>2. PICK R \in Selections(chosen, S, Limit, MaxEndpoint, MaxFamily) :
        extra = Cardinality(R) - Cardinality(chosen)
  BY <1>1 DEF AdditionalPotential
<1>3. /\ R \in SUBSET Configs /\ chosen \in SUBSET R
      /\ \/ Cardinality(R) = Limit
         \/ \A d \in S \ R : Blocked(R, d, MaxEndpoint, MaxFamily)
  BY <1>2 DEF Selections
<1>4. Cardinality(R) \in Nat /\ IsFiniteSet(R) /\ Cardinality(chosen) <= Cardinality(R)
  BY <1>3, SetsAreCounted, PartIsSmaller
<1>5. R # chosen
  BY <1>1, <1>3
<1>6. Cardinality(R) # Cardinality(chosen)
  BY <1>3, <1>4, <1>5, FS_Subset
<1> QED  BY <1>1, <1>2, <1>4, <1>6

\* A test limit that leaves room for nothing, although something fits, is the
\* limit of the gate.
LEMMA TransferLimitIsReached ==
  ASSUME NEW limit \in Nat, NEW chosen \in Nat, NEW tested \in Nat,
         NEW passed \in Nat, NEW eligible \in Nat \ {0}, chosen < limit,
         tested >= AdaptiveTransferTestLimit(limit, chosen, tested, passed, eligible)
  PROVE  tested >= TransferTestLimit
<1> DEFINE rem == Monus(limit, chosen)
           est == PerRate(rem, 120, passed, tested, 16, 80, 35, 95)
<1>1. rem \in Nat
  BY DEF Monus
<1> HIDE DEF rem
<1>2. est \in Nat
  <2>1. ASSUME NEW percent \in Nat, NEW warmup \in Nat, NEW default \in Nat,
               NEW low \in Nat, NEW high \in Nat,
               default > 0, low > 0, high > 0
        PROVE  PerRate(rem, percent, passed, tested, warmup, default, low, high) \in Nat
    BY <1>1, <2>1, PerRateType
  <2> QED  BY ONLY <2>1, 120 \in Nat, 80 > 0, 35 > 0, 95 > 0
<1> DEFINE budget == Least(Greatest(est, rem + 8), eligible)
<1>3. AdaptiveTransferTestLimit(limit, chosen, tested, passed, eligible)
        = Least(tested + budget, TransferTestLimit)
  BY DEF AdaptiveTransferTestLimit, rem
<1> HIDE DEF est
<1>4. budget \in Nat \ {0}
  BY <1>1, <1>2 DEF Least, Greatest
<1> HIDE DEF budget
<1> QED  BY <1>3, <1>4, BudgetsAssumption DEF Least

\* The transfer gate returns by itself only when it is done.
LEMMA LeftTransferIsDone ==
  ASSUME IInv, LeaveTransfer, ~cutShort'
  PROVE  TransferDone /\ ~cutShort
<1>1. /\ Selected(xferOk) = {xferOk} /\ Cardinality(xferOk) \in Nat
      /\ xferOk \in SUBSET Configs /\ xferTested \in SUBSET Configs
      /\ Cardinality(xferTested) \in Nat
      /\ EligibleUntested(xferOk) \in SUBSET Configs
  BY PassesAreSelected, SetsAreCounted DEF IInv, TypeOK, EligibleUntested
<1>2. /\ \/ Cardinality(xferOk) >= Limit
         \/ EligibleUntested(xferOk) = {}
         \/ \E eligible \in AdditionalPotential(xferOk, EligibleUntested(xferOk)) :
              Cardinality(xferTested) >= DynamicTestLimit(xferOk, eligible)
      /\ ~cutShort
  BY <1>1 DEF LeaveTransfer
<1>3. CASE EligibleUntested(xferOk) = {}
  BY <1>2, <1>3 DEF EligibleUntested, TransferDone
<1>4. CASE /\ ~(Cardinality(xferOk) >= Limit)
           /\ EligibleUntested(xferOk) # {}
  <2>1. PICK eligible \in AdditionalPotential(xferOk, EligibleUntested(xferOk)) :
          Cardinality(xferTested) >= DynamicTestLimit(xferOk, eligible)
    BY <1>2, <1>4
  <2>2. PICK c \in EligibleUntested(xferOk) : TRUE
    BY <1>4
  <2>3. ~Blocked(xferOk, c, MaxEndpoint, MaxFamily) /\ c \notin xferOk
    BY DEF EligibleUntested, IInv, GatesNest
  <2>4. Limit \in Nat /\ Cardinality(xferOk) < Limit
    BY <1>1, <1>4, PipelineAssumption
  <2>5. eligible \in Nat \ {0}
    BY <1>1, <2>3, <2>4, PotentialIsPositive
  <2>6. Cardinality(xferTested) >= TransferTestLimit
    BY <1>1, <2>1, <2>4, <2>5, TransferLimitIsReached DEF DynamicTestLimit
  <2> QED  BY <1>2, <2>6 DEF TransferDone
<1> QED  BY <1>2, <1>3, <1>4 DEF TransferDone

\* The stream gate as well.
LEMMA LeftStreamIsDone ==
  ASSUME IInv, LeaveStream, ~cutShort'
  PROVE  StreamDone /\ ~cutShort
<1>1. /\ streamTested \in SUBSET xferOk /\ IsFiniteSet(xferOk)
      /\ Cardinality(xferOk) \in Nat /\ Cardinality(streamTested) \in Nat
      /\ Cardinality(streamTested) <= StreamLimit /\ StreamLimit \in Nat
  <2>1. streamTested \in SUBSET xferOk /\ streamTested \in SUBSET Configs
        /\ xferOk \in SUBSET Configs
    BY DEF IInv, GatesNest, TypeOK
  <2> QED  BY <2>1, SetsAreCounted, PipelineAssumption DEF IInv, BudgetsKept
<1>2. Cardinality(streamTested) >= StreamTestLimit /\ ~cutShort
  BY DEF LeaveStream
<1>3. CASE StreamLimit <= Cardinality(xferOk)
  BY <1>1, <1>2, <1>3 DEF StreamTestLimit, Least, StreamDone
<1>4. CASE ~(StreamLimit <= Cardinality(xferOk))
  <2>1. Cardinality(streamTested) >= Cardinality(xferOk)
    BY <1>1, <1>2, <1>4 DEF StreamTestLimit, Least
  <2>2. Cardinality(streamTested) = Cardinality(xferOk)
    BY <1>1, <2>1, FS_Subset
  <2> QED  BY <1>1, <1>2, <2>2, FS_Subset DEF StreamDone
<1> QED  BY <1>3, <1>4

LEMMA StepKeepsGatesDone ==
  ASSUME IInv, GatesDone, [Next]_vars
  PROVE  GatesDone'
<1> USE DEF discoveryVars, strictVars, stabilityVars, transferVars, streamVars
<1>1. CASE phase' \notin {"transfer", "stream", "publish", "published"}
  BY <1>1 DEF GatesDone
<1>2. CASE EnterGate
  <2>1. /\ phase' \in {"transfer", "stability"} /\ xferOk' = xferOk
        /\ phase' = "transfer" => Cardinality(xferOk) >= Limit
    BY <1>2, PassesAreSelected DEF EnterGate, IInv
  <2> QED  BY <2>1 DEF GatesDone, StabilityDone
<1>3. CASE LeaveStability
  <2>1. phase' = "transfer" /\ UNCHANGED <<strict, stabTested, stable, xferOk>>
        /\ (~cutShort' => StabilityFilled)
    BY <1>3 DEF LeaveStability
  <2> QED  BY <2>1 DEF GatesDone, StabilityDone, StabilityFilled
<1>4. CASE TransferBatch
  <2>1. /\ phase = "transfer" /\ UNCHANGED <<phase, cutShort, strict, stabTested, stable>>
        /\ xferOk \in SUBSET xferOk' /\ xferOk' \in SUBSET Configs
    <3>1. IInv'
      BY <1>4, TransferBatchKeepsIInv
    <3>2. \E batch : \E passed \in SUBSET batch : xferOk' = xferOk \cup passed
      BY <1>4 DEF TransferBatch
    <3> QED  BY <1>4, <3>1, <3>2 DEF TransferBatch, IInv, TypeOK
  <2>2. Cardinality(xferOk) <= Cardinality(xferOk')
        /\ Cardinality(xferOk) \in Nat /\ Cardinality(xferOk') \in Nat
    BY <2>1, PartIsSmaller, SetsAreCounted
  <2>3. StabilityDone => StabilityDone'
    BY <2>1, <2>2, PipelineAssumption DEF StabilityDone, StabilityFilled
  <2> QED  BY <2>1, <2>3 DEF GatesDone
<1>5. CASE LeaveTransfer
  <2>1. /\ phase = "transfer" /\ phase' \in {"gate", "recheck", "stream"}
        /\ UNCHANGED <<strict, stabTested, stable, xferTested, xferOk>>
    BY <1>5 DEF LeaveTransfer, ReturnCount
  <2>2. ~cutShort' => TransferDone /\ ~cutShort
    BY <1>5, LeftTransferIsDone
  <2> QED  BY <2>1, <2>2 DEF GatesDone, StabilityDone, StabilityFilled, TransferDone
<1>6. CASE StreamBatch
  <2>1. /\ phase = "stream" /\ UNCHANGED <<phase, cutShort>>
        /\ UNCHANGED <<strict, stabTested, stable, xferTested, xferOk>>
    BY <1>6 DEF StreamBatch
  <2> QED  BY <2>1 DEF GatesDone, StabilityDone, StabilityFilled, TransferDone
<1>7. CASE LeaveStream
  <2>1. /\ phase = "stream" /\ phase' = "publish"
        /\ UNCHANGED <<strict, stabTested, stable, xferTested, xferOk, streamTested>>
    BY <1>7 DEF LeaveStream
  <2>2. ~cutShort' => StreamDone /\ ~cutShort
    BY <1>7, LeftStreamIsDone
  <2> QED  BY <2>1, <2>2
           DEF GatesDone, StabilityDone, StabilityFilled, TransferDone, StreamDone
<1>8. CASE Publish
  <2>1. /\ phase = "publish" /\ phase' = "published" /\ UNCHANGED cutShort
        /\ UNCHANGED <<strict, stabTested, stable, xferTested, xferOk, streamTested>>
    BY <1>8 DEF Publish
  <2> QED  BY <2>1
           DEF GatesDone, StabilityDone, StabilityFilled, TransferDone, StreamDone
<1>9. CASE Discovery \/ StabilityBatch \/ CoreFails
  <2>1. phase' \notin {"transfer", "stream", "publish", "published"}
    BY <1>9 DEF Discovery, Prefilter, EndOfWaves, Decide, NothingToRecheck,
       StrictRecheck, StabilityBatch, CoreFails
  <2> QED  BY <1>1, <2>1
<1>10. CASE UNCHANGED vars
  BY <1>10 DEF vars, GatesDone, StabilityDone, StabilityFilled, TransferDone, StreamDone
<1> QED  BY <1>2, <1>3, <1>4, <1>5, <1>6, <1>7, <1>8, <1>9, <1>10
         DEF Next, TransferGate, StreamGate

\* No gate stops early by itself: what a gate that had its time leaves untested
\* is excluded by the caps, the limit or its budget, for every pool and every
\* pass rate (the early returns of the three fill functions and the estimate of
\* adaptive_transfer_test_limit, which never asks for nothing).
THEOREM GatesAreExhausted == Spec => []GatesExhausted
<1>1. Init => GatesDone
  BY DEF Init, GatesDone
<1>2. IInv /\ GatesDone /\ [Next]_vars => GatesDone'
  BY StepKeepsGatesDone
<1>3. GatesDone => GatesExhausted
  BY DEF GatesDone, GatesExhausted, StabilityDone, TransferDone, StreamDone
<1> QED  BY <1>1, <1>2, <1>3, InvariantHolds, PTL DEF Spec
=============================================================================
