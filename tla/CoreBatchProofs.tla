-------------------------- MODULE CoreBatchProofs ---------------------------
(***************************************************************************)
(* What a call does to its candidates, for every batch, every number of    *)
(* rounds, every failure budget and every pattern of core failures.        *)
(*                                                                         *)
(* How many cores it starts is an argument that counts batches: a batch is *)
(* popped once, and only a failure within the budget pushes two of them.   *)
(* Where its candidates are is one about places: pinning, regrouping and   *)
(* halving share the candidates of a batch out, so that no candidate is in *)
(* two places, and, within the budget, none is in no place.                *)
(***************************************************************************)
EXTENDS CoreBatch, SequenceTheorems, FiniteSetTheorems, TLAPS

Cheaper(x, y) == IF x <= y THEN x ELSE y

\* A core that is about to start holds a batch that was popped for it.
Waiting == IF stage = "start" THEN 1 ELSE 0

Balanced ==
  /\ call \in Calls
  /\ failures \in Nat /\ started \in Nat
  /\ \E S : pending \in Seq(S)
  /\ stage = "start" => batch # << >>
  /\ started + Waiting + Len(pending)
       <= 1 + 2 * Cheaper(failures, FailureBudget - 1)

\* The balance matters for calls that split only what has failed.
StartsInv == call \in Calls /\ (~SplitsConflicts => Balanced)

\* The call is fixed.
LEMMA CallStays ==
  ASSUME [Next]_vars
  PROVE  call' = call
BY DEF Next, vars, fixedVars, Pop, Finish, StartFails, Starts, CannotRun, Probe,
       CrashSeen, CrashMissed, EndRounds, Verdict

LEMMA BudgetType ==
  ASSUME call \in Calls
  PROVE  FailureBudget \in Nat \ {0}
BY CoreAssumption DEF CallRecord, FailureBudget

\* Popping shortens the stack by one.
LEMMA FrontShorter ==
  ASSUME NEW S, NEW s \in Seq(S), s # << >>
  PROVE  Front(s) \in Seq(S) /\ Len(Front(s)) = Len(s) - 1
<1>1. Len(s) \in Nat \ {0} /\ \A i \in 1..(Len(s) - 1) : s[i] \in S
  OBVIOUS
<1> DEFINE n == Len(s) - 1
<1>2. n \in Nat /\ \A i \in 1..n : s[i] \in S
  BY <1>1
<1> HIDE DEF n
<1>3. SubSeq(s, 1, n) \in Seq(S) /\ Len(SubSeq(s, 1, n)) = n
  BY <1>2, SubSeqProperties
<1> QED  BY <1>3 DEF Front, n

\* Pushing the halves lengthens it by two.
LEMMA TwoLonger ==
  ASSUME NEW S, NEW s \in Seq(S), NEW b
  PROVE  /\ \E T : s \o Halves(b) \in Seq(T)
         /\ Len(s \o Halves(b)) = Len(s) + 2
<1> DEFINE mid == Len(b) \div 2
           x == SubSeq(b, 1, mid)
           y == SubSeq(b, mid + 1, Len(b))
           T == S \cup {x, y}
<1>1. Halves(b) = <<x, y>>
  BY DEF Halves
<1> HIDE DEF x, y
<1>2. <<x, y>> \in Seq(T) /\ Len(<<x, y>>) = 2
  OBVIOUS
<1>3. s \in Seq(T)
  OBVIOUS
<1> HIDE DEF T
<1>4. s \o <<x, y>> \in Seq(T) /\ Len(s \o <<x, y>>) = Len(s) + 2
  BY <1>2, <1>3
<1> QED  BY <1>1, <1>4

\* A counted failure pays for the batches it pushes.
LEMMA FailureBalances ==
  ASSUME Balanced, CountFailure
  PROVE  /\ failures' \in Nat
         /\ \E S : pending' \in Seq(S)
         /\ started + Waiting + Len(pending')
              <= 1 + 2 * Cheaper(failures', FailureBudget - 1)
<1>1. PICK S : pending \in Seq(S)
  BY DEF Balanced
<1>2. /\ FailureBudget \in Nat \ {0} /\ failures \in Nat /\ started \in Nat
      /\ Len(pending) \in Nat /\ Waiting \in {0, 1}
      /\ started + Waiting + Len(pending)
           <= 1 + 2 * Cheaper(failures, FailureBudget - 1)
  BY <1>1, BudgetType DEF Balanced, Waiting
<1>3. failures' = failures + 1
  BY DEF CountFailure
<1>4. CASE Len(batch) > 1 /\ failures + 1 < FailureBudget
  <2>1. pending' = pending \o Halves(batch)
    BY <1>4 DEF CountFailure
  <2>2. (\E T : pending' \in Seq(T)) /\ Len(pending') = Len(pending) + 2
    BY <1>1, <2>1, TwoLonger
  <2>3. Cheaper(failures', FailureBudget - 1) = Cheaper(failures, FailureBudget - 1) + 1
    BY <1>2, <1>3, <1>4 DEF Cheaper
  <2>4. Cheaper(failures, FailureBudget - 1) \in Nat
    BY <1>2 DEF Cheaper
  <2> QED  BY <1>2, <1>3, <2>2, <2>3, <2>4
<1>5. CASE ~(Len(batch) > 1 /\ failures + 1 < FailureBudget)
  <2>1. pending' = pending
    BY <1>5 DEF CountFailure
  <2>2. /\ Cheaper(failures', FailureBudget - 1) >= Cheaper(failures, FailureBudget - 1)
        /\ Cheaper(failures, FailureBudget - 1) \in Nat
        /\ Cheaper(failures', FailureBudget - 1) \in Nat
    BY <1>2, <1>3 DEF Cheaper
  <2> QED  BY <1>1, <1>2, <1>3, <2>1, <2>2
<1> QED  BY <1>4, <1>5

LEMMA StartsStep ==
  ASSUME Balanced, [Next]_vars, ~SplitsConflicts
  PROVE  Balanced'
<1>0. call' = call /\ call' \in Calls /\ FailureBudget' = FailureBudget
  BY CallStays DEF Balanced, FailureBudget
<1>1. PICK S : pending \in Seq(S)
  BY DEF Balanced
<1>2. /\ FailureBudget \in Nat \ {0} /\ failures \in Nat /\ started \in Nat
      /\ Len(pending) \in Nat
      /\ started + Waiting + Len(pending)
           <= 1 + 2 * Cheaper(failures, FailureBudget - 1)
  BY <1>1, BudgetType DEF Balanced
<1>3. CASE Pop
  <2>1. /\ stage = "pop" /\ pending # << >>
        /\ UNCHANGED <<failures, started>>
    BY <1>3 DEF Pop
  <2>2. Front(pending) \in Seq(S) /\ Len(Front(pending)) = Len(pending) - 1
    BY <1>1, <2>1, FrontShorter
  <2>3. PICK pinned :
          \/ /\ pending' = Front(pending) /\ UNCHANGED <<batch, stage>>
          \/ Len(ConflictFree(pinned)) > 1
          \/ /\ pinned # << >> /\ pending' = Front(pending)
             /\ batch' = ConflictFree(pinned)[1] /\ stage' = "start"
    BY <1>3 DEF Pop
  <2>4. ConflictFree(pinned) = <<pinned>>
    BY DEF ConflictFree
  <2>5. Len(<<pinned>>) = 1 /\ <<pinned>>[1] = pinned
    OBVIOUS
  <2>6. \/ pending' = Front(pending) /\ UNCHANGED <<batch, stage>>
        \/ pinned # << >> /\ pending' = Front(pending) /\ batch' = pinned /\ stage' = "start"
    BY <2>3, <2>4, <2>5
  <2>7. pending' \in Seq(S) /\ Len(pending') = Len(pending) - 1
    BY <2>2, <2>6
  <2>8. Waiting = 0 /\ (Waiting)' \in {0, 1} /\ (stage' = "start" => batch' # << >>)
    BY <2>1, <2>6 DEF Waiting
  <2>9. Cheaper(failures, FailureBudget - 1) = Cheaper(failures', FailureBudget - 1)
    BY <2>1 DEF Cheaper
  <2>10. Cheaper(failures, FailureBudget - 1) \in Nat
    BY <1>2 DEF Cheaper
  <2>11. started' + (Waiting)' + Len(pending')
           <= 1 + 2 * Cheaper(failures', FailureBudget - 1)
    BY <1>2, <2>1, <2>7, <2>8, <2>9, <2>10
  <2> QED  BY <1>0, <1>2, <2>1, <2>7, <2>8, <2>11 DEF Balanced
<1>4. CASE StartFails
  <2>1. stage = "start" /\ CountFailure /\ started' = started + 1 /\ stage' # "start"
    BY <1>4 DEF StartFails
  <2>2. Waiting = 1 /\ (Waiting)' = 0
    BY <2>1 DEF Waiting
  <2>3. /\ failures' \in Nat /\ (\E T : pending' \in Seq(T))
        /\ started + Waiting + Len(pending')
             <= 1 + 2 * Cheaper(failures', FailureBudget - 1)
    BY <2>1, FailureBalances
  <2>4. Len(pending') \in Nat
    BY <2>3
  <2>5. started' + (Waiting)' + Len(pending')
             <= 1 + 2 * Cheaper(failures', FailureBudget - 1)
    BY <1>2, <2>1, <2>2, <2>3, <2>4 DEF Cheaper
  <2> QED  BY <1>0, <1>2, <2>1, <2>3, <2>5 DEF Balanced, Cheaper
<1>5. CASE Starts
  <2>1. /\ stage = "start" /\ stage' = "probe" /\ started' = started + 1
        /\ UNCHANGED <<pending, failures>>
    BY <1>5 DEF Starts
  <2>2. Waiting = 1 /\ (Waiting)' = 0
    BY <2>1 DEF Waiting
  <2> QED  BY <1>0, <1>1, <1>2, <2>1, <2>2 DEF Balanced, Cheaper
<1>6. CASE CrashSeen
  <2>1. stage = "probe" /\ CountFailure /\ started' = started /\ stage' \in {"verdict", "probe"}
    BY <1>6 DEF CrashSeen
  <2>2. Waiting = 0 /\ (Waiting)' = 0
    BY <2>1 DEF Waiting
  <2>3. /\ failures' \in Nat /\ (\E T : pending' \in Seq(T))
        /\ started + Waiting + Len(pending')
             <= 1 + 2 * Cheaper(failures', FailureBudget - 1)
    BY <2>1, FailureBalances
  <2> QED  BY <1>0, <1>2, <2>1, <2>2, <2>3 DEF Balanced, Cheaper
<1>7. CASE Finish \/ CannotRun \/ Probe \/ CrashMissed \/ EndRounds \/ Verdict
  <2>1. UNCHANGED <<pending, failures, started>> /\ stage' # "start"
    BY <1>7 DEF Finish, CannotRun, Probe, CrashMissed, EndRounds, Verdict
  <2>2. (Waiting)' = 0 /\ Waiting \in {0, 1}
    BY <2>1 DEF Waiting
  <2> QED  BY <1>0, <1>1, <1>2, <2>1, <2>2 DEF Balanced, Cheaper
<1>8. CASE UNCHANGED vars
  BY <1>0, <1>8 DEF vars, Balanced, Waiting, Cheaper
<1> QED  BY <1>3, <1>4, <1>5, <1>6, <1>7, <1>8 DEF Next

\* However cores fail, a call of sing-box's check_batch_targets starts at most
\* 2 * budget - 1 of them; the repeated counting of one crash cannot exceed it.
THEOREM StartsAreBounded == Spec => []CoreStartsBounded
<1>1. Init => StartsInv
  <2> SUFFICES ASSUME Init PROVE StartsInv
    OBVIOUS
  <2>1. /\ call \in Calls /\ pending = <<Entries>> /\ stage = "pop"
        /\ failures = 0 /\ started = 0
    BY DEF Init
  <2>2. <<Entries>> \in Seq({Entries}) /\ Len(<<Entries>>) = 1
    OBVIOUS
  <2>3. Waiting = 0 /\ Cheaper(failures, FailureBudget - 1) = 0
    BY <2>1, BudgetType DEF Waiting, Cheaper
  <2>4. started + Waiting + Len(pending) <= 1 + 2 * Cheaper(failures, FailureBudget - 1)
    <3>1. started + Waiting + Len(pending) = 1
      BY <2>1, <2>2, <2>3
    <3>2. 2 * Cheaper(failures, FailureBudget - 1) = 0
      BY <2>3
    <3> QED  BY <3>1, <3>2
  <2>5. \E S : pending \in Seq(S)
    BY <2>1, <2>2
  <2> QED  BY <2>1, <2>4, <2>5 DEF StartsInv, Balanced
<1>2. StartsInv /\ [Next]_vars => StartsInv'
  <2> SUFFICES ASSUME StartsInv, [Next]_vars PROVE StartsInv'
    OBVIOUS
  <2>1. call' = call
    BY CallStays
  <2>2. CASE SplitsConflicts
    BY <2>1, <2>2 DEF StartsInv, SplitsConflicts
  <2>3. CASE ~SplitsConflicts
    <3>1. Balanced'
      BY <2>3, StartsStep DEF StartsInv
    <3> QED  BY <3>1 DEF StartsInv, Balanced
  <2> QED  BY <2>2, <2>3
<1>3. StartsInv => CoreStartsBounded
  <2> SUFFICES ASSUME StartsInv, ~SplitsConflicts PROVE started <= 2 * FailureBudget - 1
    BY DEF CoreStartsBounded
  <2>1. PICK S : pending \in Seq(S)
    BY DEF StartsInv, Balanced
  <2>2. Len(pending) \in Nat /\ Waiting \in {0, 1}
    BY <2>1 DEF Waiting
  <2> QED  BY <2>2, BudgetType DEF StartsInv, Balanced, Cheaper
<1> QED  BY <1>1, <1>2, <1>3, PTL DEF Spec

-----------------------------------------------------------------------------
(* The positions of a subsequence.                                         *)

\* How many positions of I come up to i, and the position that is the n-th of I.
Rank(I, i) == Cardinality({j \in I : j <= i})
Nth(I, n)  == CHOOSE i \in I : Rank(I, i) = n

LEMMA RankBounds ==
  ASSUME NEW I \in SUBSET Nat, IsFiniteSet(I), NEW i \in I
  PROVE  Rank(I, i) \in 1..Cardinality(I)
<1> DEFINE L == {j \in I : j <= i}
<1>1. L \subseteq I /\ i \in L
  OBVIOUS
<1>2. IsFiniteSet(L) /\ Cardinality(L) <= Cardinality(I)
  BY <1>1, FS_Subset
<1>3. Cardinality(L) \in Nat /\ Cardinality(I) \in Nat
  BY <1>2, FS_CardinalityType
<1>4. Cardinality(L) # 0
  BY <1>1, <1>2, FS_EmptySet
<1> HIDE DEF L
<1>5. Cardinality(L) \in 1..Cardinality(I)
  BY <1>2, <1>3, <1>4
<1> QED  BY <1>5 DEF Rank, L

LEMMA RankIncreases ==
  ASSUME NEW I \in SUBSET Nat, IsFiniteSet(I), NEW i \in I, NEW k \in I, i < k
  PROVE  Rank(I, i) < Rank(I, k)
<1> DEFINE L == {j \in I : j <= i}
           M == {j \in I : j <= k}
<1>1. L \subseteq M /\ M \subseteq I /\ L # M
  <2>1. k \in M /\ k \notin L
    OBVIOUS
  <2>2. ASSUME NEW j \in L PROVE j \in M
    <3>1. j \in Nat /\ i \in Nat /\ k \in Nat /\ j \in I /\ j <= i
      OBVIOUS
    <3>2. j <= k
      BY <3>1
    <3> QED  BY <3>1, <3>2
  <2>3. M \subseteq I
    OBVIOUS
  <2> HIDE DEF L, M
  <2> QED  BY <2>1, <2>2, <2>3
<1>2. IsFiniteSet(M) /\ IsFiniteSet(L)
  BY <1>1, FS_Subset
<1>3. Cardinality(L) <= Cardinality(M) /\ Cardinality(L) # Cardinality(M)
  BY <1>1, <1>2, FS_Subset
<1>4. Cardinality(L) \in Nat /\ Cardinality(M) \in Nat
  BY <1>2, FS_CardinalityType
<1> HIDE DEF L, M
<1>5. Cardinality(L) < Cardinality(M)
  BY <1>3, <1>4
<1> QED  BY <1>5 DEF Rank, L, M

LEMMA RankIsOnto ==
  ASSUME NEW I \in SUBSET Nat, IsFiniteSet(I), NEW n \in 1..Cardinality(I)
  PROVE  \E i \in I : Rank(I, i) = n
<1> DEFINE T == 1..Cardinality(I)
           f == [i \in I |-> Rank(I, i)]
<1>1. f \in [I -> T]
  BY RankBounds
<1>2. Cardinality(I) \in Nat
  BY FS_CardinalityType
<1>3. IsFiniteSet(T) /\ Cardinality(T) = Cardinality(I)
  <2> DEFINE c == Cardinality(I)
  <2>1. c \in Nat
    BY <1>2
  <2> HIDE DEF c
  <2>2. IsFiniteSet(1..c) /\ Cardinality(1..c) = c
    BY <2>1, FS_Interval
  <2> QED  BY <2>2 DEF c
<1>4. ASSUME NEW i \in I, NEW k \in I, f[i] = f[k] PROVE i = k
  <2>1. Rank(I, i) = Rank(I, k) /\ Rank(I, i) \in Nat
    BY <1>4, RankBounds
  <2>2. i \in Nat /\ k \in Nat
    OBVIOUS
  <2>3. ~(i < k) /\ ~(k < i)
    BY <2>1, RankIncreases
  <2> QED  BY <2>2, <2>3
<1>5. f \in Injection(I, T)
  BY <1>1, <1>4 DEF Injection, IsInjective
<1>6. f \in Surjection(I, T)
  BY <1>3, <1>5, FS_Injection
<1> QED  BY <1>6 DEF Surjection

\* Nth enumerates I, each position once.
LEMMA NthEnumerates ==
  ASSUME NEW I \in SUBSET Nat, IsFiniteSet(I)
  PROVE  /\ \A n \in 1..Cardinality(I) : Nth(I, n) \in I /\ Rank(I, Nth(I, n)) = n
         /\ \A n, m \in 1..Cardinality(I) : Nth(I, n) = Nth(I, m) => n = m
         /\ \A i \in I : Rank(I, i) \in 1..Cardinality(I) /\ Nth(I, Rank(I, i)) = i
<1>1. ASSUME NEW n \in 1..Cardinality(I)
      PROVE  Nth(I, n) \in I /\ Rank(I, Nth(I, n)) = n
  BY RankIsOnto DEF Nth
<1>2. ASSUME NEW i \in I
      PROVE  Rank(I, i) \in 1..Cardinality(I) /\ Nth(I, Rank(I, i)) = i
  <2>1. Rank(I, i) \in 1..Cardinality(I)
    BY RankBounds
  <2>2. Nth(I, Rank(I, i)) \in I /\ Rank(I, Nth(I, Rank(I, i))) = Rank(I, i)
    BY <1>1, <2>1
  <2> DEFINE k == Nth(I, Rank(I, i))
  <2> HIDE DEF k
  <2>3. k \in I /\ Rank(I, k) = Rank(I, i) /\ Rank(I, i) \in Nat
    BY <2>1, <2>2 DEF k
  <2>4. ~(k < i) /\ ~(i < k)
    BY <2>3, RankIncreases
  <2>5. i \in Nat /\ k \in Nat
    BY <2>3
  <2> QED  BY <2>1, <2>4, <2>5 DEF k
<1> QED  BY <1>1, <1>2

-----------------------------------------------------------------------------
(* Batches and the stack of them.                                          *)

\* Every candidate of a sequence once.
Distinct(s) == \A i, j \in DOMAIN s : s[i] = s[j] => i = j

\* The candidates of a stack of batches, and that no two batches share one.
All(q)   == UNION {Range(q[i]) : i \in DOMAIN q}
Apart(q) == \A i, j \in DOMAIN q : i # j => Range(q[i]) \cap Range(q[j]) = {}

Stacks(C) == {q \in Seq(Seq(C)) : \A i \in DOMAIN q : Distinct(q[i])}

LEMMA AtProperties ==
  ASSUME NEW S, NEW s \in Seq(S), NEW I \in SUBSET DOMAIN s
  PROVE  /\ At(s, I) \in Seq(S)
         /\ DOMAIN At(s, I) = 1..Cardinality(I)
         /\ \A n \in DOMAIN At(s, I) : Nth(I, n) \in I /\ At(s, I)[n] = s[Nth(I, n)]
         /\ \A n, m \in DOMAIN At(s, I) : Nth(I, n) = Nth(I, m) => n = m
         /\ Range(At(s, I)) = {s[i] : i \in I}
         /\ Distinct(s) => Distinct(At(s, I))
<1>1. I \in SUBSET Nat /\ IsFiniteSet(I)
  <2>1. DOMAIN s = 1..Len(s) /\ Len(s) \in Nat
    OBVIOUS
  <2>2. IsFiniteSet(1..Len(s))
    BY <2>1, FS_Interval
  <2> QED  BY <2>1, <2>2, FS_Subset
<1>2. Cardinality(I) \in Nat
  BY <1>1, FS_CardinalityType
<1>3. At(s, I) = [n \in 1..Cardinality(I) |-> s[Nth(I, n)]]
  BY DEF At, Nth, Rank
<1>4. \A n \in 1..Cardinality(I) : Nth(I, n) \in I /\ s[Nth(I, n)] \in S
  BY <1>1, NthEnumerates
<1>5. At(s, I) \in Seq(S) /\ DOMAIN At(s, I) = 1..Cardinality(I)
  BY <1>2, <1>3, <1>4
<1>6. \A n \in DOMAIN At(s, I) : Nth(I, n) \in I /\ At(s, I)[n] = s[Nth(I, n)]
  BY <1>3, <1>4
<1>7. \A n, m \in DOMAIN At(s, I) : Nth(I, n) = Nth(I, m) => n = m
  BY <1>1, <1>5, NthEnumerates
<1>8. Range(At(s, I)) = {s[i] : i \in I}
  <2>1. ASSUME NEW i \in I PROVE s[i] \in Range(At(s, I))
    <3>1. Rank(I, i) \in DOMAIN At(s, I) /\ Nth(I, Rank(I, i)) = i
      BY <1>1, <1>5, NthEnumerates
    <3> QED  BY <1>6, <3>1 DEF Range
  <2> QED  BY <1>6, <2>1 DEF Range
<1>9. Distinct(s) => Distinct(At(s, I))
  BY <1>6, <1>7 DEF Distinct
<1> QED  BY <1>5, <1>6, <1>7, <1>8, <1>9

\* The halves of a batch of several share it out.
LEMMA HalvesShareOut ==
  ASSUME NEW C, NEW s \in Seq(C), Distinct(s), Len(s) > 1
  PROVE  /\ Halves(s) \in Stacks(C) /\ Len(Halves(s)) = 2
         /\ Apart(Halves(s)) /\ All(Halves(s)) = Range(s)
<1> DEFINE mid == Len(s) \div 2
           x == SubSeq(s, 1, mid)
           y == SubSeq(s, mid + 1, Len(s))
<1>1. Len(s) \in Nat /\ mid \in Nat /\ mid < Len(s) /\ mid >= 1
  OBVIOUS
<1>2. \A i \in 1..Len(s) : s[i] \in C
  OBVIOUS
<1>3. Halves(s) = <<x, y>>
  BY DEF Halves
<1> HIDE DEF mid
<1>4. x \in Seq(C) /\ Len(x) = mid /\ \A i \in 1..mid : x[i] = s[i]
  BY <1>1, <1>2, SubSeqProperties
<1>5. /\ y \in Seq(C) /\ Len(y) = Len(s) - mid
      /\ \A i \in 1..(Len(s) - mid) : y[i] = s[mid + i]
  <2> DEFINE a == mid + 1
  <2>1. a \in Int /\ \A i \in a..Len(s) : s[i] \in C
    BY <1>1, <1>2
  <2> HIDE DEF a
  <2>2. /\ SubSeq(s, a, Len(s)) \in Seq(C)
        /\ Len(SubSeq(s, a, Len(s))) = IF a <= Len(s) THEN Len(s) - a + 1 ELSE 0
        /\ \A i \in 1..(Len(s) - a + 1) : SubSeq(s, a, Len(s))[i] = s[a + i - 1]
    BY <1>1, <2>1, SubSeqProperties
  <2>3. a <= Len(s) /\ Len(s) - a + 1 = Len(s) - mid
    BY <1>1 DEF a
  <2>4. y = SubSeq(s, a, Len(s))
    BY DEF a, y
  <2>5. ASSUME NEW i \in 1..(Len(s) - mid) PROVE y[i] = s[mid + i]
    <3>1. i \in 1..(Len(s) - a + 1) /\ a + i - 1 = mid + i
      BY <1>1, <2>3 DEF a
    <3> QED  BY <2>2, <2>4, <3>1
  <2> QED  BY <2>2, <2>3, <2>4, <2>5
<1> HIDE DEF x, y
<1>6. DOMAIN x = 1..mid /\ DOMAIN y = 1..(Len(s) - mid) /\ DOMAIN s = 1..Len(s)
  BY <1>4, <1>5
<1>7. Distinct(x) /\ Distinct(y)
  <2>1. Distinct(x)
    BY <1>1, <1>4, <1>6 DEF Distinct
  <2>2. ASSUME NEW i \in 1..(Len(s) - mid), NEW j \in 1..(Len(s) - mid), y[i] = y[j]
        PROVE  i = j
    <3>1. mid + i \in 1..Len(s) /\ mid + j \in 1..Len(s) /\ s[mid + i] = s[mid + j]
      BY <1>1, <1>5, <2>2
    <3>2. mid + i = mid + j
      BY <1>6, <3>1 DEF Distinct
    <3> QED  BY <1>1, <3>2
  <2> QED  BY <1>6, <2>1, <2>2 DEF Distinct
<1>8. Range(x) \cap Range(y) = {}
  <2> SUFFICES ASSUME NEW i \in 1..mid, NEW j \in 1..(Len(s) - mid), x[i] = y[j]
               PROVE  FALSE
    BY <1>6 DEF Range
  <2>1. /\ i \in 1..Len(s) /\ mid + j \in 1..Len(s) /\ i # mid + j
        /\ s[i] = s[mid + j]
    BY <1>1, <1>4, <1>5
  <2> QED  BY <1>6, <2>1 DEF Distinct
<1>9. Range(x) \union Range(y) = Range(s)
  <2>1. ASSUME NEW i \in 1..Len(s) PROVE s[i] \in Range(x) \union Range(y)
    <3>1. CASE i <= mid
      BY <1>1, <1>4, <1>6, <3>1 DEF Range
    <3>2. CASE i > mid
      <4>1. i - mid \in 1..(Len(s) - mid) /\ mid + (i - mid) = i
        BY <1>1, <3>2
      <4>2. y[i - mid] = s[i]
        BY <1>5, <4>1
      <4> QED  BY <1>6, <4>1, <4>2 DEF Range
    <3> QED  BY <1>1, <3>1, <3>2
  <2>2. Range(x) \subseteq Range(s)
    BY <1>1, <1>4, <1>6 DEF Range
  <2>3. Range(y) \subseteq Range(s)
    <3>1. \A i \in 1..(Len(s) - mid) : mid + i \in 1..Len(s)
      BY <1>1
    <3> QED  BY <1>5, <1>6, <3>1 DEF Range
  <2> QED  BY <1>6, <2>1, <2>2, <2>3 DEF Range
<1>10. /\ <<x, y>> \in Seq(Seq(C)) /\ Len(<<x, y>>) = 2 /\ DOMAIN <<x, y>> = {1, 2}
       /\ <<x, y>>[1] = x /\ <<x, y>>[2] = y
  BY <1>4, <1>5
<1>11. All(<<x, y>>) = Range(x) \union Range(y) /\ Apart(<<x, y>>)
  BY <1>8, <1>10 DEF All, Apart
<1>12. <<x, y>> \in Stacks(C)
  BY <1>7, <1>10 DEF Stacks
<1> QED  BY <1>3, <1>9, <1>10, <1>11, <1>12

\* What a stack holds under its top, and on a push.
LEMMA PoppedStack ==
  ASSUME NEW C, NEW q \in Stacks(C), q # << >>
  PROVE  /\ Front(q) \in Stacks(C) /\ Top(q) \in Seq(C) /\ Distinct(Top(q))
         /\ All(q) = All(Front(q)) \union Range(Top(q))
         /\ Apart(q) => Apart(Front(q)) /\ All(Front(q)) \cap Range(Top(q)) = {}
<1> DEFINE n == Len(q)
<1>1. /\ q \in Seq(Seq(C)) /\ n \in Nat \ {0} /\ DOMAIN q = 1..n
      /\ \A i \in 1..n : q[i] \in Seq(C) /\ Distinct(q[i])
  BY DEF Stacks
<1> HIDE DEF n
<1>2. /\ SubSeq(q, 1, n - 1) \in Seq(Seq(C)) /\ Len(SubSeq(q, 1, n - 1)) = n - 1
      /\ \A i \in 1..(n - 1) : SubSeq(q, 1, n - 1)[i] = q[i]
  <2> DEFINE m == n - 1
  <2>1. m \in Nat /\ \A i \in 1..m : q[i] \in Seq(C)
    BY <1>1
  <2> HIDE DEF m
  <2>2. /\ SubSeq(q, 1, m) \in Seq(Seq(C)) /\ Len(SubSeq(q, 1, m)) = m
        /\ \A i \in 1..m : SubSeq(q, 1, m)[i] = q[i]
    BY <2>1, SubSeqProperties
  <2> QED  BY <2>2 DEF m
<1>3. /\ Front(q) \in Seq(Seq(C)) /\ DOMAIN Front(q) = 1..(n - 1)
      /\ \A i \in 1..(n - 1) : Front(q)[i] = q[i]
  BY <1>2 DEF Front, n
<1>4. Top(q) = q[n]
  BY DEF Top, n
<1>5. 1..n = (1..(n - 1)) \union {n} /\ n \in 1..n /\ n \notin 1..(n - 1)
  BY <1>1
<1>6. Front(q) \in Stacks(C)
  BY <1>1, <1>3, <1>5 DEF Stacks
<1>7. All(q) = All(Front(q)) \union Range(Top(q))
  BY <1>1, <1>3, <1>4, <1>5 DEF All
<1>8. ASSUME Apart(q) PROVE Apart(Front(q)) /\ All(Front(q)) \cap Range(Top(q)) = {}
  BY <1>1, <1>3, <1>4, <1>5, <1>8 DEF All, Apart
<1> QED  BY <1>1, <1>4, <1>5, <1>6, <1>7, <1>8

LEMMA PushedStack ==
  ASSUME NEW C, NEW q \in Stacks(C), NEW r \in Stacks(C)
  PROVE  /\ q \o r \in Stacks(C)
         /\ All(q \o r) = All(q) \union All(r)
         /\ Apart(q) /\ Apart(r) /\ All(q) \cap All(r) = {} => Apart(q \o r)
<1> DEFINE n == Len(q)
           m == Len(r)
           t == q \o r
<1>1. /\ q \in Seq(Seq(C)) /\ r \in Seq(Seq(C)) /\ n \in Nat /\ m \in Nat
      /\ DOMAIN q = 1..n /\ DOMAIN r = 1..m
      /\ \A i \in 1..n : Distinct(q[i])
      /\ \A i \in 1..m : Distinct(r[i])
  BY DEF Stacks
<1>2. /\ t \in Seq(Seq(C)) /\ DOMAIN t = 1..(n + m)
      /\ \A i \in 1..(n + m) : t[i] = IF i <= n THEN q[i] ELSE r[i - n]
  BY <1>1, ConcatProperties
<1> HIDE DEF n, m, t
<1>3. /\ \A i \in 1..n : i \in 1..(n + m) /\ t[i] = q[i]
      /\ \A i \in 1..m : n + i \in 1..(n + m) /\ t[n + i] = r[i]
      /\ \A i \in 1..(n + m) : i \in 1..n \/ \E k \in 1..m : i = n + k
  <2>1. ASSUME NEW i \in 1..n PROVE i \in 1..(n + m) /\ t[i] = q[i]
    BY <1>1, <1>2
  <2>2. ASSUME NEW i \in 1..m PROVE n + i \in 1..(n + m) /\ t[n + i] = r[i]
    <3>1. n + i \in 1..(n + m) /\ ~(n + i <= n) /\ (n + i) - n = i
      BY <1>1
    <3> QED  BY <1>2, <3>1
  <2>3. ASSUME NEW i \in 1..(n + m) PROVE i \in 1..n \/ \E k \in 1..m : i = n + k
    <3>1. i > n => i - n \in 1..m /\ i = n + (i - n)
      BY <1>1
    <3> QED  BY <1>1, <3>1
  <2> QED  BY <2>1, <2>2, <2>3
<1>4. t \in Stacks(C)
  <2>1. \A i \in 1..(n + m) : Distinct(t[i])
    BY <1>1, <1>3
  <2> QED  BY <1>2, <2>1 DEF Stacks
<1>5. All(t) = All(q) \union All(r)
  <2>1. ASSUME NEW c \in All(t) PROVE c \in All(q) \union All(r)
    BY <1>1, <1>2, <1>3 DEF All
  <2>2. ASSUME NEW c \in All(q) \union All(r) PROVE c \in All(t)
    BY <1>1, <1>2, <1>3 DEF All
  <2> QED  BY <2>1, <2>2
<1>6. ASSUME Apart(q), Apart(r), All(q) \cap All(r) = {} PROVE Apart(t)
  <2> SUFFICES ASSUME NEW i \in 1..(n + m), NEW j \in 1..(n + m), i # j
               PROVE  Range(t[i]) \cap Range(t[j]) = {}
    BY <1>2 DEF Apart
  <2>1. \A a \in 1..n, b \in 1..m : Range(q[a]) \cap Range(r[b]) = {}
    BY <1>1, <1>6 DEF All
  <2>2. CASE i \in 1..n /\ j \in 1..n
    BY <1>1, <1>3, <1>6, <2>2 DEF Apart
  <2>3. CASE i \in 1..n /\ \E k \in 1..m : j = n + k
    BY <1>3, <2>1, <2>3
  <2>4. CASE (\E k \in 1..m : i = n + k) /\ j \in 1..n
    BY <1>3, <2>1, <2>4
  <2>5. CASE (\E k \in 1..m : i = n + k) /\ (\E k \in 1..m : j = n + k)
    <3>1. PICK a \in 1..m, b \in 1..m : i = n + a /\ j = n + b
      BY <2>5
    <3>2. a # b /\ t[i] = r[a] /\ t[j] = r[b]
      BY <1>3, <3>1
    <3> QED  BY <1>1, <1>6, <3>2 DEF Apart
  <2> QED  BY <1>3, <2>2, <2>3, <2>4, <2>5
<1> QED  BY <1>4, <1>5, <1>6 DEF t

\* Pushing in the other order changes none of this.
LEMMA ReversedStack ==
  ASSUME NEW C, NEW q \in Stacks(C)
  PROVE  /\ Reversed(q) \in Stacks(C) /\ All(Reversed(q)) = All(q)
         /\ Apart(q) => Apart(Reversed(q))
<1> DEFINE n == Len(q)
           r == Reversed(q)
<1>1. /\ q \in Seq(Seq(C)) /\ n \in Nat /\ DOMAIN q = 1..n
      /\ \A i \in 1..n : q[i] \in Seq(C) /\ Distinct(q[i])
  BY DEF Stacks
<1>2. r = [i \in 1..n |-> q[n + 1 - i]]
  BY DEF Reversed
<1> HIDE DEF n, r
<1>3. \A i \in 1..n : n + 1 - i \in 1..n /\ n + 1 - (n + 1 - i) = i
  BY <1>1
<1>4. r \in Seq(Seq(C)) /\ DOMAIN r = 1..n
  BY <1>1, <1>2, <1>3
<1>5. \A i \in 1..n : r[i] = q[n + 1 - i] /\ q[i] = r[n + 1 - i]
  BY <1>2, <1>3
<1>6. r \in Stacks(C)
  BY <1>1, <1>3, <1>4, <1>5 DEF Stacks
<1>7. All(r) = All(q)
  BY <1>1, <1>3, <1>4, <1>5 DEF All
<1>8. ASSUME Apart(q) PROVE Apart(r)
  <2> SUFFICES ASSUME NEW i \in 1..n, NEW j \in 1..n, i # j
               PROVE  Range(r[i]) \cap Range(r[j]) = {}
    BY <1>4 DEF Apart
  <2> DEFINE a == n + 1 - i
             b == n + 1 - j
  <2>1. a \in 1..n /\ b \in 1..n /\ a # b
    BY <1>1
  <2>2. r[i] = q[a] /\ r[j] = q[b]
    BY <1>5
  <2> HIDE DEF a, b
  <2> QED  BY <1>1, <1>8, <2>1, <2>2 DEF Apart
<1> QED  BY <1>6, <1>7, <1>8 DEF r

\* Two sequences without a common candidate, one after the other.
LEMMA ConcatShares ==
  ASSUME NEW C, NEW a \in Seq(C), NEW b \in Seq(C), Distinct(a), Distinct(b),
         Range(a) \cap Range(b) = {}
  PROVE  /\ a \o b \in Seq(C) /\ Distinct(a \o b)
         /\ Range(a \o b) = Range(a) \union Range(b)
<1> DEFINE n == Len(a)
           m == Len(b)
           t == a \o b
<1>1. n \in Nat /\ m \in Nat /\ DOMAIN a = 1..n /\ DOMAIN b = 1..m
  OBVIOUS
<1>2. /\ t \in Seq(C) /\ DOMAIN t = 1..(n + m)
      /\ \A i \in 1..(n + m) : t[i] = IF i <= n THEN a[i] ELSE b[i - n]
  BY <1>1, ConcatProperties
<1> HIDE DEF n, m, t
<1>3. /\ \A i \in 1..n : i \in 1..(n + m) /\ t[i] = a[i]
      /\ \A i \in 1..m : n + i \in 1..(n + m) /\ t[n + i] = b[i]
      /\ \A i \in 1..(n + m) : i \in 1..n \/ \E k \in 1..m : i = n + k
  <2>1. ASSUME NEW i \in 1..n PROVE i \in 1..(n + m) /\ t[i] = a[i]
    BY <1>1, <1>2
  <2>2. ASSUME NEW i \in 1..m PROVE n + i \in 1..(n + m) /\ t[n + i] = b[i]
    <3>1. n + i \in 1..(n + m) /\ ~(n + i <= n) /\ (n + i) - n = i
      BY <1>1
    <3> QED  BY <1>2, <3>1
  <2>3. ASSUME NEW i \in 1..(n + m) PROVE i \in 1..n \/ \E k \in 1..m : i = n + k
    <3>1. i > n => i - n \in 1..m /\ i = n + (i - n)
      BY <1>1
    <3> QED  BY <1>1, <3>1
  <2> QED  BY <2>1, <2>2, <2>3
<1>4. Range(t) = Range(a) \union Range(b)
  <2>1. ASSUME NEW c \in Range(t) PROVE c \in Range(a) \union Range(b)
    <3>1. PICK i \in 1..(n + m) : c = t[i]
      BY <1>2 DEF Range
    <3>2. (\E j \in 1..n : c = a[j]) \/ (\E j \in 1..m : c = b[j])
      BY <1>3, <3>1
    <3> QED  BY <1>1, <3>2 DEF Range
  <2>2. Range(a) \subseteq Range(t)
    BY <1>1, <1>2, <1>3 DEF Range
  <2>3. ASSUME NEW c \in Range(b) PROVE c \in Range(t)
    <3>1. PICK j \in 1..m : c = b[j]
      BY <1>1 DEF Range
    <3>2. n + j \in DOMAIN t /\ t[n + j] = c
      BY <1>2, <1>3, <3>1
    <3> QED  BY <3>2 DEF Range
  <2> QED  BY <2>1, <2>2, <2>3
<1>5. Distinct(t)
  <2> SUFFICES ASSUME NEW i \in 1..(n + m), NEW j \in 1..(n + m), t[i] = t[j] PROVE i = j
    BY <1>2 DEF Distinct
  <2>1. \A p \in 1..n, q \in 1..m : a[p] # b[q]
    BY <1>1 DEF Range
  <2>2. CASE i \in 1..n /\ j \in 1..n
    BY <1>1, <1>3, <2>2 DEF Distinct
  <2>3. CASE i \in 1..n /\ \E k \in 1..m : j = n + k
    BY <1>3, <2>1, <2>3
  <2>4. CASE (\E k \in 1..m : i = n + k) /\ j \in 1..n
    BY <1>3, <2>1, <2>4
  <2>5. CASE (\E k \in 1..m : i = n + k) /\ (\E k \in 1..m : j = n + k)
    <3>1. PICK p \in 1..m, q \in 1..m : i = n + p /\ j = n + q
      BY <2>5
    <3>2. b[p] = b[q]
      BY <1>3, <3>1
    <3> QED  BY <1>1, <3>1, <3>2 DEF Distinct
  <2> QED  BY <1>3, <2>2, <2>3, <2>4, <2>5
<1> QED  BY <1>2, <1>4, <1>5 DEF t

-----------------------------------------------------------------------------
(* The groups of split_hysteria2_endpoint_conflicts.                       *)

\* No two candidates of a batch reach one endpoint.
NoConflict(b) ==
  \A i, j \in DOMAIN b :
    i # j /\ UdpEndpoint[b[i]] # NoEndpoint => UdpEndpoint[b[i]] # UdpEndpoint[b[j]]

\* The turns of a batch, and the positions that share the endpoint of position i.
Turns(s)    == {Turn(s, i) : i \in DOMAIN s}
Mates(s, i) == {j \in DOMAIN s : UdpEndpoint[s[j]] = UdpEndpoint[s[i]]}

LEMMA MatesAreFinite ==
  ASSUME NEW S, NEW s \in Seq(S), NEW i \in DOMAIN s
  PROVE  Mates(s, i) \in SUBSET Nat /\ IsFiniteSet(Mates(s, i)) /\ i \in Mates(s, i)
<1>1. DOMAIN s = 1..Len(s) /\ Len(s) \in Nat
  OBVIOUS
<1>2. IsFiniteSet(1..Len(s))
  BY <1>1, FS_Interval
<1> QED  BY <1>1, <1>2, FS_Subset DEF Mates

\* The turn of a hysteria2 candidate is its rank among those of its endpoint.
LEMMA TurnIsRank ==
  ASSUME NEW S, NEW s \in Seq(S), NEW i \in DOMAIN s, NEW j \in Mates(s, i),
         UdpEndpoint[s[i]] # NoEndpoint
  PROVE  Turn(s, j) = Rank(Mates(s, i), j)
<1>1. j \in 1..Len(s) /\ DOMAIN s = 1..Len(s) /\ Len(s) \in Nat
  BY DEF Mates
<1>2. UdpEndpoint[s[j]] = UdpEndpoint[s[i]]
  BY DEF Mates
<1>3. {k \in 1..j : UdpEndpoint[s[k]] = UdpEndpoint[s[j]]} = {k \in Mates(s, i) : k <= j}
  BY <1>1, <1>2 DEF Mates
<1> QED  BY <1>2, <1>3 DEF Turn, Rank

LEMMA TurnBounds ==
  ASSUME NEW S, NEW s \in Seq(S), NEW i \in DOMAIN s
  PROVE  Turn(s, i) \in 1..Len(s)
<1>1. CASE UdpEndpoint[s[i]] = NoEndpoint
  BY <1>1 DEF Turn
<1>2. CASE UdpEndpoint[s[i]] # NoEndpoint
  <2>1. Turn(s, i) = Rank(Mates(s, i), i) /\ Turn(s, i) \in 1..Cardinality(Mates(s, i))
    BY <1>2, MatesAreFinite, TurnIsRank, RankBounds
  <2>2. Len(s) \in Nat /\ Mates(s, i) \subseteq 1..Len(s)
    BY DEF Mates
  <2>3. IsFiniteSet(1..Len(s)) /\ Cardinality(1..Len(s)) = Len(s)
    <3> DEFINE n == Len(s)
    <3>1. n \in Nat
      BY <2>2
    <3> HIDE DEF n
    <3>2. IsFiniteSet(1..n) /\ Cardinality(1..n) = n
      BY <3>1, FS_Interval
    <3> QED  BY <3>2 DEF n
  <2>4. Cardinality(Mates(s, i)) <= Len(s) /\ Cardinality(Mates(s, i)) \in Nat
    BY <2>2, <2>3, MatesAreFinite, FS_Subset, FS_CardinalityType
  <2> QED  BY <2>1, <2>2, <2>4
<1> QED  BY <1>1, <1>2

\* Two candidates of one endpoint have different turns.
LEMMA TurnsDiffer ==
  ASSUME NEW S, NEW s \in Seq(S), NEW i \in DOMAIN s, NEW j \in DOMAIN s, i # j,
         UdpEndpoint[s[i]] # NoEndpoint, UdpEndpoint[s[i]] = UdpEndpoint[s[j]]
  PROVE  Turn(s, i) # Turn(s, j)
<1> DEFINE M == Mates(s, i)
<1>1. M \in SUBSET Nat /\ IsFiniteSet(M) /\ i \in M /\ j \in M
  BY MatesAreFinite DEF Mates
<1>2. Turn(s, i) = Rank(M, i) /\ Turn(s, j) = Rank(M, j)
  BY <1>1, TurnIsRank
<1> HIDE DEF M
<1>3. Rank(M, i) \in 1..Cardinality(M) /\ Rank(M, j) \in 1..Cardinality(M)
  BY <1>1, RankBounds
<1>4. Rank(M, i) \in Nat /\ Rank(M, j) \in Nat /\ i \in Nat /\ j \in Nat
  BY <1>1, <1>3
<1>5. CASE i < j
  <2>1. Rank(M, i) < Rank(M, j)
    BY <1>1, <1>5, RankIncreases
  <2> QED  BY <1>2, <1>4, <2>1
<1>6. CASE j < i
  <2>1. Rank(M, j) < Rank(M, i)
    BY <1>1, <1>6, RankIncreases
  <2> QED  BY <1>2, <1>4, <2>1
<1> QED  BY <1>4, <1>5, <1>6

\* Who has a turn has someone in every turn before it.
LEMMA TurnsHaveNoGap ==
  ASSUME NEW S, NEW s \in Seq(S), NEW i \in DOMAIN s, NEW k \in 1..Turn(s, i)
  PROVE  \E j \in DOMAIN s : Turn(s, j) = k
<1>1. CASE UdpEndpoint[s[i]] = NoEndpoint
  BY <1>1 DEF Turn
<1>2. CASE UdpEndpoint[s[i]] # NoEndpoint
  <2> DEFINE M == Mates(s, i)
  <2>1. M \in SUBSET Nat /\ IsFiniteSet(M) /\ i \in M
    BY MatesAreFinite
  <2>2. \A j \in M : j \in DOMAIN s /\ Turn(s, j) = Rank(M, j)
    BY <1>2, TurnIsRank DEF Mates
  <2> HIDE DEF M
  <2>3. Rank(M, i) \in 1..Cardinality(M) /\ Cardinality(M) \in Nat
    BY <2>1, RankBounds, FS_CardinalityType
  <2>4. k \in 1..Cardinality(M)
    BY <2>1, <2>2, <2>3
  <2>5. PICK j \in M : Rank(M, j) = k
    BY <2>1, <2>4, RankIsOnto
  <2> QED  BY <2>2, <2>5
<1> QED  BY <1>1, <1>2

\* The groups are one for each turn, counted from 1.
LEMMA TurnsAreCounted ==
  ASSUME NEW S, NEW s \in Seq(S)
  PROVE  /\ Cardinality(Turns(s)) \in Nat
         /\ Turns(s) = 1..Cardinality(Turns(s))
<1> DEFINE T == Turns(s)
           c == Cardinality(T)
<1>1. Len(s) \in Nat /\ IsFiniteSet(1..Len(s))
  <2>1. Len(s) \in Nat
    OBVIOUS
  <2> QED  BY <2>1, FS_Interval
<1>2. T \subseteq 1..Len(s)
  BY TurnBounds DEF Turns
<1>3. IsFiniteSet(T) /\ c \in Nat
  BY <1>1, <1>2, FS_Subset, FS_CardinalityType
<1>4. ASSUME NEW t \in T PROVE t \in 1..c
  <2>1. PICK i \in DOMAIN s : t = Turn(s, i)
    BY DEF Turns
  <2>2. 1..t \subseteq T
    BY <2>1, TurnsHaveNoGap DEF Turns
  <2>3. t \in Nat \ {0}
    BY <1>1, <1>2
  <2>4. IsFiniteSet(1..t) /\ Cardinality(1..t) = t
    BY <2>3, FS_Interval
  <2>5. t <= c
    BY <1>3, <2>2, <2>4, FS_Subset
  <2> QED  BY <1>3, <2>3, <2>5
<1> HIDE DEF T, c
<1>5. IsFiniteSet(1..c) /\ Cardinality(1..c) = c
  BY <1>3, FS_Interval
<1>6. T \in SUBSET (1..c) /\ Cardinality(T) = c
  BY <1>4 DEF c
<1>7. 1..c = T
  BY <1>5, <1>6, FS_Subset
<1> QED  BY <1>3, <1>7 DEF T, c

\* The positions that end up in the k-th group.
GroupOf(s, i) == IF i \in Hysteria2(s) THEN Turn(s, i) ELSE 1

\* The groups share out a batch of which every candidate is there once, and none
\* holds two candidates of one endpoint.
LEMMA GroupsShareOut ==
  ASSUME NEW C, NEW s \in Seq(C), Distinct(s), s # << >>, SplitsConflicts
  PROVE  /\ ConflictFree(s) \in Stacks(C)
         /\ Len(ConflictFree(s)) \in Nat \ {0}
         /\ Apart(ConflictFree(s)) /\ All(ConflictFree(s)) = Range(s)
         /\ \A k \in DOMAIN ConflictFree(s) : NoConflict(ConflictFree(s)[k])
<1> DEFINE n == Cardinality(Turns(s))
           U == Hysteria2(s)
           N == DOMAIN s \ U
           H(k) == {i \in U : Turn(s, i) = k}
           G(k) == {i \in DOMAIN s : GroupOf(s, i) = k}
           g == ConflictFree(s)
<1>1. U \subseteq DOMAIN s /\ N \subseteq DOMAIN s /\ \A k : H(k) \subseteq DOMAIN s
  BY DEF Hysteria2
<1>2. g = [k \in 1..n |-> IF k = 1 THEN At(s, N) \o At(s, H(1)) ELSE At(s, H(k))]
  BY DEF ConflictFree, InTurn, Turns
<1>3. n \in Nat /\ Turns(s) = 1..n
  BY TurnsAreCounted
<1>4. Len(s) \in Nat \ {0} /\ DOMAIN s = 1..Len(s) /\ 1 \in DOMAIN s
  OBVIOUS
<1>5. 1 \in 1..n /\ n # 0
  <2>1. Turn(s, 1) \in 1..n
    BY <1>3, <1>4 DEF Turns
  <2> QED  BY <1>3, <2>1
\* Of each group: it holds the candidates at its positions, each once.
<1>6. ASSUME NEW k \in 1..n
      PROVE  /\ g[k] \in Seq(C) /\ Distinct(g[k])
             /\ Range(g[k]) = {s[i] : i \in G(k)}
             /\ NoConflict(g[k])
  <2>1. /\ At(s, H(k)) \in Seq(C) /\ Distinct(At(s, H(k)))
        /\ Range(At(s, H(k))) = {s[i] : i \in H(k)}
    BY <1>1, AtProperties
  <2>2. /\ At(s, N) \in Seq(C) /\ Distinct(At(s, N))
        /\ Range(At(s, N)) = {s[i] : i \in N}
    BY <1>1, AtProperties
  <2>3. /\ g[k] \in Seq(C) /\ Distinct(g[k])
        /\ Range(g[k]) = {s[i] : i \in G(k)}
    <3>1. CASE k # 1
      <4>1. G(k) = H(k)
        BY <1>1, <3>1 DEF GroupOf
      <4> QED  BY <1>2, <2>1, <3>1, <4>1
    <3>2. CASE k = 1
      <4> DEFINE a == At(s, N)
                 b == At(s, H(1))
      <4>1. G(1) = N \union H(1)
        BY <1>1 DEF GroupOf
      <4>2. /\ a \in Seq(C) /\ b \in Seq(C) /\ Distinct(a) /\ Distinct(b)
            /\ Range(a) = {s[i] : i \in N} /\ Range(b) = {s[i] : i \in H(1)}
        BY <2>1, <2>2, <3>2
      <4>3. Range(a) \cap Range(b) = {}
        <5> SUFFICES ASSUME NEW c, c \in Range(a), c \in Range(b) PROVE FALSE
          OBVIOUS
        <5>1. (\E p \in N : c = s[p]) /\ (\E p \in H(1) : c = s[p])
          BY <4>2
        <5>2. PICK p \in N, q \in H(1) : s[p] = s[q]
          BY <5>1
        <5>3. p = q
          BY <1>1, <5>2 DEF Distinct
        <5> QED  BY <5>3
      <4>4. Range(a) \union Range(b) = {s[i] : i \in G(1)}
        BY <4>1, <4>2
      <4> HIDE DEF a, b
      <4>5. a \o b \in Seq(C) /\ Distinct(a \o b) /\ Range(a \o b) = Range(a) \union Range(b)
        BY <4>2, <4>3, ConcatShares
      <4>6. g[k] = a \o b
        BY <1>2, <3>2, <1>5 DEF a, b
      <4> QED  BY <3>2, <4>4, <4>5, <4>6
    <3> QED  BY <3>1, <3>2
  <2>4. NoConflict(g[k])
    <3> SUFFICES ASSUME NEW i \in DOMAIN g[k], NEW j \in DOMAIN g[k], i # j,
                        UdpEndpoint[g[k][i]] # NoEndpoint,
                        UdpEndpoint[g[k][i]] = UdpEndpoint[g[k][j]]
                 PROVE  FALSE
      BY DEF NoConflict
    <3>1. g[k][i] # g[k][j] /\ g[k][i] \in Range(g[k]) /\ g[k][j] \in Range(g[k])
      BY <2>3 DEF Distinct, Range
    <3>2. PICK p \in G(k), q \in G(k) : g[k][i] = s[p] /\ g[k][j] = s[q]
      BY <2>3, <3>1
    <3>3. p \in DOMAIN s /\ q \in DOMAIN s /\ p # q /\ p \in U /\ q \in U
      BY <3>1, <3>2 DEF Hysteria2
    <3>4. Turn(s, p) = k /\ Turn(s, q) = k
      BY <3>2, <3>3 DEF GroupOf
    <3> QED  BY <3>2, <3>3, <3>4, TurnsDiffer
  <2> QED  BY <2>3, <2>4
<1>7. g \in Seq(Seq(C)) /\ DOMAIN g = 1..n /\ Len(g) = n
  <2>1. DOMAIN g = 1..n /\ g = [k \in 1..n |-> g[k]]
    BY <1>2
  <2> HIDE DEF g
  <2>2. g \in [1..n -> Seq(C)]
    BY <1>6, <2>1
  <2> QED  BY <1>3, <2>2
<1> HIDE DEF g
<1>8. g \in Stacks(C)
  BY <1>6, <1>7 DEF Stacks
<1>9. Apart(g)
  <2> SUFFICES ASSUME NEW k \in 1..n, NEW m \in 1..n, k # m
               PROVE  Range(g[k]) \cap Range(g[m]) = {}
    BY <1>7 DEF Apart
  <2> SUFFICES ASSUME NEW c, c \in Range(g[k]), c \in Range(g[m]) PROVE FALSE
    OBVIOUS
  <2>1. (\E p \in G(k) : c = s[p]) /\ (\E p \in G(m) : c = s[p])
    BY <1>6
  <2>2. PICK p \in G(k), q \in G(m) : s[p] = s[q]
    BY <2>1
  <2>3. p = q
    BY <2>2 DEF Distinct
  <2> QED  BY <2>3
<1>10. All(g) = Range(s)
  <2>1. ASSUME NEW i \in DOMAIN s PROVE GroupOf(s, i) \in 1..n
    BY <1>3, <1>5 DEF GroupOf, Turns
  <2>2. ASSUME NEW i \in DOMAIN s PROVE s[i] \in All(g)
    <3>1. GroupOf(s, i) \in 1..n /\ i \in G(GroupOf(s, i))
      BY <2>1
    <3>2. s[i] \in Range(g[GroupOf(s, i)])
      BY <1>6, <3>1
    <3> QED  BY <1>7, <3>1, <3>2 DEF All
  <2>3. ASSUME NEW k \in 1..n PROVE Range(g[k]) \subseteq Range(s)
    <3>1. Range(g[k]) = {s[i] : i \in G(k)}
      BY <1>6
    <3> QED  BY <3>1 DEF Range
  <2> QED  BY <1>7, <2>2, <2>3 DEF All, Range
<1> QED  BY <1>3, <1>5, <1>6, <1>7, <1>8, <1>9, <1>10 DEF g

-----------------------------------------------------------------------------
(* Where a candidate is.                                                   *)

Candidates == Range(Entries)

\* The candidates that the running batch still answers for: sing-box gives those
\* of a core that exited back to the stack.
Held ==
  IF stage = "start" \/ (stage \in {"probe", "verdict"} /\ ~(WatchesCore /\ exited))
  THEN Range(batch) ELSE {}

BatchTypes ==
  /\ call \in Calls
  /\ stage \in {"pop", "start", "probe", "verdict", "done", "failed"}
  /\ pending \in Stacks(Candidates)
  /\ batch \in Seq(Candidates) /\ Distinct(batch)
  /\ failures \in Nat /\ round \in Nat
  /\ exited \in BOOLEAN
  /\ cache \subseteq Candidates

\* Only crashers end a core, and a round has to pass for it.
ExitsHaveCause == stage \in {"probe", "verdict"} /\ exited => crashers # {} /\ round > 0

BatchIsConflictFree ==
  stage \in {"start", "probe", "verdict"} /\ SplitsConflicts => NoConflict(batch)

\* No candidate is in two places.
PlacesAreApart ==
  (WatchesCore => Attempts = 1 \/ crashers = {}) =>
    /\ Apart(pending)
    /\ All(pending) \cap Held = {}
    /\ All(pending) \cap judged = {} /\ Held \cap judged = {}

\* No call of sing-box within its budget loses a candidate that broke no core.
Undisturbed ==
  /\ WatchesCore /\ ~call.flakyStart
  /\ failures < FailureBudget
  /\ NeedsSecondary => Attempts + 1 \notin call.crashRounds

NoneIsLost ==
  /\ Undisturbed /\ stage # "failed" =>
       cache \ (blockers \cup crashers) \subseteq judged \cup All(pending) \cup Held
  /\ stage = "done" /\ failures < FailureBudget => pending = << >>

PlacesInv ==
  /\ BatchTypes /\ ExitsHaveCause /\ BatchIsConflictFree /\ PlacesAreApart /\ NoneIsLost

LEMMA CallTypes ==
  ASSUME call \in Calls
  PROVE  /\ Entries \in Seq(Candidates) /\ Entries # << >> /\ Distinct(Entries)
         /\ Attempts \in Nat \ {0} /\ FailureBudget \in Nat \ {0}
<1>1. /\ call \in CallRecord(Range(call.entries), Range(call.udpEndpoint))
      /\ \A i, j \in DOMAIN call.entries : call.entries[i] = call.entries[j] => i = j
  BY CoreAssumption
<1>2. /\ call.entries \in {q \in Seq(Range(call.entries)) : q # << >>}
      /\ call.attempts \in Nat \ {0} /\ call.budget \in Nat \ {0}
  BY <1>1 DEF CallRecord
<1> QED  BY <1>1, <1>2 DEF Entries, Candidates, Attempts, FailureBudget, Distinct

LEMMA EmptyStack ==
  ASSUME NEW C
  PROVE  << >> \in Stacks(C) /\ All(<< >>) = {} /\ Apart(<< >>)
         /\ \A q \in Stacks(C) : q \o << >> = q
<1>1. << >> \in Seq(Seq(C)) /\ DOMAIN << >> = {}
  <2>1. << >> \in Seq(Seq(C)) /\ Len(<< >>) = 0
    OBVIOUS
  <2> QED  BY <2>1
<1>2. ASSUME NEW q \in Stacks(C) PROVE q \o << >> = q
  BY <1>1, ConcatEmptySeq DEF Stacks
<1> QED  BY <1>1, <1>2 DEF Stacks, All, Apart

LEMMA SingleStack ==
  ASSUME NEW C, NEW s \in Seq(C), Distinct(s)
  PROVE  <<s>> \in Stacks(C) /\ All(<<s>>) = Range(s) /\ Apart(<<s>>) /\ Len(<<s>>) = 1
         /\ <<s>>[1] = s
<1>1. <<s>> \in Seq(Seq(C)) /\ DOMAIN <<s>> = {1} /\ <<s>>[1] = s /\ Len(<<s>>) = 1
  OBVIOUS
<1> QED  BY <1>1 DEF Stacks, All, Apart

LEMMA PinnedProperties ==
  ASSUME NEW C, NEW s \in Seq(C), Distinct(s), NEW known
  PROVE  /\ Pinned(s, known) \in Seq(C) /\ Distinct(Pinned(s, known))
         /\ Range(Pinned(s, known)) = Range(s) \cap known
<1> DEFINE I == {i \in DOMAIN s : s[i] \in known}
<1>1. /\ At(s, I) \in Seq(C) /\ Distinct(At(s, I))
      /\ Range(At(s, I)) = {s[i] : i \in I}
  BY AtProperties
<1>2. {s[i] : i \in I} = Range(s) \cap known
  BY DEF Range
<1> QED  BY <1>1, <1>2 DEF Pinned

\* What Pop makes of the batch on top of the stack.
LEMMA PopShares ==
  ASSUME BatchTypes, Pop
  PROVE  /\ pending # << >> /\ stage = "pop"
         /\ cache \subseteq cache' /\ cache' \subseteq cache \cup Range(Top(pending))
         /\ \/ /\ stage' = "pop" /\ batch' = batch
               /\ \E r \in Stacks(Candidates) :
                    /\ pending' = Front(pending) \o r /\ Apart(r)
                    /\ All(r) = Range(Top(pending)) \cap cache'
            \/ /\ stage' = "start" /\ pending' = Front(pending)
               /\ batch' \in Seq(Candidates) /\ Distinct(batch')
               /\ Range(batch') = Range(Top(pending)) \cap cache'
               /\ SplitsConflicts => NoConflict(batch')
<1> DEFINE C == Candidates
           s == Top(pending)
<1>1. /\ stage = "pop" /\ pending # << >>
      /\ \E resolved \in SUBSET (Range(s) \ cache) :
           LET pinned == Pinned(s, cache \cup resolved)
               groups == ConflictFree(pinned)
           IN  /\ cache' = cache \cup resolved
               /\ \/ /\ pinned = << >> /\ pending' = Front(pending)
                     /\ batch' = batch /\ stage' = stage
                  \/ /\ pinned # << >> /\ Len(groups) > 1
                     /\ pending' = Front(pending) \o Reversed(groups)
                     /\ batch' = batch /\ stage' = stage
                  \/ /\ pinned # << >> /\ Len(groups) = 1
                     /\ pending' = Front(pending)
                     /\ batch' = groups[1] /\ stage' = "start"
  BY DEF Pop
<1>2. PICK resolved \in SUBSET (Range(s) \ cache) :
        /\ cache' = cache \cup resolved
        /\ \/ /\ Pinned(s, cache \cup resolved) = << >> /\ pending' = Front(pending)
              /\ batch' = batch /\ stage' = stage
           \/ /\ Pinned(s, cache \cup resolved) # << >>
              /\ Len(ConflictFree(Pinned(s, cache \cup resolved))) > 1
              /\ pending' = Front(pending)
                              \o Reversed(ConflictFree(Pinned(s, cache \cup resolved)))
              /\ batch' = batch /\ stage' = stage
           \/ /\ Pinned(s, cache \cup resolved) # << >>
              /\ Len(ConflictFree(Pinned(s, cache \cup resolved))) = 1
              /\ pending' = Front(pending)
              /\ batch' = ConflictFree(Pinned(s, cache \cup resolved))[1] /\ stage' = "start"
  BY <1>1
<1>3. s \in Seq(C) /\ Distinct(s) /\ Front(pending) \in Stacks(C)
  BY <1>1, PoppedStack DEF BatchTypes
<1> DEFINE p == Pinned(s, cache')
           g == ConflictFree(p)
<1>4. p \in Seq(C) /\ Distinct(p) /\ Range(p) = Range(s) \cap cache'
  BY <1>3, PinnedProperties
<1> HIDE DEF s
<1>8. /\ \/ p = << >> /\ pending' = Front(pending) /\ batch' = batch /\ stage' = stage
         \/ /\ p # << >> /\ Len(g) > 1 /\ pending' = Front(pending) \o Reversed(g)
            /\ batch' = batch /\ stage' = stage
         \/ /\ p # << >> /\ Len(g) = 1 /\ pending' = Front(pending)
            /\ batch' = g[1] /\ stage' = "start"
      /\ cache \subseteq cache' /\ cache' \subseteq cache \cup Range(s)
  <2>1. PICK found \in SUBSET (Range(s) \ cache) :
          /\ cache' = cache \cup found
          /\ \/ /\ Pinned(s, cache') = << >> /\ pending' = Front(pending)
                /\ batch' = batch /\ stage' = stage
             \/ /\ Pinned(s, cache') # << >>
                /\ Len(ConflictFree(Pinned(s, cache'))) > 1
                /\ pending' = Front(pending) \o Reversed(ConflictFree(Pinned(s, cache')))
                /\ batch' = batch /\ stage' = stage
             \/ /\ Pinned(s, cache') # << >>
                /\ Len(ConflictFree(Pinned(s, cache'))) = 1
                /\ pending' = Front(pending)
                /\ batch' = ConflictFree(Pinned(s, cache'))[1] /\ stage' = "start"
    BY <1>2
  <2> QED  BY <2>1
<1> HIDE DEF p
<1>5. CASE p = << >> /\ pending' = Front(pending) /\ batch' = batch /\ stage' = stage
  <2>1. Range(p) = {}
    <3>1. DOMAIN p = {}
      BY <1>5
    <3> QED  BY <3>1 DEF Range
  <2>2. << >> \in Stacks(C) /\ All(<< >>) = {} /\ Apart(<< >>)
        /\ pending' = Front(pending) \o << >>
    BY <1>3, <1>5, EmptyStack
  <2> QED  BY <1>1, <1>8, <1>4, <1>5, <2>1, <2>2 DEF s
<1>6. CASE p # << >> /\ SplitsConflicts
  <2>1. /\ g \in Stacks(C) /\ Apart(g) /\ All(g) = Range(p)
        /\ \A k \in DOMAIN g : NoConflict(g[k])
    BY <1>4, <1>6, GroupsShareOut
  <2> HIDE DEF g
  <2>2. CASE Len(g) > 1 /\ pending' = Front(pending) \o Reversed(g)
             /\ batch' = batch /\ stage' = stage
    <3>1. Reversed(g) \in Stacks(C) /\ All(Reversed(g)) = Range(p) /\ Apart(Reversed(g))
      BY <2>1, ReversedStack
    <3> QED  BY <1>1, <1>8, <1>4, <2>2, <3>1 DEF s
  <2>3. CASE Len(g) = 1 /\ pending' = Front(pending) /\ batch' = g[1] /\ stage' = "start"
    <3>1. DOMAIN g = {1} /\ g \in Seq(Seq(C))
      BY <2>1, <2>3 DEF Stacks
    <3>2. All(g) = Range(g[1]) /\ g[1] \in Seq(C) /\ Distinct(g[1]) /\ NoConflict(g[1])
      BY <2>1, <3>1 DEF All, Stacks
    <3> QED  BY <1>1, <1>8, <1>4, <2>1, <2>3, <3>2 DEF s
  <2> QED  BY <1>8, <1>6, <2>2, <2>3 DEF g
<1>7. CASE p # << >> /\ ~SplitsConflicts
  <2>1. g = <<p>>
    BY <1>7 DEF ConflictFree
  <2>2. Len(g) = 1 /\ g[1] = p
    BY <1>4, <2>1, SingleStack
  <2>3. pending' = Front(pending) /\ batch' = p /\ stage' = "start"
    BY <1>7, <1>8, <2>2
  <2> QED  BY <1>1, <1>8, <1>4, <1>7, <2>3 DEF s
<1> QED  BY <1>5, <1>6, <1>7, <1>8

\* What CountFailure gives back to the stack.
LEMMA FailureShares ==
  ASSUME BatchTypes, CountFailure
  PROVE  /\ pending' \in Stacks(Candidates) /\ failures' = failures + 1
         /\ All(pending) \subseteq All(pending')
         /\ All(pending') \subseteq All(pending) \cup Range(batch)
         /\ Apart(pending) /\ All(pending) \cap Range(batch) = {} => Apart(pending')
         /\ failures' < FailureBudget =>
              \/ Range(batch) \subseteq All(pending')
              \/ \A c, d \in Range(batch) : c = d
<1>1. /\ pending \in Stacks(Candidates) /\ batch \in Seq(Candidates) /\ Distinct(batch)
      /\ failures' = failures + 1
  BY DEF BatchTypes, CountFailure
<1>2. CASE Len(batch) > 1 /\ failures + 1 < FailureBudget
  <2>1. pending' = pending \o Halves(batch)
    BY <1>2 DEF CountFailure
  <2>2. /\ Halves(batch) \in Stacks(Candidates)
        /\ Apart(Halves(batch)) /\ All(Halves(batch)) = Range(batch)
    BY <1>1, <1>2, HalvesShareOut
  <2>3. /\ pending' \in Stacks(Candidates)
        /\ All(pending') = All(pending) \cup Range(batch)
        /\ Apart(pending) /\ All(pending) \cap Range(batch) = {} => Apart(pending')
    BY <1>1, <2>1, <2>2, PushedStack
  <2> QED  BY <1>1, <2>3
<1>3. CASE ~(Len(batch) > 1 /\ failures + 1 < FailureBudget)
  <2>1. pending' = pending
    BY <1>3 DEF CountFailure
  <2>2. ASSUME failures' < FailureBudget, NEW c \in Range(batch), NEW d \in Range(batch)
        PROVE  c = d
    <3>1. Len(batch) \in Nat /\ ~(Len(batch) > 1) /\ DOMAIN batch = 1..Len(batch)
      BY <1>1, <1>3, <2>2
    <3>2. \A i, j \in DOMAIN batch : i = j
      BY <3>1
    <3>3. PICK i \in DOMAIN batch, j \in DOMAIN batch : c = batch[i] /\ d = batch[j]
      BY DEF Range
    <3> QED  BY <3>2, <3>3
  <2> QED  BY <1>1, <2>1, <2>2
<1> QED  BY <1>2, <1>3

\* A call and its candidates are fixed.
LEMMA FixedThroughout ==
  ASSUME [Next]_vars
  PROVE  /\ call' = call /\ blockers' = blockers /\ crashers' = crashers
         /\ Entries' = Entries /\ Candidates' = Candidates /\ WatchesCore' = WatchesCore
         /\ SplitsConflicts' = SplitsConflicts /\ Attempts' = Attempts
         /\ NeedsSecondary' = NeedsSecondary /\ FailureBudget' = FailureBudget
         /\ \A b : NoConflict(b)' = NoConflict(b)
<1>1. call' = call /\ blockers' = blockers /\ crashers' = crashers
  BY DEF Next, vars, fixedVars, Pop, Finish, StartFails, Starts, CannotRun, Probe,
         CrashSeen, CrashMissed, EndRounds, Verdict
<1> QED  BY <1>1 DEF Entries, Candidates, WatchesCore, SplitsConflicts, Attempts,
                     NeedsSecondary, FailureBudget, NoConflict, UdpEndpoint

LEMMA PlacesStart == Init => PlacesInv
<1> SUFFICES ASSUME Init PROVE PlacesInv
  OBVIOUS
<1>1. /\ call \in Calls /\ stage = "pop" /\ pending = <<Entries>> /\ batch = << >>
      /\ failures = 0 /\ round = 0 /\ exited = FALSE /\ cache = {} /\ judged = {}
  BY DEF Init
<1>2. Entries \in Seq(Candidates) /\ Distinct(Entries)
  BY <1>1, CallTypes
<1>3. pending \in Stacks(Candidates) /\ Apart(pending)
  BY <1>1, <1>2, SingleStack
<1>4. batch \in Seq(Candidates) /\ Distinct(batch)
  BY <1>1 DEF Distinct
<1>5. BatchTypes
  BY <1>1, <1>3, <1>4 DEF BatchTypes
<1>6. ExitsHaveCause /\ BatchIsConflictFree
  BY <1>1 DEF ExitsHaveCause, BatchIsConflictFree
<1>7. PlacesAreApart /\ NoneIsLost
  BY <1>1, <1>3 DEF PlacesAreApart, NoneIsLost, Held
<1> QED  BY <1>5, <1>6, <1>7 DEF PlacesInv

LEMMA PopKeepsPlaces ==
  ASSUME PlacesInv, [Next]_vars, Pop
  PROVE  PlacesInv'
<1> DEFINE s == Top(pending)
<1>1. /\ BatchTypes /\ pending # << >> /\ stage = "pop"
      /\ cache \subseteq cache' /\ cache' \subseteq cache \cup Range(s)
      /\ UNCHANGED <<failures, round, exited, judged>>
  BY PopShares DEF PlacesInv, Pop, coreVars, resultVars
<1>2. /\ Front(pending) \in Stacks(Candidates) /\ s \in Seq(Candidates)
      /\ All(pending) = All(Front(pending)) \union Range(s)
      /\ Apart(pending) => Apart(Front(pending)) /\ All(Front(pending)) \cap Range(s) = {}
  BY <1>1, PoppedStack DEF BatchTypes
<1>3. Range(s) \subseteq Candidates
  BY <1>2 DEF Range
<1>4. Held = {}
  BY <1>1 DEF Held
<1> HIDE DEF s
<1>5. CASE /\ stage' = "pop" /\ batch' = batch
           /\ \E r \in Stacks(Candidates) :
                /\ pending' = Front(pending) \o r /\ Apart(r)
                /\ All(r) = Range(s) \cap cache'
  <2>1. PICK r \in Stacks(Candidates) :
          /\ pending' = Front(pending) \o r /\ Apart(r)
          /\ All(r) = Range(s) \cap cache'
    BY <1>5
  <2>2. /\ pending' \in Stacks(Candidates)
        /\ All(pending') = All(Front(pending)) \cup (Range(s) \cap cache')
        /\ Apart(pending) => Apart(pending')
    BY <1>2, <2>1, PushedStack
  <2>3. (Held)' = {}
    BY <1>5 DEF Held
  <2>4. BatchTypes'
    BY <1>1, <1>3, <1>5, <2>2, FixedThroughout DEF BatchTypes
  <2>5. ExitsHaveCause' /\ BatchIsConflictFree'
    BY <1>5 DEF ExitsHaveCause, BatchIsConflictFree
  <2>6. PlacesAreApart'
    BY <1>1, <1>2, <2>2, <2>3, FixedThroughout DEF PlacesInv, PlacesAreApart
  <2>7. NoneIsLost'
    <3>1. (Undisturbed)' = Undisturbed
      BY <1>1, FixedThroughout DEF Undisturbed
    <3> QED  BY <1>1, <1>2, <1>4, <1>5, <2>2, <3>1, FixedThroughout DEF PlacesInv, NoneIsLost
  <2> QED  BY <2>4, <2>5, <2>6, <2>7 DEF PlacesInv
<1>6. CASE /\ stage' = "start" /\ pending' = Front(pending)
           /\ batch' \in Seq(Candidates) /\ Distinct(batch')
           /\ Range(batch') = Range(s) \cap cache'
           /\ SplitsConflicts => NoConflict(batch')
  <2>1. (Held)' = Range(s) \cap cache'
    BY <1>6 DEF Held
  <2>2. BatchTypes'
    BY <1>1, <1>2, <1>3, <1>6, FixedThroughout DEF BatchTypes
  <2>3. ExitsHaveCause'
    BY <1>6 DEF ExitsHaveCause
  <2>4. BatchIsConflictFree'
    <3>1. UdpEndpoint' = UdpEndpoint /\ SplitsConflicts' = SplitsConflicts
      BY FixedThroughout DEF UdpEndpoint
    <3> QED  BY <1>6, <3>1 DEF BatchIsConflictFree, NoConflict
  <2>5. PlacesAreApart'
    BY <1>1, <1>2, <1>6, <2>1, FixedThroughout DEF PlacesInv, PlacesAreApart
  <2>6. NoneIsLost'
    <3>1. (Undisturbed)' = Undisturbed
      BY <1>1, FixedThroughout DEF Undisturbed
    <3> QED  BY <1>1, <1>2, <1>4, <1>6, <2>1, <3>1, FixedThroughout DEF PlacesInv, NoneIsLost
  <2> QED  BY <2>2, <2>3, <2>4, <2>5, <2>6 DEF PlacesInv
<1> QED  BY <1>1, <1>5, <1>6, PopShares DEF s

\* A core that does not start, or is seen to have exited, gives its batch back.
LEMMA FailureKeepsPlaces ==
  ASSUME PlacesInv, [Next]_vars, StartFails \/ CrashSeen
  PROVE  PlacesInv'
<1>1. /\ BatchTypes /\ CountFailure /\ UNCHANGED <<batch, cache, judged>>
  BY DEF PlacesInv, StartFails, CrashSeen, resultVars
<1>2. /\ pending' \in Stacks(Candidates) /\ failures' = failures + 1 /\ failures \in Nat
      /\ All(pending) \subseteq All(pending')
      /\ All(pending') \subseteq All(pending) \cup Range(batch)
      /\ Apart(pending) /\ All(pending) \cap Range(batch) = {} => Apart(pending')
      /\ failures' < FailureBudget =>
           \/ Range(batch) \subseteq All(pending')
           \/ \A c, d \in Range(batch) : c = d
  BY <1>1, FailureShares DEF BatchTypes
<1>3. FailureBudget \in Nat /\ Attempts \in Nat \ {0}
  BY <1>1, CallTypes DEF BatchTypes
<1>6. (Undisturbed)' => Undisturbed /\ ~call.flakyStart /\ failures' < FailureBudget
  <2>1. failures' < FailureBudget => failures < FailureBudget
    BY <1>2, <1>3
  <2> QED  BY <2>1, FixedThroughout DEF Undisturbed
<1>4. CASE StartFails
  <2>1. /\ stage = "start" /\ stage' \in {"pop", "done"}
        /\ stage' = "done" => failures + 1 >= FailureBudget
        /\ call.flakyStart \/ Range(batch) \cap blockers # {}
        /\ UNCHANGED <<round, exited>>
    BY <1>4 DEF StartFails, coreVars
  <2>2. Held = Range(batch) /\ (Held)' = {}
    BY <2>1 DEF Held
  <2>3. BatchTypes'
    BY <1>1, <1>2, <2>1, FixedThroughout DEF BatchTypes
  <2>4. ExitsHaveCause' /\ BatchIsConflictFree'
    BY <2>1 DEF ExitsHaveCause, BatchIsConflictFree
  <2>5. PlacesAreApart'
    BY <1>1, <1>2, <2>2, FixedThroughout DEF PlacesInv, PlacesAreApart
  <2>6. NoneIsLost'
    <3>1. (Undisturbed)' => /\ Undisturbed /\ failures' < FailureBudget
                            /\ Range(batch) \ blockers \subseteq All(pending')
      <4>1. ASSUME (Undisturbed)' PROVE Undisturbed /\ ~call.flakyStart /\ failures' < FailureBudget
        BY <1>6, <4>1
      <4>2. ASSUME (Undisturbed)' PROVE Range(batch) \ blockers \subseteq All(pending')
        BY <1>2, <2>1, <4>1, <4>2
      <4> QED  BY <4>1, <4>2
    <3>2. stage' = "done" => ~(failures' < FailureBudget')
      BY <1>2, <1>3, <2>1, FixedThroughout
    <3>3. ASSUME (Undisturbed)'
          PROVE  (cache \ (blockers \cup crashers) \subseteq judged \cup All(pending) \cup Held)'
      <4>1. cache \ (blockers \cup crashers) \subseteq judged \cup All(pending) \cup Held
        BY <2>1, <3>1, <3>3 DEF PlacesInv, NoneIsLost
      <4> QED  BY <1>1, <1>2, <2>2, <3>1, <3>3, <4>1, FixedThroughout
    <3> QED  BY <3>2, <3>3 DEF NoneIsLost
  <2> QED  BY <2>3, <2>4, <2>5, <2>6 DEF PlacesInv
<1>5. CASE CrashSeen
  <2>1. /\ stage = "probe" /\ stage' \in {"verdict", "probe"} /\ WatchesCore
        /\ round < Attempts /\ round' = round + 1 /\ exited' = TRUE
        /\ exited \/ MayCrash(round + 1)
    BY <1>5 DEF CrashSeen
  <2>2. /\ (Held)' = {} /\ Held = IF exited THEN {} ELSE Range(batch)
        /\ round \in Nat /\ exited \in BOOLEAN
    BY <1>1, <2>1, FixedThroughout DEF Held, BatchTypes
  <2>3. ~exited => Range(batch) \cap crashers # {}
    BY <2>1 DEF MayCrash
  <2>4. crashers # {}
    BY <2>1, <2>3 DEF PlacesInv, ExitsHaveCause
  <2>5. BatchTypes'
    <3>1. round' \in Nat /\ failures' \in Nat
      BY <1>2, <2>1, <2>2
    <3> QED  BY <1>1, <1>2, <2>1, <3>1, FixedThroughout DEF BatchTypes
  <2>6. ExitsHaveCause'
    <3>1. round' > 0
      BY <2>1, <2>2
    <3> QED  BY <2>4, <3>1, FixedThroughout DEF ExitsHaveCause
  <2>7. BatchIsConflictFree'
    BY <1>1, <2>1, FixedThroughout DEF PlacesInv, BatchIsConflictFree
  <2>8. PlacesAreApart'
    <3> SUFFICES ASSUME Attempts = 1
                 PROVE  /\ Apart(pending') /\ All(pending') \cap judged = {}
      BY <1>1, <2>1, <2>2, <2>4, FixedThroughout DEF PlacesAreApart, Apart, All
    <3>1. ~exited
      BY <1>3, <2>1, <2>2 DEF PlacesInv, ExitsHaveCause
    <3>2. /\ Apart(pending) /\ All(pending) \cap Range(batch) = {}
          /\ All(pending) \cap judged = {} /\ Range(batch) \cap judged = {}
      BY <2>2, <3>1 DEF PlacesInv, PlacesAreApart
    <3> QED  BY <1>2, <3>2
  <2>9. NoneIsLost'
    <3>1. ASSUME (Undisturbed)'
          PROVE  Undisturbed /\ failures' < FailureBudget /\ Held \ crashers \subseteq All(pending')
      <4>1. Undisturbed /\ failures' < FailureBudget
        BY <1>6, <3>1
      <4> QED  BY <1>2, <2>2, <2>3, <4>1
    <3> QED  BY <1>1, <1>2, <2>1, <2>2, <3>1, FixedThroughout DEF PlacesInv, NoneIsLost
  <2> QED  BY <2>5, <2>6, <2>7, <2>8, <2>9 DEF PlacesInv
<1> QED  BY <1>4, <1>5

\* Starting a core, a round of probes and the end of the rounds move no candidate.
LEMMA ProbingKeepsPlaces ==
  ASSUME PlacesInv, [Next]_vars, Starts \/ Probe \/ CrashMissed \/ EndRounds
  PROVE  PlacesInv'
<1>1. /\ stage \in {"start", "probe"} /\ stage' \in {"probe", "verdict"}
      /\ UNCHANGED <<batch, pending, cache, judged, failures>>
      /\ BatchTypes /\ round \in Nat
  BY DEF PlacesInv, BatchTypes, Starts, Probe, CrashMissed, EndRounds, resultVars
<1>2. /\ round' \in Nat /\ exited' \in BOOLEAN
      /\ exited' => crashers # {} /\ round' > 0
      /\ (Held)' = Held
  <2>1. CASE Starts
    BY <2>1 DEF Starts, Held
  <2>2. CASE Probe
    <3>1. /\ stage = "probe" /\ stage' = "probe" /\ ~exited /\ exited' = exited
          /\ round' = round + 1
      BY <2>2 DEF Probe
    <3> QED  BY <1>1, <3>1, FixedThroughout DEF Held, BatchTypes
  <2>3. CASE CrashMissed
    <3>1. /\ stage = "probe" /\ stage' = "probe" /\ ~WatchesCore /\ exited' = TRUE
          /\ round' = round + 1
          /\ exited \/ MayCrash(round + 1)
      BY <2>3 DEF CrashMissed
    <3>2. crashers # {}
      BY <3>1 DEF PlacesInv, ExitsHaveCause, MayCrash
    <3> QED  BY <1>1, <3>1, <3>2, FixedThroughout DEF Held
  <2>4. CASE EndRounds
    <3>1. stage = "probe" /\ stage' = "verdict" /\ UNCHANGED <<round, exited>>
      BY <2>4 DEF EndRounds, coreVars
    <3> QED  BY <1>1, <3>1, FixedThroughout DEF Held, PlacesInv, ExitsHaveCause, BatchTypes
  <2> QED  BY <2>1, <2>2, <2>3, <2>4
<1>3. BatchTypes'
  BY <1>1, <1>2, FixedThroughout DEF BatchTypes
<1>4. ExitsHaveCause'
  BY <1>2, FixedThroughout DEF ExitsHaveCause
<1>5. BatchIsConflictFree'
  BY <1>1, FixedThroughout DEF PlacesInv, BatchIsConflictFree
<1>6. PlacesAreApart'
  BY <1>1, <1>2, FixedThroughout DEF PlacesInv, PlacesAreApart
<1>7. NoneIsLost'
  <2>1. (Undisturbed)' = Undisturbed
    BY <1>1, FixedThroughout DEF Undisturbed
  <2> QED  BY <1>1, <1>2, <2>1, FixedThroughout DEF PlacesInv, NoneIsLost
<1> QED  BY <1>3, <1>4, <1>5, <1>6, <1>7 DEF PlacesInv

LEMMA VerdictKeepsPlaces ==
  ASSUME PlacesInv, [Next]_vars, Verdict
  PROVE  PlacesInv'
<1>1. /\ stage = "verdict" /\ stage' = "pop" /\ BatchTypes /\ exited \in BOOLEAN
      /\ UNCHANGED <<batch, pending, cache, failures, round, exited>>
      /\ \/ judged' = IF exited THEN judged ELSE judged \cup Range(batch)
         \/ NeedsSecondary /\ MayCrash(Attempts + 1) /\ judged' = judged
  BY DEF PlacesInv, BatchTypes, Verdict, coreVars
<1>2. (Held)' = {} /\ Held = IF WatchesCore /\ exited THEN {} ELSE Range(batch)
  BY <1>1 DEF Held
<1>3. judged \subseteq judged' /\ judged' \subseteq judged \cup Held
  BY <1>1, <1>2
<1>4. BatchTypes'
  BY <1>1, FixedThroughout DEF BatchTypes
<1>5. ExitsHaveCause' /\ BatchIsConflictFree'
  BY <1>1 DEF ExitsHaveCause, BatchIsConflictFree
<1>6. PlacesAreApart'
  BY <1>1, <1>2, <1>3, FixedThroughout DEF PlacesInv, PlacesAreApart
<1>7. NoneIsLost'
  <2>1. (Undisturbed)' = Undisturbed
    BY <1>1, FixedThroughout DEF Undisturbed
  <2>2. Undisturbed => Held \subseteq judged'
    BY <1>1, <1>2 DEF Undisturbed, MayCrash
  <2> QED  BY <1>1, <1>3, <2>1, <2>2, FixedThroughout DEF PlacesInv, NoneIsLost
<1> QED  BY <1>4, <1>5, <1>6, <1>7 DEF PlacesInv

LEMMA EndKeepsPlaces ==
  ASSUME PlacesInv, [Next]_vars, Finish \/ CannotRun \/ UNCHANGED vars
  PROVE  PlacesInv'
<1>1. /\ UNCHANGED <<batch, pending, cache, judged, failures, round, exited>> /\ BatchTypes
  BY DEF PlacesInv, Finish, CannotRun, vars, coreVars, resultVars
<1>2. \/ stage = "pop" /\ stage' = "done" /\ pending = << >>
      \/ stage = "start" /\ stage' = "failed"
      \/ stage' = stage
  BY DEF Finish, CannotRun, vars
<1>3. (Held)' \subseteq Held
  BY <1>1, <1>2, FixedThroughout DEF Held
<1>4. stage' # "failed" => (Held)' = Held
  BY <1>1, <1>2, FixedThroughout DEF Held
<1>5. BatchTypes'
  BY <1>1, <1>2, FixedThroughout DEF BatchTypes
<1>6. ExitsHaveCause' /\ BatchIsConflictFree'
  BY <1>1, <1>2, FixedThroughout DEF PlacesInv, ExitsHaveCause, BatchIsConflictFree
<1>7. PlacesAreApart'
  BY <1>1, <1>3, FixedThroughout DEF PlacesInv, PlacesAreApart
<1>8. NoneIsLost'
  <2>1. (Undisturbed)' = Undisturbed
    BY <1>1, FixedThroughout DEF Undisturbed
  <2>2. stage' # "failed" => stage # "failed"
    BY <1>2
  <2> QED  BY <1>1, <1>2, <1>4, <2>1, <2>2, FixedThroughout DEF PlacesInv, NoneIsLost
<1> QED  BY <1>5, <1>6, <1>7, <1>8 DEF PlacesInv

THEOREM PlacesInvariant == Spec => []PlacesInv
<1>1. Init => PlacesInv
  BY PlacesStart
<1>2. PlacesInv /\ [Next]_vars => PlacesInv'
  <2> SUFFICES ASSUME PlacesInv, [Next]_vars PROVE PlacesInv'
    OBVIOUS
  <2> QED  BY PopKeepsPlaces, FailureKeepsPlaces, ProbingKeepsPlaces, VerdictKeepsPlaces,
              EndKeepsPlaces DEF Next
<1> QED  BY <1>1, <1>2, PTL DEF Spec

\* No core of Xray carries two hysteria2 candidates of one endpoint, whatever the
\* batch and however it is halved: every group of split_hysteria2_endpoint_conflicts
\* is free of conflicts, and only such a group is started.
THEOREM NoConflictsStart == Spec => []NoConflictStarted
<1>1. PlacesInv => NoConflictStarted
  BY DEF PlacesInv, BatchIsConflictFree, NoConflictStarted, NoConflict
<1> QED  BY <1>1, PlacesInvariant, PTL

\* A candidate waits in at most one batch, and in none once it has its verdict, for
\* every batch, budget and failure of a core: pinning, regrouping and halving share
\* out what is on the stack.
THEOREM AskedAtMostOnce == Spec => []EachAskedOnce
<1>1. PlacesInv => EachAskedOnce
  <2> SUFFICES ASSUME PlacesInv, WatchesCore => Attempts = 1 \/ crashers = {}
               PROVE  /\ \A i, j \in DOMAIN pending :
                           i # j => Range(pending[i]) \cap Range(pending[j]) = {}
                      /\ \A i \in DOMAIN pending : Range(pending[i]) \cap judged = {}
    BY DEF EachAskedOnce
  <2> QED  BY DEF PlacesInv, PlacesAreApart, Apart, All
<1> QED  BY <1>1, PlacesInvariant, PTL

\* While a call of sing-box is within its failure budget, halving loses no candidate:
\* at its end each one with an address that broke no core was probed by a core that
\* stayed up.  What is left of the claim of check_batch_targets, that one bad
\* configuration does not poison the others, is thus a matter of the budget, and of
\* the core that exits while the secondary targets are probed.
THEOREM InnocentsAreJudged ==
  Spec => [](/\ failures < FailureBudget
             /\ NeedsSecondary => Attempts + 1 \notin call.crashRounds
             => InnocentsJudged)
<1>1. ASSUME PlacesInv, failures < FailureBudget,
             NeedsSecondary => Attempts + 1 \notin call.crashRounds
      PROVE  InnocentsJudged
  <2> SUFFICES ASSUME stage = "done", WatchesCore, ~call.flakyStart
               PROVE  cache \ (blockers \cup crashers) \subseteq judged
    BY DEF InnocentsJudged
  <2>1. pending = << >> /\ All(pending) = {}
    BY <1>1, EmptyStack DEF PlacesInv, NoneIsLost
  <2>2. Held = {}
    BY DEF Held
  <2>3. Undisturbed
    BY <1>1 DEF Undisturbed
  <2> QED  BY <1>1, <2>1, <2>2, <2>3 DEF PlacesInv, NoneIsLost
<1> QED  BY <1>1, PlacesInvariant, PTL
=============================================================================
