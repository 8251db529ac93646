------------------------ MODULE SelectVerifiedProofs ------------------------
(***************************************************************************)
(* The walk of select_verified_configs returns a selection, for every      *)
(* ranked list, every limit and every pair of caps.                        *)
(***************************************************************************)
EXTENDS SelectVerified, LightSelectionProofs

\* The counters agree with the result; what was walked over is in the result or
\* blocked by it; and the result is within the caps so far.
WalkInv == /\ TypeOK
           /\ CountsAgree
           /\ SkippedAreBlocked
           /\ WithinCaps
           /\ CountsAccountForWalk

\* A full endpoint or family stays full when the result grows.
LEMMA BlockedIsFinal ==
  ASSUME NEW S \in SUBSET Configs, NEW T \in SUBSET S, NEW c,
         Blocked(T, c, MaxEndpoint, MaxFamily)
  PROVE  Blocked(S, c, MaxEndpoint, MaxFamily)
<1>1. /\ AtEndpoint(T, Endpoint[c]) \in SUBSET AtEndpoint(S, Endpoint[c])
      /\ AtEndpoint(S, Endpoint[c]) \in SUBSET Configs
      /\ InFamily(T, Family[c]) \in SUBSET InFamily(S, Family[c])
      /\ InFamily(S, Family[c]) \in SUBSET Configs
  BY DEF AtEndpoint, InFamily
<1>2. /\ Cardinality(AtEndpoint(T, Endpoint[c])) <= Cardinality(AtEndpoint(S, Endpoint[c]))
      /\ Cardinality(InFamily(T, Family[c])) <= Cardinality(InFamily(S, Family[c]))
  BY <1>1, PartIsSmaller
<1>3. /\ Cardinality(AtEndpoint(T, Endpoint[c])) \in Nat
      /\ Cardinality(AtEndpoint(S, Endpoint[c])) \in Nat
      /\ Cardinality(InFamily(T, Family[c])) \in Nat
      /\ Cardinality(InFamily(S, Family[c])) \in Nat
  BY <1>1, SetsAreCounted
<1>4. QED
  BY <1>2, <1>3, LimitsAssumption DEF Blocked, EndpointFull, FamilyFull

\* A set with one more configuration has one more member.
LEMMA AddedIsCounted ==
  ASSUME NEW S \in SUBSET Configs, NEW c \in Configs, c \notin S
  PROVE  Cardinality(S \cup {c}) = Cardinality(S) + 1
BY SetsAreCounted, FS_AddElement

\* The candidate under the cursor is a configuration not met before.
LEMMA NextIsNew ==
  ASSUME WalkInv, index <= Len(ranked)
  PROVE  /\ ranked[index] \in Configs /\ ranked[index] \notin Seen
         /\ index \in 1..Len(ranked) /\ Len(ranked) \in Nat
         /\ Seen \in SUBSET Configs
         /\ {ranked[i] : i \in 1..index} = Seen \cup {ranked[index]}
         /\ Endpoint[ranked[index]] \in Endpoints /\ Family[ranked[index]] \in Families
<1>1. /\ ranked \in Seq(Configs) /\ Len(ranked) \in Nat /\ index \in 1..Len(ranked)
      /\ \A i, j \in 1..Len(ranked) : ranked[i] = ranked[j] => i = j
  BY RankingsAssumption DEF WalkInv, TypeOK
<1>2. \A i \in 1..Len(ranked) : ranked[i] \in Configs
  BY <1>1
<1>3. ranked[index] \in Configs /\ Seen \in SUBSET Configs
  BY <1>1, <1>2 DEF Seen
<1>4. ranked[index] \notin Seen
  BY <1>1 DEF Seen
<1>5. {ranked[i] : i \in 1..index} = Seen \cup {ranked[index]}
  BY <1>1 DEF Seen
<1>6. QED
  BY <1>1, <1>3, <1>4, <1>5 DEF Endpoints, Families

LEMMA InitWalkInv == Init => WalkInv
<1> SUFFICES ASSUME Init PROVE WalkInv
  OBVIOUS
<1>1. Cardinality({}) = 0
  BY FS_EmptySet
<1>2. Len(ranked) \in Nat
  BY RankingsAssumption DEF Init
<1>3. TypeOK
  <2>1. /\ index \in 1..(Len(ranked) + 1)
        /\ endpointCounts \in [Endpoints -> Nat] /\ familyCounts \in [Families -> Nat]
    BY <1>2 DEF Init
  <2>2. QED
    BY <2>1 DEF Init, TypeOK
<1>4. CountsAgree
  <2>1. (\A e : AtEndpoint({}, e) = {}) /\ (\A f : InFamily({}, f) = {})
    BY DEF AtEndpoint, InFamily
  <2>2. QED
    BY <1>1, <2>1 DEF Init, CountsAgree
<1>5. SkippedAreBlocked /\ WithinCaps /\ CountsAccountForWalk
  BY <1>1, LimitsAssumption
  DEF Init, SkippedAreBlocked, Seen, WithinCaps, Fits, CountsAccountForWalk
<1>6. QED
  BY <1>3, <1>4, <1>5 DEF WalkInv

\* The counters decide whether a candidate is blocked.
LEMMA CountersDecide ==
  ASSUME WalkInv, NEW c \in Configs
  PROVE  /\ EndpointHasRoom(c) <=> ~EndpointFull(result, c, MaxEndpoint)
         /\ FamilyHasRoom(c) <=> ~FamilyFull(result, c, MaxFamily)
<1>1. /\ AtEndpoint(result, Endpoint[c]) \in SUBSET Configs
      /\ InFamily(result, Family[c]) \in SUBSET Configs
  BY DEF WalkInv, TypeOK, AtEndpoint, InFamily
<1>2. /\ Cardinality(AtEndpoint(result, Endpoint[c])) \in Nat
      /\ Cardinality(InFamily(result, Family[c])) \in Nat
  BY <1>1, SetsAreCounted
<1>3. /\ Endpoint[c] # NoEndpoint
           => endpointCounts[Endpoint[c]] = Cardinality(AtEndpoint(result, Endpoint[c]))
      /\ familyCounts[Family[c]] = Cardinality(InFamily(result, Family[c]))
  BY DEF WalkInv, CountsAgree, Endpoints, Families
<1>4. QED
  BY <1>2, <1>3, LimitsAssumption
  DEF EndpointHasRoom, FamilyHasRoom, EndpointFull, FamilyFull

\* Taking a candidate with room at its endpoint and in its family.
LEMMA AcceptKeepsWalkInv == WalkInv /\ Accept => WalkInv'
<1> SUFFICES ASSUME WalkInv, Accept PROVE WalkInv'
  OBVIOUS
<1> DEFINE c == ranked[index]
<1>1. /\ index <= Len(ranked) /\ Cardinality(result) < Limit
      /\ EndpointHasRoom(c) /\ FamilyHasRoom(c)
      /\ result' = result \cup {c}
      /\ endpointCounts' = IF Endpoint[c] = NoEndpoint THEN endpointCounts
                           ELSE [endpointCounts EXCEPT ![Endpoint[c]] = @ + 1]
      /\ familyCounts' = [familyCounts EXCEPT ![Family[c]] = @ + 1]
      /\ index' = index + 1
      /\ UNCHANGED <<ranked, endpointRejected, familyRejected, returned>>
  BY DEF Accept, Iterating
<1>2. /\ c \in Configs /\ c \notin Seen /\ index \in 1..Len(ranked)
      /\ Len(ranked) \in Nat /\ Seen \in SUBSET Configs
      /\ {ranked[i] : i \in 1..index} = Seen \cup {c}
      /\ Endpoint[c] \in Endpoints /\ Family[c] \in Families
  BY <1>1, NextIsNew
<1>3. /\ result \in SUBSET Configs /\ c \notin result
      /\ endpointCounts \in [Endpoints -> Nat] /\ familyCounts \in [Families -> Nat]
      /\ result' \in SUBSET Configs
  BY <1>1, <1>2 DEF WalkInv, TypeOK, SkippedAreBlocked
<1>4. ~Blocked(result, c, MaxEndpoint, MaxFamily)
  BY <1>1, <1>2, CountersDecide DEF Blocked
<1>5. Seen' = Seen \cup {c}
  BY <1>1, <1>2 DEF Seen, WalkInv, TypeOK
<1> HIDE DEF c
<1>6. TypeOK'
  BY <1>1, <1>2, <1>3 DEF WalkInv, TypeOK
<1>7. CountsAgree'
  <2>1. ASSUME NEW e \in Endpoints \ {NoEndpoint}
        PROVE  endpointCounts'[e] = Cardinality(AtEndpoint(result', e))
    <3>1. AtEndpoint(result, e) \in SUBSET Configs /\ c \notin AtEndpoint(result, e)
          /\ endpointCounts[e] = Cardinality(AtEndpoint(result, e))
      BY <1>3, <2>1 DEF AtEndpoint, WalkInv, CountsAgree
    <3>2. CASE e = Endpoint[c]
      <4>1. AtEndpoint(result', e) = AtEndpoint(result, e) \cup {c}
        BY <1>1, <3>2 DEF AtEndpoint
      <4>2. endpointCounts'[e] = endpointCounts[e] + 1
        BY <1>1, <1>3, <2>1, <3>2
      <4>3. QED
        BY <1>2, <3>1, <4>1, <4>2, AddedIsCounted
    <3>3. CASE e # Endpoint[c]
      <4>1. AtEndpoint(result', e) = AtEndpoint(result, e)
        BY <1>1, <3>3 DEF AtEndpoint
      <4>2. endpointCounts'[e] = endpointCounts[e]
        BY <1>1, <1>3, <2>1, <3>3
      <4>3. QED
        BY <3>1, <4>1, <4>2
    <3>4. QED
      BY <3>2, <3>3
  <2>2. ASSUME NEW f \in Families
        PROVE  familyCounts'[f] = Cardinality(InFamily(result', f))
    <3>1. InFamily(result, f) \in SUBSET Configs /\ c \notin InFamily(result, f)
          /\ familyCounts[f] = Cardinality(InFamily(result, f))
      BY <1>3, <2>2 DEF InFamily, WalkInv, CountsAgree
    <3>2. CASE f = Family[c]
      <4>1. InFamily(result', f) = InFamily(result, f) \cup {c}
        BY <1>1, <3>2 DEF InFamily
      <4>2. familyCounts'[f] = familyCounts[f] + 1
        BY <1>1, <1>3, <2>2, <3>2
      <4>3. QED
        BY <1>2, <3>1, <4>1, <4>2, AddedIsCounted
    <3>3. CASE f # Family[c]
      <4>1. InFamily(result', f) = InFamily(result, f)
        BY <1>1, <3>3 DEF InFamily
      <4>2. familyCounts'[f] = familyCounts[f]
        BY <1>1, <1>3, <2>2, <3>3
      <4>3. QED
        BY <3>1, <4>1, <4>2
    <3>4. QED
      BY <3>2, <3>3
  <2>3. QED
    BY <2>1, <2>2 DEF CountsAgree
<1>8. SkippedAreBlocked'
  <2>1. result' \subseteq Seen'
    BY <1>1, <1>5 DEF WalkInv, SkippedAreBlocked
  <2>2. ASSUME NEW x \in Seen' \ result'
        PROVE  Blocked(result', x, MaxEndpoint, MaxFamily)
    <3>1. x \in Seen \ result
      BY <1>1, <1>5, <2>2
    <3>2. Blocked(result, x, MaxEndpoint, MaxFamily) /\ result \in SUBSET result'
      BY <1>1, <3>1 DEF WalkInv, SkippedAreBlocked
    <3>3. QED
      BY <1>3, <3>2, BlockedIsFinal
  <2>3. QED
    BY <2>1, <2>2 DEF SkippedAreBlocked
<1>9. Cardinality(result') = Cardinality(result) + 1
      /\ Cardinality(result) \in Nat
  BY <1>1, <1>2, <1>3, AddedIsCounted, SetsAreCounted
<1>10. WithinCaps'
  <2>1. Fits(result', MaxEndpoint, MaxFamily)
    BY <1>1, <1>2, <1>3, <1>4, OneFitsBeside, LimitsAssumption DEF WalkInv, WithinCaps
  <2>2. QED
    BY <1>1, <1>9, <2>1, LimitsAssumption DEF WithinCaps
<1>11. CountsAccountForWalk'
  <2>1. /\ endpointRejected \in Nat /\ familyRejected \in Nat /\ index \in Nat
        /\ index - 1 = Cardinality(result) + endpointRejected + familyRejected
    BY <1>2 DEF WalkInv, TypeOK, CountsAccountForWalk
  <2>2. index' = index + 1 /\ UNCHANGED <<endpointRejected, familyRejected>>
    BY <1>1
  <2>3. QED
    BY <1>9, <2>1, <2>2 DEF CountsAccountForWalk
<1>12. QED
  BY <1>6, <1>7, <1>8, <1>10, <1>11 DEF WalkInv

\* Skipping a candidate that is blocked.
LEMMA RejectKeepsWalkInv == WalkInv /\ (RejectEndpoint \/ RejectFamily) => WalkInv'
<1> SUFFICES ASSUME WalkInv, RejectEndpoint \/ RejectFamily PROVE WalkInv'
  OBVIOUS
<1> DEFINE c == ranked[index]
<1>1. /\ ~EndpointHasRoom(c) \/ ~FamilyHasRoom(c)
      /\ index' = index + 1
      /\ \/ endpointRejected' = endpointRejected + 1 /\ UNCHANGED familyRejected
         \/ familyRejected' = familyRejected + 1 /\ UNCHANGED endpointRejected
      /\ UNCHANGED <<ranked, result, endpointCounts, familyCounts, returned>>
  BY DEF RejectEndpoint, RejectFamily, Iterating
<1>2. index <= Len(ranked)
  BY DEF RejectEndpoint, RejectFamily, Iterating
<1>3. /\ c \in Configs /\ index \in 1..Len(ranked) /\ Len(ranked) \in Nat
      /\ {ranked[i] : i \in 1..index} = Seen \cup {c}
  BY <1>2, NextIsNew
<1>4. Blocked(result, c, MaxEndpoint, MaxFamily)
  BY <1>1, <1>3, CountersDecide DEF Blocked, RejectEndpoint, RejectFamily
<1>5. Seen' = Seen \cup {c}
  BY <1>1, <1>3 DEF Seen, WalkInv, TypeOK
<1> HIDE DEF c
<1>6. TypeOK'
  BY <1>1, <1>3 DEF WalkInv, TypeOK
<1>7. CountsAgree' /\ WithinCaps'
  BY <1>1 DEF WalkInv, CountsAgree, WithinCaps
<1>8. SkippedAreBlocked'
  BY <1>1, <1>4, <1>5 DEF WalkInv, SkippedAreBlocked
<1>9. CountsAccountForWalk'
  <2>1. Cardinality(result) \in Nat
    BY SetsAreCounted DEF WalkInv, TypeOK
  <2>2. QED
    BY <1>1, <1>3, <2>1 DEF WalkInv, TypeOK, CountsAccountForWalk
<1>10. QED
  BY <1>6, <1>7, <1>8, <1>9 DEF WalkInv

LEMMA StepKeepsWalkInv == WalkInv /\ [Next]_vars => WalkInv'
<1> SUFFICES ASSUME WalkInv, [Next]_vars PROVE WalkInv'
  OBVIOUS
<1>1. ASSUME UNCHANGED <<ranked, index, result, endpointCounts, familyCounts,
                         endpointRejected, familyRejected>>,
             returned' \in BOOLEAN
      PROVE  WalkInv'
  BY <1>1 DEF WalkInv, TypeOK, CountsAgree, SkippedAreBlocked, Seen, WithinCaps,
              CountsAccountForWalk
<1>2. CASE Return
  BY <1>1, <1>2 DEF Return
<1>3. CASE UNCHANGED vars
  BY <1>1, <1>3 DEF vars, WalkInv, TypeOK
<1>4. QED
  BY <1>2, <1>3, AcceptKeepsWalkInv, RejectKeepsWalkInv DEF Next

LEMMA WalkInvariant == Spec => []WalkInv
BY InitWalkInv, StepKeepsWalkInv, PTL DEF Spec

\* What the walk returns is within both caps and the limit, and no listed
\* candidate could still be added to it (select_verified_configs).
THEOREM WalkReturnsSelection == Spec => []ReturnsSelection
<1> DEFINE Ended == returned => index > Len(ranked) \/ Cardinality(result) >= Limit
<1>1. Init => Ended
  BY DEF Init
<1>2. WalkInv /\ Ended /\ [Next]_vars => Ended'
  BY DEF Next, vars, Accept, RejectEndpoint, RejectFamily, Return, Iterating
<1>3. WalkInv /\ Ended => ReturnsSelection
  <2> SUFFICES ASSUME WalkInv, Ended, returned
               PROVE  result \in Selections({}, Listed, Limit, MaxEndpoint, MaxFamily)
    BY DEF ReturnsSelection
  <2>1. /\ Len(ranked) \in Nat /\ index \in 1..(Len(ranked) + 1)
        /\ Seen \in SUBSET Listed
    BY RankingsAssumption DEF WalkInv, TypeOK, Seen, Listed
  <2>2. /\ result \in SUBSET Listed
        /\ Fits(result, MaxEndpoint, MaxFamily)
        /\ Cardinality(result) \in Nat /\ Cardinality(result) <= Limit
    BY <2>1, SetsAreCounted DEF WalkInv, TypeOK, SkippedAreBlocked, WithinCaps
  <2>3. \/ Cardinality(result) = Limit
        \/ \A c \in Listed \ result : Blocked(result, c, MaxEndpoint, MaxFamily)
    <3>1. CASE index > Len(ranked)
      <4>1. index = Len(ranked) + 1
        BY <2>1, <3>1
      <4>2. Seen = Listed
        BY <2>1, <4>1 DEF Seen, Listed
      <4>3. QED
        BY <4>2 DEF WalkInv, SkippedAreBlocked
    <3>2. CASE Cardinality(result) >= Limit
      BY <2>2, <3>2, LimitsAssumption
    <3>3. QED
      BY <3>1, <3>2
  <2>4. QED
    BY <2>2, <2>3 DEF Selections
<1>4. QED
  BY <1>1, <1>2, <1>3, WalkInvariant, PTL DEF Spec

\* Selected and rejected candidates account for the whole walk
\* (selection_rejection_counts).
THEOREM WalkIsAccountedFor == Spec => []CountsAccountForWalk
<1>1. WalkInv => CountsAccountForWalk
  BY DEF WalkInv
<1>2. QED
  BY <1>1, WalkInvariant, PTL
=============================================================================
