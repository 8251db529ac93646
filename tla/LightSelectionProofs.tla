------------------------ MODULE LightSelectionProofs ------------------------
(***************************************************************************)
(* Facts about the caps, for every set of configurations and every cap.    *)
(***************************************************************************)
EXTENDS LightSelection, FiniteSetTheorems, TLAPS

\* Every set of configurations has a size.
LEMMA SetsAreCounted ==
  ASSUME NEW S \in SUBSET Configs
  PROVE  IsFiniteSet(S) /\ Cardinality(S) \in Nat
BY ConfigsAssumption, FS_Subset, FS_CardinalityType

\* A part of a set of configurations is not larger than the set.
LEMMA PartIsSmaller ==
  ASSUME NEW S \in SUBSET Configs, NEW T \in SUBSET S
  PROVE  Cardinality(T) <= Cardinality(S)
BY SetsAreCounted, FS_Subset

\* Joining two sets of configurations adds at most their sizes.
LEMMA UnionIsBounded ==
  ASSUME NEW S \in SUBSET Configs, NEW T \in SUBSET Configs
  PROVE  Cardinality(S \cup T) <= Cardinality(S) + Cardinality(T)
<1>1. /\ IsFiniteSet(S) /\ IsFiniteSet(T) /\ IsFiniteSet(S \cap T)
      /\ Cardinality(S) \in Nat /\ Cardinality(T) \in Nat
      /\ Cardinality(S \cap T) \in Nat
  BY SetsAreCounted
<1>2. Cardinality(S \cup T)
        = Cardinality(S) + Cardinality(T) - Cardinality(S \cap T)
  BY <1>1, FS_Union
<1>3. QED
  BY <1>1, <1>2

\* A part of what fits the caps fits them.
LEMMA PartFits ==
  ASSUME NEW maxEndpoint \in Nat, NEW maxFamily \in Nat,
         NEW S \in SUBSET Configs, Fits(S, maxEndpoint, maxFamily),
         NEW T \in SUBSET S
  PROVE  Fits(T, maxEndpoint, maxFamily)
<1> SUFFICES ASSUME NEW c \in T
             PROVE  /\ Endpoint[c] # NoEndpoint
                         => Cardinality(AtEndpoint(T, Endpoint[c])) <= maxEndpoint
                    /\ Cardinality(InFamily(T, Family[c])) <= maxFamily
  BY DEF Fits
<1>1. /\ AtEndpoint(T, Endpoint[c]) \in SUBSET AtEndpoint(S, Endpoint[c])
      /\ AtEndpoint(S, Endpoint[c]) \in SUBSET Configs
      /\ InFamily(T, Family[c]) \in SUBSET InFamily(S, Family[c])
      /\ InFamily(S, Family[c]) \in SUBSET Configs
  BY DEF AtEndpoint, InFamily
<1>2. /\ Cardinality(AtEndpoint(T, Endpoint[c])) <= Cardinality(AtEndpoint(S, Endpoint[c]))
      /\ Cardinality(InFamily(T, Family[c])) <= Cardinality(InFamily(S, Family[c]))
  BY <1>1, PartIsSmaller
<1>3. /\ Cardinality(AtEndpoint(T, Endpoint[c])) \in Nat
      /\ Cardinality(AtEndpoint(S, Endpoint[c])) \in Nat
      /\ Cardinality(InFamily(T, Family[c])) \in Nat
      /\ Cardinality(InFamily(S, Family[c])) \in Nat
  BY <1>1, SetsAreCounted
<1>4. /\ Endpoint[c] # NoEndpoint
            => Cardinality(AtEndpoint(S, Endpoint[c])) <= maxEndpoint
      /\ Cardinality(InFamily(S, Family[c])) <= maxFamily
  BY DEF Fits
<1>5. QED
  BY <1>2, <1>3, <1>4

\* A candidate of S that is blocked by the rest of S would put S over a cap.
LEMMA FittingIsNotBlocked ==
  ASSUME NEW maxEndpoint \in Nat, NEW maxFamily \in Nat,
         NEW S \in SUBSET Configs, Fits(S, maxEndpoint, maxFamily),
         NEW T \in SUBSET S, NEW c \in S \ T
  PROVE  ~Blocked(T, c, maxEndpoint, maxFamily)
<1>1. ASSUME EndpointFull(T, c, maxEndpoint) PROVE FALSE
  <2> DEFINE A == AtEndpoint(T, Endpoint[c])
             B == AtEndpoint(S, Endpoint[c])
  <2>1. A \in SUBSET Configs /\ B \in SUBSET Configs /\ A \cup {c} \in SUBSET B /\ c \notin A
    BY DEF AtEndpoint
  <2>2. IsFiniteSet(A) /\ Cardinality(A) \in Nat /\ Cardinality(B) \in Nat
    BY <2>1, SetsAreCounted
  <2>3. Cardinality(A \cup {c}) = Cardinality(A) + 1
    BY <2>1, <2>2, FS_AddElement
  <2>4. Cardinality(A \cup {c}) <= Cardinality(B)
    BY <2>1, PartIsSmaller
  <2>5. Cardinality(B) <= maxEndpoint /\ Cardinality(A) >= maxEndpoint
    BY <1>1 DEF Fits, EndpointFull
  <2>6. QED
    BY <2>2, <2>3, <2>4, <2>5
<1>2. ASSUME FamilyFull(T, c, maxFamily) PROVE FALSE
  <2> DEFINE A == InFamily(T, Family[c])
             B == InFamily(S, Family[c])
  <2>1. A \in SUBSET Configs /\ B \in SUBSET Configs /\ A \cup {c} \in SUBSET B /\ c \notin A
    BY DEF InFamily
  <2>2. IsFiniteSet(A) /\ Cardinality(A) \in Nat /\ Cardinality(B) \in Nat
    BY <2>1, SetsAreCounted
  <2>3. Cardinality(A \cup {c}) = Cardinality(A) + 1
    BY <2>1, <2>2, FS_AddElement
  <2>4. Cardinality(A \cup {c}) <= Cardinality(B)
    BY <2>1, PartIsSmaller
  <2>5. Cardinality(B) <= maxFamily /\ Cardinality(A) >= maxFamily
    BY <1>2 DEF Fits, FamilyFull
  <2>6. QED
    BY <2>2, <2>3, <2>4, <2>5
<1>3. QED
  BY <1>1, <1>2 DEF Blocked

\* The walk over a set that fits the caps and the limit returns all of it, in
\* whatever order it is ranked (select_verified_configs).
THEOREM FittingPoolIsSelected ==
  ASSUME NEW limit \in Nat, NEW maxEndpoint \in Nat, NEW maxFamily \in Nat,
         NEW S \in SUBSET Configs, Fits(S, maxEndpoint, maxFamily),
         Cardinality(S) <= limit
  PROVE  Selections({}, S, limit, maxEndpoint, maxFamily) = {S}
<1>1. ASSUME NEW R \in Selections({}, S, limit, maxEndpoint, maxFamily)
      PROVE  R = S
  <2>1. /\ R \in SUBSET S
        /\ Fits(R, maxEndpoint, maxFamily)
        /\ Cardinality(R) <= limit
        /\ \/ Cardinality(R) = limit
           \/ \A c \in S \ R : Blocked(R, c, maxEndpoint, maxFamily)
    BY DEF Selections
  <2>2. CASE Cardinality(R) = limit
    <3>1. IsFiniteSet(S) /\ Cardinality(S) \in Nat /\ Cardinality(R) <= Cardinality(S)
      BY <2>1, SetsAreCounted, PartIsSmaller
    <3>2. Cardinality(R) = Cardinality(S)
      BY <3>1, <2>2
    <3>3. QED
      BY <2>1, <3>1, <3>2, FS_Subset
  <2>3. CASE \A c \in S \ R : Blocked(R, c, maxEndpoint, maxFamily)
    BY <2>1, <2>3, FittingIsNotBlocked
  <2>4. QED
    BY <2>1, <2>2, <2>3
<1>2. S \in Selections({}, S, limit, maxEndpoint, maxFamily)
  <2>1. S \in SUBSET (S \ {}) /\ {} \cup S = S
    OBVIOUS
  <2>2. QED
    BY <2>1 DEF Selections
<1>3. QED
  BY <1>1, <1>2

\* Room for one more: a set below the cap stays within it after at most one
\* addition, and one at the cap does after none.
LEMMA OneMore ==
  ASSUME NEW cap \in Nat, NEW S \in SUBSET Configs, NEW T \in SUBSET Configs,
         Cardinality(T) <= 1,
         T # {} => ~(Cardinality(S) >= cap),
         T = {} => Cardinality(S) <= cap
  PROVE  Cardinality(S \cup T) <= cap
<1>1. Cardinality(S) \in Nat /\ Cardinality(T) \in Nat
  BY SetsAreCounted
<1>2. CASE T = {}
  BY <1>2
<1>3. CASE T # {}
  <2>1. Cardinality(S \cup T) <= Cardinality(S) + Cardinality(T)
    BY UnionIsBounded
  <2>2. S \cup T \in SUBSET Configs /\ Cardinality(S \cup T) \in Nat
    BY SetsAreCounted
  <2>3. QED
    BY <1>1, <1>3, <2>1, <2>2
<1>4. QED
  BY <1>2, <1>3

\* A batch with one candidate per endpoint and family, each admitted beside S,
\* fits beside S whichever of its candidates pass (fill_transfer_gate).
THEOREM BatchFitsBeside ==
  ASSUME NEW maxEndpoint \in Nat, NEW maxFamily \in Nat, NEW size \in Nat,
         NEW S \in SUBSET Configs, Fits(S, maxEndpoint, maxFamily),
         NEW E \in SUBSET Configs,
         \A c \in E : ~Blocked(S, c, maxEndpoint, maxFamily),
         NEW B \in Selections({}, E, size, 1, 1),
         NEW P \in SUBSET B
  PROVE  Fits(S \cup P, maxEndpoint, maxFamily)
<1>1. B \in SUBSET E /\ Fits(B, 1, 1)
  BY DEF Selections
<1>2. P \in SUBSET E /\ P \in SUBSET Configs /\ Fits(P, 1, 1)
  BY <1>1, PartFits
<1> SUFFICES ASSUME NEW c \in S \cup P
             PROVE  /\ Endpoint[c] # NoEndpoint =>
                         Cardinality(AtEndpoint(S \cup P, Endpoint[c])) <= maxEndpoint
                    /\ Cardinality(InFamily(S \cup P, Family[c])) <= maxFamily
  BY DEF Fits
<1>3. ASSUME Endpoint[c] # NoEndpoint
      PROVE  Cardinality(AtEndpoint(S \cup P, Endpoint[c])) <= maxEndpoint
  <2> DEFINE A == AtEndpoint(S, Endpoint[c])
             D == AtEndpoint(P, Endpoint[c])
  <2>1. A \in SUBSET Configs /\ D \in SUBSET Configs
        /\ AtEndpoint(S \cup P, Endpoint[c]) = A \cup D
    BY <1>2 DEF AtEndpoint
  <2>2. ASSUME D # {} PROVE Cardinality(D) <= 1 /\ ~(Cardinality(A) >= maxEndpoint)
    <3>1. PICK d \in P : Endpoint[d] = Endpoint[c]
      BY <2>2 DEF AtEndpoint
    <3>2. Cardinality(D) <= 1
      BY <1>2, <1>3, <3>1 DEF Fits
    <3>3. ~EndpointFull(S, d, maxEndpoint)
      BY <1>2, <3>1 DEF Blocked
    <3>4. QED
      BY <1>3, <3>1, <3>2, <3>3 DEF EndpointFull
  <2>3. ASSUME D = {} PROVE Cardinality(D) <= 1 /\ Cardinality(A) <= maxEndpoint
    <3>1. c \in S
      BY <2>3 DEF AtEndpoint
    <3>2. Cardinality(D) = 0
      BY <2>3, FS_EmptySet
    <3>3. QED
      BY <1>3, <3>1, <3>2 DEF Fits
  <2> HIDE DEF A, D
  <2>4. QED
    BY <2>1, <2>2, <2>3, OneMore
<1>4. Cardinality(InFamily(S \cup P, Family[c])) <= maxFamily
  <2> DEFINE A == InFamily(S, Family[c])
             D == InFamily(P, Family[c])
  <2>1. A \in SUBSET Configs /\ D \in SUBSET Configs
        /\ InFamily(S \cup P, Family[c]) = A \cup D
    BY <1>2 DEF InFamily
  <2>2. ASSUME D # {} PROVE Cardinality(D) <= 1 /\ ~(Cardinality(A) >= maxFamily)
    <3>1. PICK d \in P : Family[d] = Family[c]
      BY <2>2 DEF InFamily
    <3>2. Cardinality(D) <= 1
      BY <1>2, <3>1 DEF Fits
    <3>3. ~FamilyFull(S, d, maxFamily)
      BY <1>2, <3>1 DEF Blocked
    <3>4. QED
      BY <3>1, <3>2, <3>3 DEF FamilyFull
  <2>3. ASSUME D = {} PROVE Cardinality(D) <= 1 /\ Cardinality(A) <= maxFamily
    <3>1. c \in S
      BY <2>3 DEF InFamily
    <3>2. Cardinality(D) = 0
      BY <2>3, FS_EmptySet
    <3>3. QED
      BY <3>1, <3>2 DEF Fits
  <2> HIDE DEF A, D
  <2>4. QED
    BY <2>1, <2>2, <2>3, OneMore
<1>5. QED
  BY <1>3, <1>4

\* A candidate that is not blocked fits beside what fits already.
LEMMA OneFitsBeside ==
  ASSUME NEW maxEndpoint \in Nat \ {0}, NEW maxFamily \in Nat \ {0},
         NEW S \in SUBSET Configs, Fits(S, maxEndpoint, maxFamily),
         NEW c \in Configs, ~Blocked(S, c, maxEndpoint, maxFamily)
  PROVE  Fits(S \cup {c}, maxEndpoint, maxFamily)
<1>1. {c} \in SUBSET Configs /\ IsFiniteSet({c}) /\ Cardinality({c}) = 1
  BY FS_Singleton
<1>2. Fits({c}, 1, 1)
  <2>1. ASSUME NEW T \in SUBSET {c} PROVE Cardinality(T) <= 1
    BY <1>1, <2>1, PartIsSmaller
  <2>2. QED
    BY <2>1 DEF Fits, AtEndpoint, InFamily
<1>3. {c} \in Selections({}, {c}, 1, 1, 1)
  BY <1>1, <1>2 DEF Selections
<1>4. QED
  BY <1>1, <1>3, BatchFitsBeside
=============================================================================
