--------------------------- MODULE SelectVerified ---------------------------
(***************************************************************************)
(* The greedy walk of select_verified_configs, with the two rejection      *)
(* counters that selection_rejection_counts adds to the same loop.         *)
(*                                                                         *)
(* One step is one iteration of the loop over the ranked list.  The        *)
(* counters per endpoint and per family are the loop's HashMaps (a missing *)
(* entry is 0).                                                            *)
(***************************************************************************)
EXTENDS LightSelection, Sequences

CONSTANTS
  Rankings,      \* the ranked lists to select from, each without duplicates
  Limit,         \* --selection-limit
  MaxEndpoint,   \* --max-per-endpoint
  MaxFamily      \* --max-per-family

ASSUME RankingsAssumption ==
  \A r \in Rankings : /\ r \in Seq(Configs)
                      /\ \A i, j \in 1..Len(r) : r[i] = r[j] => i = j
ASSUME LimitsAssumption ==
  Limit \in Nat /\ MaxEndpoint \in Nat \ {0} /\ MaxFamily \in Nat \ {0}

VARIABLES
  ranked,            \* configs, the argument
  index,             \* the next position of the loop
  result,            \* the candidates pushed so far
  endpointCounts,    \* endpoint_counts
  familyCounts,      \* family_counts
  endpointRejected,  \* candidates skipped by the endpoint cap
  familyRejected,    \* candidates skipped by the family cap
  returned           \* the loop has ended

vars == <<ranked, index, result, endpointCounts, familyCounts,
          endpointRejected, familyRejected, returned>>

Endpoints == {Endpoint[c] : c \in Configs}
Families  == {Family[c] : c \in Configs}

Init ==
  /\ ranked \in Rankings
  /\ index = 1
  /\ result = {}
  /\ endpointCounts = [e \in Endpoints |-> 0]
  /\ familyCounts = [f \in Families |-> 0]
  /\ endpointRejected = 0
  /\ familyRejected = 0
  /\ returned = FALSE

\* The loop body is entered: a candidate is left and the result is not full.
Iterating ==
  /\ ~returned
  /\ index <= Len(ranked)
  /\ Cardinality(result) < Limit

EndpointHasRoom(c) ==
  Endpoint[c] = NoEndpoint \/ endpointCounts[Endpoint[c]] < MaxEndpoint

FamilyHasRoom(c) == familyCounts[Family[c]] < MaxFamily

\* Mutant: the counter of the endpoint is not updated.
AcceptIgnoringEndpoint ==
  LET c == ranked[index] IN
  /\ Iterating
  /\ EndpointHasRoom(c)
  /\ FamilyHasRoom(c)
  /\ result' = result \cup {c}
  /\ endpointCounts' = endpointCounts
  /\ familyCounts' = [familyCounts EXCEPT ![Family[c]] = @ + 1]
  /\ index' = index + 1
  /\ UNCHANGED <<ranked, endpointRejected, familyRejected, returned>>

Accept ==
  LET c == ranked[index] IN
  /\ Iterating
  /\ EndpointHasRoom(c)
  /\ FamilyHasRoom(c)
  /\ result' = result \cup {c}
  /\ endpointCounts' = IF Endpoint[c] = NoEndpoint THEN endpointCounts
                       ELSE [endpointCounts EXCEPT ![Endpoint[c]] = @ + 1]
  /\ familyCounts' = [familyCounts EXCEPT ![Family[c]] = @ + 1]
  /\ index' = index + 1
  /\ UNCHANGED <<ranked, endpointRejected, familyRejected, returned>>

RejectEndpoint ==
  /\ Iterating
  /\ ~EndpointHasRoom(ranked[index])
  /\ endpointRejected' = endpointRejected + 1
  /\ index' = index + 1
  /\ UNCHANGED <<ranked, result, endpointCounts, familyCounts,
                 familyRejected, returned>>

RejectFamily ==
  /\ Iterating
  /\ EndpointHasRoom(ranked[index])
  /\ ~FamilyHasRoom(ranked[index])
  /\ familyRejected' = familyRejected + 1
  /\ index' = index + 1
  /\ UNCHANGED <<ranked, result, endpointCounts, familyCounts,
                 endpointRejected, returned>>

Return ==
  /\ ~returned
  /\ index > Len(ranked) \/ Cardinality(result) >= Limit
  /\ returned' = TRUE
  /\ UNCHANGED <<ranked, index, result, endpointCounts, familyCounts,
                 endpointRejected, familyRejected>>

Next == Accept \/ RejectEndpoint \/ RejectFamily \/ Return

Spec == Init /\ [][Next]_vars

-----------------------------------------------------------------------------

Listed == {ranked[i] : i \in 1..Len(ranked)}
Seen   == {ranked[i] : i \in 1..(index - 1)}

TypeOK ==
  /\ ranked \in Rankings
  /\ index \in 1..(Len(ranked) + 1)
  /\ result \in SUBSET Configs
  /\ endpointCounts \in [Endpoints -> Nat]
  /\ familyCounts \in [Families -> Nat]
  /\ endpointRejected \in Nat
  /\ familyRejected \in Nat
  /\ returned \in BOOLEAN

\* The counters agree with the result they count.
CountsAgree ==
  /\ \A e \in Endpoints \ {NoEndpoint} :
       endpointCounts[e] = Cardinality(AtEndpoint(result, e))
  /\ \A f \in Families : familyCounts[f] = Cardinality(InFamily(result, f))

\* Everything walked over is in the result or cannot join it any more.
SkippedAreBlocked ==
  /\ result \subseteq Seen
  /\ \A c \in Seen \ result : Blocked(result, c, MaxEndpoint, MaxFamily)

WithinCaps ==
  /\ Fits(result, MaxEndpoint, MaxFamily)
  /\ Cardinality(result) <= Limit

\* The walk returns a set the other modules count on: within both caps and the
\* limit, and no listed candidate could still be added (select_verified_configs).
ReturnsSelection ==
  returned => result \in Selections({}, Listed, Limit, MaxEndpoint, MaxFamily)

\* Selected and rejected candidates account for every candidate walked over:
\* the exclusion counts printed with a short publication are exact
\* (selection_rejection_counts).
CountsAccountForWalk ==
  index - 1 = Cardinality(result) + endpointRejected + familyRejected

=============================================================================
