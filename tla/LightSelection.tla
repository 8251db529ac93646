--------------------------- MODULE LightSelection ---------------------------
(***************************************************************************)
(* Which candidates fit together under the endpoint and family caps.       *)
(*                                                                         *)
(* Every selection of polish_light.rs (publishing, stability batches,      *)
(* recheck batches, transfer and stream batches, potential counts) is the  *)
(* same greedy walk over a ranked list: take a candidate unless its        *)
(* endpoint or its family is already full, stop at the limit.  The rank    *)
(* comes from measured latencies, which no property tells apart, so a walk *)
(* is described by the sets it can return: Selections.  SelectVerified     *)
(* models the walk itself and shows that it returns one of these sets.     *)
(***************************************************************************)
EXTENDS Naturals, FiniteSets

CONSTANTS
  Configs,      \* the proxy configurations
  Endpoint,     \* [Configs -> host:port or NoEndpoint]
  Family,       \* [Configs -> family key]: same scheme, account and options
  NoEndpoint    \* endpoint() found no host or port in the configuration

ASSUME ConfigsAssumption == IsFiniteSet(Configs)

AtEndpoint(S, e) == {c \in S : Endpoint[c] = e}
InFamily(S, f)   == {c \in S : Family[c] = f}

EndpointFull(S, c, maxEndpoint) ==
  /\ Endpoint[c] # NoEndpoint
  /\ Cardinality(AtEndpoint(S, Endpoint[c])) >= maxEndpoint

FamilyFull(S, c, maxFamily) ==
  Cardinality(InFamily(S, Family[c])) >= maxFamily

\* The walk skips c when it already holds S.
Blocked(S, c, maxEndpoint, maxFamily) ==
  EndpointFull(S, c, maxEndpoint) \/ FamilyFull(S, c, maxFamily)

\* No endpoint and no family of S is over its cap.
Fits(S, maxEndpoint, maxFamily) ==
  \A c \in S :
    /\ Endpoint[c] # NoEndpoint
         => Cardinality(AtEndpoint(S, Endpoint[c])) <= maxEndpoint
    /\ Cardinality(InFamily(S, Family[c])) <= maxFamily

\* What the walk can return when it meets the members of base first and then
\* those of S: it keeps base, respects the caps and the limit, and either is
\* full or leaves out only candidates that are blocked.  Conversely each such
\* set R is returned by the order that ranks R before the rest.
Selections(base, S, limit, maxEndpoint, maxFamily) ==
  {base \cup R : R \in {R \in SUBSET (S \ base) :
     LET kept == base \cup R IN
       /\ Fits(kept, maxEndpoint, maxFamily)
       /\ Cardinality(kept) <= limit
       /\ \/ Cardinality(kept) = limit
          \/ \A c \in S \ kept : Blocked(kept, c, maxEndpoint, maxFamily)}}

=============================================================================
