---------------------------- MODULE MCCoreBatch -----------------------------
(***************************************************************************)
(* Calls with small batches of numbered candidates for CoreBatch.          *)
(***************************************************************************)
EXTENDS CoreBatch

\* The first n candidates, without hysteria2.
Batch(n) == [i \in 1..n |-> i]
NoUdp(n) == [i \in 1..n |-> NoEndpoint]
AtMost(n, k) == {S \in SUBSET (1..n) : Cardinality(S) <= k}

\* A gate: each candidate probed once through sing-box, at most one blocker and
\* one crasher among eight.
GateCall ==
  [entries |-> Batch(8), blockerSets |-> AtMost(8, 1), crasherSets |-> AtMost(8, 1),
   crashRounds |-> {1}, unsureHosts |-> {1, 5}, flakyStart |-> FALSE,
   udpEndpoint |-> NoUdp(8), watchesCore |-> TRUE, splits |-> FALSE,
   attempts |-> 1, minSuccesses |-> 1, needsSecondary |-> FALSE, budget |-> 8]

\* Several rounds through cores that fail as they like, and a budget that runs out.
FailingCall ==
  [entries |-> Batch(4), blockerSets |-> AtMost(4, 2), crasherSets |-> AtMost(4, 2),
   crashRounds |-> 1..4, unsureHosts |-> {}, flakyStart |-> TRUE,
   udpEndpoint |-> NoUdp(4), watchesCore |-> TRUE, splits |-> FALSE,
   attempts |-> 3, minSuccesses |-> 2, needsSecondary |-> TRUE, budget |-> 4]

\* Xray: 1, 3 and 4 are hysteria2 candidates of one endpoint, 5 is one of another.
XrayCall ==
  [entries |-> Batch(5), blockerSets |-> AtMost(5, 1), crasherSets |-> AtMost(5, 1),
   crashRounds |-> {1, 2}, unsureHosts |-> {1, 4}, flakyStart |-> TRUE,
   udpEndpoint |-> [NoUdp(5) EXCEPT ![1] = "p", ![3] = "p", ![4] = "p", ![5] = "q"],
   watchesCore |-> FALSE, splits |-> TRUE,
   attempts |-> 2, minSuccesses |-> 2, needsSecondary |-> FALSE, budget |-> 4]

\* The strict policy with the failure budget of the code and one crasher.
StrictCall ==
  [entries |-> Batch(8), blockerSets |-> {{}}, crasherSets |-> {{4}},
   crashRounds |-> {1}, unsureHosts |-> {}, flakyStart |-> FALSE,
   udpEndpoint |-> NoUdp(8), watchesCore |-> TRUE, splits |-> FALSE,
   attempts |-> 6, minSuccesses |-> 4, needsSecondary |-> TRUE, budget |-> 12]

MCCalls   == {GateCall, FailingCall, XrayCall}
MCStrict  == {StrictCall}
=============================================================================
