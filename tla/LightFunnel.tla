---------------------------- MODULE LightFunnel -----------------------------
(***************************************************************************)
(* What the Light builder promises of its output, without the waves, the   *)
(* budgets and the backends: a candidate earns the gates one at a time and *)
(* in their order, a gate once earned is kept, and the run either fails or *)
(* publishes once a list of candidates that hold every gate and fit the    *)
(* endpoint cap, the family cap and the size limit together.               *)
(***************************************************************************)
EXTENDS LightSelection

CONSTANTS Limit, MaxEndpoint, MaxFamily

VARIABLES
  gates,      \* [Configs -> 0..5], the number of gates a candidate has passed
  output,     \* the published candidates
  status      \* "running", "published" or "failed"

funnelVars == <<gates, output, status>>

\* Prefilter, strict validation, 1 MiB stability, 10 MiB transfer, streaming.
Gates == 5

Init ==
  /\ gates = [c \in Configs |-> 0]
  /\ output = {}
  /\ status = "running"

\* Some of the candidates that are level at one gate pass the next one.
PassGate ==
  /\ status = "running"
  /\ \E k \in 0..(Gates - 1) : \E S \in SUBSET {c \in Configs : gates[c] = k} :
       gates' = [c \in Configs |-> IF c \in S THEN k + 1 ELSE gates[c]]
  /\ UNCHANGED <<output, status>>

Publish ==
  /\ status = "running"
  /\ \E S \in SUBSET {c \in Configs : gates[c] = Gates} :
       /\ Fits(S, MaxEndpoint, MaxFamily)
       /\ Cardinality(S) <= Limit
       /\ output' = S
  /\ status' = "published"
  /\ UNCHANGED gates

Fail ==
  /\ status = "running"
  /\ status' = "failed"
  /\ UNCHANGED <<gates, output>>

Next == PassGate \/ Publish \/ Fail

Spec == Init /\ [][Next]_funnelVars
=============================================================================
