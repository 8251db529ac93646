--------------------------- MODULE MCProbePolicy ---------------------------
(***************************************************************************)
(* The policies of the code, for TLC.                                      *)
(***************************************************************************)
EXTENDS ProbePolicy

MCPolicies ==
  { \* validate_candidates_with_targets_strict: two targets
    [attempts |-> 6, minSuccesses |-> 4, minTargets |-> 2, secondaries |-> 1],
    \* validate_candidates_with_targets: the default policy, with four targets
    [attempts |-> 3, minSuccesses |-> 2, minTargets |-> 2, secondaries |-> 3],
    \* the gates: each target once, both needed
    [attempts |-> 1, minSuccesses |-> 1, minTargets |-> 2, secondaries |-> 1],
    \* the prefilter and the transfer test: one target, once
    [attempts |-> 1, minSuccesses |-> 1, minTargets |-> 1, secondaries |-> 0] }
=============================================================================
