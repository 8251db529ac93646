----------------------------- MODULE MCUpdateRun ----------------------------
(***************************************************************************)
(* Three runs and one of them again; three candidates under a history of   *)
(* two and a dataset of three rows, so that both caps and both retentions  *)
(* bite; builds that test one, two or no candidate and find enough, too    *)
(* few or none.                                                            *)
(***************************************************************************)
EXTENDS UpdateRun

Tested(c, key, checks, pass, transfer) ==
  [c |-> c, key |-> key, checks |-> checks, pass |-> pass, transfer |-> transfer]

MCBuilds ==
  { [os |-> {Tested(1, "fast", 2, TRUE, "passed"), Tested(2, "slow", 1, FALSE, "untested")},
     lines |-> 2],
    [os |-> {Tested(1, "slow", 1, FALSE, "untested"), Tested(3, "fast", 1, TRUE, "failed")},
     lines |-> 1],
    [os |-> {}, lines |-> 0] }
=============================================================================
