-------------------------- MODULE MCLightPipeline ---------------------------
(***************************************************************************)
(* A small pool: c1 and c2 are variants behind one endpoint; c1, c3 and c4 *)
(* share a family with a cap of two, c4 has no endpoint, c5 stands alone.  *)
(***************************************************************************)
EXTENDS LightPipeline

CONSTANTS c1, c2, c3, c4, c5

MCConfigs  == {c1, c2, c3, c4, c5}
MCEndpoint == [x \in MCConfigs |-> CASE x \in {c1, c2} -> "p" [] x = c3 -> "q"
                                     [] x = c4 -> NoEndpoint [] x = c5 -> "r"]
MCFamily   == [x \in MCConfigs |-> IF x \in {c1, c3, c4} THEN "f"
                                   ELSE IF x = c2 THEN "g" ELSE "h"]
MCTwoWaves   == <<{c1, c3, c5}, {c2, c4}>>
=============================================================================
