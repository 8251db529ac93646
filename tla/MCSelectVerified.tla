-------------------------- MODULE MCSelectVerified --------------------------
(***************************************************************************)
(* Six configurations: c1 and c2 share an endpoint, c2, c3 and c4 a        *)
(* family, c1 and c5 another, c5 has no endpoint and c6 stands alone;      *)
(* every order of them and of the lists that leave one out.                *)
(***************************************************************************)
EXTENDS SelectVerified, TLC

CONSTANTS c1, c2, c3, c4, c5, c6

MCConfigs  == {c1, c2, c3, c4, c5, c6}
MCEndpoint == [x \in MCConfigs |->
                 CASE x \in {c1, c2} -> "p" [] x = c3 -> "q"
                   [] x = c4 -> "r" [] x = c6 -> "s" [] x = c5 -> NoEndpoint]
MCFamily   == [x \in MCConfigs |-> IF x \in {c2, c3, c4} THEN "f"
                                   ELSE IF x = c6 THEN "h" ELSE "g"]

Listing    == <<c1, c2, c3, c4, c5, c6>>
Orders     == {[i \in DOMAIN Listing |-> p[Listing[i]]] : p \in Permutations(MCConfigs)}
MCRankings == Orders \cup {Tail(r) : r \in Orders}
=============================================================================
