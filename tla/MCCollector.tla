----------------------------- MODULE MCCollector ----------------------------
(***************************************************************************)
(* Two sources and ten candidates: enough for the cap, the sample and both *)
(* lists to overflow, with four variants at one endpoint, spellings that   *)
(* merge, and obfuscated Hysteria2 beside plain.                           *)
(***************************************************************************)
EXTENDS Collector

CONSTANTS e1, e2, e3, none

\* A candidate that every table accepts.
Plain ==
  [scheme |-> "vless", addressed |-> TRUE, credential |-> TRUE, transport |-> "raw",
   plain |-> TRUE, mode |-> "gun", authority |-> FALSE, header |-> "none",
   security |-> "absent", key |-> "none", flow |-> "none", extension |-> "none",
   crypt |-> FALSE, exotic |-> FALSE, insecure |-> FALSE, plugin |-> "none",
   obfs |-> "none", ports |-> "single"]

Of(scheme, e) == [features |-> [Plain EXCEPT !.scheme = scheme], endpoint |-> e, handshake |-> e]

MCConfig ==
  << [Of("hysteria2", e3) EXCEPT !.features.insecure = TRUE],
     [Of("hysteria2", none) EXCEPT !.features.ports = "bad"],
     [Of("hysteria2", e3) EXCEPT !.features.obfs = "known"],
     Of("trojan", e2), Of("trojan", e1),
     Of("vless", e1), Of("vless", e2), Of("vless", e1), Of("vless", e1),
     [Of("vmess", e1) EXCEPT !.features.security = "none"] >>

Body(label, classes) == [class : classes, label : {label}]

MCBodies ==
  { {}, Body("a", {3, 10}), Body("a", {4, 5, 6, 7, 8}) \cup Body("b", {6}),
    Body("b", {1, 2, 3, 4, 5, 6}), Body("a", {1, 3, 5, 6, 8, 9}) }
=============================================================================
