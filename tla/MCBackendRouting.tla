-------------------------- MODULE MCBackendRouting --------------------------
(***************************************************************************)
(* Configurations for BackendRouting: of each scheme all the combinations  *)
(* of the features its parsers look at, one at a time, and small batches   *)
(* of a few that are routed differently.                                   *)
(***************************************************************************)
EXTENDS BackendRouting

Plain ==
  [scheme |-> "vless", addressed |-> TRUE, credential |-> TRUE, transport |-> "raw",
   plain |-> TRUE, mode |-> "gun", authority |-> FALSE, header |-> "none",
   security |-> "tls", key |-> "none", flow |-> "none", extension |-> "none",
   crypt |-> FALSE, exotic |-> FALSE, insecure |-> FALSE, plugin |-> "none",
   obfs |-> "none", ports |-> "single"]

AllTransports == Transports \union {"unknown"}
Securities    == {"absent", "none", "tls", "truncated", "reality", "unknown"}
Extensions    == {"none", "pin", "ech", "ech resolver"}
Modes         == {"gun", "multi", "other"}

\* The ways to carry a proxy: features of one transport are left alone without it,
\* and the spelling where it decides nothing.
Carriers ==
  {[Plain EXCEPT !.transport = t, !.security = s] : t \in AllTransports, s \in Securities}
    \union {[Plain EXCEPT !.header = "http", !.plain = p, !.security = s] :
              p \in BOOLEAN, s \in Securities}
    \union {[Plain EXCEPT !.transport = t, !.security = "reality", !.key = k, !.plain = p] :
              t \in AllTransports, k \in {"none", "pbk", "pbk and sni"}, p \in BOOLEAN}
    \union {[Plain EXCEPT !.transport = "xhttp", !.plain = FALSE, !.security = s] :
              s \in Securities}
    \union {[Plain EXCEPT !.transport = "grpc", !.plain = p, !.mode = m, !.authority = a,
                           !.security = s, !.key = k] :
              p \in BOOLEAN, m \in Modes, a \in BOOLEAN, s \in Securities,
              k \in {"none", "pbk and sni"}}

Streams(scheme) ==
  {[c EXCEPT !.scheme = scheme, !.extension = x] : c \in Carriers, x \in Extensions}

\* What else a URL may say.
Others(scheme) ==
  {[Plain EXCEPT !.scheme = scheme, !.transport = t, !.security = s, !.key = "pbk and sni",
                 !.flow = f, !.crypt = y, !.exotic = e, !.insecure = i,
                 !.addressed = d, !.credential = r] :
     t \in {"raw", "ws", "grpc"}, s \in {"absent", "tls", "reality"},
     f \in Flows \union {"other"}, y \in BOOLEAN, e \in BOOLEAN, i \in BOOLEAN,
     d \in BOOLEAN, r \in BOOLEAN}

VMess ==
  {[c EXCEPT !.scheme = "vmess", !.extension = x, !.exotic = e, !.insecure = i] :
     c \in {c \in Carriers : c.key = "none"}, x \in {"none", "pin"}, e \in BOOLEAN,
     i \in BOOLEAN}
    \union {[Plain EXCEPT !.scheme = "vmess", !.addressed = d, !.credential = r] :
              d \in BOOLEAN, r \in BOOLEAN}

Datagrams ==
  {[Plain EXCEPT !.scheme = s, !.addressed = d, !.credential = r, !.extension = x,
                 !.insecure = i, !.obfs = o, !.ports = p] :
     s \in {"hysteria", "hysteria2"}, d \in BOOLEAN, r \in BOOLEAN, x \in Extensions,
     i \in BOOLEAN, o \in {"none", "known", "broken"}, p \in {"single", "hopping", "bad"}}

Simple ==
  {[Plain EXCEPT !.scheme = s, !.addressed = d, !.credential = r, !.plugin = p,
                 !.security = "absent"] :
     s \in {"ss", "wg", "socks", "socks4", "other"}, d \in BOOLEAN, r \in BOOLEAN,
     p \in {"none", "known", "unknown"}}

Single == UNION {Streams("vless"), Streams("trojan"), Others("vless"), Others("trojan"),
                 VMess, Datagrams, Simple}

\* Two for sing-box, one for Xray, two for sing-box and then Xray, and one that is
\* not for Light.
Mixed ==
  {[Plain EXCEPT !.transport = "ws"],
   [Plain EXCEPT !.scheme = "hysteria2", !.obfs = "known"],
   [Plain EXCEPT !.flow = "vision-udp443"],
   [Plain EXCEPT !.security = "reality", !.key = "pbk and sni"],
   [Plain EXCEPT !.scheme = "trojan", !.security = "reality", !.key = "pbk and sni"],
   [Plain EXCEPT !.transport = "httpupgrade"]}

MCCalls ==
  [gate : {"prefilter", "check"}, batch : {{c} : c \in Single}]
    \union [gate : Gates, batch : SUBSET Mixed]
=============================================================================
