---------------------------- MODULE ConfigSupport ---------------------------
(***************************************************************************)
(* What the program makes of a proxy configuration: which core can run it, *)
(* which filters let it pass, and which core the Light builder asks.       *)
(*                                                                         *)
(* A configuration is the record of its features that one of these tables  *)
(* looks at.  Hosts, identifiers and paths are left out.                   *)
(***************************************************************************)
EXTENDS Naturals, FiniteSets

Features ==
  [scheme     : {"vless", "vmess", "trojan", "ss", "hysteria", "hysteria2", "wg",
                 "socks", "socks4", "other"},       \* "socks": socks5 and http too
   addressed  : BOOLEAN,    \* with a host and a port of its own
   credential : BOOLEAN,    \* UUID, password, keys, or the bandwidths of hysteria
   transport  : {"raw", "ws", "http", "grpc", "httpupgrade", "xhttp", "unknown"},
   plain      : BOOLEAN,    \* transport and security are one bare word each
   mode       : {"gun", "multi", "other"},          \* of gRPC
   authority  : BOOLEAN,    \* of gRPC, or a host
   header     : {"none", "http", "other"},
   security   : {"absent", "none", "tls", "truncated", "reality", "unknown"},
   key        : {"none", "pbk", "pbk and sni"},     \* of Reality
   flow       : {"none", "vision", "vision-udp443", "other"},
   extension  : {"none", "pin", "ech", "ech resolver"},
   crypt      : BOOLEAN,    \* encryption, finalmask or extra
   exotic     : BOOLEAN,    \* a cipher or packet encoding sing-box does not know
   insecure   : BOOLEAN,
   plugin     : {"none", "known", "unknown"},
   obfs       : {"none", "known", "broken"},
   ports      : {"single", "hopping", "bad"}]

Transports == {"raw", "ws", "http", "grpc", "httpupgrade", "xhttp"}
Flows      == {"none", "vision", "vision-udp443"}
Cores      == {"xray", "sing-box"}

-----------------------------------------------------------------------------
(* The Xray parser, which the sing-box outbounds start from.               *)

\* The security of streamSettings; trojan has "tls" where none is given, and
\* Reality becomes TLS over a transport that cannot carry it.
EffectiveSecurity(c) ==
  CASE c.security = "absent"    -> IF c.scheme = "trojan" THEN "tls" ELSE "none"
    [] c.security = "truncated" -> "tls"
    [] c.security = "reality" /\ c.transport \notin {"raw", "xhttp", "grpc"} -> "tls"
    [] OTHER -> c.security

SecurityOk(c) ==
  /\ c.security # "unknown"
  /\ EffectiveSecurity(c) = "reality" => c.key # "none"

\* Any other "type" of VMess over gRPC leaves the mode at "gun".
TransportOk(c) ==
  /\ c.transport \in Transports
  /\ c.transport = "grpc" /\ c.scheme # "vmess" => c.mode \in {"gun", "multi"}

StreamOk(c) == SecurityOk(c) /\ TransportOk(c)

ParsesVless(c)     == c.addressed /\ c.credential /\ c.flow \in Flows /\ StreamOk(c)
ParsesVmess(c)     == c.addressed /\ c.credential /\ StreamOk(c)
ParsesTrojan(c)    == c.addressed /\ c.credential /\ StreamOk(c)
ParsesSs(c)        == c.addressed /\ c.plugin # "unknown"      \* the password may be empty
ParsesHysteria2(c) == c.addressed /\ c.credential /\ c.ports # "bad" /\ c.obfs # "broken"
ParsesWg(c)        == c.addressed /\ c.credential

\* parse_config; the port of "socks" has a default.
XrayParses(c) ==
  CASE c.scheme = "vless"     -> ParsesVless(c)
    [] c.scheme = "vmess"     -> ParsesVmess(c)
    [] c.scheme = "trojan"    -> ParsesTrojan(c)
    [] c.scheme = "ss"        -> ParsesSs(c)
    [] c.scheme = "hysteria2" -> ParsesHysteria2(c)
    [] c.scheme = "wg"        -> ParsesWg(c)
    [] OTHER                  -> c.scheme = "socks"

Streamed == {"vless", "vmess", "trojan"}

\* The HTTP transport is gone from Xray: xray_compatibility_filter.
XrayRuns(c) == XrayParses(c) /\ ~(c.scheme \in Streamed /\ c.transport = "http")

-----------------------------------------------------------------------------
(* The sing-box outbounds.                                                 *)

\* Certificate pins and the DNS form of ECH are Xray's alone.
XrayOnlyTls(c)   == c.extension \in {"pin", "ech resolver"}
TlsSettingsOk(c) == EffectiveSecurity(c) # "none" => ~XrayOnlyTls(c)

TransportSettingsOk(c) ==
  /\ c.transport # "xhttp"
  /\ c.transport = "grpc" => c.mode # "multi" /\ ~c.authority

SingBoxHysteria(c)  == c.addressed /\ c.credential /\ c.obfs # "broken"
SingBoxHysteria2(c) == /\ c.addressed /\ c.credential /\ c.ports # "bad"
                       /\ c.obfs # "broken" /\ ~XrayOnlyTls(c)

SingBoxStream(c) == XrayParses(c) /\ TransportSettingsOk(c) /\ TlsSettingsOk(c)
SingBoxVless(c)  == SingBoxStream(c) /\ c.flow \in {"none", "vision"} /\ ~c.exotic
SingBoxVmess(c)  == SingBoxStream(c) /\ ~c.exotic

\* singbox_outbound
SingBoxRuns(c) ==
  CASE c.scheme = "hysteria"  -> SingBoxHysteria(c)
    [] c.scheme = "hysteria2" -> SingBoxHysteria2(c)
    [] c.scheme = "socks4"    -> TRUE
    [] c.scheme = "vless"     -> SingBoxVless(c)
    [] c.scheme = "vmess"     -> SingBoxVmess(c)
    [] c.scheme = "trojan"    -> SingBoxStream(c)
    [] c.scheme = "ss"        -> XrayParses(c)
    [] OTHER                  -> FALSE

Runs(core, c) == IF core = "xray" THEN XrayRuns(c) ELSE SingBoxRuns(c)
Usable(c)     == c.credential /\ \E core \in Cores : Runs(core, c)

-----------------------------------------------------------------------------
(* The filters before validation.                                          *)

\* Mutant: a flow only Xray knows is screened out.
CheapFlowOfSingBox(c) == c.flow \in {"none", "vision"}
CheapFlow(c) == c.flow \in Flows

CheapUrl(c) ==
  /\ c.addressed /\ c.credential /\ CheapFlow(c)
  /\ c.transport \in Transports /\ SecurityOk(c)

\* is_cheaply_supported_config
Cheap(c) ==
  CASE c.scheme \in {"vless", "trojan"} -> CheapUrl(c)
    [] c.scheme = "hysteria"  -> c.addressed /\ c.credential /\ c.obfs # "broken"
    [] c.scheme = "hysteria2" -> c.addressed /\ c.credential
    [] c.scheme = "ss"        -> c.credential /\ c.plugin # "unknown"
    [] c.scheme = "vmess"     -> /\ c.security \in {"absent", "tls", "truncated"}
                                 /\ c.transport \in Transports
    [] OTHER                  -> c.scheme \in {"socks", "wg"}

\* is_locally_supported_config
Local(c) ==
  IF c.scheme = "hysteria" THEN c.addressed /\ c.credential /\ c.obfs # "broken"
  ELSE XrayParses(c) /\ (c.scheme = "ss" => c.credential)

\* has_disabled_tls_verification; a URL that does not parse counts as disabled.
DisabledTls(c) ==
  CASE c.scheme = "vmess"     -> c.insecure /\ c.security \notin {"absent", "none"}
    [] c.scheme = "hysteria2" -> c.insecure \/ c.ports # "single"
    [] OTHER                  -> c.insecure

ConsumerUrl(c) ==
  /\ c.addressed /\ c.credential
  /\ c.transport \in {"raw", "ws", "grpc"}
  /\ \/ c.security \in {"absent", "tls", "reality"}
     \/ c.scheme = "vless" /\ c.security = "none"
  /\ c.scheme = "vless" => c.flow \in Flows
  /\ ~c.crypt /\ c.extension = "none" /\ c.header = "none"
  /\ c.transport = "grpc" => c.mode = "gun"
  /\ c.security = "reality" => c.key = "pbk and sni"

ConsumerVmess(c) ==
  /\ c.addressed
  /\ c.transport \in {"raw", "ws", "grpc"}
  /\ c.transport = "raw" => c.header = "none"
  /\ c.transport = "grpc" => c.mode = "gun"
  /\ ~c.insecure /\ c.extension = "none"

ConsumerHysteria2(c) ==
  /\ c.addressed /\ c.credential
  /\ c.ports = "single" /\ c.extension = "none" /\ ~c.insecure

\* is_light_consumer_compatible
Consumer(c) ==
  CASE c.scheme \in {"vless", "trojan"} -> ConsumerUrl(c)
    [] c.scheme = "vmess"     -> ConsumerVmess(c)
    [] c.scheme = "ss"        -> c.credential /\ c.plugin = "none"
    [] c.scheme = "hysteria2" -> ConsumerHysteria2(c)
    [] OTHER                  -> c.scheme = "socks" /\ c.addressed

-----------------------------------------------------------------------------
(* light_backend: "sing-box", "xray", or "fallback", which is sing-box     *)
(* first and then Xray for what sing-box does not verify.                  *)

\* The value as written, which light_backend compares with single words.
Written(c) == IF c.plain THEN c.transport ELSE "other"

XrayTransport(c) ==
  \/ Written(c) = "xhttp"
  \/ Written(c) = "grpc" /\ (c.mode = "multi" \/ c.authority)

LegacyRawHttp(c) == Written(c) = "raw" /\ c.header = "http"

\* Mutant: a flow only Xray knows is not looked for.
XrayVlessFlowBlind(c) == c.scheme = "vless" /\ c.crypt
XrayVless(c) == c.scheme = "vless" /\ (c.flow \notin {"none", "vision"} \/ c.crypt)

LightBackend(c) ==
  CASE c.scheme = "socks4" -> "sing-box"
    [] c.scheme = "socks"  -> "xray"
    [] c.scheme = "vmess"  -> IF XrayTransport(c) \/ XrayOnlyTls(c) THEN "xray" ELSE "sing-box"
    [] c.scheme = "hysteria2" /\ c.ports # "single" -> "sing-box"
    [] OTHER ->
         IF LegacyRawHttp(c) /\ ~XrayOnlyTls(c) THEN "sing-box"
         ELSE IF XrayTransport(c) \/ XrayOnlyTls(c) \/ XrayVless(c) THEN "xray"
         ELSE IF c.plain /\ c.security = "reality" THEN "fallback"
         ELSE "sing-box"
=============================================================================
