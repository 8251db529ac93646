------------------------------ MODULE Collector -----------------------------
(***************************************************************************)
(* The collector (main.rs): it downloads the sources, merges what they     *)
(* hold, tests the transport of every candidate, tells the registry, and   *)
(* writes the three files the rest of the update works on.                 *)
(*                                                                         *)
(* A configuration as delivered is [class, label]: dedup_key is the class, *)
(* and the label is the name or the other spelling it ignores.  From       *)
(* assign_config_names on, the class stands for the named configuration;   *)
(* classes are numbered in the order these sort in.                        *)
(***************************************************************************)
EXTENDS SourceFetch, ConfigSupport, Sequences, SequencesExt

CONSTANTS Config,        \* of each class: [features, endpoint, handshake]
          NoEndpoint,    \* endpoint() finds none
          Latencies,     \* milliseconds of a transport that answers
          Cap,           \* MAX_COLLECTED_CONFIGS
          MaxLight,      \* MAX_LIGHT_CANDIDATES
          MaxVariants,   \* MAX_LIGHT_ENDPOINT_VARIANTS
          MaxAll,        \* MAX_ALL_CONFIGS
          MaxPerEndpoint \* MAX_ALL_PER_ENDPOINT

Classes == DOMAIN Config
Never   == 0             \* the latency of what does not answer

ASSUME CollectorAssumption ==
  /\ Classes \subseteq Nat /\ IsFiniteSet(Classes)
  /\ Latencies \subseteq Nat \ {Never}
  /\ \A b \in Bodies : b \subseteq [class : Classes, label : STRING]
  /\ {Cap, MaxLight, MaxVariants, MaxAll, MaxPerEndpoint} \subseteq Nat \ {0}

\* The address is part of what a handshake stands for.
ASSUME HandshakeAssumption ==
  /\ \A c, d \in Classes :
       /\ Config[c].features.scheme \in {"hysteria", "hysteria2"}
       /\ Config[d].features.scheme = Config[c].features.scheme
       /\ Config[d].handshake = Config[c].handshake
       => Config[d].endpoint = Config[c].endpoint
  /\ \A c \in Classes :
       Config[c].handshake = NoEndpoint => Config[c].endpoint = NoEndpoint

VARIABLES step,      \* what the program does next
          named,     \* sources of each candidate: all_candidate_sources
          configs,   \* those of them under the cap
          network,   \* what each host answers during the test
          latency,   \* transport_results
          ranked,    \* ranked_working_configs
          counts,    \* [tested, reachable] of each source, for the registry
          light,     \* light_candidates
          disk       \* the three files, and which of them are of this run

vars == <<fetch, step, named, configs, network, latency, ranked, counts, light, disk>>

Scheme(c)   == Config[c].features.scheme
Endpoint(c) == Config[c].endpoint

-----------------------------------------------------------------------------
(* From the bodies to the candidates.                                      *)

SourceConfigs == [r \in UNION {fetch[s].configs : s \in Sources} |->
                    {s \in Sources : r \in fetch[s].configs}]

Deduped == [c \in {r.class : r \in DOMAIN SourceConfigs} |->
              UNION {SourceConfigs[r] : r \in {q \in DOMAIN SourceConfigs : q.class = c}}]

Screened(all) == RestrictDomain(all, LAMBDA c : Cheap(Config[c].features))

\* config_scheme is compared as a string.
SchemeOrder == <<"hysteria", "hysteria2", "socks", "socks4", "ss", "trojan", "vless",
                 "vmess", "wg">>
SchemeRank(c) == CHOOSE i \in DOMAIN SchemeOrder : SchemeOrder[i] = Scheme(c)

\* cap_configs_by_protocol: in rounds, one of each protocol.
Round(c, S) == Cardinality({d \in S : Scheme(d) = Scheme(c) /\ d < c})
TakenBefore(d, c, S) ==
  \/ Round(d, S) < Round(c, S)
  \/ Round(d, S) = Round(c, S) /\ SchemeRank(d) < SchemeRank(c)
\* Mutant: the first of the sorted list.
CappedSorted(S) == {c \in S : Cardinality({d \in S : d < c}) < Cap}

Capped(S) == {c \in S : Cardinality({d \in S : TakenBefore(d, c, S)}) < Cap}

NeedsCoreOnly(c) == Scheme(c) \in {"hysteria", "hysteria2"} /\ Config[c].features.obfs # "none"

\* special_hysteria_candidates, taken before the cap.
Special == {c \in DOMAIN named : NeedsCoreOnly(c) /\ Local(Config[c].features)}

-----------------------------------------------------------------------------
(* The transport test.                                                     *)

Hosts == (UNION {{Config[c].endpoint, Config[c].handshake} : c \in Classes}) \ {NoEndpoint}

TcpLatency(c, net) == IF Endpoint(c) = NoEndpoint THEN Never ELSE net[Endpoint(c)]

\* Obfuscation makes a QUIC handshake impossible.
QuicLatency(c, net) ==
  IF NeedsCoreOnly(c) \/ Endpoint(c) = NoEndpoint THEN Never ELSE net[Config[c].handshake]

WireGuardLatency(c, net) ==
  IF Endpoint(c) # NoEndpoint /\ Config[c].features.credential
  THEN net[Config[c].handshake] ELSE Never

TransportLatency(c, net) ==
  CASE Scheme(c) \in {"hysteria", "hysteria2"} -> QuicLatency(c, net)
    [] Scheme(c) = "wg" -> WireGuardLatency(c, net)
    [] OTHER            -> TcpLatency(c, net)

\* Mutant: the obfuscation is left out of the key.
ProbeKeyPlain(c) ==
  CASE Scheme(c) \in {"hysteria", "hysteria2"} -> <<Scheme(c), Config[c].handshake>>
    [] Scheme(c) = "wg" -> <<"wg", c>>
    [] OTHER -> <<"tcp", Endpoint(c)>>

\* transport_probe_key; a handshake stands for host, ports, SNI and ALPN.
ProbeKey(c) ==
  CASE Scheme(c) \in {"hysteria", "hysteria2"} ->
         <<Scheme(c), Config[c].handshake, Config[c].features.obfs>>
    [] Scheme(c) = "wg" -> <<"wg", c>>
    [] OTHER -> <<"tcp", Endpoint(c)>>

\* test_transport_configs: the first of a group is tested for all of it.
Tested(S, net) ==
  [c \in S |-> LET group == {d \in S : ProbeKey(d) = ProbeKey(c)}
               IN TransportLatency(CHOOSE d \in group : \A e \in group : d <= e, net)]

\* ranked_working_configs
RankedBy(lat) ==
  LET S == {c \in DOMAIN lat : lat[c] # Never}
      Faster(d, c) == lat[d] < lat[c] \/ (lat[d] = lat[c] /\ d < c)
  IN [n \in 1..Cardinality(S) |->
        CHOOSE c \in S : Cardinality({d \in S : Faster(d, c)}) = n - 1]

InOrder(S) ==
  [n \in 1..Cardinality(S) |-> CHOOSE c \in S : Cardinality({d \in S : d < c}) = n - 1]

\* The elements of s at the positions in I, in their order.
At(s) == [I \in SUBSET (DOMAIN s) |-> [n \in 1..Cardinality(I) |-> s[InOrder(I)[n]]]]

\* Mutant: a configuration counts for one of its sources only.
CountedOnce(s) ==
  LET of == {c \in DOMAIN latency : s = CHOOSE t \in named[c] : TRUE}
  IN [tested |-> Cardinality(of), reachable |-> Cardinality({c \in of : latency[c] # Never})]

Counted(s) ==
  LET of == {c \in DOMAIN latency : s \in named[c]}
  IN [tested |-> Cardinality(of), reachable |-> Cardinality({c \in of : latency[c] # Never})]

-----------------------------------------------------------------------------
(* The two lists.                                                          *)

\* The first of each endpoint, as a counter per endpoint lets them pass.
FirstPerEndpoint(limit) ==
  [offered \in Seq(Classes) |->
     LET Earlier(i) == {j \in 1..(i - 1) : Endpoint(offered[j]) = Endpoint(offered[i])}
     IN At(offered)[{i \in DOMAIN offered : Cardinality(Earlier(i)) < limit}]]

Take(list, limit) == SubSeq(list, 1, IF Len(list) < limit THEN Len(list) ELSE limit)

\* The sample's ranks, spread evenly from the fastest to the slowest.
Slots(n, target) ==
  [slot \in 1..target |-> IF target = 1 THEN 1
                          ELSE ((slot - 1) * (n - 1)) \div (target - 1) + 1]

Sample == [i \in 1..MaxLight |-> ranked[Slots(Len(ranked), MaxLight)[i]]]

Addressed == {c \in Special : Endpoint(c) # NoEndpoint}

\* Mutant: the places that collisions leave are not filled.
OfferedOnce ==
  (IF Len(ranked) > MaxLight THEN Sample ELSE ranked) \o InOrder(Addressed)

\* All of them, or the sample and then again all from the fastest while there
\* is room; then the special ones.  push_light_candidate does not ask whether a
\* candidate is there already, and wants an endpoint, as all that answer have.
Offered ==
  (IF Len(ranked) > MaxLight THEN Sample ELSE <<>>) \o ranked \o InOrder(Addressed)

LightCandidates == Take(FirstPerEndpoint(MaxVariants)[Offered], MaxLight)

\* Mutant: the limit of the Light candidates.
AllCandidatesLight == Take(FirstPerEndpoint(MaxVariants)[ranked], MaxAll)

\* select_all_candidates; its pass over those deferred finds every endpoint of
\* theirs as full as before.
AllCandidates == Take(FirstPerEndpoint(MaxPerEndpoint)[ranked], MaxAll)

\* Mutant: the sources of the retained candidates only.
SourcesRetained(c) == IF c \in DOMAIN latency THEN named[c] ELSE {}
SourcesOf(c) == named[c]

-----------------------------------------------------------------------------
(* The program.                                                            *)

Empty == [c \in {} |-> {}]

Init ==
  /\ FetchInit
  /\ step = "fetch"
  /\ named = Empty /\ configs = {} /\ latency = Empty /\ ranked = <<>> /\ light = <<>>
  /\ network = [h \in Hosts |-> Never]
  /\ counts = [s \in Sources |-> [tested |-> 0, reachable |-> 0]]
  /\ disk = [map |-> Empty, light |-> <<>>, all |-> <<>>, new |-> {}]

Fetch(s) ==
  /\ step = "fetch" /\ FetchStep(s)
  /\ UNCHANGED <<step, named, configs, network, latency, ranked, counts, light, disk>>

\* An error of the registry or of a write ends the program where it stands.
Fails ==
  /\ \/ step \in {"count", "map", "light", "all"}
     \/ step = "fetch" /\ AllFetched
  /\ step' = "failed"
  /\ UNCHANGED <<fetch, named, configs, network, latency, ranked, counts, light, disk>>

\* record_collection_results succeeds; then everything up to the cap.
Assemble ==
  /\ step = "fetch" /\ AllFetched
  /\ named' = Screened(Deduped)
  /\ configs' = Capped(DOMAIN named')
  /\ step' = IF configs' = {} THEN "failed" ELSE "test"
  /\ UNCHANGED <<fetch, network, latency, ranked, counts, light, disk>>

Test ==
  /\ step = "test"
  /\ \E net \in [Hosts -> {Never} \cup Latencies] :
       network' = net /\ latency' = Tested(configs, net) /\ ranked' = RankedBy(latency')
  /\ step' = "count"
  /\ UNCHANGED <<fetch, named, configs, counts, light, disk>>

\* Mutant: the test is repeated until something answers.
CountOrRetest ==
  /\ step = "count"
  /\ counts' = [s \in Sources |-> Counted(s)]
  /\ IF ranked = <<>> /\ Special = {}
     THEN step' = "test" /\ UNCHANGED light
     ELSE step' = "map" /\ light' = LightCandidates
  /\ UNCHANGED <<fetch, named, configs, network, latency, ranked, disk>>

\* record_transport_results succeeds.
Count ==
  /\ step = "count"
  /\ counts' = [s \in Sources |-> Counted(s)]
  /\ IF ranked = <<>> /\ Special = {}
     THEN step' = "failed" /\ UNCHANGED light
     ELSE step' = "map" /\ light' = LightCandidates
  /\ UNCHANGED <<fetch, named, configs, network, latency, ranked, disk>>

\* Mutant: an error of this write is ignored.
WriteMapOrNot ==
  /\ step = "map" /\ step' = "light"
  /\ UNCHANGED <<fetch, named, configs, network, latency, ranked, counts, light, disk>>

WriteMap ==
  /\ step = "map" /\ step' = "light"
  /\ disk' = [disk EXCEPT !.map = [c \in Range(light) |-> SourcesOf(c)],
                         !.new = @ \cup {"map"}]
  /\ UNCHANGED <<fetch, named, configs, network, latency, ranked, counts, light>>

WriteLight ==
  /\ step = "light" /\ step' = "all"
  /\ disk' = [disk EXCEPT !.light = light, !.new = @ \cup {"light"}]
  /\ UNCHANGED <<fetch, named, configs, network, latency, ranked, counts, light>>

WriteAll ==
  /\ step = "all" /\ step' = "done"
  /\ disk' = [disk EXCEPT !.all = AllCandidates, !.new = @ \cup {"all"}]
  /\ UNCHANGED <<fetch, named, configs, network, latency, ranked, counts, light>>

Terminated == step \in {"done", "failed"} /\ UNCHANGED vars

Work == Assemble \/ Test \/ Count \/ WriteMap \/ WriteLight \/ WriteAll
Next == (\E s \in Sources : Fetch(s)) \/ Work \/ Fails \/ Terminated

\* A request ends within the client's 20 seconds, and every pause and probe has
\* an end of its own.
Fairness == (\A s \in Sources : WF_vars(Fetch(s))) /\ WF_vars(Work)

Spec == Init /\ [][Next]_vars /\ Fairness

-----------------------------------------------------------------------------
AtEndpoint(list, c) == Cardinality({i \in DOMAIN list : Endpoint(list[i]) = Endpoint(c)})
Delivers(s, c) == \E r \in fetch[s].configs : r.class = c

\* Probes are shared by candidates whose transports look alike
\* (test_transport_configs); still each one gets the verdict its own probe would
\* have had, so nothing the probe depends on is missing from the key.
VerdictIsOwn ==
  \A c \in DOMAIN latency : latency[c] = TransportLatency(c, network)

\* What the registry is told of a source: as tested, the candidates under the
\* cap that it delivered, in whatever spelling and whoever else did, and as
\* reachable those of them whose own transport answers.
CountsAgree ==
  step \in {"map", "light", "all", "done"} =>
    \A s \in Sources :
      LET of == {c \in DOMAIN latency : Delivers(s, c)} IN
      counts[s] = [tested    |-> Cardinality(of),
                   reachable |-> Cardinality({c \in of : TransportLatency(c, network) # Never})]

\* The cap is used up before it cuts, and no protocol is cut short while another
\* one keeps two more than it.
CapIsFair ==
  LET kept(c) == Cardinality({d \in configs : Scheme(d) = Scheme(c)}) IN
  \A c \in DOMAIN named \ configs :
    /\ Cardinality(configs) = Cap
    /\ \A d \in configs : kept(d) <= kept(c) + 1

\* A candidate that answered, or that only a core can test, is left out of the
\* Light candidates only when they are full or its endpoint is; and one is listed
\* twice only where they were sampled, when the second pass repeats candidates
\* of the first.
LightFilled ==
  step \in {"map", "light", "all", "done"} =>
    /\ \A c \in Range(ranked) \cup Special :
         \/ Contains(light, c) \/ Len(light) = MaxLight
         \/ Endpoint(c) = NoEndpoint \/ AtEndpoint(light, c) = MaxVariants
    /\ \A c \in Range(light) : AtEndpoint(light, c) <= MaxVariants
    /\ IsInjective(light) \/ Len(ranked) > MaxLight

\* all.txt has no repetition, and a candidate that answered is missing from it
\* only for faster ones: MaxAll of them, or MaxPerEndpoint at its endpoint.
AllIsBest ==
  "all" \in disk.new =>
    /\ IsInjective(disk.all)
    /\ \A i \in DOMAIN ranked :
         LET c == ranked[i]
             faster == {ranked[j] : j \in 1..(i - 1)} \cap Range(disk.all)
         IN \/ Contains(disk.all, c)
            \/ Cardinality(faster) = MaxAll
            \/ Cardinality({d \in faster : Endpoint(d) = Endpoint(c)}) = MaxPerEndpoint

\* The source map names, for every Light candidate, exactly the sources whose
\* download held it: through the merge of spellings, the screening, the naming
\* and the cap, which a candidate for the cores may have missed.
Provenance ==
  "map" \in disk.new =>
    /\ DOMAIN disk.map = Range(light)
    /\ \A c \in DOMAIN disk.map : disk.map[c] = {s \in Sources : Delivers(s, c)}

\* Every result is put down to the sources it came from, in the registry and in
\* the map that the Light builder's feedback goes by.
SourcesAreCredited == CountsAgree /\ Provenance

\* What is cut at the cap, sampled, and written to both lists is the best the
\* limits allow.
ListsHoldTheBest == CapIsFair /\ LightFilled /\ AllIsBest

\* Wherever the program fails, the candidates on disk are those of an earlier
\* run or all of them have their provenance beside them, and a new all.txt
\* comes with the new candidates.
FilesInOrder ==
  /\ "light" \in disk.new =>
       "map" \in disk.new /\ Range(disk.light) \subseteq DOMAIN disk.map
  /\ "all" \in disk.new => "light" \in disk.new
  /\ step = "done" => "all" \in disk.new

\* Whatever the sources answer, however often, the collector comes to an end.
Ends == <>(step \in {"done", "failed"})
=============================================================================
