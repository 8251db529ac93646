--------------------------- MODULE SourceRegistry ---------------------------
(***************************************************************************)
(* The registry of subscription sources (source_discovery.rs) over the     *)
(* runs of the workflow.  A run discovers sources and selects the active   *)
(* ones, collects them, records what the transport probes and the Light    *)
(* builder found out about them, and publishes the registry.  A run works  *)
(* on the checkout of its dispatch: one that waited for another, or that   *)
(* is run again, starts from a registry older than main's and replaces     *)
(* what main has learned since.  A run that fails publishes nothing.       *)
(*                                                                         *)
(* Counts are kept as far as the thresholds of the code tell them apart;   *)
(* rankings by yield, score and age are left open (any order).             *)
(***************************************************************************)
EXTENDS Naturals, FiniteSets

CONSTANTS
  Sources,          \* the usable URLs that GitHub can lead to
  MaxFailures,      \* 5:   MAX_FAILURE_STREAK
  MaxEmpty,         \* 3:   MAX_EMPTY_STREAK
  MaxLow,           \* 3:   MAX_LOW_QUALITY_STREAK
  MinRuns,          \* 2:   MIN_PROVEN_SUCCESSFUL_RUNS
  RetiredCooldown,  \* 7 days in ticks:  RETIRED_SOURCE_COOLDOWN_SECS
  QualityCooldown,  \* 30 days in ticks: QUALITY_RETRY_COOLDOWN_SECS
  MaxActive,        \* 600: MAX_ACTIVE_SOURCES
  MaxProven,        \* 250: MAX_PROVEN_ACTIVE_SOURCES
  MaxNewActive,     \* 75:  MAX_NEW_ACTIVE_SOURCES
  BootstrapNew,     \* 300: BOOTSTRAP_NEW_ACTIVE_SOURCES
  MaxUnchecked,     \* 75:  MAX_UNCHECKED_ACTIVE_SOURCES
  MaxNew,           \* 800: MAX_NEW_SOURCES
  MaxRefresh,       \* 800: MAX_KNOWN_REFRESH_SOURCES
  MaxRegistry,      \* 10000: MAX_REGISTRY_SOURCES
  MaxCommits        \* bound: older commits that runs may still start from

ASSUME LimitsAssumption ==
  /\ IsFiniteSet(Sources)
  /\ MaxFailures \in Nat /\ MaxFailures > 1
  /\ MaxEmpty \in Nat /\ MaxEmpty > 1
  /\ MaxLow \in Nat \ {0} /\ MinRuns \in Nat \ {0}
  /\ RetiredCooldown \in Nat /\ QualityCooldown \in Nat
  /\ RetiredCooldown <= QualityCooldown
  /\ MaxProven \in Nat /\ MaxNewActive \in Nat /\ BootstrapNew \in Nat
  /\ MaxUnchecked \in Nat /\ MaxNew \in Nat \ {0} /\ MaxRefresh \in Nat
  /\ MaxActive \in Nat /\ MaxRegistry \in Nat
  /\ MaxProven + MaxNewActive <= MaxActive
  /\ MaxNewActive <= BootstrapNew
  /\ MaxActive <= MaxRegistry
  /\ MaxCommits \in Nat

VARIABLES
  phase,      \* what the running workflow has done, "idle" between two runs
  published,  \* source-registry.json on the main branch: listed URL -> record
  commits,    \* the same file in the commits of runs that wait or may be run again
  base,       \* the same file in the checkout of the run
  registry,   \* source-registry.json as the run has written it
  active,     \* sources.txt, written by each run
  asked       \* the sources this run collects (main's list)

vars == <<phase, published, commits, base, registry, active, asked>>

branchVars == <<published, commits>>

Phases == {"idle", "started", "discovered", "collected", "probed", "judged"}

\* configs_last_run: none, below or from MIN_PROVEN_CONFIGS_LAST_RUN (250).
Yields == {"none", "few", "many"}

\* What the transport_*_last_run fields say: not probed yet, below the
\* acceptable history, acceptable, meaningful (with 250 or more tested).
Histories == {"absent", "thin", "fair", "good"}

Record ==
  [checked : BOOLEAN,                \* last_checked is not null
   age : 0..QualityCooldown,         \* ticks since last_checked
   failures : 0..MaxFailures,        \* failure_streak
   empties : 0..MaxEmpty,            \* empty_streak
   successes : 0..MinRuns,
   yield : Yields,
   permanent : BOOLEAN,              \* permanently_failed
   transport : Histories,
   lowTransport : 0..MaxLow,         \* the three *_low_quality_streak
   lowStrict : 0..MaxLow,
   lowTransfer : 0..MaxLow]

IsRegistry(records) ==
  DOMAIN records \subseteq Sources /\ records \in [DOMAIN records -> Record]

Least(x, y) == IF x <= y THEN x ELSE y
Monus(x, y) == IF x >= y THEN x - y ELSE 0

\* Mutant: the counter passes the threshold it is compared with.
CountOn(n, threshold) == n + 1

\* A counter, up to the threshold it is compared with.
Count(n, threshold) == Least(n + 1, threshold)

\* The first n of S in some order, and the same with the members of A first.
Taken(S, n) == {T \in SUBSET S : Cardinality(T) = Least(n, Cardinality(S))}

Preferring(A, S, n) ==
  UNION {{T \cup U : U \in Taken(S \ A, Monus(n, Cardinality(T)))} :
           T \in Taken(A \cap S, n)}

-----------------------------------------------------------------------------
\* Health of a record

Retired(r) == r.failures >= MaxFailures \/ r.empties >= MaxEmpty

\* Mutant: any streak makes a source recoverable.
RecoverableAnyStreak(r) ==
  (r.failures > 0 \/ r.empties > 0) /\ r.checked /\ r.age >= RetiredCooldown

\* is_recoverable: retired, and the cooldown is over.
Recoverable(r) == Retired(r) /\ r.checked /\ r.age >= RetiredCooldown

\* source_quality_quarantined.
Quarantined(r) ==
  /\ r.lowTransport >= MaxLow \/ r.lowStrict >= MaxLow \/ r.lowTransfer >= MaxLow
  /\ r.checked => r.age < QualityCooldown

\* source_has_acceptable_transport_history.
Acceptable(r) == r.transport \in {"fair", "good"}

\* is_healthy_for_selection; recovering: the record is one of recoverable.
Healthy(r, recovering) ==
  recovering \/ (~Retired(r) /\ ~Quarantined(r) /\ ~r.permanent)

\* The records proven_urls ranks.
IsProven(r, recovering) ==
  /\ Healthy(r, recovering)
  /\ r.successes >= MinRuns /\ r.yield = "many" /\ r.transport = "good"

\* Mutant: the transport history is not looked at.
InPoolOnStreaks(r, recovering) == recovering \/ ~Retired(r)

\* The records active_urls ranks beside the proven ones.
InPool(r, recovering) ==
  recovering \/ (~Retired(r) /\ (r.transport = "absent" \/ Acceptable(r)))

-----------------------------------------------------------------------------
\* Selection

\* proven_urls before its limit.
Proven(records, excluded, recoverable) ==
  {s \in DOMAIN records \ excluded : IsProven(records[s], s \in recoverable)}

\* active_urls: the proven core, then checked sources, then unchecked ones.
ActiveUrls(records, limit, excluded, recoverable) ==
  UNION {LET pool      == {s \in (DOMAIN records \ excluded) \ core :
                             InPool(records[s], s \in recoverable)}
             unchecked == {s \in pool : ~records[s].checked}
             room      == Monus(limit, Cardinality(core))
             share     == Least(Least(MaxUnchecked, room), Cardinality(unchecked))
         IN {core \cup known \cup more :
               known \in Taken(pool \ unchecked, room - share),
               more \in Taken(unchecked, share)} :
         core \in Taken(Proven(records, excluded, recoverable),
                        Least(limit, MaxProven))}

\* Mutant: the bootstrap never ends.
NewLimitBootstrap(records) == BootstrapNew

NewLimit(records) ==
  IF Proven(records, {}, {}) = {} THEN BootstrapNew ELSE MaxNewActive

\* select_active_sources.
SelectActive(records, new, known) ==
  LET recoverable == {s \in known : Recoverable(records[s])}
  IN UNION {LET limit == Monus(MaxActive, Cardinality(fresh))
            IN UNION {{urls \cup more :
                         more \in Taken(fresh, Monus(MaxActive, Cardinality(urls)))} :
                        urls \in ActiveUrls(records, limit, fresh, recoverable)} :
            fresh \in Taken(new, NewLimit(records))}

\* Mutant: the active sources are not protected.
PrunedUnprotected(listed, protected, fresh) ==
  IF Cardinality(listed) <= MaxRegistry THEN {listed}
  ELSE Preferring(fresh, listed, MaxRegistry)

\* Mutant: the protected sources come on top of the limit.
PrunedAroundLimit(listed, protected, fresh) ==
  IF Cardinality(listed) <= MaxRegistry THEN {listed}
  ELSE {protected \cup kept :
          kept \in Preferring(fresh, listed \ protected, MaxRegistry)}

\* prune: what is left of the listed sources; those discovered last come first.
Pruned(listed, protected, fresh) ==
  IF Cardinality(listed) <= MaxRegistry THEN {listed}
  ELSE {protected \cup kept :
          kept \in Preferring(fresh, listed \ protected,
                              Monus(MaxRegistry, Cardinality(protected)))}

-----------------------------------------------------------------------------
\* The steps of a run

NewRecord ==
  [checked |-> FALSE, age |-> 0, failures |-> 0, empties |-> 0, successes |-> 0,
   yield |-> "none", permanent |-> FALSE, transport |-> "absent",
   lowTransport |-> 0, lowStrict |-> 0, lowTransfer |-> 0]

Init ==
  /\ phase = "idle"
  /\ published = [s \in {} |-> NewRecord]
  /\ commits = {}
  /\ base = published /\ registry = published
  /\ active = {} /\ asked = {}

\* A run is dispatched while another works, or ends and may be run again: its
\* commit is what main holds now (actions/checkout).
Dispatch ==
  /\ Cardinality(commits \cup {published}) <= MaxCommits
  /\ commits' = commits \cup {published}
  /\ UNCHANGED <<phase, published, base, registry, active, asked>>

\* A waiting run gives way to a later one, or an ended one is too old to be run
\* again.
Forget ==
  /\ \E old \in commits : commits' = commits \ {old}
  /\ UNCHANGED <<phase, published, base, registry, active, asked>>

\* The next run starts, on a commit of now or on one of an earlier dispatch.
Begin ==
  /\ phase = "idle"
  /\ base' \in commits \cup {published}
  /\ registry' = base'
  /\ phase' = "started"
  /\ UNCHANGED <<branchVars, active, asked>>

\* add_candidate for the new sources.
WithNew(new) ==
  [s \in DOMAIN registry \cup new |->
     IF s \in DOMAIN registry THEN registry[s] ELSE NewRecord]

\* add_candidate for a known source: last_discovered moves, unless it is retired
\* for failures and not cooled down.
Refreshed(r) ==
  r.failures < MaxFailures \/ (r.checked /\ r.age >= RetiredCooldown)

\* discover_and_write with the sources it found.
Discover ==
  /\ phase = "started"
  /\ \E found \in (SUBSET Sources) \ {{}} :
     \E new \in SUBSET (found \ DOMAIN registry),
        known \in Preferring({s \in DOMAIN registry : Recoverable(registry[s])},
                             found \cap DOMAIN registry, MaxRefresh) :
       LET records == WithNew(new)
           fresh   == new \cup {s \in known : Refreshed(registry[s])}
       IN /\ Cardinality(new) <= MaxNew
          /\ new = {} => found \subseteq DOMAIN registry
          /\ \E ordered \in SelectActive(records, new, known) \ {{}} :
               /\ active' = ordered
               /\ \E kept \in Pruned(DOMAIN records, ordered, fresh) :
                    registry' = [s \in kept |-> records[s]]
  /\ phase' = "discovered"
  /\ UNCHANGED <<branchVars, base, asked>>

\* The search is unavailable or finds nothing: the sources of the registry are
\* used (persisted_active_sources), which is not written.
DiscoverOffline ==
  /\ phase = "started"
  /\ active' \in ActiveUrls(registry, MaxActive, {}, {}) \ {{}}
  /\ phase' = "discovered"
  /\ UNCHANGED <<branchVars, base, registry, asked>>

Outcomes == {"many", "few", "empty", "failed", "gone"}

\* Mutant: a failure leaves the yield of the last run.
CollectedKeepingYield(r, outcome) ==
  LET seen == [r EXCEPT !.checked = TRUE, !.age = 0] IN
  CASE outcome \in {"many", "few"} ->
         [seen EXCEPT !.yield = outcome, !.successes = Count(@, MinRuns),
                      !.failures = 0, !.empties = 0, !.permanent = FALSE]
    [] outcome = "empty" ->
         [seen EXCEPT !.yield = "none", !.failures = 0, !.empties = Count(@, MaxEmpty)]
    [] outcome = "failed" ->
         [seen EXCEPT !.failures = Count(@, MaxFailures), !.empties = 0]
    [] outcome = "gone" ->
         [seen EXCEPT !.failures = MaxFailures, !.empties = 0, !.permanent = TRUE]

\* record_outcome.
Collected(r, outcome) ==
  LET seen == [r EXCEPT !.checked = TRUE, !.age = 0] IN
  CASE outcome \in {"many", "few"} ->
         [seen EXCEPT !.yield = outcome, !.successes = Count(@, MinRuns),
                      !.failures = 0, !.empties = 0, !.permanent = FALSE]
    [] outcome = "empty" ->
         [seen EXCEPT !.yield = "none", !.failures = 0, !.empties = Count(@, MaxEmpty)]
    [] outcome = "failed" ->
         [seen EXCEPT !.yield = "none", !.failures = Count(@, MaxFailures),
                      !.empties = 0]
    [] outcome = "gone" ->
         [seen EXCEPT !.yield = "none", !.failures = MaxFailures, !.empties = 0,
                      !.permanent = TRUE]

\* The active sources are fetched and record_collection_results writes the
\* outcomes; a source answered with 404 or 410 also leaves sources.txt.
Collect ==
  /\ phase = "discovered"
  /\ \E outcome \in [active -> Outcomes] :
       /\ registry' = [s \in DOMAIN registry |->
                         IF s \in active THEN Collected(registry[s], outcome[s])
                         ELSE registry[s]]
       /\ active' = {s \in active : outcome[s] # "gone"}
  /\ asked' = active
  /\ phase' = "collected"
  /\ UNCHANGED <<branchVars, base>>

\* What the probes can say of a source with this yield.
Verdicts(yield) ==
  CASE yield = "none" -> {"thin"}
    [] yield = "few"  -> {"low", "thin", "fair"}
    [] yield = "many" -> {"low", "thin", "fair", "good"}

\* record_transport_results of one source; "low": 100 or more tested, less than
\* 8% of them reachable.
Probed(r, verdict) ==
  [r EXCEPT !.transport = IF verdict = "low" THEN "thin" ELSE verdict,
            !.lowTransport = IF verdict = "low" THEN Count(@, MaxLow) ELSE 0]

\* main reports on every source of its list, those without a configuration
\* with 0 of 0.  Without a single configuration it fails before.
ProbeTransport ==
  /\ phase = "collected"
  /\ \E s \in asked : registry[s].yield # "none"
  /\ \E verdict \in [asked -> {"low"} \cup Histories] :
       /\ \A s \in asked : verdict[s] \in Verdicts(registry[s].yield)
       /\ registry' = [s \in DOMAIN registry |->
                         IF s \in asked THEN Probed(registry[s], verdict[s])
                         ELSE registry[s]]
  /\ phase' = "probed"
  /\ UNCHANGED <<branchVars, base, active, asked>>

\* record_light_results of one source.
Judged(r, lowStrict, lowTransfer) ==
  [r EXCEPT !.lowStrict = IF lowStrict THEN Count(@, MaxLow) ELSE 0,
            !.lowTransfer = IF lowTransfer THEN Count(@, MaxLow) ELSE 0]

\* The Light builder reports on the sources of the candidates it has tested; an
\* error here is only logged.
JudgeLight ==
  /\ phase = "probed"
  /\ \E touched \in SUBSET {s \in asked : registry[s].yield # "none"} :
     \E lowStrict, lowTransfer \in SUBSET touched :
       registry' = [s \in DOMAIN registry |->
                      IF s \in touched
                      THEN Judged(registry[s], s \in lowStrict, s \in lowTransfer)
                      ELSE registry[s]]
  /\ phase' = "judged"
  /\ UNCHANGED <<branchVars, base, active, asked>>

\* The run's registry is committed over main's; sources.txt is not (.gitignore).
\* While no run works, base and registry stand for what main holds.
Publish ==
  /\ phase = "judged"
  /\ published' = registry /\ base' = registry
  /\ phase' = "idle"
  /\ active' = {} /\ asked' = {}
  /\ UNCHANGED <<commits, registry>>

\* A step of the workflow fails or times out: nothing is published, and the
\* checkout is gone with what the run wrote there.
Fail ==
  /\ phase # "idle"
  /\ base' = published /\ registry' = published
  /\ phase' = "idle"
  /\ active' = {} /\ asked' = {}
  /\ UNCHANGED branchVars

Aged(records) ==
  [s \in DOMAIN records |->
     [records[s] EXCEPT !.age =
        IF records[s].checked THEN Count(@, QualityCooldown) ELSE @]]

\* Time passes between two runs.
Tick ==
  /\ phase = "idle"
  /\ published' = Aged(published) /\ commits' = {Aged(old) : old \in commits}
  /\ base' = published' /\ registry' = published'
  /\ UNCHANGED <<phase, active, asked>>

Next ==
  \/ Dispatch \/ Forget \/ Begin
  \/ Discover \/ DiscoverOffline
  \/ Collect \/ ProbeTransport \/ JudgeLight
  \/ Publish \/ Fail \/ Tick

Spec == Init /\ [][Next]_vars

-----------------------------------------------------------------------------

TypeOK ==
  /\ phase \in Phases
  /\ IsRegistry(published) /\ \A old \in commits : IsRegistry(old)
  /\ IsRegistry(base) /\ IsRegistry(registry)
  /\ active \in SUBSET Sources /\ asked \in SUBSET Sources

\* Every source of sources.txt and every source the run collects has a record:
\* pruning never takes the record away from under a running collection, whose
\* results would be dropped silently (prune, the early return of record_outcome).
ActiveRegistered == active \cup asked \subseteq DOMAIN registry

\* New sources get their exploration slots without displacing the proven core,
\* and neither pushes the list over its size (select_active_sources).
SlotsShared ==
  phase = "discovered" =>
    LET proven == Proven(base, {}, {})
        new    == DOMAIN registry \ DOMAIN base
    IN /\ Cardinality(active) <= MaxActive
       /\ proven \subseteq active \/ Cardinality(proven \cap active) >= MaxProven
       /\ Cardinality(new \cap active) >= Least(MaxNewActive, Cardinality(new))

\* The registry never outgrows its capacity, although discovery adds before it
\* prunes and what is active may not be pruned (prune).
RegistryBounded == Cardinality(DOMAIN registry) <= MaxRegistry

\* Both at once, which is what pruning has to manage.
PruningIsSafe == ActiveRegistered /\ RegistryBounded

\* The override that lets a cooled-down source be selected never lets it into
\* the proven core: what retires a source also clears the yield it was proven
\* by (is_healthy_for_selection, record_outcome).
RecoveringIsNotProven ==
  \A s \in DOMAIN registry :
    Recoverable(registry[s]) => ~IsProven(registry[s], TRUE)

\* The streaks never count: a source fails once, is empty once or is reached
\* badly once, and is not asked again.  Only a 404 or 410 retires a source; the
\* limits of five failures, three empty runs and three bad transport runs are
\* never reached by counting to them (record_outcome, record_transport_results).
StreaksNeverGrow ==
  \A s \in DOMAIN registry :
    /\ registry[s].failures \in {0, 1, MaxFailures}
    /\ registry[s].empties <= 1
    /\ registry[s].lowTransport <= 1

\* A checked source without an acceptable transport history that is not retired.
Adrift(r) == r.checked /\ ~Retired(r) /\ r.transport = "thin"

\* A run that knows a source to be adrift leaves it so: unlike a retired one it
\* has no cooldown after which it is tried again (active_urls, is_recoverable).
\* Of the sources main lists, only a run whose checkout is older than the
\* failure tries it again, and hides the failure when it publishes.
OnlyOldRunsRevive ==
  [][\A s \in DOMAIN published \cap DOMAIN published' :
       Adrift(published[s]) /\ ~Adrift(published'[s])
         => ~(s \in DOMAIN base /\ Adrift(base[s]))
    ]_vars
=============================================================================
