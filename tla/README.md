# TLA+ models of ProxyRift

ProxyRift collects proxy configurations from public subscription lists, tests
them, and publishes two subscriptions: `all.txt` (everything that answers) and
`light.txt` (at most 200 configurations that have passed a funnel of ever
heavier tests). It runs as a GitHub workflow dispatched by hand: a chain of sequential
programs, each of which is one async task that awaits batches of concurrent
probes. What is hard about it is not shared memory but *bookkeeping across
awaits*: sets of tested, passed and failed candidates that are re-read after
each batch, budgets, caps, early returns, external processes that die in the
middle of a batch, and state files that survive from run to run.

This directory holds the models, the TLC configurations, and the proofs.

## 1. Inventory

| component | code | keeps | operations | module |
|---|---|---|---|---|
| Light builder | `src/bin/polish_light.rs` main, `fill_*_gate` | sets of candidates that are prefiltered, strictly verified, stable, transfer- and stream-tested / -verified, attempts per candidate | discovery wave, strict recheck, stability, transfer and stream gates, publication | `LightPipeline`, `LightFunnel` |
| Selection | `select_verified_configs`, `diversify_*`, `selection_*_count` | endpoint and family counters of one walk | greedy walk over a ranking | `LightSelection`, `SelectVerified` |
| Budgets and controller | `adaptive_*`, `transfer_reserve_target`, `adjust_transfer_workers` | worker count, clean batches | arithmetic; one adjustment per batch | `LightBudgets`, `TransferWorkers` |
| Core batches | `src/singbox.rs`, `src/validator.rs` `check_batch_targets` | stack of batches, core failures, endpoint cache, rounds, metrics | pin, split, start core, probe round, secondary targets, verdict | `CoreBatch`, `ProbePolicy` |
| Backend routing | `validate_light_transfer_batch`, `validate_light_batch`, `light_backend`, `validate_candidates_targets_inner`, `check_proxies` | which core has which candidate, results of both | first try, fallback, outage | `ConfigSupport`, `BackendRouting` |
| Target health, probe requests | `healthy_targets`, `throughput_bytes_for_target`, `probe_request_with_minimum` | global rate-limit counter | health vote, byte minimum; attempts, secondary targets | `BackendRouting`, `ProbePolicy` (partly) |
| Source registry | `src/source_discovery.rs` | per source: streaks, quality, quarantine, timestamps; list of active sources | discover, record collection / transport / Light results, retire, recover, prune | `SourceRegistry` |
| Collector | `src/main.rs` | attempts, redirects; candidate lists | fetch with retry and redirect, dedup, screen, cap, transport probe, sample, write | `SourceFetch`, `Collector` |
| Training data, model, history | `src/light_training.rs`, `src/intelligence.rs`, `persist_*` in `polish_light.rs` | JSON lines with identifiers, running averages, history | merge, validate, expire, cap, update | `LightPersist` |
| Workflow | `.github/workflows/update.yml` | files on `main`, checkout of the run, snapshot | dispatch, re-run, concurrency group, build, minimum to publish, header, encoding, push with retry | `UpdateRun` |
| Parsing, core configuration | `parse_*`, `*_outbound`, `is_*_supported*` | nothing | acceptance by each parser and filter; share link to JSON | `ConfigSupport` (acceptance only) |
| `check_proxies`, `encode_subscriptions` | `src/bin/` | nothing | route to a core, one validator call; Base64 of a file | routing in `BackendRouting`; what is encoded of what in `UpdateRun` |

How they interact: the workflow runs `discover_sources`, the collector,
`polish_light` and `encode_subscriptions` one after the other. The collector
reads the active sources and reports collection and transport results to the
registry; the Light builder reads `.light-candidates.txt` and
`.source-config-map.json`, hands batches to the validator (which runs sing-box
or Xray as child processes), writes `light.next.txt`, training rows, model and
history, and reports quality back to the registry. The workflow replaces
`light.txt` only if at least 50 configurations were selected, prepends a metadata
header, encodes, and pushes a snapshot of the generated files onto whatever
`main` has become.

What makes each component correct, and what is hard about it:

* **Light builder.** No candidate is published that has not passed each gate;
  no 10 MiB test (the expensive resource) is spent on a candidate that could
  not be published; verdicts are final; budgets hold; the run ends. Hard: every
  loop re-ranks and re-selects after each await, so what was eligible when a
  batch was chosen need not be what is selected later; gates return early for
  several reasons and their callers do not ask which.
* **Selection.** A maximal set under two caps and a limit, with exact counters.
* **Controller.** Backs off from a limiting destination, recovers, stays inside
  its bounds, also for tiny batches where one answer is 25 %.
* **Core batches.** One bad configuration must not cost others their verdict;
  nobody is asked twice; core starts are bounded; the call returns. Hard: cores
  fail to start, die between rounds, and batches are split for two reasons
  (failures, UDP endpoint conflicts).
* **Probe policy.** Dropping a hopeless candidate early must not change its
  verdict or the metrics published with it.
* **Backend routing.** An outage of one core is not a verdict on a candidate; a
  candidate some core can run is shown to such a core. Hard: what a core accepts
  is written down five times (two parsers, two filters, the router), and the
  tables have to agree.
* **Registry.** A retired source can come back, but not straight into the proven
  core; proven and new sources share the slots as promised; pruning keeps what
  is in use. Hard: what a run learns changes what the next runs select, so a
  rule can be right for one run and wrong over several.
* **Collector.** Retries and redirects end and lead nowhere else; results are
  put down to the sources they came from; what caps and samples leave out is
  worse than what they keep; a candidate is never on disk without its sources.
* **Persistence.** Rows, model and history on `main` describe the same
  observations, each once, although only the rows carry identifiers.
* **Workflow.** A concurrent commit is never lost; a small result never
  replaces a good one; plain and encoded lists agree. Hard: a run works on the
  checkout of its dispatch, however long it waited, and may be run again.

## 2. What is modelled

### `LightSelection`: sets instead of rankings

Rankings come from latencies and success rates that no property distinguishes.
A greedy walk over *some* order of S returns exactly the sets
`Selections(base, S, limit, maxEndpoint, maxFamily)`: they fit the caps and the
limit, and are full or leave only blocked candidates out. The other modules
quantify over these sets. This is not taken on trust: `SelectVerified` models
the loop of `select_verified_configs` (with the two rejection counters of
`selection_rejection_counts`) position by position, and both TLC and
`SelectVerifiedProofs` show that what it returns is in `Selections`.

### `LightPipeline`: the builder

One step is one batch (chosen, tested, recorded) or one decision between
batches. `phase` is the position in `main`, `caller` tells the two calls of
`fill_transfer_gate` apart. The set variables have the names of the code's maps
(`strict` = `final_verified`, `xferOk` = `transfer_verified` ...). The
environment chooses which members of a batch pass, which order each ranking
has, when a core cannot run (`CoreFails`: the prefilter, recheck, stability
and stream gates abort the run with `?`, the transfer gate swallows the error),
and when the time budget of a gate runs out (`cutShort`, a history variable).

Correspondence of the actions:

| action | code |
|---|---|
| `Prefilter`, `EndOfWaves` | the chunk loop of `main` |
| `Decide` | the top of a wave: target met, reserve ready or short |
| `NothingToRecheck`, `StrictRecheck` | `select_recheck_candidates` and the strict recheck |
| `EnterGate` | the head of `fill_transfer_gate` |
| `StabilityBatch`, `LeaveStability` | `fill_transfer_stability_gate` |
| `TransferBatch`, `LeaveTransfer` | the loop of `fill_transfer_gate`; `ReturnCount` is what its caller makes of the count, for a wave the two breaks behind the mid-discovery gate |
| `StreamBatch`, `LeaveStream` | `fill_stream_continuity_gate` |
| `Publish` | the final selection of `main` |

`LightFunnel` is the abstract specification: candidates earn five gates in
order, and a run fails or publishes, once, a set of candidates that hold all
five and fit the caps. `LightPipeline` implements it under the mapping
`Passed` (`FunnelPromise`).

### `LightBudgets`, `TransferWorkers`

The arithmetic, in exact integers: `PerRate` is the common shape of the three
adaptive limits (remaining * percent / smoothed pass rate, the rate clamped).
The code computes in `f64`; results may differ by one where a quotient is an
integer, which no property depends on. `TransferWorkers` runs the worker
controller against a destination that limits as it likes.

### `CoreBatch`, `ProbePolicy`

`CoreBatch` is `check_batch_targets` of both backends. A call is a record that
`Init` picks: `watchesCore` (sing-box polls the process after each round, Xray
does not) and `splits` (only Xray splits hysteria2 candidates of one endpoint)
select the backend, the other fields the policy and the batch. The environment
picks candidates no core starts with (`blockers`), candidates whose traffic ends
the core (`crashers`), and hosts that do not resolve. Probes are abstracted to
whether the core was there; `ProbePolicy` models the rest: how rounds, early
drops, the late streak and the secondary targets decide one candidate, with all
probe outcomes fixed in advance so that the verdict can be compared with the
reference `Policy`.

### `ConfigSupport`, `BackendRouting`

`ConfigSupport` has no state. A configuration is the record of the `Features`
some table looks at, and the operators are the tables: `XrayRuns` and
`SingBoxRuns` (what parser and outbound builder of each core accept), `Cheap`
(the collector's screen), `Consumer` and `DisabledTls` (the builder's), and
`LightBackend`, which decides by looking at the link again. Names, hosts and
the JSON are left out.

`BackendRouting` takes one batch through the filters, the choice of a core, both
cores and the second try on Xray, for the five gates and for `check_proxies`. A
core verifies any part of what it accepts, or fails. A verdict is a fact about
the batch as a whole: who was asked, through which targets, for how many bytes.

| action | code |
|---|---|
| `CollectorFilter`, `LightFilter` | `is_cheaply_supported_config` in `main.rs`; the filters at the head of `polish_light` |
| `CoreIdle`, `CoreAnswers`, `CoreFails` | `validate_candidates_*_inner` of either core |
| `Settle` | `?` on the answers, or their `Err` arm in the transfer test |
| `NoRetry`, `RetryAnswers`, `RetryFails` | `fallback_retry` |

### `SourceFetch`, `Collector`

`SourceFetch` is the loop of one source's download; `Downloads` of them are
under way at a time. URLs keep scheme and port, all a redirect is judged by.
`Collector` is the rest of `main`: pure steps over what was delivered
(`Deduped`, `Screened`, `Capped`, `Sample`, `Offered`, `AllCandidates` are
operators, each one passage of `main`), between them the transport test against
a network that answers each address and protocol as it likes, and the three
writes, each of which may fail. A configuration is its class under `dedup_key`
with a label for what the key ignores. Host, ports, SNI and ALPN of a handshake
are one value, so of the shared probe key it is the part about obfuscation that
`VerdictIsOwn` exercises.

### `LightPersist`, `UpdateRun`

`LightPersist` gives the three stores as functions from the stored state and a
run's observations to the state written back. `UpdateRun` drives them through
the workflow: `base` is the commit a run was dispatched on, `tree` its checkout,
`main` the branch. A run may fail or be cancelled before every step; a waiting
run is replaced by a later one; an ended run may be run again under its id.
`told`, `rowsAt` and `historyAt` are history variables kept in the tree: which
observations led to its files, so that the files can be compared with them.

| action | code |
|---|---|
| `Dispatch`, `Rerun`, `Begin` | `workflow_dispatch`, re-run, `concurrency` |
| `Collect` | the collector and the gates of the builder |
| `Rows`, `Model`, `History` | `persist_light_training_data`, `persist_light_result`, `persist_history` |
| `List`, `Label`, `Encode` | minimum to publish, header, `encode_subscriptions` |
| `Fetch`, `Push`, `Rejected` | the publishing loop |
| `Fail` | `set -e`, the caught status of the builder, cancellation, the job's timeout |
| `Others` | commits of others; they touch none of these files |

### `SourceRegistry`

The registry over the *runs of the workflow*. `published` is the registry on the
main branch, `commits` those of the commits that a run may still start from,
because it was dispatched on them and waits, or may be run again; `base` is the
registry of the run's checkout, `registry` the one the run has written, `active`
is `sources.txt`, `asked` the list the collector works on, `phase` what the run
has done. A run starts from any of `commits` or from main's (`Begin`) and its
registry replaces main's whatever main has become (`Publish`). A run that fails
or times out at any point publishes nothing (`Fail`): the workflow publishes in
its last step only, and `sources.txt` is not committed. The queue itself is in
`UpdateRun`; here it is enough that any commit main ever had may be kept
(`Dispatch`) or dropped (`Forget`).

| action | code |
|---|---|
| `Dispatch`, `Forget`, `Begin` | `workflow_dispatch` and re-run, the concurrency group, `actions/checkout` |
| `Discover` | `discover_and_write`: new and known candidates, selection, pruning |
| `DiscoverOffline` | its fallback to the registry when GitHub offers nothing |
| `Collect` | `record_collection_results`, after the collector has fetched |
| `ProbeTransport` | `record_transport_results`, with what `main` passes to it |
| `JudgeLight` | `record_light_results` |
| `Publish`, `Fail`, `Tick` | the workflow; time between two runs |

A record keeps each counter up to the threshold it is compared with, the yield of
the last run and the transport history as the classes the code distinguishes,
and its age in ticks up to the longer cooldown. Rankings (score, yield, age) are
any order: `Taken(S, n)` is any n of S. The GitHub search is any nonempty set of
sources found.

## 3. The runs

| run | configuration | properties | shows |
|---|---|---|---|
| `select_verified` | 6 configurations, limit 4, every ranking of all and of any five | `ReturnsSelection` | the walk returns a `Selections` set |
| `light_pipeline` | 5 configurations in 2 waves, limit 2, recheck limit 3, caps 1 and 2, budgets 4/3/2 | `TypeOK` `PassesFitTogether` `PublishesEveryStreamPass` `WaveNeverFillsGate` `BudgetsKept` `GatesExhausted` `VerdictsAreFinal` `FunnelPromise` `Termination` | caps, budgets, verdicts, exhaustion of the gates, the funnel; no wave fills the gate or ends discovery early |
| `transfer_workers` | workers 2..8, batches up to 24, 48 tests | `RecoversInStep` `BacksOff` | the controller recovers and backs off |
| `core_batches` | three calls: 8 candidates through a gate with at most one blocker and crasher; 4 candidates, three rounds, cores that fail at will, a budget of 4; Xray with two UDP endpoints | `InnocentsJudged` `EachAskedOnce` `CoreStartsBounded` `NoConflictStarted` `Termination` | halving gives every innocent candidate its verdict, once; core starts are bounded; no conflicting pair in one core |
| `core_crash` | the strict policy's six rounds and the real failure budget of 12, one crasher in 8 | `InnocentsJudged` | **violation**, see section 6 |
| `probe_policies` | the four policies of the code, every outcome of every probe | `VerdictIsPolicy` | early drops never change a verdict, and a verified candidate was probed in every round |
| `registry_life` | 2 sources, any number of runs, limits 5 and 3 as in the code, cooldowns 1 and 2 ticks | `RecoveringIsNotProven` `StreaksNeverGrow` | recovering is not proven; no streak counts |
| `registry_overlap` | 1 source, any number of runs, 1 commit beside main's that waiting or repeated runs may start from | `OnlyOldRunsRevive` | a source that disappointed stays out, unless a run on a checkout older than that publishes over it |
| `registry_slots` | 3 sources, 2 places in the registry and in the active list, 1 proven, 1 reserved for new ones | `PruningIsSafe` `SlotsShared` | neither new nor proven sources are displaced; pruning gets below the limit and spares what is active |
| `routing` | each scheme with all combinations of the features its tables look at, alone in a batch; mixed batches in every gate | `VerdictsAreJudged` `OutagesAreContained` `OneCoreVerifies` `ScreeningKeepsUsable` `EvidenceComparable` | router, parsers and filters agree up to the exceptions named in the properties; an outage is no verdict |
| `collector` | 2 sources, 10 candidates, cap 6, 4 Light candidates of which 2 per endpoint, 4 in `all.txt` | `SourcesAskedSafely` `VerdictIsOwn` `SourcesAreCredited` `ListsHoldTheBest` `FilesInOrder` `Ends` | downloads end and stay where they were listed; verdicts, counts and provenance are true; caps keep the best; files come in order |
| `update_run` | 3 dispatches or re-runs, 3 candidates, 3 rows, a history of 2, a retention that one tick exceeds, 2 push attempts, 2 commits of others | `MainTellsOneStory` `RunsCountOnce` `ListsArePublishable` `PushesKeep` `GroupIsFreed` | what `main` carries is one story, told once; lists agree with their encodings and the minimum; pushes take nothing away |

Type invariants: `light_pipeline` checks its own; those of `SelectVerified`,
`TransferWorkers` and `SourceRegistry` are proved. What the other modules'
variables hold is part of the inductive invariants of section 4.

Why the bounds are enough. In the builder every interesting coincidence needs
two candidates sharing an endpoint, two sharing a family with a candidate
outside it, one without an endpoint, a second wave, a second batch in each gate
and each budget smaller than the pool: the pool of five with the limits above is
the smallest that has all of them, and the budgets are below the pool on
purpose. The proofs cover all other sizes. In `core_batches` eight candidates
give four levels of halving; a culprit among eight costs at most 1 + 3 failures
on its path, two of them at most 1 + 2 * 3, so the failure budget of 8 is enough,
as the real 12 is for one culprit in the 800 of a full batch (at most
1 + 10 failures). Its second call has a budget of 4 so that it runs out.
`probe_policies` enumerates every combination of outcomes. In `routing` the
tables are pure, so every candidate is checked alone; batches of several matter
only for how answers are merged, and one candidate of each route is enough for
that. In `collector` four variants share an endpoint that takes two (Light) or
three (`all.txt`), spellings merge within and across sources, the cap of 6 cuts
several protocols, and both lists overflow; two redirects and two retries are
enough for the one to reset the other; two downloads at a time do not bind with
two sources, the limit itself is not checked. In `update_run` three dispatches are
the least in which a run works, one waits and one displaces it, and two are
enough for a checkout to be older than `main`; two candidates of one run, one
tested again by the next, and three rows under a cap of three make both caps
and both retentions bite; two attempts let a push be rejected, retried and given
up.
The registry's rules judge each source by its own record; two sources are
enough for a record to be selected or passed over beside another, three for a
proven, a known and a new source to compete for two places. These two runs start
every run of the workflow from main's registry (`MaxCommits` = 0) and use
symmetry, which is sound because they check invariants only. `registry_overlap` adds one older commit: two runs that
overlap, and any number of them one after the other. Two sources beside an older
commit have too many states for TLC; what an older registry says of a source
concerns that source alone, and the proofs are for any sources and commits.

`CHECK_DEADLOCK FALSE` appears where the modelled function returns: a returned
call has no next step. That the system does not stop anywhere else is what the
`Termination` properties of the runs say.

Fairness. Each program is a single task that awaits one batch at a time, and
each probe, resolution and readiness check has its own timeout, so a step that
stays possible is taken: `WF_vars(Next)`. No action is singled out; in
particular nothing assumes that candidates pass, that cores start, or that time
budgets do or do not run out. In `Collector` each download is fair by itself,
because the client gives every request 20 seconds and the tasks do not wait for
one another; the errors (`Fails`) are not part of it. In `UpdateRun` the job's
45 minutes end every step, and GitHub starts the waiting run of a free group;
failures, others' commits and the clock are left out, so `GroupIsFreed` holds
without anyone failing or helping.

## 4. What is proved

All proofs are for every value of the constants under the named assumptions,
which TLC evaluates in the runs.

* `SelectVerifiedProofs`. Invariant `WalkInv`: type, counters equal the
  cardinalities they count (`CountsAgree`), caps, and *everything skipped is
  blocked* (`SkippedAreBlocked`), which is preserved because a blocked candidate
  stays blocked while the result grows (`BlockedIsFinal`). From it:
  `WalkReturnsSelection`, `WalkIsAccountedFor`.
* `LightSelectionProofs`. The combinatorics the builder rests on: a pool that
  fits is its own only selection (`FittingPoolIsSelected`), and a diverse batch
  of candidates each admitted by the selection fits beside it as a whole
  (`BatchFitsBeside`), which is why one per endpoint and family matters.
* `LightPipelineProofs`. `TypeOK` alone is not inductive for the caps: a
  transfer batch keeps them only if the selection it was chosen against is
  *all* of `xferOk`, which holds because `xferOk` fits (`PassesAreSelected`).
  `IInv` therefore carries the chain of gate inclusions, the caps, the budgets
  and that a wave goes on only while the target is not met. All of the builder's
  checked properties but `Termination` follow, among them the refinement
  `BuilderKeepsPromise`, `WavesNeverFillGate` for any positive reserve margin
  (`BudgetsAssumption`; the code's is 8), and `GatesAreExhausted`:
  next to `IInv`, `GatesDone` says of each gate that was left without running out
  of time why it was, and shows that what it leaves untested is excluded by the
  caps, the limit or its budget, whatever the pool and the pass rates.
* `GateProofs`, about what a gate is made of:
  - *Workers.* `CtrlInv` ties workers and clean batches to the length of the
    current calm or limited streak (`WorkersRecover`, `WorkersBackOff`).
  - *Policy.* `VerdictsFollowPolicy`, for policies with any thresholds:
    `PolicyInv` says that the tallies are those of the outcomes counted so far,
    and that a candidate dropped early can no longer meet the policy, since no
    outcome of the rounds it was spared would have made up for those it lost.
    It assumes that the late streak is no longer than the strict policy has rounds.
  - *Routing.* `RoutingInv` says what each core was given and what it may answer;
    a case analysis of the tables of parsers and filters gives the five
    properties of `BackendRouting` for batches of any features
    (`RecordedVerdictsAreJudged`, `OutagesStayContained`, `NoneVerifiedTwice`,
    `ScreeningLosesNoOther`, `EvidenceStaysComparable`).
* `CoreBatchProofs`. `StartsAreBounded` (sing-box calls, which never split): invariant
  `StartsInv` balances cores started and batches pending against failures (each
  failure within the budget consumes one batch and adds two). `PlacesInv` says
  where each candidate of a call is: on the stack in one batch (`PlacesAreApart`),
  in the core's batch, which is free of conflicts (`BatchIsConflictFree`), or judged;
  a core exits only for a cause (`ExitsHaveCause`), and within the budget nobody
  is lost (`NoneIsLost`). The lemmas behind it are about pinning, splitting by
  endpoint and halving, which share a batch out without repeating a candidate.
  From it `NoConflictsStart`, `AskedAtMostOnce` and `InnocentsAreJudged`. The last has two
  conditions: the failure budget is not used up, and the core does not exit while
  the secondary targets are probed. They are what the claim in the source lacks
  (section 6); the run checks the claim without them where its budget suffices.

* `SourceRegistryProofs`. All properties of the registry. A record alone
  does not show why streaks stay short: `IInv` says of every record that it is
  `Settled` (no streak unless its probe history is poor), except for those just
  collected, which are `Reported`, and of every selected one that it is `Fresh`.
  Selection makes fresh from settled (`ChosenIsFresh`), collection reported from
  fresh, the probes settled from reported. Every registry that main ever had is
  one a run may start from (`Startable`), so that all of this holds whichever
  commit a run works on. `AdriftUntouched` carries the adrift records of the
  checkout through a run, which shows that a source main knows to be adrift is
  revived by a run on an older checkout or not at all (`RevivedByOldRunsOnly`). For the
  slots and the capacity, sizes of taken sets are added up
  (`ActiveUrlsAreListed`, `SelectedShares`, `PrunedFits`) under the assumption,
  true of the constants in the code, that the proven core and the new slots fit
  into the active list and the active list into the registry.

* `CollectorProofs`. The inductive invariant is `CollectInv`, one part for each step
  of the program:
  - `FetchInv`: requests fit in the series of attempts behind a download and the
    one under way (`Fitting`), and a URL that is not the listed one is HTTPS at its
    port or at 443 for 80 (`Staying`), which makes the second redirect as safe as
    the first (`SourcesStaySafe`).
  - `DiskInv`: which files are new at each step, and that the map's domain is the
    list about to be written (`FilesStayInOrder`).
  - `NamedInv`: a candidate is named by exactly the sources that deliver it, and the
    sample is the cap's choice of the named.
  - `TestInv`: what was tested has its own verdict although probes are shared. The
    probe key holds everything a verdict depends on (`VerdictsAreOwn`). For the
    handshakes of Hysteria this needs `HandshakeAssumption`: equal handshakes have
    equal endpoints, because host and port are part of the key.
  - `ListInv`: the counts and the lists are functions of the verdicts
    (`SourcesGetCredit`). The merge is shown to rank what it is offered and the
    caps to leave out only what a better one keeps out (`ListsHoldBest`); the
    number of candidates is finite and otherwise free.
* `UpdateRunProofs`. Two inductive invariants.
  - `IInv`: main is publishable, each run is `Sound` (its trees have a good list, hold
    each observation once, none of its own before it wrote them; at `push` it is at
    most as new as main; one that started `alone` knows all that main knows), and at
    most one run works. A run bears what the others do to main because only a
    working run depends on main's tip (`OneRunKeeps`, `PushKeeps`, `OthersKeeps`).
    From it `ListsStayPublishable`, `ObservationsCountOnce` and `CommitsAreKept`.
  - `StoryInv`: every tree, of main, of a checkout or of a run, is `Whole`. Its rows,
    its model and its history tell of the same observations: the rows hold
    all of them that are live, or the most recent ones up to the cap; the model has
    counted each; the history has the latest test of each candidate it remembers, and
    forgot one only when it was out of date or the history was full of later ones.
    Between the steps `rows`, `model` and `history` a run's tree is not whole, but the files
    still to be written tell of what was told `Earlier`. A re-run whose rows
    are empty leaves main's beside its own model (`ReappliedTells`): a rows file is empty
    only when nothing it tells of is live, so main's rows contradict nothing.
    From it `MainTellsOne`.

  Both rest on the assumption that a build tests finitely many candidates and
  each of them once, since `final_attempts` is a map.

Only model-checked, because this prover has no rule for it: liveness (`Termination` of
the builder and of the core batches, `Ends` of the collector, `GroupIsFreed` of the
workflow) and whatever needs `ENABLED`. Induction over data is out of its reach too;
no module defines anything by recursion, the loops of the code are either actions
or characterised by their result.
Every other property of a passing run has a theorem; `core_crash` shows a
violation, and its property is proved under the two conditions above.

## 5. Observations

Consequences of the code that the models make visible. None of them contradicts
a stated promise; they are recorded because a maintainer would want to know.

1. `strict_untested_additional_potential` is cut at the free slots while
   `transfer_reserve_target` is at least 8 above them, so the reserve is never
   ready: the mid-discovery transfer gate, the two breaks behind it and
   the "PUBLISH READY" break at the top of a wave are dead code, and discovery
   always runs all its waves (`WavesNeverFillGate`).
2. In `fill_transfer_gate` the eligible count is at most the remaining slots, so
   the pass-rate estimate of `adaptive_transfer_test_limit` never decides.
3. Transfer passes always fit together (`TransferPassesFit`), so the final
   selection drops nothing and its cap exclusion counts are always 0.
4. The stability pool's target `min(2 * limit, 450)` counts stable candidates
   that the transfer gate has already consumed.
5. The stability batch's Xray fallback asks for the full body, the first try
   for the 1 MiB minimum (`polish_light.rs:1020`).
6. Crashes while the secondary targets are probed are not noticed, and Xray is
   not watched at all: its candidates then fail their probes.
7. When the failure budget runs out at a core *start*, all pending batches are
   dropped, although the log line only speaks of stopping further splits.

8. A source that fails once, is empty once or is reached badly once is not tried
   again by a run that knows of it, and its streaks are never counted further
   (`StreaksNeverGrow`). Only a run on a checkout older than the failure tries it
   again, and its registry then hides the failure (`OnlyOldRunsRevive`). `main` reports transport results for every source of its
   list, with 0 of 0 for those that produced nothing (`main.rs` 572-577); from
   then on `active_urls` sees a history that is not acceptable, while
   `is_recoverable` only admits sources whose streak has reached the limit. The
   limits of five failures, three empty runs and three bad transport runs are
   never reached by counting (only a 404 or 410 sets the streak to its limit), and
   a retired source that comes back empty is lost as well. In the committed
   `subscriptions/source-registry.json` 930 of 1696 sources are in this state
   and the last run collected 119. Its rows with higher streaks were last
   checked 20 or more hours before; every row checked since has a streak of at
   most one, which is all a registry can get that starts empty, as the model's
   does.
9. The quality quarantine only keeps sources out of the proven core; `active_urls`
   does not look at it, and since its cooldown starts with `last_checked` every
   further collection restarts it.

10. Routing: `light_backend` compares transport and security as bare words. A
    gRPC link whose `type` or `security` is written as a list or with spaces
    hides its authority from the router, and VMess ciphers and packet encodings
    that sing-box does not know are not looked at: such candidates go to
    sing-box alone, which rejects them, and Xray, which could run them, is never
    asked (`Overlooked`). `check_proxies` has Xray try the HTTP transport, which
    only sing-box still has.
11. Screening: the cheap filter drops VMess with TLS "none", or "reality" over a
    transport without it, and Trojan with a flow the parser would ignore, all of
    which the parsers accept (`ScreeningKeepsUsable`). Hysteria v1 is carried
    past the cap as a special candidate and always dropped by the consumer filter.
12. The health vote never removes a target in Light: for two targets the minimum
    is both, and sing-box asks for `MIN_SUCCESSFUL_TARGETS` = 2 of one
    (`EvidenceComparable`). `throughput_bytes_for_target` never
    reaches its 1 MiB branch, since the stability targets are throughput targets
    too; hence the full body of observation 5.
13. Collector: the fill pass (`main.rs` 656) offers sampled candidates again, so
    one may be listed twice and take the second place of its endpoint. `hy2` and
    `hysteria2`, and the spellings of `socks`, are protocols of their own for the
    cap. Obfuscated hysteria is counted as tested and never as reachable. The
    deferred pass of `select_all_candidates` adds nothing. If only candidates for
    the cores remain, `all.txt` is empty, and `test -s` then fails the update.
14. A run that overlapped another (it waited, or was run again) publishes model,
    history, rows and source registry built on the checkout of its dispatch: what `main` learned in
    between is replaced (`PushesKeep` promises the opposite only of runs that did
    not overlap). If its own rows are empty, main's rows stay beside the replaced
    model and history. Only the rows have identifiers; that the model and the
    history do not count a re-run twice is due to the checkout (`RunsCountOnce`).
15. A `light.txt` that is kept gets one more metadata header from every run.
    Nothing promises otherwise; the encoded list has the same headers
    (`ListsArePublishable`).
16. Any error of the Light builder, and "no Light candidates available", fail the
    whole update: `all.txt` is then not published either.
17. `sort_ranked` puts a lower historical pass rate first (`polish_light.rs` 665).
18. A stored training line that is not UTF-8 makes `persist_at` fail, while
    `docs/light-ml-training.md` has malformed rows ignored; the model's rows are
    records, so no run shows it.

## 6. Finding

`core_crash`: the comment in `singbox.rs` (1486-1487) says a core crash is a
backend failure and the batch is split "so one bad config cannot poison
unrelated candidates". The `continue` that should return to the stack of batches
belongs to the loop over the rounds. Every remaining round of the dead batch
counts the same crash again and queues both halves again. With six rounds two
crashes use up the budget of twelve, no batch is halved any more, and a
candidate that shares its batch with the crashing one never gets a verdict.

## 7. Plan

Modelled since the first version: `ConfigSupport` and `BackendRouting`,
`SourceFetch` and `Collector`, `LightPersist` and `UpdateRun`. Left, in order:

1. An abstract lifecycle of a source (new, known, proven, adrift, retired) that
   `SourceRegistry` implements, with the refinement proved.
2. The search of `source_discovery.rs` (pages, rate limits, extraction of URLs),
   which `SourceRegistry` leaves open as any set of sources found.
3. The composition of `BackendRouting` with `LightPipeline`: a transfer batch
   refined to the routed one.

Not modelled: the HTTP exchanges of probes, the packets of the transport probes,
DNS and address checks, decoding of links and the JSON of the cores, Base64, the
score and the anomaly statistics of `intelligence.rs` (rankings are any order),
progress output, and the workflow's caches, tool installation and summary. They
are data or input/output without an order that a property could be about.

## 8. Running

    tlc -workers 2 -config LightPipeline.cfg MCLightPipeline.tla
    tlapm LightPipelineProofs.tla

`PROJECT.json` lists every run with its module and configuration, the code
lines behind each definition, a mutant of the model that each property
detects, the hazards and the theorems.
