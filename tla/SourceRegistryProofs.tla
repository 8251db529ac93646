------------------------ MODULE SourceRegistryProofs ------------------------
(***************************************************************************)
(* The invariants of SourceRegistry, for every set of sources and every    *)
(* value of the limits.                                                    *)
(***************************************************************************)
EXTENDS SourceRegistry, FiniteSetTheorems, TLAPS

-----------------------------------------------------------------------------
\* Sizes

\* Every set of sources has a size.
LEMMA SourcesAreCounted ==
  ASSUME NEW S \in SUBSET Sources
  PROVE  IsFiniteSet(S) /\ Cardinality(S) \in Nat
BY LimitsAssumption, FS_Subset, FS_CardinalityType

\* Joining two sets of sources adds at most their sizes.
LEMMA JoinIsBounded ==
  ASSUME NEW S \in SUBSET Sources, NEW T \in SUBSET Sources,
         NEW m \in Nat, NEW n \in Nat, Cardinality(S) <= m, Cardinality(T) <= n
  PROVE  Cardinality(S \cup T) <= m + n
<1>1. /\ IsFiniteSet(S) /\ IsFiniteSet(T)
      /\ Cardinality(S) \in Nat /\ Cardinality(T) \in Nat
      /\ Cardinality(S \cap T) \in Nat
  BY SourcesAreCounted
<1>2. Cardinality(S \cup T)
        = Cardinality(S) + Cardinality(T) - Cardinality(S \cap T)
  BY <1>1, FS_Union
<1>3. QED
  BY <1>1, <1>2

\* Taking at most n leaves a part of at most n.
LEMMA TakenIsPart ==
  ASSUME NEW S \in SUBSET Sources, NEW n \in Nat, NEW T \in Taken(S, n)
  PROVE  T \in SUBSET S /\ Cardinality(T) \in Nat /\ Cardinality(T) <= n
<1>1. T \in SUBSET S /\ Cardinality(T) = Least(n, Cardinality(S))
  BY DEF Taken
<1>2. Cardinality(S) \in Nat
  BY SourcesAreCounted
<1>3. QED
  BY <1>1, <1>2 DEF Least

\* The same when some are taken before the others.
LEMMA PreferringIsPart ==
  ASSUME NEW A, NEW S \in SUBSET Sources, NEW n \in Nat,
         NEW T \in Preferring(A, S, n)
  PROVE  T \in SUBSET S /\ Cardinality(T) <= n
<1>1. PICK first \in Taken(A \cap S, n) :
        \E rest \in Taken(S \ A, Monus(n, Cardinality(first))) : T = first \cup rest
  BY DEF Preferring
<1>2. PICK rest \in Taken(S \ A, Monus(n, Cardinality(first))) : T = first \cup rest
  BY <1>1
<1>3. /\ first \in SUBSET (A \cap S)
      /\ Cardinality(first) \in Nat /\ Cardinality(first) <= n
  BY TakenIsPart
<1>4. /\ Monus(n, Cardinality(first)) \in Nat
      /\ Cardinality(first) + Monus(n, Cardinality(first)) = n
  BY <1>3 DEF Monus
<1>5. /\ rest \in SUBSET (S \ A)
      /\ Cardinality(rest) <= Monus(n, Cardinality(first))
  BY <1>4, TakenIsPart
<1>6. Cardinality(first \cup rest) <= Cardinality(first) + Monus(n, Cardinality(first))
  BY <1>3, <1>4, <1>5, JoinIsBounded
<1>7. QED
  BY <1>2, <1>3, <1>4, <1>5, <1>6

\* active_urls keeps its limit and the excluded sources out, and takes only
\* sources that are proven or in the pool.
LEMMA ActiveUrlsAreListed ==
  ASSUME NEW records, DOMAIN records \in SUBSET Sources, NEW limit \in Nat,
         NEW excluded, NEW recoverable,
         NEW urls \in ActiveUrls(records, limit, excluded, recoverable)
  PROVE  /\ urls \in SUBSET DOMAIN records
         /\ Cardinality(urls) <= limit
         /\ \A s \in urls : \/ IsProven(records[s], s \in recoverable)
                            \/ InPool(records[s], s \in recoverable)
<1> DEFINE pool(core) == {s \in (DOMAIN records \ excluded) \ core :
                            InPool(records[s], s \in recoverable)}
           unchecked(core) == {s \in pool(core) : ~records[s].checked}
           room(core)  == Monus(limit, Cardinality(core))
           share(core) == Least(Least(MaxUnchecked, room(core)),
                                Cardinality(unchecked(core)))
           others(core) == room(core) - share(core)
<1>1. PICK core \in Taken(Proven(records, excluded, recoverable),
                          Least(limit, MaxProven)) :
        \E known \in Taken(pool(core) \ unchecked(core), others(core)),
           more \in Taken(unchecked(core), share(core)) :
          urls = core \cup known \cup more
  BY DEF ActiveUrls
<1>2. PICK known \in Taken(pool(core) \ unchecked(core), others(core)),
           more \in Taken(unchecked(core), share(core)) :
        urls = core \cup known \cup more
  BY <1>1
<1>3. /\ Least(limit, MaxProven) \in Nat
      /\ Least(limit, MaxProven) <= limit
  BY LimitsAssumption DEF Least
<1>4. Proven(records, excluded, recoverable) \in SUBSET DOMAIN records
  BY DEF Proven
<1>5. /\ core \in SUBSET Proven(records, excluded, recoverable)
      /\ Cardinality(core) \in Nat /\ Cardinality(core) <= Least(limit, MaxProven)
  BY <1>3, <1>4, TakenIsPart
<1>6. /\ unchecked(core) \in SUBSET pool(core)
      /\ pool(core) \in SUBSET DOMAIN records
  OBVIOUS
<1>7. Cardinality(unchecked(core)) \in Nat
  BY <1>6, SourcesAreCounted
<1>8. /\ room(core) \in Nat /\ share(core) \in Nat /\ others(core) \in Nat
      /\ Cardinality(core) + others(core) + share(core) = limit
  <2> HIDE DEF unchecked
  <2> QED BY <1>3, <1>5, <1>7, LimitsAssumption DEF Monus, Least
<1> HIDE DEF pool, unchecked, room, share, others
<1>9. /\ known \in SUBSET (pool(core) \ unchecked(core))
      /\ Cardinality(known) <= others(core)
  BY <1>6, <1>8, TakenIsPart
<1>10. more \in SUBSET unchecked(core) /\ Cardinality(more) <= share(core)
  BY <1>6, <1>8, TakenIsPart
<1>11. Cardinality(core \cup known) <= Cardinality(core) + others(core)
  <2>1. core \in SUBSET Sources /\ known \in SUBSET Sources
    BY <1>4, <1>5, <1>6, <1>9
  <2>2. /\ Cardinality(core) \in Nat /\ Cardinality(core) <= Cardinality(core)
        /\ others(core) \in Nat /\ Cardinality(known) <= others(core)
    BY <1>5, <1>8, <1>9
  <2>3. QED
    BY <2>1, <2>2, JoinIsBounded
<1>12. Cardinality((core \cup known) \cup more) <= limit
  <2>1. /\ (core \cup known) \in SUBSET Sources /\ more \in SUBSET Sources
        /\ Cardinality(core) + others(core) \in Nat
    BY <1>4, <1>5, <1>6, <1>8, <1>9, <1>10
  <2>2. Cardinality((core \cup known) \cup more)
          <= (Cardinality(core) + others(core)) + share(core)
    BY <1>8, <1>10, <1>11, <2>1, JoinIsBounded
  <2>3. QED
    BY <1>8, <2>2
<1>13. \A s \in urls : \/ IsProven(records[s], s \in recoverable)
                       \/ InPool(records[s], s \in recoverable)
  BY <1>2, <1>5, <1>9, <1>10 DEF pool, unchecked, Proven
<1>14. QED
  BY <1>2, <1>4, <1>5, <1>6, <1>9, <1>10, <1>12, <1>13

\* The ways into the list of active sources for a record.
Chosen(r) == Recoverable(r) \/ IsProven(r, FALSE) \/ InPool(r, FALSE)

\* select_active_sources keeps its limit, and what it selects is new or chosen.
LEMMA SelectedSources ==
  ASSUME NEW records, DOMAIN records \in SUBSET Sources,
         NEW new \in SUBSET DOMAIN records, NEW known,
         NEW ordered \in SelectActive(records, new, known)
  PROVE  /\ ordered \in SUBSET DOMAIN records
         /\ Cardinality(ordered) <= MaxActive
         /\ \A s \in ordered : s \in new \/ Chosen(records[s])
<1> DEFINE recoverable == {s \in known : Recoverable(records[s])}
           limit(fresh) == Monus(MaxActive, Cardinality(fresh))
           places(urls) == Monus(MaxActive, Cardinality(urls))
<1>1. PICK fresh \in Taken(new, NewLimit(records)) :
        \E urls \in ActiveUrls(records, limit(fresh), fresh, recoverable) :
          \E more \in Taken(fresh, places(urls)) : ordered = urls \cup more
  BY DEF SelectActive
<1>2. PICK urls \in ActiveUrls(records, limit(fresh), fresh, recoverable) :
        \E more \in Taken(fresh, places(urls)) : ordered = urls \cup more
  BY <1>1
<1>3. PICK more \in Taken(fresh, places(urls)) : ordered = urls \cup more
  BY <1>2
<1>4. NewLimit(records) \in Nat
  BY LimitsAssumption DEF NewLimit
<1>5. fresh \in SUBSET new /\ Cardinality(fresh) \in Nat
  BY <1>4, TakenIsPart
<1>6. limit(fresh) \in Nat /\ limit(fresh) <= MaxActive
  BY <1>5, LimitsAssumption DEF Monus
<1>7. /\ urls \in SUBSET DOMAIN records
      /\ Cardinality(urls) <= limit(fresh)
      /\ \A s \in urls : \/ IsProven(records[s], s \in recoverable)
                         \/ InPool(records[s], s \in recoverable)
  <2> HIDE DEF limit, recoverable
  <2> QED BY <1>6, ActiveUrlsAreListed
<1>8. Cardinality(urls) \in Nat
  BY <1>7, SourcesAreCounted
<1>9. places(urls) \in Nat /\ Cardinality(urls) + places(urls) = MaxActive
  BY <1>6, <1>7, <1>8, LimitsAssumption DEF Monus
<1>10. more \in SUBSET fresh /\ Cardinality(more) <= places(urls)
  <2> HIDE DEF places
  <2> QED BY <1>5, <1>9, TakenIsPart
<1>11. Cardinality(urls \cup more) <= Cardinality(urls) + places(urls)
  <2> HIDE DEF places
  <2> QED BY <1>5, <1>7, <1>8, <1>9, <1>10, JoinIsBounded
<1>12. ASSUME NEW s \in urls PROVE Chosen(records[s])
  <2>1. CASE s \in recoverable
    BY <2>1 DEF Chosen
  <2>2. CASE s \notin recoverable
    <3>1. (s \in recoverable) = FALSE
      BY <2>2
    <3> HIDE DEF recoverable
    <3>2. QED
      BY <1>7, <3>1 DEF Chosen
  <2>3. QED
    BY <2>1, <2>2
<1>13. QED
  BY <1>3, <1>5, <1>7, <1>9, <1>10, <1>11, <1>12

\* prune leaves at most MaxRegistry sources, the protected ones among them.
LEMMA PrunedFits ==
  ASSUME NEW listed \in SUBSET Sources, NEW protected \in SUBSET listed, NEW fresh,
         Cardinality(protected) <= MaxRegistry,
         NEW kept \in Pruned(listed, protected, fresh)
  PROVE  /\ protected \in SUBSET kept /\ kept \in SUBSET listed
         /\ Cardinality(kept) <= MaxRegistry
<1>1. CASE Cardinality(listed) <= MaxRegistry
  BY <1>1 DEF Pruned
<1>2. CASE ~(Cardinality(listed) <= MaxRegistry)
  <2> DEFINE room == Monus(MaxRegistry, Cardinality(protected))
  <2>1. PICK rest \in Preferring(fresh, listed \ protected, room) :
          kept = protected \cup rest
    BY <1>2 DEF Pruned
  <2>2. Cardinality(protected) \in Nat
    BY SourcesAreCounted
  <2>3. room \in Nat /\ Cardinality(protected) + room = MaxRegistry
    BY <2>2, LimitsAssumption DEF Monus
  <2> HIDE DEF room
  <2>4. rest \in SUBSET (listed \ protected) /\ Cardinality(rest) <= room
    BY <2>3, PreferringIsPart
  <2>5. Cardinality(protected \cup rest) <= Cardinality(protected) + room
    BY <2>2, <2>3, <2>4, JoinIsBounded
  <2>6. QED
    BY <2>1, <2>3, <2>4, <2>5
<1>3. QED
  BY <1>1, <1>2

-----------------------------------------------------------------------------
\* Records

\* What holds of a record at any time: a streak that is not over comes with a
\* last run that brought nothing.
Counted(r) ==
  /\ r.failures \in {0, 1, MaxFailures}
  /\ r.empties <= 1 /\ r.lowTransport <= 1
  /\ r.failures > 0 => r.empties = 0
  /\ r.failures > 0 \/ r.empties > 0 => r.yield = "none" /\ r.lowTransport = 0

\* A record the current run has not touched, or has probed already: whoever has
\* not been found wanting has no streak.
Settled(r) ==
  /\ Counted(r)
  /\ r.transport # "thin" => r.failures = 0 /\ r.empties = 0 /\ r.lowTransport = 0

\* A record that has been collected and not probed yet.
Reported(r) == Counted(r) /\ r.lowTransport = 0

\* A record that may be collected.
Fresh(r) == r.failures \in {0, MaxFailures} /\ r.empties = 0 /\ r.lowTransport = 0

\* Counters stay within their thresholds and start with one.
LEMMA CountIsBounded ==
  ASSUME NEW m \in Nat, NEW n \in 0..m
  PROVE  /\ Count(n, m) \in 0..m
         /\ n = m => Count(n, m) = m
         /\ n = 0 => Count(n, m) <= 1
         /\ n = 0 /\ m > 0 => Count(n, m) = 1
BY DEF Count, Least

\* What is selected is fresh.
LEMMA ChosenIsFresh ==
  ASSUME NEW r \in Record, Settled(r), Chosen(r)
  PROVE  Fresh(r)
<1>1. CASE Recoverable(r)
  <2>1. r.failures >= MaxFailures
    BY <1>1, LimitsAssumption DEF Recoverable, Retired, Settled, Counted, Record
  <2>2. r.failures = MaxFailures /\ r.failures > 0
    BY <2>1, LimitsAssumption DEF Settled, Counted
  <2>3. QED
    BY <2>2 DEF Settled, Counted, Fresh
<1>2. CASE IsProven(r, FALSE)
  BY <1>2 DEF IsProven, Settled, Fresh
<1>3. CASE InPool(r, FALSE)
  BY <1>3 DEF InPool, Acceptable, Settled, Fresh
<1>4. QED
  BY <1>1, <1>2, <1>3 DEF Chosen

\* What is adrift is not selected.
LEMMA AdriftIsNotChosen ==
  ASSUME NEW r, Adrift(r)
  PROVE  ~Chosen(r)
BY DEF Adrift, Chosen, Recoverable, IsProven, InPool, Acceptable

\* A new record is well formed, fresh and settled.
LEMMA NewRecordIsSettled == NewRecord \in Record /\ Fresh(NewRecord) /\ Settled(NewRecord)
BY LimitsAssumption DEF NewRecord, Record, Yields, Histories, Fresh, Settled, Counted

\* Collecting a fresh record reports on it.
LEMMA CollectedIsReported ==
  ASSUME NEW r \in Record, NEW outcome \in Outcomes
  PROVE  /\ Collected(r, outcome) \in Record
         /\ Fresh(r) => Reported(Collected(r, outcome))
<1> DEFINE s == Collected(r, outcome)
<1>a. /\ r.successes \in 0..MinRuns /\ r.failures \in 0..MaxFailures
      /\ r.empties \in 0..MaxEmpty
      /\ MinRuns \in Nat /\ MaxFailures \in Nat /\ MaxEmpty \in Nat
      /\ MaxFailures > 1 /\ MaxEmpty > 1
  BY LimitsAssumption DEF Record
<1>b. /\ 0 \in 0..QualityCooldown /\ 0 \in 0..MaxFailures /\ 0 \in 0..MaxEmpty
      /\ MaxFailures \in 0..MaxFailures
      /\ "none" \in Yields /\ "few" \in Yields /\ "many" \in Yields
  BY LimitsAssumption DEF Yields
<1>1. /\ Count(r.successes, MinRuns) \in 0..MinRuns
      /\ Count(r.failures, MaxFailures) \in 0..MaxFailures
      /\ Count(r.empties, MaxEmpty) \in 0..MaxEmpty
      /\ r.failures = MaxFailures => Count(r.failures, MaxFailures) = MaxFailures
      /\ r.failures = 0 => Count(r.failures, MaxFailures) = 1
      /\ r.empties = 0 => Count(r.empties, MaxEmpty) = 1
  <2>1. Count(r.successes, MinRuns) \in 0..MinRuns
    BY <1>a, CountIsBounded
  <2>2. /\ Count(r.failures, MaxFailures) \in 0..MaxFailures
        /\ r.failures = MaxFailures => Count(r.failures, MaxFailures) = MaxFailures
        /\ r.failures = 0 => Count(r.failures, MaxFailures) = 1
    BY <1>a, CountIsBounded
  <2>3. /\ Count(r.empties, MaxEmpty) \in 0..MaxEmpty
        /\ r.empties = 0 => Count(r.empties, MaxEmpty) = 1
    BY <1>a, CountIsBounded
  <2>4. QED
    BY <2>1, <2>2, <2>3
<1>2. CASE outcome \in {"many", "few"}
  <2>1. s = [r EXCEPT !.checked = TRUE, !.age = 0, !.yield = outcome,
                      !.successes = Count(r.successes, MinRuns),
                      !.failures = 0, !.empties = 0, !.permanent = FALSE]
    BY <1>2 DEF Collected, Record
  <2>a. outcome \in Yields
    BY <1>2, <1>b
  <2>2. s \in Record
    BY <1>1, <1>b, <2>1, <2>a, Zenon DEF Record
  <2>3. s.failures = 0 /\ s.empties = 0 /\ s.lowTransport = r.lowTransport
    BY <2>1 DEF Record
  <2>4. QED
    BY <2>2, <2>3 DEF Fresh, Reported, Counted
<1>3. CASE outcome = "empty"
  <2>1. s = [r EXCEPT !.checked = TRUE, !.age = 0, !.yield = "none",
                      !.failures = 0, !.empties = Count(r.empties, MaxEmpty)]
    BY <1>3 DEF Collected, Record
  <2>2. s \in Record
    BY <1>1, <1>b, <2>1, Zenon DEF Record
  <2>3. /\ s.failures = 0 /\ s.empties = Count(r.empties, MaxEmpty)
        /\ s.yield = "none" /\ s.lowTransport = r.lowTransport
    BY <2>1 DEF Record
  <2>4. QED
    BY <1>1, <1>a, <2>2, <2>3 DEF Fresh, Reported, Counted
<1>4. CASE outcome = "failed"
  <2>1. s = [r EXCEPT !.checked = TRUE, !.age = 0, !.yield = "none",
                      !.failures = Count(r.failures, MaxFailures), !.empties = 0]
    BY <1>4 DEF Collected, Record
  <2>2. s \in Record
    BY <1>1, <1>b, <2>1, Zenon DEF Record
  <2>3. /\ s.failures = Count(r.failures, MaxFailures) /\ s.empties = 0
        /\ s.yield = "none" /\ s.lowTransport = r.lowTransport
    BY <2>1 DEF Record
  <2>4. QED
    BY <1>1, <1>a, <2>2, <2>3 DEF Fresh, Reported, Counted
<1>5. CASE outcome = "gone"
  <2>1. s = [r EXCEPT !.checked = TRUE, !.age = 0, !.yield = "none",
                      !.failures = MaxFailures, !.empties = 0, !.permanent = TRUE]
    BY <1>5 DEF Collected, Record
  <2>2. s \in Record
    BY <1>1, <1>b, <2>1, Zenon DEF Record
  <2>3. /\ s.failures = MaxFailures /\ s.empties = 0
        /\ s.yield = "none" /\ s.lowTransport = r.lowTransport
    BY <2>1 DEF Record
  <2>4. QED
    BY <1>1, <1>a, <2>2, <2>3 DEF Fresh, Reported, Counted
<1>6. QED
  BY <1>2, <1>3, <1>4, <1>5 DEF Outcomes

\* Probing a reported record settles it.
LEMMA ProbedIsSettled ==
  ASSUME NEW r \in Record, NEW verdict \in Verdicts(r.yield)
  PROVE  /\ Probed(r, verdict) \in Record
         /\ Reported(r) => Settled(Probed(r, verdict))
<1>1. /\ Count(r.lowTransport, MaxLow) \in 0..MaxLow
      /\ r.lowTransport = 0 => Count(r.lowTransport, MaxLow) <= 1
  BY CountIsBounded, LimitsAssumption DEF Record
<1>2. /\ verdict \in {"low", "thin", "fair", "good"}
      /\ r.yield = "none" => verdict = "thin"
  BY DEF Verdicts, Record, Yields
<1>3. CASE verdict = "low"
  <2>1. Probed(r, verdict) = [r EXCEPT !.transport = "thin",
                                       !.lowTransport = Count(r.lowTransport, MaxLow)]
    BY <1>3 DEF Probed, Record
  <2>2. QED
    BY <1>1, <1>2, <1>3, <2>1, LimitsAssumption
       DEF Record, Yields, Histories, Reported, Settled, Counted
<1>4. CASE verdict # "low"
  <2>1. Probed(r, verdict) = [r EXCEPT !.transport = verdict, !.lowTransport = 0]
    BY <1>4 DEF Probed, Record
  <2>2. verdict \in Histories /\ 0 \in 0..MaxLow
    BY <1>2, <1>4, LimitsAssumption DEF Histories
  <2>3. Probed(r, verdict) \in Record
    BY <2>1, <2>2, Zenon DEF Record
  <2>4. Reported(r) => Settled(Probed(r, verdict))
    BY <1>2, <1>4, <2>1 DEF Record, Reported, Settled, Counted
  <2>5. QED
    BY <2>3, <2>4
<1>5. QED
  BY <1>3, <1>4

\* The Light builder's verdicts do not touch what settles a record.
LEMMA JudgedStaysSettled ==
  ASSUME NEW r \in Record, NEW lowStrict \in BOOLEAN, NEW lowTransfer \in BOOLEAN
  PROVE  /\ Judged(r, lowStrict, lowTransfer) \in Record
         /\ Settled(r) => Settled(Judged(r, lowStrict, lowTransfer))
<1> DEFINE strict   == IF lowStrict THEN Count(r.lowStrict, MaxLow) ELSE 0
           transfer == IF lowTransfer THEN Count(r.lowTransfer, MaxLow) ELSE 0
<1>1. strict \in 0..MaxLow /\ transfer \in 0..MaxLow
  BY CountIsBounded, LimitsAssumption DEF Record
<1>2. Judged(r, lowStrict, lowTransfer)
        = [r EXCEPT !.lowStrict = strict, !.lowTransfer = transfer]
  BY DEF Judged, Record
<1> HIDE DEF strict, transfer
<1>3. QED
  BY <1>1, <1>2, LimitsAssumption DEF Record, Settled, Counted

\* Nor does time.
LEMMA AgedStaysSettled ==
  ASSUME NEW r \in Record, NEW age \in 0..QualityCooldown
  PROVE  /\ [r EXCEPT !.age = age] \in Record
         /\ Settled(r) => Settled([r EXCEPT !.age = age])
         /\ Adrift(r) => Adrift([r EXCEPT !.age = age])
BY DEF Record, Settled, Counted, Adrift, Retired

-----------------------------------------------------------------------------
\* The invariant

\* What a run may start from: every registry that main ever had.
Startable(records) ==
  /\ IsRegistry(records)
  /\ Cardinality(DOMAIN records) <= MaxRegistry
  /\ \A s \in DOMAIN records : Settled(records[s])

BranchStartable == \A records \in commits \cup {published, base} : Startable(records)

\* A run starts from its checkout, and collects once.
RunsFromCheckout ==
  /\ phase = "idle" => base = published
  /\ phase \in {"idle", "started"} => registry = base /\ active = {}
  /\ phase \in {"idle", "started", "discovered"} => asked = {}

RecordsSettled ==
  /\ \A s \in DOMAIN registry :
       IF phase = "collected" /\ s \in asked THEN Reported(registry[s])
       ELSE Settled(registry[s])
  /\ phase = "discovered" => \A s \in active : Fresh(registry[s])

\* A run leaves alone what is adrift in its checkout.
AdriftUntouched ==
  \A s \in DOMAIN base \cap DOMAIN registry :
    Adrift(base[s]) => registry[s] = base[s] /\ s \notin active \cup asked

IInv ==
  /\ TypeOK /\ ActiveRegistered /\ RegistryBounded
  /\ BranchStartable /\ RunsFromCheckout /\ RecordsSettled /\ AdriftUntouched

\* It holds of an empty registry.
LEMMA InitEstablishes == Init => IInv
<1> SUFFICES ASSUME Init PROVE IInv
  OBVIOUS
<1>1. /\ phase = "idle" /\ base = published /\ registry = published
      /\ active = {} /\ asked = {} /\ commits = {} /\ DOMAIN published = {}
  BY DEF Init
<1>2. IsRegistry(published)
  BY <1>1 DEF IsRegistry, Init
<1>3. Cardinality(DOMAIN published) <= MaxRegistry
  BY <1>1, FS_EmptySet, LimitsAssumption
<1>4. Startable(published)
  BY <1>1, <1>2, <1>3 DEF Startable
<1>5. QED
  BY <1>1, <1>2, <1>3, <1>4
     DEF IInv, TypeOK, Phases, ActiveRegistered, RegistryBounded, BranchStartable,
         RunsFromCheckout, RecordsSettled, AdriftUntouched

\* A commit is kept or forgotten beside the run.
LEMMA KeepingPreserves ==
  ASSUME IInv, Dispatch \/ Forget
  PROVE  IInv'
<1>1. /\ commits' \in SUBSET (commits \cup {published})
      /\ UNCHANGED <<phase, published, base, registry, active, asked>>
  BY DEF Dispatch, Forget
<1>2. BranchStartable'
  BY <1>1 DEF IInv, BranchStartable
<1>3. TypeOK'
  BY <1>1, <1>2 DEF IInv, TypeOK, BranchStartable, Startable
<1>4. QED
  BY <1>1, <1>2, <1>3
     DEF IInv, ActiveRegistered, RegistryBounded, RunsFromCheckout, RecordsSettled,
         AdriftUntouched

\* A run may start on any of them.
LEMMA BeginPreserves ==
  ASSUME IInv, Begin
  PROVE  IInv'
<1>1. /\ phase = "idle" /\ phase' = "started"
      /\ base' \in commits \cup {published} /\ registry' = base'
      /\ published' = published /\ commits' = commits
      /\ active' = active /\ asked' = asked
  BY DEF Begin, branchVars
<1>2. Startable(base')
  BY <1>1 DEF IInv, BranchStartable
<1>3. active = {} /\ asked = {}
  BY <1>1 DEF IInv, RunsFromCheckout
<1>4. TypeOK' /\ BranchStartable'
  BY <1>1, <1>2 DEF IInv, TypeOK, Phases, BranchStartable, Startable
<1>5. QED
  BY <1>1, <1>2, <1>3, <1>4
     DEF IInv, ActiveRegistered, RegistryBounded, RunsFromCheckout, RecordsSettled,
         AdriftUntouched, Startable

\* Discovery adds new records and prunes old ones; what it selects is fresh.
LEMMA DiscoverPreserves ==
  ASSUME IInv, Discover
  PROVE  IInv'
<1>1. PICK found \in (SUBSET Sources) \ {{}} :
        \E new \in SUBSET (found \ DOMAIN registry),
           known \in Preferring({s \in DOMAIN registry : Recoverable(registry[s])},
                                found \cap DOMAIN registry, MaxRefresh) :
          \E ordered \in SelectActive(WithNew(new), new, known) \ {{}} :
            /\ active' = ordered
            /\ \E kept \in Pruned(DOMAIN WithNew(new), ordered,
                                  new \cup {s \in known : Refreshed(registry[s])}) :
                 registry' = [s \in kept |-> WithNew(new)[s]]
  BY Zenon DEF Discover
<1>2. PICK new \in SUBSET (found \ DOMAIN registry),
           known \in Preferring({s \in DOMAIN registry : Recoverable(registry[s])},
                                found \cap DOMAIN registry, MaxRefresh) :
          \E ordered \in SelectActive(WithNew(new), new, known) \ {{}} :
            /\ active' = ordered
            /\ \E kept \in Pruned(DOMAIN WithNew(new), ordered,
                                  new \cup {s \in known : Refreshed(registry[s])}) :
                 registry' = [s \in kept |-> WithNew(new)[s]]
  BY <1>1
<1> DEFINE records == WithNew(new)
           fresh   == new \cup {s \in known : Refreshed(registry[s])}
<1>3. PICK kept \in Pruned(DOMAIN records, active', fresh) :
        registry' = [s \in kept |-> records[s]]
  BY <1>2
<1>4. active' \in SelectActive(records, new, known)
  BY <1>2
<1>5. /\ phase = "started" /\ phase' = "discovered" /\ asked' = asked
      /\ published' = published /\ commits' = commits /\ base' = base
  BY DEF Discover, branchVars
<1>6. /\ IsRegistry(registry)
      /\ registry = base /\ asked = {}
      /\ \A s \in DOMAIN registry : registry[s] \in Record /\ Settled(registry[s])
  BY <1>5 DEF IInv, TypeOK, IsRegistry, RunsFromCheckout, RecordsSettled
<1>7. /\ DOMAIN records = DOMAIN registry \cup new
      /\ DOMAIN records \in SUBSET Sources /\ new \in SUBSET DOMAIN records
      /\ \A s \in DOMAIN registry : records[s] = registry[s]
      /\ \A s \in new : records[s] = NewRecord
  BY <1>6 DEF WithNew, IsRegistry
<1>8. \A s \in DOMAIN records : records[s] \in Record /\ Settled(records[s])
  BY <1>6, <1>7, NewRecordIsSettled
<1> HIDE DEF records, fresh
<1>9. /\ active' \in SUBSET DOMAIN records
      /\ Cardinality(active') <= MaxActive
      /\ \A s \in active' : s \in new \/ Chosen(records[s])
  BY <1>4, <1>7, SelectedSources
<1>10. Cardinality(active') <= MaxRegistry
  <2>1. Cardinality(active') \in Nat
    BY <1>7, <1>9, SourcesAreCounted
  <2>2. QED
    BY <1>9, <2>1, LimitsAssumption
<1>11. /\ active' \in SUBSET kept /\ kept \in SUBSET DOMAIN records
       /\ Cardinality(kept) <= MaxRegistry
  BY <1>3, <1>7, <1>9, <1>10, PrunedFits
<1>12. /\ DOMAIN registry' = kept
       /\ \A s \in kept : registry'[s] = records[s]
  BY <1>3
<1>13. TypeOK'
  <2>1. registry' \in [DOMAIN registry' -> Record]
    BY <1>3, <1>8, <1>11, <1>12
  <2>2. IsRegistry(registry')
    BY <1>7, <1>11, <1>12, <2>1 DEF IsRegistry
  <2>3. QED
    BY <1>5, <1>6, <1>7, <1>9, <2>2 DEF IInv, TypeOK, Phases, IsRegistry
<1>14. ActiveRegistered' /\ RegistryBounded' /\ BranchStartable' /\ RunsFromCheckout'
  BY <1>5, <1>6, <1>11, <1>12
     DEF IInv, ActiveRegistered, RegistryBounded, BranchStartable, RunsFromCheckout
<1>15. RecordsSettled'
  <2>1. \A s \in active' : Fresh(records[s])
    BY <1>7, <1>8, <1>9, ChosenIsFresh, NewRecordIsSettled
  <2>2. QED
    BY <1>5, <1>8, <1>11, <1>12, <2>1 DEF IInv, RecordsSettled
<1>16. AdriftUntouched'
  BY <1>5, <1>6, <1>7, <1>9, <1>11, <1>12, AdriftIsNotChosen DEF AdriftUntouched
<1>17. QED
  BY <1>13, <1>14, <1>15, <1>16 DEF IInv

\* So is what the registry itself offers.
LEMMA DiscoverOfflinePreserves ==
  ASSUME IInv, DiscoverOffline
  PROVE  IInv'
<1>1. /\ active' \in ActiveUrls(registry, MaxActive, {}, {})
      /\ phase = "started" /\ phase' = "discovered"
      /\ published' = published /\ commits' = commits /\ base' = base
      /\ registry' = registry /\ asked' = asked
  BY DEF DiscoverOffline, branchVars
<1>2. /\ IsRegistry(registry) /\ registry = base /\ asked = {}
      /\ \A s \in DOMAIN registry : registry[s] \in Record /\ Settled(registry[s])
  BY <1>1 DEF IInv, TypeOK, IsRegistry, RunsFromCheckout, RecordsSettled
<1>3. /\ active' \in SUBSET DOMAIN registry
      /\ \A s \in active' : \/ IsProven(registry[s], s \in {})
                            \/ InPool(registry[s], s \in {})
  <2>1. DOMAIN registry \in SUBSET Sources /\ MaxActive \in Nat
    BY <1>2, LimitsAssumption DEF IsRegistry
  <2>2. QED
    BY <1>1, <2>1, ActiveUrlsAreListed
<1>4. ASSUME NEW s \in active' PROVE Chosen(registry[s])
  <2>1. (s \in {}) = FALSE
    OBVIOUS
  <2>2. QED
    BY <1>3, <2>1 DEF Chosen
<1>5. \A s \in active' : Fresh(registry[s]) /\ ~Adrift(registry[s])
  BY <1>2, <1>3, <1>4, ChosenIsFresh, AdriftIsNotChosen
<1>6. /\ TypeOK' /\ ActiveRegistered' /\ RegistryBounded'
      /\ BranchStartable' /\ RunsFromCheckout'
  BY <1>1, <1>2, <1>3
     DEF IInv, TypeOK, Phases, IsRegistry, ActiveRegistered, RegistryBounded,
         BranchStartable, RunsFromCheckout
<1>7. RecordsSettled' /\ AdriftUntouched'
  BY <1>1, <1>2, <1>5 DEF IInv, RecordsSettled, AdriftUntouched
<1>8. QED
  BY <1>6, <1>7 DEF IInv

\* Collecting reports on the selected records.
LEMMA CollectPreserves ==
  ASSUME IInv, Collect
  PROVE  IInv'
<1>1. PICK outcome \in [active -> Outcomes] :
        /\ registry' = [s \in DOMAIN registry |->
                          IF s \in active THEN Collected(registry[s], outcome[s])
                          ELSE registry[s]]
        /\ active' = {s \in active : outcome[s] # "gone"}
  BY DEF Collect
<1>2. /\ phase = "discovered" /\ phase' = "collected"
      /\ asked' = active
      /\ published' = published /\ commits' = commits /\ base' = base
  BY DEF Collect, branchVars
<1>3. /\ IsRegistry(registry) /\ asked = {}
      /\ active \in SUBSET DOMAIN registry
      /\ \A s \in DOMAIN registry : registry[s] \in Record /\ Settled(registry[s])
      /\ \A s \in active : Fresh(registry[s])
  BY <1>2 DEF IInv, TypeOK, IsRegistry, ActiveRegistered, RunsFromCheckout, RecordsSettled
<1>4. /\ DOMAIN registry' = DOMAIN registry
      /\ \A s \in active : registry'[s] = Collected(registry[s], outcome[s])
      /\ \A s \in DOMAIN registry \ active : registry'[s] = registry[s]
      /\ active' \in SUBSET active
  BY <1>1, <1>3
<1>5. ASSUME NEW s \in active
      PROVE  registry'[s] \in Record /\ Reported(registry'[s])
  <2>1. registry[s] \in Record /\ outcome[s] \in Outcomes /\ Fresh(registry[s])
    BY <1>1, <1>3
  <2>2. QED
    BY <1>4, <2>1, CollectedIsReported
<1>6. TypeOK'
  <2>1. registry' \in [DOMAIN registry' -> Record]
    BY <1>1, <1>3, <1>4, <1>5
  <2>2. QED
    BY <1>2, <1>3, <1>4, <2>1 DEF IInv, TypeOK, IsRegistry, Phases
<1>7. ActiveRegistered' /\ RegistryBounded' /\ BranchStartable' /\ RunsFromCheckout'
  BY <1>2, <1>3, <1>4
     DEF IInv, ActiveRegistered, RegistryBounded, BranchStartable, RunsFromCheckout
<1>8. RecordsSettled' /\ AdriftUntouched'
  BY <1>2, <1>3, <1>4, <1>5 DEF IInv, RecordsSettled, AdriftUntouched
<1>9. QED
  BY <1>6, <1>7, <1>8 DEF IInv

\* The probes settle the records that were collected.
LEMMA ProbeTransportPreserves ==
  ASSUME IInv, ProbeTransport
  PROVE  IInv'
<1>1. PICK verdict \in [asked -> {"low"} \cup Histories] :
        /\ \A s \in asked : verdict[s] \in Verdicts(registry[s].yield)
        /\ registry' = [s \in DOMAIN registry |->
                          IF s \in asked THEN Probed(registry[s], verdict[s])
                          ELSE registry[s]]
  BY DEF ProbeTransport
<1>2. /\ phase = "collected" /\ phase' = "probed"
      /\ published' = published /\ commits' = commits /\ base' = base
      /\ active' = active /\ asked' = asked
  BY DEF ProbeTransport, branchVars
<1>3. /\ IsRegistry(registry)
      /\ asked \in SUBSET DOMAIN registry
      /\ \A s \in DOMAIN registry : registry[s] \in Record
      /\ \A s \in asked : Reported(registry[s])
      /\ \A s \in DOMAIN registry \ asked : Settled(registry[s])
  BY <1>2 DEF IInv, TypeOK, IsRegistry, ActiveRegistered, RecordsSettled
<1>4. /\ DOMAIN registry' = DOMAIN registry
      /\ \A s \in asked : registry'[s] = Probed(registry[s], verdict[s])
      /\ \A s \in DOMAIN registry \ asked : registry'[s] = registry[s]
  BY <1>1, <1>3
<1>5. ASSUME NEW s \in asked
      PROVE  registry'[s] \in Record /\ Settled(registry'[s])
  <2>1. registry[s] \in Record /\ verdict[s] \in Verdicts(registry[s].yield)
    BY <1>1, <1>3
  <2>2. QED
    BY <1>3, <1>4, <2>1, ProbedIsSettled
<1>6. TypeOK'
  <2>1. registry' \in [DOMAIN registry' -> Record]
    BY <1>1, <1>3, <1>4, <1>5
  <2>2. QED
    BY <1>2, <1>3, <1>4, <2>1 DEF IInv, TypeOK, IsRegistry, Phases
<1>7. ActiveRegistered' /\ RegistryBounded' /\ BranchStartable' /\ RunsFromCheckout'
  BY <1>2, <1>3, <1>4
     DEF IInv, ActiveRegistered, RegistryBounded, BranchStartable, RunsFromCheckout
<1>8. RecordsSettled' /\ AdriftUntouched'
  BY <1>2, <1>3, <1>4, <1>5 DEF IInv, RecordsSettled, AdriftUntouched
<1>9. QED
  BY <1>6, <1>7, <1>8 DEF IInv

\* The Light builder's verdicts leave them settled.
LEMMA JudgeLightPreserves ==
  ASSUME IInv, JudgeLight
  PROVE  IInv'
<1>1. PICK touched \in SUBSET {s \in asked : registry[s].yield # "none"} :
        \E lowStrict, lowTransfer \in SUBSET touched :
          registry' = [s \in DOMAIN registry |->
                         IF s \in touched
                         THEN Judged(registry[s], s \in lowStrict, s \in lowTransfer)
                         ELSE registry[s]]
  BY DEF JudgeLight
<1>2. PICK lowStrict \in SUBSET touched, lowTransfer \in SUBSET touched :
        registry' = [s \in DOMAIN registry |->
                       IF s \in touched
                       THEN Judged(registry[s], s \in lowStrict, s \in lowTransfer)
                       ELSE registry[s]]
  BY <1>1
<1>3. /\ phase = "probed" /\ phase' = "judged"
      /\ published' = published /\ commits' = commits /\ base' = base
      /\ active' = active /\ asked' = asked
  BY DEF JudgeLight, branchVars
<1>4. /\ IsRegistry(registry)
      /\ touched \in SUBSET asked /\ asked \in SUBSET DOMAIN registry
      /\ \A s \in DOMAIN registry : registry[s] \in Record /\ Settled(registry[s])
  BY <1>3 DEF IInv, TypeOK, IsRegistry, ActiveRegistered, RecordsSettled
<1>5. /\ DOMAIN registry' = DOMAIN registry
      /\ \A s \in DOMAIN registry \ touched : registry'[s] = registry[s]
  BY <1>2
<1>6. ASSUME NEW s \in touched
      PROVE  registry'[s] \in Record /\ Settled(registry'[s])
  <2>1. registry[s] \in Record /\ Settled(registry[s])
    BY <1>4
  <2>2. registry'[s] = Judged(registry[s], s \in lowStrict, s \in lowTransfer)
    BY <1>2, <1>4
  <2>3. (s \in lowStrict) \in BOOLEAN /\ (s \in lowTransfer) \in BOOLEAN
    OBVIOUS
  <2>4. QED
    BY <2>1, <2>2, <2>3, JudgedStaysSettled
<1>7. TypeOK'
  <2>1. \A s \in DOMAIN registry : registry'[s] \in Record
    BY <1>4, <1>5, <1>6
  <2>2. registry' \in [DOMAIN registry' -> Record]
    BY <1>2, <1>5, <2>1
  <2>3. QED
    BY <1>3, <1>4, <1>5, <2>2 DEF IInv, TypeOK, IsRegistry, Phases
<1>8. ActiveRegistered' /\ RegistryBounded' /\ BranchStartable' /\ RunsFromCheckout'
  BY <1>3, <1>4, <1>5
     DEF IInv, ActiveRegistered, RegistryBounded, BranchStartable, RunsFromCheckout
<1>9. RecordsSettled' /\ AdriftUntouched'
  BY <1>3, <1>4, <1>5, <1>6 DEF IInv, RecordsSettled, AdriftUntouched
<1>10. QED
  BY <1>7, <1>8, <1>9 DEF IInv

\* What a complete run publishes is one more registry to start from.
LEMMA PublishPreserves ==
  ASSUME IInv, Publish
  PROVE  IInv'
<1>1. /\ phase = "judged" /\ phase' = "idle"
      /\ published' = registry /\ base' = registry /\ registry' = registry
      /\ commits' = commits /\ active' = {} /\ asked' = {}
  BY DEF Publish
<1>2. /\ IsRegistry(registry) /\ Cardinality(DOMAIN registry) <= MaxRegistry
      /\ \A s \in DOMAIN registry : Settled(registry[s])
  BY <1>1 DEF IInv, TypeOK, RegistryBounded, RecordsSettled
<1>3. Startable(registry)
  BY <1>2 DEF Startable
<1>4. QED
  BY <1>1, <1>2, <1>3
     DEF IInv, TypeOK, Phases, ActiveRegistered, RegistryBounded, BranchStartable,
         RunsFromCheckout, RecordsSettled, AdriftUntouched

\* A failed run leaves what was published.
LEMMA FailPreserves ==
  ASSUME IInv, Fail
  PROVE  IInv'
<1>1. /\ phase' = "idle"
      /\ published' = published /\ commits' = commits
      /\ base' = published /\ registry' = published
      /\ active' = {} /\ asked' = {}
  BY DEF Fail, branchVars
<1>2. Startable(published)
  BY DEF IInv, BranchStartable
<1>3. QED
  BY <1>1, <1>2
     DEF IInv, TypeOK, Phases, ActiveRegistered, RegistryBounded, BranchStartable,
         RunsFromCheckout, RecordsSettled, AdriftUntouched, Startable

\* Time only moves ages.
LEMMA AgedIsStartable ==
  ASSUME NEW records, Startable(records)
  PROVE  /\ Startable(Aged(records)) /\ DOMAIN Aged(records) = DOMAIN records
         /\ \A s \in DOMAIN records : Adrift(records[s]) => Adrift(Aged(records)[s])
<1> DEFINE age(s) == IF records[s].checked
                     THEN Count(records[s].age, QualityCooldown) ELSE records[s].age
           older  == Aged(records)
<1>1. /\ DOMAIN records \in SUBSET Sources /\ Cardinality(DOMAIN records) <= MaxRegistry
      /\ \A s \in DOMAIN records : records[s] \in Record /\ Settled(records[s])
  BY DEF Startable, IsRegistry
<1>2. /\ older = [s \in DOMAIN records |-> older[s]] /\ DOMAIN older = DOMAIN records
  BY DEF Aged
<1>3. ASSUME NEW s \in DOMAIN records
      PROVE  /\ older[s] \in Record /\ Settled(older[s])
             /\ Adrift(records[s]) => Adrift(older[s])
  <2>1. records[s] \in Record /\ Settled(records[s])
    BY <1>1
  <2>2. older[s] = [records[s] EXCEPT !.age = age(s)]
    BY <2>1 DEF Aged, Record
  <2>3. age(s) \in 0..QualityCooldown
    BY <2>1, CountIsBounded, LimitsAssumption DEF Record
  <2> HIDE DEF age, older
  <2>4. QED
    BY <2>1, <2>2, <2>3, AgedStaysSettled
<1> HIDE DEF older
<1>4. older \in [DOMAIN older -> Record]
  BY <1>2, <1>3
<1>5. IsRegistry(older)
  BY <1>1, <1>2, <1>4 DEF IsRegistry
<1>6. Startable(older)
  BY <1>1, <1>2, <1>3, <1>5 DEF Startable
<1>7. QED
  BY <1>2, <1>3, <1>6 DEF older

LEMMA TickPreserves ==
  ASSUME IInv, Tick
  PROVE  IInv'
<1>1. /\ phase = "idle" /\ phase' = "idle"
      /\ published' = Aged(published) /\ commits' = {Aged(old) : old \in commits}
      /\ base' = published' /\ registry' = published'
      /\ active' = {} /\ asked' = {}
  BY DEF Tick, IInv, RunsFromCheckout
<1>2. /\ Startable(published')
      /\ \A old \in commits' : Startable(old)
  BY <1>1, AgedIsStartable DEF IInv, BranchStartable
<1>3. QED
  BY <1>1, <1>2
     DEF IInv, TypeOK, Phases, ActiveRegistered, RegistryBounded, BranchStartable,
         RunsFromCheckout, RecordsSettled, AdriftUntouched, Startable

\* Every step keeps the invariant.
LEMMA NextPreserves == IInv /\ [Next]_vars => IInv'
<1> SUFFICES ASSUME IInv, [Next]_vars PROVE IInv'
  OBVIOUS
<1>1. CASE Discover
  BY <1>1, DiscoverPreserves
<1>2. CASE DiscoverOffline
  BY <1>2, DiscoverOfflinePreserves
<1>3. CASE Collect
  BY <1>3, CollectPreserves
<1>4. CASE ProbeTransport
  BY <1>4, ProbeTransportPreserves
<1>5. CASE JudgeLight
  BY <1>5, JudgeLightPreserves
<1>6. CASE Publish
  BY <1>6, PublishPreserves
<1>7. CASE Fail
  BY <1>7, FailPreserves
<1>8. CASE Tick
  BY <1>8, TickPreserves
<1>9. CASE Dispatch \/ Forget
  BY <1>9, KeepingPreserves
<1>10. CASE Begin
  BY <1>10, BeginPreserves
<1>11. CASE UNCHANGED vars
  BY <1>11 DEF vars, IInv, TypeOK, ActiveRegistered, RegistryBounded, BranchStartable,
               RunsFromCheckout, RecordsSettled, AdriftUntouched
<1>12. QED
  BY <1>1, <1>2, <1>3, <1>4, <1>5, <1>6, <1>7, <1>8, <1>9, <1>10, <1>11 DEF Next

THEOREM Invariance == Spec => []IInv
<1>1. QED
  BY InitEstablishes, NextPreserves, PTL DEF Spec

-----------------------------------------------------------------------------
\* The theorems

\* Type correctness, for every set of sources and all limits.
THEOREM TypeCorrect == Spec => []TypeOK
<1>1. IInv => TypeOK
  BY DEF IInv
<1>2. QED
  BY <1>1, Invariance, PTL

\* No active source loses its record to pruning.
THEOREM ActiveStayRegistered == Spec => []ActiveRegistered
<1>1. IInv => ActiveRegistered
  BY DEF IInv
<1>2. QED
  BY <1>1, Invariance, PTL

\* The registry keeps within its capacity.
THEOREM RegistryStaysBounded == Spec => []RegistryBounded
<1>1. IInv => RegistryBounded
  BY DEF IInv
<1>2. QED
  BY <1>1, Invariance, PTL

\* Pruning keeps the registry in its bounds and what is in use in the registry
\* (prune).
THEOREM PruningStaysSafe == Spec => []PruningIsSafe
BY ActiveStayRegistered, RegistryStaysBounded, PTL DEF PruningIsSafe

\* Streaks end at one, or at the limit that a permanent failure sets.
THEOREM StreaksStayShort == Spec => []StreaksNeverGrow
<1>1. IInv => StreaksNeverGrow
  BY DEF IInv, RecordsSettled, Settled, Reported, Counted, StreaksNeverGrow
<1>2. QED
  BY <1>1, Invariance, PTL

\* A retired source has lost the yield it could be proven by.
LEMMA InvariantExcludesRecovering == IInv => RecoveringIsNotProven
<1> SUFFICES ASSUME IInv, NEW s \in DOMAIN registry, Recoverable(registry[s])
             PROVE  ~IsProven(registry[s], TRUE)
  BY DEF RecoveringIsNotProven
<1>1. registry[s] \in Record /\ Counted(registry[s])
  BY DEF IInv, TypeOK, IsRegistry, RecordsSettled, Settled, Reported
<1>2. registry[s].failures > 0 \/ registry[s].empties > 0
  BY <1>1, LimitsAssumption DEF Recoverable, Retired, Record
<1>3. registry[s].yield = "none"
  BY <1>1, <1>2 DEF Counted
<1>4. QED
  BY <1>3 DEF IsProven

\* A source that recovers is not proven.
THEOREM RecoveringAreNotProven == Spec => []RecoveringIsNotProven
<1>1. QED
  BY InvariantExcludesRecovering, Invariance, PTL

\* A run that knows a source to be adrift neither asks it nor publishes anything
\* else about it: what is adrift on main is revived only by a run whose checkout is
\* older than that, however many runs wait or are repeated.
THEOREM RevivedByOldRunsOnly == Spec => OnlyOldRunsRevive
<1> DEFINE Stays == \A s \in DOMAIN published \cap DOMAIN published' :
                      Adrift(published[s]) /\ ~Adrift(published'[s])
                        => ~(s \in DOMAIN base /\ Adrift(base[s]))
<1>1. IInv /\ [Next]_vars => [Stays]_vars
  <2> SUFFICES ASSUME IInv, Next PROVE Stays
    OBVIOUS
  <2>1. CASE Publish
    BY <2>1 DEF Publish, IInv, AdriftUntouched
  <2>2. CASE Tick
    BY <2>2, AgedIsStartable DEF Tick, IInv, BranchStartable
  <2>3. CASE published' = published
    BY <2>3
  <2>4. QED
    BY <2>1, <2>2, <2>3
       DEF Next, Dispatch, Forget, Begin, Discover, DiscoverOffline, Collect,
           ProbeTransport, JudgeLight, Fail, branchVars
<1>2. QED
  BY <1>1, Invariance, PTL DEF Spec, OnlyOldRunsRevive

-----------------------------------------------------------------------------
\* The slots of the list of active sources

\* What is taken has the size asked for, or is everything.
LEMMA TakenHasSize ==
  ASSUME NEW S \in SUBSET Sources, NEW n \in Nat, NEW T \in Taken(S, n)
  PROVE  /\ T \in SUBSET S /\ Cardinality(T) = Least(n, Cardinality(S))
         /\ Cardinality(S) <= n => T = S
<1>1. T \in SUBSET S /\ Cardinality(T) = Least(n, Cardinality(S))
  BY DEF Taken
<1>2. IsFiniteSet(S) /\ Cardinality(S) \in Nat
  BY SourcesAreCounted
<1>3. ASSUME Cardinality(S) <= n PROVE T = S
  <2>1. Cardinality(T) = Cardinality(S)
    BY <1>1, <1>2, <1>3 DEF Least
  <2>2. QED
    BY <1>1, <1>2, <2>1, FS_Subset
<1>4. QED
  BY <1>1, <1>3

\* Where the limit has room for the proven core, the core is in.
LEMMA CoreIsActive ==
  ASSUME NEW records, DOMAIN records \in SUBSET Sources,
         NEW limit \in Nat, MaxProven <= limit, NEW excluded, NEW recoverable,
         NEW urls \in ActiveUrls(records, limit, excluded, recoverable),
         NEW proven, proven = Proven(records, excluded, recoverable)
  PROVE  proven \subseteq urls \/ Cardinality(proven \cap urls) >= MaxProven
<1> DEFINE pool(core) == {s \in (DOMAIN records \ excluded) \ core :
                            InPool(records[s], s \in recoverable)}
           unchecked(core) == {s \in pool(core) : ~records[s].checked}
           room(core)  == Monus(limit, Cardinality(core))
           share(core) == Least(Least(MaxUnchecked, room(core)),
                                Cardinality(unchecked(core)))
<1>a. PICK core \in Taken(proven, Least(limit, MaxProven)) :
        \E known \in Taken(pool(core) \ unchecked(core), room(core) - share(core)),
           more \in Taken(unchecked(core), share(core)) :
          urls = core \cup known \cup more
  BY DEF ActiveUrls
<1>1. core \in Taken(proven, Least(limit, MaxProven)) /\ core \subseteq urls
  BY <1>a
<1>2. proven \in SUBSET Sources /\ MaxProven \in Nat
  BY LimitsAssumption DEF Proven
<1>3. Least(limit, MaxProven) = MaxProven
  BY <1>2 DEF Least
<1>4. /\ core \in SUBSET proven
      /\ Cardinality(core) = Least(MaxProven, Cardinality(proven))
      /\ Cardinality(proven) <= MaxProven => core = proven
  BY <1>1, <1>2, <1>3, TakenHasSize
<1>5. CASE Cardinality(proven) <= MaxProven
  BY <1>1, <1>4, <1>5
<1>6. CASE ~(Cardinality(proven) <= MaxProven)
  <2>1. /\ Cardinality(proven) \in Nat
        /\ IsFiniteSet(proven \cap urls) /\ Cardinality(proven \cap urls) \in Nat
    BY <1>2, SourcesAreCounted
  <2>2. Cardinality(core) = MaxProven
    BY <1>2, <1>4, <1>6, <2>1 DEF Least
  <2>3. core \in SUBSET (proven \cap urls)
    BY <1>1, <1>4
  <2>4. Cardinality(core) <= Cardinality(proven \cap urls)
    BY <2>1, <2>3, FS_Subset
  <2>5. QED
    BY <1>2, <2>1, <2>2, <2>4
<1>7. QED
  BY <1>5, <1>6

\* A retired source that does not recover is not proven.
LEMMA RetiredIsNotProven ==
  ASSUME NEW r, Retired(r)
  PROVE  ~IsProven(r, FALSE)
<1>1. ~Healthy(r, FALSE)
  BY DEF Healthy
<1>2. QED
  BY <1>1 DEF IsProven

\* Nor is a new one.
LEMMA NewIsNotProven ==
  ASSUME NEW recovering \in BOOLEAN
  PROVE  ~IsProven(NewRecord, recovering)
<1>1. NewRecord.yield # "many"
  BY DEF NewRecord
<1>2. QED
  BY <1>1 DEF IsProven

\* select_active_sources shares the slots between proven and new sources.
LEMMA SelectedShares ==
  ASSUME NEW records, DOMAIN records \in SUBSET Sources,
         NEW new \in SUBSET DOMAIN records, NEW known,
         \A s \in new : records[s] = NewRecord,
         \A s \in DOMAIN records :
           Recoverable(records[s]) => ~IsProven(records[s], TRUE),
         NEW ordered \in SelectActive(records, new, known),
         NEW proven, proven = Proven(records, {}, {})
  PROVE  /\ proven \subseteq ordered \/ Cardinality(proven \cap ordered) >= MaxProven
         /\ Cardinality(new \cap ordered) >= Least(MaxNewActive, Cardinality(new))
<1> DEFINE recoverable == {s \in known : Recoverable(records[s])}
           limit(fresh) == Monus(MaxActive, Cardinality(fresh))
           places(urls) == Monus(MaxActive, Cardinality(urls))
<1>1. PICK fresh \in Taken(new, NewLimit(records)) :
        \E urls \in ActiveUrls(records, limit(fresh), fresh, recoverable) :
          \E more \in Taken(fresh, places(urls)) : ordered = urls \cup more
  BY DEF SelectActive
<1>2. PICK urls \in ActiveUrls(records, limit(fresh), fresh, recoverable) :
        \E more \in Taken(fresh, places(urls)) : ordered = urls \cup more
  BY <1>1
<1>3. PICK more \in Taken(fresh, places(urls)) : ordered = urls \cup more
  BY <1>2
<1>4. /\ NewLimit(records) \in Nat /\ MaxNewActive <= NewLimit(records)
      /\ proven # {} => NewLimit(records) = MaxNewActive
  BY LimitsAssumption DEF NewLimit
<1>5. /\ fresh \in SUBSET new /\ new \in SUBSET Sources
      /\ Cardinality(fresh) = Least(NewLimit(records), Cardinality(new))
      /\ Cardinality(fresh) \in Nat /\ Cardinality(new) \in Nat
      /\ Cardinality(fresh) <= NewLimit(records)
  <2>1. new \in SUBSET Sources
    OBVIOUS
  <2>2. QED
    BY <1>4, <2>1, TakenHasSize, TakenIsPart, SourcesAreCounted
<1>6. limit(fresh) \in Nat
  BY <1>5, LimitsAssumption DEF Monus
<1>7. Proven(records, fresh, recoverable) = proven
  <2>1. ASSUME NEW s \in DOMAIN records
        PROVE  s \notin fresh /\ IsProven(records[s], s \in recoverable)
                 <=> IsProven(records[s], s \in {})
    <3>1. (s \in {}) = FALSE
      OBVIOUS
    <3>2. CASE s \in fresh
      <4>1. ~IsProven(records[s], FALSE)
        BY <1>5, <3>2, NewIsNotProven
      <4>2. QED
        BY <3>1, <3>2, <4>1
    <3>3. CASE s \notin fresh /\ s \in recoverable
      <4>1. ~IsProven(records[s], TRUE) /\ (s \in recoverable) = TRUE
        BY <3>3
      <4>2. Retired(records[s])
        BY <3>3 DEF Recoverable
      <4>3. ~IsProven(records[s], FALSE)
        BY <4>2, RetiredIsNotProven
      <4>4. QED
        BY <3>1, <4>1, <4>3
    <3>4. CASE s \notin fresh /\ s \notin recoverable
      <4>1. (s \in recoverable) = FALSE
        BY <3>4
      <4> HIDE DEF recoverable
      <4>2. QED
        BY <3>1, <3>4, <4>1
    <3>5. QED
      BY <3>2, <3>3, <3>4
  <2> HIDE DEF recoverable
  <2>2. QED
    BY <2>1 DEF Proven
<1>8. proven \subseteq ordered \/ Cardinality(proven \cap ordered) >= MaxProven
  <2>1. CASE proven = {}
    BY <2>1
  <2>2. CASE proven # {}
    <3>1. MaxProven <= limit(fresh)
      BY <1>4, <1>5, <2>2, LimitsAssumption DEF Monus
    <3>2. proven \subseteq urls \/ Cardinality(proven \cap urls) >= MaxProven
      <4> HIDE DEF limit, recoverable
      <4>1. QED
        BY <1>6, <1>7, <3>1, CoreIsActive
    <3>3. Cardinality(proven \cap urls) <= Cardinality(proven \cap ordered)
      <4>1. /\ (proven \cap ordered) \in SUBSET Sources
            /\ (proven \cap urls) \in SUBSET (proven \cap ordered)
        BY <1>3 DEF Proven
      <4>2. QED
        BY <4>1, SourcesAreCounted, FS_Subset
    <3>4. /\ Cardinality(proven \cap urls) \in Nat
          /\ Cardinality(proven \cap ordered) \in Nat
      <4>1. /\ (proven \cap ordered) \in SUBSET Sources
            /\ (proven \cap urls) \in SUBSET Sources
        BY DEF Proven
      <4>2. QED
        BY <4>1, SourcesAreCounted
    <3>5. QED
      BY <1>3, <3>2, <3>3, <3>4, LimitsAssumption
  <2>3. QED
    BY <2>1, <2>2
<1>9. /\ Cardinality(urls) \in Nat /\ Cardinality(urls) <= limit(fresh)
  <2> HIDE DEF limit, recoverable
  <2>1. urls \in SUBSET DOMAIN records /\ Cardinality(urls) <= limit(fresh)
    BY <1>6, ActiveUrlsAreListed
  <2>2. QED
    BY <2>1, SourcesAreCounted
<1>10. Cardinality(more) >= Least(MaxNewActive, Cardinality(new))
  <2>1. places(urls) \in Nat
    BY <1>9, LimitsAssumption DEF Monus
  <2>2. Cardinality(more) = Least(places(urls), Cardinality(fresh))
    BY DEF Taken
  <2>3. QED
    BY <1>4, <1>5, <1>9, <2>1, <2>2, LimitsAssumption DEF Monus, Least
<1>11. Cardinality(new \cap ordered) >= Least(MaxNewActive, Cardinality(new))
  <2>1. more \in SUBSET (new \cap ordered)
    BY <1>3, <1>5 DEF Taken
  <2>2. /\ IsFiniteSet(new \cap ordered)
        /\ Cardinality(new \cap ordered) \in Nat /\ Cardinality(more) \in Nat
    BY <1>5, <2>1, SourcesAreCounted
  <2>3. Cardinality(more) <= Cardinality(new \cap ordered)
    BY <2>1, <2>2, FS_Subset
  <2>4. QED
    BY <1>5, <1>10, <2>2, <2>3, LimitsAssumption DEF Least
<1>12. QED
  BY <1>8, <1>11

\* Discovery shares the slots of the list it writes.
LEMMA DiscoverShares ==
  ASSUME IInv, Discover
  PROVE  SlotsShared'
<1>1. PICK found \in (SUBSET Sources) \ {{}} :
        \E new \in SUBSET (found \ DOMAIN registry),
           known \in Preferring({s \in DOMAIN registry : Recoverable(registry[s])},
                                found \cap DOMAIN registry, MaxRefresh) :
          \E ordered \in SelectActive(WithNew(new), new, known) \ {{}} :
            /\ active' = ordered
            /\ \E kept \in Pruned(DOMAIN WithNew(new), ordered,
                                  new \cup {s \in known : Refreshed(registry[s])}) :
                 registry' = [s \in kept |-> WithNew(new)[s]]
  BY Zenon DEF Discover
<1>2. PICK new \in SUBSET (found \ DOMAIN registry),
           known \in Preferring({s \in DOMAIN registry : Recoverable(registry[s])},
                                found \cap DOMAIN registry, MaxRefresh) :
          \E ordered \in SelectActive(WithNew(new), new, known) \ {{}} :
            /\ active' = ordered
            /\ \E kept \in Pruned(DOMAIN WithNew(new), ordered,
                                  new \cup {s \in known : Refreshed(registry[s])}) :
                 registry' = [s \in kept |-> WithNew(new)[s]]
  BY <1>1
<1> DEFINE records == WithNew(new)
           proven  == Proven(base, {}, {})
<1>3. /\ active' \in SelectActive(records, new, known)
      /\ DOMAIN registry' \in Pruned(DOMAIN records, active',
                                    new \cup {s \in known : Refreshed(registry[s])})
  BY <1>2
<1>4. /\ base' = base /\ registry = base
      /\ IsRegistry(registry)
      /\ \A s \in DOMAIN registry : Recoverable(registry[s]) => ~IsProven(registry[s], TRUE)
  BY InvariantExcludesRecovering DEF RecoveringIsNotProven, Discover, IInv, TypeOK, RunsFromCheckout
<1>5. /\ DOMAIN records = DOMAIN registry \cup new
      /\ DOMAIN records \in SUBSET Sources /\ new \in SUBSET DOMAIN records
      /\ \A s \in DOMAIN registry : records[s] = registry[s]
      /\ \A s \in new : records[s] = NewRecord
  BY <1>4 DEF WithNew, IsRegistry
<1> HIDE DEF records
<1>6. \A s \in DOMAIN records : Recoverable(records[s]) => ~IsProven(records[s], TRUE)
  BY <1>4, <1>5, NewIsNotProven
<1>7. proven = Proven(records, {}, {})
  <2>1. ~IsProven(NewRecord, FALSE)
    BY NewIsNotProven
  <2>2. ASSUME NEW s \in new PROVE ~IsProven(records[s], s \in {})
    <3>1. (s \in {}) = FALSE /\ records[s] = NewRecord
      BY <1>5
    <3>2. QED
      BY <2>1, <3>1
  <2>3. QED
    BY <1>4, <1>5, <2>2 DEF Proven
<1> HIDE DEF proven
<1>8. /\ proven \subseteq active' \/ Cardinality(proven \cap active') >= MaxProven
      /\ Cardinality(new \cap active') >= Least(MaxNewActive, Cardinality(new))
  BY <1>3, <1>5, <1>6, <1>7, SelectedShares
<1>9. active' \in SUBSET DOMAIN records /\ Cardinality(active') <= MaxActive
  BY <1>3, <1>5, SelectedSources
<1>10. active' \in SUBSET DOMAIN registry' /\ DOMAIN registry' \in SUBSET DOMAIN records
  <2>1. Cardinality(active') <= MaxRegistry
    <3>1. Cardinality(active') \in Nat
      BY <1>5, <1>9, SourcesAreCounted
    <3>2. QED
      BY <1>9, <3>1, LimitsAssumption
  <2> DEFINE fresh == new \cup {s \in known : Refreshed(registry[s])}
             all == DOMAIN records
             kept == DOMAIN registry'
  <2>2. kept \in Pruned(all, active', fresh)
    BY <1>3
  <2>3. all \in SUBSET Sources /\ active' \in SUBSET all
    BY <1>5, <1>9
  <2> HIDE DEF fresh, all, kept
  <2>4. active' \in SUBSET kept /\ kept \in SUBSET all
    BY <2>1, <2>2, <2>3, PrunedFits
  <2>5. QED
    BY <2>4 DEF all, kept
<1> DEFINE listed == DOMAIN registry' \ DOMAIN base
<1>11. /\ listed \cap active' = new \cap active'
       /\ listed \in SUBSET new
  BY <1>4, <1>5, <1>10
<1>12. Cardinality(listed \cap active') >= Least(MaxNewActive, Cardinality(listed))
  <2>1. /\ new \in SUBSET Sources /\ listed \in SUBSET Sources
        /\ (new \cap active') \in SUBSET Sources
    BY <1>5, <1>11
  <2>2. /\ IsFiniteSet(new) /\ Cardinality(new) \in Nat
        /\ Cardinality(listed) \in Nat /\ Cardinality(new \cap active') \in Nat
    BY <2>1, SourcesAreCounted
  <2>3. Cardinality(listed) <= Cardinality(new)
    BY <1>11, <2>2, FS_Subset
  <2>4. Cardinality(listed \cap active') = Cardinality(new \cap active')
    BY <1>11
  <2> HIDE DEF listed
  <2>5. QED
    BY <1>8, <2>2, <2>3, <2>4, LimitsAssumption DEF Least
<1>13. Proven(base', {}, {}) = proven
  BY <1>4 DEF proven
<1>14. QED
  BY <1>4, <1>8, <1>9, <1>12, <1>13 DEF SlotsShared

\* So does the fallback, which has no new sources.
LEMMA DiscoverOfflineShares ==
  ASSUME IInv, DiscoverOffline
  PROVE  SlotsShared'
<1> DEFINE proven == Proven(base, {}, {})
<1>1. /\ active' \in ActiveUrls(registry, MaxActive, {}, {})
      /\ base' = base /\ registry' = registry /\ registry = base
      /\ DOMAIN registry \in SUBSET Sources
  BY DEF DiscoverOffline, IInv, TypeOK, IsRegistry, RunsFromCheckout
<1>2. MaxActive \in Nat /\ MaxProven <= MaxActive
  BY LimitsAssumption
<1>3. Cardinality(active') <= MaxActive
  BY <1>1, <1>2, ActiveUrlsAreListed
<1>4. proven \subseteq active' \/ Cardinality(proven \cap active') >= MaxProven
  BY <1>1, <1>2, CoreIsActive
<1>5. Cardinality({} \cap active') >= Least(MaxNewActive, Cardinality({}))
  <2>1. {} \cap active' = {} /\ Cardinality({}) = 0
    BY FS_EmptySet
  <2>2. Cardinality({} \cap active') = 0
    BY <2>1
  <2>3. QED
    BY <2>1, <2>2, LimitsAssumption DEF Least
<1>6. /\ DOMAIN registry' \ DOMAIN base' = {}
      /\ Proven(base', {}, {}) = proven
  BY <1>1
<1> HIDE DEF proven
<1>7. QED
  BY <1>3, <1>4, <1>5, <1>6 DEF SlotsShared

\* Proven and new sources share the list of active sources as reserved.
THEOREM SlotsAreShared == Spec => []SlotsShared
<1>1. Init => SlotsShared
  BY DEF Init, SlotsShared
<1>2. IInv /\ SlotsShared /\ [Next]_vars => SlotsShared'
  <2> SUFFICES ASSUME IInv, SlotsShared, [Next]_vars PROVE SlotsShared'
    OBVIOUS
  <2>1. CASE Discover
    BY <2>1, DiscoverShares
  <2>2. CASE DiscoverOffline
    BY <2>2, DiscoverOfflineShares
  <2>3. CASE phase' # "discovered"
    BY <2>3 DEF SlotsShared
  <2>4. CASE UNCHANGED vars
    BY <2>4 DEF vars, SlotsShared
  <2>5. CASE Dispatch \/ Forget
    BY <2>5 DEF Dispatch, Forget, SlotsShared
  <2>6. QED
    BY <2>1, <2>2, <2>3, <2>4, <2>5
       DEF Next, Begin, Collect, ProbeTransport, JudgeLight, Publish, Fail, Tick
<1>3. QED
  BY <1>1, <1>2, Invariance, PTL DEF Spec
=============================================================================
