------------------------------ MODULE UpdateRun -----------------------------
(***************************************************************************)
(* The update workflow (.github/workflows/update.yml): runs dispatched by  *)
(* hand, one at a time, each working on a checkout of its own and pushing  *)
(* what it made to main, where others push their commits too.  The state   *)
(* the Light builder keeps travels with the branch, so what a run knows is *)
(* what its checkout holds.                                                *)
(*                                                                         *)
(* A list is [of, headers, lines]: the run that made it, the metadata      *)
(* lines above it and the configurations in it.  The fields told, rowsAt   *)
(* and historyAt of a tree are not files: they record the observations     *)
(* that led to it and when they were last written down; commits of others  *)
(* are counted, since none of them touches the files a run publishes.      *)
(***************************************************************************)
EXTENDS LightPersist

CONSTANTS Runs,          \* 1..n, in the order of their dispatch
          Builds,        \* what the Light builder may end with: [os, lines]
          MinPublish,    \* LIGHT_MIN_PUBLISH
          PushTries,     \* attempts of the publishing loop
          MaxTime, MaxOthers, MaxEntries \* bounds: clock, others' commits, dispatches
                                         \* and re-runs together

ASSUME UpdateAssumption ==
  /\ Runs \subseteq Nat \ {0}
  /\ {MinPublish, PushTries} \subseteq Nat \ {0}
  /\ {MaxTime, MaxOthers, MaxEntries} \subseteq Nat
  /\ \A b \in Builds :
       /\ b.os \subseteq Observations /\ IsFiniteSet(b.os) /\ b.lines \in Nat
       /\ \A o, p \in b.os : o.c = p.c => o = p    \* final_attempts has one entry for each

VARIABLES now, main, run

vars == <<now, main, run>>

NoList == [of |-> 0, headers |-> 0, lines |-> 0]

EmptyTree ==
  [all |-> NoList, light |-> NoList, allBase64 |-> NoList, lightBase64 |-> NoList,
   rows |-> {}, model |-> NoModel, history |-> <<>>,
   told |-> {}, rowsAt |-> 0, historyAt |-> 0]

Files(tree) == <<tree.all, tree.light, tree.allBase64, tree.lightBase64,
                 tree.rows, tree.model, tree.history>>

NoBuild == [os |-> {}, lines |-> 0]

Ended   == {"published", "unchanged", "failed", "cancelled"}
Working == {"collect", "rows", "model", "history", "list", "label", "encode",
            "fetch", "push"}

\* Mutant: nothing keeps the runs apart.
FreeAnyway == TRUE

Busy(r) == run[r].step \in Working

Free == \A r \in Runs : ~Busy(r)

NoRun == [step |-> "none", base |-> EmptyTree, tree |-> EmptyTree, build |-> NoBuild,
          others |-> 0, tip |-> 0, attempt |-> 0, alone |-> FALSE, entries |-> 0]

\* A light.txt from before the state was kept, or none yet.
Init ==
  /\ now = 0
  /\ \E l \in {NoList, [of |-> 0, headers |-> 1, lines |-> MinPublish]} :
       main = [commit |-> 0, others |-> 0,
               tree |-> [EmptyTree EXCEPT !.light = l, !.lightBase64 = l]]
  /\ run = [r \in Runs |-> NoRun]

-----------------------------------------------------------------------------
(* Dispatch and the concurrency group.                                     *)

\* Mutant: the branch as it is now.
CheckoutNow(r) == main.tree

\* What actions/checkout delivers: the commit of the dispatch.
Checkout(r) == run[r].base

Started(r, q) == [q EXCEPT !.step = "collect", !.tree = q.base]

\* One run works and one waits; a later one takes the place of the one that
\* waits.
Enter(r, q) ==
  /\ MapThenSumSet(LAMBDA s : run[s].entries, Runs) < MaxEntries
  /\ UNCHANGED <<now, main>>
  /\ run' = [s \in Runs |->
             CASE s = r -> IF Free THEN Started(r, q) ELSE [q EXCEPT !.step = "queued"]
               [] s # r /\ run[s].step = "queued" -> [run[s] EXCEPT !.step = "cancelled"]
               [] OTHER -> run[s]]

Dispatch(r) ==
  /\ run[r].step = "none" /\ \A s \in Runs : s < r => run[s].step # "none"
  /\ Enter(r, [NoRun EXCEPT !.base = main.tree, !.entries = 1,
                            !.alone = \A s \in Runs : run[s].step \in Ended \cup {"none"}])

\* The same run again, under the same id and of the same commit.
Rerun(r) ==
  /\ run[r].step \in Ended
  /\ Enter(r, [NoRun EXCEPT !.base = Checkout(r), !.entries = run[r].entries + 1])

Begin(r) ==
  /\ run[r].step = "queued" /\ Free
  /\ run' = [run EXCEPT ![r] = Started(r, run[r])]
  /\ UNCHANGED <<now, main>>

-----------------------------------------------------------------------------
(* The steps of a run, on its own tree.                                    *)

Finished(q, step) ==
  [q EXCEPT !.step = step, !.tree = EmptyTree, !.build = NoBuild, !.others = 0,
            !.tip = 0, !.attempt = 0, !.alone = FALSE]

\* A run at step s becomes q.
Works(r, s, q) ==
  /\ run[r].step = s
  /\ run' = [run EXCEPT ![r] = q]
  /\ UNCHANGED <<now, main>>

\* Step s leaves the tree t and hands over to step next.
Leaves(r, s, next, t) == Works(r, s, [run[r] EXCEPT !.step = next, !.tree = t])

\* The collector writes all.txt, then the gates of the builder find what they
\* find and it writes the list beside the tree.
Collect(r) ==
  \E b \in Builds :
    Works(r, "collect",
      [run[r] EXCEPT !.step = "rows", !.build = b,
                     !.tree.all = [of |-> r, headers |-> 0, lines |-> 1]])

\* How many runs led to a tree.
Turns(tree) == Cardinality({e.n : e \in tree.told})

Rows(r) ==
  LET q   == run[r]
      new == {Row(r, o, now) : o \in q.build.os}
  IN  Leaves(r, "rows", "model",
        [q.tree EXCEPT
           !.rows   = PersistedRows(q.tree.rows, new, now),
           !.rowsAt = now,
           !.told   = @ \cup {[n |-> Turns(q.tree) + 1, run |-> r, at |-> now, o |-> o] :
                                o \in q.build.os}])

Model(r) ==
  Leaves(r, "model", "history",
         [run[r].tree EXCEPT !.model = UpdatedModel(@, run[r].build.os)])

History(r) ==
  \E h \in PersistedHistories(run[r].tree.history, run[r].build.os, now) :
    Leaves(r, "history", "list", [run[r].tree EXCEPT !.history = h, !.historyAt = now])

\* Mutant: any list that is not empty.
EnoughForOne(b) == b.lines > 0

Enough(b) == b.lines >= MinPublish

List(r) ==
  LET q == run[r]
  IN  Leaves(r, "list", "label",
        IF Enough(q.build)
        THEN [q.tree EXCEPT !.light = [of |-> r, headers |-> 0, lines |-> q.build.lines]]
        ELSE q.tree)

\* test -s, then a header above whatever the file holds.
Label(r) ==
  LET t == run[r].tree
  IN  IF NoList \in {t.all, t.light} THEN Works(r, "label", Finished(run[r], "failed"))
      ELSE Leaves(r, "label", "encode",
             [t EXCEPT !.all.headers = @ + 1, !.light.headers = @ + 1])

\* Mutant: a list that was not replaced keeps its encoding.
EncodedFresh(r, t) ==
  [t EXCEPT !.allBase64 = t.all,
            !.lightBase64 = IF t.light.of = r THEN t.light ELSE @]

Encoded(r, t) == [t EXCEPT !.allBase64 = t.all, !.lightBase64 = t.light]

\* From here on the tree is the snapshot of the publishing loop.
Encode(r) == Leaves(r, "encode", "fetch", Encoded(r, run[r].tree))

\* Mutant: the status of the builder is not looked at.
AfterFailureOn(r) ==
  IF run[r].step \in {"rows", "model", "history"}
  THEN [run[r] EXCEPT !.step = "list", !.build = NoBuild]
  ELSE Finished(run[r], "failed")

\* A run of commands that returns an error, a cancelled job or one that ran
\* out of time: nothing after it is executed and the checkout is gone.
AfterFailure(r) == Finished(run[r], "failed")

Fail(r) == Busy(r) /\ Works(r, run[r].step, AfterFailure(r))

-----------------------------------------------------------------------------
(* The publishing loop.                                                    *)

\* The snapshot over the files of main.  An empty file of rows is not in it.
Reapplied(t) ==
  IF t.rows = {} THEN [t EXCEPT !.rows = main.tree.rows] ELSE t

\* Mutant: fetched and counted before the loop instead of in it.
FetchBefore(r) ==
  Works(r, "fetch",
    IF run[r].attempt > 0 THEN [run[r] EXCEPT !.step = "push"]
    ELSE [run[r] EXCEPT !.step = "push", !.others = main.others, !.tip = main.commit,
                        !.attempt = 1])

Fetch(r) ==
  LET q == run[r]
      t == Reapplied(q.tree)
  IN  IF Files(t) = Files(main.tree) THEN Works(r, "fetch", Finished(q, "unchanged"))
      ELSE Works(r, "fetch",
             [q EXCEPT !.step = "push", !.others = main.others, !.tip = main.commit,
                       !.attempt = @ + 1])

\* Mutant: the push is forced.
FastForwardForced(r) == TRUE

FastForward(r) == run[r].tip = main.commit

Push(r) ==
  /\ run[r].step = "push" /\ FastForward(r)
  /\ main' = [commit |-> main.commit + 1, others |-> run[r].others,
              tree |-> Reapplied(run[r].tree)]
  /\ run' = [run EXCEPT ![r] = Finished(run[r], "published")]
  /\ UNCHANGED now

TriesLeft(r) == run[r].attempt < PushTries

Rejected(r) ==
  /\ ~FastForward(r)
  /\ Works(r, "push", IF TriesLeft(r) THEN [run[r] EXCEPT !.step = "fetch"]
                      ELSE Finished(run[r], "failed"))

-----------------------------------------------------------------------------
(* Around the runs.                                                        *)

Others ==
  /\ main.others < MaxOthers
  /\ main' = [main EXCEPT !.commit = @ + 1, !.others = @ + 1]
  /\ UNCHANGED <<now, run>>

Tick ==
  /\ now < MaxTime /\ now' = now + 1
  /\ UNCHANGED <<main, run>>

Step(r) ==
  \/ Collect(r) \/ Rows(r) \/ Model(r) \/ History(r)
  \/ List(r) \/ Label(r) \/ Encode(r)
  \/ Fetch(r) \/ Push(r) \/ Rejected(r)

Next ==
  \/ \E r \in Runs : Dispatch(r) \/ Rerun(r) \/ Begin(r) \/ Step(r) \/ Fail(r)
  \/ Others \/ Tick

\* A job ends: it has 45 minutes; the group starts the run that waits.
Fairness == WF_vars(\E r \in Runs : Step(r) \/ Begin(r))

Spec == Init /\ [][Next]_vars /\ Fairness

-----------------------------------------------------------------------------
(* Properties.                                                             *)

Made(e) == Row(e.run, e.o, e.at)

\* Of the observations the model and the history on main have learned from,
\* the rows of main hold every one that is within the retention, unless
\* MaxRows newer rows are there, and none of them twice.  Rows of other runs
\* may be among them: an empty file is not published, so those that main
\* already had stay.
RowsTell ==
  LET t    == main.tree
      live == Unexpired({Made(e) : e \in t.told}, t.rowsAt)
  IN  /\ \A a \in live \ t.rows : Cardinality({b \in t.rows : Newer(b, a)}) = MaxRows
      /\ Cardinality(t.rows) <= MaxRows
      /\ \A a, b \in t.rows : Id(a) = Id(b) => a = b

\* The model counts every candidate a run tested once, whatever failed,
\* was retried or was published in between.
ModelTells ==
  LET t     == main.tree
      of(k) == {e \in t.told : e.o.key = k}
  IN  /\ t.model.total_attempts = Cardinality(t.told)
      /\ t.model.total_successes = Cardinality({e \in t.told : e.o.pass})
      /\ \A k \in Keys :
           /\ t.model.attempts[k] = Cardinality(of(k))
           /\ t.model.successes[k] = Cardinality({e \in of(k) : e.o.pass})

\* An entry of the history is the outcome of the latest tests of its
\* candidate, as many as it counts; and below the cap a candidate tested
\* within the retention has one.
HistoryTells ==
  LET t         == main.tree
      of(c)     == {e \in t.told : e.o.c = c}
      latest(c) == {e \in of(c) :
                      Cardinality({d \in of(c) : d.n > e.n}) < t.history[c].checks}
  IN  /\ \A c \in DOMAIN t.history :
           /\ t.history[c].checks \in 1..Cardinality(of(c))
           /\ t.history[c].passes = Cardinality({e \in latest(c) : e.o.pass})
           /\ \A e \in of(c) : e.at <= t.history[c].last_seen
      /\ Cardinality(DOMAIN t.history) < HistoryMax =>
           \A e \in t.told :
             e.at + HistoryKeep >= t.historyAt => e.o.c \in DOMAIN t.history

\* The three files that carry what was learned tell the same story, whatever
\* failed, was retried or was published in between: no step of a failed run
\* ever shows.
MainTellsOneStory == RowsTell /\ ModelTells /\ HistoryTells

\* A run that is run again counts no observation a second time: the dataset
\* would notice the same id, the model and the history would not, and it is
\* the checkout that saves them.
RunsCountOnce ==
  \A d, e \in main.tree.told : d.run = e.run /\ d.o.c = e.o.c => d = e

\* Whoever follows a link gets the same list plain and encoded, the headers
\* a kept list collects included; and once there is a Light list, it never
\* falls below the minimum.
ListsArePublishable ==
  /\ main.tree.allBase64 = main.tree.all
  /\ main.tree.lightBase64 = main.tree.light
  /\ main.tree.light = NoList \/ main.tree.light.lines >= MinPublish
  /\ main.commit > main.others => main.tree.light # NoList

\* No push takes away what others pushed, whenever they did; and a run
\* dispatched while none worked or waited publishes on top of everything
\* learned before it.  Of one that overlapped another this is not so: its
\* checkout is as old as its dispatch.
PushesKeep ==
  [][/\ main'.others >= main.others
     /\ \A r \in Runs :
          run[r].alone /\ run[r].step = "push" /\ run'[r].step = "published"
            => main.tree.told \subseteq main'.tree.told]_vars

\* No run holds the concurrency group for ever, so the one that waits begins.
GroupIsFreed == []<>Free
=============================================================================
