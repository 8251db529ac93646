--------------------------- MODULE UpdateRunProofs --------------------------
(***************************************************************************)
(* What the update workflow keeps for any number of runs, re-runs, builds  *)
(* and commits of others: lists that may be published, observations that   *)
(* count once, and commits that stay.                                      *)
(*                                                                         *)
(* The argument is about one run at a time: what is Sound of a run depends *)
(* on main and, through Known, on which runs were ever dispatched.  Both   *)
(* change in a way that every other run can bear, because at most one run  *)
(* works at a time.                                                        *)
(*                                                                         *)
(* The second half is about what the rows, the model and the history of a  *)
(* tree tell (StoryInv): all three the same, except in the tree of a run   *)
(* between its steps rows, model and history, where the later ones tell    *)
(* only what was Earlier.  That tree is nobody else's, and the run leaves  *)
(* it whole or not at all.                                                 *)
(***************************************************************************)
EXTENDS UpdateRun, FiniteSetTheorems, TLAPS

Lists == [of : Nat, headers : Nat, lines : Nat]
Steps == Working \cup Ended \cup {"none", "queued"}

\* The fields of a tree and of a run, whatever they hold.
IsTree(t) ==
  t \in [all : {t.all}, light : {t.light}, allBase64 : {t.allBase64},
         lightBase64 : {t.lightBase64}, rows : {t.rows}, model : {t.model},
         history : {t.history}, told : {t.told}, rowsAt : {t.rowsAt},
         historyAt : {t.historyAt}]

IsRun(q) ==
  q \in [step : {q.step}, base : {q.base}, tree : {q.tree}, build : {q.build},
         others : {q.others}, tip : {q.tip}, attempt : {q.attempt}, alone : {q.alone},
         entries : {q.entries}]

Once(T)       == \A d, e \in T : d.run = e.run /\ d.o.c = e.o.c => d = e
Known(T)      == \A e \in T : e.run \in Runs /\ run[e.run].step # "none"
Without(r, T) == \A e \in T : e.run # r
Matching(t)   == t.allBase64 = t.all /\ t.lightBase64 = t.light
Full(t)       == t.light.lines >= MinPublish

TreeOK(t) ==
  /\ IsTree(t) /\ t.light \in Lists
  /\ t.light = NoList \/ Full(t)
  /\ Once(t.told) /\ Known(t.told)

Sound(r, q) ==
  /\ IsRun(q) /\ q.step \in Steps /\ q.build \in Builds \cup {NoBuild}
  /\ q.others \in Nat /\ q.tip \in Nat /\ q.alone \in BOOLEAN
  /\ TreeOK(q.base) /\ TreeOK(q.tree)
  /\ Without(r, q.base.told)
  /\ q.step \in {"collect", "rows"} => Without(r, q.tree.told)
  /\ q.step \in {"encode", "fetch", "push"} => Full(q.tree)
  /\ q.step \in {"fetch", "push"} => Matching(q.tree)
  /\ q.step = "push" => /\ q.tip <= main.commit
                        /\ q.tip = main.commit => q.others = main.others
  /\ q.alone => q.step \in Working /\ main.tree.told \subseteq q.tree.told

MainOK ==
  /\ main \in [commit : {main.commit}, others : {main.others}, tree : {main.tree}]
  /\ main.commit \in Nat /\ main.others \in Nat
  /\ TreeOK(main.tree) /\ Matching(main.tree)
  /\ main.commit > main.others => Full(main.tree)

OneWorks == \A r, s \in Runs : Busy(r) /\ Busy(s) => r = s

IInv ==
  /\ MainOK
  /\ run = [r \in Runs |-> run[r]]
  /\ \A r \in Runs : Sound(r, run[r])
  /\ OneWorks

-----------------------------------------------------------------------------
(* Trees and runs in general.                                              *)

\* A list is the empty one or has the minimum, never both.
LEMMA FullIsNotEmpty ==
  ASSUME NEW t, Full(t)
  PROVE  t.light # NoList
BY UpdateAssumption DEF Full, NoList

LEMMA EmptyTreeOK == TreeOK(EmptyTree) /\ EmptyTree.told = {}
BY DEF TreeOK, IsTree, EmptyTree, NoList, Lists, Once, Known

\* Runs once dispatched stay known.
LEMMA KnownStays ==
  ASSUME NEW t, TreeOK(t),
         \A r \in Runs : run[r].step # "none" => run'[r].step # "none"
  PROVE  TreeOK(t)'
BY DEF TreeOK, IsTree, Full, Once, Known

\* What a run was Sound with stays so, unless main moves under it.
LEMMA SoundStays ==
  ASSUME NEW r \in Runs, NEW q, Sound(r, q), UNCHANGED main,
         \A s \in Runs : run[s].step # "none" => run'[s].step # "none"
  PROVE  Sound(r, q)'
<1>1. TreeOK(q.base)' /\ TreeOK(q.tree)'
  BY KnownStays DEF Sound
<1> QED  BY <1>1 DEF Sound, IsRun, Without, Full, Matching

LEMMA MainStays ==
  ASSUME MainOK, UNCHANGED main,
         \A s \in Runs : run[s].step # "none" => run'[s].step # "none"
  PROVE  MainOK'
<1>1. TreeOK(main.tree)'
  BY KnownStays DEF MainOK
<1> QED  BY <1>1 DEF MainOK, Full, Matching

\* One run changes, alone with the group or because it is free.
LEMMA OneRunKeeps ==
  ASSUME IInv, NEW r \in Runs, NEW q, run' = [run EXCEPT ![r] = q], UNCHANGED main,
         Sound(r, q), q.step # "none", q.step \in Working => Busy(r) \/ Free
  PROVE  IInv'
<1>1. \A s \in Runs : run'[s] = IF s = r THEN q ELSE run[s]
  BY DEF IInv
<1>2. \A s \in Runs : run[s].step # "none" => run'[s].step # "none"
  BY <1>1
<1>3. MainOK'
  BY <1>2, MainStays DEF IInv
<1>4. run' = [s \in Runs |-> run'[s]]
  BY DEF IInv
<1>5. \A s \in Runs : Sound(s, run[s])
  BY DEF IInv
<1>6. ASSUME NEW s \in Runs PROVE Sound(s, run[s])'
  <2>1. CASE s = r
    <3>1. Sound(r, q)'
      BY <1>2, SoundStays
    <3> QED  BY <2>1, <3>1, <1>1 DEF Sound
  <2>2. CASE s # r
    <3> DEFINE p == run[s]
    <3>1. Sound(s, p)
      BY <1>5
    <3>2. run'[s] = p
      BY <2>2, <1>1
    <3>3. TreeOK(p.base)' /\ TreeOK(p.tree)'
      BY <3>1, <3>2, <1>2, KnownStays DEF Sound, TreeOK, IsTree, Full, Once, Known
    <3> QED  BY <3>1, <3>2, <3>3 DEF Sound, IsRun, Without, Full, Matching
  <2> QED  BY <2>1, <2>2
<1>7. OneWorks'
  BY <1>1 DEF IInv, OneWorks, Busy, Free
<1> QED  BY <1>3, <1>4, <1>6, <1>7 DEF IInv

-----------------------------------------------------------------------------
(* The group.                                                              *)

\* A run that has nothing in hand yet.
Entering(r, q) ==
  /\ IsRun(q) /\ q.tree = EmptyTree /\ q.build = NoBuild /\ q.others = 0 /\ q.tip = 0
  /\ TreeOK(q.base) /\ Without(r, q.base.told)
  /\ q.alone \in BOOLEAN
  /\ q.alone => Free /\ q.base = main.tree

\* The checkout a run works on may be old, but it is one of main's, from before
\* the run.
LEMMA EnterKeeps ==
  ASSUME IInv, NEW r \in Runs, ~Busy(r), NEW q, Entering(r, q), Enter(r, q)
  PROVE  IInv'
<1> DEFINE p(s) == CASE s = r -> IF Free THEN Started(r, q) ELSE [q EXCEPT !.step = "queued"]
                     [] s # r /\ run[s].step = "queued" -> [run[s] EXCEPT !.step = "cancelled"]
                     [] OTHER -> run[s]
<1>1. UNCHANGED main /\ \A s \in Runs : run'[s] = p(s)
  BY DEF Enter
<1>2. ASSUME Free PROVE Sound(r, Started(r, q)) /\ Started(r, q).step = "collect"
  <2> DEFINE c == Started(r, q)
  <2>1. /\ IsRun(c) /\ c.step = "collect" /\ c.base = q.base /\ c.tree = q.base
        /\ c.build = q.build /\ c.others = q.others /\ c.tip = q.tip /\ c.alone = q.alone
    BY DEF Entering, IsRun, Started
  <2> HIDE DEF c
  <2>2. Sound(r, c)
    BY <2>1 DEF Entering, Sound, Steps, Working
  <2> QED  BY <2>1, <2>2 DEF c
<1>3. ASSUME ~Free PROVE /\ Sound(r, [q EXCEPT !.step = "queued"])
                         /\ [q EXCEPT !.step = "queued"].step = "queued"
  <2> DEFINE c == [q EXCEPT !.step = "queued"]
  <2>1. /\ IsRun(c) /\ c.step = "queued" /\ c.base = q.base /\ c.tree = q.tree
        /\ c.build = q.build /\ c.others = q.others /\ c.tip = q.tip /\ c.alone = q.alone
    BY DEF Entering, IsRun
  <2> HIDE DEF c
  <2>2. Sound(r, c)
    BY <1>3, <2>1, EmptyTreeOK DEF Entering, Sound, Steps, Working
  <2> QED  BY <2>1, <2>2 DEF c
<1>4. ASSUME NEW s \in Runs, s # r, run[s].step = "queued"
      PROVE  /\ Sound(s, [run[s] EXCEPT !.step = "cancelled"])
             /\ [run[s] EXCEPT !.step = "cancelled"].step = "cancelled"
  <2> DEFINE o == run[s]
             c == [o EXCEPT !.step = "cancelled"]
  <2>1. Sound(s, o) /\ o.step = "queued"
    BY <1>4 DEF IInv
  <2>2. /\ IsRun(c) /\ c.step = "cancelled" /\ c.base = o.base /\ c.tree = o.tree
        /\ c.build = o.build /\ c.others = o.others /\ c.tip = o.tip /\ c.alone = o.alone
    BY <2>1 DEF IsRun, Sound
  <2> HIDE DEF c
  <2>3. ~o.alone
    BY <2>1 DEF Sound, Working
  <2>4. Sound(s, c)
    BY <2>1, <2>2, <2>3 DEF Sound, Steps, Ended
  <2> QED  BY <2>2, <2>4 DEF c
<1>5. \A s \in Runs :
        \/ Sound(s, p(s)) /\ p(s).step # "none"
        \/ s # r /\ p(s) = run[s]
  BY <1>2, <1>3, <1>4
<1>6. \A s \in Runs : Sound(s, p(s))
  BY <1>5 DEF IInv
<1>7. \A s \in Runs : p(s).step \in Working => IF s = r THEN Free ELSE Busy(s)
  BY <1>2, <1>3, <1>4 DEF Busy, Working
<1> HIDE DEF p
<1>8. \A s \in Runs : run[s].step # "none" => run'[s].step # "none"
  BY <1>1, <1>5
<1>9. MainOK'
  BY <1>1, <1>8, MainStays DEF IInv
<1>10. ASSUME NEW s \in Runs PROVE Sound(s, run[s])'
  <2>1. TreeOK(p(s).base) /\ TreeOK(p(s).tree) /\ run'[s] = p(s)
    BY <1>1, <1>6 DEF Sound
  <2>2. TreeOK(run[s].base)' /\ TreeOK(run[s].tree)'
    BY <2>1, <1>8 DEF TreeOK, IsTree, Full, Once, Known
  <2> QED  BY <2>1, <2>2, <1>1, <1>6 DEF Sound, IsRun, Without, Full, Matching
<1>11. OneWorks'
  BY <1>1, <1>7 DEF OneWorks, Busy, Free, IInv
<1>12. run' = [s \in Runs |-> run'[s]]
  BY DEF Enter
<1> QED  BY <1>9, <1>10, <1>11, <1>12 DEF IInv

LEMMA NoRunFields ==
  /\ IsRun(NoRun) /\ NoRun.tree = EmptyTree /\ NoRun.build = NoBuild
  /\ NoRun.others = 0 /\ NoRun.tip = 0
BY DEF IsRun, NoRun

LEMMA DispatchKeeps ==
  ASSUME IInv, NEW r \in Runs, Dispatch(r)
  PROVE  IInv'
<1> DEFINE a == \A s \in Runs : run[s].step \in Ended \cup {"none"}
           q == [NoRun EXCEPT !.base = main.tree, !.entries = 1, !.alone = a]
<1>1. run[r].step = "none" /\ ~Busy(r)
  BY DEF Dispatch, Busy, Working
<1>2. TreeOK(main.tree) /\ Without(r, main.tree.told)
  BY <1>1 DEF IInv, MainOK, TreeOK, Known, Without
<1>3. (a => Free) /\ a \in BOOLEAN
  BY DEF Free, Busy, Working, Ended
<1>4. Enter(r, q)
  BY DEF Dispatch
<1> HIDE DEF a
<1>5. /\ IsRun(q) /\ q.base = main.tree /\ q.tree = EmptyTree /\ q.build = NoBuild
      /\ q.others = 0 /\ q.tip = 0 /\ q.alone = a
  BY NoRunFields DEF IsRun
<1> HIDE DEF q
<1>6. Entering(r, q)
  BY <1>2, <1>3, <1>5 DEF Entering
<1> QED  BY <1>1, <1>4, <1>6, EnterKeeps

LEMMA RerunKeeps ==
  ASSUME IInv, NEW r \in Runs, Rerun(r)
  PROVE  IInv'
<1> DEFINE b == run[r].base
           n == run[r].entries + 1
           q == [NoRun EXCEPT !.base = b, !.entries = n]
<1>1. ~Busy(r)
  BY DEF Rerun, Busy, Working, Ended
<1>2. TreeOK(b) /\ Without(r, b.told)
  BY DEF IInv, Sound
<1>3. Enter(r, q)
  BY DEF Rerun, Checkout
<1> HIDE DEF b, n
<1>4. /\ IsRun(q) /\ q.base = b /\ q.tree = EmptyTree /\ q.build = NoBuild
      /\ q.others = 0 /\ q.tip = 0 /\ q.alone = NoRun.alone
  BY NoRunFields DEF IsRun
<1>5. ~NoRun.alone /\ NoRun.alone \in BOOLEAN
  BY DEF NoRun
<1> HIDE DEF q
<1>6. Entering(r, q)
  BY <1>2, <1>4, <1>5 DEF Entering
<1> QED  BY <1>1, <1>3, <1>6, EnterKeeps

LEMMA BeginKeeps ==
  ASSUME IInv, NEW r \in Runs, Begin(r)
  PROVE  IInv'
<1> DEFINE o == run[r]
           q == Started(r, o)
<1>1. Sound(r, o) /\ o.step = "queued" /\ Free
  BY DEF Begin, IInv
<1>2. /\ IsRun(q) /\ q.step = "collect" /\ q.base = o.base /\ q.tree = o.base
      /\ q.build = o.build /\ q.others = o.others /\ q.tip = o.tip /\ q.alone = o.alone
  BY <1>1 DEF Sound, IsRun, Started
<1>3. run' = [run EXCEPT ![r] = q] /\ UNCHANGED main
  BY DEF Begin
<1> HIDE DEF q
<1>4. ~o.alone
  BY <1>1 DEF Sound, Working
<1>5. Sound(r, q)
  BY <1>1, <1>2, <1>4 DEF Sound, Steps, Working
<1> QED  BY <1>1, <1>2, <1>3, <1>5, OneRunKeeps

-----------------------------------------------------------------------------
(* The steps of a run.                                                     *)

\* A run ends, and with it what it had in hand.
LEMMA FinishedRun ==
  ASSUME IInv, NEW r \in Runs, NEW step \in Ended, NEW q, q = Finished(run[r], step)
  PROVE  Sound(r, q) /\ q.step = step /\ step # "none" /\ step \notin Working
<1> DEFINE o == run[r]
<1>1. Sound(r, o)
  BY DEF IInv
<1>2. /\ IsRun(q) /\ q.step = step /\ q.base = o.base /\ q.tree = EmptyTree
      /\ q.build = NoBuild /\ q.others = 0 /\ q.tip = 0
  BY <1>1 DEF Sound, IsRun, Finished
<1>4. q.alone \in BOOLEAN /\ ~q.alone
  BY <1>1 DEF Sound, IsRun, Finished
<1>3. step # "none" /\ step \notin Working
  BY DEF Ended, Working
<1> QED  BY <1>1, <1>2, <1>3, <1>4, EmptyTreeOK DEF Sound, Steps, Ended

LEMMA FinishKeeps ==
  ASSUME IInv, NEW r \in Runs, NEW s, NEW step \in Ended,
         Works(r, s, Finished(run[r], step))
  PROVE  IInv'
<1> DEFINE q == Finished(run[r], step)
<1>1. run' = [run EXCEPT ![r] = q] /\ UNCHANGED main
  BY DEF Works
<1>2. Sound(r, q) /\ q.step # "none" /\ q.step \notin Working
  BY FinishedRun
<1> HIDE DEF q
<1> QED  BY <1>1, <1>2, OneRunKeeps

\* A run goes on with a tree that holds at least what it held.
LEMMA LeavesKeeps ==
  ASSUME IInv, NEW r \in Runs, NEW s \in Working, NEW next \in Working \ {"collect", "rows", "push"},
         NEW t, Leaves(r, s, next, t), TreeOK(t), run[r].tree.told \subseteq t.told,
         next \in {"encode", "fetch"} => Full(t), next = "fetch" => Matching(t)
  PROVE  IInv'
<1> DEFINE o == run[r]
           q == [o EXCEPT !.step = next, !.tree = t]
<1>1. Sound(r, o) /\ o.step = s /\ Busy(r)
  BY DEF IInv, Leaves, Works, Busy
<1>2. /\ IsRun(q) /\ q.step = next /\ q.base = o.base /\ q.tree = t
      /\ q.build = o.build /\ q.others = o.others /\ q.tip = o.tip /\ q.alone = o.alone
  BY <1>1 DEF Sound, IsRun
<1>3. run' = [run EXCEPT ![r] = q] /\ UNCHANGED main
  BY DEF Leaves, Works
<1> HIDE DEF q
<1>4. Sound(r, q)
  BY <1>1, <1>2 DEF Sound, Steps
<1>5. q.step # "none"
  BY <1>2 DEF Working
<1> QED  BY <1>1, <1>3, <1>4, <1>5, OneRunKeeps

LEMMA CollectKeeps ==
  ASSUME IInv, NEW r \in Runs, Collect(r)
  PROVE  IInv'
<1> DEFINE o == run[r]
<1>1. Sound(r, o) /\ o.step = "collect" /\ Busy(r)
  BY DEF IInv, Collect, Works, Busy, Working
<1>2. PICK b \in Builds :
        Works(r, "collect",
              [o EXCEPT !.step = "rows", !.build = b,
                        !.tree.all = [of |-> r, headers |-> 0, lines |-> 1]])
  BY DEF Collect
<1> DEFINE all == [of |-> r, headers |-> 0, lines |-> 1]
           t == [o.tree EXCEPT !.all = all]
           q == [o EXCEPT !.step = "rows", !.build = b, !.tree.all = all]
<1>3. /\ IsTree(t) /\ t.light = o.tree.light /\ t.told = o.tree.told
  BY <1>1 DEF Sound, TreeOK, IsTree
<1>4. /\ IsRun(q) /\ q.step = "rows" /\ q.base = o.base /\ q.tree = t
      /\ q.build = b /\ q.others = o.others /\ q.tip = o.tip /\ q.alone = o.alone
  BY <1>1 DEF Sound, IsRun
<1>5. run' = [run EXCEPT ![r] = q] /\ UNCHANGED main
  BY <1>2 DEF Works
<1> HIDE DEF q, t
<1>6. TreeOK(t)
  BY <1>1, <1>3 DEF Sound, TreeOK, Full
<1>7. Sound(r, q)
  BY <1>1, <1>3, <1>4, <1>6 DEF Sound, Steps, Working
<1> QED  BY <1>1, <1>4, <1>5, <1>7, OneRunKeeps

\* The observations of the run are new to its tree, and a build has one of a
\* candidate.
LEMMA RowsKeeps ==
  ASSUME IInv, NEW r \in Runs, Rows(r)
  PROVE  IInv'
<1> DEFINE o == run[r]
           rows == PersistedRows(o.tree.rows, {Row(r, x, now) : x \in o.build.os}, now)
           new  == {[n |-> Turns(o.tree) + 1, run |-> r, at |-> now, o |-> x] :
                      x \in o.build.os}
           t == [o.tree EXCEPT !.rows = rows, !.rowsAt = now, !.told = @ \cup new]
<1>1. Sound(r, o) /\ o.step = "rows" /\ Leaves(r, "rows", "model", t)
  BY DEF IInv, Rows, Leaves, Works
<1> HIDE DEF rows
<1>2. IsTree(t) /\ t.light = o.tree.light /\ t.told = o.tree.told \cup new
  <2> HIDE DEF new
  <2> QED  BY <1>1 DEF Sound, TreeOK, IsTree
<1>3. \A x, y \in o.build.os : x.c = y.c => x = y
  BY <1>1, UpdateAssumption DEF Sound, NoBuild
<1>4. \A e \in new : e.run = r
  OBVIOUS
<1>5. Once(new)
  BY <1>3 DEF Once
<1>6. Without(r, o.tree.told) /\ Once(o.tree.told) /\ Known(o.tree.told)
  BY <1>1 DEF Sound, TreeOK
<1> HIDE DEF new, t
<1>7. Once(t.told)
  BY <1>2, <1>4, <1>5, <1>6 DEF Once, Without
<1>8. Known(t.told)
  BY <1>1, <1>2, <1>4, <1>6 DEF Known
<1>9. TreeOK(t)
  BY <1>1, <1>2, <1>7, <1>8 DEF Sound, TreeOK, Full
<1> QED  BY <1>1, <1>2, <1>9, LeavesKeeps DEF Working

LEMMA ModelKeeps ==
  ASSUME IInv, NEW r \in Runs, Model(r)
  PROVE  IInv'
<1> DEFINE o == run[r].tree
           m == UpdatedModel(o.model, run[r].build.os)
           t == [o EXCEPT !.model = m]
<1>1. TreeOK(o) /\ Leaves(r, "model", "history", t)
  BY DEF IInv, Sound, Model
<1> HIDE DEF m
<1>2. IsTree(t) /\ t.light = o.light /\ t.told = o.told
  BY <1>1 DEF TreeOK, IsTree
<1> HIDE DEF t
<1>3. TreeOK(t)
  BY <1>1, <1>2 DEF TreeOK, Full
<1> QED  BY <1>1, <1>2, <1>3, LeavesKeeps DEF Working

LEMMA HistoryKeeps ==
  ASSUME IInv, NEW r \in Runs, History(r)
  PROVE  IInv'
<1> DEFINE o == run[r].tree
<1>1. PICK h \in PersistedHistories(o.history, run[r].build.os, now) :
        Leaves(r, "history", "list", [o EXCEPT !.history = h, !.historyAt = now])
  BY DEF History
<1> DEFINE t == [o EXCEPT !.history = h, !.historyAt = now]
<1>2. TreeOK(o)
  BY DEF IInv, Sound
<1>3. IsTree(t) /\ t.light = o.light /\ t.told = o.told
  BY <1>2 DEF TreeOK, IsTree
<1> HIDE DEF t
<1>4. TreeOK(t)
  BY <1>2, <1>3 DEF TreeOK, Full
<1>5. Leaves(r, "history", "list", t)
  BY <1>1 DEF t
<1> QED  BY <1>3, <1>4, <1>5, LeavesKeeps DEF Working

\* A list is replaced by one that has the minimum, or not at all.
LEMMA ListKeeps ==
  ASSUME IInv, NEW r \in Runs, List(r)
  PROVE  IInv'
<1> DEFINE q == run[r]
           l == [of |-> r, headers |-> 0, lines |-> q.build.lines]
           t == [q.tree EXCEPT !.light = l]
<1>1. TreeOK(q.tree) /\ q.build \in Builds \cup {NoBuild}
  BY DEF IInv, Sound
<1>2. l \in Lists
  BY <1>1, UpdateAssumption DEF Lists, NoBuild
<1>3. CASE Enough(q.build)
  <2>1. l.lines >= MinPublish
    BY <1>3 DEF Enough
  <2> HIDE DEF l
  <2>2. IsTree(t) /\ t.light = l /\ t.told = q.tree.told
    BY <1>1 DEF TreeOK, IsTree
  <2>3. Leaves(r, "list", "label", t)
    BY <1>3 DEF List, l
  <2> HIDE DEF t
  <2>4. TreeOK(t)
    BY <1>1, <1>2, <2>1, <2>2 DEF TreeOK, Full
  <2> QED  BY <2>2, <2>3, <2>4, LeavesKeeps DEF Working
<1>4. CASE ~Enough(q.build)
  <2>1. Leaves(r, "list", "label", q.tree)
    BY <1>4 DEF List
  <2> QED  BY <1>1, <2>1, LeavesKeeps DEF Working
<1> QED  BY <1>3, <1>4

\* What is labelled is no empty list.
LEMMA LabelKeeps ==
  ASSUME IInv, NEW r \in Runs, Label(r)
  PROVE  IInv'
<1> DEFINE o == run[r].tree
           t == [o EXCEPT !.all.headers = @ + 1, !.light.headers = @ + 1]
<1>1. TreeOK(o)
  BY DEF IInv, Sound
<1>2. CASE NoList \in {o.all, o.light}
  BY <1>2, FinishKeeps DEF Label, Ended
<1>3. CASE NoList \notin {o.all, o.light}
  <2>1. Leaves(r, "label", "encode", t)
    BY <1>3 DEF Label
  <2>2. IsTree(t) /\ t.told = o.told /\ t.light = [o.light EXCEPT !.headers = @ + 1]
    BY <1>1 DEF TreeOK, IsTree
  <2>3. o.light \in Lists /\ Full(o)
    BY <1>1, <1>3 DEF TreeOK
  <2>4. /\ [o.light EXCEPT !.headers = @ + 1] \in Lists
        /\ [o.light EXCEPT !.headers = @ + 1].lines = o.light.lines
    BY <2>3 DEF Lists
  <2> HIDE DEF t
  <2>5. TreeOK(t) /\ Full(t)
    BY <1>1, <2>2, <2>3, <2>4 DEF TreeOK, Full
  <2> QED  BY <2>1, <2>2, <2>5, LeavesKeeps DEF Working
<1> QED  BY <1>2, <1>3

LEMMA EncodeKeeps ==
  ASSUME IInv, NEW r \in Runs, Encode(r)
  PROVE  IInv'
<1> DEFINE o == run[r].tree
           t == [o EXCEPT !.allBase64 = o.all, !.lightBase64 = o.light]
<1>1. TreeOK(o) /\ Full(o) /\ Leaves(r, "encode", "fetch", t)
  BY DEF IInv, Sound, Encode, Encoded, Leaves, Works
<1>2. /\ IsTree(t) /\ t.told = o.told /\ t.light = o.light /\ t.all = o.all
      /\ t.allBase64 = o.all /\ t.lightBase64 = o.light
  BY <1>1 DEF TreeOK, IsTree
<1> HIDE DEF t
<1>3. TreeOK(t) /\ Full(t) /\ Matching(t)
  BY <1>1, <1>2 DEF TreeOK, Full, Matching
<1> QED  BY <1>1, <1>2, <1>3, LeavesKeeps DEF Working

LEMMA FailKeeps ==
  ASSUME IInv, NEW r \in Runs, Fail(r)
  PROVE  IInv'
BY FinishKeeps DEF Fail, AfterFailure, Ended

-----------------------------------------------------------------------------
(* The publishing loop.                                                    *)

LEMMA FetchKeeps ==
  ASSUME IInv, NEW r \in Runs, Fetch(r)
  PROVE  IInv'
<1> DEFINE o == run[r]
           q == [o EXCEPT !.step = "push", !.others = main.others, !.tip = main.commit,
                          !.attempt = @ + 1]
<1>1. \/ Works(r, "fetch", Finished(o, "unchanged"))
      \/ Works(r, "fetch", q)
  BY DEF Fetch
<1>2. CASE Works(r, "fetch", Finished(o, "unchanged"))
  BY <1>2, FinishKeeps DEF Ended
<1>3. CASE Works(r, "fetch", q)
  <2>1. Sound(r, o) /\ o.step = "fetch" /\ Busy(r)
    BY <1>3 DEF IInv, Works, Busy, Working
  <2>2. /\ IsRun(q) /\ q.step = "push" /\ q.base = o.base /\ q.tree = o.tree
        /\ q.build = o.build /\ q.others = main.others /\ q.tip = main.commit
        /\ q.alone = o.alone
    BY <2>1 DEF Sound, IsRun
  <2>3. run' = [run EXCEPT ![r] = q] /\ UNCHANGED main
    BY <1>3 DEF Works
  <2> HIDE DEF q
  <2>4. main.others \in Nat /\ main.commit \in Nat
    BY DEF IInv, MainOK
  <2>5. Sound(r, q)
    BY <2>1, <2>2, <2>4 DEF Sound, Steps, Working
  <2> QED  BY <2>1, <2>2, <2>3, <2>5, OneRunKeeps
<1> QED  BY <1>1, <1>2, <1>3

LEMMA RejectedKeeps ==
  ASSUME IInv, NEW r \in Runs, Rejected(r)
  PROVE  IInv'
<1> DEFINE o == run[r]
           q == [o EXCEPT !.step = "fetch"]
<1>1. CASE Works(r, "push", Finished(o, "failed"))
  BY <1>1, FinishKeeps DEF Ended
<1>2. CASE Works(r, "push", q)
  <2>1. Sound(r, o) /\ o.step = "push" /\ Busy(r)
    BY <1>2 DEF IInv, Works, Busy, Working
  <2>2. /\ IsRun(q) /\ q.step = "fetch" /\ q.base = o.base /\ q.tree = o.tree
        /\ q.build = o.build /\ q.others = o.others /\ q.tip = o.tip
        /\ q.alone = o.alone
    BY <2>1 DEF Sound, IsRun
  <2>3. run' = [run EXCEPT ![r] = q] /\ UNCHANGED main
    BY <1>2 DEF Works
  <2> HIDE DEF q
  <2>4. Sound(r, q)
    BY <2>1, <2>2 DEF Sound, Steps, Working
  <2> QED  BY <2>1, <2>2, <2>3, <2>4, OneRunKeeps
<1> QED  BY <1>1, <1>2 DEF Rejected

\* What a push makes of main.
LEMMA PushedMain ==
  ASSUME IInv, NEW r \in Runs, Push(r)
  PROVE  /\ main' \in [commit : {main.commit + 1}, others : {main.others},
                       tree : {Reapplied(run[r].tree)}]
         /\ TreeOK(Reapplied(run[r].tree))
         /\ Matching(Reapplied(run[r].tree)) /\ Full(Reapplied(run[r].tree))
         /\ Reapplied(run[r].tree).told = run[r].tree.told
<1> DEFINE o == run[r].tree
           t == Reapplied(o)
<1>1. /\ Sound(r, run[r]) /\ run[r].step = "push" /\ run[r].others = main.others
  BY DEF IInv, Push, FastForward, Sound
<1>2. TreeOK(o) /\ Matching(o) /\ Full(o)
  BY <1>1 DEF Sound
<1>3. /\ IsTree(t) /\ t.told = o.told /\ t.light = o.light /\ t.all = o.all
      /\ t.allBase64 = o.allBase64 /\ t.lightBase64 = o.lightBase64
  BY <1>2 DEF TreeOK, IsTree, Reapplied
<1>4. main' = [commit |-> main.commit + 1, others |-> run[r].others, tree |-> t]
  BY DEF Push
<1> HIDE DEF t
<1>5. TreeOK(t) /\ Matching(t) /\ Full(t)
  BY <1>2, <1>3 DEF TreeOK, Matching, Full
<1> QED  BY <1>1, <1>3, <1>4, <1>5 DEF t

LEMMA PushKeeps ==
  ASSUME IInv, NEW r \in Runs, Push(r)
  PROVE  IInv'
<1> DEFINE q == Finished(run[r], "published")
           t == Reapplied(run[r].tree)
<1>1. /\ run[r].step = "push" /\ Busy(r) /\ run' = [run EXCEPT ![r] = q]
  BY DEF Push, Busy, Working
<1>2. Sound(r, q) /\ q.step = "published"
  BY FinishedRun DEF Ended
<1> HIDE DEF q
<1>3. \A s \in Runs : run'[s] = IF s = r THEN q ELSE run[s]
  BY <1>1 DEF IInv
<1>4. \A s \in Runs : run[s].step # "none" => run'[s].step # "none"
  BY <1>2, <1>3
<1>5. /\ main' \in [commit : {main.commit + 1}, others : {main.others}, tree : {t}]
      /\ TreeOK(t) /\ Matching(t) /\ Full(t)
  BY PushedMain
<1> HIDE DEF t
<1>6. main'.commit = main.commit + 1 /\ main'.others = main.others /\ main'.tree = t
  BY <1>5
<1>7. MainOK'
  <2>1. TreeOK(main.tree)'
    BY <1>4, <1>5, <1>6 DEF TreeOK, IsTree, Full, Once, Known
  <2> QED  BY <2>1, <1>5, <1>6 DEF IInv, MainOK, Matching, Full
<1>8. ASSUME NEW s \in Runs PROVE Sound(s, run[s])'
  <2>0. PICK o : o = run'[s]
    OBVIOUS
  <2>1. Sound(s, o) /\ ~(o.step \in Working)
    BY <2>0, <1>1, <1>2, <1>3 DEF IInv, OneWorks, Busy, Working
  <2>2. TreeOK(o.base)' /\ TreeOK(o.tree)'
    BY <2>1, <1>4 DEF Sound, TreeOK, IsTree, Full, Once, Known
  <2>3. o.step # "push" /\ ~o.alone
    BY <2>1 DEF Sound, Working
  <2> QED  BY <2>0, <2>1, <2>2, <2>3 DEF Sound, IsRun, Without, Full, Matching
<1>9. OneWorks'
  BY <1>2, <1>3 DEF IInv, OneWorks, Busy, Working
<1>10. run' = [s \in Runs |-> run'[s]]
  BY <1>1 DEF IInv
<1> QED  BY <1>7, <1>8, <1>9, <1>10 DEF IInv

\* A commit of others puts main ahead of everything fetched before.
LEMMA OthersKeeps ==
  ASSUME IInv, Others
  PROVE  IInv'
<1>1. /\ main' \in [commit : {main.commit + 1}, others : {main.others + 1},
                    tree : {main.tree}]
      /\ run' = run
  BY DEF Others, IInv, MainOK
<1>2. /\ main'.commit = main.commit + 1 /\ main'.others = main.others + 1
      /\ main'.tree = main.tree
  BY <1>1
<1>3. MainOK'
  <2>1. TreeOK(main.tree)'
    BY <1>1, <1>2 DEF IInv, MainOK, TreeOK, IsTree, Full, Once, Known
  <2> QED  BY <2>1, <1>1, <1>2 DEF IInv, MainOK, Matching, Full
<1>4. ASSUME NEW s \in Runs PROVE Sound(s, run[s])'
  <2> DEFINE o == run[s]
  <2>1. Sound(s, o) /\ main.commit \in Nat
    BY DEF IInv, MainOK
  <2>2. TreeOK(o.base)' /\ TreeOK(o.tree)'
    BY <1>1, <2>1 DEF Sound, TreeOK, IsTree, Full, Once, Known
  <2> QED  BY <1>1, <1>2, <2>1, <2>2 DEF Sound, IsRun, Without, Full, Matching
<1>5. OneWorks'
  BY <1>1 DEF IInv, OneWorks, Busy
<1> QED  BY <1>1, <1>3, <1>4, <1>5 DEF IInv

LEMMA StandStillKeeps ==
  ASSUME IInv, UNCHANGED <<main, run>>
  PROVE  IInv'
<1>1. MainOK'
  BY MainStays DEF IInv
<1>2. ASSUME NEW s \in Runs PROVE Sound(s, run[s])'
  <2> DEFINE o == run[s]
  <2>1. Sound(s, o)
    BY DEF IInv
  <2>2. TreeOK(o.base)' /\ TreeOK(o.tree)'
    BY <2>1 DEF Sound, TreeOK, IsTree, Full, Once, Known
  <2> QED  BY <2>1, <2>2 DEF Sound, IsRun, Without, Full, Matching
<1>3. OneWorks'
  BY DEF IInv, OneWorks, Busy
<1> QED  BY <1>1, <1>2, <1>3 DEF IInv

-----------------------------------------------------------------------------
(* The theorems.                                                           *)

LEMMA InitOK == Init => IInv
<1> SUFFICES ASSUME Init PROVE IInv
  OBVIOUS
<1>1. PICK l \in {NoList, [of |-> 0, headers |-> 1, lines |-> MinPublish]} :
        main = [commit |-> 0, others |-> 0,
                tree |-> [EmptyTree EXCEPT !.light = l, !.lightBase64 = l]]
  BY DEF Init
<1>2. /\ l \in Lists
      /\ l = NoList \/ l.lines >= MinPublish
  BY UpdateAssumption DEF Lists, NoList
<1> DEFINE t == [EmptyTree EXCEPT !.light = l, !.lightBase64 = l]
<1>3. IsTree(EmptyTree) /\ EmptyTree.told = {} /\ EmptyTree.allBase64 = EmptyTree.all
  BY DEF EmptyTree, IsTree
<1>4. /\ IsTree(t) /\ t.told = {} /\ t.light = l /\ t.lightBase64 = l
      /\ t.allBase64 = t.all
  BY <1>3 DEF IsTree
<1> HIDE DEF t
<1>5. TreeOK(t) /\ Matching(t)
  BY <1>2, <1>4 DEF TreeOK, Matching, Full, Once, Known
<1>6. MainOK
  <2>1. main = [commit |-> 0, others |-> 0, tree |-> t]
    BY <1>1 DEF t
  <2> QED  BY <2>1, <1>5 DEF MainOK
<1>7. NoRun.step = "none" /\ NoRun.base = EmptyTree /\ NoRun.alone \in BOOLEAN /\ ~NoRun.alone
  BY DEF NoRun
<1>8. \A r \in Runs : Sound(r, NoRun)
  BY <1>7, NoRunFields, EmptyTreeOK DEF Sound, Steps, Without
<1>9. run = [r \in Runs |-> NoRun]
  BY DEF Init
<1>10. OneWorks
  BY <1>7, <1>9 DEF OneWorks, Busy, Working
<1> QED  BY <1>6, <1>8, <1>9, <1>10 DEF IInv

LEMMA NextKeeps == IInv /\ [Next]_vars => IInv'
<1> SUFFICES ASSUME IInv, [Next]_vars PROVE IInv'
  OBVIOUS
<1>1. ASSUME NEW r \in Runs, Dispatch(r) \/ Rerun(r) \/ Begin(r) \/ Fail(r)
      PROVE  IInv'
  BY <1>1, DispatchKeeps, RerunKeeps, BeginKeeps, FailKeeps
<1>2. ASSUME NEW r \in Runs, Step(r)
      PROVE  IInv'
  BY <1>2, CollectKeeps, RowsKeeps, ModelKeeps, HistoryKeeps, ListKeeps, LabelKeeps,
     EncodeKeeps, FetchKeeps, PushKeeps, RejectedKeeps DEF Step
<1>3. CASE Others
  BY <1>3, OthersKeeps
<1>4. CASE Tick \/ UNCHANGED vars
  BY <1>4, StandStillKeeps DEF Tick, vars
<1> QED  BY <1>1, <1>2, <1>3, <1>4 DEF Next

LEMMA Invariance == Spec => []IInv
BY InitOK, NextKeeps, PTL DEF Spec

\* Plain and encoded lists are the same at every commit, and a Light list, once
\* there is one, has the minimum (update.yml: the builder's step, the header, the
\* encoding and the snapshot).
THEOREM ListsStayPublishable == Spec => []ListsArePublishable
<1>1. IInv => ListsArePublishable
  BY FullIsNotEmpty DEF IInv, MainOK, TreeOK, Matching, Full, ListsArePublishable
<1> QED  BY <1>1, Invariance, PTL

\* No observation of a run counts twice, however often the run is run again:
\* the checkout is of the dispatch (actions/checkout).
THEOREM ObservationsCountOnce == Spec => []RunsCountOnce
<1>1. IInv => RunsCountOnce
  BY DEF IInv, MainOK, TreeOK, Once, RunsCountOnce
<1> QED  BY <1>1, Invariance, PTL

\* One step and the commits it leaves.
Kept ==
  /\ main'.others >= main.others
  /\ \A r \in Runs :
       run[r].alone /\ run[r].step = "push" /\ run'[r].step = "published"
         => main.tree.told \subseteq main'.tree.told

LEMMA StepKeepsCommits == IInv /\ [Next]_vars => Kept
<1> SUFFICES ASSUME IInv, [Next]_vars PROVE Kept
  OBVIOUS
<1>1. main.others \in Nat
  BY DEF IInv, MainOK
<1>2. ASSUME UNCHANGED main PROVE Kept
  BY <1>1, <1>2 DEF Kept
<1>3. ASSUME NEW r \in Runs, Push(r) PROVE Kept
  <2>1. /\ main'.others = main.others
        /\ main'.tree.told = run[r].tree.told
    BY <1>3, PushedMain
  <2>2. \A s \in Runs : s # r => run'[s] = run[s]
    BY <1>3 DEF Push, IInv
  <2>3. ASSUME NEW s \in Runs, run[s].alone, run[s].step = "push", run'[s].step = "published"
        PROVE  main.tree.told \subseteq main'.tree.told
    <3>1. s = r
      BY <2>2, <2>3
    <3> QED  BY <2>1, <2>3, <3>1 DEF IInv, Sound
  <2> QED  BY <1>1, <2>1, <2>3 DEF Kept
<1>4. CASE Others
  <2>1. main'.others = main.others + 1 /\ main'.tree = main.tree
    BY <1>4 DEF Others, IInv, MainOK
  <2> QED  BY <1>1, <2>1 DEF Kept
<1>5. ASSUME NEW r \in Runs, Dispatch(r) \/ Rerun(r) \/ Begin(r) \/ Fail(r)
      PROVE  UNCHANGED main
  BY <1>5 DEF Dispatch, Rerun, Begin, Fail, Works, Enter
<1>6. ASSUME NEW r \in Runs, Step(r), ~Push(r)
      PROVE  UNCHANGED main
  BY <1>6 DEF Step, Collect, Rows, Model, History, List, Label, Encode, Fetch, Rejected,
              Leaves, Works
<1>7. CASE Tick \/ UNCHANGED vars
  BY <1>2, <1>7 DEF Tick, vars
<1> QED  BY <1>2, <1>3, <1>4, <1>5, <1>6, <1>7 DEF Next

\* No push takes away a commit of others, and a run that did not overlap another
\* publishes on top of all that was learned (update.yml: the publishing loop and
\* the concurrency group).
THEOREM CommitsAreKept == Spec => PushesKeep
<1>1. IInv /\ [Next]_vars => [Kept]_vars
  BY StepKeepsCommits
<1>2. Spec => [][Kept]_vars
  BY <1>1, Invariance, PTL DEF Spec
<1> QED  BY <1>2, PTL DEF PushesKeep, Kept

-----------------------------------------------------------------------------
(* What the files of a tree tell.                                          *)

\* The record of what led to a tree: turns that tell its observations apart, the
\* last of them with the highest number.
IsTold(T, clock) ==
  /\ IsFiniteSet(T)
  /\ \A e \in T : /\ e = [n |-> e.n, run |-> e.run, at |-> e.at, o |-> e.o]
                  /\ e.n \in Nat /\ e.run \in Nat /\ e.o \in Observations
                  /\ e.at \in 0..clock
                  /\ e.n <= Cardinality({d.n : d \in T})
  /\ \A d, e \in T : d.n = e.n /\ d.o.c = e.o.c => d = e

IsRow(a) ==
  a.at \in Nat /\ a.run \in Nat /\ a.c \in Nat /\ ValidRow(a)

Distinct(rows) == \A a, b \in rows : Id(a) = Id(b) => a = b

\* How many rows of M are newer than a.
Ahead(M, a) == Cardinality({b \in M : Newer(b, a)})

RowsStory(rows, T, at) ==
  /\ IsFiniteSet(rows) /\ Cardinality(rows) <= MaxRows
  /\ \A a \in rows : IsRow(a)
  /\ Distinct(rows)
  /\ \A e \in T : e.at + RowKeep >= at =>
       Made(e) \in rows \/ Ahead(rows, Made(e)) = MaxRows

ModelStory(m, T) ==
  LET of(k) == {e \in T : e.o.key = k} IN
  /\ m.total_attempts = Cardinality(T)
  /\ m.total_successes = Cardinality({e \in T : e.o.pass})
  /\ \A k \in Keys : /\ m.attempts[k] = Cardinality(of(k))
                     /\ m.successes[k] = Cardinality({e \in of(k) : e.o.pass})

\* The tests of c, and the latest of them.
Tests(T, c)     == {e \in T : e.o.c = c}
Last(T, c, few) == {e \in Tests(T, c) : Cardinality({d \in Tests(T, c) : d.n > e.n}) < few}

EntryStory(x, T, c) ==
  /\ x.checks \in 1..Cardinality(Tests(T, c))
  /\ x.passes = Cardinality({e \in Last(T, c, x.checks) : e.o.pass})
  /\ x.last_seen \in Nat /\ \A e \in Tests(T, c) : e.at <= x.last_seen

\* What the history forgot within the retention, it forgot for a full one that was
\* all seen since.
HistoryStory(h, T, at) ==
  /\ \A c \in DOMAIN h : EntryStory(h[c], T, c)
  /\ \A e \in T : e.at + HistoryKeep >= at =>
       \/ e.o.c \in DOMAIN h
       \/ /\ Cardinality(DOMAIN h) = HistoryMax
          /\ \A a \in DOMAIN h : h[a].last_seen >= e.at

\* The rows of a tree tell of everything told, its model of M, its history of H.
Tells(t, M, H, clock) ==
  /\ IsTold(t.told, clock) /\ t.rowsAt \in 0..clock /\ t.historyAt \in 0..clock
  /\ RowsStory(t.rows, t.told, t.rowsAt)
  /\ ModelStory(t.model, M)
  /\ HistoryStory(t.history, H, t.historyAt)

Whole(t, clock) == Tells(t, t.told, t.told, clock)

\* What the run of turn n tells of its build.
Report(n, r, at, os) == {[n |-> n, run |-> r, at |-> at, o |-> o] : o \in os}

\* What was told before the run, and what the run added.
Earlier(r, T) == {e \in T : e.run # r}
Newest(r, T, os) ==
  \E n, at \in Nat : /\ T = Earlier(r, T) \cup Report(n, r, at, os)
                     /\ \A e \in Earlier(r, T) : e.n < n

RowsOf(rows, S)     == \A a \in rows : a.run \in S
NoRowsOf(r, rows)   == \A a \in rows : a.run # r

\* K are the runs dispatched so far.
Founded(r, base, clock, K) ==
  Whole(base, clock) /\ RowsOf(base.rows, K) /\ NoRowsOf(r, base.rows)

Telling(r, q, clock, K) ==
  /\ Founded(r, q.base, clock, K)
  /\ RowsOf(q.tree.rows, K)
  /\ q.step \in {"collect", "rows"} => NoRowsOf(r, q.tree.rows)
  /\ q.step \in {"model", "history"} => Newest(r, q.tree.told, q.build.os)
  /\ CASE q.step = "model" ->
            Tells(q.tree, Earlier(r, q.tree.told), Earlier(r, q.tree.told), clock)
       [] q.step = "history" -> Tells(q.tree, q.tree.told, Earlier(r, q.tree.told), clock)
       [] OTHER -> Whole(q.tree, clock)

Dispatched == {r \in Runs : run[r].step # "none"}

StoryInv ==
  /\ now \in Nat
  /\ Whole(main.tree, now) /\ RowsOf(main.tree.rows, Dispatched)
  /\ \A r \in Runs : Telling(r, run[r], now, Dispatched)

-----------------------------------------------------------------------------
(* The rows.                                                               *)

LEMMA NewerOrders ==
  ASSUME NEW a, NEW b, NEW c, IsRow(a), IsRow(b), IsRow(c)
  PROVE  /\ ~Newer(a, a)
         /\ Newer(a, b) /\ Newer(b, c) => Newer(a, c)
         /\ Newer(a, b) /\ ~Newer(c, b) => Newer(a, c)
         /\ Id(a) # Id(b) => Newer(a, b) \/ Newer(b, a)
<1>1. /\ a.at \in Nat /\ a.run \in Nat /\ a.c \in Nat
      /\ b.at \in Nat /\ b.run \in Nat /\ b.c \in Nat
      /\ c.at \in Nat /\ c.run \in Nat /\ c.c \in Nat
  BY DEF IsRow
<1>2. a.run = b.run /\ a.c = b.c => Id(a) = Id(b)
  BY DEF Id
<1> QED  BY <1>1, <1>2 DEF Newer

\* The place of a row among the rows, from the newest on.
LEMMA AheadIsPlace ==
  ASSUME NEW M, IsFiniteSet(M), \A a \in M : IsRow(a), Distinct(M), NEW a \in M
  PROVE  /\ Ahead(M, a) \in 0..(Cardinality(M) - 1)
         /\ \A b \in M : Ahead(M, a) = Ahead(M, b) => a = b
<1> DEFINE Over(x) == {b \in M : Newer(b, x)}
<1>1. \A x \in M : IsFiniteSet(Over(x)) /\ Cardinality(Over(x)) \in Nat
  <2> TAKE x \in M
  <2>1. Over(x) \subseteq M
    OBVIOUS
  <2> HIDE DEF Over
  <2> QED  BY <2>1, FS_Subset, FS_CardinalityType
<1>2. ASSUME NEW x \in M, NEW y \in M, Newer(x, y)
      PROVE  Cardinality(Over(x)) < Cardinality(Over(y))
  <2>1. Over(x) \subseteq Over(y)
    BY <1>2, NewerOrders
  <2>2. x \in Over(y) /\ x \notin Over(x)
    BY <1>2, NewerOrders
  <2> HIDE DEF Over
  <2>3. /\ Cardinality(Over(x)) <= Cardinality(Over(y))
        /\ Cardinality(Over(x)) = Cardinality(Over(y)) => Over(x) = Over(y)
    BY <1>1, <2>1, FS_Subset
  <2> QED  BY <1>1, <2>2, <2>3
<1>3. Ahead(M, a) \in 0..(Cardinality(M) - 1)
  <2>1. Over(a) \subseteq M /\ a \notin Over(a)
    BY NewerOrders
  <2> HIDE DEF Over
  <2>2. /\ Cardinality(Over(a)) <= Cardinality(M)
        /\ Cardinality(Over(a)) = Cardinality(M) => Over(a) = M
        /\ Cardinality(M) \in Nat
    BY <2>1, FS_Subset, FS_CardinalityType
  <2>3. Cardinality(Over(a)) \in 0..(Cardinality(M) - 1)
    BY <1>1, <2>1, <2>2
  <2> QED  BY <2>3 DEF Ahead, Over
<1>4. ASSUME NEW b \in M, Ahead(M, a) = Ahead(M, b) PROVE a = b
  <2>1. Cardinality(Over(a)) = Cardinality(Over(b))
    BY <1>4 DEF Ahead
  <2>2. ~Newer(a, b) /\ ~Newer(b, a)
    <3> HIDE DEF Over
    <3> QED  BY <1>1, <1>2, <2>1
  <2>3. Id(a) = Id(b)
    BY <2>2, NewerOrders
  <2> QED  BY <2>3 DEF Distinct
<1> QED  BY <1>3, <1>4

\* As many rows as the cap allows survive it.
LEMMA TruncatedFills ==
  ASSUME NEW M, IsFiniteSet(M), \A a \in M : IsRow(a), Distinct(M)
  PROVE  /\ Truncated(M) \subseteq M /\ IsFiniteSet(Truncated(M))
         /\ Cardinality(Truncated(M)) <= MaxRows
         /\ Cardinality(M) >= MaxRows => Cardinality(Truncated(M)) = MaxRows
<1> DEFINE k == Cardinality(M)
           T == Truncated(M)
<1>1. MaxRows \in Nat \ {0} /\ k \in Nat
  BY PersistAssumption, FS_CardinalityType
<1>2. T = {a \in M : Ahead(M, a) < MaxRows}
  BY DEF Truncated, Ahead
<1>3. T \subseteq M
  BY <1>2
<1> HIDE DEF k, T
<1>4. IsFiniteSet(T)
  BY <1>3, FS_Subset
<1>5. \A m \in Nat : IsFiniteSet(0..(m - 1)) /\ Cardinality(0..(m - 1)) = m
  <2> TAKE m \in Nat
  <2> DEFINE l == m - 1
  <2>1. l \in Int /\ 0 \in Int
    OBVIOUS
  <2> HIDE DEF l
  <2>2. IsFiniteSet(0..l) /\ Cardinality(0..l) = IF 0 > l THEN 0 ELSE l - 0 + 1
    BY <2>1, FS_Interval
  <2>3. (IF 0 > l THEN 0 ELSE l - 0 + 1) = m
    BY DEF l
  <2>4. IsFiniteSet(0..l) /\ Cardinality(0..l) = m
    BY <2>2, <2>3
  <2> QED  BY <2>4 DEF l
<1> DEFINE f == [a \in M |-> Ahead(M, a)]
           g == [a \in T |-> Ahead(M, a)]
<1>6. f \in Injection(M, 0..(k - 1))
  <2>1. \A a \in M : Ahead(M, a) \in 0..(k - 1)
    BY AheadIsPlace DEF k
  <2>2. \A a, b \in M : Ahead(M, a) = Ahead(M, b) => a = b
    BY AheadIsPlace
  <2> QED  BY <2>1, <2>2 DEF Injection, IsInjective
<1>7. f \in Surjection(M, 0..(k - 1))
  <2> HIDE DEF f
  <2> QED  BY <1>1, <1>5, <1>6, FS_Injection DEF k
<1>8. g \in Injection(T, 0..(MaxRows - 1))
  <2>1. \A a \in T : Ahead(M, a) \in 0..(MaxRows - 1)
    <3> TAKE a \in T
    <3>1. a \in M /\ Ahead(M, a) < MaxRows
      BY <1>2
    <3>2. Ahead(M, a) \in 0..(k - 1)
      BY <3>1, AheadIsPlace DEF k
    <3> QED  BY <1>1, <3>1, <3>2
  <2>2. \A a, b \in T : Ahead(M, a) = Ahead(M, b) => a = b
    BY <1>3, AheadIsPlace
  <2> QED  BY <2>1, <2>2 DEF Injection, IsInjective
<1>9. Cardinality(T) <= MaxRows
  <2> HIDE DEF g
  <2>1. IsFiniteSet(0..(MaxRows - 1)) /\ Cardinality(0..(MaxRows - 1)) = MaxRows
    BY <1>1, <1>5
  <2>2. Cardinality(T) <= Cardinality(0..(MaxRows - 1))
    BY <1>8, <2>1, FS_Injection
  <2> QED  BY <2>1, <2>2
<1>10. ASSUME k >= MaxRows PROVE Cardinality(T) = MaxRows
  <2>1. ASSUME NEW i \in 0..(MaxRows - 1) PROVE \E a \in T : g[a] = i
    <3>1. i \in 0..(k - 1)
      BY <1>1, <1>10, <2>1
    <3>2. PICK a \in M : f[a] = i
      BY <1>7, <3>1 DEF Surjection
    <3>3. a \in T /\ g[a] = i
      BY <1>1, <1>2, <3>2
    <3> QED  BY <3>3
  <2> HIDE DEF g
  <2>2. g \in Surjection(T, 0..(MaxRows - 1))
    BY <1>8, <2>1 DEF Surjection, Injection
  <2>3. IsFiniteSet(0..(MaxRows - 1)) /\ Cardinality(0..(MaxRows - 1)) = MaxRows
    BY <1>1, <1>5
  <2>4. Cardinality(T) = Cardinality(0..(MaxRows - 1))
    BY <1>8, <2>2, <2>3, FS_Injection
  <2> QED  BY <2>3, <2>4
<1> QED  BY <1>3, <1>4, <1>9, <1>10 DEF k, T

\* A row with enough newer ones finds the cap full of newer ones.
LEMMA TruncatedIsNewer ==
  ASSUME NEW M, IsFiniteSet(M), \A a \in M : IsRow(a), Distinct(M),
         NEW a, IsRow(a), Ahead(M, a) >= MaxRows
  PROVE  Ahead(Truncated(M), a) = MaxRows
<1> DEFINE T == Truncated(M)
           Over(x) == {b \in M : Newer(b, x)}
<1>1. MaxRows \in Nat \ {0} /\ Cardinality(M) \in Nat
  BY PersistAssumption, FS_CardinalityType
<1>2. \A x : Over(x) \subseteq M
  OBVIOUS
<1>3. \A x : Ahead(M, x) = Cardinality(Over(x))
  BY DEF Ahead
<1>4. \A x \in T : x \in M /\ Ahead(M, x) < MaxRows
  BY DEF Truncated, Ahead
<1> HIDE DEF T
<1>5. \A x \in M : ~Newer(x, a) => Over(a) \subseteq Over(x)
  BY NewerOrders
<1> HIDE DEF Over
<1>6. \A x : /\ IsFiniteSet(Over(x)) /\ Cardinality(Over(x)) \in Nat
             /\ Cardinality(Over(x)) <= Cardinality(M)
  BY <1>2, FS_Subset, FS_CardinalityType
<1>7. Cardinality(M) >= MaxRows
  BY <1>1, <1>3, <1>6
<1>8. ASSUME NEW x \in T PROVE Newer(x, a)
  <2> SUFFICES ASSUME ~Newer(x, a) PROVE FALSE
    OBVIOUS
  <2>1. Cardinality(Over(a)) <= Cardinality(Over(x))
    BY <1>4, <1>5, <1>6, FS_Subset
  <2> QED  BY <1>1, <1>3, <1>4, <1>6, <2>1
<1>9. Cardinality(T) = MaxRows
  BY <1>7, TruncatedFills DEF T
<1>10. {b \in T : Newer(b, a)} = T
  BY <1>8
<1> QED  BY <1>9, <1>10 DEF Ahead, T

LEMMA RowIsRow ==
  ASSUME NEW r \in Nat, NEW at \in Nat, NEW o \in Observations
  PROVE  /\ IsRow(Row(r, o, at)) /\ Id(Row(r, o, at)) = <<r, o.c>>
         /\ Row(r, o, at).at = at /\ Row(r, o, at).run = r /\ Row(r, o, at).c = o.c
<1>1. /\ o.c \in Nat /\ o.checks \in Nat \ {0}
      /\ o.transfer \in {"untested", "passed", "failed"}
  BY PersistAssumption DEF Observations
<1> DEFINE a == Row(r, o, at)
<1>2. /\ a.run = r /\ a.c = o.c /\ a.at = at /\ a.strict_checks = o.checks
      /\ a.transfer_tested = (o.transfer # "untested")
      /\ a.transfer_pass = IF o.transfer = "untested" THEN "null" ELSE o.transfer
  BY DEF Row
<1> HIDE DEF a
<1>3. a.strict_checks > 0
  BY <1>1, <1>2
<1>4. a.transfer_tested <=> a.transfer_pass # "null"
  BY <1>1, <1>2
<1>5. IsRow(a) /\ Id(a) = <<r, o.c>>
  BY <1>1, <1>2, <1>3, <1>4 DEF IsRow, ValidRow, Id
<1> QED  BY <1>2, <1>5 DEF a

\* The dataset keeps its word when a run adds its rows: what the cap excluded
\* before it excludes still.
LEMMA RowsPersist ==
  ASSUME NEW rows, NEW T, NEW at \in Nat, NEW clock \in Nat, at <= clock,
         RowsStory(rows, T, at), IsTold(T, clock),
         NEW r \in Nat, NoRowsOf(r, rows), \A e \in T : e.run # r,
         NEW os \in SUBSET Observations, IsFiniteSet(os),
         \A o, p \in os : o.c = p.c => o = p,
         NEW after,
         after = PersistedRows(rows, {Row(r, o, clock) : o \in os}, clock)
  PROVE  /\ \A n : RowsStory(after, T \cup Report(n, r, clock, os), clock)
         /\ \A a \in after : a \in rows \/ a.run = r
<1> DEFINE new  == {Row(r, o, clock) : o \in os}
           kept == Unexpired(rows, clock)
           M    == kept \cup new
<1>1. /\ IsFiniteSet(rows) /\ Cardinality(rows) <= MaxRows /\ Cardinality(rows) \in Nat
      /\ \A a \in rows : IsRow(a)
      /\ Distinct(rows)
      /\ \A e \in T : e.at + RowKeep >= at =>
           Made(e) \in rows \/ Ahead(rows, Made(e)) = MaxRows
  BY FS_CardinalityType DEF RowsStory
<1>2. RowKeep \in Nat /\ MaxRows \in Nat \ {0}
  BY PersistAssumption
<1>3. \A a \in new : /\ IsRow(a) /\ a.at = clock /\ a.run = r
                     /\ \E o \in os : a = Row(r, o, clock) /\ Id(a) = <<r, o.c>>
  BY RowIsRow
<1>4. Unexpired(new, clock) = new
  <2>1. \A a \in new : a.at + RowKeep >= clock
    BY <1>2, <1>3
  <2> HIDE DEF new
  <2> QED  BY <2>1 DEF Unexpired
<1>5. IsFiniteSet(new)
  <2> DEFINE f == [o \in os |-> Row(r, o, clock)]
  <2>1. f \in Surjection(os, new)
    BY DEF Surjection
  <2> HIDE DEF f, new
  <2> QED  BY <2>1, FS_Surjection
<1> HIDE DEF new
<1>6. /\ kept \subseteq rows
      /\ \A a \in rows : a \in kept <=> a.at + RowKeep >= clock
  BY DEF Unexpired
<1> HIDE DEF kept
<1>7. after = Truncated(M)
  <2> DEFINE ids == {Id(row) : row \in Unexpired(new, clock)}
  <2>1. \A a \in kept : ValidRow(a) /\ Id(a) \notin ids
    <3> SUFFICES ASSUME NEW a \in kept PROVE ValidRow(a) /\ Id(a) \notin ids
      OBVIOUS
    <3>1. a \in rows /\ ValidRow(a) /\ a.run # r
      BY <1>1, <1>6 DEF IsRow, NoRowsOf
    <3>2. ASSUME NEW b \in new PROVE Id(a) # Id(b)
      BY <1>3, <3>1 DEF Id
    <3> QED  BY <1>4, <3>1, <3>2
  <2>2. {row \in kept : ValidRow(row) /\ Id(row) \notin ids} = kept
    BY <2>1
  <2>3. after = Truncated({row \in kept : ValidRow(row) /\ Id(row) \notin ids}
                            \cup Unexpired(new, clock))
    BY DEF PersistedRows, new, kept
  <2> QED  BY <1>4, <2>2, <2>3
<1>8. /\ IsFiniteSet(M) /\ \A a \in M : IsRow(a)
  BY <1>1, <1>3, <1>5, <1>6, FS_Subset, FS_Union
<1>9. Distinct(M)
  <2> SUFFICES ASSUME NEW a \in M, NEW b \in M, Id(a) = Id(b) PROVE a = b
    BY DEF Distinct
  <2>1. a.run = b.run
    BY DEF Id
  <2>2. CASE a \in kept /\ b \in kept
    BY <1>1, <1>6, <2>2 DEF Distinct
  <2>3. CASE a \in new /\ b \in new
    <3>1. PICK o \in os : a = Row(r, o, clock) /\ Id(a) = <<r, o.c>>
      BY <1>3, <2>3
    <3>2. PICK p \in os : b = Row(r, p, clock) /\ Id(b) = <<r, p.c>>
      BY <1>3, <2>3
    <3>3. o.c = p.c
      BY <3>1, <3>2
    <3> QED  BY <3>1, <3>2, <3>3
  <2>4. \A x \in kept, y \in new : x.run # y.run
    BY <1>3, <1>6 DEF NoRowsOf
  <2> QED  BY <2>1, <2>2, <2>3, <2>4
<1> HIDE DEF M
<1>10. /\ after \subseteq M /\ IsFiniteSet(after) /\ Cardinality(after) <= MaxRows
  BY <1>7, <1>8, <1>9, TruncatedFills
<1>11. ASSUME NEW a, IsRow(a), a \in M \/ Ahead(M, a) >= MaxRows
       PROVE  a \in after \/ Ahead(after, a) = MaxRows
  <2>1. CASE Ahead(M, a) >= MaxRows
    BY <1>7, <1>8, <1>9, <1>11, <2>1, TruncatedIsNewer
  <2>2. CASE a \in M /\ ~(Ahead(M, a) >= MaxRows)
    <3>1. Ahead(M, a) \in Nat
      BY <1>8, <1>9, <2>2, AheadIsPlace
    <3>2. Ahead(M, a) < MaxRows
      BY <1>2, <2>2, <3>1
    <3> QED  BY <1>7, <2>2, <3>2 DEF Truncated, Ahead
  <2> QED  BY <1>11, <2>1, <2>2
<1>12. ASSUME NEW e \in T, e.at + RowKeep >= clock
       PROVE  IsRow(Made(e)) /\ (Made(e) \in M \/ Ahead(M, Made(e)) >= MaxRows)
  <2> DEFINE a == Made(e)
  <2>1. e.at \in Nat /\ e.run \in Nat /\ e.o \in Observations
    <3>1. e.at \in 0..clock /\ e.run \in Nat /\ e.o \in Observations
      BY DEF IsTold
    <3> QED  BY <3>1
  <2>2. IsRow(a) /\ a.at = e.at
    BY <2>1, RowIsRow DEF Made
  <2>3. a \in rows \/ Ahead(rows, a) = MaxRows
    BY <1>1, <1>2, <1>12, <2>1
  <2> HIDE DEF a
  <2>4. CASE a \in rows
    BY <1>6, <1>12, <2>2, <2>4 DEF M, a
  <2>5. CASE Ahead(rows, a) = MaxRows
    <3> DEFINE over == {b \in rows : Newer(b, a)}
    <3>1. over \subseteq rows /\ Cardinality(over) = MaxRows
      BY <2>5 DEF Ahead
    <3>2. \A b \in over : b.at + RowKeep >= clock
      <4> TAKE b \in over
      <4>1. b \in rows /\ Newer(b, a) /\ b.at \in Nat
        BY <1>1 DEF IsRow
      <4>2. b.at >= a.at
        BY <2>1, <2>2, <4>1 DEF Newer
      <4> QED  BY <1>2, <1>12, <2>1, <2>2, <4>1, <4>2
    <3>3. over \subseteq {b \in M : Newer(b, a)}
      BY <1>6, <3>2 DEF M
    <3>4. IsFiniteSet({b \in M : Newer(b, a)})
      BY <1>8, FS_Subset
    <3> DEFINE wide == {b \in M : Newer(b, a)}
    <3> HIDE DEF over, wide
    <3>5. Cardinality(over) <= Cardinality(wide) /\ Cardinality(wide) \in Nat
      BY <3>3, <3>4, FS_Subset, FS_CardinalityType DEF wide
    <3> QED  BY <1>2, <2>2, <3>1, <3>5 DEF Ahead, wide, a
  <2> QED  BY <2>2, <2>3, <2>4, <2>5 DEF a
<1>13. ASSUME NEW o \in os, NEW n,
              NEW e, e = [n |-> n, run |-> r, at |-> clock, o |-> o]
       PROVE  IsRow(Made(e)) /\ Made(e) \in M
  <2>1. Made(e) = Row(r, o, clock)
    BY <1>13 DEF Made
  <2> QED  BY <2>1, RowIsRow DEF M, new
<1>14. Distinct(after) /\ \A a \in after : IsRow(a)
  BY <1>8, <1>9, <1>10 DEF Distinct
<1>15. ASSUME NEW n PROVE RowsStory(after, T \cup Report(n, r, clock, os), clock)
  <2> SUFFICES ASSUME NEW e \in T \cup Report(n, r, clock, os),
                      e.at + RowKeep >= clock
               PROVE  Made(e) \in after \/ Ahead(after, Made(e)) = MaxRows
    BY <1>10, <1>14 DEF RowsStory
  <2>1. IsRow(Made(e)) /\ (Made(e) \in M \/ Ahead(M, Made(e)) >= MaxRows)
    BY <1>12, <1>13 DEF Report
  <2> QED  BY <1>11, <2>1
<1>16. \A a \in after : a \in rows \/ a.run = r
  BY <1>3, <1>6, <1>10 DEF M
<1> QED  BY <1>15, <1>16

-----------------------------------------------------------------------------
(* What a run adds to a record.                                            *)

LEMMA FiniteIsNatural ==
  ASSUME NEW S, IsFiniteSet(S), NEW T, T \subseteq S
  PROVE  /\ IsFiniteSet(T) /\ Cardinality(T) \in Nat /\ Cardinality(S) \in Nat
         /\ Cardinality(T) <= Cardinality(S)
         /\ Cardinality(T) = Cardinality(S) => T = S
BY FS_Subset, FS_CardinalityType

\* A report has an entry for each observation.
LEMMA ReportCounts ==
  ASSUME NEW A, IsFiniteSet(A), NEW os, IsFiniteSet(os), NEW n, NEW r, NEW at,
         \A e \in A : e.n # n
  PROVE  /\ IsFiniteSet(A \cup Report(n, r, at, os))
         /\ Cardinality(A \cup Report(n, r, at, os)) = Cardinality(A) + Cardinality(os)
<1> DEFINE N == Report(n, r, at, os)
           f == [o \in os |-> [n |-> n, run |-> r, at |-> at, o |-> o]]
<1>1. f \in Surjection(os, N)
  BY DEF Surjection, Report
<1>2. f \in Injection(os, N)
  <2>1. f \in [os -> N]
    BY DEF Report
  <2>2. \A o, p \in os : f[o] = f[p] => o = p
    <3> TAKE o, p \in os
    <3>1. f[o].o = o /\ f[p].o = p
      OBVIOUS
    <3> QED  BY <3>1
  <2> HIDE DEF f
  <2> QED  BY <2>1, <2>2 DEF Injection, IsInjective
<1>3. \A e \in N : e.n = n
  BY DEF Report
<1> HIDE DEF f, N
<1>4. IsFiniteSet(N) /\ Cardinality(N) = Cardinality(os)
  BY <1>1, <1>2, FS_Surjection
<1>5. A \cap N = {}
  BY <1>3
<1>6. Cardinality(A) \in Nat /\ Cardinality(N) \in Nat
  BY <1>4, FS_CardinalityType
<1>7. /\ IsFiniteSet(A \cup N)
      /\ Cardinality(A \cup N) = Cardinality(A) + Cardinality(N) - Cardinality(A \cap N)
  BY <1>4, FS_Union
<1>8. Cardinality(A \cap N) = 0
  BY <1>5, FS_EmptySet
<1> QED  BY <1>4, <1>6, <1>7, <1>8 DEF N

\* What the report of a new turn makes of a record.
LEMMA RecordGrows ==
  ASSUME NEW T, NEW clock \in Nat, IsTold(T, clock), NEW r \in Nat, \A e \in T : e.run # r,
         NEW os \in SUBSET Observations, IsFiniteSet(os),
         \A o, p \in os : o.c = p.c => o = p,
         NEW n, n = Cardinality({e.n : e \in T}) + 1,
         NEW after, after = T \cup Report(n, r, clock, os)
  PROVE  IsTold(after, clock) /\ n \in Nat /\ Earlier(r, after) = T /\ Newest(r, after, os)
<1> DEFINE ns == {e.n : e \in T}
           ms == {e.n : e \in after}
           N  == Report(n, r, clock, os)
<1>1. /\ IsFiniteSet(T)
      /\ \A e \in T : /\ e = [n |-> e.n, run |-> e.run, at |-> e.at, o |-> e.o]
                      /\ e.n \in Nat /\ e.run \in Nat /\ e.o \in Observations
                      /\ e.at \in 0..clock /\ e.n <= Cardinality(ns)
      /\ \A d, e \in T : d.n = e.n /\ d.o.c = e.o.c => d = e
  BY DEF IsTold
<1>2. IsFiniteSet(ns)
  <2> DEFINE f == [e \in T |-> e.n]
  <2>1. f \in Surjection(T, ns)
    BY DEF Surjection
  <2> HIDE DEF f, ns
  <2> QED  BY <1>1, <2>1, FS_Surjection
<1>3. Cardinality(ns) \in Nat
  BY <1>2, FS_CardinalityType
<1>4. n = Cardinality(ns) + 1
  OBVIOUS
<1> HIDE DEF ns
<1>5. n \in Nat /\ \A e \in T : e.n < n
  <2>1. n \in Nat
    BY <1>3, <1>4
  <2>2. ASSUME NEW e \in T PROVE e.n < n
    <3>1. e.n \in Nat /\ e.n <= Cardinality(ns)
      BY <1>1
    <3> QED  BY <1>3, <1>4, <3>1
  <2> QED  BY <2>1, <2>2
<1>6. \A e \in N : /\ e = [n |-> e.n, run |-> e.run, at |-> e.at, o |-> e.o]
                   /\ e.n = n /\ e.run = r /\ e.at = clock /\ e.o \in os
  BY DEF Report
<1>12. \A e \in N : e.n = n
  BY <1>6
<1>7. IsFiniteSet(after)
  <2>1. \A e \in T : e.n # n
    BY <1>5
  <2> QED  BY <1>1, <2>1, ReportCounts
<1>8. \A e \in after : e.n <= Cardinality(ms)
  <2>1. CASE os = {}
    <3>1. after = T
      BY <2>1 DEF Report
    <3> QED  BY <1>1, <3>1 DEF ns
  <2>2. CASE os # {}
    <3>1. ms = ns \cup {n}
      <4>1. N # {}
        <5>1. PICK o \in os : TRUE
          BY <2>2
        <5>2. [n |-> n, run |-> r, at |-> clock, o |-> o] \in N
          BY <5>1 DEF Report
        <5> QED  BY <5>2
      <4> QED  BY <1>6, <4>1 DEF ns
    <3>2. n \notin ns
      BY <1>5 DEF ns
    <3> HIDE DEF ms
    <3>3. Cardinality(ms) = n
      BY <1>2, <1>4, <3>1, <3>2, FS_AddElement
    <3> HIDE DEF N
    <3>4. \A e \in after : e.n <= n
      <4> TAKE e \in after
      <4>1. CASE e \in T
        BY <1>1, <1>5, <4>1
      <4>2. CASE e \in N
        <5>1. e.n = n
          BY <1>12, <4>2
        <5> QED  BY <1>5, <5>1
      <4> QED  BY <4>1, <4>2 DEF N
    <3> QED  BY <3>3, <3>4
  <2> QED  BY <2>1, <2>2
<1>9. \A d, e \in after : d.n = e.n /\ d.o.c = e.o.c => d = e
  <2> SUFFICES ASSUME NEW d \in after, NEW e \in after, d.n = e.n, d.o.c = e.o.c
               PROVE  d = e
    OBVIOUS
  <2> HIDE DEF N
  <2>1. d \in T \/ d \in N
    BY DEF N
  <2>2. e \in T \/ e \in N
    BY DEF N
  <2>3. CASE d \in T /\ e \in T
    BY <1>1, <2>3
  <2>4. CASE d \in N /\ e \in N
    <3>1. d.o = e.o
      BY <1>6, <2>4
    <3> QED  BY <1>6, <2>4, <3>1
  <2>5. ASSUME NEW a \in T, NEW b \in N PROVE a.n # b.n
    <3>1. a.n < n /\ b.n = n
      BY <1>5, <1>12
    <3> QED  BY <1>5, <3>1
  <2> QED  BY <2>1, <2>2, <2>3, <2>4, <2>5
<1>10. IsTold(after, clock)
  <2>1. \A e \in N : e.n \in Nat /\ e.run \in Nat /\ e.o \in Observations /\ e.at \in 0..clock
    BY <1>5, <1>6
  <2> QED  BY <1>1, <1>6, <1>7, <1>8, <1>9, <2>1 DEF IsTold
<1>11. Earlier(r, after) = T
  BY <1>6 DEF Earlier
<1> QED  BY <1>5, <1>10, <1>11 DEF Newest

\* The model learns what a run reports.
LEMMA ModelLearns ==
  ASSUME NEW T, IsFiniteSet(T), NEW m, ModelStory(m, T),
         NEW n \in Nat, \A e \in T : e.n < n /\ e.n \in Nat,
         NEW os \in SUBSET Observations, IsFiniteSet(os), NEW r, NEW at
  PROVE  ModelStory(UpdatedModel(m, os), T \cup Report(n, r, at, os))
<1> DEFINE N == Report(n, r, at, os)
           after == T \cup N
           u == UpdatedModel(m, os)
<1>1. \A e \in T : e.n # n
  OBVIOUS
<1>2. Cardinality(after) = Cardinality(T) + Cardinality(os)
  BY <1>1, ReportCounts
<1>3. Cardinality({e \in after : e.o.pass})
        = Cardinality({e \in T : e.o.pass}) + Cardinality({o \in os : o.pass})
  <2> DEFINE A == {e \in T : e.o.pass}
             S == {o \in os : o.pass}
  <2>1. {e \in after : e.o.pass} = A \cup Report(n, r, at, S)
    BY DEF Report
  <2>2. A \subseteq T /\ S \subseteq os
    OBVIOUS
  <2> HIDE DEF A, S
  <2>3. IsFiniteSet(A) /\ IsFiniteSet(S) /\ \A e \in A : e.n # n
    BY <1>1, <2>2, FiniteIsNatural
  <2>4. Cardinality(A \cup Report(n, r, at, S)) = Cardinality(A) + Cardinality(S)
    BY <2>3, ReportCounts
  <2> QED  BY <2>1, <2>4 DEF A, S
<1>4. ASSUME NEW k \in Keys
      PROVE  Cardinality({e \in after : e.o.key = k})
               = Cardinality({e \in T : e.o.key = k}) + Trials(os, k)
  <2> DEFINE A == {e \in T : e.o.key = k}
             S == {o \in os : o.key = k}
  <2>1. {e \in after : e.o.key = k} = A \cup Report(n, r, at, S)
    BY DEF Report
  <2>2. A \subseteq T /\ S \subseteq os
    OBVIOUS
  <2> HIDE DEF A, S
  <2>3. IsFiniteSet(A) /\ IsFiniteSet(S) /\ \A e \in A : e.n # n
    BY <1>1, <2>2, FiniteIsNatural
  <2>4. Cardinality(A \cup Report(n, r, at, S)) = Cardinality(A) + Cardinality(S)
    BY <2>3, ReportCounts
  <2> QED  BY <2>1, <2>4 DEF A, S, Trials
<1>5. ASSUME NEW k \in Keys
      PROVE  Cardinality({e \in {d \in after : d.o.key = k} : e.o.pass})
               = Cardinality({e \in {d \in T : d.o.key = k} : e.o.pass}) + Successes(os, k)
  <2> DEFINE A == {e \in {d \in T : d.o.key = k} : e.o.pass}
             S == {o \in os : o.key = k /\ o.pass}
  <2>1. {e \in {d \in after : d.o.key = k} : e.o.pass} = A \cup Report(n, r, at, S)
    BY DEF Report
  <2>2. A \subseteq T /\ S \subseteq os
    OBVIOUS
  <2> HIDE DEF A, S
  <2>3. IsFiniteSet(A) /\ IsFiniteSet(S) /\ \A e \in A : e.n # n
    BY <1>1, <2>2, FiniteIsNatural
  <2>4. Cardinality(A \cup Report(n, r, at, S)) = Cardinality(A) + Cardinality(S)
    BY <2>3, ReportCounts
  <2> QED  BY <2>1, <2>4 DEF A, S, Successes
<1>6. /\ m.total_attempts = Cardinality(T)
      /\ m.total_successes = Cardinality({e \in T : e.o.pass})
      /\ \A k \in Keys :
           /\ m.attempts[k] = Cardinality({e \in T : e.o.key = k})
           /\ m.successes[k] = Cardinality({e \in {d \in T : d.o.key = k} : e.o.pass})
  BY DEF ModelStory
<1>7. /\ u.total_attempts = m.total_attempts + Cardinality(os)
      /\ u.total_successes = m.total_successes + Cardinality({o \in os : o.pass})
      /\ \A k \in Keys : /\ u.attempts[k] = m.attempts[k] + Trials(os, k)
                         /\ u.successes[k] = m.successes[k] + Successes(os, k)
  BY DEF UpdatedModel
<1> HIDE DEF u, after
<1>8. ModelStory(u, after)
  BY <1>2, <1>3, <1>4, <1>5, <1>6, <1>7 DEF ModelStory
<1> QED  BY <1>8 DEF u, after

-----------------------------------------------------------------------------
(* The history.                                                            *)

\* e0 is a test of c after those of T, and the only one added.
OneMore(T, e0, c, after) ==
  /\ IsFiniteSet(T) /\ e0.n \in Nat /\ \A e \in T : e.n \in Nat /\ e.n < e0.n
  /\ Tests(after, c) = Tests(T, c) \cup {e0}

\* The latest tests of the candidate are that one and those that were the latest
\* before.
LEMMA EntryLearns ==
  ASSUME NEW T, NEW e0, NEW c, NEW after, OneMore(T, e0, c, after), NEW few \in Nat
  PROVE  /\ Cardinality(Tests(after, c)) = Cardinality(Tests(T, c)) + 1
         /\ Last(after, c, few + 1) = Last(T, c, few) \cup {e0}
         /\ e0 \notin Last(T, c, few) /\ IsFiniteSet(Last(T, c, few))
<1> DEFINE n == e0.n
<1>0. /\ IsFiniteSet(T) /\ n \in Nat /\ \A e \in T : e.n \in Nat /\ e.n < n
      /\ Tests(after, c) = Tests(T, c) \cup {e0} /\ e0.n = n
  BY DEF OneMore
<1> HIDE DEF n
<1> DEFINE A == Tests(T, c)
           B == Tests(after, c)
           Since(x) == {d \in A : d.n > x}
           After(x) == {d \in B : d.n > x}
<1>1. A \subseteq T
  BY DEF Tests
<1>2. \A e \in A : e.n \in Nat /\ e.n < n
  BY <1>0, <1>1
<1>3. B = A \cup {e0}
  BY <1>0
<1>4. Last(T, c, few) = {e \in A : Cardinality(Since(e.n)) < few}
  BY DEF Last
<1>5. Last(after, c, few + 1) = {e \in B : Cardinality(After(e.n)) < few + 1}
  BY DEF Last
<1> HIDE DEF A, B
<1>6. IsFiniteSet(A) /\ e0 \notin A
  BY <1>0, <1>1, <1>2, FS_Subset
<1>7. Cardinality(B) = Cardinality(A) + 1
  BY <1>3, <1>6, FS_AddElement
<1>8. ASSUME NEW e \in A
      PROVE  /\ Cardinality(Since(e.n)) \in Nat
             /\ Cardinality(After(e.n)) = Cardinality(Since(e.n)) + 1
  <2>1. e.n < n
    BY <1>2
  <2>2. After(e.n) = Since(e.n) \cup {e0}
    BY <1>0, <1>3, <2>1
  <2>3. Since(e.n) \subseteq A /\ e0 \notin Since(e.n)
    BY <1>6
  <2> HIDE DEF Since, After
  <2>4. IsFiniteSet(Since(e.n)) /\ Cardinality(Since(e.n)) \in Nat
    BY <1>6, <2>3, FiniteIsNatural
  <2> QED  BY <2>2, <2>3, <2>4, FS_AddElement
<1>9. Cardinality(After(e0.n)) = 0
  <2>1. ASSUME NEW d \in B PROVE ~(d.n > n)
    <3>1. d \in A \/ d = e0
      BY <1>3
    <3>2. d \in A => d.n \in Nat /\ d.n < n
      BY <1>2
    <3> QED  BY <1>0, <3>1, <3>2
  <2>2. After(e0.n) = {}
    BY <1>0, <2>1
  <2> HIDE DEF After
  <2> QED  BY <2>2, FS_EmptySet
<1> HIDE DEF Since, After
<1>10. \A e \in A : Cardinality(After(e.n)) < few + 1 <=> Cardinality(Since(e.n)) < few
  BY <1>8
<1>11. {e \in B : Cardinality(After(e.n)) < few + 1}
         = {e \in A : Cardinality(Since(e.n)) < few} \cup {e0}
  BY <1>3, <1>9, <1>10
<1>12. {e \in A : Cardinality(Since(e.n)) < few} \subseteq A
  OBVIOUS
<1>13. IsFiniteSet(Last(T, c, few)) /\ e0 \notin Last(T, c, few)
  BY <1>4, <1>6, <1>12, FS_Subset
<1> QED  BY <1>4, <1>5, <1>7, <1>11, <1>13 DEF A, B

\* A history of T, and what T becomes when a run reports its build os at turn n.
Learns(h, T, at, n, os, after, clock) ==
  /\ HistoryStory(h, T, at) /\ at \in Nat /\ clock \in Nat /\ at <= clock
  /\ n \in Nat /\ \A e \in T : e.n < n
  /\ os \subseteq Observations /\ \A o, p \in os : o.c = p.c => o = p
  /\ IsTold(after, clock) /\ \E r, then : after = T \cup Report(n, r, then, os)

\* What u has of h and of the observations: one more test in an entry seen again,
\* the others as they were.
Learned(u, h, os, after, clock) ==
  /\ DOMAIN u = DOMAIN h \cup {o.c : o \in os}
  /\ IsFiniteSet(DOMAIN u) /\ IsFiniteSet(DOMAIN h)
  /\ \A c \in DOMAIN u : EntryStory(u[c], after, c)
  /\ \A o \in os : u[o.c].last_seen = clock
  /\ \A c \in DOMAIN u : u[c] = h[c] \/ u[c].last_seen = clock

LEMMA EntriesLearn ==
  ASSUME NEW h, NEW T, NEW at, NEW n, NEW os, NEW after, NEW clock,
         Learns(h, T, at, n, os, after, clock)
  PROVE  Learned(UpdatedHistory(h, os, clock), h, os, after, clock)
<1> DEFINE u == UpdatedHistory(h, os, clock)
           D == DOMAIN h \cup {o.c : o \in os}
<1>0. /\ HistoryStory(h, T, at) /\ clock \in Nat
      /\ n \in Nat /\ \A e \in T : e.n < n
      /\ os \subseteq Observations /\ \A o, p \in os : o.c = p.c => o = p
      /\ IsTold(after, clock)
  BY DEF Learns
<1>12. PICK r, then : after = T \cup Report(n, r, then, os)
  BY DEF Learns
<1>1. /\ IsFiniteSet(after) /\ \A e \in after : e.n \in Nat /\ e.at \in 0..clock
  BY <1>0 DEF IsTold
<1>2. T \subseteq after
  BY <1>12
<1>3. IsFiniteSet(T) /\ \A e \in T : e.n \in Nat /\ e.n < n /\ e.at \in 0..clock
  BY <1>0, <1>1, <1>2, FS_Subset
<1>4. \A c \in DOMAIN h : EntryStory(h[c], T, c)
  BY <1>0 DEF HistoryStory
<1>5. \A c : Tests(T, c) \subseteq T /\ IsFiniteSet(Tests(T, c)) /\ Cardinality(Tests(T, c)) \in Nat
  <2> TAKE c
  <2>1. Tests(T, c) \subseteq T
    BY DEF Tests
  <2> QED  BY <1>3, <2>1, FiniteIsNatural
<1>6. /\ DOMAIN u = D
      /\ u = [c \in D |-> u[c]]
      /\ \A c \in D : u[c] = IF \E o \in os : o.c = c
                             THEN Seen(Entry(h, c), CHOOSE o \in os : o.c = c, clock)
                             ELSE h[c]
  BY DEF UpdatedHistory
<1> HIDE DEF u
<1>7. IsFiniteSet(D)
  <2> DEFINE f == [e \in after |-> e.o.c]
             R == {e.o.c : e \in after}
  <2>1. f \in Surjection(after, R)
    BY DEF Surjection
  <2>2. D \subseteq R
    <3> SUFFICES ASSUME NEW c \in D PROVE c \in R
      OBVIOUS
    <3>1. CASE c \in DOMAIN h
      <4>1. Cardinality(Tests(T, c)) >= 1
        <5>1. h[c].checks \in 1..Cardinality(Tests(T, c))
          BY <1>4, <3>1 DEF EntryStory
        <5> QED  BY <1>5, <5>1
      <4>2. Tests(T, c) # {}
        BY <4>1, FS_EmptySet
      <4>3. PICK e \in T : e.o.c = c
        BY <4>2 DEF Tests
      <4> QED  BY <1>2, <4>3
    <3>2. CASE \E o \in os : c = o.c
      <4>1. PICK o \in os : c = o.c
        BY <3>2
      <4> DEFINE e == [n |-> n, run |-> r, at |-> then, o |-> o]
      <4>2. e \in after /\ e.o.c = c
        BY <1>12, <4>1 DEF Report
      <4> QED  BY <4>2
    <3> QED  BY <3>1, <3>2
  <2> HIDE DEF f, R, D
  <2> QED  BY <1>1, <2>1, <2>2, FS_Surjection, FS_Subset
<1>8. ASSUME NEW o \in os
      PROVE  /\ u[o.c].last_seen = clock /\ EntryStory(u[o.c], after, o.c)
  <2> DEFINE c  == o.c
             e0 == [n |-> n, run |-> r, at |-> then, o |-> o]
             k  == Entry(h, c).checks
             L  == Last(T, c, k)
             P  == {e \in L : e.o.pass}
  <2>1. (CHOOSE p \in os : p.c = c) = o
    BY <1>0
  <2>2. u[c] = Seen(Entry(h, c), o, clock)
    BY <1>6, <2>1
  <2>3. /\ u[c].checks = k + 1 /\ u[c].last_seen = clock
        /\ u[c].passes = Entry(h, c).passes + (IF o.pass THEN 1 ELSE 0)
    BY <2>2 DEF Seen, Checks
  <2>4. k \in 0..Cardinality(Tests(T, c)) /\ Entry(h, c).passes = Cardinality(P)
    <3>1. CASE c \in DOMAIN h
      <4>1. EntryStory(h[c], T, c) /\ Entry(h, c) = h[c]
        BY <1>4, <3>1 DEF Entry
      <4>2. k \in 1..Cardinality(Tests(T, c)) /\ Entry(h, c).passes = Cardinality(P)
        BY <4>1 DEF EntryStory
      <4> QED  BY <1>5, <4>2
    <3>2. CASE c \notin DOMAIN h
      <4>1. k = 0 /\ Entry(h, c).passes = 0
        BY <3>2 DEF Entry
      <4>2. ASSUME NEW e \in P PROVE FALSE
        <5> DEFINE S == {d \in Tests(T, c) : d.n > e.n}
        <5>1. Cardinality(S) < 0
          BY <4>1 DEF Last
        <5>2. S \subseteq Tests(T, c)
          OBVIOUS
        <5> HIDE DEF S
        <5>3. Cardinality(S) \in Nat
          BY <1>5, <5>2, FiniteIsNatural
        <5> QED  BY <5>1, <5>3
      <4>3. P = {}
        BY <4>2
      <4> HIDE DEF P
      <4> QED  BY <1>5, <4>1, <4>3, FS_EmptySet
    <3> QED  BY <3>1, <3>2
  <2>5. Tests(after, c) = Tests(T, c) \cup {e0}
    <3>1. \A e \in Report(n, r, then, os) : e.o.c = c <=> e = e0
      BY <1>0 DEF Report
    <3>2. e0 \in Report(n, r, then, os)
      BY DEF Report
    <3> HIDE DEF c, e0
    <3> QED  BY <1>12, <3>1, <3>2 DEF Tests
  <2>6. e0.n = n /\ e0.o = o /\ e0.o.c = c
    OBVIOUS
  <2>7. o.pass \in BOOLEAN
    BY <1>0 DEF Observations
  <2> HIDE DEF c, e0, k
  <2>8. k \in Nat
    BY <1>5, <2>4
  <2>9. /\ Cardinality(Tests(after, c)) = Cardinality(Tests(T, c)) + 1
        /\ Last(after, c, k + 1) = L \cup {e0} /\ e0 \notin L /\ IsFiniteSet(L)
    <3>1. IsFiniteSet(T) /\ \A e \in T : e.n \in Nat /\ e.n < n
      BY <1>3
    <3>2. OneMore(T, e0, c, after)
      BY <1>0, <3>1, <2>5, <2>6 DEF OneMore
    <3> HIDE DEF D, P, L
    <3>3. /\ Cardinality(Tests(after, c)) = Cardinality(Tests(T, c)) + 1
          /\ Last(after, c, k + 1) = Last(T, c, k) \cup {e0}
          /\ e0 \notin Last(T, c, k) /\ IsFiniteSet(Last(T, c, k))
      <4>1. \A few \in Nat :
               /\ Cardinality(Tests(after, c)) = Cardinality(Tests(T, c)) + 1
               /\ Last(after, c, few + 1) = Last(T, c, few) \cup {e0}
               /\ e0 \notin Last(T, c, few) /\ IsFiniteSet(Last(T, c, few))
        <5>1. Cardinality(Tests(after, c)) = Cardinality(Tests(T, c)) + 1
          BY <3>2, EntryLearns, 0 \in Nat
        <5>2. \A few \in Nat : Last(after, c, few + 1) = Last(T, c, few) \cup {e0}
          BY <3>2, EntryLearns
        <5>3. \A few \in Nat : e0 \notin Last(T, c, few)
          BY <3>2, EntryLearns
        <5>4. \A few \in Nat : IsFiniteSet(Last(T, c, few))
          BY <3>2, EntryLearns
        <5> QED  BY <5>1, <5>2, <5>3, <5>4
      <4> QED  BY <2>8, <4>1
    <3> QED  BY <3>3 DEF L
  <2> HIDE DEF L
  <2>10. P \subseteq L
    OBVIOUS
  <2>11. {e \in Last(after, c, k + 1) : e.o.pass} = IF o.pass THEN P \cup {e0} ELSE P
    BY <2>6, <2>9
  <2> HIDE DEF P
  <2>12. IsFiniteSet(P) /\ e0 \notin P /\ Cardinality(P) \in Nat
    BY <2>9, <2>10, FiniteIsNatural
  <2>13. Cardinality({e \in Last(after, c, k + 1) : e.o.pass})
           = Cardinality(P) + (IF o.pass THEN 1 ELSE 0)
    <3>1. Cardinality(P \cup {e0}) = Cardinality(P) + 1
      BY <2>12, FS_AddElement
    <3>2. CASE o.pass
      BY <2>11, <3>1, <3>2
    <3>3. CASE ~o.pass
      <4>1. {e \in Last(after, c, k + 1) : e.o.pass} = P
        BY <2>11, <3>3
      <4>2. Cardinality(P) = Cardinality(P) + (IF o.pass THEN 1 ELSE 0)
        BY <2>12, <3>3
      <4> QED  BY <4>1, <4>2
    <3> QED  BY <3>2, <3>3
  <2>14. u[c].checks \in 1..Cardinality(Tests(after, c))
    BY <1>5, <2>3, <2>4, <2>8, <2>9
  <2>15. \A e \in Tests(after, c) : e.at <= clock
    <3> TAKE e \in Tests(after, c)
    <3>1. e.at \in 0..clock
      BY <1>1 DEF Tests
    <3> QED  BY <1>0, <3>1
  <2>16. EntryStory(u[c], after, c)
    BY <1>0, <2>3, <2>4, <2>13, <2>14, <2>15 DEF EntryStory
  <2> QED  BY <2>3, <2>16 DEF c
<1>9. ASSUME NEW c \in D, \A o \in os : o.c # c
      PROVE  u[c] = h[c] /\ EntryStory(u[c], after, c)
  <2>1. c \in DOMAIN h /\ u[c] = h[c]
    BY <1>6, <1>9
  <2>2. \A e \in Report(n, r, then, os) : e.o.c # c
    BY <1>9 DEF Report
  <2>3. Tests(after, c) = Tests(T, c)
    BY <1>12, <2>2 DEF Tests
  <2>4. \A few : Last(after, c, few) = Last(T, c, few)
    BY <2>3 DEF Last
  <2> QED  BY <1>4, <2>1, <2>3, <2>4 DEF EntryStory
<1>10. \A c \in D : EntryStory(u[c], after, c) /\ (u[c] = h[c] \/ u[c].last_seen = clock)
  <2> TAKE c \in D
  <2>1. CASE \E o \in os : o.c = c
    BY <1>8, <2>1
  <2>2. CASE \A o \in os : o.c # c
    BY <1>9, <2>2
  <2> QED  BY <2>1, <2>2
<1>11. IsFiniteSet(DOMAIN h)
  <2>1. DOMAIN h \subseteq D
    OBVIOUS
  <2> HIDE DEF D
  <2> QED  BY <1>7, <2>1, FS_Subset
<1>13. Learned(u, h, os, after, clock)
  BY <1>6, <1>7, <1>8, <1>10, <1>11 DEF Learned
<1> QED  BY <1>13 DEF u

\* What the cap and the retention take was last seen before everything they leave.
LEMMA HistoryLearns ==
  ASSUME NEW h, NEW T, NEW at, NEW n, NEW os, NEW after, NEW clock,
         Learns(h, T, at, n, os, after, clock),
         NEW g \in PersistedHistories(h, os, clock)
  PROVE  HistoryStory(g, after, clock)
<1> DEFINE u == UpdatedHistory(h, os, clock)
           D == DOMAIN u
           R == {c \in D : u[c].last_seen + HistoryKeep >= clock}
           kept == IF Cardinality(R) <= HistoryMax THEN {R}
                   ELSE {K \in kSubset(HistoryMax, R) :
                           \A a \in K, b \in R \ K : u[a].last_seen >= u[b].last_seen}
<1>0. /\ HistoryStory(h, T, at) /\ at \in Nat /\ clock \in Nat /\ at <= clock
      /\ IsTold(after, clock)
  BY DEF Learns
<1>12. PICK r, then : after = T \cup Report(n, r, then, os)
  BY DEF Learns
<1>1. PICK K \in kept : g = Restrict(u, K)
  BY DEF PersistedHistories
<1>2. HistoryKeep \in Nat /\ HistoryMax \in Nat \ {0}
  BY PersistAssumption
<1>3. /\ D = DOMAIN h \cup {o.c : o \in os} /\ IsFiniteSet(D) /\ IsFiniteSet(DOMAIN h)
      /\ \A c \in D : EntryStory(u[c], after, c)
      /\ \A o \in os : u[o.c].last_seen = clock
      /\ \A c \in D : u[c] = h[c] \/ u[c].last_seen = clock
  <2>1. Learned(u, h, os, after, clock)
    BY EntriesLearn
  <2> HIDE DEF u
  <2> QED  BY <2>1 DEF Learned
<1> HIDE DEF u
<1>4. /\ K \subseteq R
      /\ \/ Cardinality(R) <= HistoryMax /\ K = R
         \/ /\ Cardinality(K) = HistoryMax
            /\ \A a \in K, b \in R \ K : u[a].last_seen >= u[b].last_seen
  <2>1. CASE Cardinality(R) <= HistoryMax
    BY <1>1, <2>1
  <2>2. CASE ~(Cardinality(R) <= HistoryMax)
    <3>1. K \in {L \in kSubset(HistoryMax, R) :
                   \A a \in L, b \in R \ L : u[a].last_seen >= u[b].last_seen}
      BY <1>1, <2>2
    <3>2. K \in SUBSET R /\ Cardinality(K) = HistoryMax
      BY <3>1 DEF kSubset
    <3> QED  BY <3>1, <3>2
  <2> QED  BY <2>1, <2>2
<1>5. /\ \A c \in R : c \in D /\ u[c].last_seen + HistoryKeep >= clock
      /\ \A c \in D : u[c].last_seen + HistoryKeep >= clock => c \in R
  OBVIOUS
<1> HIDE DEF kept, R, D
<1>6. DOMAIN g = K /\ \A c \in K : g[c] = u[c]
  <2>1. g = [c \in K |-> u[c]]
    BY <1>1 DEF Restrict
  <2> QED  BY <2>1
<1>7. \A c \in D : u[c].last_seen \in Nat
  BY <1>3 DEF EntryStory
<1>8. /\ \A e \in after : e.at \in Nat /\ e.at <= clock
      /\ \A e \in after : e \in T \/ \E o \in os : e.o = o
  <2>1. \A e \in after : e.at \in 0..clock
    BY <1>0 DEF IsTold
  <2>2. \A e \in after : e \in T \/ \E o \in os : e.o = o
    BY <1>12 DEF Report
  <2> QED  BY <1>0, <2>1, <2>2
<1>9. \A c \in DOMAIN g : EntryStory(g[c], after, c)
  BY <1>3, <1>4, <1>5, <1>6
\* An entry lost now or before was last seen before every entry.
<1>10. ASSUME NEW e \in after, e.at + HistoryKeep >= clock, e.o.c \notin K
       PROVE  Cardinality(K) = HistoryMax /\ \A a \in K : u[a].last_seen >= e.at
  <2> DEFINE c == e.o.c
  <2>1. e.at \in Nat /\ e.at <= clock
    BY <1>8
  <2>2. CASE c \in D
    <3>1. u[c].last_seen >= e.at
      <4>1. EntryStory(u[c], after, c) /\ e \in Tests(after, c)
        BY <1>3, <2>2 DEF Tests
      <4> QED  BY <4>1 DEF EntryStory
    <3>2. c \in R
      BY <1>0, <1>2, <1>5, <1>7, <1>10, <2>1, <2>2, <3>1
    <3>3. Cardinality(K) = HistoryMax /\ \A a \in K : u[a].last_seen >= u[c].last_seen
      BY <1>4, <1>10, <3>2
    <3>4. ASSUME NEW a \in K PROVE u[a].last_seen >= e.at
      <4>1. u[a].last_seen \in Nat /\ u[c].last_seen \in Nat
        BY <1>4, <1>5, <1>7, <2>2
      <4>2. u[a].last_seen >= u[c].last_seen
        BY <3>3
      <4> QED  BY <2>1, <3>1, <4>1, <4>2
    <3> QED  BY <3>3, <3>4
  <2>3. CASE c \notin D
    <3>1. e \in T /\ c \notin DOMAIN h
      BY <1>3, <1>8, <2>3
    <3>2. /\ Cardinality(DOMAIN h) = HistoryMax
          /\ \A a \in DOMAIN h : h[a].last_seen >= e.at
      <4>1. e.at + HistoryKeep >= at
        BY <1>0, <1>2, <1>10, <2>1
      <4> QED  BY <1>0, <3>1, <4>1 DEF HistoryStory
    <3>3. \A a \in D : u[a].last_seen >= e.at
      <4> TAKE a \in D
      <4>1. CASE u[a].last_seen = clock
        BY <2>1, <4>1
      <4>2. CASE u[a].last_seen # clock
        <5>1. a \in DOMAIN h /\ u[a] = h[a]
          BY <1>3, <4>2
        <5> QED  BY <3>2, <5>1
      <4> QED  BY <4>1, <4>2
    <3>4. D \subseteq R
      <4> SUFFICES ASSUME NEW a \in D PROVE a \in R
        OBVIOUS
      <4>1. u[a].last_seen >= e.at /\ u[a].last_seen \in Nat
        BY <1>7, <3>3
      <4>2. u[a].last_seen + HistoryKeep >= clock
        BY <1>0, <1>2, <1>10, <2>1, <4>1
      <4> QED  BY <1>5, <4>2
    <3>5. \A a \in K : u[a].last_seen >= e.at
      BY <1>4, <1>5, <3>3
    <3>6. Cardinality(K) = HistoryMax
      <4>1. CASE Cardinality(R) <= HistoryMax /\ K = R
        <5>1. DOMAIN h \subseteq R /\ R = D
          BY <1>3, <1>5, <3>4
        <5>2. IsFiniteSet(R) /\ Cardinality(DOMAIN h) <= Cardinality(R) /\ Cardinality(R) \in Nat
          BY <1>3, <5>1, FiniteIsNatural
        <5> QED  BY <1>2, <3>2, <4>1, <5>2
      <4> QED  BY <1>4, <4>1
    <3> QED  BY <3>5, <3>6
  <2> QED  BY <2>2, <2>3
<1>11. ASSUME NEW e \in after, e.at + HistoryKeep >= clock
       PROVE  \/ e.o.c \in DOMAIN g
              \/ /\ Cardinality(DOMAIN g) = HistoryMax
                 /\ \A a \in DOMAIN g : g[a].last_seen >= e.at
  BY <1>6, <1>10, <1>11
<1> QED  BY <1>9, <1>11 DEF HistoryStory

-----------------------------------------------------------------------------
(* Trees and runs.                                                         *)

\* What is told by a tree is in its files of state.
SameStory(t, u) ==
  /\ t.told = u.told /\ t.rows = u.rows /\ t.model = u.model /\ t.history = u.history
  /\ t.rowsAt = u.rowsAt /\ t.historyAt = u.historyAt

LEMMA SameTells ==
  ASSUME NEW t, NEW u, SameStory(t, u), NEW M, NEW H, NEW clock, Tells(u, M, H, clock)
  PROVE  Tells(t, M, H, clock)
BY DEF Tells, SameStory

\* Nothing told stays true of a tree as time goes by.
LEMMA TellsLasts ==
  ASSUME NEW t, NEW M, NEW H, NEW clock \in Nat, NEW later \in Nat, clock <= later,
         Tells(t, M, H, clock)
  PROVE  Tells(t, M, H, later)
<1>1. \A x \in 0..clock : x \in 0..later
  OBVIOUS
<1>2. IsTold(t.told, later)
  <2>1. IsTold(t.told, clock)
    BY DEF Tells
  <2> QED  BY <1>1, <2>1 DEF IsTold
<1> QED  BY <1>1, <1>2 DEF Tells

LEMMA TellingLasts ==
  ASSUME NEW r, NEW q, NEW clock \in Nat, NEW later \in Nat, clock <= later,
         NEW K, NEW L, K \subseteq L, Telling(r, q, clock, K)
  PROVE  Telling(r, q, later, L)
<1>1. \A t, M, H : Tells(t, M, H, clock) => Tells(t, M, H, later)
  BY TellsLasts
<1>2. \A t : Whole(t, clock) => Whole(t, later)
  BY <1>1 DEF Whole
<1>3. \A rows : RowsOf(rows, K) => RowsOf(rows, L)
  BY DEF RowsOf
<1> QED  BY <1>1, <1>2, <1>3 DEF Telling, Founded

LEMMA EmptyStory ==
  ASSUME NEW clock \in Nat
  PROVE  Whole(EmptyTree, clock) /\ EmptyTree.rows = {}
<1> DEFINE t == EmptyTree
<1>1. /\ t.told = {} /\ t.rows = {} /\ t.model = NoModel /\ t.history = <<>>
      /\ t.rowsAt = 0 /\ t.historyAt = 0
  BY DEF EmptyTree
<1>2. IsFiniteSet({}) /\ Cardinality({}) = 0
  BY FS_EmptySet
<1>3. IsTold({}, clock)
  BY <1>2 DEF IsTold
<1>4. RowsStory({}, {}, 0)
  BY <1>2, PersistAssumption DEF RowsStory, Distinct
<1>5. ModelStory(NoModel, {})
  <2>1. /\ NoModel.total_attempts = 0 /\ NoModel.total_successes = 0
        /\ \A k \in Keys : NoModel.attempts[k] = 0 /\ NoModel.successes[k] = 0
    BY DEF NoModel
  <2>2. /\ {e \in {} : e.o.pass} = {}
        /\ \A k \in Keys : /\ {e \in {} : e.o.key = k} = {}
                           /\ {e \in {d \in {} : d.o.key = k} : e.o.pass} = {}
    OBVIOUS
  <2> QED  BY <1>2, <2>1, <2>2 DEF ModelStory
<1>6. HistoryStory(<<>>, {}, 0)
  <2>1. DOMAIN <<>> = {}
    OBVIOUS
  <2> QED  BY <2>1 DEF HistoryStory
<1> QED  BY <1>1, <1>3, <1>4, <1>5, <1>6 DEF Whole, Tells

\* A run whose tree has learned all it will.
LEMMA TellingAtRest ==
  ASSUME NEW r, NEW q, NEW clock, NEW K, q.step \notin {"collect", "rows", "model", "history"},
         Founded(r, q.base, clock, K), Whole(q.tree, clock), RowsOf(q.tree.rows, K)
  PROVE  Telling(r, q, clock, K)
BY DEF Telling

LEMMA StoryGoesOn ==
  ASSUME StoryInv, now' \in Nat, now <= now', UNCHANGED main,
         Dispatched \subseteq Dispatched',
         \A s \in Runs : \/ Telling(s, run'[s], now, Dispatched)
                         \/ Telling(s, run'[s], now', Dispatched')
  PROVE  StoryInv'
<1>1. now \in Nat
  BY DEF StoryInv
<1>2. \A s \in Runs : Telling(s, run'[s], now', Dispatched')
  BY <1>1, TellingLasts
<1>3. Whole(main.tree, now) /\ RowsOf(main.tree.rows, Dispatched)
  BY DEF StoryInv
<1>4. Whole(main.tree, now')
  BY <1>1, <1>3, TellsLasts DEF Whole
<1>5. RowsOf(main.tree.rows, Dispatched')
  BY <1>3 DEF RowsOf
<1> QED  BY <1>2, <1>4, <1>5 DEF StoryInv

\* One run changes, and tells what it should.
LEMMA OneRunTells ==
  ASSUME IInv, StoryInv, NEW r \in Runs, NEW q, run' = [run EXCEPT ![r] = q],
         UNCHANGED <<now, main>>, run[r].step # "none", q.step # "none",
         Telling(r, q, now, Dispatched)
  PROVE  StoryInv'
<1>1. \A s \in Runs : run'[s] = IF s = r THEN q ELSE run[s]
  BY DEF IInv
<1>2. Dispatched' = Dispatched
  BY <1>1 DEF Dispatched
<1>3. \A s \in Runs : Telling(s, run'[s], now, Dispatched)
  BY <1>1 DEF StoryInv
<1>4. now \in Nat /\ now' = now
  BY DEF StoryInv
<1> QED  BY <1>2, <1>3, <1>4, StoryGoesOn

-----------------------------------------------------------------------------
(* The group.                                                              *)

LEMMA EnterTells ==
  ASSUME IInv, StoryInv, NEW r \in Runs, NEW q, IsRun(q), Enter(r, q), q.tree = EmptyTree,
         Founded(r, q.base, now, Dispatched)
  PROVE  StoryInv'
<1> DEFINE K == Dispatched
           p(s) == CASE s = r -> IF Free THEN Started(r, q) ELSE [q EXCEPT !.step = "queued"]
                     [] s # r /\ run[s].step = "queued" -> [run[s] EXCEPT !.step = "cancelled"]
                     [] OTHER -> run[s]
<1>1. /\ UNCHANGED <<now, main>> /\ \A s \in Runs : run'[s] = p(s)
      /\ now \in Nat /\ \A s \in Runs : Telling(s, run[s], now, K)
  BY DEF Enter, StoryInv
<1> HIDE DEF K
<1>2. Telling(r, Started(r, q), now, K) /\ Started(r, q).step = "collect"
  <2> DEFINE c == Started(r, q)
  <2>1. c.step = "collect" /\ c.base = q.base /\ c.tree = q.base
    BY DEF IsRun, Started
  <2> HIDE DEF c
  <2>2. Telling(r, c, now, K)
    BY <2>1 DEF Telling, Founded, K
  <2> QED  BY <2>1, <2>2 DEF c
<1>3. /\ Telling(r, [q EXCEPT !.step = "queued"], now, K)
      /\ [q EXCEPT !.step = "queued"].step = "queued"
  <2> DEFINE c == [q EXCEPT !.step = "queued"]
  <2>1. c.step = "queued" /\ c.base = q.base /\ c.tree = EmptyTree
    BY DEF IsRun
  <2> HIDE DEF c
  <2>2. Whole(c.tree, now) /\ RowsOf(c.tree.rows, K)
    BY <1>1, <2>1, EmptyStory DEF RowsOf
  <2>3. Telling(r, c, now, K)
    BY <2>1, <2>2, TellingAtRest DEF K
  <2> QED  BY <2>1, <2>3 DEF c
<1>4. ASSUME NEW s \in Runs, run[s].step = "queued"
      PROVE  /\ Telling(s, [run[s] EXCEPT !.step = "cancelled"], now, K)
             /\ [run[s] EXCEPT !.step = "cancelled"].step = "cancelled"
  <2> DEFINE o == run[s]
             c == [o EXCEPT !.step = "cancelled"]
  <2>1. IsRun(o) /\ o.step = "queued" /\ Telling(s, o, now, K)
    BY <1>1, <1>4 DEF IInv, Sound
  <2>2. c.step = "cancelled" /\ c.base = o.base /\ c.tree = o.tree
    BY <2>1 DEF IsRun
  <2> HIDE DEF o, c
  <2>3. Founded(s, c.base, now, K) /\ Whole(c.tree, now) /\ RowsOf(c.tree.rows, K)
    BY <2>1, <2>2 DEF Telling
  <2>4. Telling(s, c, now, K)
    BY <2>2, <2>3, TellingAtRest
  <2> QED  BY <2>2, <2>4 DEF o, c
<1>5. \A s \in Runs : /\ Telling(s, p(s), now, K)
                      /\ run[s].step # "none" => p(s).step # "none"
  <2> TAKE s \in Runs
  <2>1. CASE s = r
    BY <1>2, <1>3, <2>1
  <2>2. CASE s # r
    BY <1>1, <1>4, <2>2
  <2> QED  BY <2>1, <2>2
<1> HIDE DEF p
<1>6. K \subseteq Dispatched'
  BY <1>1, <1>5 DEF Dispatched, K
<1>7. \A s \in Runs : Telling(s, run'[s], now, K)
  BY <1>1, <1>5
<1> QED  BY <1>1, <1>6, <1>7, StoryGoesOn DEF K

LEMMA DispatchTells ==
  ASSUME IInv, StoryInv, NEW r \in Runs, Dispatch(r)
  PROVE  StoryInv'
<1> DEFINE a == \A s \in Runs : run[s].step \in Ended \cup {"none"}
           q == [NoRun EXCEPT !.base = main.tree, !.entries = 1, !.alone = a]
<1>1. Enter(r, q) /\ run[r].step = "none"
  BY DEF Dispatch
<1> HIDE DEF a
<1>2. IsRun(q) /\ q.base = main.tree /\ q.tree = EmptyTree
  BY NoRunFields DEF IsRun
<1> HIDE DEF q
<1>3. r \notin Dispatched
  BY <1>1 DEF Dispatched
<1>4. Founded(r, main.tree, now, Dispatched)
  BY <1>3 DEF StoryInv, Founded, RowsOf, NoRowsOf
<1> QED  BY <1>1, <1>2, <1>4, EnterTells

LEMMA RerunTells ==
  ASSUME IInv, StoryInv, NEW r \in Runs, Rerun(r)
  PROVE  StoryInv'
<1> DEFINE b == run[r].base
           n == run[r].entries + 1
           q == [NoRun EXCEPT !.base = b, !.entries = n]
<1>1. Enter(r, q)
  BY DEF Rerun, Checkout
<1>2. Founded(r, b, now, Dispatched)
  BY DEF StoryInv, Telling
<1> HIDE DEF b, n
<1>3. IsRun(q) /\ q.base = b /\ q.tree = EmptyTree
  BY NoRunFields DEF IsRun
<1> HIDE DEF q
<1> QED  BY <1>1, <1>2, <1>3, EnterTells

LEMMA BeginTells ==
  ASSUME IInv, StoryInv, NEW r \in Runs, Begin(r)
  PROVE  StoryInv'
<1> DEFINE o == run[r]
           q == Started(r, o)
<1>1. IsRun(o) /\ o.step = "queued"
  BY DEF IInv, Sound, Begin
<1>2. Founded(r, o.base, now, Dispatched)
  BY DEF StoryInv, Telling
<1>3. q.step = "collect" /\ q.base = o.base /\ q.tree = o.base
  BY <1>1 DEF IsRun, Started
<1>4. run' = [run EXCEPT ![r] = q] /\ UNCHANGED <<now, main>>
  BY DEF Begin
<1> HIDE DEF q
<1>5. Telling(r, q, now, Dispatched)
  BY <1>2, <1>3 DEF Telling, Founded
<1> QED  BY <1>1, <1>3, <1>4, <1>5, OneRunTells

-----------------------------------------------------------------------------
(* The steps of a run.                                                     *)

\* What a run that works tells of, and that it is known.
LEMMA AtWork ==
  ASSUME IInv, StoryInv, NEW r \in Runs
  PROVE  /\ IsRun(run[r]) /\ IsTree(run[r].tree) /\ Telling(r, run[r], now, Dispatched)
         /\ now \in Nat
BY DEF IInv, Sound, TreeOK, StoryInv

LEMMA FinishTells ==
  ASSUME IInv, StoryInv, NEW r \in Runs, NEW s, s # "none", NEW step \in Ended,
         Works(r, s, Finished(run[r], step))
  PROVE  StoryInv'
<1> DEFINE o == run[r]
           q == Finished(o, step)
<1>1. IsRun(o) /\ Telling(r, o, now, Dispatched) /\ now \in Nat
  BY AtWork
<1>2. q.step = step /\ q.base = o.base /\ q.tree = EmptyTree
  BY <1>1 DEF IsRun, Finished
<1>3. run' = [run EXCEPT ![r] = q] /\ UNCHANGED <<now, main>> /\ run[r].step # "none"
  BY DEF Works
<1> HIDE DEF q
<1>4. Whole(q.tree, now) /\ RowsOf(q.tree.rows, Dispatched)
  BY <1>1, <1>2, EmptyStory DEF RowsOf
<1>5. q.step # "none" /\ q.step \notin {"collect", "rows", "model", "history"}
  BY <1>2 DEF Ended
<1>6. Telling(r, q, now, Dispatched)
  BY <1>1, <1>2, <1>4, <1>5, TellingAtRest DEF Telling
<1> QED  BY <1>3, <1>5, <1>6, OneRunTells

\* A run goes on with a tree that tells what it should.
LEMMA LeavesTells ==
  ASSUME IInv, StoryInv, NEW r \in Runs, NEW s, s # "none", NEW next, next # "none", NEW t,
         Leaves(r, s, next, t), NEW q,
         q = [run[r] EXCEPT !.step = next, !.tree = t],
         Telling(r, q, now, Dispatched)
  PROVE  StoryInv'
<1>1. IsRun(run[r])
  BY AtWork
<1>2. q.step = next
  BY <1>1 DEF IsRun
<1>3. run' = [run EXCEPT ![r] = q] /\ UNCHANGED <<now, main>> /\ run[r].step # "none"
  BY DEF Leaves, Works
<1> QED  BY <1>2, <1>3, OneRunTells

\* Work on the lists says nothing else.
LEMMA ListsTellNothing ==
  ASSUME IInv, StoryInv, NEW r \in Runs, NEW s \in {"list", "label", "encode"},
         NEW next \in {"label", "encode", "fetch"}, NEW t,
         Leaves(r, s, next, t), SameStory(t, run[r].tree)
  PROVE  StoryInv'
<1> DEFINE o == run[r]
           q == [o EXCEPT !.step = next, !.tree = t]
<1>1. IsRun(o) /\ Telling(r, o, now, Dispatched) /\ now \in Nat
  BY AtWork
<1>2. o.step = s
  BY DEF Leaves, Works
<1>3. q.step = next /\ q.base = o.base /\ q.tree = t
  BY <1>1 DEF IsRun
<1> HIDE DEF o
<1>4. Founded(r, o.base, now, Dispatched) /\ Whole(o.tree, now) /\ RowsOf(o.tree.rows, Dispatched)
  BY <1>1, <1>2 DEF Telling
<1>5. Whole(t, now) /\ RowsOf(t.rows, Dispatched)
  BY <1>4, SameTells DEF Whole, SameStory, o
<1> HIDE DEF q
<1>6. Telling(r, q, now, Dispatched)
  BY <1>3, <1>4, <1>5, TellingAtRest
<1>7. q = [run[r] EXCEPT !.step = next, !.tree = t]
  BY DEF q, o
<1> QED  BY <1>6, <1>7, LeavesTells

LEMMA CollectTells ==
  ASSUME IInv, StoryInv, NEW r \in Runs, Collect(r)
  PROVE  StoryInv'
<1> DEFINE o == run[r]
           all == [of |-> r, headers |-> 0, lines |-> 1]
           t == [o.tree EXCEPT !.all = all]
<1>1. PICK b \in Builds :
        Works(r, "collect", [o EXCEPT !.step = "rows", !.build = b, !.tree.all = all])
  BY DEF Collect
<1> DEFINE q == [o EXCEPT !.step = "rows", !.build = b, !.tree.all = all]
<1>2. IsRun(o) /\ IsTree(o.tree) /\ Telling(r, o, now, Dispatched) /\ o.step = "collect"
  BY <1>1, AtWork DEF Works
<1>3. SameStory(t, o.tree)
  BY <1>2 DEF IsTree, SameStory
<1>4. q.step = "rows" /\ q.base = o.base /\ q.tree = t
  BY <1>2 DEF IsRun
<1>5. run' = [run EXCEPT ![r] = q] /\ UNCHANGED <<now, main>> /\ run[r].step # "none"
  BY <1>1 DEF Works
<1> HIDE DEF q, t, o
<1>6. /\ Founded(r, o.base, now, Dispatched) /\ Whole(o.tree, now)
      /\ RowsOf(o.tree.rows, Dispatched) /\ NoRowsOf(r, o.tree.rows)
  BY <1>2 DEF Telling
<1>7. Whole(t, now) /\ RowsOf(t.rows, Dispatched) /\ NoRowsOf(r, t.rows)
  BY <1>3, <1>6, SameTells DEF Whole, SameStory
<1>8. Telling(r, q, now, Dispatched)
  BY <1>4, <1>6, <1>7 DEF Telling
<1> QED  BY <1>4, <1>5, <1>8, OneRunTells

\* What a build gives a run to tell.
LEMMA BuildTells ==
  ASSUME IInv, NEW r \in Runs
  PROVE  /\ r \in Nat /\ run[r].build.os \subseteq Observations
         /\ IsFiniteSet(run[r].build.os)
         /\ \A o, p \in run[r].build.os : o.c = p.c => o = p
<1>1. run[r].build \in Builds \cup {NoBuild}
  BY DEF IInv, Sound
<1>2. NoBuild.os = {}
  BY DEF NoBuild
<1> QED  BY <1>1, <1>2, UpdateAssumption, FS_EmptySet

\* The rows tell of the run too, and what the run told is the newest.
LEMMA RowsTells ==
  ASSUME IInv, StoryInv, NEW r \in Runs, Rows(r)
  PROVE  StoryInv'
<1> DEFINE o  == run[r]
           T  == o.tree.told
           os == o.build.os
           n  == Turns(o.tree) + 1
           rows  == PersistedRows(o.tree.rows, {Row(r, x, now) : x \in os}, now)
           after == T \cup Report(n, r, now, os)
           t  == [o.tree EXCEPT !.rows = rows, !.rowsAt = now, !.told = after]
           q  == [o EXCEPT !.step = "model", !.tree = t]
<1>1. Leaves(r, "rows", "model", t) /\ o.step = "rows"
  BY DEF Rows, Leaves, Works, Report
<1>2. IsRun(o) /\ IsTree(o.tree) /\ Telling(r, o, now, Dispatched) /\ now \in Nat
  BY AtWork
<1>3. /\ r \in Nat /\ os \in SUBSET Observations /\ IsFiniteSet(os)
      /\ \A x, y \in os : x.c = y.c => x = y
  BY BuildTells
<1>4. \A e \in T : e.run # r
  BY <1>1 DEF IInv, Sound, Without
<1>5. n = Cardinality({e.n : e \in T}) + 1
  BY DEF Turns
<1>6. /\ t.rows = rows /\ t.rowsAt = now /\ t.told = after /\ t.model = o.tree.model
      /\ t.history = o.tree.history /\ t.historyAt = o.tree.historyAt
  BY <1>2 DEF IsTree
<1>7. q.step = "model" /\ q.base = o.base /\ q.tree = t /\ q.build = o.build
  BY <1>2 DEF IsRun
<1>8. /\ after = T \cup Report(n, r, now, os)
      /\ rows = PersistedRows(o.tree.rows, {Row(r, x, now) : x \in os}, now)
  OBVIOUS
<1>9. q = [run[r] EXCEPT !.step = "model", !.tree = t]
  OBVIOUS
<1> HIDE DEF q, t, after, rows, n
<1>10. /\ Founded(r, o.base, now, Dispatched) /\ Whole(o.tree, now)
       /\ RowsOf(o.tree.rows, Dispatched) /\ NoRowsOf(r, o.tree.rows)
  BY <1>1, <1>2 DEF Telling
<1>11. /\ IsTold(T, now) /\ o.tree.rowsAt \in 0..now /\ o.tree.historyAt \in 0..now
       /\ RowsStory(o.tree.rows, T, o.tree.rowsAt)
       /\ ModelStory(o.tree.model, T) /\ HistoryStory(o.tree.history, T, o.tree.historyAt)
  BY <1>10 DEF Whole, Tells
<1>12. r \in Dispatched
  BY <1>1 DEF Dispatched
<1> HIDE DEF o, T, os
<1>13. IsTold(after, now) /\ Earlier(r, after) = T /\ Newest(r, after, os)
  BY <1>2, <1>3, <1>4, <1>5, <1>8, <1>11, RecordGrows
<1>14. RowsStory(rows, after, now) /\ \A a \in rows : a \in o.tree.rows \/ a.run = r
  <2> DEFINE at == o.tree.rowsAt
  <2>1. at \in Nat /\ at <= now
    BY <1>2, <1>11
  <2>2. RowsStory(o.tree.rows, T, at)
    BY <1>11
  <2> HIDE DEF at
  <2>3. \A k : RowsStory(rows, T \cup Report(k, r, now, os), now)
    BY <1>2, <1>3, <1>4, <1>8, <1>10, <1>11, <2>1, <2>2, RowsPersist
  <2>4. \A a \in rows : a \in o.tree.rows \/ a.run = r
    BY <1>2, <1>3, <1>4, <1>8, <1>10, <1>11, <2>1, <2>2, RowsPersist
  <2> QED  BY <1>8, <2>3, <2>4
<1>15. RowsOf(rows, Dispatched)
  BY <1>10, <1>12, <1>14 DEF RowsOf
<1>16. Tells(t, T, T, now)
  <2>1. now \in 0..now
    BY <1>2
  <2> QED  BY <1>6, <1>11, <1>13, <1>14, <2>1 DEF Tells
<1>17. Telling(r, q, now, Dispatched)
  BY <1>6, <1>7, <1>10, <1>13, <1>15, <1>16 DEF Telling, os
<1> QED  BY <1>1, <1>9, <1>17, LeavesTells DEF o

\* The record of a run at work on what it has learned.
LEMMA ReportOf ==
  ASSUME NEW T, NEW clock \in Nat, IsTold(T, clock), NEW r, NEW os, Newest(r, T, os)
  PROVE  \E n, at \in Nat : /\ T = Earlier(r, T) \cup Report(n, r, at, os)
                            /\ IsFiniteSet(Earlier(r, T))
                            /\ \A e \in Earlier(r, T) : e.n \in Nat /\ e.n < n
<1>1. PICK n, at \in Nat : /\ T = Earlier(r, T) \cup Report(n, r, at, os)
                           /\ \A e \in Earlier(r, T) : e.n < n
  BY DEF Newest
<1>2. Earlier(r, T) \subseteq T
  BY DEF Earlier
<1>3. IsFiniteSet(T) /\ \A e \in T : e.n \in Nat
  BY DEF IsTold
<1>4. IsFiniteSet(Earlier(r, T)) /\ \A e \in Earlier(r, T) : e.n \in Nat
  BY <1>2, <1>3, FS_Subset
<1> QED  BY <1>1, <1>4

LEMMA ModelTellsToo ==
  ASSUME IInv, StoryInv, NEW r \in Runs, Model(r)
  PROVE  StoryInv'
<1> DEFINE o  == run[r]
           T  == o.tree.told
           E  == Earlier(r, T)
           os == o.build.os
           m  == UpdatedModel(o.tree.model, os)
           t  == [o.tree EXCEPT !.model = m]
           q  == [o EXCEPT !.step = "history", !.tree = t]
<1>1. Leaves(r, "model", "history", t) /\ o.step = "model"
  BY DEF Model, Leaves, Works
<1>2. IsRun(o) /\ IsTree(o.tree) /\ Telling(r, o, now, Dispatched) /\ now \in Nat
  BY AtWork
<1>3. os \in SUBSET Observations /\ IsFiniteSet(os)
  BY BuildTells
<1>4. /\ t.rows = o.tree.rows /\ t.rowsAt = o.tree.rowsAt /\ t.told = T /\ t.model = m
      /\ t.history = o.tree.history /\ t.historyAt = o.tree.historyAt
  BY <1>2 DEF IsTree
<1>5. q.step = "history" /\ q.base = o.base /\ q.tree = t /\ q.build = o.build
  BY <1>2 DEF IsRun
<1>6. q = [run[r] EXCEPT !.step = "history", !.tree = t]
  OBVIOUS
<1> HIDE DEF q, t
<1>7. /\ Founded(r, o.base, now, Dispatched) /\ Tells(o.tree, E, E, now)
      /\ RowsOf(o.tree.rows, Dispatched) /\ Newest(r, T, os)
  BY <1>1, <1>2 DEF Telling
<1>8. /\ IsTold(T, now) /\ o.tree.rowsAt \in 0..now /\ o.tree.historyAt \in 0..now
      /\ RowsStory(o.tree.rows, T, o.tree.rowsAt)
      /\ ModelStory(o.tree.model, E) /\ HistoryStory(o.tree.history, E, o.tree.historyAt)
  BY <1>7 DEF Tells
<1> DEFINE old == o.tree.model
<1>9. ModelStory(old, E) /\ m = UpdatedModel(old, os)
  BY <1>8
<1> HIDE DEF o, T, E, os, m, old
<1>10. PICK n, at \in Nat : /\ T = E \cup Report(n, r, at, os)
                            /\ IsFiniteSet(E) /\ \A e \in E : e.n \in Nat /\ e.n < n
  BY <1>2, <1>7, <1>8, ReportOf DEF E
<1>11. ModelStory(m, T)
  BY <1>3, <1>9, <1>10, ModelLearns
<1>12. Tells(t, T, E, now)
  BY <1>4, <1>8, <1>11 DEF Tells
<1>13. Telling(r, q, now, Dispatched)
  BY <1>4, <1>5, <1>7, <1>12 DEF Telling, os, E
<1> QED  BY <1>1, <1>6, <1>13, LeavesTells DEF o

LEMMA HistoryTellsToo ==
  ASSUME IInv, StoryInv, NEW r \in Runs, History(r)
  PROVE  StoryInv'
<1> DEFINE o  == run[r]
           T  == o.tree.told
           E  == Earlier(r, T)
           os == o.build.os
           old == o.tree.history
           then == o.tree.historyAt
<1>1. PICK h \in PersistedHistories(old, os, now) :
        Leaves(r, "history", "list", [o.tree EXCEPT !.history = h, !.historyAt = now])
  BY DEF History
<1> DEFINE t  == [o.tree EXCEPT !.history = h, !.historyAt = now]
           q  == [o EXCEPT !.step = "list", !.tree = t]
<1>2. /\ IsRun(o) /\ IsTree(o.tree) /\ Telling(r, o, now, Dispatched) /\ now \in Nat
      /\ o.step = "history"
  BY <1>1, AtWork DEF Leaves, Works
<1>3. os \subseteq Observations /\ \A x, y \in os : x.c = y.c => x = y
  BY BuildTells
<1>4. /\ t.rows = o.tree.rows /\ t.rowsAt = o.tree.rowsAt /\ t.told = T
      /\ t.model = o.tree.model /\ t.history = h /\ t.historyAt = now
  BY <1>2 DEF IsTree
<1>5. q.step = "list" /\ q.base = o.base /\ q.tree = t
  BY <1>2 DEF IsRun
<1>6. q = [run[r] EXCEPT !.step = "list", !.tree = t] /\ Leaves(r, "history", "list", t)
  BY <1>1
<1> HIDE DEF q, t
<1>7. /\ Founded(r, o.base, now, Dispatched) /\ Tells(o.tree, T, E, now)
      /\ RowsOf(o.tree.rows, Dispatched) /\ Newest(r, T, os)
  BY <1>2 DEF Telling
<1>8. /\ IsTold(T, now) /\ o.tree.rowsAt \in 0..now /\ then \in 0..now
      /\ RowsStory(o.tree.rows, T, o.tree.rowsAt)
      /\ ModelStory(o.tree.model, T) /\ HistoryStory(old, E, then)
  BY <1>7 DEF Tells
<1> HIDE DEF o, T, E, os, old, then
<1>9. PICK n, at \in Nat : /\ T = E \cup Report(n, r, at, os)
                           /\ \A e \in E : e.n \in Nat /\ e.n < n
  BY <1>2, <1>7, <1>8, ReportOf DEF E
<1>10. Learns(old, E, then, n, os, T, now)
  BY <1>2, <1>3, <1>8, <1>9 DEF Learns
<1>11. HistoryStory(h, T, now)
  BY <1>1, <1>10, HistoryLearns
<1>12. Whole(t, now)
  <2>1. now \in 0..now
    BY <1>2
  <2> QED  BY <1>4, <1>8, <1>11, <2>1 DEF Whole, Tells
<1>13. Telling(r, q, now, Dispatched)
  BY <1>4, <1>5, <1>7, <1>12, TellingAtRest
<1> QED  BY <1>6, <1>13, LeavesTells DEF o

LEMMA ListTells ==
  ASSUME IInv, StoryInv, NEW r \in Runs, List(r)
  PROVE  StoryInv'
<1> DEFINE q == run[r]
           l == [of |-> r, headers |-> 0, lines |-> q.build.lines]
           t == [q.tree EXCEPT !.light = l]
<1>1. IsTree(q.tree)
  BY AtWork
<1>2. SameStory(q.tree, q.tree) /\ SameStory(t, q.tree)
  BY <1>1 DEF IsTree, SameStory
<1>3. Leaves(r, "list", "label", t) \/ Leaves(r, "list", "label", q.tree)
  BY DEF List
<1> HIDE DEF t
<1> QED  BY <1>2, <1>3, ListsTellNothing

LEMMA LabelTells ==
  ASSUME IInv, StoryInv, NEW r \in Runs, Label(r)
  PROVE  StoryInv'
<1> DEFINE o == run[r].tree
           t == [o EXCEPT !.all.headers = @ + 1, !.light.headers = @ + 1]
<1>1. IsTree(o)
  BY AtWork
<1>2. SameStory(t, o)
  BY <1>1 DEF IsTree, SameStory
<1>3. Works(r, "label", Finished(run[r], "failed")) \/ Leaves(r, "label", "encode", t)
  BY DEF Label
<1> HIDE DEF t
<1> QED  BY <1>2, <1>3, ListsTellNothing, FinishTells DEF Ended

LEMMA EncodeTells ==
  ASSUME IInv, StoryInv, NEW r \in Runs, Encode(r)
  PROVE  StoryInv'
<1> DEFINE o == run[r].tree
           t == Encoded(r, o)
<1>1. IsTree(o)
  BY AtWork
<1>2. SameStory(t, o)
  BY <1>1 DEF IsTree, SameStory, Encoded
<1>3. Leaves(r, "encode", "fetch", t)
  BY DEF Encode
<1> HIDE DEF t
<1> QED  BY <1>2, <1>3, ListsTellNothing

LEMMA FailTells ==
  ASSUME IInv, StoryInv, NEW r \in Runs, Fail(r)
  PROVE  StoryInv'
<1>1. run[r].step # "none"
  BY DEF Fail, Busy, Working
<1> QED  BY <1>1, FinishTells DEF Fail, AfterFailure, Ended

-----------------------------------------------------------------------------
(* The publishing loop.                                                    *)

\* Between fetch and push a run waits with what it tells.
LEMMA WaitTells ==
  ASSUME IInv, StoryInv, NEW r \in Runs, run[r].step \in {"fetch", "push"}, NEW q,
         run' = [run EXCEPT ![r] = q], UNCHANGED <<now, main>>,
         q.step \in {"fetch", "push"}, q.base = run[r].base, q.tree = run[r].tree
  PROVE  StoryInv'
<1> DEFINE o == run[r]
<1>1. Telling(r, o, now, Dispatched)
  BY AtWork
<1> HIDE DEF o
<1>2. Founded(r, o.base, now, Dispatched) /\ Whole(o.tree, now) /\ RowsOf(o.tree.rows, Dispatched)
  BY <1>1 DEF Telling, o
<1>3. Telling(r, q, now, Dispatched)
  BY <1>2, TellingAtRest DEF o
<1> QED  BY <1>3, OneRunTells

LEMMA FetchTells ==
  ASSUME IInv, StoryInv, NEW r \in Runs, Fetch(r)
  PROVE  StoryInv'
<1> DEFINE o == run[r]
           q == [o EXCEPT !.step = "push", !.others = main.others, !.tip = main.commit,
                          !.attempt = @ + 1]
<1>1. \/ Works(r, "fetch", Finished(o, "unchanged"))
      \/ Works(r, "fetch", q)
  BY DEF Fetch
<1>2. CASE Works(r, "fetch", Finished(o, "unchanged"))
  BY <1>2, FinishTells DEF Ended
<1>3. CASE Works(r, "fetch", q)
  <2>1. IsRun(o)
    BY AtWork
  <2>2. q.step = "push" /\ q.base = o.base /\ q.tree = o.tree
    BY <2>1 DEF IsRun
  <2>3. run' = [run EXCEPT ![r] = q] /\ UNCHANGED <<now, main>> /\ run[r].step = "fetch"
    BY <1>3 DEF Works
  <2> HIDE DEF q
  <2> QED  BY <2>2, <2>3, WaitTells
<1> QED  BY <1>1, <1>2, <1>3

LEMMA RejectedTells ==
  ASSUME IInv, StoryInv, NEW r \in Runs, Rejected(r)
  PROVE  StoryInv'
<1> DEFINE o == run[r]
           q == [o EXCEPT !.step = "fetch"]
<1>1. CASE Works(r, "push", Finished(o, "failed"))
  BY <1>1, FinishTells DEF Ended
<1>2. CASE Works(r, "push", q)
  <2>1. IsRun(o)
    BY AtWork
  <2>2. q.step = "fetch" /\ q.base = o.base /\ q.tree = o.tree
    BY <2>1 DEF IsRun
  <2>3. run' = [run EXCEPT ![r] = q] /\ UNCHANGED <<now, main>> /\ run[r].step = "push"
    BY <1>2 DEF Works
  <2> HIDE DEF q
  <2> QED  BY <2>2, <2>3, WaitTells
<1> QED  BY <1>1, <1>2 DEF Rejected

\* Rows that are all gone tell of nothing within the retention, so those of main
\* tell of it as well.
LEMMA ReappliedTells ==
  ASSUME IInv, StoryInv, NEW t, IsTree(t), Whole(t, now), RowsOf(t.rows, Dispatched)
  PROVE  Whole(Reapplied(t), now) /\ RowsOf(Reapplied(t).rows, Dispatched)
<1>1. CASE t.rows # {}
  BY <1>1 DEF Reapplied
<1>2. CASE t.rows = {}
  <2> DEFINE rows == main.tree.rows
             u == [t EXCEPT !.rows = rows]
  <2>1. Reapplied(t) = u
    BY <1>2 DEF Reapplied
  <2>2. Whole(main.tree, now) /\ RowsOf(rows, Dispatched)
    BY DEF StoryInv
  <2> HIDE DEF rows
  <2>3. /\ u.told = t.told /\ u.rows = rows /\ u.model = t.model /\ u.history = t.history
        /\ u.rowsAt = t.rowsAt /\ u.historyAt = t.historyAt
    BY DEF IsTree
  <2> HIDE DEF u
  <2>4. \A e \in t.told : ~(e.at + RowKeep >= t.rowsAt)
    <3> SUFFICES ASSUME NEW e \in t.told, e.at + RowKeep >= t.rowsAt PROVE FALSE
      OBVIOUS
    <3>1. Made(e) \in {} \/ Ahead({}, Made(e)) = MaxRows
      BY <1>2 DEF Whole, Tells, RowsStory
    <3>2. Ahead({}, Made(e)) = 0
      <4>1. {b \in {} : Newer(b, Made(e))} = {}
        OBVIOUS
      <4> QED  BY <4>1, FS_EmptySet DEF Ahead
    <3> QED  BY <3>1, <3>2, PersistAssumption
  <2>5. RowsStory(rows, t.told, t.rowsAt)
    <3>1. RowsStory(rows, main.tree.told, main.tree.rowsAt)
      BY <2>2 DEF Whole, Tells, rows
    <3> QED  BY <2>4, <3>1 DEF RowsStory
  <2>6. Whole(u, now)
    BY <2>3, <2>5 DEF Whole, Tells
  <2> QED  BY <2>1, <2>2, <2>3, <2>6
<1> QED  BY <1>1, <1>2

LEMMA PushTells ==
  ASSUME IInv, StoryInv, NEW r \in Runs, Push(r)
  PROVE  StoryInv'
<1> DEFINE o == run[r]
           q == Finished(o, "published")
           t == o.tree
<1>1. /\ IsRun(o) /\ IsTree(t) /\ Telling(r, o, now, Dispatched) /\ now \in Nat
      /\ o.step = "push"
  BY AtWork DEF Push
<1>2. /\ main'.tree = Reapplied(t) /\ now' = now /\ run' = [run EXCEPT ![r] = q]
  BY DEF Push
<1>3. q.step = "published" /\ q.base = o.base /\ q.tree = EmptyTree
  BY <1>1 DEF IsRun, Finished
<1> HIDE DEF q
<1>4. \A s \in Runs : run'[s] = IF s = r THEN q ELSE run[s]
  BY <1>2 DEF IInv
<1>5. Dispatched' = Dispatched
  BY <1>1, <1>3, <1>4 DEF Dispatched
<1>6. /\ Founded(r, o.base, now, Dispatched) /\ Whole(t, now) /\ RowsOf(t.rows, Dispatched)
  BY <1>1 DEF Telling
<1>7. Whole(q.tree, now) /\ RowsOf(q.tree.rows, Dispatched)
  BY <1>1, <1>3, EmptyStory DEF RowsOf
<1>8. Telling(r, q, now, Dispatched)
  BY <1>3, <1>6, <1>7, TellingAtRest
<1>9. \A s \in Runs : Telling(s, run'[s], now, Dispatched)
  BY <1>4, <1>8 DEF StoryInv
<1> HIDE DEF t, o
<1>10. Whole(main'.tree, now) /\ RowsOf(main'.tree.rows, Dispatched)
  BY <1>1, <1>2, <1>6, ReappliedTells
<1> QED  BY <1>1, <1>2, <1>5, <1>9, <1>10 DEF StoryInv

LEMMA OthersTell ==
  ASSUME IInv, StoryInv, Others
  PROVE  StoryInv'
<1>1. /\ main'.tree = main.tree /\ run' = run /\ now' = now
  BY DEF Others, IInv, MainOK
<1>2. Dispatched' = Dispatched
  BY <1>1 DEF Dispatched
<1> QED  BY <1>1, <1>2 DEF StoryInv

LEMMA TimeTells ==
  ASSUME StoryInv, UNCHANGED <<main, run>>, now' = now \/ now' = now + 1
  PROVE  StoryInv'
<1>1. now \in Nat /\ \A s \in Runs : Telling(s, run'[s], now, Dispatched)
  BY DEF StoryInv
<1>2. Dispatched' = Dispatched
  BY DEF Dispatched
<1>3. now' \in Nat /\ now <= now'
  BY <1>1
<1> QED  BY <1>1, <1>2, <1>3, StoryGoesOn

LEMMA InitTells == Init => StoryInv
<1> SUFFICES ASSUME Init PROVE StoryInv
  OBVIOUS
<1>1. PICK l \in {NoList, [of |-> 0, headers |-> 1, lines |-> MinPublish]} :
        main = [commit |-> 0, others |-> 0,
                tree |-> [EmptyTree EXCEPT !.light = l, !.lightBase64 = l]]
  BY DEF Init
<1> DEFINE t == [EmptyTree EXCEPT !.light = l, !.lightBase64 = l]
<1>2. now = 0 /\ main.tree = t /\ \A r \in Runs : run[r] = NoRun
  BY <1>1 DEF Init
<1>3. SameStory(t, EmptyTree)
  BY DEF SameStory, EmptyTree
<1> HIDE DEF t
<1>4. Whole(EmptyTree, now) /\ EmptyTree.rows = {}
  BY <1>2, EmptyStory
<1>5. Whole(t, now) /\ t.rows = {}
  BY <1>3, <1>4, SameTells DEF Whole, SameStory
<1>6. NoRun.step = "none" /\ NoRun.base = EmptyTree /\ NoRun.tree = EmptyTree
  BY DEF NoRun
<1>7. ASSUME NEW r \in Runs PROVE Telling(r, NoRun, now, Dispatched)
  <2>1. Founded(r, EmptyTree, now, Dispatched) /\ RowsOf(EmptyTree.rows, Dispatched)
    BY <1>4 DEF Founded, RowsOf, NoRowsOf
  <2> QED  BY <1>4, <1>6, <2>1, TellingAtRest
<1> QED  BY <1>2, <1>5, <1>7 DEF StoryInv, RowsOf

LEMMA NextTells == IInv /\ StoryInv /\ [Next]_vars => StoryInv'
<1> SUFFICES ASSUME IInv, StoryInv, [Next]_vars PROVE StoryInv'
  OBVIOUS
<1>1. ASSUME NEW r \in Runs, Dispatch(r) \/ Rerun(r) \/ Begin(r) \/ Fail(r)
      PROVE  StoryInv'
  BY <1>1, DispatchTells, RerunTells, BeginTells, FailTells
<1>2. ASSUME NEW r \in Runs, Step(r)
      PROVE  StoryInv'
  BY <1>2, CollectTells, RowsTells, ModelTellsToo, HistoryTellsToo, ListTells, LabelTells,
     EncodeTells, FetchTells, PushTells, RejectedTells DEF Step
<1>3. CASE Others
  BY <1>3, OthersTell
<1>4. CASE Tick \/ UNCHANGED vars
  BY <1>4, TimeTells DEF Tick, vars
<1> QED  BY <1>1, <1>2, <1>3, <1>4 DEF Next

LEMMA StoryInvariance == Spec => []StoryInv
BY InitTells, NextTells, Invariance, PTL DEF Spec

LEMMA StoryIsOne ==
  ASSUME StoryInv
  PROVE  MainTellsOneStory
<1> DEFINE t == main.tree
<1>1. Whole(t, now)
  BY DEF StoryInv
<1> HIDE DEF t
<1>2. /\ IsTold(t.told, now) /\ t.rowsAt \in 0..now /\ now \in Nat
      /\ RowsStory(t.rows, t.told, t.rowsAt) /\ ModelStory(t.model, t.told)
      /\ HistoryStory(t.history, t.told, t.historyAt)
  BY <1>1 DEF Whole, Tells, StoryInv
<1>3. RowsTell
  <2> DEFINE live == Unexpired({Made(e) : e \in t.told}, t.rowsAt)
  <2>1. ASSUME NEW a \in live \ t.rows
        PROVE  Cardinality({b \in t.rows : Newer(b, a)}) = MaxRows
    <3>1. PICK e \in t.told : a = Made(e) /\ a.at + RowKeep >= t.rowsAt
      BY <2>1 DEF Unexpired
    <3>2. a.at = e.at
      BY <3>1 DEF Made, Row
    <3>3. Ahead(t.rows, a) = MaxRows
      BY <1>2, <2>1, <3>1, <3>2 DEF RowsStory
    <3> QED  BY <3>3 DEF Ahead
  <2>2. Cardinality(t.rows) <= MaxRows /\ \A a, b \in t.rows : Id(a) = Id(b) => a = b
    BY <1>2 DEF RowsStory, Distinct
  <2> QED  BY <2>1, <2>2 DEF RowsTell, t
<1>4. ModelTells
  BY <1>2 DEF ModelStory, ModelTells, t
<1>5. HistoryTells
  <2>1. ASSUME NEW c \in DOMAIN t.history
        PROVE  LET of == {e \in t.told : e.o.c = c}
                   latest == {e \in of : Cardinality({d \in of : d.n > e.n})
                                           < t.history[c].checks}
               IN  /\ t.history[c].checks \in 1..Cardinality(of)
                   /\ t.history[c].passes = Cardinality({e \in latest : e.o.pass})
                   /\ \A e \in of : e.at <= t.history[c].last_seen
    BY <1>2 DEF HistoryStory, EntryStory, Tests, Last
  <2>2. ASSUME Cardinality(DOMAIN t.history) < HistoryMax,
               NEW e \in t.told, e.at + HistoryKeep >= t.historyAt
        PROVE  e.o.c \in DOMAIN t.history
    <3>1. Cardinality(DOMAIN t.history) # HistoryMax
      BY <2>2, PersistAssumption
    <3> QED  BY <1>2, <2>2, <3>1 DEF HistoryStory
  <2> QED  BY <2>1, <2>2 DEF HistoryTells, t
<1> QED  BY <1>3, <1>4, <1>5 DEF MainTellsOneStory

\* The dataset, the model and the history on main tell of the same observations,
\* whatever failed, was retried or was published in between (update.yml: a run that
\* fails publishes nothing, one that publishes publishes all three; light_training.rs,
\* intelligence.rs and polish_light.rs: what each makes of a run).
THEOREM MainTellsOne == Spec => []MainTellsOneStory
<1>1. StoryInv => MainTellsOneStory
  BY StoryIsOne
<1> QED  BY <1>1, StoryInvariance, PTL
=============================================================================
