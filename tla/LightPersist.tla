----------------------------- MODULE LightPersist ---------------------------
(***************************************************************************)
(* What the Light builder carries from one update to the next: the         *)
(* training rows (light_training.rs), the ranking model (intelligence.rs)  *)
(* and the history of every candidate (polish_light.rs), as the functions  *)
(* that take the stored state and the observations of a run to the state   *)
(* written back.                                                           *)
(*                                                                         *)
(* An observation is [c, key, checks, pass, transfer] of one candidate:    *)
(* its key in the model (scheme and latency), how often it was rechecked,  *)
(* whether it was strictly verified, and what the 10 MiB gate said.        *)
(***************************************************************************)
EXTENDS Integers, FiniteSets, Functions, FiniteSetsExt

CONSTANTS Candidates,    \* fingerprints, in their order
          Keys,          \* feature keys of the model
          RowKeep,       \* RETENTION_SECS of the dataset
          MaxRows,       \* MAX_ROWS
          HistoryKeep,   \* HISTORY_RETENTION_SECS
          HistoryMax     \* HISTORY_MAX_ENTRIES

ASSUME PersistAssumption ==
  /\ Candidates \subseteq Nat
  /\ {RowKeep, HistoryKeep} \subseteq Nat /\ {MaxRows, HistoryMax} \subseteq Nat \ {0}

Observations ==
  [c : Candidates, key : Keys, checks : Nat \ {0}, pass : BOOLEAN,
   transfer : {"untested", "passed", "failed"}]

-----------------------------------------------------------------------------
(* The training rows.  An observation id is the run and the fingerprint.   *)

Row(r, o, now) ==
  [run |-> r, c |-> o.c, at |-> now, strict_checks |-> o.checks, strict_pass |-> o.pass,
   transfer_tested |-> o.transfer # "untested",
   transfer_pass   |-> IF o.transfer = "untested" THEN "null" ELSE o.transfer]

\* What load keeps: a label is complete, and a transfer verdict is there
\* exactly when the transfer was tested.
ValidRow(row) ==
  row.strict_checks > 0 /\ (row.transfer_tested <=> row.transfer_pass # "null")

Id(row) == <<row.run, row.c>>

\* Newest first, and by id where the time is the same.
Newer(a, b) ==
  \/ a.at > b.at
  \/ a.at = b.at /\ a.run < b.run
  \/ a.at = b.at /\ a.run = b.run /\ a.c < b.c

\* Mutant: the oldest rows survive the cap.
Oldest(rows) == {a \in rows : Cardinality({b \in rows : Newer(a, b)}) < MaxRows}

Truncated(rows) == {a \in rows : Cardinality({b \in rows : Newer(b, a)}) < MaxRows}

Unexpired(rows, now) == {row \in rows : row.at + RowKeep >= now}

PersistedRows(stored, new, now) ==
  LET ids == {Id(row) : row \in Unexpired(new, now)}
      old == {row \in Unexpired(stored, now) : ValidRow(row) /\ Id(row) \notin ids}
  IN  Truncated(old \cup Unexpired(new, now))

-----------------------------------------------------------------------------
(* The model: one outcome of a candidate, however often it was rechecked.  *)

NoModel == [attempts |-> [k \in Keys |-> 0], successes |-> [k \in Keys |-> 0],
            total_attempts |-> 0, total_successes |-> 0]

Trials(os, k)    == Cardinality({o \in os : o.key = k})
Successes(os, k) == Cardinality({o \in os : o.key = k /\ o.pass})

UpdatedModel(model, os) ==
  [attempts        |-> [k \in Keys |-> model.attempts[k] + Trials(os, k)],
   successes       |-> [k \in Keys |-> model.successes[k] + Successes(os, k)],
   total_attempts  |-> model.total_attempts + Cardinality(os),
   total_successes |-> model.total_successes + Cardinality({o \in os : o.pass})]

-----------------------------------------------------------------------------
(* The history: [checks, passes, last_seen] of every candidate it knows.   *)

\* Mutant: every recheck of the run counts.
ChecksRetried(o) == o.checks

\* What one run adds to an entry.
Checks(o) == 1

Entry(history, c) ==
  IF c \in DOMAIN history THEN history[c] ELSE [checks |-> 0, passes |-> 0, last_seen |-> 0]

Seen(entry, o, now) ==
  [checks    |-> entry.checks + Checks(o),
   passes    |-> entry.passes + (IF o.pass THEN 1 ELSE 0),
   last_seen |-> now]

UpdatedHistory(history, os, now) ==
  [c \in DOMAIN history \cup {o.c : o \in os} |->
     IF \E o \in os : o.c = c
     THEN Seen(Entry(history, c), CHOOSE o \in os : o.c = c, now)
     ELSE history[c]]

\* Which of the entries last seen at the same time the cap drops is open:
\* they come out of a hash map and the sort is unstable.
PersistedHistories(history, os, now) ==
  LET updated  == UpdatedHistory(history, os, now)
      retained == {c \in DOMAIN updated : updated[c].last_seen + HistoryKeep >= now}
      kept     == IF Cardinality(retained) <= HistoryMax THEN {retained}
                  ELSE {K \in kSubset(HistoryMax, retained) :
                          \A a \in K, b \in retained \ K :
                             updated[a].last_seen >= updated[b].last_seen}
  IN  {Restrict(updated, K) : K \in kept}
=============================================================================
