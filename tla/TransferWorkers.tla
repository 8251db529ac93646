-------------------------- MODULE TransferWorkers ---------------------------
(***************************************************************************)
(* The concurrency controller of the 10 MiB gate: fill_transfer_gate runs  *)
(* batch after batch and adjust_transfer_workers chooses how many tests    *)
(* run at once, from the rate-limited answers of the batch just ended.     *)
(* How many answers are rate-limited is the destination's choice; one test *)
(* makes at most EventsPerTest requests that can be.                       *)
(***************************************************************************)
EXTENDS LightBudgets

CONSTANTS
  InitialWorkers,   \* 4:  FINAL_TRANSFER_INITIAL_WORKERS
  BatchSize,        \* 32: FINAL_TRANSFER_BATCH_SIZE
  EventsPerTest     \* rate-limited requests a single test can make

ASSUME WorkersAssumption ==
  /\ InitialWorkers \in MinWorkers..MaxWorkers
  /\ BatchSize \in Nat \ {0}
  /\ EventsPerTest \in Nat

VARIABLES
  workers,       \* transfer_workers
  cleanBatches,  \* clean_batches
  tested,        \* the size of transfer_tested
  calm,          \* batches in a row below the tolerance (history)
  limited        \* batches in a row at or above it (history)

workersVars == <<workers, cleanBatches, tested, calm, limited>>

WorkersInit ==
  /\ workers = InitialWorkers
  /\ cleanBatches = 0
  /\ tested = 0
  /\ calm = 0 /\ limited = 0

\* A batch of up to batch_limit tests; the caps may leave fewer to test.
Batch(size, events) ==
  LET adjusted == AdjustTransferWorkers(workers, events, size, cleanBatches)
      slow     == RateLimitPercent(events, size) >= 25
  IN  /\ tested' = tested + size
      /\ workers' = adjusted[1]
      /\ cleanBatches' = adjusted[2]
      /\ calm' = IF slow THEN 0 ELSE calm + 1
      /\ limited' = IF slow THEN limited + 1 ELSE 0

BatchLimit == Least(Least(TransferTestLimit - tested, BatchSize), QueueWindow(workers))

WorkersNext ==
  /\ tested < TransferTestLimit
  /\ \E size \in 1..BatchLimit :
       \E events \in 0..(EventsPerTest * size) : Batch(size, events)

WorkersSpec == WorkersInit /\ [][WorkersNext]_workersVars

-----------------------------------------------------------------------------

WorkersTypeOK ==
  /\ workers \in MinWorkers..MaxWorkers
  /\ cleanBatches \in 0..1
  /\ tested \in 0..TransferTestLimit
  /\ calm \in Nat /\ limited \in Nat

\* Between two batches that slow it down the gate recovers one worker for every
\* two batches, up to the maximum: no sequence of limited, small and half-clean
\* batches leaves it slower than the calm batches since then allow
\* (adjust_transfer_workers, FINAL_TRANSFER_CLEAN_BATCHES_TO_RAMP).
RecoversInStep ==
  /\ cleanBatches = calm % 2
  /\ workers >= Least(MaxWorkers, MinWorkers + calm \div 2)

\* A destination that keeps limiting the gate is backed off from: after as many
\* limited batches in a row as there are workers to give up, the minimum is left,
\* and no half-finished ramp survives a limited batch.
BacksOff ==
  /\ workers <= Greatest(MinWorkers, MaxWorkers - limited)
  /\ limited > 0 => cleanBatches = 0
=============================================================================
