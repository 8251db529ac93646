---------------------------- MODULE LightBudgets ----------------------------
(***************************************************************************)
(* The budget arithmetic of polish_light.rs: how many candidates a wave    *)
(* rechecks, how many the transfer gate tests, how large the reserve in    *)
(* front of the transfer gate has to be, how many workers it uses.  The    *)
(* code works in f64 and rounds up; here the quotients are exact, so the   *)
(* two may differ by one where a quotient is an integer.                   *)
(***************************************************************************)
EXTENDS Naturals

CONSTANTS
  ReserveMargin,        \* 8:   smallest headroom of the transfer reserve
  ReserveHeadroom,      \* 120: TRANSFER_RESERVE_MAX_HEADROOM
  TransferTestLimit,    \* 320: FINAL_TRANSFER_TEST_LIMIT
  MinWorkers,           \* 2:   FINAL_TRANSFER_MIN_WORKERS
  MaxWorkers            \* 8:   FINAL_TRANSFER_WORKERS

ASSUME BudgetsAssumption ==
  /\ ReserveMargin \in Nat \ {0}
  /\ ReserveHeadroom \in Nat /\ ReserveHeadroom >= ReserveMargin
  /\ TransferTestLimit \in Nat
  /\ MinWorkers \in Nat \ {0} /\ MaxWorkers \in Nat
  /\ MinWorkers <= MaxWorkers

Least(x, y)    == IF x <= y THEN x ELSE y
Greatest(x, y) == IF x >= y THEN x ELSE y
Monus(x, y)    == IF x >= y THEN x - y ELSE 0          \* saturating_sub
Clamp(x, low, high) == Greatest(low, Least(x, high))
CeilDiv(x, y)  == (x + y - 1) \div y                   \* div_ceil, f64::ceil

\* ceil(n * percent/100 / ((passed + 2) / (tested + 4))), the rate held between
\* low and high percent; a fixed default rate while fewer than warmup are tested.
PerRate(n, percent, passed, tested, warmup, default, low, high) ==
  IF tested < warmup THEN CeilDiv(n * percent, default)
  ELSE IF (passed + 2) * 100 <= low * (tested + 4) THEN CeilDiv(n * percent, low)
  ELSE IF (passed + 2) * 100 >= high * (tested + 4) THEN CeilDiv(n * percent, high)
  ELSE CeilDiv(n * percent * (tested + 4), 100 * (passed + 2))

AdaptiveRecheckLimit(remaining, configured, checked, strictVerified) ==
  LET estimated == PerRate(remaining, 125, strictVerified, checked, 20, 20, 5, 100)
      floor     == IF checked = 0 THEN remaining * 4 + 50 ELSE remaining * 2 + 20
  IN  IF remaining = 0 \/ configured = 0 THEN 0
      ELSE Least(Greatest(estimated, floor), configured)

TransferReserveTarget(limit, selected, tested, passed) ==
  LET remaining == Monus(limit, selected) IN
  IF remaining = 0 THEN 0
  ELSE Clamp(PerRate(remaining, 108, passed, tested, 16, 80, 60, 95),
             remaining + ReserveMargin, remaining + ReserveHeadroom)

AdaptiveTransferTestLimit(limit, selected, tested, passed, eligible) ==
  LET remaining == Monus(limit, selected)
      estimated == PerRate(remaining, 120, passed, tested, 16, 80, 35, 95)
      budget    == Least(Greatest(estimated, remaining + 8), eligible)
  IN  IF selected >= limit \/ eligible = 0 THEN tested
      ELSE Least(tested + budget, TransferTestLimit)

\* Percentage of rate-limited answers of a batch, rounded up.
RateLimitPercent(rateLimits, batchSize) ==
  IF batchSize = 0 THEN 0 ELSE CeilDiv(rateLimits * 100, batchSize)

\* Mutants: a limited batch keeps the clean ones; no tolerance.
AdjustKeepingClean(workers, rateLimits, batchSize, cleanBatches) ==
  LET percent == RateLimitPercent(rateLimits, batchSize) IN
  IF percent >= 50 THEN <<Greatest(Monus(workers, 2), MinWorkers), 0>>
  ELSE IF percent >= 25 THEN <<Greatest(Monus(workers, 1), MinWorkers), cleanBatches>>
  ELSE IF cleanBatches + 1 >= 2 THEN <<Least(workers + 1, MaxWorkers), 0>>
  ELSE <<workers, cleanBatches + 1>>

AdjustStrictly(workers, rateLimits, batchSize, cleanBatches) ==
  LET percent == RateLimitPercent(rateLimits, batchSize) IN
  IF percent >= 50 THEN <<Greatest(Monus(workers, 2), MinWorkers), 0>>
  ELSE IF rateLimits > 0 THEN <<Greatest(Monus(workers, 1), MinWorkers), 0>>
  ELSE IF cleanBatches + 1 >= 2 THEN <<Least(workers + 1, MaxWorkers), 0>>
  ELSE <<workers, cleanBatches + 1>>

\* adjust_transfer_workers: <<workers, clean batches>> after a batch.
AdjustTransferWorkers(workers, rateLimits, batchSize, cleanBatches) ==
  LET percent == RateLimitPercent(rateLimits, batchSize) IN
  IF percent >= 50 THEN <<Greatest(Monus(workers, 2), MinWorkers), 0>>
  ELSE IF percent >= 25 THEN <<Greatest(Monus(workers, 1), MinWorkers), 0>>
  ELSE IF cleanBatches + 1 >= 2 THEN <<Least(workers + 1, MaxWorkers), 0>>
  ELSE <<workers, cleanBatches + 1>>

\* How many candidates the workers take on in one transfer batch.
QueueWindow(workers) == Greatest(workers * 3, 8)
=============================================================================
