--------------------------- MODULE LightPipeline ----------------------------
(***************************************************************************)
(* The Light builder, polish_light's main: discovery waves, each followed  *)
(* by a strict recheck, then the 1 MiB stability gate, the 10 MiB transfer *)
(* gate and the stream continuity gate, then the selection it publishes.   *)
(*                                                                         *)
(* The program is one task that awaits one validation batch at a time, so  *)
(* a step is a batch (chosen, tested, recorded) or a decision between      *)
(* batches.  The environment chooses which candidates of a batch pass,     *)
(* when a validation core fails and when a time budget has run out.        *)
(***************************************************************************)
EXTENDS LightSelection, LightBudgets, Sequences

CONSTANTS
  Waves,              \* the chunks of the filtered candidates, in file order
  Limit,              \* --selection-limit
  MaxEndpoint,        \* --max-per-endpoint
  MaxFamily,          \* --max-per-family
  RecheckFamily,      \* 3:   RECHECK_FAMILY_DIVERSITY
  RecheckLimit,       \* --selected-recheck-limit
  MaxAttempts,        \* 2:   MAX_FINAL_RECHECK_ATTEMPTS
  StabilityLimit,     \* 450: STABILITY_TRANSFER_TEST_LIMIT
  StabilityBatchSize, \* 32:  STABILITY_TRANSFER_BATCH_SIZE
  TransferBatchSizes, \* {8..24}: min(FINAL_TRANSFER_BATCH_SIZE, queue window)
  StreamLimit,        \* 160: STREAM_CONTINUITY_TEST_LIMIT
  StreamBatchSize     \* 16:  STREAM_CONTINUITY_BATCH_SIZE

ASSUME PipelineAssumption ==
  /\ Waves \in Seq(SUBSET Configs)
  /\ Limit \in Nat \ {0}
  /\ MaxEndpoint \in Nat \ {0} /\ MaxFamily \in Nat \ {0}
  /\ RecheckFamily \in Nat \ {0}
  /\ RecheckLimit \in Nat
  /\ MaxAttempts \in Nat
  /\ StabilityLimit \in Nat \ {0} /\ StabilityBatchSize \in Nat \ {0}
  /\ TransferBatchSizes \subseteq Nat \ {0} /\ TransferBatchSizes # {}
  /\ StreamLimit \in Nat \ {0} /\ StreamBatchSize \in Nat \ {0}

VARIABLES
  phase,        \* where main is: see Phases
  caller,       \* who runs the transfer gate: a wave, or main after the waves
  wave,         \* waves already discovered
  prefiltered,  \* global_verified
  attempts,     \* final_attempts: strict rechecks of each candidate
  strict,       \* final_verified, the keys of final_metadata
  stabTested,   \* stability_tested
  stable,       \* stability_verified
  xferTested,   \* transfer_tested
  xferOk,       \* transfer_verified
  xferSelected, \* transfer_selected: the count the transfer gate returned
  streamTested, \* stream_tested
  streamOk,     \* stream_verified
  selected,     \* the configurations written to the output
  cutShort      \* a time budget ended a gate early (history)

vars == <<phase, caller, wave, prefiltered, attempts, strict, stabTested, stable,
          xferTested, xferOk, xferSelected, streamTested, streamOk, selected,
          cutShort>>

Phases == {"discover", "decide", "gate", "stability", "transfer", "recheck",
           "stream", "publish", "published", "failed"}

discoveryVars == <<wave, prefiltered>>
strictVars    == <<attempts, strict>>
stabilityVars == <<stabTested, stable>>
transferVars  == <<xferTested, xferOk, xferSelected>>
streamVars    == <<streamTested, streamOk, selected>>

-----------------------------------------------------------------------------

\* select_verified_configs over a ranking of S, with the publishing caps.
Selected(S) == Selections({}, S, Limit, MaxEndpoint, MaxFamily)

\* Mutant: the potential is not cut at the free slots.
AdditionalPotentialUnlimited(chosen, S) ==
  {Cardinality(R) - Cardinality(chosen) :
     R \in Selections(chosen, S, Cardinality(chosen \cup S), MaxEndpoint, MaxFamily)}

\* selection_additional_potential_count: how many of S still fit beside chosen.
AdditionalPotential(chosen, S) ==
  {Cardinality(R) - Cardinality(chosen) :
     R \in IF Cardinality(chosen) >= Limit THEN {chosen}
           ELSE Selections(chosen, S, Limit, MaxEndpoint, MaxFamily)}

\* selection_potential_count: the walk without a limit, verified ones first.
Potential(S) ==
  LET unlimited == Cardinality(xferOk \cup S) IN
  {Cardinality(R) : R \in UNION
     {Selections(base, S, unlimited, MaxEndpoint, MaxFamily) :
        base \in Selections({}, xferOk, unlimited, MaxEndpoint, MaxFamily)}}

\* diversify_recheck_candidates: one candidate per endpoint.
Diverse(S, size, maxFamily) == Selections({}, S, size, 1, maxFamily)

StrictUntested == strict \ xferTested

Init ==
  /\ phase = "discover"
  /\ caller = "wave"
  /\ wave = 0
  /\ prefiltered = {}
  /\ attempts = [c \in Configs |-> 0]
  /\ strict = {}
  /\ stabTested = {} /\ stable = {}
  /\ xferTested = {} /\ xferOk = {} /\ xferSelected = 0
  /\ streamTested = {} /\ streamOk = {} /\ selected = {}
  /\ cutShort = FALSE

-----------------------------------------------------------------------------
\* Discovery waves

\* The single-request prefilter of the next chunk.
Prefilter ==
  /\ phase = "discover" /\ wave < Len(Waves)
  /\ \E passed \in SUBSET Waves[wave + 1] :
       prefiltered' = prefiltered \cup passed
  /\ wave' = wave + 1
  /\ phase' = "decide"
  /\ UNCHANGED <<caller, strictVars, stabilityVars, transferVars, streamVars,
                 cutShort>>

\* Every chunk has been discovered: the final transfer gate.
EndOfWaves ==
  /\ phase = "discover" /\ wave = Len(Waves)
  /\ phase' = "gate" /\ caller' = "final"
  /\ UNCHANGED <<discoveryVars, strictVars, stabilityVars, transferVars,
                 streamVars, cutShort>>

ReserveTarget(count) ==
  TransferReserveTarget(Limit, count, Cardinality(xferTested), Cardinality(xferOk))

\* The top of a wave: it ends discovery when the target is met, it fills the gate
\* when the strict candidates not yet tested cover the reserve, else it rechecks.
Decide ==
  /\ phase = "decide"
  /\ \E chosen \in Selected(xferOk) :
       \E extra \in AdditionalPotential(chosen, StrictUntested) :
         LET count == Cardinality(chosen) IN
         /\ xferSelected' = count
         /\ phase' = IF count >= Limit \/ extra >= ReserveTarget(count)
                     THEN "gate" ELSE "recheck"
         /\ caller' = IF count >= Limit THEN "final" ELSE caller
  /\ UNCHANGED <<discoveryVars, strictVars, stabilityVars, xferTested, xferOk,
                 streamVars, cutShort>>

\* Mutant: strict candidates are rechecked as well.
RecheckableAgain == {c \in prefiltered : attempts[c] < MaxAttempts}

\* Candidates that may still be rechecked, and what one wave takes of them.
\* The exploration share of the batch comes first and in another order, which
\* is one more order of the same walk.
Recheckable == {c \in prefiltered \ strict : attempts[c] < MaxAttempts}
RecheckBatches ==
  LET budget == AdaptiveRecheckLimit(Monus(Limit, xferSelected), RecheckLimit,
                  Cardinality({c \in Configs : attempts[c] > 0}),
                  Cardinality(strict))
  IN Diverse(Recheckable, budget, RecheckFamily)

NothingToRecheck ==
  /\ phase = "recheck"
  /\ {} \in RecheckBatches
  /\ phase' = "discover"
  /\ UNCHANGED <<caller, discoveryVars, strictVars, stabilityVars, transferVars,
                 streamVars, cutShort>>

StrictRecheck ==
  /\ phase = "recheck"
  /\ \E batch \in RecheckBatches \ {{}} :
       /\ attempts' = [c \in Configs |->
                         IF c \in batch THEN attempts[c] + 1 ELSE attempts[c]]
       /\ \E passed \in SUBSET batch : strict' = strict \cup passed
  /\ phase' = "discover"
  /\ UNCHANGED <<caller, discoveryVars, stabilityVars, transferVars, streamVars,
                 cutShort>>

-----------------------------------------------------------------------------
\* fill_transfer_gate and the stability gate it fills first

\* Mutants: the balance against the limit is returned, and the gate returns to
\* the wave loop whoever called it.
ReturnBalance(count) ==
  /\ xferSelected' = count - Limit
  /\ phase' = "stream" /\ UNCHANGED caller

ReturnToWave(count) ==
  /\ xferSelected' = count
  /\ phase' = "recheck" /\ UNCHANGED caller

\* The count is returned: main goes on to the stream gate.  A wave ends discovery
\* when the target is met, or when the strict candidates that the transfer gate
\* has not tested are thought to be enough to meet it; else it rechecks.
ReturnCount(count) ==
  /\ xferSelected' = count
  /\ \E reach \in Potential(StrictUntested) :
       LET enough == count >= Limit \/ reach >= Limit IN
       /\ phase' = IF caller = "final" THEN "stream"
                   ELSE IF enough THEN "gate" ELSE "recheck"
       /\ caller' = IF enough THEN "final" ELSE caller

\* A target already met needs no stability pool: LeaveTransfer returns the count.
EnterGate ==
  /\ phase = "gate"
  /\ \E chosen \in Selected(xferOk) :
       phase' = IF Cardinality(chosen) >= Limit THEN "transfer" ELSE "stability"
  /\ cutShort' = FALSE
  /\ UNCHANGED <<caller, discoveryVars, strictVars, stabilityVars, transferVars,
                 streamVars>>

StabilityTarget == Least(2 * Limit, StabilityLimit)

\* Mutant: the number of stability tests is not limited.
StabilityFilledUnlimited ==
  \/ Cardinality(stable) >= StabilityTarget
  \/ strict \subseteq stabTested

StabilityFilled ==
  \/ Cardinality(stable) >= StabilityTarget
  \/ Cardinality(stabTested) >= StabilityLimit
  \/ strict \subseteq stabTested

StabilityBatch ==
  /\ phase = "stability" /\ ~StabilityFilled
  /\ LET budget == Monus(StabilityLimit, Cardinality(stabTested))
         size   == Clamp(budget, 1, StabilityBatchSize)
     IN \E batch \in Selections({}, strict \ stabTested, size,
                                MaxEndpoint, MaxFamily) :
          /\ stabTested' = stabTested \cup batch
          /\ \E passed \in SUBSET batch : stable' = stable \cup passed
  /\ UNCHANGED <<phase, caller, discoveryVars, strictVars, transferVars,
                 streamVars, cutShort>>

\* Mutant: a pool below the limit is given up instead of reported.
LeaveStabilityShort ==
  /\ phase = "stability" /\ StabilityFilled
  /\ phase' = IF Cardinality(stable) < Limit THEN "stream" ELSE "transfer"
  /\ UNCHANGED <<caller, discoveryVars, strictVars, stabilityVars, transferVars,
                 streamVars, cutShort>>

\* The pool is filled (a pool below the limit is only reported), or the time
\* budget of the stability gate has run out.
LeaveStability ==
  /\ phase = "stability"
  /\ phase' = "transfer"
  /\ \/ StabilityFilled /\ UNCHANGED cutShort
     \/ ~StabilityFilled /\ cutShort' = TRUE
  /\ UNCHANGED <<caller, discoveryVars, strictVars, stabilityVars, transferVars,
                 streamVars>>

\* Mutant: candidates behind a full endpoint or family are tested too.
AllUntested(chosen) == stable \ xferTested

\* Stable candidates the 10 MiB test has not seen and the caps still admit.
EligibleUntested(chosen) ==
  {c \in stable \ xferTested : ~Blocked(chosen, c, MaxEndpoint, MaxFamily)}

\* How many tests the loop may have run after this batch.
DynamicTestLimit(chosen, eligible) ==
  AdaptiveTransferTestLimit(Limit, Cardinality(chosen), Cardinality(xferTested),
                            Cardinality(xferOk), eligible)

\* Nothing is left to gain, or the test budget or the time budget is used up.
LeaveTransfer ==
  /\ phase = "transfer"
  /\ \E chosen \in Selected(xferOk) :
       /\ ReturnCount(Cardinality(chosen))
       /\ \/ /\ \/ Cardinality(chosen) >= Limit
                \/ EligibleUntested(chosen) = {}
                \/ \E eligible \in
                        AdditionalPotential(chosen, EligibleUntested(chosen)) :
                     Cardinality(xferTested) >= DynamicTestLimit(chosen, eligible)
             /\ UNCHANGED cutShort
          \/ /\ Cardinality(chosen) < Limit
             /\ EligibleUntested(chosen) # {}
             /\ cutShort' = TRUE
  /\ UNCHANGED <<discoveryVars, strictVars, stabilityVars, xferTested,
                 xferOk, streamVars>>

\* One batch of 10 MiB tests against the next destination.  A core that fails
\* here leaves its candidates unverified; the run goes on.
TransferBatch ==
  /\ phase = "transfer"
  /\ \E chosen \in Selected(xferOk) :
       /\ Cardinality(chosen) < Limit
       /\ \E eligible \in AdditionalPotential(chosen, EligibleUntested(chosen)),
             window \in TransferBatchSizes :
            LET limit == DynamicTestLimit(chosen, eligible)
                room  == Monus(limit, Cardinality(xferTested))
            IN /\ room > 0
               /\ \E batch \in Diverse(EligibleUntested(chosen),
                                       Least(room, window), 1) :
                    /\ xferTested' = xferTested \cup batch
                    /\ \E passed \in SUBSET batch : xferOk' = xferOk \cup passed
  /\ UNCHANGED <<phase, caller, discoveryVars, strictVars, stabilityVars,
                 xferSelected, streamVars, cutShort>>

-----------------------------------------------------------------------------
\* fill_stream_continuity_gate and the result

StreamTestLimit == Least(StreamLimit, Cardinality(xferOk))

\* Mutant: the stability pool is streamed instead of the transfer pool.
StreamStable ==
  /\ phase = "stream" /\ Cardinality(streamTested) < StreamTestLimit
  /\ LET budget == Monus(StreamTestLimit, Cardinality(streamTested))
         size   == Clamp(budget, 1, StreamBatchSize)
     IN \E batch \in Diverse(stable \ streamTested, size, RecheckFamily) :
          /\ streamTested' = streamTested \cup batch
          /\ \E passed \in SUBSET batch : streamOk' = streamOk \cup passed
  /\ UNCHANGED <<phase, caller, discoveryVars, strictVars, stabilityVars,
                 transferVars, selected, cutShort>>

StreamBatch ==
  /\ phase = "stream" /\ Cardinality(streamTested) < StreamTestLimit
  /\ LET budget == Monus(StreamTestLimit, Cardinality(streamTested))
         size   == Clamp(budget, 1, StreamBatchSize)
     IN \E batch \in Diverse(xferOk \ streamTested, size, RecheckFamily) :
          /\ streamTested' = streamTested \cup batch
          /\ \E passed \in SUBSET batch : streamOk' = streamOk \cup passed
  /\ UNCHANGED <<phase, caller, discoveryVars, strictVars, stabilityVars,
                 transferVars, selected, cutShort>>

LeaveStream ==
  /\ phase = "stream"
  /\ \/ Cardinality(streamTested) >= StreamTestLimit /\ UNCHANGED cutShort
     \/ Cardinality(streamTested) < StreamTestLimit /\ cutShort' = TRUE
  /\ phase' = "publish"
  /\ UNCHANGED <<caller, discoveryVars, strictVars, stabilityVars, transferVars,
                 streamVars>>

Publish ==
  /\ phase = "publish"
  /\ selected' \in Selected(streamOk)
  /\ phase' = "published"
  /\ UNCHANGED <<caller, discoveryVars, strictVars, stabilityVars, transferVars,
                 streamTested, streamOk, cutShort>>

\* A validation core cannot be run: the prefilter, the strict recheck, the
\* stability gate and the stream gate abort the run with an error.
CoreFails ==
  /\ \/ phase = "discover" /\ wave < Len(Waves)
     \/ phase = "recheck" /\ RecheckBatches # {{}}
     \/ phase = "stability" /\ ~StabilityFilled
     \/ phase = "stream" /\ Cardinality(streamTested) < StreamTestLimit
  /\ phase' = "failed"
  /\ UNCHANGED <<caller, discoveryVars, strictVars, stabilityVars, transferVars,
                 streamVars, cutShort>>

-----------------------------------------------------------------------------

Discovery == Prefilter \/ EndOfWaves \/ Decide
               \/ NothingToRecheck \/ StrictRecheck

TransferGate == EnterGate \/ StabilityBatch \/ LeaveStability
                  \/ LeaveTransfer \/ TransferBatch

StreamGate == StreamBatch \/ LeaveStream \/ Publish

Next == Discovery \/ TransferGate \/ StreamGate \/ CoreFails

Spec == Init /\ [][Next]_vars

\* The task is scheduled and every awaited validation ends (each has its own
\* timeout), so a step that stays possible is taken.
FairSpec == Spec /\ WF_vars(Next)
-----------------------------------------------------------------------------

TypeOK ==
  /\ phase \in Phases /\ caller \in {"wave", "final"}
  /\ wave \in 0..Len(Waves)
  /\ prefiltered \in SUBSET Configs
  /\ attempts \in [Configs -> Nat]
  /\ strict \in SUBSET Configs
  /\ stabTested \in SUBSET Configs /\ stable \in SUBSET Configs
  /\ xferTested \in SUBSET Configs /\ xferOk \in SUBSET Configs
  /\ xferSelected \in Nat
  /\ streamTested \in SUBSET Configs /\ streamOk \in SUBSET Configs
  /\ selected \in SUBSET Configs
  /\ cutShort \in BOOLEAN

\* No 10 MiB test is wasted: whatever has passed the transfer gate fits both
\* caps and the limit together, so every pass has a slot (fill_transfer_gate
\* tests only candidates the current selection admits, one per endpoint and
\* family and no more than there are slots, but recomputes the selection from
\* a new ranking after every batch).
PassesFitTogether ==
  /\ Fits(xferOk, MaxEndpoint, MaxFamily)
  /\ Cardinality(xferOk) <= Limit

\* The published list is exactly the set of stream-verified candidates: the
\* final selection of main never drops one, whatever the ranking, and the cap
\* exclusions it reports are always 0.
PublishesEveryStreamPass == phase = "published" => selected = streamOk

\* No wave ever fills the transfer gate, and so every chunk is discovered before
\* the gates: the additional potential is cut at the free slots and the reserve
\* target is above them by its margin, so "TRANSFER RESERVE READY" is never
\* reached in discovery, nor any of the three breaks that end discovery early.
WaveNeverFillsGate ==
  /\ caller = "wave" => phase \notin {"gate", "stability", "transfer"}
  /\ caller = "final" => wave = Len(Waves)

\* The test budgets of the three gates hold although every batch is at least
\* one candidate large.
BudgetsKept ==
  /\ Cardinality(stabTested) <= StabilityLimit
  /\ Cardinality(xferTested) <= TransferTestLimit
  /\ Cardinality(streamTested) <= StreamLimit

\* A gate whose time did not run out leaves nothing behind: a strict candidate
\* missing from the stability pool means that the pool's target or its budget
\* was reached, a stable candidate not tested at 10 MiB means that the caps, the
\* limit or the budget exclude it, a transfer pass not streamed that the stream
\* budget is used up (the early returns of the three fill functions).
GatesExhausted ==
  phase \in {"publish", "published"} /\ ~cutShort =>
    /\ \/ Cardinality(xferOk) >= Limit
       \/ StabilityFilled
    /\ \/ Cardinality(xferOk) >= Limit
       \/ Cardinality(xferTested) >= TransferTestLimit
       \/ \A c \in stable \ xferTested : Blocked(xferOk, c, MaxEndpoint, MaxFamily)
    /\ xferOk = streamTested \/ Cardinality(streamTested) = StreamLimit

\* A gate asks once: a candidate that failed the stability, transfer or stream
\* test never holds that gate later, and one that has passed the strict recheck
\* is not rechecked (the *_tested sets, MAX_FINAL_RECHECK_ATTEMPTS).
VerdictsAreFinal ==
  [][\A c \in Configs :
       /\ c \in stabTested \ stable => c \notin stable'
       /\ c \in xferTested \ xferOk => c \notin xferOk'
       /\ c \in streamTested \ streamOk => c \notin streamOk'
       /\ attempts'[c] # attempts[c] => c \notin strict /\ attempts'[c] <= MaxAttempts
    ]_vars

\* The builder as a funnel: the gates each candidate has passed, the run's end.
Passed(c) ==
  IF c \in streamOk THEN 5 ELSE IF c \in xferOk THEN 4
  ELSE IF c \in stable THEN 3 ELSE IF c \in strict THEN 2
  ELSE IF c \in prefiltered THEN 1 ELSE 0

Levels  == [c \in Configs |-> Passed(c)]
Outcome == IF phase \in {"published", "failed"} THEN phase ELSE "running"

Funnel == INSTANCE LightFunnel WITH
  gates <- Levels, output <- selected, status <- Outcome

\* Candidates earn prefilter, strict, stability, transfer and stream in that
\* order and keep them; the output is written once, from candidates that hold
\* all five and fit the caps, and a failed run outputs nothing.
FunnelPromise == Funnel!Spec

\* The run ends: every loop of the builder consumes waves, attempts or untested
\* candidates, whatever passes and whether or not a time budget runs out.
Termination == <>(phase \in {"published", "failed"})
=============================================================================
