------------------------- MODULE ObservabilityProofs -------------------------
(***************************************************************************)
(* What a metrics backend may rely on, for every pool, batch and queue     *)
(* size and every set of calls.                                            *)
(***************************************************************************)
EXTENDS Observability, ConservationProofs

LEMMA ObservedNextMaps == [ObservedNext]_observedVars => [Next]_vars
PROOF
  BY DEF ObservedNext, observedVars

LEMMA ObservedImplements == ObservedSpec => Spec
PROOF
  BY ObservedNextMaps, PTL DEF ObservedSpec, Spec, ObservedInit

TotalsOK ==
  /\ handed \in [Workers -> Nat] /\ triggered \in [Workers -> Nat]
  /\ completed \in [Workers -> Nat] /\ panics \in [Workers -> Nat]
  /\ depth \in [Workers -> Nat]

-----------------------------------------------------------------------------
(***************************************************************************)
(* Which step moves which total.                                           *)
(***************************************************************************)
SameTotals(w) ==
  /\ handed'[w] = handed[w] /\ triggered'[w] = triggered[w]
  /\ completed'[w] = completed[w] /\ panics'[w] = panics[w]
  /\ depth'[w] = depth[w]

(* A step that moves neither the accumulator nor the thread of w.          *)
LEMMA OthersReportNothing ==
  ASSUME TypeOK, Report, NEW w \in Workers, accPc'[w] = accPc[w], thPc'[w] = thPc[w]
  PROVE  SameTotals(w)
PROOF
  <1>1. /\ ~Send(w) /\ ~ResetBatchLen(w) /\ ~Ready(w) /\ ~Crash(w)
        /\ ~PredictReturns(w) /\ ~PredictPanics(w)
    BY DEF Send, ResetBatchLen, Ready, Crash, PredictReturns, PredictPanics,
           Goto, Step, TypeOK, WorkerTypeOK
  <1> QED
    BY <1>1 DEF SameTotals, Report, emit_batch_start, emit_inference,
                emit_worker_panic, emit_queue_depth, HandoffFlushed

LEMMA FiniteBatches ==
  ASSUME TypeOK, NEW w \in Workers
  PROVE  /\ IsFiniteSet(buffer[w]) /\ Cardinality(buffer[w]) \in Nat
         /\ IsFiniteSet(job[w]) /\ Cardinality(job[w]) \in Nat
         /\ IsFiniteSet(running[w]) /\ Cardinality(running[w]) \in Nat
         /\ Len(queue[w]) \in Nat
PROOF
  BY FiniteBuffers DEF TypeOK, WorkerTypeOK

LEMMA EmptyOrSame ==
  ASSUME NEW S, NEW T, T = {} \/ T = S, Cardinality(S) \in Nat
  PROVE  Cardinality(T) \in Nat /\ Cardinality(T) <= Cardinality(S)
PROOF
  <1>1. Cardinality({}) = 0
    BY FS_EmptySet
  <1> QED
    BY <1>1

LEMMA NextTotalsOK ==
  ASSUME TypeOK, TotalsOK, Report
  PROVE  TotalsOK'
PROOF
  <1> USE FiniteBatches DEF TotalsOK
  <1>1. handed' \in [Workers -> Nat] /\ triggered' \in [Workers -> Nat]
    BY DEF Report, emit_batch_start
  <1>2. completed' \in [Workers -> Nat]
    BY DEF Report, emit_inference
  <1>3. panics' \in [Workers -> Nat]
    BY DEF Report, emit_worker_panic
  <1>4. depth' \in [Workers -> Nat]
    BY DEF Report, emit_queue_depth
  <1> QED
    BY <1>1, <1>2, <1>3, <1>4

-----------------------------------------------------------------------------
(***************************************************************************)
(* Nothing completes that has not been triggered.                          *)
(***************************************************************************)

(* A batch that is handed over is reported before the next one is closed,  *)
(* unless a hook panicked.                                                 *)
TallyInv(w) ==
  /\ handed[w] > 0 => accPc[w] \in {"sent", "set_dead", "notify_waiters",
                                    "drop_receiver", "gone"}
  /\ Known(w) <= triggered[w] + handed[w]

LEMMA AccumulatorTallies ==
  ASSUME TypeOK, TotalsOK, ConservationInv, NEW w \in Workers, TallyInv(w), Report,
         AccumulatorProgress(w) \/ HookPanic(w)
  PROVE  TallyInv(w)'
PROOF
  <1> USE DEF TotalsOK, TypeOK, WorkerTypeOK, TallyInv, Known
  <1>1. thPc' = thPc /\ running' = running
    BY DEF othersVars, thVars, AccumulatorProgress, Pop, NotifyOne, IncrementLen,
       Exit, BatchTimeout, JobClosed, CheckPredictor, DrainPop, DrainDone, Ready,
       Reserve, ReserveClosed, CheckAgain, Send, ResetBatchLen, Crash,
       GuardSetDead, GuardNotify, DropReceiver, HookPanic
  <1>2. ~PredictReturns(w)
    BY <1>1 DEF PredictReturns, Step
  <1>3. completed'[w] = completed[w]
    BY <1>2 DEF Report, emit_inference
  <1>4. /\ Cardinality(buffer[w]) \in Nat /\ Cardinality(job[w]) \in Nat
        /\ Cardinality(running[w]) \in Nat
    BY FiniteBatches
  <1>5. CASE Send(w)
    <2>1. job[w] = {} /\ job'[w] = buffer[w] /\ accPc[w] = "send" /\ accPc'[w] = "sent"
      BY <1>5 DEF Send, Goto, ConservationInv, Slots
    <2>2. ~ResetBatchLen(w)
      BY <2>1 DEF ResetBatchLen
    <2>3. handed'[w] = Cardinality(buffer[w]) /\ triggered'[w] = triggered[w]
      BY <1>5, <2>2 DEF Report, emit_batch_start
    <2>4. handed[w] = 0 /\ Cardinality(job[w]) = 0
      BY <2>1, FS_EmptySet
    <2> QED
      BY <1>1, <1>3, <1>4, <2>1, <2>3, <2>4
  <1>6. CASE ResetBatchLen(w)
    <2>1. ~Send(w) /\ job' = job
      BY <1>6 DEF Send, ResetBatchLen
    <2>2. handed'[w] = 0 /\ triggered'[w] = triggered[w] + handed[w]
      BY <1>6, <2>1 DEF Report, emit_batch_start
    <2> QED
      BY <1>1, <1>3, <1>4, <2>1, <2>2
  <1>7. CASE ~Send(w) /\ ~ResetBatchLen(w)
    <2>1. handed'[w] = handed[w] /\ triggered'[w] = triggered[w]
      BY <1>7 DEF Report, emit_batch_start
    <2>2. job'[w] \in {{}, job[w]}
      BY <1>7, FrameJob
      DEF AccumulatorProgress, Pop, NotifyOne, IncrementLen,
       Exit, BatchTimeout, JobClosed, CheckPredictor, DrainPop, DrainDone, Ready,
       Reserve, ReserveClosed, CheckAgain, Crash,
       GuardSetDead, GuardNotify, DropReceiver, HookPanic
    <2>3. Cardinality(job'[w]) <= Cardinality(job[w]) /\ Cardinality(job'[w]) \in Nat
      BY <1>4, <2>2, EmptyOrSame
    <2>4. accPc[w] \in {"sent", "set_dead", "notify_waiters", "drop_receiver", "gone"}
            => accPc'[w] \in {"sent", "set_dead", "notify_waiters", "drop_receiver",
                              "gone"}
      BY <1>7
      DEF Goto, AccumulatorProgress, Pop, NotifyOne, IncrementLen,
       Exit, BatchTimeout, JobClosed, CheckPredictor, DrainPop, DrainDone, Ready,
       Reserve, ReserveClosed, CheckAgain, Crash,
       GuardSetDead, GuardNotify, DropReceiver, HookPanic
    <2> QED
      BY <1>1, <1>3, <1>4, <2>1, <2>3, <2>4
  <1> QED
    BY <1>5, <1>6, <1>7

LEMMA ThreadTallies ==
  ASSUME TypeOK, TotalsOK, ConservationInv, NEW w \in Workers, TallyInv(w), Report,
         ThreadProgress(w) \/ PredictPanics(w) \/ ThreadHookPanic(w)
  PROVE  TallyInv(w)'
PROOF
  <1> USE DEF TotalsOK, TypeOK, WorkerTypeOK, TallyInv, Known
  <1>1. accPc' = accPc
    BY ThreadOwnLength
    DEF outsideVars, accVars, ThreadProgress, TakeBatch, JobsClosed,
        PredictReturns, FailBatch, FlushBatch, RebuildSucceeds, RebuildGivesUp,
        SetAlive, NotifyAlive, SetDead, NotifyDead, DropJobReceiver,
        PredictPanics, ThreadHookPanic
  <1>2. ~Send(w) /\ ~ResetBatchLen(w)
    BY <1>1 DEF Send, ResetBatchLen, Goto
  <1>3. handed'[w] = handed[w] /\ triggered'[w] = triggered[w]
    BY <1>2 DEF Report, emit_batch_start
  <1>4. /\ Cardinality(job[w]) \in Nat /\ Cardinality(running[w]) \in Nat
        /\ IsFiniteSet(job[w]) /\ Cardinality({}) = 0
    BY FiniteBatches, FS_EmptySet
  <1>5. CASE TakeBatch(w)
    <2>1. /\ running[w] = {} /\ running'[w] \subseteq job[w] /\ job'[w] = {}
      BY <1>5 DEF TakeBatch, ConservationInv, Slots
    <2>2. Cardinality(running'[w]) <= Cardinality(job[w]) /\ Cardinality(running'[w]) \in Nat
      BY <1>4, <2>1, FS_Subset, FS_CardinalityType
    <2>3. ~PredictReturns(w)
      BY <1>5 DEF TakeBatch, PredictReturns
    <2>4. completed'[w] = completed[w]
      BY <2>3 DEF Report, emit_inference
    <2> QED
      BY <1>1, <1>3, <1>4, <2>1, <2>2, <2>4
  <1>6. CASE PredictReturns(w)
    <2>1. running'[w] = {} /\ job' = job
      BY <1>6 DEF PredictReturns
    <2>2. completed'[w] = completed[w] + Cardinality(running[w])
      BY <1>6 DEF Report, emit_inference
    <2> QED
      BY <1>1, <1>3, <1>4, <2>1, <2>2
  <1>7. CASE ~TakeBatch(w) /\ ~PredictReturns(w)
    <2>1. completed'[w] = completed[w]
      BY <1>7 DEF Report, emit_inference
    <2>2. running'[w] \in {{}, running[w]} /\ job'[w] \in {{}, job[w]}
      BY <1>7
      DEF ThreadProgress, JobsClosed, FailBatch, FlushBatch, RebuildSucceeds,
          RebuildGivesUp, SetAlive, NotifyAlive, SetDead, NotifyDead,
          DropJobReceiver, PredictPanics, ThreadHookPanic
    <2>3. /\ Cardinality(running'[w]) \in Nat /\ Cardinality(job'[w]) \in Nat
          /\ Cardinality(running'[w]) <= Cardinality(running[w])
          /\ Cardinality(job'[w]) <= Cardinality(job[w])
      BY <1>4, <2>2, EmptyOrSame
    <2> QED
      BY <1>1, <1>3, <1>4, <2>1, <2>3
  <1> QED
    BY <1>5, <1>6, <1>7

(* Any other step leaves where w is, what it holds, and its totals alone.  *)
Elsewhere(w) ==
  /\ accPc'[w] = accPc[w] /\ thPc'[w] = thPc[w] /\ predictor'[w] = predictor[w]
  /\ buffer'[w] = buffer[w] /\ job'[w] = job[w] /\ running'[w] = running[w]
  /\ Len(queue'[w]) \in Nat /\ Len(queue'[w]) >= Len(queue[w])

LEMMA UntouchedElsewhere ==
  ASSUME TypeOK, NEW w \in Workers, Untouched(w)
  PROVE  Elsewhere(w)
PROOF
  BY FiniteBatches DEF Untouched, Elsewhere

LEMMA CallElsewhere ==
  ASSUME TypeOK, NEW c \in Calls, Begin(c) \/ CallProgress(c) \/ DropFuture(c),
         NEW w \in Workers
  PROVE  Elsewhere(w)
PROOF
  <1>1. CASE PushSuccess(c) /\ w = sink[c]
    <2>1. /\ queue'[w] = Append(queue[w], c) /\ queue[w] \in Seq(Calls)
          /\ UNCHANGED <<accVars, thVars, predictor, job>>
      BY <1>1 DEF PushSuccess, TypeOK, WorkerTypeOK
    <2>2. Len(queue'[w]) = Len(queue[w]) + 1 /\ Len(queue[w]) \in Nat
      BY <2>1
    <2> QED
      BY <2>1, <2>2 DEF Elsewhere, accVars, thVars
  <1>2. CASE PushSuccess(c) /\ w # sink[c]
    <2>1. Untouched(w)
      BY <1>2
      DEF PushSuccess, Untouched, wordVars, accVars, thVars, TypeOK, WorkerTypeOK
    <2> QED
      BY <2>1, UntouchedElsewhere
  <1>3. CASE ~PushSuccess(c)
    <2>1. Untouched(w)
      BY <1>3, CallQuiet
      DEF Quiet, workerVars, wordVars, accVars, thVars, Untouched
    <2> QED
      BY <2>1, UntouchedElsewhere
  <1> QED
    BY <1>1, <1>2, <1>3

(* A step is one of worker w's accumulator, one of its thread, or happens  *)
(* elsewhere.                                                              *)
LEMMA WhoseStep ==
  ASSUME TypeOK, [Next]_vars, NEW w \in Workers
  PROVE  \/ AccumulatorProgress(w) \/ HookPanic(w)
         \/ ThreadProgress(w) \/ PredictPanics(w) \/ ThreadHookPanic(w)
         \/ Elsewhere(w)
PROOF
  <1>1. CASE CallNext
    <2>1. CASE DropHandle
      BY <2>1, UntouchedElsewhere
      DEF DropHandle, workerVars, wordVars, accVars, thVars, Untouched
    <2> QED
      BY <1>1, <2>1, CallElsewhere DEF CallNext
  <1>2. CASE AccumulatorNext
    <2>1. PICK v \in Workers : AccumulatorProgress(v) \/ HookPanic(v)
      BY <1>2 DEF AccumulatorNext
    <2>2. v # w => Untouched(w)
      BY <2>1, AccumulatorLocal
    <2> QED
      BY <2>1, <2>2, UntouchedElsewhere
  <1>3. CASE ThreadNext
    <2>1. PICK v \in Workers :
            ThreadProgress(v) \/ PredictPanics(v) \/ ThreadHookPanic(v)
      BY <1>3 DEF ThreadNext
    <2>2. v # w => Untouched(w)
      BY <2>1, ThreadLocal
    <2> QED
      BY <2>1, <2>2, UntouchedElsewhere
  <1>4. CASE UNCHANGED vars
    BY <1>4, UntouchedElsewhere DEF vars, wordVars, accVars, thVars, Untouched
  <1> QED
    BY <1>1, <1>2, <1>3, <1>4 DEF Next, Terminated

TalliesInv == TotalsOK /\ \A w \in Workers : TallyInv(w)

LEMMA NextTallies ==
  ASSUME TypeOK, ConservationInv, TalliesInv, [ObservedNext]_observedVars
  PROVE  TalliesInv'
PROOF
  <1>1. CASE UNCHANGED observedVars
    BY <1>1
    DEF TalliesInv, TotalsOK, TallyInv, Known, observedVars, metricsVars, vars,
        accVars, thVars
  <1>2. CASE ObservedNext
    <2>1. Report /\ [Next]_vars /\ TotalsOK'
      BY <1>2, NextTotalsOK DEF ObservedNext, TalliesInv
    <2>2. ASSUME NEW w \in Workers PROVE TallyInv(w)'
      <3>1. CASE AccumulatorProgress(w) \/ HookPanic(w)
        BY <2>1, <3>1, AccumulatorTallies DEF TalliesInv
      <3>2. CASE ThreadProgress(w) \/ PredictPanics(w) \/ ThreadHookPanic(w)
        BY <2>1, <3>2, ThreadTallies DEF TalliesInv
      <3>3. CASE Elsewhere(w)
        <4>1. SameTotals(w)
          BY <2>1, <3>3, OthersReportNothing DEF Elsewhere
        <4> QED
          BY <3>3, <4>1 DEF Elsewhere, SameTotals, TalliesInv, TallyInv, Known
      <3> QED
        BY <2>1, <3>1, <3>2, <3>3, WhoseStep
    <2> QED
      BY <2>1, <2>2 DEF TalliesInv
  <1> QED
    BY <1>1, <1>2

LEMMA InitTallies == ObservedInit => TalliesInv
PROOF
  BY FS_EmptySet DEF ObservedInit, Init, Zero, TalliesInv, TotalsOK, TallyInv, Known

LEMMA TalliesHold == ObservedSpec => []TalliesInv
PROOF
  <1>1. TypeOK /\ ConservationInv /\ TalliesInv /\ [ObservedNext]_observedVars
          => TalliesInv'
    BY NextTallies
  <1> QED
    BY <1>1, InitTallies, ObservedImplements, TypeCorrect, ConservationHolds, PTL
    DEF ObservedSpec

(* Completions never run ahead of triggers by more than the batch just     *)
(* handed over, whatever panics, flushes and cancellations happen.         *)
THEOREM NothingFromNowhere == ObservedSpec => []CompletedWereTriggered
PROOF
  <1>1. TalliesInv => CompletedWereTriggered
    BY DEF TalliesInv, TallyInv, CompletedWereTriggered
  <1> QED
    BY <1>1, TalliesHold, PTL

-----------------------------------------------------------------------------
(***************************************************************************)
(* The gauge.                                                              *)
(***************************************************************************)

(* A worker no user code has panicked in stays Alive and never drains, so  *)
(* requests leave its channel only into a batch, and from the moment the   *)
(* batch is closed, with a fresh gauge, none does until the hand-off ends. *)
GaugeInv(w) ==
  Undisturbed(w) =>
    /\ predictor[w] = "Alive" /\ thPc[w] \in {"recv", "predict", "gone"}
    /\ thPc[w] = "gone" => accPc[w] = "gone"
    /\ accPc[w] \notin {"drain", "dead", "set_dead", "notify_waiters",
                        "drop_receiver"}
    /\ accPc[w] \in {"recv", "popped", "notified", "collect", "check", "ready"}
         => depth[w] <= Len(queue[w]) + Cardinality(buffer[w])
    /\ accPc[w] \in {"reserve", "permit", "send", "sent"}
         => depth[w] <= Len(queue[w])

LEMMA AccumulatorGauges ==
  ASSUME TypeOK, TotalsOK, ConservationInv, BoundInv, NEW w \in Workers,
         GaugeInv(w), Report, Undisturbed(w)', AccumulatorProgress(w) \/ HookPanic(w)
  PROVE  GaugeInv(w)'
PROOF
  <1> USE DEF TotalsOK, TypeOK, WorkerTypeOK, GaugeInv
  <1>1. thPc' = thPc
    BY DEF othersVars, thVars, AccumulatorProgress, Pop, NotifyOne, IncrementLen,
       Exit, BatchTimeout, JobClosed, CheckPredictor, DrainPop, DrainDone, Ready,
       Reserve, ReserveClosed, CheckAgain, Send, ResetBatchLen, Crash,
       GuardSetDead, GuardNotify, DropReceiver, HookPanic
  <1>2. Undisturbed(w)
    <2>1. ~PredictPanics(w)
      BY <1>1 DEF PredictPanics, Step
    <2> QED
      BY <2>1 DEF Undisturbed, Report, emit_worker_panic
  <1>3. /\ Cardinality(buffer[w]) \in Nat /\ Len(queue[w]) \in Nat
        /\ depth[w] \in Nat
    BY FiniteBatches
  <1>4. /\ accPc[w] # "gone" /\ ~HookPanic(w) /\ ~DrainPop(w) /\ ~DrainDone(w)
        /\ ~Crash(w) /\ ~GuardSetDead(w) /\ ~GuardNotify(w) /\ ~DropReceiver(w)
    BY <1>2
    DEF Undisturbed, AccumulatorProgress, Pop, NotifyOne, IncrementLen,
       Exit, BatchTimeout, JobClosed, CheckPredictor, DrainPop, DrainDone, Ready,
       Reserve, ReserveClosed, CheckAgain, Send, ResetBatchLen, Crash,
       GuardSetDead, GuardNotify, DropReceiver, HookPanic
  <1>5. ~JobClosed(w) /\ ~ReserveClosed(w)
    BY <1>2, <1>4 DEF JobClosed, ReserveClosed, JobReceiverAlive
  <1>6. ASSUME ~Ready(w), ~ResetBatchLen(w) PROVE depth'[w] = depth[w]
    BY <1>4, <1>6 DEF Report, emit_queue_depth, HandoffFlushed
  <1>7. CASE Pop(w)
    <2>1. /\ accPc[w] \in {"recv", "collect"} /\ accPc'[w] = "popped"
          /\ queue[w] # <<>> /\ queue[w] \in Seq(Calls)
          /\ queue'[w] = Tail(queue[w]) /\ predictor' = predictor
          /\ buffer'[w] = buffer[w] \cup {Head(queue[w])}
      BY <1>7 DEF Pop, Goto
    <2>2. Len(queue'[w]) = Len(queue[w]) - 1
      BY <2>1
    <2>3. Head(queue[w]) \notin buffer[w]
      BY <2>1, TailSet DEF ConservationInv, OnePlace
    <2>4. Cardinality(buffer'[w]) = Cardinality(buffer[w]) + 1
      <3>1. Cardinality(buffer[w] \cup {Head(queue[w])}) = Cardinality(buffer[w]) + 1
        BY <2>3, FiniteBuffers, FS_AddElement
      <3> QED
        BY <2>1, <3>1
    <2>5. depth'[w] = depth[w]
      BY <1>6, <2>1 DEF Ready, ResetBatchLen
    <2> QED
      BY <1>1, <1>2, <1>3, <2>1, <2>2, <2>4, <2>5
  <1>8. CASE NotifyOne(w) \/ IncrementLen(w) \/ BatchTimeout(w) \/ CheckPredictor(w)
    <2>1. /\ accPc[w] \in {"popped", "notified", "collect", "check"}
          /\ accPc'[w] \in {"notified", "collect", "check", "ready"}
          /\ queue' = queue /\ buffer' = buffer /\ predictor' = predictor
      BY <1>2, <1>8
      DEF NotifyOne, IncrementLen, BatchTimeout, CheckPredictor, Goto
    <2>2. depth'[w] = depth[w]
      BY <1>6, <2>1 DEF Ready, ResetBatchLen
    <2> QED
      BY <1>1, <1>2, <1>3, <2>1, <2>2
  <1>9. CASE Ready(w)
    <2>1. accPc'[w] = "reserve" /\ queue' = queue /\ predictor' = predictor
      BY <1>9 DEF Ready, Goto
    <2>2. depth'[w] = Len(queue[w])
      BY <1>9 DEF Report, emit_queue_depth
    <2> QED
      BY <1>1, <1>2, <1>3, <1>4, <2>1, <2>2
  <1>10. CASE Reserve(w) \/ CheckAgain(w) \/ Send(w)
    <2>1. /\ accPc[w] \in {"reserve", "permit", "send"}
          /\ accPc'[w] \in {"permit", "send", "sent"}
          /\ queue' = queue /\ predictor' = predictor
      BY <1>2, <1>10 DEF Reserve, CheckAgain, Send, Goto
    <2>2. depth'[w] = depth[w]
      BY <1>6, <2>1 DEF Ready, ResetBatchLen
    <2> QED
      BY <1>1, <1>2, <1>3, <2>1, <2>2
  <1>11. CASE ResetBatchLen(w)
    <2>1. /\ accPc[w] = "sent" /\ accPc'[w] = "recv" /\ queue' = queue
          /\ buffer'[w] = {} /\ predictor' = predictor
      BY <1>11 DEF ResetBatchLen, Goto, BoundInv, BufferBound
    <2>2. depth'[w] = depth[w] \/ depth'[w] = Len(queue[w])
      BY <1>4, <1>11, <2>1 DEF Report, emit_queue_depth
    <2> QED
      BY <1>1, <1>2, <1>3, <2>1, <2>2, FS_EmptySet
  <1>12. CASE Exit(w)
    BY <1>1, <1>2, <1>12 DEF Exit, Goto
  <1> QED
    BY <1>4, <1>5, <1>7, <1>8, <1>9, <1>10, <1>11, <1>12 DEF AccumulatorProgress

LEMMA ThreadGauges ==
  ASSUME TypeOK, TotalsOK, NEW w \in Workers, GaugeInv(w), Report, Undisturbed(w)',
         ThreadProgress(w) \/ PredictPanics(w) \/ ThreadHookPanic(w)
  PROVE  GaugeInv(w)'
PROOF
  <1> USE DEF TotalsOK, TypeOK, WorkerTypeOK, GaugeInv
  <1>1. accPc' = accPc /\ buffer' = buffer /\ queue' = queue
    BY DEF outsideVars, accVars, ThreadProgress, TakeBatch, JobsClosed,
        PredictReturns, FailBatch, FlushBatch, RebuildSucceeds, RebuildGivesUp,
        SetAlive, NotifyAlive, SetDead, NotifyDead, DropJobReceiver,
        PredictPanics, ThreadHookPanic
  <1>2. Undisturbed(w) /\ ~PredictPanics(w)
    BY DEF Undisturbed, Report, emit_worker_panic
  <1>3. ~Ready(w) /\ ~Crash(w) /\ ~ResetBatchLen(w)
    BY <1>1 DEF Ready, Crash, ResetBatchLen, Goto
  <1>4. depth'[w] = depth[w]
    BY <1>3 DEF Report, emit_queue_depth, HandoffFlushed
  <1>5. TakeBatch(w) \/ JobsClosed(w) \/ PredictReturns(w)
    BY <1>2
    DEF Undisturbed, ThreadProgress, FailBatch, FlushBatch, RebuildSucceeds,
        RebuildGivesUp, SetAlive, NotifyAlive, SetDead, NotifyDead,
        DropJobReceiver, ThreadHookPanic
  <1>6. /\ predictor' = predictor /\ thPc'[w] \in {"recv", "predict", "gone"}
        /\ thPc'[w] = "gone" => ~JobSenderAlive(w)
    BY <1>5 DEF TakeBatch, JobsClosed, PredictReturns, Step
  <1> QED
    BY <1>1, <1>2, <1>4, <1>6 DEF JobSenderAlive

GaugesInv == \A w \in Workers : GaugeInv(w)

LEMMA NextGauges ==
  ASSUME TypeOK, ConservationInv, BoundInv, TotalsOK, GaugesInv,
         [ObservedNext]_observedVars
  PROVE  GaugesInv'
PROOF
  <1>1. CASE UNCHANGED observedVars
    BY <1>1
    DEF GaugesInv, GaugeInv, Undisturbed, observedVars, metricsVars, vars, accVars,
        thVars
  <1>2. CASE ObservedNext
    <2>1. Report /\ [Next]_vars
      BY <1>2 DEF ObservedNext
    <2>2. ASSUME NEW w \in Workers, Undisturbed(w)' PROVE GaugeInv(w)'
      <3>1. CASE AccumulatorProgress(w) \/ HookPanic(w)
        BY <2>1, <2>2, <3>1, AccumulatorGauges DEF GaugesInv
      <3>2. CASE ThreadProgress(w) \/ PredictPanics(w) \/ ThreadHookPanic(w)
        BY <2>1, <2>2, <3>2, ThreadGauges DEF GaugesInv
      <3>3. CASE Elsewhere(w)
        <4>1. SameTotals(w) /\ Cardinality(buffer[w]) \in Nat /\ depth[w] \in Nat
              /\ Len(queue[w]) \in Nat
          BY <2>1, <3>3, OthersReportNothing, FiniteBatches DEF Elsewhere, TotalsOK
        <4>2. Undisturbed(w) /\ GaugeInv(w)
          BY <2>2, <4>1 DEF Undisturbed, SameTotals, GaugesInv
        <4> QED
          BY <3>3, <4>1, <4>2 DEF Elsewhere, SameTotals, GaugeInv
      <3> QED
        BY <2>1, <3>1, <3>2, <3>3, WhoseStep
    <2>3. ASSUME NEW w \in Workers, ~Undisturbed(w)' PROVE GaugeInv(w)'
      BY <2>3 DEF GaugeInv
    <2> QED
      BY <2>2, <2>3 DEF GaugesInv
  <1> QED
    BY <1>1, <1>2

LEMMA InitGauges == ObservedInit => GaugesInv
PROOF
  BY FS_EmptySet DEF ObservedInit, Init, Zero, GaugesInv, GaugeInv

(* In a worker no user code has panicked in, the gauge never exceeds what  *)
(* is queued and in the batch, so it reads zero once the worker is idle.   *)
THEOREM GaugesHonest == ObservedSpec => []GaugeHonest
PROOF
  <1>1. GaugesInv => GaugeHonest
    BY DEF GaugesInv, GaugeInv, GaugeHonest
  <1>2. TypeOK /\ ConservationInv /\ BoundInv /\ TalliesInv /\ GaugesInv
          /\ [ObservedNext]_observedVars => GaugesInv'
    BY NextGauges DEF TalliesInv
  <1> QED
    BY <1>1, <1>2, InitGauges, ObservedImplements, TypeCorrect, ConservationHolds,
       InitBoundInv, NextBoundInv, TalliesHold, PTL
    DEF ObservedSpec, Spec

-----------------------------------------------------------------------------
(***************************************************************************)
(* While nobody gives up, everything that was triggered completes.         *)
(***************************************************************************)

(* Who has ended and left a request behind has timed out, and stays so.    *)
LeftBehind(c) ==
  /\ result[c] = "TimeoutError" => pc[c] = "done"
  /\ pc[c] = "done" /\ Placed(c) => result[c] = "TimeoutError"

LeftInv == \A c \in Calls : LeftBehind(c)

LEMMA NextWorkerLeaves ==
  ASSUME TypeOK, NEW c \in Calls, NEW h, NextWorker(c, h)
  PROVE  /\ \A d \in Calls \ {c} : pc'[d] = pc[d] /\ result'[d] = result[d]
         /\ pc'[c] # "done" => result'[c] = result[c]
PROOF
  <1> USE DEF TypeOK, CallTypeOK
  <1>1. CASE Advance(c, h)
    BY <1>1 DEF Advance
  <1>2. CASE QueueFull(c) /\ c \in TryCalls
    BY <1>2 DEF QueueFull, Finish
  <1>3. CASE QueueFull(c) /\ c \notin TryCalls
    BY <1>3 DEF QueueFull
  <1>4. CASE Finish(c, "NoAvailableWorkersError")
    BY <1>4 DEF Finish
  <1> QED
    BY <1>1, <1>2, <1>3, <1>4 DEF NextWorker

(* How a call ends.                                                        *)
LEMMA CallLeaves ==
  ASSUME TypeOK, NEW c \in Calls, Begin(c) \/ CallProgress(c) \/ DropFuture(c)
  PROVE  /\ pc[c] # "done"
         /\ \A d \in Calls \ {c} : pc'[d] = pc[d] /\ result'[d] = result[d]
         /\ pc'[c] # "done" => result'[c] = result[c]
         /\ pc'[c] = "done" => \/ result'[c] = "TimeoutError"
                               \/ pc[c] # "await" \/ reply[c] # "none"
PROOF
  <1> USE DEF TypeOK, CallTypeOK
  <1>1. CASE Begin(c) \/ Enable(c) \/ Wake(c)
    BY <1>1 DEF Begin, Enable, Wake, StartWalk
  <1>2. CASE \E h : NextWorker(c, h) /\ pc[c] \notin {"done", "await"}
    BY <1>2, NextWorkerLeaves
  <1>3. CASE ProbePrimary(c)
    BY <1>2, <1>3 DEF ProbePrimary
  <1>4. CASE ProbeSecondary(c)
    BY <1>4 DEF ProbeSecondary
  <1>5. CASE ProbePredictor(c)
    BY <1>2, <1>5 DEF ProbePredictor
  <1>6. CASE IsRebuilding(c) \/ PushFull(c) \/ PushClosed(c)
    BY <1>2, <1>6 DEF IsRebuilding, PushFull, PushClosed
  <1>7. CASE PushSuccess(c)
    BY <1>7 DEF PushSuccess
  <1>8. CASE Receive(c)
    BY <1>8 DEF Receive, Finish
  <1>9. CASE DropFuture(c)
    BY <1>9 DEF DropFuture, Finish
  <1> QED
    BY <1>1, <1>3, <1>4, <1>5, <1>6, <1>7, <1>8, <1>9 DEF CallProgress

LEMMA CallPlaces ==
  ASSUME TypeOK, NEW c \in Calls, Begin(c) \/ CallProgress(c) \/ DropFuture(c),
         NEW d \in Calls, Placed(d)'
  PROVE  Placed(d) \/ pc'[d] = "await"
PROOF
  <1>1. CASE PushSuccess(c)
    <2>1. PICK w \in Workers : d \in Held(w)'
      BY DEF Placed
    <2>2. /\ buffer' = buffer /\ job' = job /\ running' = running
          /\ queue[w] \in Seq(Calls) /\ pc'[c] = "await"
          /\ queue'[w] \in {queue[w], Append(queue[w], c)}
      BY <1>1 DEF PushSuccess, accVars, thVars, TypeOK, CallTypeOK, WorkerTypeOK
    <2>3. ToSet(queue'[w]) \subseteq ToSet(queue[w]) \cup {c}
      BY <2>2, AppendSet
    <2> QED
      BY <2>1, <2>2, <2>3 DEF Held, Placed
  <1>2. CASE ~PushSuccess(c)
    BY <1>2, CallQuiet
    DEF Quiet, workerVars, accVars, thVars, Placed, Held, ToSet
  <1> QED
    BY <1>1, <1>2

LEMMA MovesLeave ==
  ASSUME LeftInv, NEW v \in Workers, \E S, r : Moves(v, S, r),
         \A w \in Workers \ {v} : Untouched(w), UNCHANGED result
  PROVE  LeftInv'
PROOF
  <1>1. UNCHANGED pc /\ Held(v)' \subseteq Held(v)
    BY DEF Moves
  <1>2. \A w \in Workers \ {v} : Held(w)' = Held(w)
    BY UntouchedHeld
  <1>3. \A c \in Calls : Placed(c)' => Placed(c)
    BY <1>1, <1>2 DEF Placed
  <1> QED
    BY <1>1, <1>3 DEF LeftInv, LeftBehind

LEMMA SameResults ==
  ASSUME NEW v \in Workers,
         \/ AccumulatorProgress(v) \/ HookPanic(v)
         \/ ThreadProgress(v) \/ PredictPanics(v) \/ ThreadHookPanic(v)
  PROVE  UNCHANGED result
PROOF
  BY DEF othersVars, outsideVars, AccumulatorProgress, Pop, NotifyOne,
     IncrementLen, Exit, BatchTimeout, JobClosed, CheckPredictor, DrainPop,
     DrainDone, Ready, Reserve, ReserveClosed, CheckAgain, Send, ResetBatchLen,
     Crash, GuardSetDead, GuardNotify, DropReceiver, HookPanic, ThreadProgress,
     TakeBatch, JobsClosed, PredictReturns, FailBatch, FlushBatch,
     RebuildSucceeds, RebuildGivesUp, SetAlive, NotifyAlive, SetDead, NotifyDead,
     DropJobReceiver, PredictPanics, ThreadHookPanic

LEMMA NextLeft ==
  ASSUME TypeOK, ConservationInv, LeftInv, [Next]_vars
  PROVE  LeftInv' /\ \A c \in Calls : result[c] = "TimeoutError" =>
                                       result'[c] = "TimeoutError"
PROOF
  <1>1. ASSUME NEW c \in Calls, Begin(c) \/ CallProgress(c) \/ DropFuture(c)
        PROVE  /\ LeftInv'
               /\ \A d \in Calls : result[d] = "TimeoutError" =>
                                    result'[d] = "TimeoutError"
    <2>1. ASSUME NEW d \in Calls \ {c} PROVE LeftBehind(d)'
      BY <1>1, <2>1, CallLeaves, CallPlaces DEF LeftInv, LeftBehind
    <2>2. LeftBehind(c)'
      <3>1. pc[c] = "await" /\ reply[c] # "none" => ~Placed(c)
        BY DEF ConservationInv, Owed
      <3>2. pc[c] \notin {"await", "done"} => ~Placed(c)
        BY DEF ConservationInv, Owed
      <3> QED
        BY <1>1, <3>1, <3>2, CallLeaves, CallPlaces DEF LeftInv, LeftBehind
    <2> QED
      BY <1>1, <2>1, <2>2, CallLeaves DEF LeftInv, LeftBehind
  <1>2. ASSUME NEW v \in Workers, AccumulatorProgress(v) \/ HookPanic(v)
        PROVE  LeftInv' /\ UNCHANGED result
    BY <1>2, AccumulatorMoves, AccumulatorLocal, SameResults, MovesLeave
  <1>3. ASSUME NEW v \in Workers,
               ThreadProgress(v) \/ PredictPanics(v) \/ ThreadHookPanic(v)
        PROVE  LeftInv' /\ UNCHANGED result
    BY <1>3, ThreadMoves, ThreadLocal, SameResults, MovesLeave
  <1>4. CASE DropHandle \/ UNCHANGED vars
    <2>1. UNCHANGED <<pc, result, queue, buffer, job, running>>
      BY <1>4 DEF DropHandle, vars, callVars, workerVars, accVars, thVars
    <2> QED
      BY <2>1 DEF LeftInv, LeftBehind, Placed, Held, ToSet
  <1> QED
    BY <1>1, <1>2, <1>3, <1>4
    DEF Next, CallNext, AccumulatorNext, ThreadNext, Terminated

NobodyTimedOut == \A c \in Calls : result[c] # "TimeoutError"

CompleteInv(w) ==
  Undisturbed(w) /\ NobodyTimedOut => Known(w) = triggered[w] + handed[w]

(* The undisturbed accumulator loses no batch it has handed over ...       *)
LEMMA AccumulatorCompletes ==
  ASSUME TypeOK, TotalsOK, ConservationInv, NEW w \in Workers, GaugeInv(w),
         TallyInv(w), Undisturbed(w), Known(w) = triggered[w] + handed[w], Report,
         AccumulatorProgress(w) \/ HookPanic(w)
  PROVE  Known(w)' = triggered'[w] + handed'[w]
PROOF
  <1> USE DEF TotalsOK, TypeOK, WorkerTypeOK, GaugeInv, Known
  <1>1. thPc' = thPc /\ running' = running
    BY DEF othersVars, thVars, AccumulatorProgress, Pop, NotifyOne, IncrementLen,
       Exit, BatchTimeout, JobClosed, CheckPredictor, DrainPop, DrainDone, Ready,
       Reserve, ReserveClosed, CheckAgain, Send, ResetBatchLen, Crash,
       GuardSetDead, GuardNotify, DropReceiver, HookPanic
  <1>2. completed'[w] = completed[w]
    BY <1>1 DEF PredictReturns, Step, Report, emit_inference
  <1>3. /\ Cardinality(buffer[w]) \in Nat /\ Cardinality(job[w]) \in Nat
        /\ Cardinality(running[w]) \in Nat
    BY FiniteBatches
  <1>4. CASE Send(w)
    <2>1. job[w] = {} /\ job'[w] = buffer[w] /\ accPc[w] = "send"
      BY <1>4 DEF Send, ConservationInv, Slots
    <2>2. handed[w] = 0 /\ Cardinality(job[w]) = 0
      BY <2>1, FS_EmptySet DEF TallyInv
    <2>3. handed'[w] = Cardinality(buffer[w]) /\ triggered'[w] = triggered[w]
      BY <1>4, <2>1 DEF ResetBatchLen, Report, emit_batch_start
    <2> QED
      BY <1>1, <1>2, <1>3, <2>1, <2>2, <2>3
  <1>5. CASE ResetBatchLen(w)
    <2>1. ~Send(w) /\ job' = job
      BY <1>5 DEF Send, ResetBatchLen
    <2>2. handed'[w] = 0 /\ triggered'[w] = triggered[w] + handed[w]
      BY <1>5, <2>1 DEF Report, emit_batch_start
    <2> QED
      BY <1>1, <1>2, <1>3, <2>1, <2>2
  <1>6. CASE ~Send(w) /\ ~ResetBatchLen(w)
    <2>1. handed'[w] = handed[w] /\ triggered'[w] = triggered[w]
      BY <1>6 DEF Report, emit_batch_start
    <2>2. accPc[w] # "gone" /\ ~Crash(w) /\ ~HookPanic(w)
      BY DEF Undisturbed, AccumulatorProgress, Pop, NotifyOne, IncrementLen,
       Exit, BatchTimeout, JobClosed, CheckPredictor, DrainPop, DrainDone, Ready,
       Reserve, ReserveClosed, CheckAgain, Send, ResetBatchLen, Crash,
       GuardSetDead, GuardNotify, DropReceiver, HookPanic
    <2>3. CASE Exit(w)
      <3>1. FreedJob(w) = {}
        BY <2>2 DEF FreedJob, JobReceiverAlive
      <3>2. job'[w] = job[w]
        BY <2>3, <3>1 DEF Exit, DropFrame
      <3> QED
        BY <1>1, <1>2, <2>1, <3>2
    <2>4. CASE ~Exit(w)
      <3>1. job' = job
        BY <1>6, <2>2, <2>4
        DEF AccumulatorProgress, Pop, NotifyOne, IncrementLen, BatchTimeout,
            JobClosed, CheckPredictor, DrainPop, DrainDone, Ready, Reserve,
            ReserveClosed, CheckAgain, GuardSetDead, GuardNotify, DropReceiver
      <3> QED
        BY <1>1, <1>2, <2>1, <3>1
    <2> QED
      BY <2>3, <2>4
  <1> QED
    BY <1>4, <1>5, <1>6

(* ... and its thread runs every request of it, since all are waited for.  *)
LEMMA ThreadCompletes ==
  ASSUME TypeOK, TotalsOK, ConservationInv, LeftInv, NobodyTimedOut,
         NEW w \in Workers, GaugeInv(w), Undisturbed(w), Undisturbed(w)',
         Known(w) = triggered[w] + handed[w], Report,
         ThreadProgress(w) \/ PredictPanics(w) \/ ThreadHookPanic(w)
  PROVE  Known(w)' = triggered'[w] + handed'[w]
PROOF
  <1> USE DEF TotalsOK, TypeOK, WorkerTypeOK, GaugeInv, Known
  <1>1. accPc' = accPc
    BY DEF outsideVars, accVars, ThreadProgress, TakeBatch, JobsClosed,
        PredictReturns, FailBatch, FlushBatch, RebuildSucceeds, RebuildGivesUp,
        SetAlive, NotifyAlive, SetDead, NotifyDead, DropJobReceiver,
        PredictPanics, ThreadHookPanic
  <1>2. handed'[w] = handed[w] /\ triggered'[w] = triggered[w]
    BY <1>1 DEF Send, ResetBatchLen, Goto, Report, emit_batch_start
  <1>3. /\ Cardinality(job[w]) \in Nat /\ Cardinality(running[w]) \in Nat
        /\ Cardinality({}) = 0
    BY FiniteBatches, FS_EmptySet
  <1>4. TakeBatch(w) \/ JobsClosed(w) \/ PredictReturns(w)
    BY DEF Undisturbed, Report, emit_worker_panic, ThreadProgress, FailBatch,
        FlushBatch, RebuildSucceeds, RebuildGivesUp, SetAlive, NotifyAlive,
        SetDead, NotifyDead, DropJobReceiver, PredictPanics, ThreadHookPanic
  <1>5. CASE TakeBatch(w)
    <2>1. \A c \in job[w] : pc[c] = "await"
      BY DEF ConservationInv, Owed, Placed, Held, LeftInv, LeftBehind,
             NobodyTimedOut
    <2>2. running[w] = {} /\ running'[w] = job[w] /\ job'[w] = {}
      BY <1>5, <2>1 DEF TakeBatch, ConservationInv, Slots
    <2>3. completed'[w] = completed[w]
      BY <1>5 DEF TakeBatch, PredictReturns, Report, emit_inference
    <2> QED
      BY <1>2, <1>3, <2>2, <2>3
  <1>6. CASE PredictReturns(w)
    <2>1. running'[w] = {} /\ job' = job
      BY <1>6 DEF PredictReturns
    <2>2. completed'[w] = completed[w] + Cardinality(running[w])
      BY <1>6 DEF Report, emit_inference
    <2> QED
      BY <1>2, <1>3, <2>1, <2>2
  <1>7. CASE JobsClosed(w)
    <2>1. running' = running /\ job' = job
      BY <1>7 DEF JobsClosed
    <2>2. completed'[w] = completed[w]
      BY <1>7 DEF JobsClosed, PredictReturns, Report, emit_inference
    <2> QED
      BY <1>2, <2>1, <2>2
  <1> QED
    BY <1>4, <1>5, <1>6, <1>7

CompletesInv == LeftInv /\ \A w \in Workers : CompleteInv(w)

LEMMA NextCompletes ==
  ASSUME TypeOK, ConservationInv, TalliesInv, GaugesInv, CompletesInv,
         [ObservedNext]_observedVars
  PROVE  CompletesInv'
PROOF
  <1>1. [Next]_vars
    BY ObservedNextMaps
  <1>2. LeftInv' /\ (NobodyTimedOut' => NobodyTimedOut)
    BY <1>1, NextLeft DEF CompletesInv, NobodyTimedOut
  <1>3. CASE UNCHANGED observedVars
    BY <1>2, <1>3
    DEF CompletesInv, CompleteInv, Undisturbed, Known, observedVars, metricsVars,
        vars, accVars, thVars
  <1>4. CASE ObservedNext
    <2>1. Report
      BY <1>4 DEF ObservedNext
    <2>2. ASSUME NEW w \in Workers, Undisturbed(w)', NobodyTimedOut'
          PROVE  Known(w)' = triggered'[w] + handed'[w]
      <3>1. panics[w] <= panics'[w] /\ panics[w] \in Nat
        BY <2>1 DEF Report, emit_worker_panic, TalliesInv, TotalsOK
      <3>2. Undisturbed(w) /\ Known(w) = triggered[w] + handed[w]
        BY <1>2, <2>2, <3>1 DEF Undisturbed, CompletesInv, CompleteInv
      <3>3. CASE AccumulatorProgress(w) \/ HookPanic(w)
        BY <2>1, <2>2, <3>2, <3>3, AccumulatorCompletes
        DEF TalliesInv, GaugesInv
      <3>4. CASE ThreadProgress(w) \/ PredictPanics(w) \/ ThreadHookPanic(w)
        BY <1>2, <2>1, <2>2, <3>2, <3>4, ThreadCompletes
        DEF TalliesInv, GaugesInv, CompletesInv
      <3>5. CASE Elsewhere(w)
        <4>1. SameTotals(w)
          BY <2>1, <3>5, OthersReportNothing DEF Elsewhere
        <4> QED
          BY <3>2, <3>5, <4>1 DEF Elsewhere, SameTotals, Known
      <3> QED
        BY <1>1, <3>3, <3>4, <3>5, WhoseStep
    <2> QED
      BY <1>2, <2>2 DEF CompletesInv, CompleteInv
  <1> QED
    BY <1>3, <1>4

LEMMA InitCompletes == ObservedInit => CompletesInv
PROOF
  BY FS_EmptySet, EmptyQueue
  DEF ObservedInit, Init, Zero, CompletesInv, LeftInv, LeftBehind, CompleteInv,
      Known, Placed, Held

(* Until a caller times out or user code panics, every request reported as *)
(* triggered has completed or is on its way: no step of the accumulator,   *)
(* the job channel or filter_canceled makes a batch smaller.               *)
THEOREM TriggeredCompletes == ObservedSpec => []TriggeredComplete
PROOF
  <1>1. CompletesInv => TriggeredComplete
    BY DEF CompletesInv, CompleteInv, NobodyTimedOut, TriggeredComplete
  <1>2. TypeOK /\ ConservationInv /\ BoundInv /\ TalliesInv /\ GaugesInv
          /\ [ObservedNext]_observedVars => GaugesInv'
    BY NextGauges DEF TalliesInv
  <1>3. TypeOK /\ ConservationInv /\ TalliesInv /\ GaugesInv /\ CompletesInv
          /\ [ObservedNext]_observedVars => CompletesInv'
    BY NextCompletes
  <1> QED
    BY <1>1, <1>2, <1>3, InitGauges, InitCompletes, ObservedImplements, TypeCorrect,
       ConservationHolds, InitBoundInv, NextBoundInv, TalliesHold, PTL
    DEF ObservedSpec, Spec
=============================================================================
