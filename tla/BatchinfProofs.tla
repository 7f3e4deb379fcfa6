--------------------------- MODULE BatchinfProofs ---------------------------
(***************************************************************************)
(* Theorems about Batchinf, for every pool size, batch size, queue size    *)
(* and set of calls.                                                       *)
(***************************************************************************)
EXTENDS Batchinf, FiniteSetTheorems, SequenceTheorems, TLAPS

-----------------------------------------------------------------------------
(* Workers are numbered from 0, and the round-robin arithmetic stays in    *)
(* the pool.                                                               *)
LEMMA WorkersFact ==
  /\ 0 \in Workers
  /\ PoolSize \in 0 .. PoolSize
  /\ \A k \in Workers : (k + 1) % PoolSize \in Workers
PROOF
  BY ConfigAssumption DEF Workers

(* Taking an element out of a sequence leaves a sequence.                  *)
LEMMA RemoveAtType ==
  ASSUME NEW S, NEW s \in Seq(S), NEW i \in DOMAIN s
  PROVE  RemoveAt(s, i) \in Seq(S)
PROOF
  BY DEF RemoveAt

LEMMA InitTypeOK == Init => TypeOK
PROOF
  <1> SUFFICES ASSUME Init PROVE TypeOK
    OBVIOUS
  <1>1. sink \in [Calls -> Workers] /\ left \in [Calls -> 0 .. PoolSize]
        /\ start \in Workers
    BY WorkersFact, ConfigAssumption DEF Init
  <1>2. waiters \in Seq(Calls) /\ queue \in [Workers -> Seq(Calls)]
    BY DEF Init
  <1>3. batchLen \in [Workers -> Nat]
    BY DEF Init
  <1> QED
    BY <1>1, <1>2, <1>3
    DEF Init, TypeOK, CallTypeOK, NotifyTypeOK, WorkerTypeOK, CallPc, AccPc, ThPc, WorkerStatus, PredictorStatus

LEMMA AnswerType ==
  ASSUME CallTypeOK, NEW S, NEW r \in Replies \cup {"Dropped"}, Answer(S, r)
  PROVE  reply' \in [Calls -> Replies \cup {"none", "Dropped"}]
PROOF
  BY DEF CallTypeOK, Answer

LEMMA DropSendersType ==
  ASSUME CallTypeOK, NEW S, DropSenders(S)
  PROVE  reply' \in [Calls -> Replies \cup {"none", "Dropped"}]
PROOF
  BY AnswerType DEF DropSenders

LEMMA NotifyOneType ==
  ASSUME NotifyTypeOK, notify_one
  PROVE  NotifyTypeOK'
PROOF
  <1>1. CASE waiters = <<>>
    BY <1>1 DEF notify_one, NotifyTypeOK
  <1>2. CASE waiters # <<>>
    <2>1. Head(waiters) \in Calls /\ Tail(waiters) \in Seq(Calls)
      BY <1>2 DEF NotifyTypeOK
    <2> QED
      BY <1>2, <2>1 DEF notify_one, NotifyTypeOK
  <1> QED
    BY <1>1, <1>2

LEMMA NotifyWaitersType ==
  ASSUME NotifyTypeOK, notify_waiters
  PROVE  NotifyTypeOK'
PROOF
  BY DEF notify_waiters, NotifyTypeOK

LEMMA EnableNotifiedType ==
  ASSUME NotifyTypeOK, NEW c \in Calls, EnableNotified(c)
  PROVE  NotifyTypeOK'
PROOF
  <1>1. Append(waiters, c) \in Seq(Calls)
    BY DEF NotifyTypeOK
  <1> QED
    BY <1>1 DEF EnableNotified, NotifyTypeOK

LEMMA DropNotifiedType ==
  ASSUME NotifyTypeOK, NEW c \in Calls, DropNotified(c)
  PROVE  NotifyTypeOK'
PROOF
  <1>1. \A i \in DOMAIN waiters : RemoveAt(waiters, i) \in Seq(Calls)
    BY RemoveAtType DEF NotifyTypeOK
  <1>2. waiters # <<>> =>
          Head(waiters) \in Calls /\ Tail(waiters) \in Seq(Calls)
    BY DEF NotifyTypeOK
  <1>3. waiters' \in Seq(Calls)
    BY <1>1, <1>2 DEF DropNotified, NotifyTypeOK
  <1>4. note' \in [Calls -> {"none", "listed", "one", "all", "spent"}]
    BY <1>2 DEF DropNotified, NotifyTypeOK
  <1>5. permit' \in BOOLEAN
    BY DEF DropNotified, NotifyTypeOK
  <1> QED
    BY <1>3, <1>4, <1>5 DEF NotifyTypeOK

-----------------------------------------------------------------------------
(***************************************************************************)
(* The steps of a call keep the types.                                     *)
(***************************************************************************)
LEMMA FinishType ==
  ASSUME CallTypeOK, NotifyTypeOK, NEW c \in Calls,
         NEW r \in Replies \cup Errors, Finish(c, r)
  PROVE  CallTypeOK' /\ NotifyTypeOK'
PROOF
  <1>1. NotifyTypeOK'
    BY DropNotifiedType DEF Finish
  <1>2. CallTypeOK'
    BY WorkersFact, ConfigAssumption DEF Finish, CallTypeOK, CallPc
  <1> QED
    BY <1>1, <1>2

LEMMA StartWalkType ==
  ASSUME CallTypeOK, NEW c \in Calls, StartWalk(c)
  PROVE  CallTypeOK'
PROOF
  <1>1. start' \in Workers
    BY WorkersFact DEF StartWalk, CallTypeOK
  <1> QED
    BY <1>1, WorkersFact DEF StartWalk, CallTypeOK, CallPc

LEMMA QueueFullType ==
  ASSUME CallTypeOK, NotifyTypeOK, NEW c \in Calls, QueueFull(c)
  PROVE  CallTypeOK' /\ NotifyTypeOK'
PROOF
  <1>1. CASE c \in TryCalls
    BY <1>1, FinishType DEF QueueFull, Errors
  <1>2. CASE c \notin TryCalls
    BY <1>2 DEF QueueFull, CallTypeOK, NotifyTypeOK, notifyVars, CallPc
  <1> QED
    BY <1>1, <1>2

LEMMA NextWorkerType ==
  ASSUME CallTypeOK, NotifyTypeOK, NEW c \in Calls, NEW h \in BOOLEAN,
         NextWorker(c, h)
  PROVE  CallTypeOK' /\ NotifyTypeOK'
PROOF
  <1>1. CASE Advance(c, h)
    <2>1. sink' \in [Calls -> Workers]
      BY <1>1, WorkersFact DEF Advance, CallTypeOK
    <2>2. left' \in [Calls -> 0 .. PoolSize]
      BY <1>1, WorkersFact, ConfigAssumption DEF Advance, CallTypeOK
    <2> QED
      BY <1>1, <2>1, <2>2
      DEF Advance, CallTypeOK, NotifyTypeOK, notifyVars, CallPc
  <1>2. CASE QueueFull(c)
    BY <1>2, QueueFullType
  <1>3. CASE Finish(c, "NoAvailableWorkersError")
    BY <1>3, FinishType DEF Errors
  <1> QED
    BY <1>1, <1>2, <1>3 DEF NextWorker

LEMMA WorkersUnchanged ==
  ASSUME WorkerTypeOK, UNCHANGED workerVars
  PROVE  WorkerTypeOK'
PROOF
  BY DEF WorkerTypeOK, workerVars, wordVars, accVars, thVars

LEMMA CallStepType ==
  ASSUME TypeOK, NEW c \in Calls,
         Begin(c) \/ CallProgress(c) \/ DropFuture(c)
  PROVE  TypeOK'
PROOF
  <1> USE DEF TypeOK
  <1>1. UNCHANGED workerVars => WorkerTypeOK'
    BY WorkersUnchanged
  <1>2. CASE Begin(c)
    BY <1>1, <1>2, StartWalkType DEF Begin, NotifyTypeOK, notifyVars
  <1>3. CASE ProbePrimary(c)
    <2>1. CASE NextWorker(c, hope[c])
      BY <1>1, <1>3, <2>1, NextWorkerType DEF ProbePrimary, CallTypeOK
    <2>2. CASE ~NextWorker(c, hope[c])
      BY <1>1, <1>3, <2>2
      DEF ProbePrimary, CallTypeOK, NotifyTypeOK, notifyVars, CallPc
    <2> QED
      BY <2>1, <2>2
  <1>4. CASE ProbeSecondary(c)
    BY <1>1, <1>4
    DEF ProbeSecondary, CallTypeOK, NotifyTypeOK, notifyVars, CallPc
  <1>13. CASE ProbePredictor(c)
    <2>1. CASE NextWorker(c, hope[c])
      BY <1>1, <1>13, <2>1, NextWorkerType DEF ProbePredictor, CallTypeOK
    <2>2. CASE ~NextWorker(c, hope[c])
      BY <1>1, <1>13, <2>2
      DEF ProbePredictor, CallTypeOK, NotifyTypeOK, notifyVars, CallPc
    <2> QED
      BY <2>1, <2>2
  <1>5. CASE IsRebuilding(c)
    <2>1. (hope[c] \/ is_rebuilding(sink[c])) \in BOOLEAN
      BY DEF is_rebuilding, CallTypeOK
    <2> QED
      BY <1>1, <1>5, <2>1, NextWorkerType DEF IsRebuilding
  <1>6. CASE PushSuccess(c)
    <2>1. CallTypeOK'
      BY <1>6, WorkersFact, ConfigAssumption
      DEF PushSuccess, CallTypeOK, CallPc
    <2>2. NotifyTypeOK'
      BY <1>6 DEF PushSuccess, NotifyTypeOK, notifyVars
    <2>3. queue' \in [Workers -> Seq(Calls)]
      BY <1>6 DEF PushSuccess, CallTypeOK, WorkerTypeOK
    <2>4. WorkerTypeOK'
      BY <1>6, <2>3 DEF PushSuccess, WorkerTypeOK, wordVars, accVars, thVars
    <2> QED
      BY <1>6, <2>1, <2>2, <2>4 DEF PushSuccess
  <1>7. CASE PushFull(c)
    <2>1. (hope[c] \/ pass[c] = 2) \in BOOLEAN
      BY DEF CallTypeOK
    <2> QED
      BY <1>1, <1>7, <2>1, NextWorkerType DEF PushFull
  <1>8. CASE PushClosed(c)
    <2>1. hope[c] \in BOOLEAN
      BY DEF CallTypeOK
    <2> QED
      BY <1>1, <1>8, <2>1, NextWorkerType DEF PushClosed
  <1>9. CASE Enable(c)
    BY <1>1, <1>9, StartWalkType, EnableNotifiedType DEF Enable
  <1>10. CASE Wake(c)
    BY <1>1, <1>10 DEF Wake, CallTypeOK, NotifyTypeOK, CallPc
  <1>11. CASE Receive(c)
    <2>1. (IF reply[c] = "Dropped" THEN "InternalError" ELSE reply[c])
            \in Replies \cup Errors
      BY <1>11 DEF Receive, CallTypeOK, Errors
    <2> QED
      BY <1>1, <1>11, <2>1, FinishType DEF Receive
  <1>12. CASE DropFuture(c)
    BY <1>1, <1>12, FinishType DEF DropFuture, Errors
  <1> QED
    BY <1>2, <1>3, <1>4, <1>5, <1>6, <1>7, <1>8, <1>9, <1>10, <1>11, <1>12,
       <1>13
    DEF CallProgress

-----------------------------------------------------------------------------
(***************************************************************************)
(* The steps of a worker keep the types.                                   *)
(***************************************************************************)
LEMMA RepliesOnly ==
  ASSUME CallTypeOK, UNCHANGED <<pc, result, sink, left, pass, hope, start>>,
         reply' \in [Calls -> Replies \cup {"none", "Dropped"}]
  PROVE  CallTypeOK'
PROOF
  BY DEF CallTypeOK

LEMMA PopType ==
  ASSUME WorkerTypeOK, NEW w \in Workers, queue[w] # <<>>
  PROVE  /\ Head(queue[w]) \in Calls
         /\ [queue EXCEPT ![w] = Tail(@)] \in [Workers -> Seq(Calls)]
         /\ [buffer EXCEPT ![w] = @ \cup {Head(queue[w])}]
              \in [Workers -> SUBSET Calls]
PROOF
  <1>1. queue[w] \in Seq(Calls)
    BY DEF WorkerTypeOK
  <1>2. Head(queue[w]) \in Calls /\ Tail(queue[w]) \in Seq(Calls)
    BY <1>1
  <1> QED
    BY <1>2 DEF WorkerTypeOK

LEMMA AccumulatorStepType ==
  ASSUME TypeOK, NEW w \in Workers, AccumulatorProgress(w) \/ HookPanic(w)
  PROVE  TypeOK'
PROOF
  <1> USE DEF TypeOK, othersVars, notifyVars, wordVars, thVars, Goto
  <1>1. owner' \in BOOLEAN /\ UNCHANGED <<pc, result, sink, left, pass, hope, start>>
    BY DEF AccumulatorProgress, Pop, NotifyOne, IncrementLen, Exit, BatchTimeout,
           JobClosed, CheckPredictor, DrainPop, DrainDone, Ready, Reserve,
           ReserveClosed, CheckAgain, Send, ResetBatchLen, Crash, GuardSetDead,
           GuardNotify, DropReceiver, HookPanic
  <1>2. reply' \in [Calls -> Replies \cup {"none", "Dropped"}]
    <2>1. UNCHANGED reply => reply' \in [Calls -> Replies \cup {"none", "Dropped"}]
      BY DEF CallTypeOK
    <2>2. \A S : DropSenders(S) \/ Answer(S, "InternalError") =>
            reply' \in [Calls -> Replies \cup {"none", "Dropped"}]
      BY AnswerType DEF DropSenders, Replies
    <2> QED
      BY <2>1, <2>2
      DEF AccumulatorProgress, Pop, NotifyOne, IncrementLen, Exit, BatchTimeout,
          JobClosed, CheckPredictor, DrainPop, DrainDone, Ready, Reserve,
          ReserveClosed, CheckAgain, Send, ResetBatchLen, Crash, GuardSetDead,
          GuardNotify, DropReceiver, HookPanic, DropFrame
  <1>3. CallTypeOK'
    BY <1>1, <1>2, RepliesOnly
  <1>4. NotifyTypeOK'
    <2>1. UNCHANGED notifyVars => NotifyTypeOK'
      BY DEF NotifyTypeOK
    <2> QED
      BY <2>1, NotifyOneType, NotifyWaitersType
      DEF AccumulatorProgress, Pop, NotifyOne, IncrementLen, Exit, BatchTimeout,
          JobClosed, CheckPredictor, DrainPop, DrainDone, Ready, Reserve,
          ReserveClosed, CheckAgain, Send, ResetBatchLen, Crash, GuardSetDead,
          GuardNotify, DropReceiver, HookPanic
  <1>5. WorkerTypeOK'
    <2> USE DEF WorkerTypeOK, AccPc, Empty
    <2>1. CASE Pop(w)
      BY <2>1, PopType DEF Pop
    <2>2. CASE NotifyOne(w)
      BY <2>2 DEF NotifyOne
    <2>3. CASE IncrementLen(w)
      BY <2>3 DEF IncrementLen
    <2>4. CASE Exit(w)
      BY <2>4 DEF Exit, set_worker_state, WorkerStatus, DropFrame
    <2>5. CASE BatchTimeout(w) \/ JobClosed(w)
      BY <2>5 DEF BatchTimeout, JobClosed
    <2>6. CASE CheckPredictor(w)
      BY <2>6 DEF CheckPredictor
    <2>7. CASE DrainPop(w)
      BY <2>7, PopType DEF DrainPop
    <2>8. CASE DrainDone(w)
      BY <2>8 DEF DrainDone
    <2>9. CASE Ready(w)
      BY <2>9 DEF Ready, set_worker_state, WorkerStatus
    <2>10. CASE Reserve(w) \/ ReserveClosed(w)
      BY <2>10 DEF Reserve, ReserveClosed
    <2>11. CASE CheckAgain(w)
      BY <2>11 DEF CheckAgain
    <2>12. CASE Send(w)
      BY <2>12 DEF Send
    <2>13. CASE ResetBatchLen(w)
      BY <2>13 DEF ResetBatchLen, WorkerStatus
    <2>14. CASE Crash(w)
      BY <2>14 DEF Crash, set_worker_state, WorkerStatus, DropFrame
    <2>15. CASE HookPanic(w)
      BY <2>15 DEF HookPanic, DropFrame
    <2>16. CASE GuardSetDead(w)
      BY <2>16 DEF GuardSetDead, PredictorStatus
    <2>17. CASE GuardNotify(w)
      BY <2>17 DEF GuardNotify
    <2>18. CASE DropReceiver(w)
      BY <2>18 DEF DropReceiver
    <2> QED
      BY <2>1, <2>2, <2>3, <2>4, <2>5, <2>6, <2>7, <2>8, <2>9, <2>10, <2>11,
         <2>12, <2>13, <2>14, <2>15, <2>16, <2>17, <2>18
      DEF AccumulatorProgress
  <1> QED
    BY <1>1, <1>3, <1>4, <1>5

LEMMA ThreadStepType ==
  ASSUME TypeOK, NEW w \in Workers,
         ThreadProgress(w) \/ PredictPanics(w) \/ ThreadHookPanic(w)
  PROVE  TypeOK'
PROOF
  <1> USE DEF TypeOK, outsideVars, notifyVars, wordVars, accVars, Step,
              set_predictor_state
  <1>1. owner' \in BOOLEAN /\ UNCHANGED <<pc, result, sink, left, pass, hope, start>>
    BY DEF ThreadProgress, TakeBatch, JobsClosed, PredictReturns, FailBatch,
           FlushBatch, RebuildSucceeds, RebuildGivesUp, SetAlive, NotifyAlive,
           SetDead, NotifyDead, DropJobReceiver, PredictPanics, ThreadHookPanic
  <1>2. reply' \in [Calls -> Replies \cup {"none", "Dropped"}]
    <2>1. UNCHANGED reply => reply' \in [Calls -> Replies \cup {"none", "Dropped"}]
      BY DEF CallTypeOK
    <2>2. \A S : \A r \in Replies \cup {"Dropped"} : Answer(S, r) =>
            reply' \in [Calls -> Replies \cup {"none", "Dropped"}]
      BY AnswerType
    <2>3. Outcomes \subseteq Replies /\ "InternalError" \in Replies
      BY ConfigAssumption DEF Replies
    <2> QED
      BY <2>1, <2>2, <2>3
      DEF ThreadProgress, TakeBatch, JobsClosed, PredictReturns, FailBatch,
          FlushBatch, RebuildSucceeds, RebuildGivesUp, SetAlive, NotifyAlive,
          SetDead, NotifyDead, DropJobReceiver, PredictPanics, ThreadHookPanic,
          DropSenders
  <1>3. CallTypeOK'
    BY <1>1, <1>2, RepliesOnly
  <1>4. NotifyTypeOK'
    <2>1. UNCHANGED notifyVars => NotifyTypeOK'
      BY DEF NotifyTypeOK
    <2> QED
      BY <2>1, NotifyWaitersType
      DEF ThreadProgress, TakeBatch, JobsClosed, PredictReturns, FailBatch,
          FlushBatch, RebuildSucceeds, RebuildGivesUp, SetAlive, NotifyAlive,
          SetDead, NotifyDead, DropJobReceiver, PredictPanics, ThreadHookPanic
  <1>5. WorkerTypeOK'
    <2> USE DEF WorkerTypeOK, ThPc, PredictorStatus
    <2>1. CASE TakeBatch(w)
      BY <2>1 DEF TakeBatch
    <2>2. CASE JobsClosed(w) \/ PredictReturns(w)
      BY <2>2 DEF JobsClosed, PredictReturns
    <2>3. CASE PredictPanics(w) \/ FailBatch(w)
      BY <2>3 DEF PredictPanics, FailBatch
    <2>4. CASE FlushBatch(w)
      BY <2>4 DEF FlushBatch
    <2>5. CASE RebuildSucceeds(w) \/ RebuildGivesUp(w)
      BY <2>5 DEF RebuildSucceeds, RebuildGivesUp
    <2>6. CASE SetAlive(w) \/ NotifyAlive(w)
      BY <2>6 DEF SetAlive, NotifyAlive
    <2>7. CASE SetDead(w) \/ NotifyDead(w)
      BY <2>7 DEF SetDead, NotifyDead
    <2>8. CASE DropJobReceiver(w) \/ ThreadHookPanic(w)
      BY <2>8 DEF DropJobReceiver, ThreadHookPanic
    <2> QED
      BY <2>1, <2>2, <2>3, <2>4, <2>5, <2>6, <2>7, <2>8 DEF ThreadProgress
  <1> QED
    BY <1>1, <1>3, <1>4, <1>5

-----------------------------------------------------------------------------
LEMMA NextTypeOK == TypeOK /\ [Next]_vars => TypeOK'
PROOF
  <1> SUFFICES ASSUME TypeOK, [Next]_vars PROVE TypeOK'
    OBVIOUS
  <1>1. ASSUME NEW c \in Calls, Begin(c) \/ CallProgress(c) \/ DropFuture(c)
        PROVE  TypeOK'
    BY <1>1, CallStepType
  <1>2. CASE DropHandle
    BY <1>2, WorkersUnchanged
    DEF DropHandle, TypeOK, CallTypeOK, NotifyTypeOK, callVars, notifyVars
  <1>3. ASSUME NEW w \in Workers, AccumulatorProgress(w) \/ HookPanic(w)
        PROVE  TypeOK'
    BY <1>3, AccumulatorStepType
  <1>4. ASSUME NEW w \in Workers,
               ThreadProgress(w) \/ PredictPanics(w) \/ ThreadHookPanic(w)
        PROVE  TypeOK'
    BY <1>4, ThreadStepType
  <1>5. CASE UNCHANGED vars
    BY <1>5, WorkersUnchanged
    DEF vars, TypeOK, CallTypeOK, NotifyTypeOK, callVars, notifyVars, workerVars
  <1> QED
    BY <1>1, <1>2, <1>3, <1>4, <1>5
    DEF Next, CallNext, AccumulatorNext, ThreadNext, Terminated

(* Every reachable state is well typed, whatever the sizes and however the *)
(* calls, accumulators and inference threads interleave.                   *)
THEOREM TypeCorrect == Spec => []TypeOK
PROOF
  BY InitTypeOK, NextTypeOK, PTL DEF Spec

-----------------------------------------------------------------------------
(***************************************************************************)
(* A step of one worker leaves the others alone.                           *)
(***************************************************************************)
Untouched(w) ==
  /\ status'[w] = status[w] /\ batchLen'[w] = batchLen[w]
  /\ predictor'[w] = predictor[w] /\ queue'[w] = queue[w]
  /\ accPc'[w] = accPc[w] /\ buffer'[w] = buffer[w] /\ job'[w] = job[w]
  /\ thPc'[w] = thPc[w] /\ running'[w] = running[w]

LEMMA AccumulatorLocal ==
  ASSUME TypeOK, NEW v \in Workers, AccumulatorProgress(v) \/ HookPanic(v),
         NEW w \in Workers \ {v}
  PROVE  Untouched(w)
PROOF
  <1> USE DEF TypeOK, WorkerTypeOK, Untouched, othersVars, wordVars, thVars,
              Goto, Empty
  <1>1. CASE Pop(v) \/ NotifyOne(v) \/ IncrementLen(v)
    BY <1>1 DEF Pop, NotifyOne, IncrementLen
  <1>2. CASE Exit(v) \/ BatchTimeout(v) \/ JobClosed(v) \/ CheckPredictor(v)
    BY <1>2 DEF Exit, BatchTimeout, JobClosed, CheckPredictor,
                set_worker_state, DropFrame
  <1>3. CASE DrainPop(v) \/ DrainDone(v) \/ Ready(v) \/ Reserve(v)
    BY <1>3 DEF DrainPop, DrainDone, Ready, Reserve, set_worker_state
  <1>4. CASE ReserveClosed(v) \/ CheckAgain(v) \/ Send(v) \/ ResetBatchLen(v)
    BY <1>4 DEF ReserveClosed, CheckAgain, Send, ResetBatchLen
  <1>5. CASE Crash(v) \/ HookPanic(v)
    BY <1>5 DEF Crash, HookPanic, set_worker_state, DropFrame
  <1>6. CASE GuardSetDead(v) \/ GuardNotify(v) \/ DropReceiver(v)
    BY <1>6 DEF GuardSetDead, GuardNotify, DropReceiver
  <1> QED
    BY <1>1, <1>2, <1>3, <1>4, <1>5, <1>6 DEF AccumulatorProgress

LEMMA ThreadLocal ==
  ASSUME TypeOK, NEW v \in Workers,
         ThreadProgress(v) \/ PredictPanics(v) \/ ThreadHookPanic(v),
         NEW w \in Workers \ {v}
  PROVE  Untouched(w)
PROOF
  <1> USE DEF TypeOK, WorkerTypeOK, Untouched, outsideVars, wordVars, accVars,
              Step, set_predictor_state
  <1>1. CASE TakeBatch(v) \/ JobsClosed(v) \/ PredictReturns(v)
    BY <1>1 DEF TakeBatch, JobsClosed, PredictReturns
  <1>2. CASE PredictPanics(v) \/ FailBatch(v) \/ FlushBatch(v)
    BY <1>2 DEF PredictPanics, FailBatch, FlushBatch
  <1>3. CASE RebuildSucceeds(v) \/ RebuildGivesUp(v) \/ SetAlive(v) \/ NotifyAlive(v)
    BY <1>3 DEF RebuildSucceeds, RebuildGivesUp, SetAlive, NotifyAlive
  <1>4. CASE SetDead(v) \/ NotifyDead(v) \/ DropJobReceiver(v) \/ ThreadHookPanic(v)
    BY <1>4 DEF SetDead, NotifyDead, DropJobReceiver, ThreadHookPanic
  <1> QED
    BY <1>1, <1>2, <1>3, <1>4 DEF ThreadProgress

(* A step of a call touches a worker in one way only: it adds a request to *)
(* the channel of a worker that has not stopped.                           *)
LEMMA CallLocal ==
  ASSUME TypeOK, NEW c \in Calls,
         Begin(c) \/ CallProgress(c) \/ DropFuture(c), NEW w \in Workers
  PROVE  /\ queue'[w] = queue[w] \/ status[w] \notin {"Exit", "Crashed"}
         /\ status'[w] = status[w] /\ predictor'[w] = predictor[w]
         /\ accPc'[w] = accPc[w] /\ buffer'[w] = buffer[w]
         /\ job'[w] = job[w] /\ thPc'[w] = thPc[w] /\ running'[w] = running[w]
PROOF
  <1>1. CASE UNCHANGED workerVars
    BY <1>1 DEF workerVars, wordVars, accVars, thVars
  <1>2. CASE PushSuccess(c)
    BY <1>2 DEF PushSuccess, Refuses, TypeOK, WorkerTypeOK, wordVars, accVars,
                thVars
  <1> QED
    BY <1>1, <1>2
    DEF Begin, CallProgress, DropFuture, ProbePrimary, ProbeSecondary,
        ProbePredictor, IsRebuilding, PushFull, PushClosed, Enable, Wake, Receive

-----------------------------------------------------------------------------
(***************************************************************************)
(* How a worker ends.                                                      *)
(***************************************************************************)
LEMMA InitCrashInv == Init => CrashInv
PROOF
  BY DEF Init, CrashInv, ThreadEnd, WorkerEnd

LEMMA CallStepCrashInv ==
  ASSUME TypeOK, CrashInv, NEW c \in Calls,
         Begin(c) \/ CallProgress(c) \/ DropFuture(c)
  PROVE  CrashInv'
PROOF
  BY CallLocal DEF CrashInv, ThreadEnd, WorkerEnd, JobSenderAlive

LEMMA AccumulatorStepCrashInv ==
  ASSUME TypeOK, CrashInv, NEW v \in Workers,
         AccumulatorProgress(v) \/ HookPanic(v)
  PROVE  CrashInv'
PROOF
  <1>1. ASSUME NEW w \in Workers \ {v} PROVE (ThreadEnd(w) /\ WorkerEnd(w))'
    BY <1>1, AccumulatorLocal
    DEF Untouched, CrashInv, ThreadEnd, WorkerEnd, JobSenderAlive
  <1>2. ThreadEnd(v)' /\ WorkerEnd(v)'
    <2> USE DEF CrashInv, ThreadEnd, WorkerEnd, JobSenderAlive, TypeOK,
                WorkerTypeOK, othersVars, wordVars, thVars, Goto, Empty
    <2>1. CASE Pop(v) \/ NotifyOne(v) \/ IncrementLen(v)
      BY <2>1 DEF Pop, NotifyOne, IncrementLen
    <2>2. CASE Exit(v)
      BY <2>2 DEF Exit, set_worker_state, DropFrame
    <2>3. CASE BatchTimeout(v) \/ JobClosed(v) \/ CheckPredictor(v)
      BY <2>3 DEF BatchTimeout, JobClosed, CheckPredictor
    <2>4. CASE DrainPop(v) \/ DrainDone(v) \/ Ready(v) \/ Reserve(v)
      BY <2>4 DEF DrainPop, DrainDone, Ready, Reserve, set_worker_state
    <2>5. CASE ReserveClosed(v)
      BY <2>5 DEF ReserveClosed, JobReceiverAlive
    <2>6. CASE CheckAgain(v) \/ Send(v) \/ ResetBatchLen(v)
      BY <2>6 DEF CheckAgain, Send, ResetBatchLen
    <2>7. CASE Crash(v)
      <3>1. thPc[v] = "gone" /\ predictor[v] = "Dead"
        BY <2>7 DEF Crash
      <3>2. job'[v] = {} /\ buffer'[v] = {} /\ queue'[v] = <<>>
        BY <2>7, <3>1 DEF Crash, DropFrame, FreedJob, JobReceiverAlive
      <3> QED
        BY <2>7, <3>1, <3>2 DEF Crash, set_worker_state
    <2>8. CASE HookPanic(v)
      BY <2>8 DEF HookPanic, DropFrame
    <2>9. CASE GuardSetDead(v) \/ GuardNotify(v) \/ DropReceiver(v)
      BY <2>9 DEF GuardSetDead, GuardNotify, DropReceiver
    <2> QED
      BY <2>1, <2>2, <2>3, <2>4, <2>5, <2>6, <2>7, <2>8, <2>9
      DEF AccumulatorProgress
  <1> QED
    BY <1>1, <1>2 DEF CrashInv

LEMMA ThreadStepCrashInv ==
  ASSUME TypeOK, CrashInv, NEW v \in Workers,
         ThreadProgress(v) \/ PredictPanics(v) \/ ThreadHookPanic(v)
  PROVE  CrashInv'
PROOF
  <1>1. ASSUME NEW w \in Workers \ {v} PROVE (ThreadEnd(w) /\ WorkerEnd(w))'
    BY <1>1, ThreadLocal
    DEF Untouched, CrashInv, ThreadEnd, WorkerEnd, JobSenderAlive
  <1>2. ThreadEnd(v)' /\ WorkerEnd(v)'
    <2> USE DEF CrashInv, ThreadEnd, WorkerEnd, JobSenderAlive, TypeOK,
                WorkerTypeOK, outsideVars, wordVars, accVars, Step,
                set_predictor_state
    <2>1. CASE TakeBatch(v) \/ JobsClosed(v) \/ PredictReturns(v)
      BY <2>1 DEF TakeBatch, JobsClosed, PredictReturns
    <2>2. CASE PredictPanics(v) \/ FailBatch(v) \/ FlushBatch(v)
      BY <2>2 DEF PredictPanics, FailBatch, FlushBatch
    <2>3. CASE RebuildSucceeds(v) \/ RebuildGivesUp(v) \/ SetAlive(v) \/ NotifyAlive(v)
      BY <2>3 DEF RebuildSucceeds, RebuildGivesUp, SetAlive, NotifyAlive
    <2>4. CASE SetDead(v) \/ NotifyDead(v) \/ DropJobReceiver(v)
      BY <2>4 DEF SetDead, NotifyDead, DropJobReceiver
    <2>5. CASE ThreadHookPanic(v)
      BY <2>5 DEF ThreadHookPanic
    <2> QED
      BY <2>1, <2>2, <2>3, <2>4, <2>5 DEF ThreadProgress
  <1> QED
    BY <1>1, <1>2 DEF CrashInv

LEMMA NextCrashInv == TypeOK /\ CrashInv /\ [Next]_vars => CrashInv'
PROOF
  <1> SUFFICES ASSUME TypeOK, CrashInv, [Next]_vars PROVE CrashInv'
    OBVIOUS
  <1>1. CASE DropHandle \/ UNCHANGED vars
    BY <1>1 DEF DropHandle, vars, CrashInv, ThreadEnd, WorkerEnd,
                JobSenderAlive, workerVars, wordVars, accVars, thVars
  <1> QED
    BY <1>1, CallStepCrashInv, AccumulatorStepCrashInv, ThreadStepCrashInv
    DEF Next, CallNext, AccumulatorNext, ThreadNext, Terminated

(* A worker is marked Crashed only when its inference thread has gone, its *)
(* predictor is Dead and it holds no request any more: with or without     *)
(* panicking hooks, failed rebuilds and late batches.                      *)
THEOREM CrashedIsFinal == Spec => []CrashedMeansDead
PROOF
  <1>1. CrashInv => CrashedMeansDead
    BY DEF CrashInv, WorkerEnd, CrashedMeansDead
  <1> QED
    BY <1>1, TypeCorrect, InitCrashInv, NextCrashInv, PTL DEF Spec

-----------------------------------------------------------------------------
(***************************************************************************)
(* When a worker ends.                                                     *)
(***************************************************************************)

(* Nobody can get a handle back once the last one is dropped.              *)
LEMMA HandlesStayGone == ~HandleAlive /\ [Next]_vars => ~HandleAlive'
PROOF
  <1> SUFFICES ASSUME ~HandleAlive, [Next]_vars PROVE ~HandleAlive'
    OBVIOUS
  <1>1. ASSUME NEW c \in Calls, Begin(c) \/ CallProgress(c) \/ DropFuture(c)
        PROVE  FALSE
    BY <1>1
    DEF HandleAlive, InFlight, Begin, CallProgress, DropFuture, ProbePrimary,
        ProbeSecondary, ProbePredictor, IsRebuilding, PushSuccess, PushFull, PushClosed, Enable,
        Wake, Receive
  <1>2. ASSUME NEW w \in Workers, AccumulatorProgress(w) \/ HookPanic(w)
        PROVE  UNCHANGED <<owner, pc>>
    BY <1>2
    DEF othersVars, AccumulatorProgress, Pop, NotifyOne, IncrementLen, Exit,
        BatchTimeout, JobClosed, CheckPredictor, DrainPop, DrainDone, Ready,
        Reserve, ReserveClosed, CheckAgain, Send, ResetBatchLen, Crash,
        GuardSetDead, GuardNotify, DropReceiver, HookPanic
  <1>3. ASSUME NEW w \in Workers,
               ThreadProgress(w) \/ PredictPanics(w) \/ ThreadHookPanic(w)
        PROVE  UNCHANGED <<owner, pc>>
    BY <1>3
    DEF outsideVars, ThreadProgress, TakeBatch, JobsClosed, PredictReturns,
        FailBatch, FlushBatch, RebuildSucceeds, RebuildGivesUp, SetAlive,
        NotifyAlive, SetDead, NotifyDead, DropJobReceiver, PredictPanics,
        ThreadHookPanic
  <1>4. ~DropHandle
    BY DEF DropHandle, HandleAlive
  <1>5. UNCHANGED vars => UNCHANGED <<owner, pc>>
    BY DEF vars, callVars
  <1>6. UNCHANGED <<owner, pc>>
    BY <1>1, <1>2, <1>3, <1>4, <1>5
    DEF Next, CallNext, AccumulatorNext, ThreadNext, Terminated
  <1> QED
    BY <1>6 DEF HandleAlive, InFlight

LEMMA NextOrderInv ==
  ASSUME HooksPanic = FALSE
  PROVE  TypeOK /\ CrashInv /\ OrderInv /\ [Next]_vars => OrderInv'
PROOF
  <1> SUFFICES ASSUME TypeOK, CrashInv, OrderInv, [Next]_vars,
                      NEW w \in Workers
               PROVE  OrderlyEnd(w)'
    BY DEF OrderInv
  <1>1. ~HandleAlive => ~HandleAlive'
    BY HandlesStayGone
  <1>2. CASE /\ accPc'[w] = accPc[w] /\ thPc'[w] = thPc[w]
             /\ predictor'[w] = predictor[w]
    BY <1>1, <1>2 DEF OrderInv, OrderlyEnd
  <1>3. CASE AccumulatorProgress(w)
    <2> USE DEF OrderInv, OrderlyEnd, TypeOK, WorkerTypeOK, Goto
    <2>1. CASE Pop(w) \/ NotifyOne(w) \/ IncrementLen(w)
      BY <2>1 DEF Pop, NotifyOne, IncrementLen
    <2>2. CASE Exit(w)
      BY <1>1, <2>2 DEF Exit
    <2>3. CASE BatchTimeout(w) \/ JobClosed(w) \/ CheckPredictor(w)
      BY <2>3 DEF BatchTimeout, JobClosed, CheckPredictor
    <2>4. CASE DrainPop(w) \/ DrainDone(w) \/ Ready(w) \/ Reserve(w)
      BY <2>4 DEF DrainPop, DrainDone, Ready, Reserve
    <2>5. CASE ReserveClosed(w) \/ CheckAgain(w) \/ Send(w) \/ ResetBatchLen(w)
      BY <2>5 DEF ReserveClosed, CheckAgain, Send, ResetBatchLen
    <2>6. CASE Crash(w)
      <3>1. thPc[w] = "gone" /\ predictor[w] = "Dead"
        BY <2>6 DEF Crash, CrashInv, WorkerEnd, ThreadEnd, JobSenderAlive
      <3> QED
        BY <2>6, <3>1 DEF Crash, othersVars, thVars
    <2>7. ~GuardSetDead(w) /\ ~GuardNotify(w) /\ ~DropReceiver(w)
      BY DEF GuardSetDead, GuardNotify, DropReceiver
    <2> QED
      BY <1>3, <2>1, <2>2, <2>3, <2>4, <2>5, <2>6, <2>7 DEF AccumulatorProgress
  <1>4. CASE ThreadProgress(w) \/ PredictPanics(w) \/ ThreadHookPanic(w)
    <2>1. accPc'[w] = accPc[w] /\ thPc[w] # "gone"
      BY <1>4
      DEF outsideVars, accVars, ThreadProgress, TakeBatch, JobsClosed,
          PredictReturns, FailBatch, FlushBatch, RebuildSucceeds,
          RebuildGivesUp, SetAlive, NotifyAlive, SetDead, NotifyDead,
          DropJobReceiver, PredictPanics, ThreadHookPanic
    <2> QED
      BY <1>1, <2>1 DEF OrderInv, OrderlyEnd
  <1>5. ~HookPanic(w)
    BY DEF HookPanic
  <1>6. ASSUME NEW c \in Calls, Begin(c) \/ CallProgress(c) \/ DropFuture(c)
        PROVE  OrderlyEnd(w)'
    BY <1>2, <1>6, CallLocal
  <1>7. ASSUME NEW v \in Workers \ {w}, AccumulatorProgress(v) \/ HookPanic(v)
        PROVE  OrderlyEnd(w)'
    BY <1>2, <1>7, AccumulatorLocal DEF Untouched
  <1>8. ASSUME NEW v \in Workers \ {w},
               ThreadProgress(v) \/ PredictPanics(v) \/ ThreadHookPanic(v)
        PROVE  OrderlyEnd(w)'
    BY <1>2, <1>8, ThreadLocal DEF Untouched
  <1>9. CASE DropHandle \/ UNCHANGED vars
    BY <1>2, <1>9
    DEF DropHandle, vars, workerVars, accVars, thVars
  <1> QED
    BY <1>3, <1>4, <1>5, <1>6, <1>7, <1>8, <1>9
    DEF Next, CallNext, AccumulatorNext, ThreadNext, Terminated

(* As long as no hook panics, an inference thread ends only once the last  *)
(* handle is dropped or with its predictor marked Dead, so that a router   *)
(* that starts its walk afterwards does not choose its worker.             *)
THEOREM ThreadsOutliveHandles ==
  ASSUME HooksPanic = FALSE
  PROVE  Spec => []ThreadOutlivesHandles
PROOF
  <1>1. Init => OrderInv
    BY DEF Init, OrderInv, OrderlyEnd
  <1>2. CrashInv /\ OrderInv => ThreadOutlivesHandles
    BY DEF CrashInv, ThreadEnd, OrderInv, OrderlyEnd, ThreadOutlivesHandles,
           JobSenderAlive
  <1> QED
    BY <1>1, <1>2, TypeCorrect, InitCrashInv, NextCrashInv, NextOrderInv, PTL
    DEF Spec

-----------------------------------------------------------------------------
(***************************************************************************)
(* Dead is final, but behind an accumulator that has unwound.              *)
(***************************************************************************)
DeadOf(w) ==
  /\ predictor[w] = "Dead" =>
       thPc[w] \in {"notify_dead", "drop_receiver", "gone"} \/ Unwound(w)
  /\ accPc[w] \in {"set_dead", "notify_waiters", "drop_receiver"} =>
       HooksPanic /\ status[w] = "Running"

DeadStays(w) == predictor[w] = "Dead" => predictor'[w] = "Dead" \/ Unwound(w)

(* A step of the accumulator takes nobody out of Dead, and unwinding stays *)
(* unwound.                                                                *)
LEMMA AccumulatorStepDead ==
  ASSUME TypeOK, NEW w \in Workers, DeadOf(w),
         AccumulatorProgress(w) \/ HookPanic(w)
  PROVE  DeadOf(w)' /\ DeadStays(w)
PROOF
  <1> USE DEF TypeOK, WorkerTypeOK, DeadOf, DeadStays, Unwound, othersVars,
              thVars, wordVars, Goto, set_worker_state
  <1>1. CASE Pop(w) \/ NotifyOne(w) \/ IncrementLen(w) \/ BatchTimeout(w)
             \/ JobClosed(w) \/ CheckPredictor(w) \/ DrainPop(w) \/ DrainDone(w)
    BY <1>1 DEF Pop, NotifyOne, IncrementLen, BatchTimeout, JobClosed,
                CheckPredictor, DrainPop, DrainDone
  <1>2. CASE Ready(w) \/ Reserve(w) \/ ReserveClosed(w) \/ CheckAgain(w)
             \/ Send(w) \/ ResetBatchLen(w)
    BY <1>2 DEF Ready, Reserve, ReserveClosed, CheckAgain, Send, ResetBatchLen
  <1>3. CASE Exit(w) \/ Crash(w)
    BY <1>3 DEF Exit, Crash
  <1>4. CASE HookPanic(w)
    BY <1>4 DEF HookPanic
  <1>5. CASE GuardSetDead(w)
    BY <1>5 DEF GuardSetDead
  <1>6. CASE GuardNotify(w) \/ DropReceiver(w)
    BY <1>6 DEF GuardNotify, DropReceiver
  <1> QED
    BY <1>1, <1>2, <1>3, <1>4, <1>5, <1>6 DEF AccumulatorProgress

(* The thread writes Dead last, and something else over a Dead only if the *)
(* panic guard wrote it.                                                   *)
LEMMA ThreadStepDead ==
  ASSUME TypeOK, NEW w \in Workers, DeadOf(w),
         ThreadProgress(w) \/ PredictPanics(w) \/ ThreadHookPanic(w)
  PROVE  DeadOf(w)' /\ DeadStays(w)
PROOF
  <1> USE DEF TypeOK, WorkerTypeOK, DeadOf, DeadStays, Unwound, outsideVars,
              accVars, wordVars, Step, set_predictor_state
  <1>1. CASE TakeBatch(w) \/ JobsClosed(w) \/ PredictReturns(w)
    BY <1>1 DEF TakeBatch, JobsClosed, PredictReturns
  <1>2. CASE PredictPanics(w) \/ FailBatch(w) \/ FlushBatch(w)
    BY <1>2 DEF PredictPanics, FailBatch, FlushBatch
  <1>3. CASE RebuildSucceeds(w) \/ RebuildGivesUp(w)
    BY <1>3 DEF RebuildSucceeds, RebuildGivesUp
  <1>4. CASE SetAlive(w) \/ NotifyAlive(w)
    BY <1>4 DEF SetAlive, NotifyAlive
  <1>5. CASE SetDead(w) \/ NotifyDead(w) \/ DropJobReceiver(w) \/ ThreadHookPanic(w)
    BY <1>5 DEF SetDead, NotifyDead, DropJobReceiver, ThreadHookPanic
  <1> QED
    BY <1>1, <1>2, <1>3, <1>4, <1>5 DEF ThreadProgress

LEMMA NextDeadInv ==
  TypeOK /\ DeadInv /\ [Next]_vars =>
    DeadInv' /\ \A w \in Workers : DeadStays(w)
PROOF
  <1> SUFFICES ASSUME TypeOK, \A w \in Workers : DeadOf(w), [Next]_vars,
                      NEW w \in Workers
               PROVE  DeadOf(w)' /\ DeadStays(w)
    BY DEF DeadInv, DeadOf
  <1>1. CASE /\ predictor'[w] = predictor[w] /\ thPc'[w] = thPc[w]
             /\ accPc'[w] = accPc[w] /\ status'[w] = status[w]
    BY <1>1 DEF DeadOf, DeadStays, Unwound
  <1>2. ASSUME NEW c \in Calls, Begin(c) \/ CallProgress(c) \/ DropFuture(c)
        PROVE  DeadOf(w)' /\ DeadStays(w)
    BY <1>1, <1>2, CallLocal
  <1>3. ASSUME NEW v \in Workers, AccumulatorProgress(v) \/ HookPanic(v)
        PROVE  DeadOf(w)' /\ DeadStays(w)
    BY <1>1, <1>3, AccumulatorStepDead, AccumulatorLocal DEF Untouched
  <1>4. ASSUME NEW v \in Workers,
               ThreadProgress(v) \/ PredictPanics(v) \/ ThreadHookPanic(v)
        PROVE  DeadOf(w)' /\ DeadStays(w)
    BY <1>1, <1>4, ThreadStepDead, ThreadLocal DEF Untouched
  <1>5. CASE DropHandle \/ UNCHANGED vars
    BY <1>1, <1>5 DEF DropHandle, vars, workerVars, wordVars, accVars, thVars
  <1> QED
    BY <1>2, <1>3, <1>4, <1>5
    DEF Next, CallNext, AccumulatorNext, ThreadNext, Terminated

(* Whatever panics: a predictor that is Dead never comes back, unless the  *)
(* accumulator of its worker has unwound from a hook's panic.  This bounds *)
(* how far the code falls short of the claim of tests/integration.rs.      *)
THEOREM DeadStaysDead == Spec => DeadIsFinal
PROOF
  <1>1. Init => DeadInv
    BY DEF Init, DeadInv
  <1>2. TypeOK /\ DeadInv /\ [Next]_vars =>
          [\A w \in Workers : predictor[w] = "Dead" =>
             predictor'[w] = "Dead" \/ Unwound(w)]_vars
    BY NextDeadInv DEF DeadStays
  <1> QED
    BY <1>1, <1>2, TypeCorrect, NextDeadInv, PTL DEF Spec, DeadIsFinal

-----------------------------------------------------------------------------
(***************************************************************************)
(* How large a batch gets.                                                 *)
(***************************************************************************)
LEMMA FiniteBuffers ==
  ASSUME TypeOK, NEW w \in Workers
  PROVE  /\ IsFiniteSet(buffer[w]) /\ Cardinality(buffer[w]) \in Nat
         /\ IsFiniteSet(job[w]) /\ Cardinality(job[w]) \in Nat
         /\ IsFiniteSet(running[w]) /\ Cardinality(running[w]) \in Nat
PROOF
  <1>1. /\ buffer[w] \in SUBSET Calls /\ job[w] \in SUBSET Calls
        /\ running[w] \in SUBSET Calls
    BY DEF TypeOK, WorkerTypeOK
  <1> QED
    BY <1>1, ConfigAssumption, FS_Subset, FS_CardinalityType

LEMMA EmptyFits == Cardinality({}) <= BatchSize /\ Cardinality({}) < BatchSize
PROOF
  BY ConfigAssumption, FS_EmptySet

WorkerBound(w) ==
  /\ Cardinality(job[w]) <= BatchSize
  /\ Cardinality(running[w]) <= BatchSize
  /\ BufferBound(w)

LEMMA BoundInvByWorker == BoundInv <=> \A w \in Workers : WorkerBound(w)
PROOF
  BY DEF BoundInv, BatchBound, WorkerBound

LEMMA InitBoundInv == Init => BoundInv
PROOF
  BY EmptyFits, BoundInvByWorker DEF Init, WorkerBound, BufferBound

(* Freeing the job channel with the task's frame empties it, or leaves it. *)
LEMMA FrameJob ==
  ASSUME NEW w, TypeOK, w \in Workers, NEW S, DropFrame(w, S)
  PROVE  job'[w] \in {{}, job[w]} /\ buffer'[w] = {}
PROOF
  <1>1. job[w] \ {} = job[w] /\ job[w] \ job[w] = {}
    OBVIOUS
  <1> QED
    BY <1>1 DEF DropFrame, FreedJob, Empty, TypeOK, WorkerTypeOK

LEMMA AccumulatorStepBound ==
  ASSUME TypeOK, NEW w \in Workers, WorkerBound(w),
         AccumulatorProgress(w) \/ HookPanic(w)
  PROVE  WorkerBound(w)'
PROOF
  <1> USE DEF TypeOK, WorkerTypeOK, WorkerBound, BufferBound, othersVars,
              thVars, Goto, Empty
  <1>1. Cardinality(running'[w]) <= BatchSize
    BY DEF AccumulatorProgress, Pop, NotifyOne, IncrementLen, Exit,
           BatchTimeout, JobClosed, CheckPredictor, DrainPop, DrainDone, Ready,
           Reserve, ReserveClosed, CheckAgain, Send, ResetBatchLen, Crash,
           GuardSetDead, GuardNotify, DropReceiver, HookPanic
  <1>2. CASE Pop(w)
    <2>1. Cardinality(buffer[w]) < BatchSize
      BY <1>2, EmptyFits DEF Pop
    <2>2. buffer'[w] = buffer[w] \cup {Head(queue[w])}
      BY <1>2 DEF Pop
    <2>3. Cardinality(buffer[w] \cup {Head(queue[w])})
            \in {Cardinality(buffer[w]), Cardinality(buffer[w]) + 1}
      BY FiniteBuffers, FS_AddElement, Zenon
    <2>4. Cardinality(buffer'[w]) <= BatchSize
      BY <2>1, <2>2, <2>3, FiniteBuffers, ConfigAssumption
    <2> QED
      BY <1>1, <1>2, <2>4 DEF Pop
  <1>3. CASE NotifyOne(w)
    BY <1>1, <1>3 DEF NotifyOne
  <1>4. CASE IncrementLen(w)
    <2>1. Cardinality(buffer[w]) <= BatchSize
      BY <1>4 DEF IncrementLen
    <2>2. Cardinality(buffer[w]) # BatchSize => Cardinality(buffer[w]) < BatchSize
      BY <2>1, FiniteBuffers, ConfigAssumption
    <2> QED
      BY <1>1, <1>4, <2>1, <2>2 DEF IncrementLen
  <1>5. CASE Exit(w) \/ HookPanic(w)
    <2>1. job'[w] \in {{}, job[w]} /\ buffer'[w] = {}
      BY <1>5, FrameJob DEF Exit, HookPanic
    <2> QED
      BY <1>1, <1>5, <2>1, EmptyFits DEF Exit, HookPanic
  <1>6. CASE BatchTimeout(w) \/ JobClosed(w)
    <2>1. Cardinality(buffer[w]) < BatchSize
      BY <1>6 DEF BatchTimeout, JobClosed
    <2>2. Cardinality(buffer[w]) <= BatchSize
      BY <2>1, FiniteBuffers, ConfigAssumption
    <2> QED
      BY <1>1, <1>6, <2>2 DEF BatchTimeout, JobClosed
  <1>7. CASE CheckPredictor(w) \/ CheckAgain(w)
    BY <1>1, <1>7 DEF CheckPredictor, CheckAgain
  <1>8. CASE DrainPop(w)
    BY <1>1, <1>8 DEF DrainPop
  <1>9. CASE DrainDone(w)
    BY <1>1, <1>9 DEF DrainDone
  <1>10. CASE Ready(w) \/ Reserve(w)
    BY <1>1, <1>10 DEF Ready, Reserve
  <1>11. CASE ReserveClosed(w)
    BY <1>1, <1>11 DEF ReserveClosed
  <1>12. CASE Send(w)
    BY <1>1, <1>12 DEF Send
  <1>13. CASE ResetBatchLen(w)
    BY <1>1, <1>13 DEF ResetBatchLen
  <1>14. CASE Crash(w)
    <2>1. job'[w] \in {{}, job[w]} /\ buffer'[w] = {}
      BY <1>14, FrameJob DEF Crash
    <2> QED
      BY <1>1, <1>14, <2>1, EmptyFits DEF Crash
  <1>15. CASE GuardSetDead(w) \/ GuardNotify(w) \/ DropReceiver(w)
    BY <1>1, <1>15 DEF GuardSetDead, GuardNotify, DropReceiver
  <1> QED
    BY <1>2, <1>3, <1>4, <1>5, <1>6, <1>7, <1>8, <1>9, <1>10, <1>11, <1>12,
       <1>13, <1>14, <1>15
    DEF AccumulatorProgress

LEMMA ThreadStepBound ==
  ASSUME TypeOK, NEW w \in Workers, WorkerBound(w),
         ThreadProgress(w) \/ PredictPanics(w) \/ ThreadHookPanic(w)
  PROVE  WorkerBound(w)'
PROOF
  <1>1. BufferBound(w)'
    BY DEF WorkerBound, BufferBound, outsideVars, accVars, ThreadProgress,
           TakeBatch, JobsClosed, PredictReturns, FailBatch, FlushBatch,
           RebuildSucceeds, RebuildGivesUp, SetAlive, NotifyAlive, SetDead,
           NotifyDead, DropJobReceiver, PredictPanics, ThreadHookPanic
  <1>2. job'[w] \in {{}, job[w]}
    BY DEF TypeOK, WorkerTypeOK, ThreadProgress,
           TakeBatch, JobsClosed, PredictReturns, FailBatch, FlushBatch,
           RebuildSucceeds, RebuildGivesUp, SetAlive, NotifyAlive, SetDead,
           NotifyDead, DropJobReceiver, PredictPanics, ThreadHookPanic
  <1>3. running'[w] \in {{}, running[w], {c \in job[w] : pc[c] = "await"}}
    BY DEF TypeOK, WorkerTypeOK, ThreadProgress,
           TakeBatch, JobsClosed, PredictReturns, FailBatch, FlushBatch,
           RebuildSucceeds, RebuildGivesUp, SetAlive, NotifyAlive, SetDead,
           NotifyDead, DropJobReceiver, PredictPanics, ThreadHookPanic
  <1>4. /\ Cardinality({c \in job[w] : pc[c] = "await"}) \in Nat
        /\ Cardinality({c \in job[w] : pc[c] = "await"}) <= Cardinality(job[w])
    BY FiniteBuffers, FS_Subset, FS_CardinalityType
  <1>5. Cardinality({c \in job[w] : pc[c] = "await"}) <= BatchSize
    BY <1>4, FiniteBuffers, ConfigAssumption DEF WorkerBound
  <1> QED
    BY <1>1, <1>2, <1>3, <1>5, EmptyFits DEF WorkerBound

LEMMA NextBoundInv == TypeOK /\ BoundInv /\ [Next]_vars => BoundInv'
PROOF
  <1> SUFFICES ASSUME TypeOK, \A w \in Workers : WorkerBound(w), [Next]_vars,
                      NEW w \in Workers
               PROVE  WorkerBound(w)'
    BY BoundInvByWorker DEF BoundInv, BatchBound, WorkerBound
  <1>1. CASE /\ accPc'[w] = accPc[w] /\ buffer'[w] = buffer[w]
             /\ job'[w] = job[w] /\ running'[w] = running[w]
    BY <1>1 DEF WorkerBound, BufferBound
  <1>2. ASSUME NEW c \in Calls, Begin(c) \/ CallProgress(c) \/ DropFuture(c)
        PROVE  WorkerBound(w)'
    BY <1>1, <1>2, CallLocal
  <1>3. ASSUME NEW v \in Workers, AccumulatorProgress(v) \/ HookPanic(v)
        PROVE  WorkerBound(w)'
    BY <1>1, <1>3, AccumulatorStepBound, AccumulatorLocal DEF Untouched
  <1>4. ASSUME NEW v \in Workers,
               ThreadProgress(v) \/ PredictPanics(v) \/ ThreadHookPanic(v)
        PROVE  WorkerBound(w)'
    BY <1>1, <1>4, ThreadStepBound, ThreadLocal DEF Untouched
  <1>5. CASE DropHandle \/ UNCHANGED vars
    BY <1>1, <1>5 DEF DropHandle, vars, workerVars, accVars, thVars
  <1> QED
    BY <1>2, <1>3, <1>4, <1>5
    DEF Next, CallNext, AccumulatorNext, ThreadNext, Terminated

(* predict_batch never gets more than batch_size inputs, nor does the job  *)
(* channel ever hold a larger batch, although a drain puts the whole       *)
(* request channel into the accumulator's buffer.                          *)
THEOREM BatchesFit == Spec => []BatchBound
PROOF
  <1>1. BoundInv => BatchBound
    BY DEF BoundInv
  <1> QED
    BY <1>1, TypeCorrect, InitBoundInv, NextBoundInv, PTL DEF Spec
=============================================================================
