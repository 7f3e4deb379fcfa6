---------------------------- MODULE ServiceProofs ----------------------------
(***************************************************************************)
(* What callers and predictors may rely on: a pool no user code has        *)
(* panicked in serves everybody, and every pool implements BatchService,   *)
(* whatever its sizes and calls.                                           *)
(***************************************************************************)
EXTENDS ConservationProofs

-----------------------------------------------------------------------------
(***************************************************************************)
(* A healthy pool.  Predictors stay Alive, a thread ends after its         *)
(* accumulator, and an accumulator after the last handle; so whoever still *)
(* holds a handle finds every worker open.                                 *)
(***************************************************************************)
HealthyWorker(w) ==
  /\ predictor[w] = "Alive"
  /\ thPc[w] \in {"recv", "predict", "gone"}
  /\ accPc[w] \in {"recv", "popped", "notified", "collect", "check", "ready",
                   "reserve", "permit", "send", "sent", "gone"}
  /\ thPc[w] = "gone" => accPc[w] = "gone"
  /\ accPc[w] = "gone" => ~HandleAlive
  /\ status[w] \in {"Exit", "Crashed"} => accPc[w] = "gone"

HealthyCall(c) ==
  /\ pc[c] # "is_rebuilding"
  /\ reply[c] \in Returned \cup {"none"}
  /\ result[c] \notin {"InternalError", "NoAvailableWorkersError"}

HealthInv ==
  /\ \A w \in Workers : HealthyWorker(w)
  /\ \A c \in Calls : HealthyCall(c)

Healthy == PredictorPanics = FALSE /\ HooksPanic = FALSE

LEMMA InitHealthInv == Init => HealthInv
PROOF
  BY DEF Init, HealthInv, HealthyWorker, HealthyCall

(* A call in flight finds its worker open.                                 *)
LEMMA OpenForCalls ==
  ASSUME TypeOK, HealthInv, NEW c \in Calls, InFlight(c), NEW w \in Workers
  PROVE  ~Refuses(w) /\ WordAcceptsSecondary(w) /\ predictor[w] = "Alive"
PROOF
  <1>1. HandleAlive
    BY DEF HandleAlive
  <1> QED
    BY <1>1 DEF HealthInv, HealthyWorker, Refuses, ReceiverAlive,
                WordAcceptsSecondary

(* Its walk does not end with the error of a dead pool.                    *)
LEMMA NextWorkerHealthy ==
  ASSUME TypeOK, HealthInv, NEW c \in Calls, NEW h, NextWorker(c, h),
         h \/ pass[c] = 1
  PROVE  HealthyCall(c)' /\ \A d \in Calls \ {c} : HealthyCall(d)'
PROOF
  <1> USE DEF TypeOK, CallTypeOK, HealthInv, HealthyCall
  <1>1. CASE Advance(c, h)
    BY <1>1 DEF Advance
  <1>2. CASE QueueFull(c) /\ c \in TryCalls
    BY <1>2 DEF QueueFull, Finish
  <1>3. CASE QueueFull(c) /\ c \notin TryCalls
    BY <1>3 DEF QueueFull
  <1> QED
    BY <1>1, <1>2, <1>3 DEF NextWorker

LEMMA CallStepHealthy ==
  ASSUME TypeOK, HealthInv, NEW c \in Calls,
         Begin(c) \/ CallProgress(c) \/ DropFuture(c)
  PROVE  \A d \in Calls : HealthyCall(d)'
PROOF
  <1> USE DEF TypeOK, CallTypeOK
  <1>1. sink[c] \in Workers
    OBVIOUS
  <1>2. CASE Begin(c) \/ Enable(c) \/ Wake(c)
    BY <1>2 DEF Begin, Enable, Wake, StartWalk, HealthInv, HealthyCall
  <1>3. CASE ProbePrimary(c)
    <2>1. CASE NextWorker(c, hope[c])
      BY <1>3, <2>1, NextWorkerHealthy DEF ProbePrimary
    <2>2. CASE ~NextWorker(c, hope[c])
      BY <1>3, <2>2 DEF ProbePrimary, HealthInv, HealthyCall
    <2> QED
      BY <2>1, <2>2
  <1>4. CASE ProbeSecondary(c)
    <2>1. WordAcceptsSecondary(sink[c])
      BY <1>1, <1>4, OpenForCalls DEF ProbeSecondary, InFlight
    <2> QED
      BY <1>4, <2>1 DEF ProbeSecondary, HealthInv, HealthyCall
  <1>5. CASE ProbePredictor(c)
    <2>1. predictor[sink[c]] = "Alive"
      BY <1>1, <1>5, OpenForCalls DEF ProbePredictor, InFlight
    <2> QED
      BY <1>5, <2>1 DEF ProbePredictor, HealthInv, HealthyCall
  <1>6. CASE IsRebuilding(c)
    BY <1>6 DEF IsRebuilding, HealthInv, HealthyCall
  <1>7. CASE PushSuccess(c)
    BY <1>7 DEF PushSuccess, HealthInv, HealthyCall
  <1>8. CASE PushFull(c)
    <2>1. (hope[c] \/ pass[c] = 2) \/ pass[c] = 1
      OBVIOUS
    <2> QED
      BY <1>8, <2>1, NextWorkerHealthy DEF PushFull
  <1>9. CASE PushClosed(c)
    BY <1>1, <1>9, OpenForCalls DEF PushClosed, InFlight
  <1>10. CASE Receive(c)
    BY <1>10 DEF Receive, Finish, HealthInv, HealthyCall, Returned
  <1>11. CASE DropFuture(c)
    BY <1>11 DEF DropFuture, Finish, HealthInv, HealthyCall
  <1> QED
    BY <1>2, <1>3, <1>4, <1>5, <1>6, <1>7, <1>8, <1>9, <1>10, <1>11
    DEF CallProgress

(* Drains, flushes, rebuilds and crashes never run in a healthy pool.      *)
LEMMA AccumulatorHealthy ==
  ASSUME Healthy, TypeOK, HealthInv, NEW v \in Workers,
         AccumulatorProgress(v) \/ HookPanic(v), ~HandleAlive => ~HandleAlive'
  PROVE  HealthyWorker(v)' /\ (\A c \in Calls : HealthyCall(c)')
PROOF
  <1> USE DEF TypeOK, WorkerTypeOK, othersVars, wordVars, thVars, Goto,
              HealthInv, HealthyWorker, HealthyCall
  <1>1. CASE Pop(v) \/ NotifyOne(v) \/ IncrementLen(v)
    BY <1>1 DEF Pop, NotifyOne, IncrementLen
  <1>2. CASE Exit(v)
    <2>1. \A c \in Calls : pc[c] # "await"
      BY <1>2 DEF Exit, HandleAlive, InFlight
    <2>2. \A c \in Calls : reply'[c] = reply[c]
      BY <1>2, <2>1 DEF Exit, DropFrame, DropSenders, Answer
    <2> QED
      BY <1>2, <2>2 DEF Exit, set_worker_state
  <1>3. CASE BatchTimeout(v) \/ CheckPredictor(v) \/ Reserve(v) \/ CheckAgain(v)
    BY <1>3 DEF BatchTimeout, CheckPredictor, Reserve, CheckAgain
  <1>4. ~JobClosed(v) /\ ~DrainPop(v) /\ ~DrainDone(v)
    BY DEF JobClosed, JobReceiverAlive, DrainPop, DrainDone
  <1>5. ~ReserveClosed(v) /\ ~Crash(v) /\ ~HookPanic(v) /\ ~GuardSetDead(v)
        /\ ~GuardNotify(v) /\ ~DropReceiver(v)
    BY DEF ReserveClosed, JobReceiverAlive, Crash, HookPanic, Healthy,
           GuardSetDead, GuardNotify, DropReceiver
  <1>6. CASE Ready(v) \/ Send(v) \/ ResetBatchLen(v)
    BY <1>6 DEF Ready, Send, ResetBatchLen, set_worker_state
  <1> QED
    BY <1>1, <1>2, <1>3, <1>4, <1>5, <1>6 DEF AccumulatorProgress

LEMMA ThreadHealthy ==
  ASSUME Healthy, TypeOK, HealthInv, NEW v \in Workers,
         ThreadProgress(v) \/ PredictPanics(v) \/ ThreadHookPanic(v),
         ~HandleAlive => ~HandleAlive'
  PROVE  HealthyWorker(v)' /\ (\A c \in Calls : HealthyCall(c)')
PROOF
  <1> USE DEF TypeOK, WorkerTypeOK, outsideVars, wordVars, accVars, Step,
              HealthInv, HealthyWorker, HealthyCall
  <1>1. CASE TakeBatch(v)
    BY <1>1 DEF TakeBatch
  <1>2. CASE JobsClosed(v)
    BY <1>2 DEF JobsClosed, JobSenderAlive
  <1>3. CASE PredictReturns(v)
    <2>1. \A c \in Calls : reply'[c] \in Returned \cup {"none"}
      BY <1>3, ConfigAssumption DEF PredictReturns, Answer
    <2> QED
      BY <1>3, <2>1 DEF PredictReturns
  <1>4. ~FailBatch(v) /\ ~FlushBatch(v) /\ ~RebuildSucceeds(v)
        /\ ~RebuildGivesUp(v) /\ ~SetAlive(v) /\ ~NotifyAlive(v)
    BY DEF FailBatch, FlushBatch, RebuildSucceeds, RebuildGivesUp, SetAlive,
           NotifyAlive
  <1>5. ~SetDead(v) /\ ~NotifyDead(v) /\ ~DropJobReceiver(v)
        /\ ~PredictPanics(v) /\ ~ThreadHookPanic(v)
    BY DEF SetDead, NotifyDead, DropJobReceiver, PredictPanics,
           ThreadHookPanic, Healthy
  <1> QED
    BY <1>1, <1>2, <1>3, <1>4, <1>5 DEF ThreadProgress

LEMMA NextHealthInv ==
  Healthy /\ TypeOK /\ HealthInv /\ [Next]_vars => HealthInv'
PROOF
  <1> SUFFICES ASSUME Healthy, TypeOK, HealthInv, [Next]_vars PROVE HealthInv'
    OBVIOUS
  <1>1. ~HandleAlive => ~HandleAlive'
    BY HandlesStayGone
  <1>2. ASSUME NEW w \in Workers,
               /\ status'[w] = status[w] /\ predictor'[w] = predictor[w]
               /\ accPc'[w] = accPc[w] /\ thPc'[w] = thPc[w]
        PROVE  HealthyWorker(w)'
    BY <1>1, <1>2 DEF HealthInv, HealthyWorker
  <1>3. ASSUME NEW c \in Calls, Begin(c) \/ CallProgress(c) \/ DropFuture(c)
        PROVE  HealthInv'
    BY <1>2, <1>3, CallStepHealthy, CallLocal DEF HealthInv
  <1>4. ASSUME NEW v \in Workers, AccumulatorProgress(v) \/ HookPanic(v)
        PROVE  HealthInv'
    <2>1. \A w \in Workers \ {v} : HealthyWorker(w)'
      BY <1>2, <1>4, AccumulatorLocal DEF Untouched
    <2> QED
      BY <1>1, <1>4, <2>1, AccumulatorHealthy DEF HealthInv
  <1>5. ASSUME NEW v \in Workers,
               ThreadProgress(v) \/ PredictPanics(v) \/ ThreadHookPanic(v)
        PROVE  HealthInv'
    <2>1. \A w \in Workers \ {v} : HealthyWorker(w)'
      BY <1>2, <1>5, ThreadLocal DEF Untouched
    <2> QED
      BY <1>1, <1>5, <2>1, ThreadHealthy DEF HealthInv
  <1>6. CASE DropHandle \/ UNCHANGED vars
    <2>1. UNCHANGED <<pc, reply, result, status, predictor, accPc, thPc>>
      BY <1>6 DEF DropHandle, vars, callVars, workerVars, wordVars, accVars, thVars
    <2> QED
      BY <1>2, <2>1 DEF HealthInv, HealthyCall
  <1> QED
    BY <1>3, <1>4, <1>5, <1>6
    DEF Next, CallNext, AccumulatorNext, ThreadNext, Terminated

(* As long as no user code panics, no caller gets an error that blames the *)
(* pool, not even one that asks while the last handle is being dropped.    *)
THEOREM HealthyServes ==
  ASSUME Healthy
  PROVE  Spec => []HealthyPoolServes
PROOF
  <1>1. HealthInv => HealthyPoolServes
    BY DEF HealthInv, HealthyCall, HealthyPoolServes
  <1>2. TypeOK /\ HealthInv /\ [Next]_vars => HealthInv'
    BY NextHealthInv
  <1> QED
    BY <1>1, <1>2, InitHealthInv, TypeCorrect, PTL DEF Spec

-----------------------------------------------------------------------------
(***************************************************************************)
(* Batchinf implements BatchService.                                       *)
(***************************************************************************)
HealthyInv == Healthy => HealthInv

SafeInv == TypeOK /\ ConservationInv /\ BoundInv /\ HealthyInv

AStep == [Service!Next]_(Service!serviceVars)

LEMMA Phases ==
  /\ PhaseOf("idle") = "new" /\ PhaseOf("await") = "queued"
  /\ PhaseOf("done") = "done"
  /\ \A p \in CallPc \ {"idle", "await", "done"} : PhaseOf(p) = "looking"
  /\ \A p \in CallPc : PhaseOf(p) = "queued" => p = "await"
PROOF
  BY DEF PhaseOf, CallPc

(* One call moves.                                                         *)
LEMMA PhaseMoves ==
  ASSUME TypeOK, NEW c \in Calls, NEW l, pc' = [pc EXCEPT ![c] = l]
  PROVE  /\ PhaseSeen' = [PhaseSeen EXCEPT ![c] = PhaseOf(l)]
         /\ PhaseOf(l) = PhaseOf(pc[c]) => PhaseSeen' = PhaseSeen
PROOF
  BY DEF PhaseSeen, TypeOK, CallTypeOK

LEMMA PhaseMovesTo ==
  ASSUME TypeOK, NEW c \in Calls
  PROVE  /\ pc' = [pc EXCEPT ![c] = "probe"] =>
              PhaseSeen' = [PhaseSeen EXCEPT ![c] = "looking"]
         /\ pc' = [pc EXCEPT ![c] = "await"] =>
              PhaseSeen' = [PhaseSeen EXCEPT ![c] = "queued"]
         /\ pc' = [pc EXCEPT ![c] = "done"] =>
              PhaseSeen' = [PhaseSeen EXCEPT ![c] = "done"]
PROOF
  <1>1. PhaseOf("probe") = "looking" /\ PhaseOf("await") = "queued"
        /\ PhaseOf("done") = "done"
    BY DEF PhaseOf
  <1> QED
    BY <1>1 DEF PhaseSeen, TypeOK, CallTypeOK

LEMMA SeenUnchanged ==
  /\ UNCHANGED pc => UNCHANGED PhaseSeen
  /\ UNCHANGED reply => UNCHANGED AnswerSeen
PROOF
  BY DEF PhaseSeen, AnswerSeen

(* A call looks on.                                                        *)
LEMMA LooksOn ==
  ASSUME TypeOK, NEW c \in Calls, NEW l \in CallPc \ {"idle", "await", "done"},
         pc[c] \notin {"idle", "await", "done"}, pc' = [pc EXCEPT ![c] = l],
         UNCHANGED <<reply, result, running>>
  PROVE  UNCHANGED Service!serviceVars
PROOF
  <1>1. pc[c] \in CallPc
    BY DEF TypeOK, CallTypeOK
  <1>2. PhaseOf(l) = PhaseOf(pc[c])
    BY <1>1, Phases
  <1> QED
    BY <1>2, PhaseMoves, SeenUnchanged DEF Service!serviceVars

(* A call that has not queued its request ends.                            *)
LEMMA RefusedIs ==
  ASSUME TypeOK, NEW c \in Calls, pc[c] \notin {"idle", "await", "done"},
         NEW r, Finish(c, r), UNCHANGED running,
         \/ r = "QueueFullError" /\ c \in TryCalls
         \/ r = "NoAvailableWorkersError" /\ (PredictorPanics \/ HooksPanic)
  PROVE  Service!Refuse(c)
PROOF
  <1>1. PhaseSeen[c] = "looking"
    BY Phases DEF PhaseSeen, TypeOK, CallTypeOK
  <1>2. PhaseSeen' = [PhaseSeen EXCEPT ![c] = "done"]
    BY PhaseMovesTo DEF Finish
  <1>3. result' = [result EXCEPT ![c] = r] /\ UNCHANGED <<AnswerSeen, running>>
    BY SeenUnchanged DEF Finish
  <1> QED
    BY <1>1, <1>2, <1>3 DEF Service!Refuse, Service!Return

LEMMA NextWorkerMaps ==
  ASSUME TypeOK, NEW c \in Calls, NEW h, NextWorker(c, h), UNCHANGED running,
         pc[c] \notin {"idle", "await", "done"},
         Healthy => h \/ pass[c] = 1
  PROVE  UNCHANGED Service!serviceVars \/ Service!Refuse(c)
PROOF
  <1>1. CASE Advance(c, h)
    BY <1>1, LooksOn DEF Advance, CallPc
  <1>2. CASE QueueFull(c) /\ c \in TryCalls
    BY <1>2, RefusedIs DEF QueueFull
  <1>3. CASE QueueFull(c) /\ c \notin TryCalls
    BY <1>3, LooksOn DEF QueueFull, CallPc
  <1>4. CASE left[c] = 1 /\ pass[c] = 2 /\ ~h /\ Finish(c, "NoAvailableWorkersError")
    <2>1. PredictorPanics \/ HooksPanic
      BY <1>4, ConfigAssumption DEF Healthy
    <2> QED
      BY <1>4, <2>1, RefusedIs
  <1> QED
    BY <1>1, <1>2, <1>3, <1>4 DEF NextWorker

LEMMA CallMaps ==
  ASSUME SafeInv, NEW c \in Calls,
         Begin(c) \/ CallProgress(c) \/ DropFuture(c)
  PROVE  AStep
PROOF
  <1> USE DEF SafeInv, HealthyInv
  <1>1. /\ Service!Ask(c) \/ Service!Queue(c) \/ Service!Refuse(c)
             \/ Service!Receive(c) \/ Service!Abandon(c) => AStep
        /\ UNCHANGED Service!serviceVars => AStep
    BY DEF AStep, Service!Next
  <1>2. sink[c] \in Workers /\ pc[c] \in CallPc /\ pass[c] \in {1, 2}
        /\ PhaseSeen[c] = PhaseOf(pc[c]) /\ AnswerSeen[c] = AnswerOf(reply[c])
    BY DEF TypeOK, CallTypeOK, PhaseSeen, AnswerSeen
  <1>3. CASE Begin(c)
    <2>1. PhaseSeen' = [PhaseSeen EXCEPT ![c] = "looking"]
      BY <1>3, PhaseMovesTo DEF Begin, StartWalk
    <2>2. UNCHANGED <<AnswerSeen, result, running>> /\ PhaseSeen[c] = "new"
      BY <1>2, <1>3, SeenUnchanged, Phases DEF Begin, StartWalk, workerVars, thVars
    <2> QED
      BY <1>1, <2>1, <2>2 DEF Service!Ask
  <1>4. CASE Enable(c)
    BY <1>1, <1>4, LooksOn DEF Enable, StartWalk, CallPc, workerVars, thVars
  <1>5. CASE Wake(c)
    BY <1>1, <1>5, LooksOn DEF Wake, CallPc, workerVars, thVars
  <1>6. CASE ProbePrimary(c)
    <2>1. CASE NextWorker(c, hope[c])
      BY <1>1, <1>6, <2>1, NextWorkerMaps DEF ProbePrimary, workerVars, thVars
    <2>2. CASE ~NextWorker(c, hope[c])
      BY <1>1, <1>6, <2>2, LooksOn DEF ProbePrimary, CallPc, workerVars, thVars
    <2> QED
      BY <2>1, <2>2
  <1>7. CASE ProbeSecondary(c)
    BY <1>1, <1>7, LooksOn DEF ProbeSecondary, CallPc, workerVars, thVars
  <1>8. CASE ProbePredictor(c)
    <2>1. CASE predictor[sink[c]] # "Alive" /\ pass[c] = 1 /\ NextWorker(c, hope[c])
      BY <1>1, <1>8, <2>1, NextWorkerMaps DEF ProbePredictor, workerVars, thVars
    <2>2. CASE ~(predictor[sink[c]] # "Alive" /\ pass[c] = 1 /\ NextWorker(c, hope[c]))
      BY <1>1, <1>8, <2>2, LooksOn DEF ProbePredictor, CallPc, workerVars, thVars
    <2> QED
      BY <2>1, <2>2
  <1>9. CASE IsRebuilding(c)
    <2>1. ~Healthy
      BY <1>9 DEF IsRebuilding, HealthInv, HealthyCall
    <2> QED
      BY <1>1, <1>9, <2>1, NextWorkerMaps DEF IsRebuilding, workerVars, thVars
  <1>10. CASE PushSuccess(c)
    <2>1. PhaseSeen' = [PhaseSeen EXCEPT ![c] = "queued"]
      BY <1>10, PhaseMovesTo DEF PushSuccess
    <2>2. UNCHANGED <<AnswerSeen, result, running>> /\ PhaseSeen[c] = "looking"
      BY <1>2, <1>10, SeenUnchanged, Phases DEF PushSuccess, thVars
    <2> QED
      BY <1>1, <2>1, <2>2 DEF Service!Queue
  <1>11. CASE PushFull(c)
    BY <1>1, <1>2, <1>11, NextWorkerMaps DEF PushFull, workerVars, thVars
  <1>12. CASE PushClosed(c)
    <2>1. ~Healthy
      BY <1>2, <1>12, OpenForCalls DEF PushClosed, InFlight
    <2> QED
      BY <1>1, <1>12, <2>1, NextWorkerMaps DEF PushClosed, workerVars, thVars
  <1>13. CASE Receive(c)
    <2>1. PhaseSeen' = [PhaseSeen EXCEPT ![c] = "done"]
      BY <1>13, PhaseMovesTo DEF Receive, Finish
    <2>2. /\ UNCHANGED <<AnswerSeen, running>>
          /\ result' = [result EXCEPT ![c] = AnswerSeen[c]]
      BY <1>2, <1>13, SeenUnchanged
      DEF Receive, Finish, workerVars, thVars, AnswerOf
    <2>3. PhaseSeen[c] = "queued" /\ AnswerSeen[c] # "none"
      BY <1>2, <1>13, Phases DEF Receive, AnswerOf
    <2> QED
      BY <1>1, <2>1, <2>2, <2>3 DEF Service!Receive, Service!Return
  <1>14. CASE DropFuture(c)
    <2>1. PhaseSeen' = [PhaseSeen EXCEPT ![c] = "done"]
      BY <1>14, PhaseMovesTo DEF DropFuture, Finish
    <2>2. /\ UNCHANGED <<AnswerSeen, running>> /\ c \in DroppableCalls
          /\ result' = [result EXCEPT ![c] = "TimeoutError"]
      BY <1>14, SeenUnchanged DEF DropFuture, Finish, workerVars, thVars
    <2>3. PhaseSeen[c] \in {"looking", "queued"}
      BY <1>2, <1>14, Phases DEF DropFuture
    <2> QED
      BY <1>1, <2>1, <2>2, <2>3 DEF Service!Abandon, Service!Return
  <1> QED
    BY <1>3, <1>4, <1>5, <1>6, <1>7, <1>8, <1>9, <1>10, <1>11, <1>12, <1>13,
       <1>14
    DEF CallProgress

-----------------------------------------------------------------------------
LEMMA WaitingIs ==
  ASSUME TypeOK
  PROVE  Service!Waiting = {c \in Calls : pc[c] = "await" /\ reply[c] = "none"}
PROOF
  <1>1. \A c \in Calls : /\ PhaseSeen[c] = "queued" <=> pc[c] = "await"
                         /\ AnswerSeen[c] = "none" <=> reply[c] = "none"
    BY Phases DEF PhaseSeen, AnswerSeen, AnswerOf, TypeOK, CallTypeOK
  <1> QED
    BY <1>1 DEF Service!Waiting

LEMMA AnswerSends ==
  ASSUME TypeOK, NEW S, NEW r, Answer(S, r)
  PROVE  Service!Send(S \cap Service!Waiting, AnswerOf(r))
PROOF
  <1>1. \A c \in Calls :
          reply'[c] = IF c \in S \cap Service!Waiting THEN r ELSE reply[c]
    BY WaitingIs DEF Answer
  <1> QED
    BY <1>1 DEF Service!Send, AnswerSeen

(* The requests of S are failed, and maybe the batch of a thread with them.*)
LEMMA FailsIs ==
  ASSUME TypeOK, NEW S, NEW r \in {"InternalError", "Dropped"}, Answer(S, r),
         ~Healthy, UNCHANGED <<pc, result>>,
         \/ UNCHANGED running
         \/ \E w \in Workers : /\ S = running[w]
                               /\ running' = [running EXCEPT ![w] = {}]
  PROVE  Service!Fail
PROOF
  <1>1. Service!Send(S \cap Service!Waiting, "InternalError")
    BY AnswerSends DEF AnswerOf
  <1>2. S \cap Service!Waiting \in SUBSET Service!Waiting
    OBVIOUS
  <1>3. PredictorPanics \/ HooksPanic
    BY ConfigAssumption DEF Healthy
  <1> QED
    BY <1>1, <1>2, <1>3, SeenUnchanged DEF Service!Fail

LEMMA ThreadMaps ==
  ASSUME SafeInv, NEW v \in Workers,
         ThreadProgress(v) \/ PredictPanics(v) \/ ThreadHookPanic(v)
  PROVE  AStep
PROOF
  <1> USE DEF SafeInv, HealthyInv, outsideVars
  <1>1. /\ Service!Start(v) \/ Service!Complete(v) \/ Service!Fail => AStep
        /\ UNCHANGED Service!serviceVars => AStep
    BY DEF AStep, Service!Next
  <1>2. ASSUME UNCHANGED <<pc, reply, result, running>> PROVE AStep
    BY <1>1, <1>2, SeenUnchanged DEF Service!serviceVars
  <1>3. CASE TakeBatch(v)
    <2> DEFINE live == {c \in job[v] : pc[c] = "await"}
    <2>1. /\ running[v] = {} /\ running' = [running EXCEPT ![v] = live]
          /\ UNCHANGED <<pc, reply, result>>
      BY <1>3 DEF TakeBatch, ConservationInv, Slots
    <2>2. CASE live = {}
      <3>1. UNCHANGED running
        BY <2>1, <2>2 DEF TypeOK, WorkerTypeOK
      <3> QED
        BY <1>2, <2>1, <3>1
    <2>3. CASE live # {}
      <3>1. live \subseteq Service!Waiting
        BY WaitingIs DEF TypeOK, WorkerTypeOK, ConservationInv, Owed, Placed, Held
      <3>2. ASSUME NEW c \in live, NEW w \in Workers PROVE c \notin running[w]
        BY DEF ConservationInv, OneWorker, OnePlace, Held
      <3>3. live \in SUBSET (Service!Waiting \ UNION {running[w] : w \in Workers})
        BY <3>1, <3>2
      <3>4. Cardinality(live) <= BatchSize
        <4>1. Cardinality(live) <= Cardinality(job[v]) /\ Cardinality(live) \in Nat
          BY FiniteBuffers, FS_Subset, FS_CardinalityType
        <4>2. Cardinality(job[v]) <= BatchSize
          BY DEF BoundInv, BatchBound
        <4> QED
          BY <4>1, <4>2, FiniteBuffers, ConfigAssumption
      <3>5. UNCHANGED <<PhaseSeen, AnswerSeen, result>>
        BY <2>1, SeenUnchanged
      <3>6. Service!Start(v)
        BY <2>1, <2>3, <3>3, <3>4, <3>5
        DEF Service!Start, Service!Cardinality, Cardinality
      <3> QED
        BY <1>1, <3>6
    <2> QED
      BY <2>2, <2>3
  <1>4. CASE PredictReturns(v)
    <2>1. PICK r \in Outcomes : Answer(running[v], r)
      BY <1>4 DEF PredictReturns
    <2>2. /\ running' = [running EXCEPT ![v] = {}]
          /\ UNCHANGED <<pc, result>>
      BY <1>4 DEF PredictReturns
    <2>3. CASE running[v] = {}
      <3>1. UNCHANGED <<running, reply>>
        BY <2>1, <2>2, <2>3 DEF Answer, TypeOK, WorkerTypeOK, CallTypeOK
      <3> QED
        BY <1>2, <2>2, <3>1
    <2>4. CASE running[v] # {}
      <3>1. AnswerOf(r) = r
        BY ConfigAssumption DEF AnswerOf, Returned
      <3>2. Service!Send(running[v] \cap Service!Waiting, r)
        BY <2>1, <3>1, AnswerSends
      <3>3. Service!Complete(v)
        BY <2>2, <2>4, <3>2, SeenUnchanged DEF Service!Complete
      <3> QED
        BY <1>1, <3>3
    <2> QED
      BY <2>3, <2>4
  <1>5. CASE FailBatch(v) \/ ThreadHookPanic(v)
    <2>1. ~Healthy
      BY <1>5 DEF FailBatch, ThreadHookPanic, HealthInv, HealthyWorker, Healthy
    <2>2. PICK r \in {"InternalError", "Dropped"} : Answer(running[v], r)
      BY <1>5 DEF FailBatch, ThreadHookPanic, DropSenders
    <2>3. UNCHANGED <<pc, result>> /\ running' = [running EXCEPT ![v] = {}]
      BY <1>5 DEF FailBatch, ThreadHookPanic
    <2> QED
      BY <1>1, <2>1, <2>2, <2>3, FailsIs
  <1>6. CASE FlushBatch(v) \/ DropJobReceiver(v)
    <2>1. ~Healthy
      BY <1>6 DEF FlushBatch, DropJobReceiver, HealthInv, HealthyWorker
    <2>2. PICK r \in {"InternalError", "Dropped"} : Answer(job[v], r)
      BY <1>6 DEF FlushBatch, DropJobReceiver, DropSenders
    <2>3. UNCHANGED <<pc, result, running>>
      BY <1>6 DEF FlushBatch, DropJobReceiver
    <2> QED
      BY <1>1, <2>1, <2>2, <2>3, FailsIs
  <1>7. CASE JobsClosed(v) \/ PredictPanics(v) \/ RebuildSucceeds(v)
             \/ RebuildGivesUp(v)
    BY <1>2, <1>7 DEF JobsClosed, PredictPanics, RebuildSucceeds, RebuildGivesUp
  <1>8. CASE SetAlive(v) \/ NotifyAlive(v) \/ SetDead(v) \/ NotifyDead(v)
    BY <1>2, <1>8 DEF SetAlive, NotifyAlive, SetDead, NotifyDead
  <1> QED
    BY <1>3, <1>4, <1>5, <1>6, <1>7, <1>8 DEF ThreadProgress

LEMMA AccumulatorMaps ==
  ASSUME SafeInv, NEW v \in Workers, AccumulatorProgress(v) \/ HookPanic(v)
  PROVE  AStep
PROOF
  <1> USE DEF SafeInv, HealthyInv, othersVars, thVars
  <1>1. /\ Service!Fail => AStep
        /\ UNCHANGED Service!serviceVars => AStep
    BY DEF AStep, Service!Next
  <1>2. ASSUME UNCHANGED <<pc, reply, result, running>> PROVE AStep
    BY <1>1, <1>2, SeenUnchanged DEF Service!serviceVars
  <1>3. CASE Exit(v)
    <2>1. \A c \in Calls : pc[c] # "await"
      BY <1>3 DEF Exit, HandleAlive, InFlight
    <2>2. UNCHANGED reply
      BY <1>3, <2>1 DEF Exit, DropFrame, DropSenders, Answer, TypeOK, CallTypeOK
    <2> QED
      BY <1>2, <1>3, <2>2 DEF Exit
  <1>4. CASE DrainDone(v) \/ ReserveClosed(v) \/ Crash(v) \/ HookPanic(v)
             \/ DropReceiver(v)
    <2>1. ~Healthy
      BY <1>4 DEF DrainDone, ReserveClosed, Crash, HookPanic, DropReceiver,
                  HealthInv, HealthyWorker, Healthy, JobReceiverAlive
    <2>2. /\ UNCHANGED <<pc, result, running>>
          /\ \E S : \E r \in {"InternalError", "Dropped"} : Answer(S, r)
      BY <1>4 DEF DrainDone, ReserveClosed, Crash, HookPanic, DropReceiver,
                  DropFrame, DropSenders
    <2> QED
      BY <1>1, <2>1, <2>2, FailsIs
  <1>5. CASE Pop(v) \/ NotifyOne(v) \/ IncrementLen(v) \/ BatchTimeout(v)
             \/ JobClosed(v) \/ CheckPredictor(v) \/ DrainPop(v)
    BY <1>2, <1>5 DEF Pop, NotifyOne, IncrementLen, BatchTimeout, JobClosed,
                      CheckPredictor, DrainPop
  <1>6. CASE Ready(v) \/ Reserve(v) \/ CheckAgain(v) \/ Send(v)
             \/ ResetBatchLen(v) \/ GuardSetDead(v) \/ GuardNotify(v)
    BY <1>2, <1>6 DEF Ready, Reserve, CheckAgain, Send, ResetBatchLen,
                      GuardSetDead, GuardNotify
  <1> QED
    BY <1>3, <1>4, <1>5, <1>6 DEF AccumulatorProgress

LEMMA NextMaps == SafeInv /\ [Next]_vars => AStep
PROOF
  <1> SUFFICES ASSUME SafeInv, [Next]_vars PROVE AStep
    OBVIOUS
  <1>1. CASE DropHandle \/ UNCHANGED vars
    <2>1. UNCHANGED <<pc, reply, result, running>>
      BY <1>1 DEF DropHandle, vars, callVars, workerVars, thVars
    <2> QED
      BY <2>1, SeenUnchanged DEF AStep, Service!serviceVars
  <1> QED
    BY <1>1, CallMaps, AccumulatorMaps, ThreadMaps
    DEF Next, CallNext, AccumulatorNext, ThreadNext, Terminated

LEMMA InitMaps == Init => Service!Init
PROOF
  BY Phases DEF Init, Service!Init, PhaseSeen, AnswerSeen, AnswerOf

(* For every pool, batch and queue size and any set of calls, whether user *)
(* code panics or not: callers and predictors see BatchService.            *)
THEOREM ServiceImplemented == Spec => ServiceKept
PROOF
  <1>1. SafeInv /\ [Next]_vars => [Service!Next]_(Service!serviceVars)
    BY NextMaps DEF AStep
  <1>2. Init => HealthyInv
    BY InitHealthInv DEF HealthyInv
  <1>3. TypeOK /\ HealthyInv /\ [Next]_vars => HealthyInv'
    BY NextHealthInv DEF HealthyInv, Healthy
  <1>4. Spec => []SafeInv
    BY <1>2, <1>3, TypeCorrect, ConservationHolds, InitBoundInv, NextBoundInv,
       PTL
    DEF Spec, SafeInv
  <1> QED
    BY <1>1, <1>4, InitMaps, PTL DEF Spec, ServiceKept, Service!Spec

-----------------------------------------------------------------------------
(***************************************************************************)
(* The waiters.  The list and the futures agree, and only a call between   *)
(* its registration and its end has a future.                              *)
(***************************************************************************)
NotifyInv ==
  /\ Distinct(waiters)
  /\ ToSet(waiters) = {c \in Calls : note[c] = "listed"}
  /\ \A c \in Calls : pc[c] \in {"idle", "enable", "done"} => note[c] = "none"

LEMMA ConcatIs ==
  ASSUME NEW S, NEW a \in Seq(S), NEW b \in Seq(S)
  PROVE  /\ a \o b \in Seq(S) /\ DOMAIN (a \o b) = 1 .. Len(a) + Len(b)
         /\ \A j \in 1 .. Len(a) : (a \o b)[j] = a[j]
         /\ \A j \in Len(a) + 1 .. Len(a) + Len(b) : (a \o b)[j] = b[j - Len(a)]
PROOF
  OBVIOUS

LEMMA RemoveSet ==
  ASSUME NEW S, NEW q \in Seq(S), Distinct(q), NEW i \in DOMAIN q
  PROVE  /\ ToSet(RemoveAt(q, i)) = ToSet(q) \ {q[i]}
         /\ Distinct(RemoveAt(q, i))
PROOF
  <1> DEFINE r == RemoveAt(q, i)
             n == Len(q)
  <1>1. n \in Nat /\ DOMAIN q = 1 .. n /\ i \in 1 .. n
    OBVIOUS
  <1>2. /\ DOMAIN r = 1 .. n - 1
        /\ \A j \in 1 .. n - 1 : r[j] = IF j < i THEN q[j] ELSE q[j + 1]
    <2> DEFINE a == SubSeq(q, 1, i - 1)
               b == SubSeq(q, i + 1, n)
    <2>1. a \in Seq(S) /\ Len(a) = i - 1 /\ \A j \in 1 .. i - 1 : a[j] = q[j]
      BY <1>1
    <2>2. b \in Seq(S) /\ Len(b) = n - i /\ \A j \in 1 .. n - i : b[j] = q[i + j]
      BY <1>1
    <2>3. r = a \o b
      BY DEF RemoveAt
    <2>4. /\ DOMAIN (a \o b) = 1 .. (i - 1) + (n - i)
          /\ \A j \in 1 .. i - 1 : (a \o b)[j] = a[j]
          /\ \A j \in (i - 1) + 1 .. (i - 1) + (n - i) :
               (a \o b)[j] = b[j - (i - 1)]
      <3>1. /\ DOMAIN (a \o b) = 1 .. Len(a) + Len(b)
            /\ \A j \in 1 .. Len(a) : (a \o b)[j] = a[j]
            /\ \A j \in Len(a) + 1 .. Len(a) + Len(b) :
                 (a \o b)[j] = b[j - Len(a)]
        <4>1. a \in Seq(S) /\ b \in Seq(S)
          BY <2>1, <2>2
        <4> HIDE DEF a, b
        <4> QED
          BY <4>1, ConcatIs
      <3>2. Len(a) = i - 1 /\ Len(b) = n - i
        BY <2>1, <2>2
      <3> HIDE DEF a, b, n
      <3> QED
        BY <3>1, <3>2
    <2>5. (i - 1) + (n - i) = n - 1 /\ (i - 1) + 1 = i
      BY <1>1
    <2>6. ASSUME NEW j \in 1 .. n - 1, ~(j < i) PROVE r[j] = q[j + 1]
      <3>1. j \in i .. n - 1 /\ j - (i - 1) \in 1 .. n - i
            /\ i + (j - (i - 1)) = j + 1
        BY <1>1, <2>6
      <3>2. r[j] = b[j - (i - 1)]
        BY <2>3, <2>4, <2>5, <3>1
      <3> HIDE DEF a, b, r
      <3> QED
        BY <2>2, <3>1, <3>2
    <2>7. ASSUME NEW j \in 1 .. n - 1, j < i PROVE r[j] = q[j]
      <3>1. j \in 1 .. i - 1
        BY <1>1, <2>7
      <3> HIDE DEF a, b, r
      <3> QED
        BY <2>1, <2>3, <2>4, <3>1
    <2> HIDE DEF a, b, r
    <2> QED
      BY <2>3, <2>4, <2>5, <2>6, <2>7
  <1>3. Distinct(r)
    <2> HIDE DEF r
    <2>1. ASSUME NEW j \in 1 .. n - 1, NEW k \in 1 .. n - 1, r[j] = r[k]
          PROVE  j = k
      BY <1>1, <1>2, <2>1 DEF Distinct
    <2> QED
      BY <1>2, <2>1 DEF Distinct
  <1>4. ToSet(r) \subseteq ToSet(q) \ {q[i]}
    BY <1>1, <1>2 DEF ToSet, Distinct
  <1>5. ASSUME NEW x \in ToSet(q), x # q[i] PROVE x \in ToSet(r)
    <2>1. PICK j \in 1 .. n : q[j] = x
      BY <1>1 DEF ToSet
    <2>2. CASE j < i
      BY <1>1, <1>2, <2>1, <2>2 DEF ToSet
    <2>3. CASE j > i
      <3>1. j - 1 \in 1 .. n - 1 /\ r[j - 1] = q[j]
        BY <1>1, <1>2, <2>1, <2>3
      <3> QED
        BY <1>2, <2>1, <3>1 DEF ToSet
    <2> QED
      BY <1>1, <1>5, <2>1, <2>2, <2>3
  <1> QED
    BY <1>3, <1>4, <1>5

(* What a step of call c does to the waiters: it ends and drops its        *)
(* future, registers one, lets go of one that was notified, or goes on.    *)
CallSignals(c) ==
  /\ \A d \in Calls \ {c} : pc'[d] = pc[d]
  /\ \/ pc'[c] = "done" /\ DropNotified(c)
     \/ pc[c] = "enable" /\ pc'[c] = "probe" /\ EnableNotified(c)
     \/ /\ pc'[c] = "enable" /\ note[c] # "listed"
        /\ note' = [note EXCEPT ![c] = "none"]
        /\ UNCHANGED <<permit, waiters>>
     \/ pc'[c] \notin {"idle", "enable", "done"} /\ UNCHANGED notifyVars

LEMMA NextWorkerSignals ==
  ASSUME TypeOK, NEW c \in Calls, NEW h, NextWorker(c, h)
  PROVE  CallSignals(c)
PROOF
  <1> USE DEF TypeOK, CallTypeOK, NotifyTypeOK, CallSignals, notifyVars
  <1>1. CASE Advance(c, h)
    BY <1>1 DEF Advance
  <1>2. CASE QueueFull(c) /\ c \in TryCalls
    BY <1>2 DEF QueueFull, Finish
  <1>3. CASE QueueFull(c) /\ c \notin TryCalls /\ note[c] = "none"
    BY <1>3 DEF QueueFull
  <1>4. CASE QueueFull(c) /\ c \notin TryCalls /\ note[c] # "none"
    BY <1>4 DEF QueueFull
  <1>5. CASE Finish(c, "NoAvailableWorkersError")
    BY <1>5 DEF Finish
  <1> QED
    BY <1>1, <1>2, <1>3, <1>4, <1>5 DEF NextWorker

LEMMA CallStepSignals ==
  ASSUME TypeOK, NEW c \in Calls, Begin(c) \/ CallProgress(c) \/ DropFuture(c)
  PROVE  CallSignals(c)
PROOF
  <1> USE DEF TypeOK, CallTypeOK, NotifyTypeOK
  <1>1. CASE \E h : NextWorker(c, h)
    BY <1>1, NextWorkerSignals
  <1>2. CASE Begin(c) \/ Enable(c) \/ Wake(c)
    BY <1>2 DEF Begin, Enable, Wake, StartWalk, CallSignals
  <1>3. CASE ProbePrimary(c) \/ ProbeSecondary(c) \/ ProbePredictor(c)
    BY <1>1, <1>3
    DEF ProbePrimary, ProbeSecondary, ProbePredictor, CallSignals
  <1>4. CASE IsRebuilding(c) \/ PushFull(c) \/ PushClosed(c)
    BY <1>1, <1>4 DEF IsRebuilding, PushFull, PushClosed
  <1>5. CASE PushSuccess(c)
    BY <1>5 DEF PushSuccess, CallSignals
  <1>6. CASE Receive(c) \/ DropFuture(c)
    BY <1>6 DEF Receive, DropFuture, Finish, CallSignals
  <1> QED
    BY <1>2, <1>3, <1>4, <1>5, <1>6 DEF CallProgress

LEMMA WorkerStepSignals ==
  ASSUME NEW v \in Workers,
         \/ AccumulatorProgress(v) \/ HookPanic(v)
         \/ ThreadProgress(v) \/ PredictPanics(v) \/ ThreadHookPanic(v)
  PROVE  /\ UNCHANGED <<pc, hope>>
         /\ UNCHANGED notifyVars \/ notify_one \/ notify_waiters
PROOF
  BY DEF othersVars, outsideVars, AccumulatorProgress, Pop, NotifyOne,
     IncrementLen, Exit, BatchTimeout, JobClosed, CheckPredictor, DrainPop,
     DrainDone, Ready, Reserve, ReserveClosed, CheckAgain, Send, ResetBatchLen,
     Crash, GuardSetDead, GuardNotify, DropReceiver, HookPanic, ThreadProgress,
     TakeBatch, JobsClosed, PredictReturns, FailBatch, FlushBatch,
     RebuildSucceeds, RebuildGivesUp, SetAlive, NotifyAlive, SetDead, NotifyDead,
     DropJobReceiver, PredictPanics, ThreadHookPanic

(* The head of the list, if there is one, is a registered future.          *)
LEMMA HeadWaits ==
  ASSUME TypeOK, NotifyInv, waiters # <<>>
  PROVE  /\ Head(waiters) \in Calls /\ note[Head(waiters)] = "listed"
         /\ InFlight(Head(waiters))
         /\ Distinct(Tail(waiters))
         /\ ToSet(Tail(waiters)) = ToSet(waiters) \ {Head(waiters)}
PROOF
  <1>1. waiters \in Seq(Calls)
    BY DEF TypeOK, NotifyTypeOK
  <1>2. /\ Head(waiters) \in ToSet(waiters) /\ Distinct(Tail(waiters))
        /\ ToSet(Tail(waiters)) = ToSet(waiters) \ {Head(waiters)}
    BY <1>1, TailSet DEF NotifyInv
  <1> QED
    BY <1>2 DEF NotifyInv, InFlight

LEMMA CallKeepsWaiters ==
  ASSUME TypeOK, NotifyInv, NEW c \in Calls, CallSignals(c)
  PROVE  NotifyInv'
PROOF
  <1> USE DEF TypeOK, CallTypeOK, NotifyTypeOK
  <1>1. ASSUME \A d \in Calls : pc'[d] \in {"idle", "enable", "done"} =>
                                 note'[d] = "none",
               Distinct(waiters'),
               ToSet(waiters') = {d \in Calls : note'[d] = "listed"}
        PROVE  NotifyInv'
    BY <1>1 DEF NotifyInv
  <1>2. CASE pc'[c] = "done" /\ DropNotified(c)
    <2>1. CASE note[c] \in {"none", "all", "spent"}
      <3>1. note' = [note EXCEPT ![c] = "none"] /\ waiters' = waiters
        BY <1>2, <2>1 DEF DropNotified
      <3> QED
        BY <1>1, <1>2, <2>1, <3>1 DEF NotifyInv, CallSignals
    <2>2. CASE note[c] = "listed"
      <3>1. PICK i \in DOMAIN waiters :
              waiters[i] = c /\ waiters' = RemoveAt(waiters, i)
        BY <1>2, <2>2 DEF DropNotified
      <3>2. note' = [note EXCEPT ![c] = "none"]
        BY <1>2, <2>2 DEF DropNotified
      <3>3. Distinct(waiters') /\ ToSet(waiters') = ToSet(waiters) \ {c}
        BY <3>1, RemoveSet DEF NotifyInv
      <3> QED
        BY <1>1, <1>2, <3>2, <3>3 DEF NotifyInv, CallSignals
    <2>3. CASE note[c] = "one" /\ waiters = <<>>
      <3>1. note' = [note EXCEPT ![c] = "none"] /\ waiters' = waiters
        BY <1>2, <2>3 DEF DropNotified
      <3> QED
        BY <1>1, <1>2, <2>3, <3>1 DEF NotifyInv, CallSignals
    <2>4. CASE note[c] = "one" /\ waiters # <<>>
      <3>1. /\ note' = [note EXCEPT ![c] = "none", ![Head(waiters)] = "one"]
            /\ waiters' = Tail(waiters)
        BY <1>2, <2>4 DEF DropNotified
      <3> QED
        BY <1>1, <1>2, <2>4, <3>1, HeadWaits DEF NotifyInv, CallSignals, InFlight
    <2> QED
      BY <1>2, <2>1, <2>2, <2>3, <2>4 DEF DropNotified
  <1>3. CASE pc[c] = "enable" /\ pc'[c] = "probe" /\ EnableNotified(c)
    <2>1. c \notin ToSet(waiters)
      BY <1>3 DEF NotifyInv
    <2>2. CASE permit
      BY <1>1, <1>3, <2>1, <2>2 DEF NotifyInv, CallSignals, EnableNotified
    <2>3. CASE ~permit
      <3>1. /\ waiters' = Append(waiters, c)
            /\ note' = [note EXCEPT ![c] = "listed"]
        BY <1>3, <2>3 DEF EnableNotified
      <3>2. ToSet(waiters') = ToSet(waiters) \cup {c} /\ Distinct(waiters')
        BY <2>1, <3>1, AppendSet DEF NotifyInv
      <3> QED
        BY <1>1, <1>3, <3>1, <3>2 DEF NotifyInv, CallSignals
    <2> QED
      BY <2>2, <2>3
  <1>4. CASE /\ pc'[c] = "enable" /\ note[c] # "listed"
             /\ note' = [note EXCEPT ![c] = "none"] /\ waiters' = waiters
    BY <1>1, <1>4 DEF NotifyInv, CallSignals
  <1>5. CASE pc'[c] \notin {"idle", "enable", "done"} /\ UNCHANGED notifyVars
    BY <1>1, <1>5 DEF NotifyInv, CallSignals, notifyVars
  <1> QED
    BY <1>2, <1>3, <1>4, <1>5 DEF CallSignals

LEMMA WorkerKeepsWaiters ==
  ASSUME TypeOK, NotifyInv, UNCHANGED pc,
         UNCHANGED notifyVars \/ notify_one \/ notify_waiters
  PROVE  NotifyInv'
PROOF
  <1> USE DEF TypeOK, NotifyTypeOK
  <1>1. CASE UNCHANGED notifyVars
    BY <1>1 DEF NotifyInv, notifyVars, Distinct, ToSet
  <1>2. CASE notify_one
    BY <1>2, HeadWaits DEF notify_one, NotifyInv, InFlight
  <1>3. CASE notify_waiters
    BY <1>3, EmptyQueue DEF notify_waiters, NotifyInv
  <1> QED
    BY <1>1, <1>2, <1>3

LEMMA NextNotifyInv == TypeOK /\ NotifyInv /\ [Next]_vars => NotifyInv'
PROOF
  <1> SUFFICES ASSUME TypeOK, NotifyInv, [Next]_vars PROVE NotifyInv'
    OBVIOUS
  <1>1. CASE DropHandle \/ UNCHANGED vars
    <2>1. UNCHANGED <<pc, notifyVars>>
      BY <1>1 DEF DropHandle, vars, callVars
    <2> QED
      BY <2>1, WorkerKeepsWaiters
  <1>2. CASE CallNext
    BY <1>1, <1>2, CallStepSignals, CallKeepsWaiters DEF CallNext
  <1>3. CASE AccumulatorNext \/ ThreadNext
    BY <1>3, WorkerStepSignals, WorkerKeepsWaiters DEF AccumulatorNext, ThreadNext
  <1> QED
    BY <1>1, <1>2, <1>3 DEF Next, Terminated

LEMMA InitNotifyInv == Init => NotifyInv
PROOF
  BY EmptyQueue DEF Init, NotifyInv

-----------------------------------------------------------------------------
(***************************************************************************)
(* A death reaches whoever waits for room, or has registered and is on its *)
(* way to wait.  A registered walk waits only if it finds hope, which is a *)
(* predictor that is not Dead, and one that dies later is announced after  *)
(* the registration.                                                       *)
(***************************************************************************)
Expecting ==
  {c \in Calls : /\ note[c] = "listed"
                 /\ \/ pc[c] \in {"parked", "push"}
                    \/ /\ pc[c] \in {"probe", "probe_predictor", "is_rebuilding"}
                       /\ hope[c]}

Hopeful == \E w \in Workers : \/ predictor[w] # "Dead"
                              \/ thPc[w] = "notify_dead"
                              \/ accPc[w] = "notify_waiters"

ToldInv == Expecting # {} => Hopeful

LEMMA NextWorkerExpects ==
  ASSUME TypeOK, NEW c \in Calls, NEW h, NextWorker(c, h), c \in Expecting'
  PROVE  note[c] = "listed" /\ h
PROOF
  <1> USE DEF TypeOK, CallTypeOK, NotifyTypeOK, Expecting
  <1>1. CASE Advance(c, h)
    BY <1>1 DEF Advance, notifyVars
  <1>2. CASE h /\ QueueFull(c)
    <2>1. c \notin TryCalls
      BY <1>2 DEF QueueFull, Finish
    <2> QED
      BY <1>2, <2>1 DEF QueueFull, notifyVars
  <1>3. ~Finish(c, "NoAvailableWorkersError")
    BY DEF Finish
  <1> QED
    BY <1>1, <1>2, <1>3 DEF NextWorker

(* A call comes to expect a wakeup only at a predictor that is not Dead.   *)
LEMMA CallExpects ==
  ASSUME TypeOK, NEW c \in Calls, Begin(c) \/ CallProgress(c) \/ DropFuture(c),
         c \in Expecting', c \notin Expecting
  PROVE  Hopeful
PROOF
  <1> USE DEF TypeOK, CallTypeOK, NotifyTypeOK
  <1>1. sink[c] \in Workers
    OBVIOUS
  <1>2. CASE ProbePrimary(c)
    <2>1. CASE NextWorker(c, hope[c])
      BY <1>2, <2>1, NextWorkerExpects DEF ProbePrimary, Expecting
    <2>2. CASE ~NextWorker(c, hope[c])
      BY <1>2, <2>2 DEF ProbePrimary, Expecting, notifyVars
    <2> QED
      BY <2>1, <2>2
  <1>3. CASE ProbeSecondary(c)
    BY <1>3 DEF ProbeSecondary, Expecting, notifyVars
  <1>4. CASE ProbePredictor(c)
    <2>1. CASE NextWorker(c, hope[c])
      BY <1>4, <2>1, NextWorkerExpects DEF ProbePredictor, Expecting
    <2>2. CASE predictor[sink[c]] # "Alive" /\ ~NextWorker(c, hope[c])
      BY <1>4, <2>2 DEF ProbePredictor, Expecting, notifyVars
    <2>3. CASE predictor[sink[c]] = "Alive"
      BY <1>1, <2>3 DEF Hopeful
    <2> QED
      BY <2>1, <2>2, <2>3
  <1>5. CASE IsRebuilding(c)
    <2>1. note[c] = "listed" /\ (hope[c] \/ is_rebuilding(sink[c]))
      BY <1>5, NextWorkerExpects DEF IsRebuilding
    <2>2. is_rebuilding(sink[c])
      BY <1>5, <2>1 DEF IsRebuilding, Expecting
    <2> QED
      BY <1>1, <2>2 DEF is_rebuilding, Hopeful
  <1>6. ~PushFull(c) /\ ~PushClosed(c)
    BY NextWorkerExpects DEF PushFull, PushClosed, Expecting
  <1>7. ~Begin(c) /\ ~Enable(c) /\ ~Wake(c)
    BY DEF Begin, Enable, Wake, StartWalk, Expecting
  <1>8. ~PushSuccess(c) /\ ~Receive(c) /\ ~DropFuture(c)
    BY DEF PushSuccess, Receive, DropFuture, Finish, Expecting
  <1> QED
    BY <1>2, <1>3, <1>4, <1>5, <1>6, <1>7, <1>8 DEF CallProgress

(* Nobody comes to expect a wakeup by another's step.                      *)
LEMMA CallSpares ==
  ASSUME TypeOK, NotifyInv, NEW c \in Calls,
         Begin(c) \/ CallProgress(c) \/ DropFuture(c)
  PROVE  /\ Expecting' \subseteq Expecting \cup {c}
         /\ UNCHANGED <<predictor, thPc, accPc>>
PROOF
  <1>1. /\ UNCHANGED <<predictor, thPc, accPc>>
        /\ \A d \in Calls \ {c} : pc'[d] = pc[d] /\ hope'[d] = hope[d]
    <2>1. \A r : Finish(c, r) => \A d \in Calls \ {c} :
                                   pc'[d] = pc[d] /\ hope'[d] = hope[d]
      BY DEF Finish, TypeOK, CallTypeOK
    <2>2. \A h : NextWorker(c, h) => \A d \in Calls \ {c} :
                                       pc'[d] = pc[d] /\ hope'[d] = hope[d]
      BY <2>1 DEF NextWorker, Advance, QueueFull, TypeOK, CallTypeOK
    <2> QED
      BY <2>1, <2>2
      DEF CallProgress, Begin, StartWalk, ProbePrimary, ProbeSecondary,
          ProbePredictor, IsRebuilding, PushSuccess, PushFull, PushClosed,
          Enable, Wake, Receive, DropFuture, workerVars, accVars, thVars,
          TypeOK, CallTypeOK
  <1>2. \A d \in Calls \ {c} : note'[d] = "listed" => note[d] = "listed"
    <2>1. CallSignals(c)
      BY CallStepSignals
    <2> QED
      BY <2>1, HeadWaits
      DEF CallSignals, DropNotified, EnableNotified, notifyVars, TypeOK,
          NotifyTypeOK
  <1> QED
    BY <1>1, <1>2 DEF Expecting

(* A worker announces a death to everybody before it counts for nothing.   *)
LEMMA WorkerTells ==
  ASSUME TypeOK, NotifyInv, ToldInv, NEW v \in Workers,
         \/ AccumulatorProgress(v) \/ HookPanic(v)
         \/ ThreadProgress(v) \/ PredictPanics(v) \/ ThreadHookPanic(v)
  PROVE  ToldInv'
PROOF
  <1> USE DEF TypeOK, NotifyTypeOK, WorkerTypeOK
  <1>1. Expecting' \subseteq Expecting
    <2>1. \A d \in Calls : note'[d] = "listed" => note[d] = "listed"
      BY WorkerStepSignals, HeadWaits DEF notifyVars, notify_one, notify_waiters
    <2>2. UNCHANGED <<pc, hope>>
      BY WorkerStepSignals
    <2> QED
      BY <2>1, <2>2 DEF Expecting
  <1>2. CASE NotifyDead(v) \/ GuardNotify(v)
    BY <1>2 DEF NotifyDead, GuardNotify, notify_waiters, ToldInv, Expecting
  <1>3. CASE ~(NotifyDead(v) \/ GuardNotify(v))
    <2>1. ASSUME NEW w \in Workers, thPc[w] = "notify_dead"
          PROVE  thPc'[w] = "notify_dead"
      BY <1>3, <2>1
      DEF Step, thVars, othersVars, AccumulatorProgress, Pop, NotifyOne,
          IncrementLen, Exit, BatchTimeout, JobClosed, CheckPredictor, DrainPop,
          DrainDone, Ready, Reserve, ReserveClosed, CheckAgain, Send,
          ResetBatchLen, Crash, GuardSetDead, DropReceiver, HookPanic,
          ThreadProgress, TakeBatch, JobsClosed, PredictReturns, FailBatch,
          FlushBatch, RebuildSucceeds, RebuildGivesUp, SetAlive, NotifyAlive,
          SetDead, DropJobReceiver, PredictPanics, ThreadHookPanic
    <2>2. ASSUME NEW w \in Workers, accPc[w] = "notify_waiters"
          PROVE  accPc'[w] = "notify_waiters"
      BY <1>3, <2>2
      DEF Goto, accVars, outsideVars, AccumulatorProgress, Pop, NotifyOne,
          IncrementLen, Exit, BatchTimeout, JobClosed, CheckPredictor, DrainPop,
          DrainDone, Ready, Reserve, ReserveClosed, CheckAgain, Send,
          ResetBatchLen, Crash, GuardSetDead, DropReceiver, HookPanic,
          ThreadProgress, TakeBatch, JobsClosed, PredictReturns, FailBatch,
          FlushBatch, RebuildSucceeds, RebuildGivesUp, SetAlive, NotifyAlive,
          SetDead, DropJobReceiver, PredictPanics, ThreadHookPanic
    <2>3. ASSUME NEW w \in Workers, predictor[w] # "Dead"
          PROVE  \/ predictor'[w] # "Dead" \/ thPc'[w] = "notify_dead"
                 \/ accPc'[w] = "notify_waiters"
      <3>1. CASE SetDead(v)
        BY <2>3, <3>1 DEF SetDead, set_predictor_state, Step
      <3>2. CASE GuardSetDead(v)
        BY <2>3, <3>2 DEF GuardSetDead, Goto
      <3>3. CASE SetAlive(v) \/ PredictPanics(v)
        BY <2>3, <3>3 DEF SetAlive, PredictPanics, set_predictor_state
      <3>4. CASE ~(SetDead(v) \/ GuardSetDead(v) \/ SetAlive(v)
                   \/ PredictPanics(v))
        BY <2>3, <3>4
        DEF AccumulatorProgress, Pop, NotifyOne, IncrementLen, Exit,
            BatchTimeout, JobClosed, CheckPredictor, DrainPop, DrainDone, Ready,
            Reserve, ReserveClosed, CheckAgain, Send, ResetBatchLen, Crash,
            GuardNotify, DropReceiver, HookPanic, ThreadProgress, TakeBatch,
            JobsClosed, PredictReturns, FailBatch, FlushBatch, RebuildSucceeds,
            RebuildGivesUp, NotifyAlive, NotifyDead, DropJobReceiver,
            ThreadHookPanic
      <3> QED
        BY <3>1, <3>2, <3>3, <3>4
    <2>4. Hopeful => Hopeful'
      BY <2>1, <2>2, <2>3 DEF Hopeful
    <2> QED
      BY <1>1, <2>4 DEF ToldInv
  <1> QED
    BY <1>2, <1>3

LEMMA NextToldInv == TypeOK /\ NotifyInv /\ ToldInv /\ [Next]_vars => ToldInv'
PROOF
  <1> SUFFICES ASSUME TypeOK, NotifyInv, ToldInv, [Next]_vars PROVE ToldInv'
    OBVIOUS
  <1>1. CASE DropHandle \/ UNCHANGED vars
    BY <1>1 DEF DropHandle, vars, callVars, notifyVars, workerVars, accVars,
                thVars, ToldInv, Expecting, Hopeful
  <1>2. ASSUME NEW c \in Calls, Begin(c) \/ CallProgress(c) \/ DropFuture(c)
        PROVE  ToldInv'
    <2>1. Expecting' \subseteq Expecting \cup {c} /\ (Hopeful => Hopeful')
      BY <1>2, CallSpares DEF Hopeful
    <2>2. c \in Expecting' /\ c \notin Expecting => Hopeful
      BY <1>2, CallExpects
    <2> QED
      BY <2>1, <2>2 DEF ToldInv
  <1>3. CASE AccumulatorNext \/ ThreadNext
    BY <1>3, WorkerTells DEF AccumulatorNext, ThreadNext
  <1> QED
    BY <1>1, <1>2, <1>3 DEF Next, CallNext, Terminated

(* Whatever panics, in user code or in hooks, and however the registration *)
(* of a caller and the death of the last predictor interleave: nobody      *)
(* sleeps on a dead pool that has announced its deaths.                    *)
THEOREM DeathsAreTold == Spec => []DeathIsTold
PROOF
  <1>1. Init => ToldInv
    BY DEF Init, ToldInv, Expecting
  <1>2. TypeOK /\ ToldInv => DeathIsTold
    BY DEF ToldInv, Expecting, Hopeful, DeathIsTold
  <1> QED
    BY <1>1, <1>2, NextToldInv, InitNotifyInv, NextNotifyInv, TypeCorrect, PTL
    DEF Spec

-----------------------------------------------------------------------------
(***************************************************************************)
(* No wakeup is lost in a healthy pool.  A call that ends or falls asleep  *)
(* on its own leaves a full queue behind, a dequeue notifies a sleeper,    *)
(* and a call that leaves hands the notification it got to the next one.   *)
(***************************************************************************)
Sleepers == {c \in Calls : pc[c] = "parked" /\ note[c] = "listed"}

Wakeup == \/ \E w \in Workers : queue[w] # <<>> \/ accPc[w] = "popped"
          \/ \E c \in Calls : Walking(c)
          \/ \E c \in Calls : InFlight(c) /\ note[c] = "one"

LEMMA KeptIs == NoWakeupLost <=> (Sleepers # {} => Wakeup)
PROOF
  BY DEF NoWakeupLost, Sleepers, Wakeup

(* Where a step of call c leaves it in a healthy pool.                     *)
LEMMA CallLands ==
  ASSUME TypeOK, HealthInv, NEW c \in Calls,
         Begin(c) \/ CallProgress(c) \/ DropFuture(c)
  PROVE  \/ pc'[c] \notin {"idle", "parked", "await", "done"}
         \/ \E w \in Workers : queue'[w] # <<>>
         \/ /\ pc[c] \in {"parked", "await"} /\ pc'[c] = "done"
            /\ DropNotified(c) /\ UNCHANGED <<queue, accPc>>
PROOF
  <1> USE DEF TypeOK, CallTypeOK, WorkerTypeOK
  <1>1. sink[c] \in Workers /\ queue[sink[c]] \in Seq(Calls)
    OBVIOUS
  <1>2. CASE Begin(c) \/ Enable(c) \/ Wake(c)
    BY <1>2 DEF Begin, Enable, Wake, StartWalk
  <1>3. CASE ProbePrimary(c) \/ ProbePredictor(c)
    <2>1. CASE pass[c] = 1
      <3>1. \A h : NextWorker(c, h) => pc'[c] = "probe"
        BY <2>1 DEF NextWorker, Advance
      <3> QED
        BY <1>3, <3>1 DEF ProbePrimary, ProbePredictor
    <2>2. CASE pass[c] # 1
      BY <1>3, <2>2 DEF ProbePrimary, ProbePredictor
    <2> QED
      BY <2>1, <2>2
  <1>4. CASE ProbeSecondary(c)
    BY <1>4 DEF ProbeSecondary
  <1>5. CASE PushSuccess(c)
    <2>1. queue'[sink[c]] = Append(queue[sink[c]], c)
      BY <1>1, <1>5 DEF PushSuccess
    <2>2. /\ Len(queue'[sink[c]]) = Len(queue[sink[c]]) + 1
          /\ Len(queue[sink[c]]) \in Nat
      BY <1>1, <2>1
    <2>3. queue'[sink[c]] # <<>>
      BY <2>2
    <2> QED
      BY <1>1, <2>3
  <1>6. CASE PushFull(c)
    <2>1. queue' = queue /\ Len(queue[sink[c]]) >= QueueSize
      BY <1>6 DEF PushFull, Full, workerVars
    <2>2. queue[sink[c]] # <<>>
      BY <1>1, <2>1, ConfigAssumption
    <2> QED
      BY <1>1, <2>1, <2>2
  <1>7. ~IsRebuilding(c) /\ ~PushClosed(c)
    <2>1. ~IsRebuilding(c)
      BY DEF IsRebuilding, HealthInv, HealthyCall
    <2>2. ~PushClosed(c)
      BY <1>1, OpenForCalls DEF PushClosed, InFlight
    <2> QED
      BY <2>1, <2>2
  <1>8. CASE Receive(c) \/ DropFuture(c)
    BY <1>8 DEF Receive, DropFuture, Finish, workerVars, accVars
  <1> QED
    BY <1>2, <1>3, <1>4, <1>5, <1>6, <1>7, <1>8 DEF CallProgress

LEMMA CallLeavesWakeup ==
  ASSUME TypeOK, HealthInv, NotifyInv, NoWakeupLost, NEW c \in Calls,
         Begin(c) \/ CallProgress(c) \/ DropFuture(c)
  PROVE  NoWakeupLost'
PROOF
  <1> USE DEF TypeOK, CallTypeOK, NotifyTypeOK
  <1>1. SUFFICES ASSUME Sleepers' # {} PROVE Wakeup'
    BY KeptIs DEF NoWakeupLost, Sleepers, Wakeup
  <1>2. CASE pc'[c] \notin {"idle", "parked", "await", "done"}
    BY <1>2 DEF Wakeup, Walking
  <1>3. CASE \E w \in Workers : queue'[w] # <<>>
    BY <1>3 DEF Wakeup
  <1>4. CASE /\ pc[c] \in {"parked", "await"} /\ pc'[c] = "done"
             /\ DropNotified(c) /\ UNCHANGED <<queue, accPc>>
    <2>1. \A d \in Calls \ {c} : pc'[d] = pc[d]
      BY CallStepSignals DEF CallSignals
    <2>2. NotifyInv'
      BY CallStepSignals, CallKeepsWaiters
    <2>3. \A d \in Calls \ {c} : note[d] = "one" => note'[d] = "one"
      BY <1>4, HeadWaits DEF DropNotified
    <2>4. \A d \in Calls \ {c} : note'[d] = "listed" => note[d] = "listed"
      BY <1>4, HeadWaits DEF DropNotified
    <2>5. Sleepers # {}
      <3>1. PICK d \in Calls : pc'[d] = "parked" /\ note'[d] = "listed"
        BY <1>1 DEF Sleepers
      <3> QED
        BY <1>4, <2>1, <2>4, <3>1 DEF Sleepers
    <2>6. CASE note[c] = "one"
      <3>1. waiters # <<>>
        BY <2>5, EmptyQueue DEF Sleepers, NotifyInv
      <3>2. note'[Head(waiters)] = "one" /\ Head(waiters) # c
        BY <1>4, <2>6, <3>1, HeadWaits DEF DropNotified
      <3> QED
        BY <2>1, <3>1, <3>2, HeadWaits DEF Wakeup, InFlight
    <2>7. CASE note[c] # "one"
      <3>1. Wakeup
        BY <2>5, KeptIs
      <3>2. CASE \E w \in Workers : queue[w] # <<>> \/ accPc[w] = "popped"
        BY <1>4, <3>2 DEF Wakeup
      <3>3. CASE \E d \in Calls : Walking(d)
        BY <1>4, <2>1, <3>3 DEF Wakeup, Walking
      <3>4. CASE \E d \in Calls : InFlight(d) /\ note[d] = "one"
        BY <2>1, <2>3, <2>7, <3>4 DEF Wakeup, InFlight
      <3> QED
        BY <3>1, <3>2, <3>3, <3>4 DEF Wakeup
    <2> QED
      BY <2>6, <2>7
  <1> QED
    BY <1>2, <1>3, <1>4, CallLands

(* A dequeue is followed by its notify_one, and nothing else in a healthy  *)
(* worker takes a wakeup away.                                             *)
LEMMA WorkerLeavesWakeup ==
  ASSUME TypeOK, HealthInv, NotifyInv, NoWakeupLost, NEW v \in Workers,
         \/ AccumulatorProgress(v) \/ HookPanic(v)
         \/ ThreadProgress(v) \/ PredictPanics(v) \/ ThreadHookPanic(v)
  PROVE  NoWakeupLost'
PROOF
  <1> USE DEF TypeOK, CallTypeOK, NotifyTypeOK, WorkerTypeOK
  <1>1. SUFFICES ASSUME Sleepers' # {} PROVE Wakeup'
    BY KeptIs DEF NoWakeupLost, Sleepers, Wakeup
  <1>2. /\ UNCHANGED pc
        /\ \A d \in Calls : /\ note'[d] = "listed" => note[d] = "listed"
                            /\ note[d] = "one" => note'[d] = "one"
    BY WorkerStepSignals, HeadWaits DEF notifyVars, notify_one, notify_waiters
  <1>3. Sleepers # {}
    BY <1>1, <1>2 DEF Sleepers
  <1>4. Wakeup
    BY <1>3, KeptIs
  <1>5. CASE \E d \in Calls : Walking(d)
    BY <1>2, <1>5 DEF Wakeup, Walking
  <1>6. CASE \E d \in Calls : InFlight(d) /\ note[d] = "one"
    BY <1>2, <1>6 DEF Wakeup, InFlight
  <1>7. CASE NotifyOne(v)
    <2>1. waiters # <<>>
      BY <1>3, EmptyQueue DEF Sleepers, NotifyInv
    <2>2. note'[Head(waiters)] = "one"
      BY <1>7, <2>1, HeadWaits DEF NotifyOne, notify_one
    <2> QED
      BY <1>2, <2>1, <2>2, HeadWaits DEF Wakeup, InFlight
  <1>8. CASE Pop(v)
    BY <1>8 DEF Pop, Goto, Wakeup
  <1>9. ASSUME NEW w \in Workers, ~NotifyOne(v), ~Pop(v),
               queue[w] # <<>> \/ accPc[w] = "popped"
        PROVE  queue'[w] # <<>> \/ accPc'[w] = "popped"
    <2>1. UNCHANGED queue
      <3>1. ~DrainPop(v) /\ ~Crash(v) /\ ~DropReceiver(v)
        BY DEF DrainPop, Crash, DropReceiver, HealthInv, HealthyWorker
      <3> QED
        BY <1>9, <3>1
        DEF outsideVars, AccumulatorProgress, IncrementLen, Exit, BatchTimeout,
            JobClosed, CheckPredictor, DrainDone, Ready, Reserve, ReserveClosed,
            CheckAgain, Send, ResetBatchLen, GuardSetDead, GuardNotify,
            HookPanic, ThreadProgress, TakeBatch, JobsClosed, PredictReturns,
            FailBatch, FlushBatch, RebuildSucceeds, RebuildGivesUp, SetAlive,
            NotifyAlive, SetDead, NotifyDead, DropJobReceiver, PredictPanics,
            ThreadHookPanic
    <2>2. accPc[w] = "popped" => accPc'[w] = "popped"
      BY <1>9
      DEF Goto, accVars, outsideVars, AccumulatorProgress, IncrementLen, Exit,
          BatchTimeout, JobClosed, CheckPredictor, DrainPop, DrainDone, Ready,
          Reserve, ReserveClosed, CheckAgain, Send, ResetBatchLen, Crash,
          GuardSetDead, GuardNotify, DropReceiver, HookPanic, ThreadProgress,
          TakeBatch, JobsClosed, PredictReturns, FailBatch, FlushBatch,
          RebuildSucceeds, RebuildGivesUp, SetAlive, NotifyAlive, SetDead,
          NotifyDead, DropJobReceiver, PredictPanics, ThreadHookPanic
    <2> QED
      BY <1>9, <2>1, <2>2
  <1> QED
    BY <1>4, <1>5, <1>6, <1>7, <1>8, <1>9 DEF Wakeup

LEMMA NextWakeup ==
  TypeOK /\ HealthInv /\ NotifyInv /\ NoWakeupLost /\ [Next]_vars
    => NoWakeupLost'
PROOF
  <1> SUFFICES ASSUME TypeOK, HealthInv, NotifyInv, NoWakeupLost, [Next]_vars
               PROVE  NoWakeupLost'
    OBVIOUS
  <1>1. CASE DropHandle \/ UNCHANGED vars
    BY <1>1 DEF DropHandle, vars, callVars, notifyVars, workerVars, accVars,
                NoWakeupLost, Walking, InFlight
  <1> QED
    BY <1>1, CallLeavesWakeup, WorkerLeavesWakeup
    DEF Next, CallNext, AccumulatorNext, ThreadNext, Terminated

(* With any number of callers and workers, cancelled or not: in a pool no  *)
(* user code has panicked in, the wakeup a sleeping caller waits for is in *)
(* a queue, with a call that looks for room, or held by a call in flight.  *)
THEOREM WakeupsAreKept ==
  ASSUME Healthy
  PROVE  Spec => []NoWakeupLost
PROOF
  <1>1. Init => NoWakeupLost
    BY DEF Init, NoWakeupLost
  <1>2. TypeOK /\ HealthInv /\ [Next]_vars => HealthInv'
    BY NextHealthInv
  <1> QED
    BY <1>1, <1>2, NextWakeup, InitHealthInv, InitNotifyInv, NextNotifyInv,
       TypeCorrect, PTL
    DEF Spec

(* A caller of a healthy pool is never parked with every worker idle and   *)
(* nobody else under way.                                                  *)
THEOREM NobodyParkedForGood ==
  ASSUME Healthy
  PROVE  Spec => []NobodyLeftParked
PROOF
  <1>1. TypeOK /\ NoWakeupLost => NobodyLeftParked
    BY DEF NoWakeupLost, NobodyLeftParked, AtRest, Walking, InFlight, TypeOK,
           CallTypeOK
  <1> QED
    BY <1>1, WakeupsAreKept, TypeCorrect, PTL

-----------------------------------------------------------------------------
(***************************************************************************)
(* Nobody waits for everybody.  Who waits for a reply has a request in a   *)
(* worker that can go on; who waits for room is kept a wakeup, by such a   *)
(* worker or by a call that can go on or waits for a reply itself.         *)
(***************************************************************************)
ParkedInv == \A c \in Calls : pc[c] = "parked" => note[c] # "none"

LEMMA ParksRegistered ==
  ASSUME TypeOK, NEW c \in Calls, pc'[c] = "parked",
         Begin(c) \/ CallProgress(c) \/ DropFuture(c)
  PROVE  note[c] # "none" /\ UNCHANGED notifyVars
PROOF
  <1> USE DEF TypeOK, CallTypeOK
  <1>1. ASSUME NEW h, NextWorker(c, h) PROVE note[c] # "none" /\ UNCHANGED notifyVars
    BY <1>1 DEF NextWorker, Advance, QueueFull, Finish
  <1>2. CASE ProbePrimary(c) \/ ProbeSecondary(c) \/ ProbePredictor(c)
             \/ IsRebuilding(c)
    BY <1>1, <1>2 DEF ProbePrimary, ProbeSecondary, ProbePredictor, IsRebuilding
  <1>3. CASE PushFull(c) \/ PushClosed(c)
    BY <1>1, <1>3 DEF PushFull, PushClosed
  <1>4. ~(Begin(c) \/ PushSuccess(c) \/ Enable(c) \/ Wake(c) \/ Receive(c)
          \/ DropFuture(c))
    BY DEF Begin, StartWalk, PushSuccess, Enable, Wake, Receive, DropFuture, Finish
  <1> QED
    BY <1>2, <1>3, <1>4 DEF CallProgress

LEMMA NextParkedInv ==
  TypeOK /\ NotifyInv /\ ParkedInv /\ [Next]_vars => ParkedInv'
PROOF
  <1> SUFFICES ASSUME TypeOK, NotifyInv, ParkedInv, [Next]_vars, NEW d \in Calls,
                      pc'[d] = "parked"
               PROVE  note'[d] # "none"
    BY DEF ParkedInv
  <1> USE DEF TypeOK, CallTypeOK, NotifyTypeOK
  <1>1. CASE DropHandle \/ UNCHANGED vars
    BY <1>1 DEF DropHandle, vars, callVars, notifyVars, ParkedInv
  <1>2. ASSUME NEW c \in Calls, Begin(c) \/ CallProgress(c) \/ DropFuture(c)
        PROVE  note'[d] # "none"
    <2>1. CASE c = d
      BY <1>2, <2>1, ParksRegistered DEF notifyVars
    <2>2. CASE c # d
      <3>1. CallSignals(c)
        BY <1>2, CallStepSignals
      <3>2. note[d] # "none"
        BY <2>2, <3>1 DEF CallSignals, ParkedInv
      <3> QED
        BY <2>2, <3>1, <3>2, HeadWaits
        DEF CallSignals, DropNotified, EnableNotified, notifyVars
    <2> QED
      BY <2>1, <2>2
  <1>3. CASE AccumulatorNext \/ ThreadNext
    <2>1. /\ UNCHANGED pc
          /\ UNCHANGED notifyVars \/ notify_one \/ notify_waiters
      BY <1>3, WorkerStepSignals DEF AccumulatorNext, ThreadNext
    <2> QED
      BY <2>1, HeadWaits DEF notifyVars, notify_one, notify_waiters, ParkedInv
  <1> QED
    BY <1>1, <1>2, <1>3 DEF Next, CallNext, Terminated

(* A worker that holds a request, or has just dequeued one, can go on:     *)
(* its accumulator, or else its thread, which runs or has a batch to take. *)
LEMMA HolderMoves ==
  ASSUME BatchTimer = TRUE, TypeOK, HealthInv, ConservationInv, BoundInv,
         HandleAlive, NEW w \in Workers, Held(w) # {} \/ accPc[w] = "popped"
  PROVE  AccumulatorReady(w) \/ ThreadReady(w)
PROOF
  <1>1. accPc[w] # "gone" /\ thPc[w] \in {"recv", "predict"}
    BY DEF HealthInv, HealthyWorker
  <1>2. SUFFICES ASSUME accPc[w] \in {"recv", "reserve"},
                        accPc[w] = "recv" => queue[w] = <<>>,
                        accPc[w] = "reserve" => job[w] # {},
                        thPc[w] = "recv", job[w] = {}
                 PROVE  FALSE
    BY <1>1 DEF AccumulatorReady, ThreadReady
  <1>3. accPc[w] = "recv"
    BY <1>2
  <1>4. ToSet(queue[w]) = {} /\ buffer[w] = {}
    BY <1>2, <1>3, EmptyQueue DEF BoundInv, BufferBound
  <1>5. running[w] = {}
    BY <1>2 DEF ConservationInv, Slots
  <1> QED
    BY <1>2, <1>3, <1>4, <1>5 DEF Held

LEMMA SomebodyCanMove ==
  ASSUME BatchTimer = TRUE, TypeOK, HealthInv, ConservationInv, BoundInv,
         ParkedInv, NoWakeupLost
  PROVE  SomebodyMoves
PROOF
  <1> DEFINE Moving == \/ \E c \in Calls : CallReady(c)
                       \/ \E w \in Workers : AccumulatorReady(w) \/ ThreadReady(w)
  <1> SUFFICES ASSUME NEW c \in Calls, InFlight(c) PROVE Moving
    BY DEF SomebodyMoves
  <1>1. HandleAlive
    BY DEF HandleAlive
  <1>2. ASSUME NEW w \in Workers, Held(w) # {} \/ accPc[w] = "popped"
        PROVE  Moving
    BY <1>1, <1>2, HolderMoves
  <1>3. ASSUME NEW d \in Calls, Walking(d) PROVE Moving
    BY <1>3 DEF CallReady
  <1>4. ASSUME NEW d \in Calls, pc[d] = "await" PROVE Moving
    <2>1. CASE reply[d] # "none"
      BY <1>4, <2>1 DEF CallReady
    <2>2. CASE reply[d] = "none"
      <3>1. PICK w \in Workers : d \in Held(w)
        BY <1>4, <2>2 DEF ConservationInv, Owed, Placed
      <3> QED
        BY <1>2, <3>1
    <2> QED
      BY <2>1, <2>2
  <1>5. ASSUME NEW d \in Calls, pc[d] = "parked", note[d] # "listed" PROVE Moving
    <2>1. note[d] \in {"one", "all", "spent"}
      BY <1>5 DEF ParkedInv, TypeOK, NotifyTypeOK
    <2> QED
      BY <1>5, <2>1 DEF CallReady
  <1>6. CASE pc[c] = "parked" /\ note[c] = "listed"
    <2>1. CASE \E w \in Workers : queue[w] # <<>> \/ accPc[w] = "popped"
      <3>1. PICK w \in Workers : queue[w] # <<>> \/ accPc[w] = "popped"
        BY <2>1
      <3>2. queue[w] # <<>> => Head(queue[w]) \in ToSet(queue[w])
        BY TailSet DEF TypeOK, WorkerTypeOK, ConservationInv, OnePlace
      <3> QED
        BY <1>2, <3>1, <3>2 DEF Held
    <2>2. ASSUME NEW d \in Calls, InFlight(d), note[d] = "one" PROVE Moving
      BY <1>3, <1>4, <1>5, <2>2 DEF InFlight, Walking
    <2> QED
      BY <1>3, <1>6, <2>1, <2>2 DEF NoWakeupLost
  <1> QED
    BY <1>3, <1>4, <1>5, <1>6 DEF InFlight, Walking

(* A pool with a batch timer in which no user code panics has no deadlock, *)
(* whatever its size: while a call is in flight, some call, accumulator or *)
(* thread can go on.  Without the timer it has one (swallowed_wakeup).     *)
THEOREM NobodyIsDeadlocked ==
  ASSUME Healthy, BatchTimer = TRUE
  PROVE  Spec => []SomebodyMoves
PROOF
  <1>1. Init => ParkedInv
    BY DEF Init, ParkedInv
  <1>2. TypeOK /\ HealthInv /\ [Next]_vars => HealthInv'
    BY NextHealthInv
  <1>3. /\ TypeOK /\ HealthInv /\ ConservationInv /\ BoundInv
        /\ ParkedInv /\ NoWakeupLost
        => SomebodyMoves
    BY SomebodyCanMove
  <1> QED
    BY <1>1, <1>2, <1>3, NextParkedInv, InitHealthInv, InitNotifyInv,
       NextNotifyInv, InitBoundInv, NextBoundInv, ConservationHolds,
       WakeupsAreKept, TypeCorrect, PTL
    DEF Spec
=============================================================================
