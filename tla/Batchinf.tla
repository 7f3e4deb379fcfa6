------------------------------ MODULE Batchinf ------------------------------
(***************************************************************************)
(* A running batcher: the request calls, the accumulator of every worker   *)
(* and the inference thread of every worker, interleaved.  A behaviour     *)
(* starts when get_batcher has returned: every predictor is built.         *)
(***************************************************************************)
EXTENDS Calls, Accumulator, InferenceThread

Init ==
  /\ owner = TRUE
  /\ pc = [c \in Calls |-> "idle"]
  /\ reply = [c \in Calls |-> "none"]
  /\ result = [c \in Calls |-> "none"]
  /\ sink = [c \in Calls |-> 0]
  /\ left = [c \in Calls |-> 0]
  /\ pass = [c \in Calls |-> 1]
  /\ hope = [c \in Calls |-> FALSE]
  /\ start = 0
  /\ permit = FALSE
  /\ waiters = <<>>
  /\ note = [c \in Calls |-> "none"]
  /\ status = [w \in Workers |-> "Waiting"]
  /\ batchLen = [w \in Workers |-> 0]
  /\ predictor = [w \in Workers |-> "Alive"]
  /\ queue = [w \in Workers |-> <<>>]
  /\ accPc = [w \in Workers |-> "recv"]
  /\ buffer = [w \in Workers |-> {}]
  /\ job = [w \in Workers |-> {}]
  /\ thPc = [w \in Workers |-> "recv"]
  /\ running = [w \in Workers |-> {}]

CallNext ==
  \/ \E c \in Calls : Begin(c) \/ CallProgress(c) \/ DropFuture(c)
  \/ DropHandle

AccumulatorNext == \E w \in Workers : AccumulatorProgress(w) \/ HookPanic(w)

ThreadNext ==
  \E w \in Workers : ThreadProgress(w) \/ PredictPanics(w) \/ ThreadHookPanic(w)

(* The application is gone and every worker has ended.                     *)
Stopped ==
  /\ ~HandleAlive
  /\ \A w \in Workers : accPc[w] = "gone" /\ thPc[w] = "gone"

Terminated == Stopped /\ UNCHANGED vars

Next == CallNext \/ AccumulatorNext \/ ThreadNext \/ Terminated

(* A runnable task or thread is eventually scheduled, a batch timer fires, *)
(* and predict_batch and the factory return.  Nothing obliges the          *)
(* application to make a call, to drop a future or to drop its handle, nor *)
(* user code to panic.                                                     *)
Fairness ==
  /\ \A c \in Calls : WF_vars(CallProgress(c))
  /\ \A w \in Workers : WF_vars(AccumulatorProgress(w))
  /\ \A w \in Workers : WF_vars(ThreadProgress(w))

Spec     == Init /\ [][Next]_vars
FairSpec == Spec /\ Fairness

-----------------------------------------------------------------------------
(* Every variable holds values of the program's types.                     *)
CallTypeOK ==
  /\ pc \in [Calls -> CallPc]
  /\ reply \in [Calls -> Replies \cup {"none", "Dropped"}]
  /\ result \in [Calls -> Replies \cup Errors \cup {"none"}]
  /\ sink \in [Calls -> Workers]
  /\ left \in [Calls -> 0 .. PoolSize]
  /\ pass \in [Calls -> {1, 2}]
  /\ hope \in [Calls -> BOOLEAN]
  /\ start \in Workers

NotifyTypeOK ==
  /\ permit \in BOOLEAN
  /\ waiters \in Seq(Calls)
  /\ note \in [Calls -> {"none", "listed", "one", "all", "spent"}]

WorkerTypeOK ==
  /\ status \in [Workers -> WorkerStatus]
  /\ batchLen \in [Workers -> Nat]
  /\ predictor \in [Workers -> PredictorStatus]
  /\ queue \in [Workers -> Seq(Calls)]
  /\ accPc \in [Workers -> AccPc]
  /\ buffer \in [Workers -> SUBSET Calls]
  /\ job \in [Workers -> SUBSET Calls]
  /\ thPc \in [Workers -> ThPc]
  /\ running \in [Workers -> SUBSET Calls]

TypeOK == owner \in BOOLEAN /\ CallTypeOK /\ NotifyTypeOK /\ WorkerTypeOK

-----------------------------------------------------------------------------
(***************************************************************************)
(* Safety.                                                                 *)
(***************************************************************************)

(* Where a request can be: <<place, worker, position>>.                    *)
Places(c) ==
  (UNION {{<<"queue", w, i>> : i \in {j \in DOMAIN queue[w] : queue[w][j] = c}}
            : w \in Workers})
  \cup {<<"buffer", w, 0>> : w \in {v \in Workers : c \in buffer[v]}}
  \cup {<<"job", w, 0>> : w \in {v \in Workers : c \in job[v]}}
  \cup {<<"running", w, 0>> : w \in {v \in Workers : c \in running[v]}}

(* No request is lost and none is duplicated on its way through channel,   *)
(* accumulator, job channel and inference thread, whatever panics, drains, *)
(* flushes and worker deaths happen: a caller that waits for a reply has   *)
(* its request in exactly one place, and an answered, refused or not yet   *)
(* queued one in none.                                                     *)
RequestConservation ==
  \A c \in Calls :
    /\ \A p, q \in Places(c) : p = q
    /\ pc[c] = "await" => (reply[c] = "none") = (Places(c) # {})
    /\ pc[c] \notin {"await", "done"} => Places(c) = {} /\ reply[c] = "none"

(* predict_batch never gets more than batch_size inputs (the promise at    *)
(* the end of Predictor's documentation), although a drain of the channel  *)
(* fills the same buffer without a limit.                                  *)
BatchBound ==
  \A w \in Workers : /\ Cardinality(job[w]) <= BatchSize
                     /\ Cardinality(running[w]) <= BatchSize

(* What pool_status shows of a worker: the length never exceeds the batch  *)
(* size, and while a batch is collected it counts the requests in it, also *)
(* right after a flush or a rebuild.                                       *)
SnapshotHonest ==
  \A w \in Workers :
    /\ batchLen[w] <= BatchSize
    /\ accPc[w] \in {"recv", "collect"} =>
         /\ status[w] = "Waiting"
         /\ batchLen[w] = Cardinality(buffer[w])

(* A worker is marked Crashed only once its inference thread has gone and  *)
(* its predictor is Dead (WorkerStatus::Crashed), so a Crashed worker has  *)
(* no caller left whose request it still holds.                            *)
CrashedMeansDead ==
  \A w \in Workers :
    status[w] = "Crashed" => /\ predictor[w] = "Dead"
                             /\ thPc[w] = "gone"
                             /\ queue[w] = <<>> /\ job[w] = {}
                             /\ buffer[w] = {}

(* An inference thread ends only after the last handle is dropped or with  *)
(* its predictor marked Dead, so the router stops choosing the worker of a *)
(* thread that has ended early.                                            *)
ThreadOutlivesHandles ==
  \A w \in Workers : thPc[w] = "gone" => predictor[w] = "Dead" \/ ~HandleAlive

(* A pool no user code has panicked in serves everybody: nobody gets an    *)
(* error that blames the pool, not even around shutdown.                   *)
HealthyPoolServes ==
  \A c \in Calls :
    result[c] \notin {"InternalError", "NoAvailableWorkersError"}

(* NoAvailableWorkersError: "all workers have exited or crashed".          *)
NoAvailableMeansAllStopped ==
  \A c \in Calls : result[c] = "NoAvailableWorkersError" =>
    \A w \in Workers : predictor[w] = "Dead" \/ status[w] \in {"Exit", "Crashed"}

(* A batch that went into a job channel nobody reads any more.             *)
Stranded(c) == \E w \in Workers : c \in job[w] /\ thPc[w] = "gone"

(* A worker leaves no request where nobody will look at it: an accumulator *)
(* that has ended none in its channel or its batch, a thread that has      *)
(* ended none in its hands.  A batch can be stranded in the job channel    *)
(* only behind a Dead predictor, and only until the accumulator ends too.  *)
NothingLeftBehind ==
  \A w \in Workers :
    /\ accPc[w] = "gone" => queue[w] = <<>> /\ buffer[w] = {}
    /\ thPc[w] = "gone" => running[w] = {}
    /\ thPc[w] = "gone" /\ job[w] # {} => /\ predictor[w] = "Dead"
                                         /\ accPc[w] # "gone"

(* When the last predictor dies everybody who waits for room is told, also *)
(* who registered or looked for room in between: nobody sleeps on a pool   *)
(* in which every predictor is Dead and every death has been announced.    *)
DeathIsTold ==
  \A c \in Calls : pc[c] = "parked" /\ note[c] = "listed" =>
    \E w \in Workers : \/ predictor[w] # "Dead"
                       \/ thPc[w] = "notify_dead"
                       \/ accPc[w] = "notify_waiters"

(* The wakeup a sleeping caller waits for is not lost: a request is queued *)
(* whose dequeue will notify, or has just been dequeued; or a call is      *)
(* looking for room, and will queue a request or find a queue full; or a   *)
(* call in flight holds a notify_one, and uses it or hands it on when it   *)
(* ends.  This says where the wakeup is, not that it arrives: a call that  *)
(* awaits its own reply keeps a notify_one for as long as that takes.      *)
Walking(c) == pc[c] \notin {"idle", "parked", "await", "done"}

NoWakeupLost ==
  (\E c \in Calls : pc[c] = "parked" /\ note[c] = "listed") =>
    \/ \E w \in Workers : queue[w] # <<>> \/ accPc[w] = "popped"
    \/ \E c \in Calls : Walking(c) \/ (InFlight(c) /\ note[c] = "one")

(* Which actors can go on by themselves: the program points at which a     *)
(* call, an accumulator or a thread is not blocked on somebody else.       *)
CallReady(c) ==
  \/ Walking(c)
  \/ pc[c] = "parked" /\ note[c] \in {"one", "all", "spent"}
  \/ pc[c] = "await" /\ reply[c] # "none"

AccumulatorReady(w) ==
  \/ accPc[w] \notin {"recv", "collect", "reserve", "gone"}
  \/ accPc[w] \in {"recv", "collect"} /\ (queue[w] # <<>> \/ ~HandleAlive)
  \/ accPc[w] = "collect" /\ (BatchTimer \/ ~JobReceiverAlive(w))
  \/ accPc[w] = "reserve" /\ (job[w] = {} \/ ~JobReceiverAlive(w))

ThreadReady(w) ==
  \/ thPc[w] \notin {"recv", "gone"}
  \/ thPc[w] = "recv" /\ (job[w] # {} \/ ~JobSenderAlive(w))

(* Callers that wait for room or for a reply, accumulators that wait for a *)
(* slot of the job channel and threads that wait for a batch never all     *)
(* wait on each other: as long as a call is in flight, somebody can go on. *)
(* This is of a pool with a batch timer, in which no user code panics.     *)
SomebodyMoves ==
  (\E c \in Calls : InFlight(c)) =>
    \/ \E c \in Calls : CallReady(c)
    \/ \E w \in Workers : AccumulatorReady(w) \/ ThreadReady(w)

(* A caller waits for room only while there is none or somebody is about   *)
(* to tell it ("this waits until one does: a queued request is picked up,  *)
(* or a worker finishes rebuilding"): with every worker idle and every     *)
(* other call at rest, nobody would ever wake it.                          *)
AtRest(w) == accPc[w] = "recv" /\ queue[w] = <<>>
             /\ thPc[w] = "recv" /\ job[w] = {}

NobodyLeftParked ==
  (/\ \A w \in Workers : AtRest(w) /\ can_accept_primary(w)
   /\ \A c \in Calls : pc[c] \in {"idle", "done"}
                         \/ (pc[c] = "parked" /\ note[c] = "listed"))
     => \A c \in Calls : pc[c] # "parked"

(* An accumulator whose panic guard has run, and that is therefore not     *)
(* marked Crashed.                                                         *)
Unwound(w) ==
  /\ HooksPanic
  /\ accPc[w] \in {"notify_waiters", "drop_receiver", "gone"}
  /\ status[w] = "Running"

-----------------------------------------------------------------------------
(***************************************************************************)
(* The inductive invariants behind the safety properties above.            *)
(***************************************************************************)

(* A thread past SetDead has its predictor Dead, until it has gone; and it *)
(* goes without that only after its job sender was dropped.                *)
ThreadEnd(w) ==
  /\ thPc[w] \in {"notify_dead", "drop_receiver"} => predictor[w] = "Dead"
  /\ thPc[w] = "gone" => predictor[w] = "Dead" \/ ~JobSenderAlive(w)

(* The accumulator stops for want of a thread only when there is none, and *)
(* leaves nothing behind.                                                  *)
WorkerEnd(w) ==
  /\ accPc[w] = "dead" => thPc[w] = "gone" /\ buffer[w] = {}
  /\ status[w] = "Crashed" => /\ accPc[w] = "gone"
                              /\ thPc[w] = "gone"
                              /\ predictor[w] = "Dead"
                              /\ queue[w] = <<>> /\ job[w] = {}
                              /\ buffer[w] = {}

CrashInv == \A w \in Workers : ThreadEnd(w) /\ WorkerEnd(w)

(* With no hook panicking, an accumulator ends after the last handle, or   *)
(* after its thread died.                                                  *)
OrderlyEnd(w) ==
  /\ accPc[w] \notin {"set_dead", "notify_waiters", "drop_receiver"}
  /\ accPc[w] = "gone" => \/ ~HandleAlive
                          \/ thPc[w] = "gone" /\ predictor[w] = "Dead"

OrderInv == \A w \in Workers : OrderlyEnd(w)

(* Dead is written by a thread on its way out, or by the panic guard of an *)
(* accumulator that unwinds; that one leaves its status Running.           *)
DeadInv ==
  \A w \in Workers :
    /\ predictor[w] = "Dead" =>
         thPc[w] \in {"notify_dead", "drop_receiver", "gone"} \/ Unwound(w)
    /\ accPc[w] \in {"set_dead", "notify_waiters", "drop_receiver"} =>
         HooksPanic /\ status[w] = "Running"

(* How full the accumulator's buffer can be; only a drain has no limit.    *)
BufferBound(w) ==
  /\ accPc[w] \in {"recv", "sent"} => buffer[w] = {}
  /\ accPc[w] = "collect" => Cardinality(buffer[w]) < BatchSize
  /\ accPc[w] \in {"popped", "notified", "check", "ready", "reserve", "permit",
                   "send"} => Cardinality(buffer[w]) <= BatchSize

BoundInv == BatchBound /\ \A w \in Workers : BufferBound(w)

-----------------------------------------------------------------------------
(***************************************************************************)
(* Action properties.                                                      *)
(***************************************************************************)

(* A Dead predictor comes back only behind an accumulator that a hook's    *)
(* panic has unwound: the guard's Dead may be overwritten by a thread that *)
(* finishes a rebuild.  Wherever an accumulator still runs, ends normally  *)
(* or crashes, Dead is final.                                              *)
DeadIsFinal ==
  [][\A w \in Workers : predictor[w] = "Dead" =>
        predictor'[w] = "Dead" \/ Unwound(w)]_vars

-----------------------------------------------------------------------------
(***************************************************************************)
(* What all of it is for: the service a caller sees.  A call that has not  *)
(* been queued is looking for room, and a oneshot whose sender went away   *)
(* reads as InternalError.                                                 *)
(***************************************************************************)
PhaseOf(p) == CASE p = "idle"  -> "new"
                [] p = "await" -> "queued"
                [] p = "done"  -> "done"
                [] OTHER       -> "looking"

AnswerOf(r) == IF r = "Dropped" THEN "InternalError" ELSE r

PhaseSeen  == [c \in Calls |-> PhaseOf(pc[c])]
AnswerSeen == [c \in Calls |-> AnswerOf(reply[c])]

Service == INSTANCE BatchService WITH
  UserCodePanics <- PredictorPanics \/ HooksPanic,
  phase          <- PhaseSeen,
  answer         <- AnswerSeen

(* Router, channels, drains, flushes, rebuilds and cancellation together   *)
(* give every caller and every predictor what BatchService promises.       *)
ServiceKept == Service!Spec

-----------------------------------------------------------------------------
(***************************************************************************)
(* Liveness, under Fairness.                                               *)
(***************************************************************************)

(* Every call ends.                                                        *)
EveryCallEnds == \A c \in Calls : InFlight(c) ~> pc[c] = "done"

(* A queued request is answered.                                           *)
QueuedAnswered == \A c \in Calls : pc[c] = "await" ~> pc[c] = "done"

(* A queued request is answered, whatever the worker goes through, unless  *)
(* its batch was sent after the inference thread had gone.                 *)
AnsweredUnlessStranded ==
  \A c \in Calls : pc[c] = "await" ~> pc[c] = "done" \/ Stranded(c)

(* A caller that waits for room gets on.                                   *)
WaiterProceeds == \A c \in Calls : pc[c] = "parked" ~> pc[c] # "parked"

(* When the last predictor dies, everybody who waits for room is told.     *)
NobodyWaitsOnDeadPool ==
  \A c \in Calls : (pc[c] = "parked" /\ \A w \in Workers : predictor[w] = "Dead")
                     ~> pc[c] = "done"

(* Once the last handle is dropped, every accumulator and every inference  *)
(* thread ends, and a ShutdownWaiter resolves, also in mid rebuild.        *)
ShutdownCompletes == ~HandleAlive ~> Stopped
=============================================================================
