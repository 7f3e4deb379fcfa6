------------------------------- MODULE Calls -------------------------------
(***************************************************************************)
(* The request methods of the public handle (batcher/mod.rs) and the       *)
(* router they call (pool/mod.rs).  A call walks the pool in try_push: the *)
(* reads it makes of a worker and the send it then tries are separate      *)
(* steps, since nothing holds the worker still in between.                 *)
(*                                                                         *)
(* A pool of one worker has its own branch in the code; it does exactly    *)
(* what the second pass does over that worker, so such a call starts in    *)
(* pass 2 and leaves the round-robin counter alone.                        *)
(***************************************************************************)
EXTENDS BatchinfState

workerVars == <<wordVars, predictor, queue, accVars, job, thVars>>

(* Return r to the caller: the future's locals are dropped with it.        *)
Finish(c, r) ==
  /\ pc' = [pc EXCEPT ![c] = "done"]
  /\ result' = [result EXCEPT ![c] = r]
  /\ sink' = [sink EXCEPT ![c] = 0]
  /\ left' = [left EXCEPT ![c] = 0]
  /\ pass' = [pass EXCEPT ![c] = 1]
  /\ hope' = [hope EXCEPT ![c] = FALSE]
  /\ UNCHANGED <<reply, start>>
  /\ DropNotified(c)

(* The first step of try_push: pick where the walk starts.                 *)
StartWalk(c) ==
  /\ pc' = [pc EXCEPT ![c] = "probe"]
  /\ left' = [left EXCEPT ![c] = PoolSize]
  /\ hope' = [hope EXCEPT ![c] = FALSE]
  /\ sink' = [sink EXCEPT ![c] = IF PoolSize = 1 THEN 0 ELSE start]
  /\ pass' = [pass EXCEPT ![c] = IF PoolSize = 1 THEN 2 ELSE 1]
  /\ start' = IF PoolSize = 1 THEN start ELSE (start + 1) % PoolSize
  /\ UNCHANGED <<reply, result>>

(* Mutant: predict gives up when the try after registering fails.          *)
QueueFullGivesUp(c) ==
  IF c \in TryCalls \/ note[c] # "none"
  THEN Finish(c, "QueueFullError")
  ELSE /\ pc' = [pc EXCEPT ![c] = "enable"]
       /\ UNCHANGED <<reply, result, sink, left, pass, hope, start, notifyVars>>

(* predict waits where the fail-fast methods give up: it registers and     *)
(* tries again, and only when that try fails too does it suspend.          *)
QueueFull(c) ==
  IF c \in TryCalls
  THEN Finish(c, "QueueFullError")
  ELSE /\ pc' = [pc EXCEPT ![c] = IF note[c] = "none" THEN "enable"
                                                      ELSE "parked"]
       /\ UNCHANGED <<reply, result, sink, left, pass, hope, start, notifyVars>>

(* Mutant: the walk does not wrap around the end of the pool.              *)
AdvanceNoWrap(c, h) ==
  /\ left[c] > 1 \/ pass[c] = 1
  /\ pc' = [pc EXCEPT ![c] = "probe"]
  /\ sink' = [sink EXCEPT ![c] = @ + 1]
  /\ left' = [left EXCEPT ![c] = IF @ > 1 THEN @ - 1 ELSE PoolSize]
  /\ pass' = [pass EXCEPT ![c] = IF left[c] > 1 THEN @ ELSE 2]
  /\ hope' = [hope EXCEPT ![c] = h]
  /\ UNCHANGED <<reply, result, start, notifyVars>>

(* On to the next worker of the pass, or to the second pass.               *)
Advance(c, h) ==
  /\ left[c] > 1 \/ pass[c] = 1
  /\ pc' = [pc EXCEPT ![c] = "probe"]
  /\ sink' = [sink EXCEPT ![c] = (@ + 1) % PoolSize]
  /\ left' = [left EXCEPT ![c] = IF @ > 1 THEN @ - 1 ELSE PoolSize]
  /\ pass' = [pass EXCEPT ![c] = IF left[c] > 1 THEN @ ELSE 2]
  /\ hope' = [hope EXCEPT ![c] = h]
  /\ UNCHANGED <<reply, result, start, notifyVars>>

(* The rest of the loop body: the walk goes on, or ends with the error     *)
(* that h, the value of `hope` with this worker in it, calls for.          *)
NextWorker(c, h) ==
  \/ Advance(c, h)
  \/ left[c] = 1 /\ pass[c] = 2 /\ h /\ QueueFull(c)
  \/ left[c] = 1 /\ pass[c] = 2 /\ ~h /\ Finish(c, "NoAvailableWorkersError")

-----------------------------------------------------------------------------
Begin(c) ==
  /\ owner
  /\ pc[c] = "idle"
  /\ StartWalk(c)
  /\ UNCHANGED <<owner, notifyVars, workerVars>>

(* can_accept_primary and can_accept_secondary take a snapshot, which      *)
(* loads the status word first and the predictor's status after it.  A     *)
(* word that rules the worker out makes the second load irrelevant.        *)
ProbePrimary(c) ==
  /\ pc[c] = "probe" /\ pass[c] = 1
  /\ \/ /\ WordAcceptsPrimary(sink[c])
        /\ pc' = [pc EXCEPT ![c] = "probe_predictor"]
        /\ UNCHANGED <<reply, result, sink, left, pass, hope, start, notifyVars>>
     \/ /\ ~WordAcceptsPrimary(sink[c])
        /\ NextWorker(c, hope[c])
  /\ UNCHANGED <<owner, workerVars>>

ProbeSecondary(c) ==
  /\ pc[c] = "probe" /\ pass[c] = 2
  /\ pc' = [pc EXCEPT ![c] = IF WordAcceptsSecondary(sink[c])
                             THEN "probe_predictor" ELSE "is_rebuilding"]
  /\ UNCHANGED <<owner, reply, result, sink, left, pass, hope, start,
                 notifyVars, workerVars>>

ProbePredictor(c) ==
  /\ pc[c] = "probe_predictor"
  /\ \/ /\ predictor[sink[c]] = "Alive" \/ pass[c] = 2
        /\ pc' = [pc EXCEPT ![c] = IF predictor[sink[c]] = "Alive"
                                   THEN "push" ELSE "is_rebuilding"]
        /\ UNCHANGED <<reply, result, sink, left, pass, hope, start, notifyVars>>
     \/ /\ predictor[sink[c]] # "Alive" /\ pass[c] = 1
        /\ NextWorker(c, hope[c])
  /\ UNCHANGED <<owner, workerVars>>

IsRebuilding(c) ==
  /\ pc[c] = "is_rebuilding"
  /\ NextWorker(c, hope[c] \/ is_rebuilding(sink[c]))
  /\ UNCHANGED <<owner, workerVars>>

-----------------------------------------------------------------------------
(* WorkerRef::push on the worker the walk stands at.                       *)
Refuses(w) == status[w] \in {"Exit", "Crashed"} \/ ~ReceiverAlive(w)
Full(w)    == Len(queue[w]) >= QueueSize

PushSuccess(c) ==
  /\ pc[c] = "push"
  /\ ~Refuses(sink[c]) /\ ~Full(sink[c])
  /\ queue' = [queue EXCEPT ![sink[c]] = Append(@, c)]
  /\ pc' = [pc EXCEPT ![c] = "await"]
  /\ sink' = [sink EXCEPT ![c] = 0]
  /\ left' = [left EXCEPT ![c] = 0]
  /\ pass' = [pass EXCEPT ![c] = 1]
  /\ hope' = [hope EXCEPT ![c] = FALSE]
  /\ UNCHANGED <<owner, reply, result, start, notifyVars, wordVars, predictor,
                 accVars, job, thVars>>

(* Mutant: has_live_worker is not set when a live worker's queue is full.  *)
PushFullNotLive(c) ==
  /\ pc[c] = "push"
  /\ ~Refuses(sink[c]) /\ Full(sink[c])
  /\ NextWorker(c, hope[c])
  /\ UNCHANGED <<owner, workerVars>>

PushFull(c) ==
  /\ pc[c] = "push"
  /\ ~Refuses(sink[c]) /\ Full(sink[c])
  /\ NextWorker(c, hope[c] \/ pass[c] = 2)
  /\ UNCHANGED <<owner, workerVars>>

PushClosed(c) ==
  /\ pc[c] = "push"
  /\ Refuses(sink[c])
  /\ NextWorker(c, hope[c])
  /\ UNCHANGED <<owner, workerVars>>

-----------------------------------------------------------------------------
(* Mutant: predict suspends without trying again after it registered.      *)
EnableNoRetry(c) ==
  /\ pc[c] = "enable"
  /\ EnableNotified(c)
  /\ pc' = [pc EXCEPT ![c] = "parked"]
  /\ UNCHANGED <<owner, reply, result, sink, left, pass, hope, start, workerVars>>

(* The loop of predict: register, then try once more.                      *)
Enable(c) ==
  /\ pc[c] = "enable"
  /\ EnableNotified(c)
  /\ StartWalk(c)
  /\ UNCHANGED <<owner, workerVars>>

(* The registered Notified completes and the loop starts over.             *)
Wake(c) ==
  /\ pc[c] = "parked"
  /\ note[c] \in {"one", "all", "spent"}
  /\ note' = [note EXCEPT ![c] = "none"]
  /\ pc' = [pc EXCEPT ![c] = "enable"]
  /\ UNCHANGED <<owner, reply, result, sink, left, pass, hope, start, permit,
                 waiters, workerVars>>

(* rx.await: a dropped sender reads as InternalError.  The Notified of the *)
(* loop iteration that queued the request is still alive until here.       *)
Receive(c) ==
  /\ pc[c] = "await"
  /\ reply[c] # "none"
  /\ Finish(c, IF reply[c] = "Dropped" THEN "InternalError" ELSE reply[c])
  /\ UNCHANGED <<owner, workerVars>>

(* The deadline of predict_with_timeout, or the future simply dropped, at  *)
(* one of the two points where it is suspended.                            *)
DropFuture(c) ==
  /\ c \in DroppableCalls
  /\ pc[c] = "await" \/ (pc[c] = "parked" /\ note[c] # "spent")
  /\ Finish(c, "TimeoutError")
  /\ UNCHANGED <<owner, workerVars>>

(* The application drops its own handle.                                   *)
DropHandle ==
  /\ owner
  /\ owner' = FALSE
  /\ UNCHANGED <<callVars, notifyVars, workerVars>>

-----------------------------------------------------------------------------
CallProgress(c) ==
  \/ ProbePrimary(c) \/ ProbeSecondary(c) \/ ProbePredictor(c)
  \/ IsRebuilding(c)
  \/ PushSuccess(c) \/ PushFull(c) \/ PushClosed(c)
  \/ Enable(c) \/ Wake(c) \/ Receive(c)
=============================================================================
