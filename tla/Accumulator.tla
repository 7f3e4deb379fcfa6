---------------------------- MODULE Accumulator ----------------------------
(***************************************************************************)
(* The accumulator task of a worker (worker/mod.rs): it pulls requests off *)
(* the worker's channel into a batch, and hands the batch to the inference *)
(* thread through the depth-1 job channel.                                 *)
(*                                                                         *)
(* accPc[w] says where worker_loop is:                                     *)
(*   recv      waiting for the first request of a batch                    *)
(*   popped    a request was received, notify_one comes next               *)
(*   notified  increment_len comes next                                    *)
(*   collect   in the select! loop                                         *)
(*   check     check_predictor_alive reads the predictor's state           *)
(*   drain     handle_crashed_inf empties the channel and fails the batch  *)
(*   ready     the batch is closed, the status becomes Running             *)
(*   reserve   waiting for a slot of the job channel                       *)
(*   permit    the slot is taken, the predictor's state is read again      *)
(*   send      permit.send comes next                                      *)
(*   sent      reset_batch_len comes next                                  *)
(*   dead      reserve failed: the inference thread is gone                *)
(*   set_dead, notify_waiters, drop_receiver                               *)
(*             unwinding: the panic guard, then the request receiver       *)
(***************************************************************************)
EXTENDS BatchinfState

Goto(w, l) == accPc' = [accPc EXCEPT ![w] = l]
Empty(w)   == buffer' = [buffer EXCEPT ![w] = {}]

(* set_worker_state keeps the length bits.                                 *)
set_worker_state(w, s) ==
  /\ status' = [status EXCEPT ![w] = s]
  /\ UNCHANGED batchLen

(* The task's frame is dropped: everything it holds, and what is left in a *)
(* job channel whose receiver went first.                                  *)
DropFrame(w, S) ==
  /\ DropSenders(S \cup buffer[w] \cup FreedJob(w))
  /\ Empty(w)
  /\ job' = [job EXCEPT ![w] = @ \ FreedJob(w)]

(* What no step of an accumulator changes.                                 *)
othersVars == <<owner, pc, result, sink, left, pass, hope, start, thVars>>

-----------------------------------------------------------------------------
(***************************************************************************)
(* Accumulating a batch.                                                   *)
(***************************************************************************)
Pop(w) ==
  /\ accPc[w] \in {"recv", "collect"}
  /\ queue[w] # <<>>
  /\ queue' = [queue EXCEPT ![w] = Tail(@)]
  /\ buffer' = [buffer EXCEPT ![w] = @ \cup {Head(queue[w])}]
  /\ Goto(w, "popped")
  /\ UNCHANGED <<othersVars, reply, notifyVars, wordVars, predictor, job>>

(* Mutant: the slot is freed and nobody is told.                           *)
NotifyOneForgotten(w) ==
  /\ accPc[w] = "popped"
  /\ Goto(w, "notified")
  /\ UNCHANGED <<othersVars, reply, notifyVars, wordVars, predictor, queue,
                 buffer, job>>

NotifyOne(w) ==
  /\ accPc[w] = "popped"
  /\ notify_one
  /\ Goto(w, "notified")
  /\ UNCHANGED <<othersVars, reply, wordVars, predictor, queue, buffer, job>>

(* Mutant: the batch triggers one request too late.                        *)
IncrementLenLate(w) ==
  /\ accPc[w] = "notified"
  /\ batchLen' = [batchLen EXCEPT ![w] = @ + 1]
  /\ Goto(w, IF Cardinality(buffer[w]) > BatchSize THEN "check" ELSE "collect")
  /\ UNCHANGED status
  /\ UNCHANGED <<othersVars, reply, notifyVars, predictor, queue, buffer, job>>

IncrementLen(w) ==
  /\ accPc[w] = "notified"
  /\ batchLen' = [batchLen EXCEPT ![w] = @ + 1]
  /\ Goto(w, IF Cardinality(buffer[w]) = BatchSize THEN "check" ELSE "collect")
  /\ UNCHANGED status
  /\ UNCHANGED <<othersVars, reply, notifyVars, predictor, queue, buffer, job>>

(* recv() returns None: every handle is gone and the channel is empty.     *)
Exit(w) ==
  /\ accPc[w] \in {"recv", "collect"}
  /\ queue[w] = <<>>
  /\ ~HandleAlive
  /\ set_worker_state(w, "Exit")
  /\ DropFrame(w, {})
  /\ Goto(w, "gone")
  /\ UNCHANGED <<othersVars, notifyVars, predictor, queue>>

BatchTimeout(w) ==
  /\ BatchTimer
  /\ accPc[w] = "collect"
  /\ Goto(w, "check")
  /\ UNCHANGED <<othersVars, reply, notifyVars, wordVars, predictor, queue,
                 buffer, job>>

(* job_tx.closed(), which only the select! loop listens to.                *)
JobClosed(w) ==
  /\ accPc[w] = "collect"
  /\ ~JobReceiverAlive(w)
  /\ Goto(w, "check")
  /\ UNCHANGED <<othersVars, reply, notifyVars, wordVars, predictor, queue,
                 buffer, job>>

-----------------------------------------------------------------------------
(***************************************************************************)
(* check_predictor_alive and handle_crashed_inf.                           *)
(***************************************************************************)
CheckPredictor(w) ==
  /\ accPc[w] = "check"
  /\ Goto(w, IF predictor[w] = "Alive" THEN "ready" ELSE "drain")
  /\ UNCHANGED <<othersVars, reply, notifyVars, wordVars, predictor, queue,
                 buffer, job>>

DrainPop(w) ==
  /\ accPc[w] = "drain"
  /\ queue[w] # <<>>
  /\ queue' = [queue EXCEPT ![w] = Tail(@)]
  /\ buffer' = [buffer EXCEPT ![w] = @ \cup {Head(queue[w])}]
  /\ Goto(w, "drain")
  /\ UNCHANGED <<othersVars, reply, notifyVars, wordVars, predictor, job>>

(* Mutant: the batch is not failed, and stays in the buffer.               *)
DrainDoneNoReply(w) ==
  /\ accPc[w] = "drain"
  /\ queue[w] = <<>>
  /\ Goto(w, "sent")
  /\ UNCHANGED <<othersVars, reply, notifyVars, wordVars, predictor, queue,
                 buffer, job>>

DrainDone(w) ==
  /\ accPc[w] = "drain"
  /\ queue[w] = <<>>
  /\ Answer(buffer[w], "InternalError")
  /\ Empty(w)
  /\ Goto(w, "sent")
  /\ UNCHANGED <<othersVars, notifyVars, wordVars, predictor, queue, job>>

-----------------------------------------------------------------------------
(***************************************************************************)
(* Handing the batch over: run_inference and the loop around it.           *)
(***************************************************************************)
Ready(w) ==
  /\ accPc[w] = "ready"
  /\ set_worker_state(w, "Running")
  /\ Goto(w, "reserve")
  /\ UNCHANGED <<othersVars, reply, notifyVars, predictor, queue, buffer, job>>

Reserve(w) ==
  /\ accPc[w] = "reserve"
  /\ JobReceiverAlive(w)
  /\ job[w] = {}
  /\ Goto(w, "permit")
  /\ UNCHANGED <<othersVars, reply, notifyVars, wordVars, predictor, queue,
                 buffer, job>>

ReserveClosed(w) ==
  /\ accPc[w] = "reserve"
  /\ ~JobReceiverAlive(w)
  /\ DropSenders(buffer[w])
  /\ Empty(w)
  /\ Goto(w, "dead")
  /\ UNCHANGED <<othersVars, notifyVars, wordVars, predictor, queue, job>>

(* Mutant: a predictor that is not Alive is taken for a dead thread.       *)
CheckAgainDead(w) ==
  /\ accPc[w] = "permit"
  /\ Goto(w, IF predictor[w] = "Alive" THEN "send" ELSE "dead")
  /\ UNCHANGED <<othersVars, reply, notifyVars, wordVars, predictor, queue,
                 buffer, job>>

CheckAgain(w) ==
  /\ accPc[w] = "permit"
  /\ Goto(w, IF predictor[w] = "Alive" THEN "send" ELSE "drain")
  /\ UNCHANGED <<othersVars, reply, notifyVars, wordVars, predictor, queue,
                 buffer, job>>

(* A permit outlives the receiver: the batch then goes into a channel that *)
(* nobody reads any more, and stays there until its sender is dropped.     *)
Send(w) ==
  /\ accPc[w] = "send"
  /\ job' = [job EXCEPT ![w] = buffer[w]]
  /\ Empty(w)
  /\ Goto(w, "sent")
  /\ UNCHANGED <<othersVars, reply, notifyVars, wordVars, predictor, queue>>

(* Mutant: only the status is reset.                                       *)
ResetBatchLenKeepsLen(w) ==
  /\ accPc[w] = "sent"
  /\ set_worker_state(w, "Waiting")
  /\ Goto(w, "recv")
  /\ UNCHANGED <<othersVars, reply, notifyVars, predictor, queue, buffer, job>>

(* reset_batch_len stores 0: the length and the status, Waiting.           *)
ResetBatchLen(w) ==
  /\ accPc[w] = "sent"
  /\ batchLen' = [batchLen EXCEPT ![w] = 0]
  /\ status' = [status EXCEPT ![w] = "Waiting"]
  /\ Goto(w, "recv")
  /\ UNCHANGED <<othersVars, reply, notifyVars, predictor, queue, buffer, job>>

(* The worker stops: its request receiver goes with the task.              *)
Crash(w) ==
  /\ accPc[w] = "dead"
  /\ set_worker_state(w, "Crashed")
  /\ DropFrame(w, ToSet(queue[w]))
  /\ queue' = [queue EXCEPT ![w] = <<>>]
  /\ Goto(w, "gone")
  /\ UNCHANGED <<othersVars, notifyVars, predictor>>

-----------------------------------------------------------------------------
(***************************************************************************)
(* A metrics hook panics: emit_queue_depth before the batch is handed over *)
(* or after a flush, emit_batch_start, emit_empty_queue.  The hooks all    *)
(* run while the status is Running.  Unwinding drops the batch and the job *)
(* sender, then runs the panic guard, then drops the request receiver.     *)
(***************************************************************************)
HookPanic(w) ==
  /\ HooksPanic
  /\ accPc[w] \in {"reserve", "sent", "dead"}
  /\ status[w] = "Running"
  /\ DropFrame(w, {})
  /\ Goto(w, "set_dead")
  /\ UNCHANGED <<othersVars, notifyVars, wordVars, predictor, queue>>

GuardSetDead(w) ==
  /\ accPc[w] = "set_dead"
  /\ predictor' = [predictor EXCEPT ![w] = "Dead"]
  /\ Goto(w, "notify_waiters")
  /\ UNCHANGED <<othersVars, reply, notifyVars, wordVars, queue, buffer, job>>

GuardNotify(w) ==
  /\ accPc[w] = "notify_waiters"
  /\ notify_waiters
  /\ Goto(w, "drop_receiver")
  /\ UNCHANGED <<othersVars, reply, wordVars, predictor, queue, buffer, job>>

(* Mutant: the requests in the channel outlive its receiver.               *)
DropReceiverOnly(w) ==
  /\ accPc[w] = "drop_receiver"
  /\ Goto(w, "gone")
  /\ UNCHANGED <<othersVars, reply, notifyVars, wordVars, predictor, queue,
                 buffer, job>>

DropReceiver(w) ==
  /\ accPc[w] = "drop_receiver"
  /\ DropSenders(ToSet(queue[w]))
  /\ queue' = [queue EXCEPT ![w] = <<>>]
  /\ Goto(w, "gone")
  /\ UNCHANGED <<othersVars, notifyVars, wordVars, predictor, buffer, job>>

-----------------------------------------------------------------------------
AccumulatorProgress(w) ==
  \/ Pop(w) \/ NotifyOne(w) \/ IncrementLen(w) \/ Exit(w)
  \/ BatchTimeout(w) \/ JobClosed(w)
  \/ CheckPredictor(w) \/ DrainPop(w) \/ DrainDone(w)
  \/ Ready(w) \/ Reserve(w) \/ ReserveClosed(w) \/ CheckAgain(w)
  \/ Send(w) \/ ResetBatchLen(w) \/ Crash(w)
  \/ GuardSetDead(w) \/ GuardNotify(w) \/ DropReceiver(w)
=============================================================================
