-------------------------- MODULE InferenceThread --------------------------
(***************************************************************************)
(* The inference thread of a worker (worker/inf.rs), from the moment its   *)
(* first predictor is built: it takes one batch at a time off the job      *)
(* channel, runs it, and rebuilds the predictor after a panic.             *)
(*                                                                         *)
(* thPc[w] says where inference_runner is:                                 *)
(*   recv          blocking_recv on the job channel                        *)
(*   predict       running predict_batch on `running`                      *)
(*   fail_batch    it panicked: the batch is failed                        *)
(*   flush         flush_batch, before the rebuild                         *)
(*   rebuild       in spawn_predictor                                      *)
(*   flush_again   flush_batch, after the rebuild                          *)
(*   alive, notify_alive    set Alive, then notify_waiters                 *)
(*   set_dead, notify_dead  set Dead, then notify_waiters; either after a  *)
(*                 failed rebuild or by the panic guard, which does the    *)
(*                 same                                                    *)
(*   drop_receiver the thread's frame, the job receiver in it, is dropped  *)
(***************************************************************************)
EXTENDS BatchinfState

Step(w, l) == thPc' = [thPc EXCEPT ![w] = l]

set_predictor_state(w, s) == predictor' = [predictor EXCEPT ![w] = s]

(* What no step of an inference thread changes.                            *)
outsideVars == <<owner, pc, result, sink, left, pass, hope, start,
                 wordVars, queue, accVars>>

-----------------------------------------------------------------------------
(* Mutant: the batch is looked at and left in the channel.                 *)
TakeBatchPeek(w) ==
  /\ thPc[w] = "recv"
  /\ job[w] # {}
  /\ LET live == {c \in job[w] : pc[c] = "await"}
     IN  /\ running' = [running EXCEPT ![w] = live]
         /\ Step(w, IF live = {} THEN "recv" ELSE "predict")
  /\ UNCHANGED <<outsideVars, reply, notifyVars, predictor, job>>

(* Mutant: filter_canceled is not called.                                  *)
TakeBatchUnfiltered(w) ==
  /\ thPc[w] = "recv"
  /\ job[w] # {}
  /\ running' = [running EXCEPT ![w] = job[w]]
  /\ Step(w, "predict")
  /\ job' = [job EXCEPT ![w] = {}]
  /\ UNCHANGED <<outsideVars, reply, notifyVars, predictor>>

(* blocking_recv, then filter_canceled: only the requests somebody still   *)
(* waits for are run, and a batch with none of those is skipped.           *)
TakeBatch(w) ==
  /\ thPc[w] = "recv"
  /\ job[w] # {}
  /\ LET live == {c \in job[w] : pc[c] = "await"}
     IN  /\ running' = [running EXCEPT ![w] = live]
         /\ Step(w, IF live = {} THEN "recv" ELSE "predict")
  /\ job' = [job EXCEPT ![w] = {}]
  /\ UNCHANGED <<outsideVars, reply, notifyVars, predictor>>

(* blocking_recv returns None: the accumulator is gone.                    *)
JobsClosed(w) ==
  /\ thPc[w] = "recv"
  /\ job[w] = {}
  /\ ~JobSenderAlive(w)
  /\ Step(w, "gone")
  /\ UNCHANGED <<outsideVars, reply, notifyVars, predictor, job, running>>

(* predict_batch returns, and send_output or send_errors answers the batch.*)
PredictReturns(w) ==
  /\ thPc[w] = "predict"
  /\ \E r \in Outcomes : Answer(running[w], r)
  /\ running' = [running EXCEPT ![w] = {}]
  /\ Step(w, "recv")
  /\ UNCHANGED <<outsideVars, notifyVars, predictor, job>>

-----------------------------------------------------------------------------
(***************************************************************************)
(* predict_batch panics.                                                   *)
(***************************************************************************)
PredictPanics(w) ==
  /\ PredictorPanics
  /\ thPc[w] = "predict"
  /\ set_predictor_state(w, "Rebuilding")
  /\ Step(w, "fail_batch")
  /\ UNCHANGED <<outsideVars, reply, notifyVars, job, running>>

FailBatch(w) ==
  /\ thPc[w] = "fail_batch"
  /\ Answer(running[w], "InternalError")
  /\ running' = [running EXCEPT ![w] = {}]
  /\ Step(w, "flush")
  /\ UNCHANGED <<outsideVars, notifyVars, predictor, job>>

(* Mutant: a flush fails the batch and leaves it in the channel.           *)
FlushBatchPeek(w) ==
  /\ thPc[w] \in {"flush", "flush_again"}
  /\ Answer(job[w], "InternalError")
  /\ Step(w, IF thPc[w] = "flush" THEN "rebuild" ELSE "alive")
  /\ UNCHANGED <<outsideVars, notifyVars, predictor, job, running>>

FlushBatch(w) ==
  /\ thPc[w] \in {"flush", "flush_again"}
  /\ Answer(job[w], "InternalError")
  /\ job' = [job EXCEPT ![w] = {}]
  /\ Step(w, IF thPc[w] = "flush" THEN "rebuild" ELSE "alive")
  /\ UNCHANGED <<outsideVars, notifyVars, predictor, running>>

RebuildSucceeds(w) ==
  /\ thPc[w] = "rebuild"
  /\ Step(w, "flush_again")
  /\ UNCHANGED <<outsideVars, reply, notifyVars, predictor, job, running>>

(* Every attempt failed, or the exit condition, batch_recv.is_closed(),    *)
(* cancelled the rebuild.                                                  *)
RebuildGivesUp(w) ==
  /\ thPc[w] = "rebuild"
  /\ RebuildFails \/ ~JobSenderAlive(w)
  /\ Step(w, "set_dead")
  /\ UNCHANGED <<outsideVars, reply, notifyVars, predictor, job, running>>

SetAlive(w) ==
  /\ thPc[w] = "alive"
  /\ set_predictor_state(w, "Alive")
  /\ Step(w, "notify_alive")
  /\ UNCHANGED <<outsideVars, reply, notifyVars, job, running>>

NotifyAlive(w) ==
  /\ thPc[w] = "notify_alive"
  /\ notify_waiters
  /\ Step(w, "recv")
  /\ UNCHANGED <<outsideVars, reply, predictor, job, running>>

-----------------------------------------------------------------------------
(***************************************************************************)
(* The thread ends.                                                        *)
(***************************************************************************)
(* Mutant: the thread ends with its predictor still marked Rebuilding.     *)
SetDeadForgotten(w) ==
  /\ thPc[w] = "set_dead"
  /\ Step(w, "notify_dead")
  /\ UNCHANGED <<outsideVars, reply, notifyVars, predictor, job, running>>

SetDead(w) ==
  /\ thPc[w] = "set_dead"
  /\ set_predictor_state(w, "Dead")
  /\ Step(w, "notify_dead")
  /\ UNCHANGED <<outsideVars, reply, notifyVars, job, running>>

(* Mutant: no caller is told of the death.                                 *)
NotifyDeadForgotten(w) ==
  /\ thPc[w] = "notify_dead"
  /\ Step(w, "drop_receiver")
  /\ UNCHANGED <<outsideVars, reply, notifyVars, predictor, job, running>>

(* Mutant: the failed rebuild does not return from inference_runner.       *)
NotifyDeadNoReturn(w) ==
  /\ thPc[w] = "notify_dead"
  /\ notify_waiters
  /\ Step(w, "flush_again")
  /\ UNCHANGED <<outsideVars, reply, predictor, job, running>>

NotifyDead(w) ==
  /\ thPc[w] = "notify_dead"
  /\ notify_waiters
  /\ Step(w, "drop_receiver")
  /\ UNCHANGED <<outsideVars, reply, predictor, job, running>>

DropJobReceiver(w) ==
  /\ thPc[w] = "drop_receiver"
  /\ DropSenders(job[w])
  /\ job' = [job EXCEPT ![w] = {}]
  /\ Step(w, "gone")
  /\ UNCHANGED <<outsideVars, notifyVars, predictor, running>>

(* A metrics hook panics on the thread, before the batch is answered:      *)
(* emit_inference_ok, emit_inference_err or emit_worker_panic.             *)
ThreadHookPanic(w) ==
  /\ HooksPanic
  /\ thPc[w] \in {"predict", "fail_batch"}
  /\ DropSenders(running[w])
  /\ running' = [running EXCEPT ![w] = {}]
  /\ Step(w, "set_dead")
  /\ UNCHANGED <<outsideVars, notifyVars, predictor, job>>

-----------------------------------------------------------------------------
ThreadProgress(w) ==
  \/ TakeBatch(w) \/ JobsClosed(w) \/ PredictReturns(w)
  \/ FailBatch(w) \/ FlushBatch(w)
  \/ RebuildSucceeds(w) \/ RebuildGivesUp(w)
  \/ SetAlive(w) \/ NotifyAlive(w)
  \/ SetDead(w) \/ NotifyDead(w) \/ DropJobReceiver(w)
=============================================================================
