---------------------------- MODULE Observability ----------------------------
(***************************************************************************)
(* What the metrics hooks of a running batcher are told                    *)
(* (observability/mod.rs).  A hook changes nothing of the batcher, so the  *)
(* totals a backend would keep are an observer of the steps of Batchinf:   *)
(* Report says which step calls which hook, and with what.                 *)
(*                                                                         *)
(* A call that returns TimeoutError is an on_request_timeout.              *)
(***************************************************************************)
EXTENDS Batchinf

VARIABLES
  handed,     (* size of the batch run_inference has sent, until it is        *)
              (* reported; 0 while there is none                              *)
  triggered,  (* sum of the sizes on_batch_trigger was called with            *)
  completed,  (* sum of the sizes on_batch_complete_ok and _err were          *)
              (* called with                                                  *)
  panics,     (* calls of on_worker_panic                                     *)
  depth       (* last queue_depth on_queue_depth was called with              *)

metricsVars  == <<handed, triggered, completed, panics, depth>>
observedVars == <<vars, metricsVars>>

Zero == [w \in Workers |-> 0]

ObservedInit ==
  /\ Init
  /\ handed = Zero /\ triggered = Zero /\ completed = Zero
  /\ panics = Zero /\ depth = Zero

-----------------------------------------------------------------------------
(* on_batch_trigger is called with the size the batch was closed with, and *)
(* only once its hand-off has succeeded: ResetBatchLen ends the turn of    *)
(* the loop it is called in.                                               *)
emit_batch_start ==
  /\ handed' = [w \in Workers |-> IF Send(w) THEN Cardinality(buffer[w])
                                  ELSE IF ResetBatchLen(w) THEN 0
                                  ELSE handed[w]]
  /\ triggered' = [w \in Workers |-> IF ResetBatchLen(w)
                                     THEN triggered[w] + handed[w]
                                     ELSE triggered[w]]

(* Mutant: a batch that failed is not reported.                            *)
emit_inference_ok_only ==
  completed' = [w \in Workers |->
                  IF PredictReturns(w) /\ \E c \in running[w] : reply'[c] = "Ok"
                  THEN completed[w] + Cardinality(running[w])
                  ELSE completed[w]]

(* emit_inference_ok and emit_inference_err, before the callers get their  *)
(* answers.                                                                *)
emit_inference ==
  completed' = [w \in Workers |-> IF PredictReturns(w)
                                  THEN completed[w] + Cardinality(running[w])
                                  ELSE completed[w]]

emit_worker_panic ==
  panics' = [w \in Workers |-> IF PredictPanics(w) THEN panics[w] + 1
                                                   ELSE panics[w]]

(* Where a turn of the loop ends that had closed a batch and did not hand  *)
(* it over.                                                                *)
HandoffFlushed(w) ==
  ResetBatchLen(w) /\ status[w] = "Running" /\ handed[w] = 0

(* Mutant: the batch that is closed counts as queued.                      *)
emit_queue_depth_with_batch ==
  depth' = [w \in Workers |->
              IF Ready(w) \/ HandoffFlushed(w)
              THEN Len(queue[w]) + Cardinality(buffer[w])
              ELSE IF Crash(w) THEN 0
              ELSE depth[w]]

(* When a batch is closed, when its hand-off ends in a flush, and, by      *)
(* emit_empty_queue, when the worker stops for want of a thread.           *)
emit_queue_depth ==
  depth' = [w \in Workers |->
              IF Ready(w) \/ HandoffFlushed(w) THEN Len(queue[w])
              ELSE IF Crash(w) THEN 0
              ELSE depth[w]]

Report ==
  emit_batch_start /\ emit_inference /\ emit_worker_panic /\ emit_queue_depth

ObservedNext == Next /\ Report

ObservedSpec     == ObservedInit /\ [][ObservedNext]_observedVars
ObservedFairSpec == ObservedSpec /\ Fairness

-----------------------------------------------------------------------------
(***************************************************************************)
(* Properties.                                                             *)
(***************************************************************************)

(* The requests reported complete, those being run and those queued to run *)
(* have all been reported as triggered, but for the batch whose hand-off   *)
(* has just ended: the thread may complete it before the accumulator       *)
(* reports its trigger, and a backend that subtracts the two sees that     *)
(* many requests less than none in flight, and never more.                 *)
Known(w) == completed[w] + Cardinality(running[w]) + Cardinality(job[w])

CompletedWereTriggered ==
  \A w \in Workers : Known(w) <= triggered[w] + handed[w]

(* "Requests that were cancelled while waiting are removed just before     *)
(* inference, so the size reported ... can be smaller": nothing else makes *)
(* it smaller.  While no caller has timed out and no user code panicked,   *)
(* what was triggered has completed or is on its way.                      *)
Undisturbed(w) == panics[w] = 0 /\ ~HooksPanic

TriggeredComplete ==
  \A w \in Workers :
    Undisturbed(w) /\ (\A c \in Calls : result[c] # "TimeoutError")
      => Known(w) = triggered[w] + handed[w]

(* The depth is "a gauge that keeps its last value": while a batch is      *)
(* collected it never exceeds what is queued and in the batch, so an idle  *)
(* worker's gauge reads zero.  A drain could leave it behind.              *)
GaugeHonest ==
  \A w \in Workers :
    Undisturbed(w) /\ accPc[w] \in {"recv", "popped", "notified", "collect"}
      => depth[w] <= Len(queue[w]) + Cardinality(buffer[w])
=============================================================================
