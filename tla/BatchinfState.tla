--------------------------- MODULE BatchinfState ---------------------------
(***************************************************************************)
(* The state the parts of a running batcher share: the request calls and   *)
(* their oneshot replies, the pool's Notify, and, for each worker, the     *)
(* packed status word, the predictor status, the request channel, the      *)
(* accumulator task, the job channel and the inference thread.             *)
(*                                                                         *)
(* The modules Calls, Accumulator and InferenceThread define the steps of  *)
(* the three kinds of actors over these variables; Batchinf composes them. *)
(***************************************************************************)
EXTENDS Integers, FiniteSets, SequencesExt

CONSTANTS
  PoolSize,         (* number of workers in the pool                          *)
  BatchSize,        (* requests in a full batch                               *)
  QueueSize,        (* capacity of each worker's request channel              *)
  Calls,            (* request calls; each one submits a single request       *)
  TryCalls,         (* the calls that fail fast (try_predict and              *)
                    (* blocking_try_predict); the others are predict          *)
  DroppableCalls,   (* the calls whose future may be dropped before it ends,  *)
                    (* which is what predict_with_timeout does                *)
  Outcomes,         (* how predict_batch may return                           *)
  BatchTimer,       (* FALSE stands for batch_timeout = Duration::MAX         *)
  PredictorPanics,  (* may predict_batch panic?                               *)
  RebuildFails,     (* may every attempt of a rebuild fail?                   *)
  HooksPanic        (* may a metrics hook panic? (a breach of its contract)   *)

Returned == {"Ok", "InferenceError", "InvalidPredictorOutput"}

ASSUME ConfigAssumption ==
  /\ PoolSize \in Nat \ {0}
  /\ BatchSize \in Nat \ {0}
  /\ QueueSize \in Nat \ {0}
  /\ IsFiniteSet(Calls)
  /\ TryCalls \subseteq Calls
  /\ DroppableCalls \subseteq Calls
  /\ Outcomes \subseteq Returned
  /\ BatchTimer \in BOOLEAN
  /\ PredictorPanics \in BOOLEAN
  /\ RebuildFails \in BOOLEAN
  /\ HooksPanic \in BOOLEAN

Workers == 0 .. PoolSize - 1

WorkerStatus    == {"Waiting", "Exit", "Running", "Crashed"}
PredictorStatus == {"Alive", "Rebuilding", "Dead"}
Errors  == {"QueueFullError", "NoAvailableWorkersError", "InternalError",
            "TimeoutError"}
Replies == Returned \cup {"InternalError"}

VARIABLES
  owner,      (* does the application still hold a handle outside the calls?  *)
  pc,         (* where each call is                                           *)
  reply,      (* what the call's oneshot holds: a reply, "none", or "Dropped" *)
              (* when the sender went away without sending                    *)
  result,     (* what the call returned                                       *)
  sink,       (* try_push: the worker the router is looking at                *)
  left,       (* try_push: workers left in this pass                          *)
  pass,       (* try_push: 1, Waiting workers only; 2, every worker           *)
  hope,       (* try_push: has_live_worker || has_rebuilding_worker           *)
  start       (* WorkerPool.start, taken modulo the pool size                 *)

callVars == <<pc, reply, result, sink, left, pass, hope, start>>

VARIABLES
  permit,     (* Notify: a notify_one nobody was waiting for                  *)
  waiters,    (* Notify: the registered Notified futures, oldest first        *)
  note        (* the Notified of each call: "none", "listed" in waiters,      *)
              (* notified by notify_one ("one") or notify_waiters ("all"), or *)
              (* "spent" when enable() took the stored permit                 *)

notifyVars == <<permit, waiters, note>>

VARIABLES
  status,     (* WorkerStateInner.worker_state, the two status bits           *)
  batchLen,   (* WorkerStateInner.worker_state, the length bits               *)
  predictor,  (* WorkerStateInner.predictor_state                             *)
  queue,      (* the request channel                                          *)
  accPc,      (* where the accumulator task is                                *)
  buffer,     (* the requests the accumulator holds                           *)
  job,        (* the batch in the depth-1 job channel, {} when it is empty    *)
  thPc,       (* where the inference thread is                                *)
  running     (* the requests of the batch the inference thread runs          *)

wordVars == <<status, batchLen>>
accVars  == <<accPc, buffer>>
thVars   == <<thPc, running>>

vars == <<owner, callVars, notifyVars, wordVars, predictor, queue, accVars,
          job, thVars>>

CallPc == {"idle", "probe", "probe_predictor", "is_rebuilding", "push",
           "enable", "parked", "await", "done"}
AccPc  == {"recv", "popped", "notified", "collect", "check", "ready",
           "reserve", "permit", "send", "sent", "drain", "dead", "set_dead",
           "notify_waiters", "drop_receiver", "gone"}
ThPc   == {"recv", "predict", "fail_batch", "flush", "rebuild", "flush_again",
           "alive", "notify_alive", "set_dead", "notify_dead",
           "drop_receiver", "gone"}

-----------------------------------------------------------------------------
(***************************************************************************)
(* Ownership.  A call borrows a handle for as long as it is in flight.     *)
(***************************************************************************)
InFlight(c) == pc[c] \notin {"idle", "done"}

HandleAlive == owner \/ \E c \in Calls : InFlight(c)

(* Mutant: something keeps a clone of the job sender.                      *)
JobSenderLeaked(w) == TRUE

(* The accumulator drops its job sender when it returns, or first thing    *)
(* when it unwinds; its request receiver goes last.                        *)
JobSenderAlive(w) ==
  accPc[w] \notin {"set_dead", "notify_waiters", "drop_receiver", "gone"}
ReceiverAlive(w)    == accPc[w] # "gone"
JobReceiverAlive(w) == thPc[w] # "gone"

-----------------------------------------------------------------------------
(***************************************************************************)
(* What the router reads of a worker.                                      *)
(***************************************************************************)
WordAcceptsPrimary(w)   == status[w] = "Waiting" /\ batchLen[w] < BatchSize
WordAcceptsSecondary(w) == status[w] \notin {"Exit", "Crashed"}

can_accept_primary(w) == WordAcceptsPrimary(w) /\ predictor[w] = "Alive"

is_rebuilding(w) == predictor[w] = "Rebuilding"

-----------------------------------------------------------------------------
(***************************************************************************)
(* oneshot: a send reaches the callers that still wait; sending to, or     *)
(* dropping the sender of, a call that has gone has no effect.             *)
(***************************************************************************)
Answer(S, r) ==
  reply' = [c \in Calls |-> IF c \in S /\ pc[c] = "await" /\ reply[c] = "none"
                            THEN r ELSE reply[c]]

DropSenders(S) == Answer(S, "Dropped")

(* The messages of a job channel both ends of which are gone are freed     *)
(* with it; while the sender lives they stay.                              *)
FreedJob(w) == IF JobReceiverAlive(w) THEN {} ELSE job[w]

-----------------------------------------------------------------------------
(***************************************************************************)
(* tokio::sync::Notify.                                                    *)
(***************************************************************************)
notify_one ==
  \/ /\ waiters = <<>>
     /\ permit' = TRUE
     /\ UNCHANGED <<waiters, note>>
  \/ /\ waiters # <<>>
     /\ waiters' = Tail(waiters)
     /\ note' = [note EXCEPT ![Head(waiters)] = "one"]
     /\ UNCHANGED permit

notify_waiters ==
  /\ waiters' = <<>>
  /\ note' = [c \in Calls |-> IF note[c] = "listed" THEN "all" ELSE note[c]]
  /\ UNCHANGED permit

(* notified() and enable(): take the stored permit or join the waiters.    *)
EnableNotified(c) ==
  \/ /\ permit
     /\ permit' = FALSE
     /\ note' = [note EXCEPT ![c] = "spent"]
     /\ UNCHANGED waiters
  \/ /\ ~permit
     /\ waiters' = Append(waiters, c)
     /\ note' = [note EXCEPT ![c] = "listed"]
     /\ UNCHANGED permit

(* Mutant: a dropped Notified keeps the notify_one it received.            *)
DropNotifiedNoForward(c) ==
  /\ note' = [note EXCEPT ![c] = "none"]
  /\ waiters' = SelectSeq(waiters, LAMBDA d : d # c)
  /\ UNCHANGED permit

(* Dropping a Notified that was registered but never awaited to its end    *)
(* leaves the list, or hands a notify_one it received to the next waiter.  *)
DropNotified(c) ==
  \/ /\ note[c] \in {"none", "all", "spent"}
     /\ note' = [note EXCEPT ![c] = "none"]
     /\ UNCHANGED <<permit, waiters>>
  \/ /\ note[c] = "listed"
     /\ note' = [note EXCEPT ![c] = "none"]
     /\ \E i \in DOMAIN waiters :
          waiters[i] = c /\ waiters' = RemoveAt(waiters, i)
     /\ UNCHANGED permit
  \/ /\ note[c] = "one" /\ waiters = <<>>
     /\ note' = [note EXCEPT ![c] = "none"]
     /\ permit' = TRUE
     /\ UNCHANGED waiters
  \/ /\ note[c] = "one" /\ waiters # <<>>
     /\ note' = [note EXCEPT ![c] = "none", ![Head(waiters)] = "one"]
     /\ waiters' = Tail(waiters)
     /\ UNCHANGED permit
=============================================================================
