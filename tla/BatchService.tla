---------------------------- MODULE BatchService ----------------------------
(***************************************************************************)
(* What the request methods promise, as far as a caller and the author of  *)
(* a predictor can see: a call is queued at most once; predict_batch gets  *)
(* groups of at most batch_size requests, each of a caller that waits at   *)
(* that moment, and no request twice; what it returns goes to exactly the  *)
(* callers of its group that still wait; a caller gets one answer.         *)
(* InternalError and NoAvailableWorkersError are kept for pools user code  *)
(* has panicked in, QueueFullError for the fail-fast methods, TimeoutError *)
(* for calls with a deadline.                                              *)
(*                                                                         *)
(* There are no workers' queues here, no channels, no router, no accumula- *)
(* tor and no rebuild: Batchinf has those, and implements this.            *)
(***************************************************************************)
EXTENDS FiniteSets, Integers

CONSTANTS
  Calls, TryCalls, DroppableCalls, Workers, BatchSize, Outcomes,
  UserCodePanics   (* may predict_batch or a metrics hook panic?           *)

VARIABLES
  phase,     (* each call: "new", "looking" for room, "queued", "done"     *)
  answer,    (* the one answer each call has been sent, or "none"          *)
  result,    (* what each call returned                                    *)
  running    (* the group each predictor runs                              *)

serviceVars == <<phase, answer, result, running>>

(* The calls whose request somebody still waits for.                       *)
Waiting == {c \in Calls : phase[c] = "queued" /\ answer[c] = "none"}

Send(S, r) == answer' = [c \in Calls |-> IF c \in S THEN r ELSE answer[c]]

Return(c, r) ==
  /\ phase' = [phase EXCEPT ![c] = "done"]
  /\ result' = [result EXCEPT ![c] = r]
  /\ UNCHANGED <<answer, running>>

Init ==
  /\ phase = [c \in Calls |-> "new"]
  /\ answer = [c \in Calls |-> "none"]
  /\ result = [c \in Calls |-> "none"]
  /\ running = [w \in Workers |-> {}]

Ask(c) ==
  /\ phase[c] = "new"
  /\ phase' = [phase EXCEPT ![c] = "looking"]
  /\ UNCHANGED <<answer, result, running>>

Queue(c) ==
  /\ phase[c] = "looking"
  /\ phase' = [phase EXCEPT ![c] = "queued"]
  /\ UNCHANGED <<answer, result, running>>

(* A request that was not queued is refused.                               *)
Refuse(c) ==
  /\ phase[c] = "looking"
  /\ \/ c \in TryCalls /\ Return(c, "QueueFullError")
     \/ UserCodePanics /\ Return(c, "NoAvailableWorkersError")

Receive(c) ==
  /\ phase[c] = "queued"
  /\ answer[c] # "none"
  /\ Return(c, answer[c])

(* The deadline passes, or the future is dropped.                          *)
Abandon(c) ==
  /\ c \in DroppableCalls
  /\ phase[c] \in {"looking", "queued"}
  /\ Return(c, "TimeoutError")

(* A predictor is given a group.                                           *)
Start(w) ==
  /\ running[w] = {}
  /\ \E S \in SUBSET (Waiting \ UNION {running[v] : v \in Workers}) :
       /\ S # {}
       /\ Cardinality(S) <= BatchSize
       /\ running' = [running EXCEPT ![w] = S]
  /\ UNCHANGED <<phase, answer, result>>

(* predict_batch returns.                                                  *)
Complete(w) ==
  /\ running[w] # {}
  /\ \E r \in Outcomes : Send(running[w] \cap Waiting, r)
  /\ running' = [running EXCEPT ![w] = {}]
  /\ UNCHANGED <<phase, result>>

(* Some requests are failed, and maybe a whole group with them.            *)
Fail ==
  /\ UserCodePanics
  /\ \E S \in SUBSET Waiting :
       /\ Send(S, "InternalError")
       /\ \/ UNCHANGED running
          \/ \E w \in Workers : /\ running[w] \cap Waiting \subseteq S
                                /\ running' = [running EXCEPT ![w] = {}]
  /\ UNCHANGED <<phase, result>>

Next ==
  \/ \E c \in Calls : Ask(c) \/ Queue(c) \/ Refuse(c) \/ Receive(c) \/ Abandon(c)
  \/ \E w \in Workers : Start(w) \/ Complete(w)
  \/ Fail

Spec == Init /\ [][Next]_serviceVars
=============================================================================
