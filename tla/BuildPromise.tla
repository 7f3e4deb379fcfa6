---------------------------- MODULE BuildPromise ----------------------------
(***************************************************************************)
(* What spawn_predictor promises to its two users, the startup of a worker *)
(* and the rebuild after a panic: a build ends, it ends once, it is        *)
(* cancelled only once nobody waits for it any more, no factory call starts*)
(* after that, and a failure stands for all the configured calls.          *)
(***************************************************************************)
EXTENDS Naturals

VARIABLES
  attempts,  (* the number of factory calls of a build that fails          *)
  closed,    (* the exit condition: nobody waits for the predictor         *)
  calls,     (* factory calls so far                                       *)
  outcome    (* what spawn_predictor returned, or "none"                   *)

promiseVars == <<attempts, closed, calls, outcome>>

Init ==
  /\ attempts \in Nat \ {0}
  /\ closed = FALSE
  /\ calls = 0
  /\ outcome = "none"

Close ==
  /\ ~closed
  /\ closed' = TRUE
  /\ UNCHANGED <<attempts, calls, outcome>>

(* A factory call starts while somebody still waits for the predictor.     *)
Call ==
  /\ outcome = "none"
  /\ ~closed
  /\ calls < attempts
  /\ calls' = calls + 1
  /\ UNCHANGED <<attempts, closed, outcome>>

Return ==
  /\ outcome = "none"
  /\ \/ outcome' = "Built" /\ calls > 0
     \/ outcome' \in {"Error", "Panic"} /\ calls = attempts
     \/ outcome' = "Cancelled" /\ closed
  /\ UNCHANGED <<attempts, closed, calls>>

Next == Close \/ Call \/ Return

Spec == Init /\ [][Next]_promiseVars /\ WF_promiseVars(Call \/ Return)
=============================================================================
