---------------------------- MODULE WorkerBuffer ----------------------------
(***************************************************************************)
(* WorkerBuffer (worker/buffer.rs): the inputs of a batch and the senders  *)
(* of their results, two vectors that must stay element-wise pairs.  The   *)
(* accumulator fills one, drains the channel into it when the predictor is *)
(* gone, and swaps it for a fresh one of the same capacity; the inference  *)
(* thread removes what has been cancelled from the one it took, in place,  *)
(* while callers go on cancelling.                                         *)
(*                                                                         *)
(* A request is a number, the same in both vectors.  A vector is a record  *)
(* of its elements and its capacity.                                       *)
(***************************************************************************)
EXTENDS Integers, Sequences, SequencesExt

CONSTANTS
  BatchSize,   (* requests in a full batch                                 *)
  Requests,    (* how many requests arrive                                 *)
  InputMin,    (* the first capacity Vec grows to from none, by the size   *)
               (* of an element: 8 for one byte, 4 up to 1024, 1 above     *)
  SenderMin    (* the same for a sender, a pointer: 4                      *)

ASSUME BufferAssumption ==
  /\ BatchSize \in Nat \ {0}
  /\ Requests \in Nat \ {0}
  /\ InputMin \in {1, 4, 8}
  /\ SenderMin \in {1, 4, 8}

VARIABLES
  arrived,     (* how many requests have been pushed so far                *)
  gone,        (* the requests whose caller has gone                       *)
  input_buffer, sender_buffer,   (* the accumulator's buffer               *)
  draining,    (* is the accumulator in handle_crashed_inf?                *)
  inputs, senders,               (* the batch the inference thread took    *)
  thread,      (* "recv", "filter" or "predict"                            *)
  i,           (* filter_canceled's index                                  *)
  taken,       (* history: the batch as it was taken                       *)
  stale        (* history: which of it had gone before the filter began    *)

accumulatorVars == <<arrived, input_buffer, sender_buffer, draining>>
threadVars      == <<inputs, senders, thread, i, taken, stale>>
vars == <<accumulatorVars, threadVars, gone>>

-----------------------------------------------------------------------------
(* Vec: what the buffer uses of it.                                        *)
with_capacity(n) == [elems |-> <<>>, cap |-> n]

Larger(a, b) == IF a > b THEN a ELSE b

push(v, x, least) ==
  [elems |-> Append(v.elems, x),
   cap   |-> IF Len(v.elems) < v.cap THEN v.cap
             ELSE Larger(Larger(2 * v.cap, v.cap + 1), least)]

(* The last element takes the place of the removed one.                    *)
swap_remove(s, n) == Front([s EXCEPT ![n] = s[Len(s)]])

(* Mutant: the fresh buffer is as large as the old one was full.           *)
SwapReplaceByLen ==
  /\ input_buffer' = with_capacity(Len(input_buffer.elems))
  /\ sender_buffer' = with_capacity(Len(input_buffer.elems))

(* WorkerBuffer::new(cap): cap() is the capacity of the inputs.            *)
SwapReplace ==
  /\ input_buffer' = with_capacity(input_buffer.cap)
  /\ sender_buffer' = with_capacity(input_buffer.cap)

PushPair ==
  /\ arrived < Requests
  /\ arrived' = arrived + 1
  /\ input_buffer' = push(input_buffer, arrived + 1, InputMin)
  /\ sender_buffer' = push(sender_buffer, arrived + 1, SenderMin)

Init ==
  /\ arrived = 0
  /\ gone = {}
  /\ input_buffer = with_capacity(BatchSize)
  /\ sender_buffer = with_capacity(BatchSize)
  /\ draining = FALSE
  /\ inputs = <<>> /\ senders = <<>>
  /\ thread = "recv"
  /\ i = 1
  /\ taken = {}
  /\ stale = {}

-----------------------------------------------------------------------------
Push ==
  /\ ~draining
  /\ Len(input_buffer.elems) < BatchSize
  /\ PushPair
  /\ UNCHANGED <<draining, threadVars, gone>>

(* The predictor is found not Alive.                                       *)
StartDrain ==
  /\ ~draining
  /\ input_buffer.elems # <<>>
  /\ draining' = TRUE
  /\ UNCHANGED <<arrived, input_buffer, sender_buffer, threadVars, gone>>

DrainPush ==
  /\ draining
  /\ PushPair
  /\ UNCHANGED <<draining, threadVars, gone>>

(* Every request drained is answered with an error.                        *)
DrainEnd ==
  /\ draining
  /\ SwapReplace
  /\ draining' = FALSE
  /\ UNCHANGED <<arrived, threadVars, gone>>

(* The batch is handed over and taken by the thread.                       *)
Take ==
  /\ ~draining
  /\ input_buffer.elems # <<>>
  /\ thread = "recv"
  /\ inputs' = input_buffer.elems
  /\ senders' = sender_buffer.elems
  /\ taken' = ToSet(sender_buffer.elems)
  /\ stale' = ToSet(sender_buffer.elems) \cap gone
  /\ thread' = "filter"
  /\ i' = 1
  /\ SwapReplace
  /\ UNCHANGED <<arrived, draining, gone>>

-----------------------------------------------------------------------------
(* Mutant: the inputs are shifted where the senders are swapped.           *)
RemoveShiftsInputs ==
  /\ thread = "filter" /\ i <= Len(inputs)
  /\ senders[i] \in gone
  /\ inputs' = RemoveAt(inputs, i)
  /\ senders' = swap_remove(senders, i)
  /\ UNCHANGED <<accumulatorVars, thread, i, taken, stale, gone>>

(* Mutant: the element swapped in is not looked at.                        *)
RemoveAndMoveOn ==
  /\ thread = "filter" /\ i <= Len(inputs)
  /\ senders[i] \in gone
  /\ inputs' = swap_remove(inputs, i)
  /\ senders' = swap_remove(senders, i)
  /\ i' = i + 1
  /\ UNCHANGED <<accumulatorVars, thread, taken, stale, gone>>

(* filter_canceled's loop body: is_closed is true.                         *)
RemoveCanceled ==
  /\ thread = "filter" /\ i <= Len(inputs)
  /\ senders[i] \in gone
  /\ inputs' = swap_remove(inputs, i)
  /\ senders' = swap_remove(senders, i)
  /\ UNCHANGED <<accumulatorVars, thread, i, taken, stale, gone>>

Keep ==
  /\ thread = "filter" /\ i <= Len(inputs)
  /\ senders[i] \notin gone
  /\ i' = i + 1
  /\ UNCHANGED <<accumulatorVars, inputs, senders, thread, taken, stale, gone>>

Filtered ==
  /\ thread = "filter" /\ i > Len(inputs)
  /\ thread' = IF inputs = <<>> THEN "recv" ELSE "predict"
  /\ UNCHANGED <<accumulatorVars, inputs, senders, i, taken, stale, gone>>

(* split, predict_batch and the replies.                                   *)
Predict ==
  /\ thread = "predict"
  /\ inputs' = <<>> /\ senders' = <<>>
  /\ thread' = "recv"
  /\ UNCHANGED <<accumulatorVars, i, taken, stale, gone>>

(* A caller gives up.                                                      *)
Cancel ==
  /\ \E r \in 1 .. arrived : r \notin gone /\ gone' = gone \cup {r}
  /\ UNCHANGED <<accumulatorVars, threadVars>>

Next == \/ Push \/ StartDrain \/ DrainPush \/ DrainEnd \/ Take
        \/ RemoveCanceled \/ Keep \/ Filtered \/ Predict \/ Cancel

Spec == Init /\ [][Next]_vars

-----------------------------------------------------------------------------
(* The i-th sender answers the i-th input, in the buffer being filled and  *)
(* in the batch being filtered: nobody gets the result of another request. *)
PairsAligned ==
  /\ input_buffer.elems = sender_buffer.elems
  /\ inputs = senders

(* What reaches predict_batch is the batch that was taken, no request of   *)
(* it twice, without any that had been cancelled before the filter began,  *)
(* and only cancelled ones are missing.                                    *)
FilterExact ==
  thread = "predict" =>
    /\ IsInjective(senders)
    /\ ToSet(senders) \subseteq taken \ stale
    /\ taken \ ToSet(senders) \subseteq gone

(* "Both buffers are allocated with capacity batch_size": accumulating a   *)
(* batch never reallocates, whatever drains came before it.                *)
AccumulatesInPlace ==
  [][Push => /\ input_buffer'.cap = input_buffer.cap
             /\ sender_buffer'.cap = sender_buffer.cap]_vars

(* The types and bounds AccumulatesInPlace rests on: room for a batch is   *)
(* kept by every swap, and a drain, which may grow a vector past it, never *)
(* makes it smaller.                                                       *)
Vec == [elems : Seq(Nat), cap : Nat]

RoomInv ==
  /\ arrived \in Nat
  /\ input_buffer \in Vec /\ sender_buffer \in Vec
  /\ BatchSize <= input_buffer.cap /\ BatchSize <= sender_buffer.cap
  /\ input_buffer.elems = sender_buffer.elems

(* The assertion in WorkerBuffer::cap, at the points that evaluate it.     *)
CapacitiesAgree ==
  (draining \/ input_buffer.elems # <<>>) =>
    input_buffer.cap = sender_buffer.cap
=============================================================================
