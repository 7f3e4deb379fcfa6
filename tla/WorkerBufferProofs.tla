------------------------- MODULE WorkerBufferProofs -------------------------
(***************************************************************************)
(* Proofs about WorkerBuffer, for every batch size and every growth policy *)
(* of the two vectors.                                                     *)
(***************************************************************************)
EXTENDS WorkerBuffer, TLAPS

LEMMA PushGrows ==
  ASSUME NEW v \in Vec, NEW x \in Nat, NEW least \in Nat
  PROVE  /\ push(v, x, least) \in Vec
         /\ push(v, x, least).elems = Append(v.elems, x)
         /\ push(v, x, least).cap >= v.cap
         /\ Len(v.elems) < v.cap => push(v, x, least).cap = v.cap
  BY DEF push, Larger, Vec

LEMMA PushPairKeepsRoom ==
  ASSUME RoomInv, PushPair PROVE RoomInv'
<1>1. arrived + 1 \in Nat /\ InputMin \in Nat /\ SenderMin \in Nat
  BY BufferAssumption DEF RoomInv
<1>2. /\ input_buffer' \in Vec
      /\ input_buffer'.elems = Append(input_buffer.elems, arrived + 1)
      /\ input_buffer'.cap >= input_buffer.cap
  BY <1>1, PushGrows DEF RoomInv, PushPair
<1>3. /\ sender_buffer' \in Vec
      /\ sender_buffer'.elems = Append(sender_buffer.elems, arrived + 1)
      /\ sender_buffer'.cap >= sender_buffer.cap
  BY <1>1, PushGrows DEF RoomInv, PushPair
<1>4. /\ input_buffer.cap \in Nat /\ sender_buffer.cap \in Nat
      /\ input_buffer'.cap \in Nat /\ sender_buffer'.cap \in Nat
  BY <1>2, <1>3 DEF RoomInv, Vec
<1>5. BatchSize <= input_buffer'.cap /\ BatchSize <= sender_buffer'.cap
  BY <1>2, <1>3, <1>4, BufferAssumption DEF RoomInv
<1>6. input_buffer'.elems = sender_buffer'.elems
  BY <1>2, <1>3 DEF RoomInv
<1>7. arrived' \in Nat
  BY <1>1 DEF PushPair
<1>8. QED
  BY <1>2, <1>3, <1>5, <1>6, <1>7 DEF RoomInv

LEMMA SwapKeepsRoom ==
  ASSUME RoomInv, SwapReplace, UNCHANGED arrived PROVE RoomInv'
  BY DEF RoomInv, SwapReplace, with_capacity, Vec

LEMMA RoomInvHolds == Spec => []RoomInv
<1>1. Init => RoomInv
  BY BufferAssumption DEF Init, RoomInv, with_capacity, Vec
<1>2. RoomInv /\ [Next]_vars => RoomInv'
  <2> SUFFICES ASSUME RoomInv, [Next]_vars PROVE RoomInv'
    OBVIOUS
  <2>1. CASE PushPair
    BY <2>1, PushPairKeepsRoom
  <2>2. CASE SwapReplace /\ UNCHANGED arrived
    BY <2>2, SwapKeepsRoom
  <2>3. CASE UNCHANGED <<arrived, input_buffer, sender_buffer>>
    BY <2>3 DEF RoomInv
  <2>4. QED
    BY <2>1, <2>2, <2>3
       DEF Next, Push, StartDrain, DrainPush, DrainEnd, Take, RemoveCanceled,
           Keep, Filtered, Predict, Cancel, vars, accumulatorVars
<1>3. QED
  BY <1>1, <1>2, PTL DEF Spec

(* Sender i answers input i, in the buffer and in the batch, whatever is   *)
(* drained, swapped, cancelled and filtered.                               *)
THEOREM PairsStayAligned == Spec => []PairsAligned
<1>1. Init => PairsAligned
  BY DEF Init, PairsAligned, with_capacity
<1>2. PairsAligned /\ RoomInv' /\ [Next]_vars => PairsAligned'
  <2> SUFFICES ASSUME PairsAligned, RoomInv', [Next]_vars PROVE PairsAligned'
    OBVIOUS
  <2>1. input_buffer'.elems = sender_buffer'.elems
    BY DEF RoomInv
  <2>2. inputs' = senders'
    <3>1. CASE Take
      BY <3>1 DEF Take, PairsAligned
    <3>2. CASE RemoveCanceled
      BY <3>2 DEF RemoveCanceled, PairsAligned
    <3>3. CASE Predict
      BY <3>3 DEF Predict
    <3>4. CASE UNCHANGED <<inputs, senders>>
      BY <3>4 DEF PairsAligned
    <3>5. QED
      BY <3>1, <3>2, <3>3, <3>4
         DEF Next, Push, StartDrain, DrainPush, DrainEnd, Keep, Filtered,
             Cancel, vars, threadVars
  <2>3. QED
    BY <2>1, <2>2 DEF PairsAligned
<1>3. QED
  BY <1>1, <1>2, RoomInvHolds, PTL DEF Spec

(* Filling a batch never reallocates, although the buffer it fills may be  *)
(* the successor of one that a drain has grown.                            *)
THEOREM NeverReallocates == Spec => AccumulatesInPlace
<1>1. RoomInv /\ [Next]_vars =>
        [Push => /\ input_buffer'.cap = input_buffer.cap
                 /\ sender_buffer'.cap = sender_buffer.cap]_vars
  <2> SUFFICES ASSUME RoomInv, Push
               PROVE  /\ input_buffer'.cap = input_buffer.cap
                      /\ sender_buffer'.cap = sender_buffer.cap
    OBVIOUS
  <2>1. arrived + 1 \in Nat /\ InputMin \in Nat /\ SenderMin \in Nat
    BY BufferAssumption DEF RoomInv
  <2>2. /\ Len(input_buffer.elems) < input_buffer.cap
        /\ Len(sender_buffer.elems) < sender_buffer.cap
    BY BufferAssumption DEF RoomInv, Push, Vec
  <2>3. QED
    BY <2>1, <2>2, PushGrows DEF RoomInv, Push, PushPair
<1>2. QED
  BY <1>1, RoomInvHolds, PTL DEF Spec, AccumulatesInPlace

-----------------------------------------------------------------------------
(***************************************************************************)
(* The filter.                                                             *)
(***************************************************************************)
LEMMA SwapRemoved ==
  ASSUME NEW s \in Seq(Nat), NEW n \in 1 .. Len(s)
  PROVE  /\ swap_remove(s, n) \in Seq(Nat)
         /\ Len(swap_remove(s, n)) = Len(s) - 1
         /\ \A k \in 1 .. Len(s) - 1 :
              swap_remove(s, n)[k] = IF k = n THEN s[Len(s)] ELSE s[k]
<1> DEFINE u == [s EXCEPT ![n] = s[Len(s)]]
           m == Len(s) - 1
<1>1. /\ u \in Seq(Nat) /\ Len(u) = Len(s) /\ Len(s) \in Nat \ {0}
      /\ \A k \in 1 .. Len(s) : u[k] = IF k = n THEN s[Len(s)] ELSE s[k]
  OBVIOUS
<1>2. /\ m \in Nat /\ Len(s) = m + 1
      /\ \A k \in 1 .. m : k \in 1 .. Len(s)
  BY <1>1
<1>3. swap_remove(s, n) = SubSeq(u, 1, m)
  BY <1>1 DEF swap_remove, Front
<1> HIDE DEF u, m
<1>4. /\ SubSeq(u, 1, m) \in Seq(Nat) /\ Len(SubSeq(u, 1, m)) = m
      /\ \A k \in 1 .. m : SubSeq(u, 1, m)[k] = u[k]
  <2>1. \A k \in 1 .. m : u[k] \in Nat
    BY <1>1, <1>2
  <2>2. SubSeq(u, 1, m) = [k \in 1 .. m |-> u[k]]
    BY <1>1, <1>2
  <2> QED
    BY <2>1, <2>2, <1>2
<1> QED
  BY <1>1, <1>2, <1>3, <1>4

(* Replacing the element at n by the last one loses just the element at n, *)
(* and keeps no element twice.                                             *)
LEMMA LastForNth ==
  ASSUME NEW s \in Seq(Nat), NEW t \in Seq(Nat), NEW n \in 1 .. Len(s),
         IsInjective(s), Len(t) = Len(s) - 1,
         \A k \in 1 .. Len(t) : t[k] = IF k = n THEN s[Len(s)] ELSE s[k]
  PROVE  /\ IsInjective(t)
         /\ ToSet(t) = ToSet(s) \ {s[n]}
<1> DEFINE m == Len(t)
<1>0. /\ m \in Nat /\ n \in 1 .. m + 1
      /\ DOMAIN s = 1 .. m + 1 /\ DOMAIN t = 1 .. m
      /\ \A k \in 1 .. m : t[k] = IF k = n THEN s[m + 1] ELSE s[k]
  <2>1. Len(s) = m + 1 /\ m \in Nat
    OBVIOUS
  <2> QED
    BY <2>1
<1> HIDE DEF m
<1>1. \A a, b \in 1 .. m + 1 : s[a] = s[b] => a = b
  BY <1>0 DEF IsInjective
<1>2. ASSUME NEW a \in 1 .. m, NEW b \in 1 .. m, t[a] = t[b]
      PROVE  a = b
  <2>1. /\ a \in 1 .. m + 1 /\ b \in 1 .. m + 1 /\ m + 1 \in 1 .. m + 1
        /\ a # m + 1 /\ b # m + 1
    BY <1>0
  <2> QED
    BY <1>0, <1>1, <1>2, <2>1
<1>3. IsInjective(t)
  BY <1>0, <1>2 DEF IsInjective
<1>4. ASSUME NEW k \in 1 .. m PROVE t[k] \in ToSet(s) \ {s[n]}
  <2>1. k \in 1 .. m + 1 /\ m + 1 \in 1 .. m + 1 /\ k # m + 1
    BY <1>0
  <2>2. t[k] \in ToSet(s)
    BY <1>0, <2>1 DEF ToSet
  <2>3. t[k] # s[n]
    BY <1>0, <1>1, <2>1
  <2> QED
    BY <2>2, <2>3
<1>5. ASSUME NEW k \in 1 .. m + 1, k # n PROVE s[k] \in ToSet(t)
  <2>1. CASE k = m + 1
    <3>1. n \in 1 .. m
      BY <1>0, <1>5, <2>1
    <3> QED
      BY <1>0, <2>1, <3>1 DEF ToSet
  <2>2. CASE k # m + 1
    <3>1. k \in 1 .. m
      BY <1>0, <2>2
    <3> QED
      BY <1>0, <1>5, <3>1 DEF ToSet
  <2> QED
    BY <2>1, <2>2
<1>6. ASSUME NEW x \in ToSet(t) PROVE x \in ToSet(s) \ {s[n]}
  <2>1. PICK k \in 1 .. m : x = t[k]
    BY <1>0 DEF ToSet
  <2> QED
    BY <2>1, <1>4
<1>7. ASSUME NEW x \in ToSet(s), x # s[n] PROVE x \in ToSet(t)
  <2>1. PICK k \in 1 .. m + 1 : x = s[k]
    BY <1>0 DEF ToSet
  <2> QED
    BY <1>7, <2>1, <1>5
<1> QED
  BY <1>3, <1>6, <1>7

LEMMA SwapRemovedSet ==
  ASSUME NEW s \in Seq(Nat), NEW n \in 1 .. Len(s), IsInjective(s)
  PROVE  /\ IsInjective(swap_remove(s, n))
         /\ ToSet(swap_remove(s, n)) = ToSet(s) \ {s[n]}
<1>1. /\ swap_remove(s, n) \in Seq(Nat)
      /\ Len(swap_remove(s, n)) = Len(s) - 1
      /\ \A k \in 1 .. Len(s) - 1 :
           swap_remove(s, n)[k] = IF k = n THEN s[Len(s)] ELSE s[k]
  BY SwapRemoved, Zenon
<1>2. PICK t \in Seq(Nat) : t = swap_remove(s, n)
  BY <1>1, Zenon
<1>3. /\ Len(t) = Len(s) - 1
      /\ \A k \in 1 .. Len(t) : t[k] = IF k = n THEN s[Len(s)] ELSE s[k]
  BY <1>1, <1>2, Zenon
<1>4. IsInjective(t) /\ ToSet(t) = ToSet(s) \ {s[n]}
  BY <1>3, LastForNth
<1> QED
  BY <1>2, <1>4, Zenon

(* No request is pushed twice.                                             *)
Fresh == /\ IsInjective(sender_buffer.elems)
         /\ ToSet(sender_buffer.elems) \subseteq 1 .. arrived

(* Half way through the filter: what is left is of the batch, what is      *)
(* missing had been cancelled, and nothing before i had been from the      *)
(* start.                                                                  *)
FilterInv ==
  /\ senders \in Seq(Nat) /\ i \in Nat \ {0}
  /\ stale \subseteq gone
  /\ thread # "recv" =>
       /\ IsInjective(senders)
       /\ ToSet(senders) \subseteq taken
       /\ taken \ ToSet(senders) \subseteq gone
       /\ \A k \in 1 .. Len(senders) : k < i => senders[k] \notin stale
  /\ thread = "predict" => i > Len(senders)

LEMMA NextFresh ==
  ASSUME RoomInv, Fresh, [Next]_vars
  PROVE  Fresh'
<1>1. CASE PushPair
  <2> DEFINE q == sender_buffer.elems
  <2>1. /\ q \in Seq(Nat) /\ arrived \in Nat /\ arrived' = arrived + 1
        /\ sender_buffer'.elems = Append(q, arrived + 1)
    BY <1>1 DEF RoomInv, Vec, PushPair, push
  <2>2. /\ Len(q) \in Nat /\ DOMAIN q = 1 .. Len(q)
        /\ DOMAIN Append(q, arrived + 1) = 1 .. Len(q) + 1
        /\ \A k \in 1 .. Len(q) : Append(q, arrived + 1)[k] = q[k]
        /\ Append(q, arrived + 1)[Len(q) + 1] = arrived + 1
    BY <2>1
  <2>3. \A k \in 1 .. Len(q) : q[k] \in 1 .. arrived
    BY <2>2 DEF Fresh, ToSet
  <2>4. IsInjective(Append(q, arrived + 1))
    BY <2>1, <2>2, <2>3 DEF Fresh, IsInjective
  <2>5. ToSet(Append(q, arrived + 1)) \subseteq 1 .. arrived + 1
    BY <2>1, <2>2, <2>3 DEF ToSet
  <2> QED
    BY <2>1, <2>4, <2>5 DEF Fresh
<1>2. CASE SwapReplace
  <2>1. sender_buffer'.elems = <<>>
    BY <1>2 DEF SwapReplace, with_capacity
  <2> QED
    BY <2>1 DEF Fresh, IsInjective, ToSet
<1>3. CASE UNCHANGED <<arrived, sender_buffer>>
  BY <1>3 DEF Fresh
<1> QED
  BY <1>1, <1>2, <1>3
  DEF Next, Push, StartDrain, DrainPush, DrainEnd, Take, RemoveCanceled, Keep,
      Filtered, Predict, Cancel, vars, accumulatorVars

LEMMA NextFilterInv ==
  ASSUME RoomInv, Fresh, PairsAligned, FilterInv, [Next]_vars
  PROVE  FilterInv'
<1> USE DEF FilterInv, PairsAligned
<1>1. CASE Push \/ StartDrain \/ DrainPush \/ DrainEnd
  BY <1>1 DEF Push, StartDrain, DrainPush, DrainEnd, threadVars
<1>2. CASE Take
  BY <1>2 DEF Take, RoomInv, Vec, Fresh
<1>3. CASE RemoveCanceled
  <2>1. /\ i \in 1 .. Len(senders) /\ senders[i] \in gone
        /\ senders' = swap_remove(senders, i) /\ thread = "filter"
        /\ UNCHANGED <<thread, i, taken, stale, gone>>
    BY <1>3 DEF RemoveCanceled
  <2> DEFINE t == swap_remove(senders, i)
  <2>2. senders \in Seq(Nat) /\ IsInjective(senders)
    BY <2>1
  <2>3. /\ t \in Seq(Nat) /\ Len(t) = Len(senders) - 1
        /\ \A k \in 1 .. Len(senders) - 1 :
             t[k] = IF k = i THEN senders[Len(senders)] ELSE senders[k]
    BY <2>1, <2>2, SwapRemoved
  <2>4. IsInjective(t) /\ ToSet(t) = ToSet(senders) \ {senders[i]}
    BY <2>1, <2>2, SwapRemovedSet
  <2> HIDE DEF t
  <2>5. ASSUME NEW k \in 1 .. Len(t), k < i PROVE t[k] \notin stale
    <3>1. k \in 1 .. Len(senders) - 1 /\ k \in 1 .. Len(senders) /\ k # i
      BY <2>1, <2>2, <2>3, <2>5
    <3> QED
      BY <2>1, <2>3, <2>5, <3>1
  <2>6. senders' = t /\ thread' = "filter" /\ thread = "filter"
    BY <2>1 DEF t
  <2>7. /\ ToSet(t) \subseteq taken
        /\ taken \ ToSet(t) \subseteq gone
    BY <2>1, <2>4
  <2> QED
    BY <2>1, <2>3, <2>4, <2>5, <2>6, <2>7
<1>4. CASE Keep
  BY <1>4 DEF Keep
<1>5. CASE Filtered
  BY <1>5 DEF Filtered
<1>6. CASE Predict
  BY <1>6 DEF Predict
<1>7. CASE Cancel
  BY <1>7 DEF Cancel, threadVars
<1>8. CASE UNCHANGED vars
  BY <1>8 DEF vars, threadVars
<1> QED
  BY <1>1, <1>2, <1>3, <1>4, <1>5, <1>6, <1>7, <1>8 DEF Next

(* What predict_batch gets is the batch that was taken, in some order,     *)
(* less what was cancelled: all of it that was cancelled before the filter *)
(* began, and nothing that was not.                                        *)
THEOREM FilterIsExact == Spec => []FilterExact
<1>1. Init => Fresh /\ FilterInv
  BY DEF Init, Fresh, FilterInv, with_capacity, IsInjective, ToSet
<1>2. RoomInv /\ Fresh /\ [Next]_vars => Fresh'
  BY NextFresh
<1>3. RoomInv /\ Fresh /\ PairsAligned /\ FilterInv /\ [Next]_vars => FilterInv'
  BY NextFilterInv
<1>4. FilterInv => FilterExact
  BY DEF FilterInv, FilterExact, ToSet
<1>5. QED
  BY <1>1, <1>2, <1>3, <1>4, RoomInvHolds, PairsStayAligned, PTL DEF Spec
=============================================================================
