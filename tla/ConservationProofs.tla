------------------------- MODULE ConservationProofs -------------------------
(***************************************************************************)
(* No request is lost, none is in two places, and the length a worker      *)
(* shows is that of its batch: RequestConservation and SnapshotHonest, for *)
(* every pool, batch and queue size and every set of calls.                *)
(***************************************************************************)
EXTENDS BatchinfProofs

-----------------------------------------------------------------------------
(***************************************************************************)
(* Who holds a request.                                                    *)
(***************************************************************************)
Held(w) == ToSet(queue[w]) \cup buffer[w] \cup job[w] \cup running[w]

Distinct(q) == \A i, j \in DOMAIN q : q[i] = q[j] => i = j

(* Within a worker a request is in one place.                              *)
OnePlace(w) ==
  /\ Distinct(queue[w])
  /\ ToSet(queue[w]) \cap buffer[w] = {}
  /\ ToSet(queue[w]) \cap job[w] = {}
  /\ ToSet(queue[w]) \cap running[w] = {}
  /\ buffer[w] \cap job[w] = {}
  /\ buffer[w] \cap running[w] = {}
  /\ job[w] \cap running[w] = {}

OneWorker == \A w, v \in Workers : w # v => Held(w) \cap Held(v) = {}

Placed(c) == \E w \in Workers : c \in Held(w)

(* A caller that waits without an answer has its request somewhere, an     *)
(* answered one nowhere, and one that has not queued it yet nowhere.       *)
Owed(c) ==
  /\ pc[c] = "await" => (reply[c] = "none" <=> Placed(c))
  /\ pc[c] \notin {"await", "done"} => ~Placed(c) /\ reply[c] = "none"

(* The slot the accumulator reserved is free, so its send overwrites       *)
(* nothing; and a thread that takes a batch does not hold another.         *)
Slots(w) ==
  /\ accPc[w] \in {"permit", "send"} => job[w] = {}
  /\ thPc[w] \notin {"predict", "fail_batch"} => running[w] = {}

ConservationInv ==
  /\ \A w \in Workers : OnePlace(w) /\ Slots(w)
  /\ OneWorker
  /\ \A c \in Calls : Owed(c)

-----------------------------------------------------------------------------
(***************************************************************************)
(* The request channel as a set.                                           *)
(***************************************************************************)
LEMMA EmptyQueue == ToSet(<<>>) = {} /\ Distinct(<<>>)
PROOF
  BY DEF ToSet, Distinct

LEMMA TailSet ==
  ASSUME NEW S, NEW q \in Seq(S), q # <<>>, Distinct(q)
  PROVE  /\ Head(q) \in ToSet(q)
         /\ ToSet(Tail(q)) = ToSet(q) \ {Head(q)}
         /\ Distinct(Tail(q))
PROOF
  <1>1. /\ Len(q) \in Nat \ {0} /\ DOMAIN q = 1 .. Len(q) /\ Head(q) = q[1]
        /\ Tail(q) \in Seq(S) /\ DOMAIN Tail(q) = 1 .. Len(q) - 1
        /\ \A i \in 1 .. Len(q) - 1 : Tail(q)[i] = q[i + 1]
    OBVIOUS
  <1>2. ToSet(Tail(q)) \subseteq ToSet(q) \ {Head(q)}
    BY <1>1 DEF ToSet, Distinct
  <1>3. ASSUME NEW x \in ToSet(q), x # Head(q)
        PROVE  x \in ToSet(Tail(q))
    <2>1. PICK i \in 1 .. Len(q) : q[i] = x
      BY <1>1 DEF ToSet
    <2>2. i - 1 \in 1 .. Len(q) - 1 /\ Tail(q)[i - 1] = x
      BY <1>1, <1>3, <2>1
    <2> QED
      BY <1>1, <2>2 DEF ToSet
  <1>4. Distinct(Tail(q))
    BY <1>1 DEF Distinct
  <1>5. Head(q) \in ToSet(q)
    BY <1>1 DEF ToSet
  <1> QED
    BY <1>2, <1>3, <1>4, <1>5

LEMMA AppendSet ==
  ASSUME NEW S, NEW q \in Seq(S), NEW c \in S
  PROVE  /\ ToSet(Append(q, c)) = ToSet(q) \cup {c}
         /\ Distinct(q) /\ c \notin ToSet(q) => Distinct(Append(q, c))
PROOF
  <1>1. /\ Len(q) \in Nat /\ DOMAIN q = 1 .. Len(q)
        /\ DOMAIN Append(q, c) = 1 .. Len(q) + 1
        /\ \A i \in 1 .. Len(q) : Append(q, c)[i] = q[i]
        /\ Append(q, c)[Len(q) + 1] = c
    OBVIOUS
  <1>2. 1 .. Len(q) + 1 = (1 .. Len(q)) \cup {Len(q) + 1}
    BY <1>1
  <1> QED
    BY <1>1, <1>2 DEF ToSet, Distinct

-----------------------------------------------------------------------------
(***************************************************************************)
(* What a step of worker v may do with requests: move them within v, or    *)
(* answer those of S with r and let go of them.  Besides S it may let go   *)
(* only of requests nobody waits for.                                      *)
(***************************************************************************)
Moves(v, S, r) ==
  /\ UNCHANGED pc
  /\ r # "none" /\ Answer(S, r)
  /\ OnePlace(v)' /\ Slots(v)'
  /\ Held(v)' \subseteq Held(v)
  /\ S \subseteq Held(v) \ Held(v)'
  /\ \A c \in Held(v) \ Held(v)' : c \in S \/ pc[c] # "await"

LEMMA NoAnswer ==
  ASSUME TypeOK, UNCHANGED reply
  PROVE  Answer({}, "Dropped")
PROOF
  BY DEF Answer, TypeOK, CallTypeOK

LEMMA UntouchedHeld ==
  ASSUME NEW w, Untouched(w)
  PROVE  /\ Held(w)' = Held(w)
         /\ OnePlace(w) => OnePlace(w)'
         /\ Slots(w) => Slots(w)'
PROOF
  BY DEF Untouched, Held, OnePlace, Slots, Distinct, ToSet

LEMMA MovesConserve ==
  ASSUME TypeOK, ConservationInv, NEW v \in Workers, NEW S, NEW r,
         Moves(v, S, r), \A w \in Workers \ {v} : Untouched(w)
  PROVE  ConservationInv'
PROOF
  <1>1. \A w \in Workers \ {v} : Held(w)' = Held(w) /\ OnePlace(w)' /\ Slots(w)'
    BY UntouchedHeld DEF ConservationInv
  <1>2. \A w \in Workers : OnePlace(w)' /\ Slots(w)'
    BY <1>1 DEF Moves
  <1>3. OneWorker'
    BY <1>1 DEF OneWorker, ConservationInv, Moves
  <1>4. ASSUME NEW c \in Calls PROVE Owed(c)'
    <2>1. Owed(c)
      BY DEF ConservationInv
    <2>2. CASE c \in S
      <3>1. c \in Held(v) /\ c \notin Held(v)'
        BY <2>2 DEF Moves
      <3>2. Placed(c) /\ ~Placed(c)'
        BY <1>1, <3>1 DEF Placed, ConservationInv, OneWorker
      <3>3. pc'[c] = pc[c] /\ (pc[c] = "await" => reply'[c] # "none")
        BY <2>2 DEF Moves, Answer
      <3> QED
        BY <2>1, <3>2, <3>3 DEF Owed
    <2>3. CASE c \notin S
      <3>1. reply'[c] = reply[c] /\ pc'[c] = pc[c]
        BY <2>3 DEF Moves, Answer
      <3>2. Placed(c)' => Placed(c)
        BY <1>1 DEF Placed, Moves
      <3>3. pc[c] = "await" /\ Placed(c) => Placed(c)'
        BY <1>1, <2>3 DEF Placed, Moves
      <3> QED
        BY <2>1, <3>1, <3>2, <3>3 DEF Owed
    <2> QED
      BY <2>2, <2>3
  <1> QED
    BY <1>2, <1>3, <1>4 DEF ConservationInv

(* A step that touches no place and no reply.                              *)
LEMMA StillMoves ==
  ASSUME TypeOK, NEW v \in Workers, OnePlace(v), Slots(v)', UNCHANGED <<pc, reply>>,
         queue'[v] = queue[v], buffer'[v] = buffer[v], job'[v] = job[v],
         running'[v] = running[v]
  PROVE  Moves(v, {}, "Dropped")
PROOF
  BY NoAnswer DEF Moves, Held, OnePlace, Distinct, ToSet

LEMMA PopMoves ==
  ASSUME TypeOK, ConservationInv, NEW v \in Workers, Pop(v) \/ DrainPop(v)
  PROVE  Moves(v, {}, "Dropped")
PROOF
  <1> USE DEF TypeOK, WorkerTypeOK
  <1> DEFINE h == Head(queue[v])
  <1>1. queue[v] \in Seq(Calls) /\ queue[v] # <<>> /\ OnePlace(v) /\ Slots(v)
    BY DEF Pop, DrainPop, ConservationInv
  <1>2. /\ queue'[v] = Tail(queue[v]) /\ buffer'[v] = buffer[v] \cup {h}
        /\ job'[v] = job[v] /\ running'[v] = running[v]
        /\ UNCHANGED <<pc, reply, thPc>> /\ accPc'[v] \in {"popped", "drain"}
    BY DEF Pop, DrainPop, othersVars, thVars, Goto
  <1>3. /\ h \in ToSet(queue[v])
        /\ ToSet(Tail(queue[v])) = ToSet(queue[v]) \ {h}
        /\ Distinct(Tail(queue[v]))
    BY <1>1, TailSet DEF OnePlace
  <1>4. Held(v)' = Held(v)
    BY <1>2, <1>3 DEF Held
  <1>5. OnePlace(v)' /\ Slots(v)'
    BY <1>1, <1>2, <1>3 DEF OnePlace, Slots
  <1> QED
    BY <1>2, <1>4, <1>5, NoAnswer DEF Moves

(* A frame is dropped, with S of the request channel.                      *)
LEMMA FrameMoves ==
  ASSUME TypeOK, ConservationInv, NEW v \in Workers, NEW S, DropFrame(v, S),
         UNCHANGED <<pc, running, thPc>>,
         \/ S = {} /\ queue'[v] = queue[v]
         \/ S = ToSet(queue[v]) /\ queue'[v] = <<>>,
         accPc'[v] \notin {"permit", "send"}
  PROVE  Moves(v, S \cup buffer[v] \cup FreedJob(v), "Dropped")
PROOF
  <1> USE DEF TypeOK, WorkerTypeOK
  <1>1. OnePlace(v) /\ Slots(v)
    BY DEF ConservationInv
  <1>2. /\ buffer'[v] = {} /\ job'[v] = job[v] \ FreedJob(v)
        /\ running'[v] = running[v]
        /\ Answer(S \cup buffer[v] \cup FreedJob(v), "Dropped")
    BY DEF DropFrame, Empty, DropSenders
  <1>3. FreedJob(v) \subseteq job[v]
    BY DEF FreedJob
  <1>4. ToSet(queue'[v]) = ToSet(queue[v]) \ S /\ Distinct(queue'[v])
    BY <1>1, EmptyQueue DEF OnePlace
  <1>5. S \subseteq ToSet(queue[v])
    OBVIOUS
  <1>6. OnePlace(v)' /\ Slots(v)'
    BY <1>1, <1>2, <1>3, <1>4 DEF OnePlace, Slots
  <1>7. Held(v)' = (ToSet(queue[v]) \ S) \cup (job[v] \ FreedJob(v)) \cup running[v]
    BY <1>2, <1>4 DEF Held
  <1>8. Held(v)' = Held(v) \ (S \cup buffer[v] \cup FreedJob(v))
    BY <1>1, <1>3, <1>5, <1>7 DEF Held, OnePlace
  <1>9. S \cup buffer[v] \cup FreedJob(v) \subseteq Held(v)
    BY <1>3, <1>5 DEF Held
  <1> QED
    BY <1>2, <1>6, <1>8, <1>9 DEF Moves

-----------------------------------------------------------------------------
LEMMA AccumulatorMoves ==
  ASSUME TypeOK, ConservationInv, NEW v \in Workers,
         AccumulatorProgress(v) \/ HookPanic(v)
  PROVE  \E S, r : Moves(v, S, r)
PROOF
  <1> USE DEF TypeOK, WorkerTypeOK, othersVars, thVars, Goto
  <1>1. OnePlace(v) /\ Slots(v)
    BY DEF ConservationInv
  <1>2. CASE Pop(v) \/ DrainPop(v)
    BY <1>2, PopMoves
  <1>3. CASE NotifyOne(v) \/ IncrementLen(v) \/ BatchTimeout(v) \/ JobClosed(v)
    BY <1>1, <1>3, StillMoves
    DEF NotifyOne, IncrementLen, BatchTimeout, JobClosed, Slots
  <1>4. CASE CheckPredictor(v) \/ Ready(v) \/ Reserve(v) \/ CheckAgain(v)
    BY <1>1, <1>4, StillMoves DEF CheckPredictor, Ready, Reserve, CheckAgain, Slots
  <1>5. CASE ResetBatchLen(v) \/ GuardSetDead(v) \/ GuardNotify(v)
    BY <1>1, <1>5, StillMoves DEF ResetBatchLen, GuardSetDead, GuardNotify, Slots
  <1>6. CASE Exit(v) \/ HookPanic(v)
    BY <1>6, FrameMoves DEF Exit, HookPanic
  <1>7. CASE Crash(v)
    BY <1>7, FrameMoves DEF Crash
  <1>8. CASE DrainDone(v) \/ ReserveClosed(v)
    <2>1. PICK r \in {"InternalError", "Dropped"} : Answer(buffer[v], r)
      BY <1>8 DEF DrainDone, ReserveClosed, DropSenders
    <2>2. /\ buffer'[v] = {} /\ queue'[v] = queue[v] /\ job'[v] = job[v]
          /\ running'[v] = running[v] /\ UNCHANGED <<pc, thPc>>
          /\ accPc'[v] \notin {"permit", "send"}
      BY <1>8 DEF DrainDone, ReserveClosed, Empty
    <2>3. OnePlace(v)' /\ Slots(v)'
      BY <1>1, <2>2 DEF OnePlace, Slots, Distinct, ToSet
    <2>4. Held(v)' = Held(v) \ buffer[v] /\ buffer[v] \subseteq Held(v)
      BY <1>1, <2>2 DEF Held, OnePlace
    <2>5. Moves(v, buffer[v], r)
      BY <2>1, <2>2, <2>3, <2>4 DEF Moves
    <2> QED
      BY <2>5
  <1>9. CASE Send(v)
    <2>1. /\ job[v] = {} /\ job'[v] = buffer[v] /\ buffer'[v] = {}
          /\ queue'[v] = queue[v] /\ running'[v] = running[v]
          /\ UNCHANGED <<pc, reply, thPc>> /\ accPc'[v] = "sent"
      BY <1>1, <1>9 DEF Send, Empty, Slots
    <2>2. OnePlace(v)' /\ Slots(v)' /\ Held(v)' = Held(v)
      BY <1>1, <2>1 DEF OnePlace, Slots, Held, Distinct, ToSet
    <2>3. Moves(v, {}, "Dropped")
      BY <2>1, <2>2, NoAnswer DEF Moves
    <2> QED
      BY <2>3
  <1>10. CASE DropReceiver(v)
    <2>1. /\ Answer(ToSet(queue[v]), "Dropped") /\ queue'[v] = <<>>
          /\ buffer'[v] = buffer[v] /\ job'[v] = job[v]
          /\ running'[v] = running[v] /\ UNCHANGED <<pc, thPc>>
          /\ accPc'[v] = "gone"
      BY <1>10 DEF DropReceiver, DropSenders
    <2>2. OnePlace(v)' /\ Slots(v)'
      BY <1>1, <2>1, EmptyQueue DEF OnePlace, Slots
    <2>3. /\ Held(v)' = Held(v) \ ToSet(queue[v])
          /\ ToSet(queue[v]) \subseteq Held(v)
      BY <1>1, <2>1, EmptyQueue DEF Held, OnePlace
    <2>4. Moves(v, ToSet(queue[v]), "Dropped")
      BY <2>1, <2>2, <2>3 DEF Moves
    <2> QED
      BY <2>4
  <1> QED
    BY <1>2, <1>3, <1>4, <1>5, <1>6, <1>7, <1>8, <1>9, <1>10
    DEF AccumulatorProgress

LEMMA ThreadMoves ==
  ASSUME TypeOK, ConservationInv, NEW v \in Workers,
         ThreadProgress(v) \/ PredictPanics(v) \/ ThreadHookPanic(v)
  PROVE  \E S, r : Moves(v, S, r)
PROOF
  <1> USE DEF TypeOK, WorkerTypeOK, outsideVars, wordVars, accVars, Step,
              set_predictor_state
  <1>1. OnePlace(v) /\ Slots(v)
    BY DEF ConservationInv
  <1>2. CASE TakeBatch(v)
    <2> DEFINE live == {c \in job[v] : pc[c] = "await"}
    <2>1. /\ running[v] = {} /\ running'[v] = live /\ job'[v] = {}
          /\ queue'[v] = queue[v] /\ buffer'[v] = buffer[v]
          /\ UNCHANGED <<pc, reply, accPc>>
          /\ thPc'[v] # "predict" => live = {}
      BY <1>1, <1>2 DEF TakeBatch, Slots
    <2>2. OnePlace(v)' /\ Slots(v)'
      BY <1>1, <2>1 DEF OnePlace, Slots, Distinct, ToSet
    <2>3. /\ Held(v)' \subseteq Held(v)
          /\ \A c \in Held(v) \ Held(v)' : pc[c] # "await"
      BY <2>1 DEF Held, ToSet
    <2>4. Moves(v, {}, "Dropped")
      BY <2>1, <2>2, <2>3, NoAnswer DEF Moves
    <2> QED
      BY <2>4
  <1>3. CASE JobsClosed(v) \/ PredictPanics(v) \/ RebuildSucceeds(v)
             \/ RebuildGivesUp(v)
    BY <1>1, <1>3, StillMoves
    DEF JobsClosed, PredictPanics, RebuildSucceeds, RebuildGivesUp, Slots
  <1>4. CASE SetAlive(v) \/ NotifyAlive(v) \/ SetDead(v) \/ NotifyDead(v)
    BY <1>1, <1>4, StillMoves
    DEF SetAlive, NotifyAlive, SetDead, NotifyDead, Slots
  <1>5. CASE PredictReturns(v) \/ FailBatch(v) \/ ThreadHookPanic(v)
    <2>1. PICK r : r # "none" /\ Answer(running[v], r)
      BY <1>5, ConfigAssumption
      DEF PredictReturns, FailBatch, ThreadHookPanic, DropSenders, Returned
    <2>2. /\ running'[v] = {} /\ queue'[v] = queue[v] /\ job'[v] = job[v]
          /\ buffer'[v] = buffer[v] /\ UNCHANGED <<pc, accPc>>
      BY <1>5 DEF PredictReturns, FailBatch, ThreadHookPanic
    <2>3. OnePlace(v)' /\ Slots(v)'
      BY <1>1, <2>2 DEF OnePlace, Slots, Distinct, ToSet
    <2>4. Held(v)' = Held(v) \ running[v] /\ running[v] \subseteq Held(v)
      BY <1>1, <2>2 DEF Held, OnePlace
    <2>5. Moves(v, running[v], r)
      BY <2>1, <2>2, <2>3, <2>4 DEF Moves
    <2> QED
      BY <2>5
  <1>6. CASE FlushBatch(v) \/ DropJobReceiver(v)
    <2>1. PICK r : r # "none" /\ Answer(job[v], r)
      BY <1>6 DEF FlushBatch, DropJobReceiver, DropSenders
    <2>2. /\ job'[v] = {} /\ queue'[v] = queue[v] /\ running'[v] = running[v]
          /\ buffer'[v] = buffer[v] /\ UNCHANGED <<pc, accPc>>
          /\ thPc[v] \notin {"predict", "fail_batch"}
      BY <1>6 DEF FlushBatch, DropJobReceiver
    <2>3. OnePlace(v)' /\ Slots(v)'
      BY <1>1, <2>2 DEF OnePlace, Slots, Distinct, ToSet
    <2>4. Held(v)' = Held(v) \ job[v] /\ job[v] \subseteq Held(v)
      BY <1>1, <2>2 DEF Held, OnePlace
    <2>5. Moves(v, job[v], r)
      BY <2>1, <2>2, <2>3, <2>4 DEF Moves
    <2> QED
      BY <2>5
  <1> QED
    BY <1>2, <1>3, <1>4, <1>5, <1>6 DEF ThreadProgress

(* A step of a call that does not queue its request moves the call alone.  *)
Quiet(c) ==
  /\ UNCHANGED <<reply, workerVars>>
  /\ pc[c] # "done"
  /\ \E l \in CallPc \ {"await"} :
       /\ pc' = [pc EXCEPT ![c] = l]
       /\ pc[c] = "await" => l = "done"

LEMMA NextWorkerQuiet ==
  ASSUME NEW c \in Calls, NEW h, NextWorker(c, h)
  PROVE  /\ reply' = reply
         /\ \E l \in CallPc \ {"await"} : pc' = [pc EXCEPT ![c] = l]
PROOF
  <1>1. CASE Advance(c, h)
    BY <1>1 DEF Advance, CallPc
  <1>2. CASE QueueFull(c) /\ c \in TryCalls
    BY <1>2 DEF QueueFull, Finish, CallPc
  <1>3. CASE QueueFull(c) /\ c \notin TryCalls
    BY <1>3 DEF QueueFull, CallPc
  <1>4. CASE Finish(c, "NoAvailableWorkersError")
    BY <1>4 DEF Finish, CallPc
  <1> QED
    BY <1>1, <1>2, <1>3, <1>4 DEF NextWorker

LEMMA CallQuiet ==
  ASSUME NEW c \in Calls, Begin(c) \/ CallProgress(c) \/ DropFuture(c),
         ~PushSuccess(c)
  PROVE  Quiet(c)
PROOF
  <1>1. ASSUME NEW h, NextWorker(c, h), UNCHANGED workerVars,
               pc[c] \notin {"done", "await"}
        PROVE  Quiet(c)
    BY <1>1, NextWorkerQuiet DEF Quiet
  <1>2. CASE Begin(c)
    BY <1>2 DEF Begin, StartWalk, Quiet, CallPc
  <1>3. CASE ProbePrimary(c)
    BY <1>1, <1>3 DEF ProbePrimary, Quiet, CallPc
  <1>4. CASE ProbeSecondary(c)
    BY <1>4 DEF ProbeSecondary, Quiet, CallPc
  <1>5. CASE ProbePredictor(c)
    BY <1>1, <1>5 DEF ProbePredictor, Quiet, CallPc
  <1>6. CASE IsRebuilding(c)
    BY <1>1, <1>6 DEF IsRebuilding
  <1>7. CASE PushFull(c)
    BY <1>1, <1>7 DEF PushFull
  <1>8. CASE PushClosed(c)
    BY <1>1, <1>8 DEF PushClosed
  <1>9. CASE Enable(c)
    BY <1>9 DEF Enable, StartWalk, Quiet, CallPc
  <1>10. CASE Wake(c)
    BY <1>10 DEF Wake, Quiet, CallPc
  <1>11. CASE Receive(c)
    BY <1>11 DEF Receive, Finish, Quiet, CallPc
  <1>12. CASE DropFuture(c)
    BY <1>12 DEF DropFuture, Finish, Quiet, CallPc
  <1> QED
    BY <1>2, <1>3, <1>4, <1>5, <1>6, <1>7, <1>8, <1>9, <1>10, <1>11, <1>12
    DEF CallProgress

(* The steps of a call: it puts its request in a channel, from where it    *)
(* was in none, or leaves without one, or with its answer or its deadline. *)
LEMMA CallConserves ==
  ASSUME TypeOK, ConservationInv, NEW c \in Calls,
         Begin(c) \/ CallProgress(c) \/ DropFuture(c)
  PROVE  ConservationInv'
PROOF
  <1>1. CASE PushSuccess(c)
    <2>0. PICK s \in Workers : s = sink[c]
      BY DEF TypeOK, CallTypeOK
    <2>1. /\ s \in Workers /\ queue[s] \in Seq(Calls)
          /\ queue'[s] = Append(queue[s], c) /\ reply' = reply
          /\ pc[c] = "push" /\ pc' = [pc EXCEPT ![c] = "await"]
          /\ \A w \in Workers \ {s} : Untouched(w)
          /\ buffer'[s] = buffer[s] /\ job'[s] = job[s]
          /\ running'[s] = running[s] /\ accPc' = accPc /\ thPc' = thPc
      BY <1>1, <2>0 DEF PushSuccess, TypeOK, CallTypeOK, WorkerTypeOK, Untouched,
                  wordVars, accVars, thVars
    <2>2. ~Placed(c) /\ reply[c] = "none" /\ OnePlace(s) /\ Slots(s)
      BY <2>1 DEF ConservationInv, Owed
    <2>3. c \notin Held(s)
      BY <2>1, <2>2 DEF Placed
    <2>4. /\ ToSet(queue'[s]) = ToSet(queue[s]) \cup {c}
          /\ Distinct(queue'[s])
      BY <2>1, <2>2, <2>3, AppendSet DEF OnePlace, Held
    <2>5. OnePlace(s)' /\ Slots(s)' /\ Held(s)' = Held(s) \cup {c}
      BY <2>1, <2>2, <2>3, <2>4 DEF OnePlace, Slots, Held
    <2>6. \A w \in Workers \ {s} : Held(w)' = Held(w) /\ OnePlace(w)' /\ Slots(w)'
      BY <2>1, UntouchedHeld DEF ConservationInv
    <2>7. OneWorker'
      BY <2>1, <2>2, <2>5, <2>6 DEF OneWorker, ConservationInv, Placed
    <2>8. \A d \in Calls : Placed(d)' <=> Placed(d) \/ d = c
      BY <2>1, <2>5, <2>6 DEF Placed
    <2>9. \A d \in Calls : Owed(d)'
      BY <2>1, <2>2, <2>8 DEF Owed, ConservationInv, TypeOK, CallTypeOK
    <2> QED
      BY <2>1, <2>5, <2>6, <2>7, <2>9 DEF ConservationInv
  <1>2. CASE ~PushSuccess(c)
    <2>1. Quiet(c)
      BY <1>2, CallQuiet
    <2>2. \A w \in Workers : Untouched(w)
      BY <2>1 DEF Quiet, workerVars, wordVars, accVars, thVars, Untouched
    <2>3. \A w \in Workers : OnePlace(w)' /\ Slots(w)' /\ Held(w)' = Held(w)
      BY <2>2, UntouchedHeld DEF ConservationInv
    <2>4. OneWorker' /\ \A d \in Calls : Placed(d)' <=> Placed(d)
      BY <2>3 DEF Placed, OneWorker, ConservationInv
    <2>5. /\ reply' = reply
          /\ \A d \in Calls \ {c} : pc'[d] = pc[d]
          /\ pc[c] # "done"
          /\ pc'[c] # "await"
          /\ pc[c] = "await" => pc'[c] = "done"
      BY <2>1 DEF Quiet, TypeOK, CallTypeOK
    <2>6. ASSUME NEW d \in Calls PROVE Owed(d)'
      <3>1. CASE d = c
        BY <2>4, <2>5, <3>1 DEF Owed, ConservationInv
      <3>2. CASE d # c
        BY <2>4, <2>5, <3>2 DEF Owed, ConservationInv
      <3> QED
        BY <3>1, <3>2
    <2> QED
      BY <2>3, <2>4, <2>6 DEF ConservationInv
  <1> QED
    BY <1>1, <1>2

LEMMA InitConservation == Init => ConservationInv
PROOF
  BY EmptyQueue
  DEF Init, ConservationInv, OnePlace, Slots, OneWorker, Held, Owed, Placed

LEMMA NextConservation == TypeOK /\ ConservationInv /\ [Next]_vars => ConservationInv'
PROOF
  <1> SUFFICES ASSUME TypeOK, ConservationInv, [Next]_vars PROVE ConservationInv'
    OBVIOUS
  <1>1. ASSUME NEW c \in Calls, Begin(c) \/ CallProgress(c) \/ DropFuture(c)
        PROVE  ConservationInv'
    BY <1>1, CallConserves
  <1>2. ASSUME NEW v \in Workers, AccumulatorProgress(v) \/ HookPanic(v)
        PROVE  ConservationInv'
    BY <1>2, AccumulatorMoves, AccumulatorLocal, MovesConserve
  <1>3. ASSUME NEW v \in Workers,
               ThreadProgress(v) \/ PredictPanics(v) \/ ThreadHookPanic(v)
        PROVE  ConservationInv'
    BY <1>3, ThreadMoves, ThreadLocal, MovesConserve
  <1>4. CASE DropHandle \/ UNCHANGED vars
    <2>1. UNCHANGED <<pc, reply, queue, buffer, job, running, accPc, thPc>>
      BY <1>4 DEF DropHandle, vars, callVars, workerVars, accVars, thVars
    <2> QED
      BY <2>1 DEF ConservationInv, OnePlace, Slots, OneWorker, Held, Owed,
                  Placed, Distinct, ToSet
  <1> QED
    BY <1>1, <1>2, <1>3, <1>4
    DEF Next, CallNext, AccumulatorNext, ThreadNext, Terminated

LEMMA ConservationHolds == Spec => []ConservationInv
PROOF
  BY TypeCorrect, InitConservation, NextConservation, PTL DEF Spec

-----------------------------------------------------------------------------
LEMMA PlacesOf ==
  ASSUME NEW c \in Calls, NEW p \in Places(c)
  PROVE  \E w \in Workers :
           \/ \E i \in DOMAIN queue[w] : queue[w][i] = c /\ p = <<"queue", w, i>>
           \/ c \in buffer[w] /\ p = <<"buffer", w, 0>>
           \/ c \in job[w] /\ p = <<"job", w, 0>>
           \/ c \in running[w] /\ p = <<"running", w, 0>>
PROOF
  <1> DEFINE Q(w) == {<<"queue", w, i>> : i \in {j \in DOMAIN queue[w] : queue[w][j] = c}}
             QS == UNION {Q(w) : w \in Workers}
             BS == {<<"buffer", w, 0>> : w \in {v \in Workers : c \in buffer[v]}}
             JS == {<<"job", w, 0>> : w \in {v \in Workers : c \in job[v]}}
             RS == {<<"running", w, 0>> : w \in {v \in Workers : c \in running[v]}}
  <1>1. p \in QS \/ p \in BS \/ p \in JS \/ p \in RS
    BY Zenon DEF Places
  <1>2. CASE p \in QS
    <2>1. PICK w \in Workers : p \in Q(w)
      BY <1>2, Zenon
    <2>2. PICK i \in {j \in DOMAIN queue[w] : queue[w][j] = c} : p = <<"queue", w, i>>
      BY <2>1, Zenon
    <2> QED
      BY <2>2, Zenon
  <1>3. CASE p \in BS
    BY <1>3, Zenon
  <1>4. CASE p \in JS
    BY <1>4, Zenon
  <1>5. CASE p \in RS
    BY <1>5, Zenon
  <1> QED
    BY <1>1, <1>2, <1>3, <1>4, <1>5, Zenon

LEMMA PlacedHasPlace ==
  ASSUME NEW c \in Calls
  PROVE  Placed(c) <=> Places(c) # {}
PROOF
  <1>1. ASSUME NEW p \in Places(c) PROVE Placed(c)
    <2>1. PICK w \in Workers :
            \/ \E i \in DOMAIN queue[w] : queue[w][i] = c
            \/ c \in buffer[w] \/ c \in job[w] \/ c \in running[w]
      BY PlacesOf, Zenon
    <2>2. c \in Held(w)
      BY <2>1 DEF Held, ToSet
    <2> QED
      BY <2>2 DEF Placed
  <1>2. ASSUME NEW w \in Workers, c \in Held(w) PROVE Places(c) # {}
    <2>1. CASE c \in ToSet(queue[w])
      <3>1. PICK i \in DOMAIN queue[w] : queue[w][i] = c
        BY <2>1 DEF ToSet
      <3>2. <<"queue", w, i>> \in
              {<<"queue", w, j>> : j \in {k \in DOMAIN queue[w] : queue[w][k] = c}}
        BY <3>1, Zenon
      <3>3. <<"queue", w, i>> \in Places(c)
        BY <3>2, Zenon DEF Places
      <3> QED
        BY <3>3
    <2>2. CASE c \in buffer[w]
      <3>1. <<"buffer", w, 0>> \in Places(c)
        BY <2>2, Zenon DEF Places
      <3> QED
        BY <3>1
    <2>3. CASE c \in job[w]
      <3>1. <<"job", w, 0>> \in Places(c)
        BY <2>3, Zenon DEF Places
      <3> QED
        BY <3>1
    <2>4. CASE c \in running[w]
      <3>1. <<"running", w, 0>> \in Places(c)
        BY <2>4, Zenon DEF Places
      <3> QED
        BY <3>1
    <2> QED
      BY <1>2, <2>1, <2>2, <2>3, <2>4 DEF Held
  <1> QED
    BY <1>1, <1>2 DEF Placed

(* Whatever panics, drains, flushes, rebuilds, cancellations and ends of   *)
(* workers happen, a caller that waits for its reply has its request in    *)
(* exactly one place, and every other request is nowhere.                  *)
THEOREM RequestsConserved == Spec => []RequestConservation
PROOF
  <1>1. TypeOK /\ ConservationInv => RequestConservation
    <2> SUFFICES ASSUME TypeOK, ConservationInv, NEW c \in Calls
                 PROVE  /\ \A p, q \in Places(c) : p = q
                        /\ pc[c] = "await" =>
                             (reply[c] = "none") = (Places(c) # {})
                        /\ pc[c] \notin {"await", "done"} =>
                             Places(c) = {} /\ reply[c] = "none"
      BY DEF RequestConservation
    <2>1. ASSUME NEW p \in Places(c), NEW q \in Places(c) PROVE p = q
      <3>1. PICK w \in Workers :
              \/ \E i \in DOMAIN queue[w] : queue[w][i] = c /\ p = <<"queue", w, i>>
              \/ c \in buffer[w] /\ p = <<"buffer", w, 0>>
              \/ c \in job[w] /\ p = <<"job", w, 0>>
              \/ c \in running[w] /\ p = <<"running", w, 0>>
        BY PlacesOf, Zenon
      <3>2. PICK v \in Workers :
              \/ \E i \in DOMAIN queue[v] : queue[v][i] = c /\ q = <<"queue", v, i>>
              \/ c \in buffer[v] /\ q = <<"buffer", v, 0>>
              \/ c \in job[v] /\ q = <<"job", v, 0>>
              \/ c \in running[v] /\ q = <<"running", v, 0>>
        BY PlacesOf, Zenon
      <3>3. c \in Held(w) /\ c \in Held(v)
        BY <3>1, <3>2 DEF Held, ToSet
      <3>4. w = v
        BY <3>3 DEF ConservationInv, OneWorker
      <3>5. OnePlace(w)
        BY DEF ConservationInv
      <3> QED
        BY <3>1, <3>2, <3>4, <3>5 DEF OnePlace, Distinct, ToSet
    <2>2. Places(c) # {} <=> Placed(c)
      BY PlacedHasPlace
    <2> QED
      BY <2>1, <2>2 DEF ConservationInv, Owed
  <1> QED
    BY <1>1, TypeCorrect, ConservationHolds, PTL

-----------------------------------------------------------------------------
(***************************************************************************)
(* The length a worker shows.                                              *)
(***************************************************************************)

(* The length lags behind the batch by the request just popped.  From the  *)
(* hand-off to the reset it says nothing about the buffer any more.        *)
LengthInv(w) ==
  /\ batchLen[w] <= BatchSize
  /\ accPc[w] \in {"recv", "collect"} =>
       /\ status[w] = "Waiting"
       /\ batchLen[w] = Cardinality(buffer[w])
  /\ accPc[w] \in {"popped", "notified"} =>
       /\ status[w] = "Waiting"
       /\ batchLen[w] + 1 = Cardinality(buffer[w])

LEMMA InitLengthInv == Init => \A w \in Workers : LengthInv(w)
PROOF
  BY FS_EmptySet, ConfigAssumption DEF Init, LengthInv

LEMMA AccumulatorLength ==
  ASSUME TypeOK, ConservationInv, BoundInv, NEW v \in Workers, LengthInv(v),
         AccumulatorProgress(v) \/ HookPanic(v)
  PROVE  LengthInv(v)'
PROOF
  <1> USE DEF TypeOK, WorkerTypeOK, wordVars, Goto, LengthInv
  <1>1. CASE Pop(v)
    <2>1. /\ batchLen[v] = Cardinality(buffer[v]) /\ status[v] = "Waiting"
          /\ UNCHANGED <<batchLen, status>> /\ accPc'[v] = "popped"
          /\ buffer'[v] = buffer[v] \cup {Head(queue[v])}
          /\ queue[v] \in Seq(Calls) /\ queue[v] # <<>>
      BY <1>1 DEF Pop
    <2>2. Head(queue[v]) \notin buffer[v]
      BY <2>1, TailSet DEF ConservationInv, OnePlace
    <2>3. Cardinality(buffer[v] \cup {Head(queue[v])}) = Cardinality(buffer[v]) + 1
      BY <2>2, FiniteBuffers, FS_AddElement
    <2> QED
      BY <2>1, <2>3
  <1>2. CASE NotifyOne(v)
    BY <1>2 DEF NotifyOne
  <1>3. CASE IncrementLen(v)
    <2>1. Cardinality(buffer[v]) <= BatchSize
      BY <1>3 DEF IncrementLen, BoundInv, BufferBound
    <2>2. /\ batchLen'[v] = batchLen[v] + 1 /\ UNCHANGED <<status, buffer>>
          /\ accPc'[v] \in {"check", "collect"}
      BY <1>3 DEF IncrementLen
    <2> QED
      BY <1>3, <2>1, <2>2 DEF IncrementLen
  <1>4. CASE Exit(v) \/ BatchTimeout(v) \/ JobClosed(v)
    BY <1>4 DEF Exit, BatchTimeout, JobClosed, set_worker_state
  <1>5. CASE CheckPredictor(v) \/ CheckAgain(v) \/ DrainPop(v) \/ DrainDone(v)
    BY <1>5 DEF CheckPredictor, CheckAgain, DrainPop, DrainDone
  <1>6. CASE Ready(v) \/ Reserve(v) \/ ReserveClosed(v) \/ Send(v)
    BY <1>6 DEF Ready, Reserve, ReserveClosed, Send, set_worker_state
  <1>7. CASE ResetBatchLen(v)
    <2>1. /\ batchLen'[v] = 0 /\ status'[v] = "Waiting" /\ accPc'[v] = "recv"
          /\ buffer'[v] = {}
      BY <1>7 DEF ResetBatchLen, BoundInv, BufferBound
    <2> QED
      BY <2>1, FS_EmptySet, ConfigAssumption
  <1>8. CASE Crash(v) \/ HookPanic(v)
    BY <1>8 DEF Crash, HookPanic, set_worker_state
  <1>9. CASE GuardSetDead(v) \/ GuardNotify(v) \/ DropReceiver(v)
    BY <1>9 DEF GuardSetDead, GuardNotify, DropReceiver
  <1> QED
    BY <1>1, <1>2, <1>3, <1>4, <1>5, <1>6, <1>7, <1>8, <1>9
    DEF AccumulatorProgress

(* Nobody but the accumulator writes the word, the buffer or its place.    *)
OwnLength(w) ==
  /\ batchLen'[w] = batchLen[w] /\ status'[w] = status[w]
  /\ accPc'[w] = accPc[w] /\ buffer'[w] = buffer[w]

LEMMA ThreadOwnLength ==
  ASSUME NEW v \in Workers,
         ThreadProgress(v) \/ PredictPanics(v) \/ ThreadHookPanic(v)
  PROVE  \A w \in Workers : OwnLength(w)
PROOF
  BY DEF OwnLength, outsideVars, wordVars, accVars, ThreadProgress, TakeBatch,
         JobsClosed, PredictReturns, FailBatch, FlushBatch, RebuildSucceeds,
         RebuildGivesUp, SetAlive, NotifyAlive, SetDead, NotifyDead,
         DropJobReceiver, PredictPanics, ThreadHookPanic

LEMMA CallOwnLength ==
  ASSUME NEW c \in Calls, Begin(c) \/ CallProgress(c) \/ DropFuture(c)
  PROVE  \A w \in Workers : OwnLength(w)
PROOF
  <1>1. CASE PushSuccess(c)
    BY <1>1 DEF PushSuccess, OwnLength, wordVars, accVars
  <1>2. CASE ~PushSuccess(c)
    BY <1>2, CallQuiet DEF Quiet, workerVars, OwnLength, wordVars, accVars
  <1> QED
    BY <1>1, <1>2

LEMMA NextLengthInv ==
  TypeOK /\ ConservationInv /\ BoundInv /\ (\A w \in Workers : LengthInv(w))
    /\ [Next]_vars => \A w \in Workers : LengthInv(w)'
PROOF
  <1> SUFFICES ASSUME TypeOK, ConservationInv, BoundInv,
                      \A w \in Workers : LengthInv(w), [Next]_vars,
                      NEW w \in Workers
               PROVE  LengthInv(w)'
    OBVIOUS
  <1>1. CASE OwnLength(w)
    BY <1>1 DEF OwnLength, LengthInv
  <1>2. ASSUME NEW c \in Calls, Begin(c) \/ CallProgress(c) \/ DropFuture(c)
        PROVE  LengthInv(w)'
    BY <1>1, <1>2, CallOwnLength
  <1>3. ASSUME NEW v \in Workers, AccumulatorProgress(v) \/ HookPanic(v)
        PROVE  LengthInv(w)'
    BY <1>1, <1>3, AccumulatorLength, AccumulatorLocal DEF Untouched, OwnLength
  <1>4. ASSUME NEW v \in Workers,
               ThreadProgress(v) \/ PredictPanics(v) \/ ThreadHookPanic(v)
        PROVE  LengthInv(w)'
    BY <1>1, <1>4, ThreadOwnLength
  <1>5. CASE DropHandle \/ UNCHANGED vars
    BY <1>1, <1>5 DEF DropHandle, vars, workerVars, wordVars, accVars, OwnLength
  <1> QED
    BY <1>2, <1>3, <1>4, <1>5
    DEF Next, CallNext, AccumulatorNext, ThreadNext, Terminated

(* What pool_status shows: a length within the batch size, and while a     *)
(* batch is collected the number of requests in it.                        *)
THEOREM SnapshotsHonest == Spec => []SnapshotHonest
PROOF
  <1> DEFINE Inv == \A w \in Workers : LengthInv(w)
  <1>1. Init => Inv
    BY InitLengthInv
  <1>2. TypeOK /\ ConservationInv /\ BoundInv /\ Inv /\ [Next]_vars => Inv'
    BY NextLengthInv
  <1>3. Inv => SnapshotHonest
    BY DEF LengthInv, SnapshotHonest
  <1> QED
    BY <1>1, <1>2, <1>3, TypeCorrect, ConservationHolds, InitBoundInv,
       NextBoundInv, PTL
    DEF Spec

-----------------------------------------------------------------------------
(***************************************************************************)
(* What a worker that ends leaves behind.                                  *)
(***************************************************************************)

(* The batch goes with the job sender, the channel with the accumulator;   *)
(* what is in the job channel goes with whoever of the two ends last, once *)
(* nothing can be put there any more.                                      *)
LeftoverInv(w) ==
  /\ ~JobSenderAlive(w) => buffer[w] = {}
  /\ ~JobSenderAlive(w) /\ thPc[w] = "gone" => job[w] = {}
  /\ accPc[w] = "gone" => queue[w] = <<>>

LEMMA AccumulatorLeaves ==
  ASSUME TypeOK, NEW v \in Workers, LeftoverInv(v),
         AccumulatorProgress(v) \/ HookPanic(v)
  PROVE  LeftoverInv(v)'
PROOF
  <1> USE DEF TypeOK, WorkerTypeOK, othersVars, thVars, Goto, Empty, LeftoverInv,
              JobSenderAlive
  <1>1. CASE Exit(v) \/ Crash(v) \/ HookPanic(v)
    <2>1. PICK S : DropFrame(v, S)
      BY <1>1 DEF Exit, Crash, HookPanic
    <2>2. buffer'[v] = {} /\ (thPc[v] = "gone" => job'[v] = {})
      BY <2>1 DEF DropFrame, FreedJob, JobReceiverAlive
    <2>3. thPc' = thPc /\ (accPc'[v] = "gone" => queue'[v] = <<>>)
      BY <1>1 DEF Exit, Crash, HookPanic
    <2> QED
      BY <2>2, <2>3
  <1>2. CASE GuardSetDead(v) \/ GuardNotify(v) \/ DropReceiver(v)
    BY <1>2 DEF GuardSetDead, GuardNotify, DropReceiver
  <1>3. CASE Pop(v) \/ NotifyOne(v) \/ IncrementLen(v) \/ BatchTimeout(v)
             \/ JobClosed(v) \/ CheckPredictor(v) \/ DrainPop(v)
    BY <1>3 DEF Pop, NotifyOne, IncrementLen, BatchTimeout, JobClosed,
                CheckPredictor, DrainPop
  <1>4. CASE DrainDone(v) \/ Ready(v) \/ Reserve(v) \/ ReserveClosed(v)
             \/ CheckAgain(v) \/ Send(v) \/ ResetBatchLen(v)
    BY <1>4 DEF DrainDone, Ready, Reserve, ReserveClosed, CheckAgain, Send,
                ResetBatchLen
  <1> QED
    BY <1>1, <1>2, <1>3, <1>4 DEF AccumulatorProgress

LEMMA ThreadLeaves ==
  ASSUME TypeOK, NEW v \in Workers, LeftoverInv(v),
         ThreadProgress(v) \/ PredictPanics(v) \/ ThreadHookPanic(v)
  PROVE  LeftoverInv(v)'
PROOF
  <1> USE DEF TypeOK, WorkerTypeOK, outsideVars, accVars, Step, LeftoverInv,
              JobSenderAlive
  <1>1. accPc'[v] = accPc[v] /\ buffer'[v] = buffer[v] /\ queue'[v] = queue[v]
    BY DEF ThreadProgress, TakeBatch, JobsClosed, PredictReturns, FailBatch,
           FlushBatch, RebuildSucceeds, RebuildGivesUp, SetAlive, NotifyAlive,
           SetDead, NotifyDead, DropJobReceiver, PredictPanics, ThreadHookPanic
  <1>2. thPc'[v] = "gone" => job'[v] = {}
    BY DEF ThreadProgress, TakeBatch, JobsClosed, PredictReturns, FailBatch,
           FlushBatch, RebuildSucceeds, RebuildGivesUp, SetAlive, NotifyAlive,
           SetDead, NotifyDead, DropJobReceiver, PredictPanics, ThreadHookPanic
  <1> QED
    BY <1>1, <1>2

LEMMA CallLeavesWorkers ==
  ASSUME TypeOK, NEW c \in Calls, Begin(c) \/ CallProgress(c) \/ DropFuture(c),
         NEW w \in Workers, LeftoverInv(w)
  PROVE  LeftoverInv(w)'
PROOF
  <1>1. accPc[w] = "gone" => queue'[w] = queue[w]
    <2>1. CASE PushSuccess(c)
      BY <2>1 DEF PushSuccess, Refuses, ReceiverAlive, TypeOK, WorkerTypeOK
    <2>2. CASE ~PushSuccess(c)
      BY <2>2, CallQuiet DEF Quiet, workerVars
    <2> QED
      BY <2>1, <2>2
  <1> QED
    BY <1>1, CallLocal DEF LeftoverInv, JobSenderAlive

LEMMA NextLeftoverInv ==
  TypeOK /\ (\A w \in Workers : LeftoverInv(w)) /\ [Next]_vars
    => \A w \in Workers : LeftoverInv(w)'
PROOF
  <1> SUFFICES ASSUME TypeOK, \A w \in Workers : LeftoverInv(w), [Next]_vars,
                      NEW w \in Workers
               PROVE  LeftoverInv(w)'
    OBVIOUS
  <1>1. CASE Untouched(w)
    BY <1>1 DEF Untouched, LeftoverInv, JobSenderAlive
  <1>2. ASSUME NEW c \in Calls, Begin(c) \/ CallProgress(c) \/ DropFuture(c)
        PROVE  LeftoverInv(w)'
    BY <1>2, CallLeavesWorkers
  <1>3. ASSUME NEW v \in Workers, AccumulatorProgress(v) \/ HookPanic(v)
        PROVE  LeftoverInv(w)'
    BY <1>1, <1>3, AccumulatorLeaves, AccumulatorLocal
  <1>4. ASSUME NEW v \in Workers,
               ThreadProgress(v) \/ PredictPanics(v) \/ ThreadHookPanic(v)
        PROVE  LeftoverInv(w)'
    BY <1>1, <1>4, ThreadLeaves, ThreadLocal
  <1>5. CASE DropHandle \/ UNCHANGED vars
    BY <1>1, <1>5
    DEF DropHandle, vars, workerVars, wordVars, accVars, thVars, Untouched
  <1> QED
    BY <1>2, <1>3, <1>4, <1>5
    DEF Next, CallNext, AccumulatorNext, ThreadNext, Terminated

LEMMA LeftoverHolds == Spec => [](\A w \in Workers : LeftoverInv(w))
PROOF
  <1> DEFINE Inv == \A w \in Workers : LeftoverInv(w)
  <1>1. Init => Inv
    BY DEF Init, LeftoverInv
  <1>2. TypeOK /\ Inv /\ [Next]_vars => Inv'
    BY NextLeftoverInv
  <1> QED
    BY <1>1, <1>2, TypeCorrect, PTL DEF Spec

(* However a worker ends, by shutdown, for want of a thread or by a panic  *)
(* that unwinds, it leaves no request in a place nobody looks at, but for  *)
(* a batch stranded behind a Dead predictor while its accumulator lives.   *)
THEOREM NothingIsLeftBehind == Spec => []NothingLeftBehind
PROOF
  <1> DEFINE Inv == \A w \in Workers : LeftoverInv(w)
  <1>1. CrashInv /\ ConservationInv /\ Inv => NothingLeftBehind
    BY DEF CrashInv, ThreadEnd, ConservationInv, Slots, LeftoverInv,
           JobSenderAlive, NothingLeftBehind
  <1> QED
    BY <1>1, LeftoverHolds, ConservationHolds, TypeCorrect, InitCrashInv,
       NextCrashInv, PTL
    DEF Spec

-----------------------------------------------------------------------------
(***************************************************************************)
(* Who strands a batch.                                                    *)
(***************************************************************************)

(* A thread whose rebuilds succeed and whose hooks do not panic ends after *)
(* its job sender only.                                                    *)
ThreadStays(w) ==
  thPc[w] \in {"set_dead", "notify_dead", "drop_receiver", "gone"}
    => ~JobSenderAlive(w)

LEMMA NextThreadStays ==
  ASSUME HooksPanic = FALSE, RebuildFails = FALSE
  PROVE  TypeOK /\ (\A w \in Workers : ThreadStays(w)) /\ [Next]_vars
           => \A w \in Workers : ThreadStays(w)'
PROOF
  <1> SUFFICES ASSUME TypeOK, \A w \in Workers : ThreadStays(w), [Next]_vars,
                      NEW w \in Workers
               PROVE  ThreadStays(w)'
    OBVIOUS
  <1> USE DEF ThreadStays, JobSenderAlive
  <1>1. CASE accPc'[w] = accPc[w] /\ thPc'[w] = thPc[w]
    BY <1>1
  <1>2. ASSUME NEW c \in Calls, Begin(c) \/ CallProgress(c) \/ DropFuture(c)
        PROVE  ThreadStays(w)'
    BY <1>1, <1>2, CallLocal
  <1>3. CASE AccumulatorProgress(w) \/ HookPanic(w)
    <2>1. thPc' = thPc
      BY <1>3
      DEF othersVars, thVars, AccumulatorProgress, Pop, NotifyOne, IncrementLen,
          Exit, BatchTimeout, JobClosed, CheckPredictor, DrainPop, DrainDone,
          Ready, Reserve, ReserveClosed, CheckAgain, Send, ResetBatchLen, Crash,
          GuardSetDead, GuardNotify, DropReceiver, HookPanic
    <2>2. ~JobSenderAlive(w) => ~JobSenderAlive(w)'
      BY <1>3
      DEF Goto, TypeOK, WorkerTypeOK, AccumulatorProgress, Pop, NotifyOne,
          IncrementLen, Exit, BatchTimeout, JobClosed, CheckPredictor, DrainPop,
          DrainDone, Ready, Reserve, ReserveClosed, CheckAgain, Send,
          ResetBatchLen, Crash, GuardSetDead, GuardNotify, DropReceiver, HookPanic
    <2> QED
      BY <2>1, <2>2
  <1>4. CASE ThreadProgress(w) \/ PredictPanics(w) \/ ThreadHookPanic(w)
    <2>1. accPc'[w] = accPc[w]
      BY <1>4, ThreadOwnLength DEF OwnLength
    <2>2. thPc'[w] \in {"set_dead", "notify_dead", "drop_receiver", "gone"} =>
            \/ thPc[w] \in {"set_dead", "notify_dead", "drop_receiver", "gone"}
            \/ ~JobSenderAlive(w)
      BY <1>4
      DEF Step, TypeOK, WorkerTypeOK, ThreadProgress, TakeBatch, JobsClosed,
          PredictReturns, FailBatch, FlushBatch, RebuildSucceeds, RebuildGivesUp,
          SetAlive, NotifyAlive, SetDead, NotifyDead, DropJobReceiver,
          PredictPanics, ThreadHookPanic
    <2> QED
      BY <2>1, <2>2
  <1>5. ASSUME NEW v \in Workers \ {w},
               \/ AccumulatorProgress(v) \/ HookPanic(v)
               \/ ThreadProgress(v) \/ PredictPanics(v) \/ ThreadHookPanic(v)
        PROVE  ThreadStays(w)'
    BY <1>1, <1>5, AccumulatorLocal, ThreadLocal DEF Untouched
  <1>6. CASE DropHandle \/ UNCHANGED vars
    BY <1>1, <1>6 DEF DropHandle, vars, workerVars, accVars, thVars
  <1> QED
    BY <1>2, <1>3, <1>4, <1>5, <1>6
    DEF Next, CallNext, AccumulatorNext, ThreadNext, Terminated

(* Only a rebuild that fails, or a panicking hook, strands a batch: in any *)
(* other pool, however often its predictors panic, what is in a job        *)
(* channel is taken, flushed or freed.                                     *)
THEOREM NobodyStranded ==
  ASSUME HooksPanic = FALSE, RebuildFails = FALSE
  PROVE  Spec => [](\A c \in Calls : ~Stranded(c))
PROOF
  <1> DEFINE Inv   == \A w \in Workers : LeftoverInv(w)
             Stays == \A w \in Workers : ThreadStays(w)
  <1>1. Init => Stays
    BY DEF Init, ThreadStays
  <1>2. TypeOK /\ Stays /\ [Next]_vars => Stays'
    BY NextThreadStays
  <1>3. Inv /\ Stays => \A c \in Calls : ~Stranded(c)
    BY DEF LeftoverInv, ThreadStays, Stranded
  <1> QED
    BY <1>1, <1>2, <1>3, LeftoverHolds, TypeCorrect, PTL DEF Spec
=============================================================================
