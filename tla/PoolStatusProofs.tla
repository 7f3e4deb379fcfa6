--------------------------- MODULE PoolStatusProofs ---------------------------
(***************************************************************************)
(* What pool_status shows, for every pool, batch and queue size, any set   *)
(* of calls and any word wide enough for batch_size.                       *)
(***************************************************************************)
EXTENDS PoolStatus, ConservationProofs

-----------------------------------------------------------------------------
(***************************************************************************)
(* Packing and unpacking.                                                  *)
(***************************************************************************)
LEMMA Unpack ==
  ASSUME NEW k \in 0 .. 3, NEW n \in Nat, n < LenRange
  PROVE  /\ (n + k * LenRange) % LenRange = n
         /\ (n + k * LenRange) \div LenRange = k
PROOF
  <1>1. LenRange \in Nat \ {0}
    BY BatchSizeAssumption
  <1>2. k = 0 \/ k = 1 \/ k = 2 \/ k = 3
    OBVIOUS
  <1> QED
    BY <1>1, <1>2

LEMMA SmallMod ==
  ASSUME NEW a \in Nat, NEW b \in Nat, a < b
  PROVE  a % b = a
PROOF
  OBVIOUS

LEMMA Codes ==
  ASSUME NEW s \in WorkerStatus
  PROVE  Word!to_u8[s] \in 0 .. 3 /\ Word!from_u8(Word!to_u8[s]) = s
PROOF
  <1>1. /\ DOMAIN Word!to_u8 = WorkerStatus
        /\ \A t \in WorkerStatus : /\ Word!to_u8[t] \in 0 .. 3
                                   /\ Word!to_u8[t] = Word!to_u8[s] => t = s
    BY DEF Word!to_u8, WorkerStatus
  <1>2. \E t \in DOMAIN Word!to_u8 : Word!to_u8[t] = Word!to_u8[s]
    BY <1>1
  <1>3. /\ Word!from_u8(Word!to_u8[s]) \in DOMAIN Word!to_u8
        /\ Word!to_u8[Word!from_u8(Word!to_u8[s])] = Word!to_u8[s]
    BY <1>2 DEF Word!from_u8
  <1> QED
    BY <1>1, <1>3

Packed(w) == word[w] = batchLen[w] + Word!to_u8[status[w]] * LenRange

LEMMA PackedAgrees ==
  ASSUME TypeOK, NEW w \in Workers, Packed(w), batchLen[w] <= BatchSize
  PROVE  /\ Word!worker_status(word[w]) = status[w]
         /\ Word!batch_len(word[w]) = batchLen[w]
PROOF
  <1>1. /\ batchLen[w] \in Nat /\ status[w] \in WorkerStatus
        /\ batchLen[w] < U32Range /\ batchLen[w] < LenRange
    BY ConfigAssumption, BatchSizeAssumption DEF TypeOK, WorkerTypeOK
  <1>2. Word!to_u8[status[w]] \in 0 .. 3
    BY <1>1, Codes
  <1>3. word[w] % LenRange = batchLen[w] /\ word[w] \div LenRange = Word!to_u8[status[w]]
    BY <1>1, <1>2, Unpack DEF Packed
  <1>4. batchLen[w] % U32Range = batchLen[w]
    BY <1>1, BatchSizeAssumption
  <1> QED
    BY <1>1, <1>3, <1>4, Codes DEF Word!worker_status, Word!batch_len

-----------------------------------------------------------------------------
(***************************************************************************)
(* With the word and the observer the batcher does what it did before.     *)
(***************************************************************************)
LEMMA WorkerStepMaps ==
  ASSUME NEW w \in Workers, StoringStep(w) \/ OtherStep(w)
  PROVE  AccumulatorProgress(w) \/ HookPanic(w)
PROOF
  BY DEF StoringStep, OtherStep, AccumulatorProgress

LEMMA StatusNextMaps == [StatusNext]_statusVars => [Next]_vars
PROOF
  <1> SUFFICES ASSUME [StatusNext]_statusVars PROVE [Next]_vars
    OBVIOUS
  <1>1. CASE WorkerStep
    BY <1>1, WorkerStepMaps DEF WorkerStep, Next, AccumulatorNext
  <1>2. CASE CallNext \/ ThreadNext \/ Terminated
    BY <1>2 DEF Next
  <1>3. CASE UNCHANGED vars
    BY <1>3
  <1> QED
    BY <1>1, <1>2, <1>3 DEF StatusNext, LoadWord, LoadPredictor, statusVars

LEMMA StatusImplements == StatusSpec => Spec
PROOF
  BY StatusNextMaps, PTL DEF StatusSpec, Spec, StatusInit

-----------------------------------------------------------------------------
(***************************************************************************)
(* The word, step by step.                                                 *)
(***************************************************************************)
PackedInv == word \in [Workers -> Nat] /\ \A w \in Workers : Packed(w)

LEMMA SetStatusPacks ==
  ASSUME TypeOK, SnapshotHonest, PackedInv, NEW w \in Workers,
         NEW s \in WorkerStatus
  PROVE  /\ Word!set_worker_state(word[w], s)
              = batchLen[w] + Word!to_u8[s] * LenRange
         /\ Word!set_worker_state(word[w], s) \in Nat
PROOF
  <1>1. /\ batchLen[w] \in Nat /\ status[w] \in WorkerStatus
        /\ batchLen[w] < LenRange /\ LenRange \in Nat
    BY ConfigAssumption, BatchSizeAssumption
    DEF TypeOK, WorkerTypeOK, SnapshotHonest
  <1>2. Word!to_u8[status[w]] \in 0 .. 3 /\ Word!to_u8[s] \in 0 .. 3
    BY <1>1, Codes
  <1>3. word[w] % LenRange = batchLen[w]
    BY <1>1, <1>2, Unpack DEF PackedInv, Packed
  <1>4. Word!to_u8[s] * LenRange \in Nat
    BY <1>1, <1>2
  <1> QED
    BY <1>1, <1>3, <1>4 DEF Word!set_worker_state

LEMMA IncrementPacks ==
  ASSUME TypeOK, PackedInv, NEW w \in Workers, batchLen[w] + 1 <= BatchSize
  PROVE  /\ Word!increment_len(word[w])
              = (batchLen[w] + 1) + Word!to_u8[status[w]] * LenRange
         /\ Word!increment_len(word[w]) \in Nat
PROOF
  <1>1. /\ batchLen[w] \in Nat /\ batchLen[w] + 1 < LenRange
        /\ LenRange \in Nat \ {0}
    BY ConfigAssumption, BatchSizeAssumption DEF TypeOK, WorkerTypeOK
  <1>2. Word!to_u8[status[w]] \in 0 .. 3
    BY Codes DEF TypeOK, WorkerTypeOK
  <1>3. PICK m \in Nat : /\ m = Word!to_u8[status[w]] * LenRange
                         /\ m <= 3 * LenRange
    <2>1. PICK k \in 0 .. 3 : k = Word!to_u8[status[w]]
      BY <1>2
    <2>2. k = 0 \/ k = 1 \/ k = 2 \/ k = 3
      OBVIOUS
    <2> QED
      BY <1>1, <2>1, <2>2
  <1>4. word[w] = batchLen[w] + m
    BY <1>3 DEF PackedInv, Packed
  <1>5. word[w] + 1 \in Nat /\ word[w] + 1 < 4 * LenRange /\ 4 * LenRange \in Nat
    BY <1>1, <1>3, <1>4
  <1>6. (word[w] + 1) % (4 * LenRange) = word[w] + 1
    BY <1>5, SmallMod
  <1> QED
    BY <1>1, <1>3, <1>4, <1>5, <1>6 DEF Word!increment_len

(* A step that writes worker v's fields and its word alike.                *)
LEMMA StorePacks ==
  ASSUME PackedInv, NEW v \in Workers, NEW x \in Nat, Store(v, x),
         x = batchLen'[v] + Word!to_u8[status'[v]] * LenRange,
         \A w \in Workers \ {v} : Untouched(w)
  PROVE  PackedInv'
PROOF
  <1>1. word' \in [Workers -> Nat] /\ word'[v] = x
        /\ \A w \in Workers \ {v} : word'[w] = word[w]
    BY DEF PackedInv, Store
  <1>2. \A w \in Workers \ {v} : Packed(w)'
    BY <1>1 DEF PackedInv, Packed, Untouched
  <1> QED
    BY <1>1, <1>2 DEF PackedInv, Packed

LEMMA StoringPacks ==
  ASSUME TypeOK, SnapshotHonest, SnapshotHonest', PackedInv,
         NEW v \in Workers, StoringStep(v)
  PROVE  PackedInv'
PROOF
  <1> USE DEF TypeOK, WorkerTypeOK
  <1>1. \A w \in Workers \ {v} : Untouched(w)
    BY WorkerStepMaps, AccumulatorLocal
  <1>2. CASE IncrementLen(v) /\ Store(v, Word!increment_len(word[v]))
    <2>1. batchLen'[v] = batchLen[v] + 1 /\ status'[v] = status[v]
      BY <1>2 DEF IncrementLen
    <2>2. batchLen[v] + 1 <= BatchSize
      BY <2>1 DEF SnapshotHonest
    <2> QED
      BY <1>1, <1>2, <2>1, <2>2, IncrementPacks, StorePacks
  <1>3. CASE Ready(v) /\ Store(v, Word!set_worker_state(word[v], "Running"))
    <2>1. batchLen'[v] = batchLen[v] /\ status'[v] = "Running"
          /\ "Running" \in WorkerStatus
      BY <1>3 DEF Ready, set_worker_state, WorkerStatus
    <2> QED
      BY <1>1, <1>3, <2>1, SetStatusPacks, StorePacks
  <1>4. CASE ResetBatchLen(v) /\ Store(v, Word!reset_batch_len(word[v]))
    <2>1. batchLen'[v] = 0 /\ status'[v] = "Waiting"
      BY <1>4 DEF ResetBatchLen
    <2>2. Word!reset_batch_len(word[v]) = 0 + Word!to_u8["Waiting"] * LenRange
      BY BatchSizeAssumption DEF Word!reset_batch_len, Word!to_u8
    <2>3. Word!reset_batch_len(word[v]) \in Nat
      BY DEF Word!reset_batch_len
    <2> QED
      BY <1>1, <1>4, <2>1, <2>2, <2>3, StorePacks
  <1>5. CASE Exit(v) /\ Store(v, Word!set_worker_state(word[v], "Exit"))
    <2>1. batchLen'[v] = batchLen[v] /\ status'[v] = "Exit"
          /\ "Exit" \in WorkerStatus
      BY <1>5 DEF Exit, set_worker_state, WorkerStatus
    <2> QED
      BY <1>1, <1>5, <2>1, SetStatusPacks, StorePacks
  <1>6. CASE Crash(v) /\ Store(v, Word!set_worker_state(word[v], "Crashed"))
    <2>1. batchLen'[v] = batchLen[v] /\ status'[v] = "Crashed"
          /\ "Crashed" \in WorkerStatus
      BY <1>6 DEF Crash, set_worker_state, WorkerStatus
    <2> QED
      BY <1>1, <1>6, <2>1, SetStatusPacks, StorePacks
  <1> QED
    BY <1>2, <1>3, <1>4, <1>5, <1>6 DEF StoringStep

(* Every other step leaves the word, the status and the length alone.      *)
SameWord(w) == status'[w] = status[w] /\ batchLen'[w] = batchLen[w]

LEMMA OtherStepSameWord ==
  ASSUME NEW v \in Workers, OtherStep(v)
  PROVE  \A w \in Workers : SameWord(w)
PROOF
  BY DEF SameWord, OtherStep, wordVars, Pop, NotifyOne, BatchTimeout, JobClosed,
         CheckPredictor, DrainPop, DrainDone, Reserve, ReserveClosed,
         CheckAgain, Send, HookPanic, GuardSetDead, GuardNotify, DropReceiver

LEMMA OutsideSameWord ==
  ASSUME CallNext \/ ThreadNext \/ Terminated \/ UNCHANGED vars
  PROVE  \A w \in Workers : SameWord(w)
PROOF
  <1>1. ASSUME NEW c \in Calls, Begin(c) \/ CallProgress(c) \/ DropFuture(c)
        PROVE  \A w \in Workers : SameWord(w)
    BY <1>1, CallOwnLength DEF OwnLength, SameWord
  <1>2. CASE ThreadNext
    BY <1>2, ThreadOwnLength DEF ThreadNext, OwnLength, SameWord
  <1>3. CASE DropHandle \/ UNCHANGED vars
    BY <1>3 DEF DropHandle, vars, workerVars, wordVars, SameWord
  <1> QED
    BY <1>1, <1>2, <1>3 DEF CallNext, Terminated

LEMMA NextPacks ==
  ASSUME TypeOK, SnapshotHonest, SnapshotHonest', PackedInv,
         [StatusNext]_statusVars
  PROVE  PackedInv'
PROOF
  <1>1. ASSUME \A w \in Workers : SameWord(w), UNCHANGED word
        PROVE  PackedInv'
    BY <1>1 DEF PackedInv, Packed, SameWord
  <1>2. CASE WorkerStep
    BY <1>1, <1>2, StoringPacks, OtherStepSameWord DEF WorkerStep
  <1>3. CASE (CallNext \/ ThreadNext \/ Terminated) /\ UNCHANGED word
    BY <1>1, <1>3, OutsideSameWord
  <1>4. CASE UNCHANGED <<vars, word>>
    BY <1>1, <1>4, OutsideSameWord
  <1> QED
    BY <1>2, <1>3, <1>4 DEF StatusNext, LoadWord, LoadPredictor, statusVars

LEMMA InitPacks == StatusInit => PackedInv
PROOF
  BY BatchSizeAssumption DEF StatusInit, Init, PackedInv, Packed, Word!to_u8

(* The packed word never says anything but the worker's status and the     *)
(* length of its batch: the six steps that write it, each by a primitive   *)
(* of its own, can neither carry into the status bits nor lose the length. *)
THEOREM WordsAgree == StatusSpec => []WordAgrees
PROOF
  <1>1. TypeOK /\ SnapshotHonest /\ PackedInv => WordAgrees
    BY PackedAgrees DEF PackedInv, SnapshotHonest, WordAgrees
  <1>2. TypeOK /\ SnapshotHonest /\ SnapshotHonest' /\ PackedInv
          /\ [StatusNext]_statusVars => PackedInv'
    BY NextPacks
  <1> QED
    BY <1>1, <1>2, InitPacks, StatusImplements, TypeCorrect, SnapshotsHonest,
       PTL DEF StatusSpec

-----------------------------------------------------------------------------
(***************************************************************************)
(* What an observer is shown.                                              *)
(***************************************************************************)

(* A batch that is closed, and a batch a Running worker shows, is not      *)
(* empty.                                                                  *)
Filled(w) ==
  accPc[w] \in {"collect", "check", "ready"} \/ status[w] = "Running"
    => batchLen[w] > 0

(* An accumulator that stored Exit had no handle left, and is gone.        *)
Exited(w) == status[w] = "Exit" => accPc[w] = "gone" /\ ~HandleAlive

ShownInv == \A w \in Workers : Filled(w) /\ Exited(w)

LEMMA AccumulatorFills ==
  ASSUME TypeOK, NEW v \in Workers, Filled(v),
         AccumulatorProgress(v) \/ HookPanic(v)
  PROVE  Filled(v)'
PROOF
  <1> USE DEF TypeOK, WorkerTypeOK, Filled, Goto, wordVars, set_worker_state
  <1>1. CASE Pop(v) \/ NotifyOne(v) \/ BatchTimeout(v) \/ JobClosed(v)
    BY <1>1 DEF Pop, NotifyOne, BatchTimeout, JobClosed
  <1>2. CASE IncrementLen(v) \/ Exit(v) \/ CheckPredictor(v) \/ Ready(v)
    BY <1>2 DEF IncrementLen, Exit, CheckPredictor, Ready
  <1>3. CASE DrainPop(v) \/ DrainDone(v) \/ Reserve(v) \/ ReserveClosed(v)
    BY <1>3 DEF DrainPop, DrainDone, Reserve, ReserveClosed
  <1>4. CASE CheckAgain(v) \/ Send(v) \/ ResetBatchLen(v) \/ Crash(v)
    BY <1>4 DEF CheckAgain, Send, ResetBatchLen, Crash
  <1>5. CASE HookPanic(v) \/ GuardSetDead(v) \/ GuardNotify(v) \/ DropReceiver(v)
    BY <1>5 DEF HookPanic, GuardSetDead, GuardNotify, DropReceiver
  <1> QED
    BY <1>1, <1>2, <1>3, <1>4, <1>5 DEF AccumulatorProgress

LEMMA AccumulatorExits ==
  ASSUME TypeOK, NEW v \in Workers, Exited(v), ~HandleAlive => ~HandleAlive',
         AccumulatorProgress(v) \/ HookPanic(v)
  PROVE  Exited(v)'
PROOF
  <1> USE DEF TypeOK, WorkerTypeOK, Exited, Goto, wordVars, set_worker_state
  <1>1. accPc[v] # "gone" /\ status[v] # "Exit"
    BY DEF AccumulatorProgress, Pop, NotifyOne, IncrementLen, Exit, BatchTimeout,
       JobClosed, CheckPredictor, DrainPop, DrainDone, Ready, Reserve,
       ReserveClosed, CheckAgain, Send, ResetBatchLen, Crash, GuardSetDead,
       GuardNotify, DropReceiver, HookPanic
  <1>2. CASE Exit(v)
    BY <1>2 DEF Exit
  <1>3. ASSUME ~Exit(v) PROVE status'[v] # "Exit"
    BY <1>1, <1>3
    DEF AccumulatorProgress, Pop, NotifyOne, IncrementLen, BatchTimeout,
       JobClosed, CheckPredictor, DrainPop, DrainDone, Ready, Reserve,
       ReserveClosed, CheckAgain, Send, ResetBatchLen, Crash, GuardSetDead,
       GuardNotify, DropReceiver, HookPanic
  <1> QED
    BY <1>2, <1>3

LEMMA NextShownInv == TypeOK /\ ShownInv /\ [Next]_vars => ShownInv'
PROOF
  <1> SUFFICES ASSUME TypeOK, ShownInv, [Next]_vars, NEW w \in Workers
               PROVE  Filled(w)' /\ Exited(w)'
    BY DEF ShownInv
  <1>1. Filled(w) /\ Exited(w) /\ (~HandleAlive => ~HandleAlive')
    BY HandlesStayGone DEF ShownInv
  <1>2. ASSUME OwnLength(w) PROVE Filled(w)' /\ Exited(w)'
    BY <1>1, <1>2 DEF OwnLength, Filled, Exited
  <1>3. ASSUME NEW c \in Calls, Begin(c) \/ CallProgress(c) \/ DropFuture(c)
        PROVE  OwnLength(w)
    BY <1>3, CallOwnLength
  <1>4. ASSUME NEW v \in Workers, AccumulatorProgress(v) \/ HookPanic(v)
        PROVE  Filled(w)' /\ Exited(w)'
    <2>1. CASE v = w
      BY <1>1, <1>4, <2>1, AccumulatorFills, AccumulatorExits
    <2>2. CASE v # w
      BY <1>2, <1>4, <2>2, AccumulatorLocal DEF Untouched, OwnLength
    <2> QED
      BY <2>1, <2>2
  <1>5. ASSUME NEW v \in Workers,
               ThreadProgress(v) \/ PredictPanics(v) \/ ThreadHookPanic(v)
        PROVE  OwnLength(w)
    BY <1>5, ThreadOwnLength
  <1>6. CASE DropHandle \/ UNCHANGED vars
    BY <1>2, <1>6 DEF DropHandle, vars, workerVars, wordVars, accVars, OwnLength
  <1> QED
    BY <1>2, <1>3, <1>4, <1>5, <1>6
    DEF Next, CallNext, AccumulatorNext, ThreadNext, Terminated

LEMMA InitShownInv == Init => ShownInv
PROOF
  BY DEF Init, ShownInv, Filled, Exited

(* A worker does not come back from Crashed.                               *)
LEMMA CrashedStays ==
  ASSUME TypeOK, CrashInv, [Next]_vars, NEW w \in Workers, status[w] = "Crashed"
  PROVE  status'[w] = "Crashed"
PROOF
  <1>1. accPc[w] = "gone"
    BY DEF CrashInv, WorkerEnd
  <1>2. ASSUME NEW c \in Calls, Begin(c) \/ CallProgress(c) \/ DropFuture(c)
        PROVE  status'[w] = status[w]
    BY <1>2, CallOwnLength DEF OwnLength
  <1>3. ASSUME NEW v \in Workers, AccumulatorProgress(v) \/ HookPanic(v)
        PROVE  status'[w] = status[w]
    <2>1. accPc[v] # "gone"
      BY <1>3
      DEF AccumulatorProgress, Pop, NotifyOne, IncrementLen, Exit, BatchTimeout,
          JobClosed, CheckPredictor, DrainPop, DrainDone, Ready, Reserve,
          ReserveClosed, CheckAgain, Send, ResetBatchLen, Crash, GuardSetDead,
          GuardNotify, DropReceiver, HookPanic
    <2> QED
      BY <1>1, <1>3, <2>1, AccumulatorLocal DEF Untouched
  <1>4. ASSUME NEW v \in Workers,
               ThreadProgress(v) \/ PredictPanics(v) \/ ThreadHookPanic(v)
        PROVE  status'[w] = status[w]
    BY <1>4, ThreadOwnLength DEF OwnLength
  <1>5. ASSUME DropHandle \/ UNCHANGED vars PROVE status'[w] = status[w]
    BY <1>5 DEF DropHandle, vars, workerVars, wordVars
  <1>6. CASE CallNext
    BY <1>2, <1>5, <1>6 DEF CallNext
  <1>7. CASE AccumulatorNext \/ ThreadNext
    BY <1>3, <1>4, <1>7 DEF AccumulatorNext, ThreadNext
  <1>8. status'[w] = status[w]
    BY <1>5, <1>6, <1>7 DEF Next, Terminated
  <1> QED
    BY <1>8

(* What the observer has loaded is still worth showing: the word was       *)
(* coherent when it was loaded, Crashed is for good, and a handle is       *)
(* borrowed until the snapshot is complete.                                *)
Loaded(w, x) ==
  /\ owner
  /\ Word!batch_len(x) <= BatchSize
  /\ Word!worker_status(x) = "Running" => Word!batch_len(x) > 0
  /\ Word!worker_status(x) # "Exit"
  /\ Word!worker_status(x) = "Crashed" => status[w] = "Crashed"

SeenInv ==
  \/ seen = NotLooking
  \/ \E w \in Workers :
       seen.at = w /\ Loaded(w, seen.word)

BaseInv == TypeOK /\ SnapshotHonest /\ CrashInv /\ ShownInv /\ WordAgrees

LEMMA NextSeenInv ==
  BaseInv /\ SeenInv /\ [StatusNext]_statusVars => SeenInv'
PROOF
  <1> SUFFICES ASSUME BaseInv, SeenInv, [StatusNext]_statusVars PROVE SeenInv'
    OBVIOUS
  <1>1. [Next]_vars
    BY StatusNextMaps
  <1>2. ASSUME UNCHANGED seen, seen # NotLooking => owner'
        PROVE  SeenInv'
    <2>1. CASE seen = NotLooking
      BY <1>2, <2>1 DEF SeenInv, NotLooking
    <2>2. CASE seen # NotLooking
      <3>1. PICK w \in Workers : seen.at = w /\ Loaded(w, seen.word)
        BY <2>2 DEF SeenInv
      <3>2. status[w] = "Crashed" => status'[w] = "Crashed"
        BY <1>1, CrashedStays DEF BaseInv
      <3>3. seen'.at = w /\ Loaded(w, seen.word)'
        BY <1>2, <2>2, <3>1, <3>2
        DEF Loaded, Word!batch_len, Word!worker_status, Word!from_u8, Word!to_u8
      <3> QED
        BY <3>3 DEF SeenInv
    <2> QED
      BY <2>1, <2>2
  <1>3. CASE WorkerStep /\ UNCHANGED seen
    <2>1. UNCHANGED owner
      BY <1>3
      DEF WorkerStep, StoringStep, OtherStep, othersVars, Pop, NotifyOne,
          IncrementLen, Exit, BatchTimeout, JobClosed, CheckPredictor, DrainPop,
          DrainDone, Ready, Reserve, ReserveClosed, CheckAgain, Send,
          ResetBatchLen, Crash, GuardSetDead, GuardNotify, DropReceiver,
          HookPanic
    <2>2. seen # NotLooking => owner
      BY DEF SeenInv, Loaded
    <2> QED
      BY <1>2, <1>3, <2>1, <2>2
  <1>4. ASSUME NEW w \in Workers, LoadWord(w) PROVE SeenInv'
    <2>1. /\ Word!worker_status(word[w]) = status[w]
          /\ Word!batch_len(word[w]) = batchLen[w]
      BY DEF BaseInv, WordAgrees
    <2>2. /\ owner /\ batchLen[w] <= BatchSize
          /\ status[w] = "Running" => batchLen[w] > 0
          /\ status[w] # "Exit"
      BY <1>4
      DEF LoadWord, BaseInv, SnapshotHonest, ShownInv, Filled, Exited, HandleAlive
    <2>3. /\ seen'.at = w /\ seen'.word = word[w]
          /\ UNCHANGED <<owner, status>>
      BY <1>4 DEF LoadWord, vars, wordVars
    <2>4. Loaded(w, word[w])
      BY <2>1, <2>2 DEF Loaded
    <2>5. Loaded(w, seen.word)'
      BY <2>3, <2>4
      DEF Loaded, Word!batch_len, Word!worker_status, Word!from_u8, Word!to_u8
    <2> QED
      BY <2>3, <2>5 DEF SeenInv
  <1>5. ASSUME NEW w \in Workers, LoadPredictor(w) PROVE SeenInv'
    BY <1>5 DEF LoadPredictor, SeenInv, NotLooking
  <1>6. CASE UNCHANGED statusVars
    BY <1>2, <1>6 DEF statusVars, vars, SeenInv, Loaded
  <1>7. CASE /\ CallNext \/ ThreadNext \/ Terminated
             /\ seen # NotLooking => owner'
             /\ UNCHANGED <<word, seen>>
    BY <1>2, <1>7
  <1> QED
    BY <1>3, <1>4, <1>5, <1>6, <1>7 DEF StatusNext

LEMMA BaseHolds == StatusSpec => []BaseInv
PROOF
  <1>1. TypeOK /\ SnapshotHonest /\ CrashInv /\ ShownInv /\ WordAgrees => BaseInv
    BY DEF BaseInv
  <1> QED
    BY <1>1, StatusImplements, TypeCorrect, SnapshotsHonest, InitCrashInv,
       NextCrashInv, InitShownInv, NextShownInv, WordsAgree, PTL DEF Spec

LEMMA SeenHolds == StatusSpec => []SeenInv
PROOF
  <1>1. StatusInit => SeenInv
    BY DEF StatusInit, SeenInv
  <1> QED
    BY <1>1, BaseHolds, NextSeenInv, PTL DEF StatusSpec

(* What LoadPredictor has to show, of the worker whose word was loaded.    *)
LEMMA ShownWord ==
  ASSUME SeenInv, NEW w \in Workers, LoadPredictor(w)
  PROVE  Loaded(w, seen.word)
PROOF
  <1>1. seen # NotLooking
    BY DEF LoadPredictor, NotLooking, Workers
  <1> QED
    BY <1>1 DEF SeenInv, LoadPredictor

(* However the worker moves between the two loads, a snapshot shows a      *)
(* length within batch_size, no Running worker without a batch, and no     *)
(* worker that has exited.                                                 *)
THEOREM SnapshotsCohere == StatusSpec => SnapshotCoherent
PROOF
  <1> DEFINE A == \A w \in Workers : LoadPredictor(w) => Coherent(snapshot(w))
  <1>1. SeenInv => A
    BY ShownWord DEF Coherent, snapshot, Loaded
  <1>2. SeenInv /\ [StatusNext]_statusVars => [A]_statusVars
    BY <1>1
  <1> QED
    BY <1>2, SeenHolds, PTL DEF StatusSpec, SnapshotCoherent

(* A worker shown as Crashed is shown with a Dead predictor.               *)
THEOREM CrashesShownDead == StatusSpec => CrashShownWithDeath
PROOF
  <1> DEFINE A == \A w \in Workers : LoadPredictor(w) =>
                    (snapshot(w).worker_status = "Crashed" =>
                       snapshot(w).predictor_status = "Dead")
  <1>1. BaseInv /\ SeenInv => A
    BY ShownWord DEF snapshot, Loaded, BaseInv, CrashInv, WorkerEnd
  <1>2. BaseInv /\ SeenInv /\ [StatusNext]_statusVars => [A]_statusVars
    BY <1>1
  <1> QED
    BY <1>2, BaseHolds, SeenHolds, PTL DEF StatusSpec, CrashShownWithDeath
=============================================================================
