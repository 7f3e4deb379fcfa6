----------------------------- MODULE PoolStatus -----------------------------
(***************************************************************************)
(* pool_status and worker_status beside a running batcher.  Batchinf keeps *)
(* a worker's status and length apart and writes them at once; here they   *)
(* live in the packed word, written by the primitives of state/mod.rs, and *)
(* an observer reads word and predictor status one after the other, while  *)
(* the worker goes on.                                                     *)
(***************************************************************************)
EXTENDS Batchinf

CONSTANTS LenRange, U32Range

Word == INSTANCE StateWord

(* batch_size is a u32.                                                    *)
ASSUME BatchSizeAssumption ==
  /\ LenRange \in Nat \ {0} /\ U32Range \in Nat \ {0}
  /\ BatchSize < U32Range /\ U32Range <= LenRange

VARIABLES
  word,     (* WorkerStateInner.worker_state of each worker                   *)
  seen      (* the two atomics of a worker as they were when the observer's   *)
            (* snapshot loaded the word; NotLooking between two snapshots     *)

statusVars == <<vars, word, seen>>

NotLooking == [at |-> -1]

StatusInit ==
  /\ Init
  /\ word = [w \in Workers |-> 0]
  /\ seen = NotLooking

-----------------------------------------------------------------------------
(***************************************************************************)
(* The accumulator, the only writer of the word.                           *)
(***************************************************************************)
Store(w, x) == word' = [word EXCEPT ![w] = x]

StoringStep(w) ==
  \/ IncrementLen(w)  /\ Store(w, Word!increment_len(word[w]))
  \/ Ready(w)         /\ Store(w, Word!set_worker_state(word[w], "Running"))
  \/ ResetBatchLen(w) /\ Store(w, Word!reset_batch_len(word[w]))
  \/ Exit(w)          /\ Store(w, Word!set_worker_state(word[w], "Exit"))
  \/ Crash(w)         /\ Store(w, Word!set_worker_state(word[w], "Crashed"))

OtherStep(w) ==
  \/ Pop(w) \/ NotifyOne(w) \/ BatchTimeout(w) \/ JobClosed(w)
  \/ CheckPredictor(w) \/ DrainPop(w) \/ DrainDone(w)
  \/ Reserve(w) \/ ReserveClosed(w) \/ CheckAgain(w) \/ Send(w)
  \/ HookPanic(w) \/ GuardSetDead(w) \/ GuardNotify(w) \/ DropReceiver(w)

-----------------------------------------------------------------------------
(***************************************************************************)
(* The observer, which borrows the application's handle for as long as it  *)
(* looks.                                                                  *)
(***************************************************************************)

(* Mutant: the predictor's status is loaded first, and the word after it.  *)
PredictorFirst(w) ==
  [worker_status    |-> Word!worker_status(word[w]),
   batch_len        |-> Word!batch_len(word[w]),
   predictor_status |-> seen.predictor]

(* What snapshot returns: the word as it was, the predictor as it is.      *)
snapshot(w) ==
  [worker_status    |-> Word!worker_status(seen.word),
   batch_len        |-> Word!batch_len(seen.word),
   predictor_status |-> predictor[w]]

LoadWord(w) ==
  /\ owner
  /\ seen = NotLooking
  /\ seen' = [at |-> w, word |-> word[w], predictor |-> predictor[w]]
  /\ UNCHANGED <<vars, word>>

LoadPredictor(w) ==
  /\ seen.at = w
  /\ seen' = NotLooking
  /\ UNCHANGED <<vars, word>>

-----------------------------------------------------------------------------
WorkerStep ==
  \E w \in Workers : StoringStep(w) \/ (OtherStep(w) /\ UNCHANGED word)

StatusNext ==
  \/ /\ WorkerStep
     /\ UNCHANGED seen
  \/ /\ CallNext \/ ThreadNext \/ Terminated
     /\ seen # NotLooking => owner'
     /\ UNCHANGED <<word, seen>>
  \/ \E w \in Workers : LoadWord(w) \/ LoadPredictor(w)

StatusSpec     == StatusInit /\ [][StatusNext]_statusVars
StatusFairSpec == StatusSpec /\ Fairness

-----------------------------------------------------------------------------
(***************************************************************************)
(* Properties.                                                             *)
(***************************************************************************)

(* The word and the fields of Batchinf say the same: no increment carries  *)
(* into the status, no status write loses the length, and a reset clears   *)
(* both at once.                                                           *)
WordAgrees ==
  \A w \in Workers : /\ Word!worker_status(word[w]) = status[w]
                     /\ Word!batch_len(word[w]) = batchLen[w]

(* What an observer is shown makes sense on its own: a length within       *)
(* batch_size, no empty batch in a Running worker, and never Exit, since   *)
(* the observer holds a handle.                                            *)
Coherent(s) ==
  /\ s.batch_len <= BatchSize
  /\ s.worker_status = "Running" => s.batch_len > 0
  /\ s.worker_status # "Exit"

SnapshotCoherent ==
  [][\A w \in Workers : LoadPredictor(w) => Coherent(snapshot(w))]_statusVars

(* A worker shown as Crashed is shown with a Dead predictor, although the  *)
(* two are loaded one after the other: the thread writes Dead before the   *)
(* accumulator writes Crashed, and snapshot loads them the other way round.*)
CrashShownWithDeath ==
  [][\A w \in Workers : LoadPredictor(w) =>
       (snapshot(w).worker_status = "Crashed" =>
          snapshot(w).predictor_status = "Dead")]_statusVars
=============================================================================
