--------------------------- MODULE PredictorBuild ---------------------------
(***************************************************************************)
(* Building a predictor on the inference thread (worker/inf.rs):           *)
(* spawn_predictor calls the factory until it succeeds, waits between two  *)
(* calls as backoff_schedule says, and sleeps in slices so that it notices *)
(* the exit condition.  Used at startup, where the condition is that the   *)
(* acknowledgement channel is closed, and after a panic, where it is that  *)
(* the job channel is.  Durations are counted in multiples of one unit.    *)
(***************************************************************************)
EXTENDS Naturals

CONSTANTS
  MaxU8,     (* the largest value of a u8                                  *)
  Durations, (* the durations a configuration may hold                     *)
  Slice      (* the longest sleep between two looks at the exit condition  *)

ASSUME BuildAssumption ==
  /\ MaxU8 \in Nat \ {0}
  /\ Durations \subseteq Nat
  /\ Slice \in Nat \ {0}

Least(a, b) == IF a < b THEN a ELSE b

VARIABLES
  retries,   (* worker_start_retries, a u8                                 *)
  backoff,   (* worker_start_backoff_start                                 *)
  max_wait,  (* max_worker_retry_wait                                      *)
  at,        (* "attempt", "factory", "sleep", "nap" or "done"             *)
  closed,    (* the exit condition                                         *)
  i,         (* the attempt backoff_schedule is at                         *)
  next,      (* backoff_schedule: the wait after the next attempt          *)
  wait,      (* what is left to sleep after this attempt                   *)
  failure,   (* last_failure                                               *)
  outcome,   (* what spawn_predictor returned                              *)
  calls,     (* history: factory calls so far                              *)
  slept,     (* history: time slept since the last factory call            *)
  late       (* history: naps that began after the condition was met       *)

config == <<retries, backoff, max_wait>>

vars == <<config, at, closed, i, next, wait, failure, outcome, calls, slept, late>>

(* Mutant: the addition wraps.                                             *)
AttemptsWrap == (retries + 1) % (MaxU8 + 1)

(* retries.saturating_add(1)                                               *)
total_attempts == Least(retries + 1, MaxU8)

Init ==
  /\ retries \in 0 .. MaxU8
  /\ backoff \in Durations
  /\ max_wait \in Durations
  /\ at = "attempt"
  /\ closed = FALSE
  /\ i = 0
  /\ next = Least(backoff, max_wait)
  /\ wait = 0
  /\ failure = "Cancelled"
  /\ outcome = "none"
  /\ calls = 0
  /\ slept = 0
  /\ late = 0

(* The last receiver or sender that waits for this build goes away.        *)
Close ==
  /\ ~closed
  /\ closed' = TRUE
  /\ UNCHANGED <<config, at, i, next, wait, failure, outcome, calls, slept, late>>

Return(r) == at' = "done" /\ outcome' = r

(* Mutant: a doubled wait is not clamped.                                  *)
AttemptUnclamped ==
  /\ at = "attempt"
  /\ i < total_attempts
  /\ wait' = IF i = total_attempts - 1 THEN 0 ELSE next
  /\ next' = 2 * next
  /\ i' = i + 1
  /\ \/ closed /\ Return("Cancelled") /\ UNCHANGED calls
     \/ /\ ~closed
        /\ at' = "factory"
        /\ calls' = calls + 1
        /\ UNCHANGED outcome
  /\ UNCHANGED <<config, closed, failure, slept, late>>

(* Mutant: the wait is not zero after the last attempt.                    *)
AttemptWaitsAtTheEnd ==
  /\ at = "attempt"
  /\ i < total_attempts
  /\ wait' = next
  /\ next' = Least(2 * next, max_wait)
  /\ i' = i + 1
  /\ \/ closed /\ Return("Cancelled") /\ UNCHANGED calls
     \/ /\ ~closed
        /\ at' = "factory"
        /\ calls' = calls + 1
        /\ UNCHANGED outcome
  /\ UNCHANGED <<config, closed, failure, slept, late>>

(* Mutant: the factory is called without a look at the exit condition.     *)
AttemptUnchecked ==
  /\ at = "attempt"
  /\ i < total_attempts
  /\ wait' = IF i = total_attempts - 1 THEN 0 ELSE next
  /\ next' = Least(2 * next, max_wait)
  /\ i' = i + 1
  /\ at' = "factory"
  /\ calls' = calls + 1
  /\ UNCHANGED <<config, closed, failure, outcome, slept, late>>

(* One iteration of the loop of spawn_predictor: the schedule gives the    *)
(* wait for this attempt, the exit condition is read, the factory called.  *)
Attempt ==
  /\ at = "attempt"
  /\ i < total_attempts
  /\ wait' = IF i = total_attempts - 1 THEN 0 ELSE next
  /\ next' = Least(2 * next, max_wait)
  /\ i' = i + 1
  /\ \/ closed /\ Return("Cancelled") /\ UNCHANGED calls
     \/ /\ ~closed
        /\ at' = "factory"
        /\ calls' = calls + 1
        /\ UNCHANGED outcome
  /\ UNCHANGED <<config, closed, failure, slept, late>>

GiveUp ==
  /\ at = "attempt"
  /\ i = total_attempts
  /\ Return(failure)
  /\ UNCHANGED <<config, closed, i, next, wait, failure, calls, slept, late>>

FactoryBuilds ==
  /\ at = "factory"
  /\ Return("Built")
  /\ UNCHANGED <<config, closed, i, next, wait, failure, calls, slept, late>>

(* The factory returns Err, or panics and is caught.                       *)
FactoryFails ==
  /\ at = "factory"
  /\ failure' \in {"Error", "Panic"}
  /\ at' = "sleep"
  /\ slept' = 0
  /\ UNCHANGED <<config, closed, i, next, wait, outcome, calls, late>>

-----------------------------------------------------------------------------
(* sleep_with_exit.                                                        *)
Nap ==
  /\ at = "sleep"
  /\ wait > 0
  /\ at' = "nap"
  /\ late' = IF closed THEN late + 1 ELSE late
  /\ UNCHANGED <<config, closed, i, next, wait, failure, outcome, calls, slept>>

(* Mutant: the exit condition is read only when the wait is over.          *)
PollAtTheEnd ==
  /\ at = "nap"
  /\ slept' = slept + Least(Slice, wait)
  /\ \/ /\ closed /\ wait <= Slice
        /\ failure' = "Cancelled"
        /\ at' = "attempt"
        /\ UNCHANGED wait
     \/ /\ ~closed \/ wait > Slice
        /\ wait' = IF wait < Slice THEN 0 ELSE wait - Slice
        /\ at' = "sleep"
        /\ UNCHANGED failure
  /\ UNCHANGED <<config, closed, i, next, outcome, calls, late>>

(* The nap is over: time has passed, the exit condition is read.           *)
Poll ==
  /\ at = "nap"
  /\ slept' = slept + Least(Slice, wait)
  /\ \/ /\ closed
        /\ failure' = "Cancelled"
        /\ at' = "attempt"
        /\ UNCHANGED wait
     \/ /\ ~closed
        /\ wait' = IF wait < Slice THEN 0 ELSE wait - Slice
        /\ at' = "sleep"
        /\ UNCHANGED failure
  /\ UNCHANGED <<config, closed, i, next, outcome, calls, late>>

SleepOver ==
  /\ at = "sleep"
  /\ wait = 0
  /\ at' = "attempt"
  /\ UNCHANGED <<config, closed, i, next, wait, failure, outcome, calls, slept, late>>

Work == \/ Attempt \/ GiveUp \/ FactoryBuilds \/ FactoryFails
        \/ Nap \/ Poll \/ SleepOver

Returned == at = "done" /\ UNCHANGED vars

Next == Close \/ Work \/ Returned

(* The thread is scheduled and the factory returns.                        *)
Spec == Init /\ [][Next]_vars /\ WF_vars(Work)

-----------------------------------------------------------------------------
(* Every variable holds values of the program's types.                     *)
TypeOK ==
  /\ retries \in 0 .. MaxU8
  /\ backoff \in Durations
  /\ max_wait \in Durations
  /\ at \in {"attempt", "factory", "sleep", "nap", "done"}
  /\ closed \in BOOLEAN
  /\ i \in 0 .. total_attempts
  /\ next \in Nat
  /\ wait \in Nat
  /\ failure \in {"Error", "Panic", "Cancelled"}
  /\ outcome \in {"none", "Built", "Error", "Panic", "Cancelled"}
  /\ calls \in Nat
  /\ slept \in Nat
  /\ late \in Nat

(* "Time a worker waits after the first failed factory call before         *)
(* retrying.  The wait doubles after each further failure, up to           *)
(* max_worker_retry_wait": the n-th factory call begins after exactly that *)
(* much sleep since the one before it, however it was sliced.  And the     *)
(* failure of the last attempt is returned at once ("`retry_in` is zero on *)
(* the last attempt").                                                     *)
BackoffLaw ==
  /\ at = "factory" =>
       slept = IF calls = 1 THEN 0 ELSE Least(backoff * 2^(calls - 2), max_wait)
  /\ outcome \in {"Error", "Panic"} => slept = 0

(* "Backoff time for a retry can be interrupted": once nobody waits for    *)
(* the predictor, the thread goes to sleep at most once more.              *)
PromptCancel == late <= 1

(* The build implements its promise.                                       *)
Promise == INSTANCE BuildPromise WITH attempts <- Least(retries + 1, MaxU8)

BuildKeepsPromise == Promise!Spec

-----------------------------------------------------------------------------
(***************************************************************************)
(* The inductive invariant behind them.                                    *)
(***************************************************************************)
BuildInv ==
  /\ outcome = "none" <=> at # "done"
  /\ at # "done" => calls = i
  /\ at = "factory" => calls > 0
  /\ at \in {"sleep", "nap"} => failure # "Cancelled"
  /\ at = "attempt" /\ failure = "Cancelled" => closed \/ i = 0
  /\ at \in {"factory", "sleep"} => late = 0
  /\ at = "nap" => late = 0 \/ (late = 1 /\ closed)
  /\ at = "attempt" => late = 0 \/ (late = 1 /\ closed)
  /\ late <= 1

(* Clamping a wait each time it doubles is clamping the doubled start.     *)
WaitAfter(n) == Least(backoff * 2^n, max_wait)

(* The schedule is one doubling ahead of the attempts.  What has been      *)
(* slept and what is left to sleep make up the wait, unless the build is   *)
(* cancelled; after the last attempt there is nothing to sleep.            *)
BackoffInv ==
  /\ next = WaitAfter(i)
  /\ at \in {"factory", "sleep", "nap"} => i > 0
  /\ i = 0 => slept = 0
  /\ i \in 1 .. total_attempts - 1 =>
       /\ at = "factory" => wait = WaitAfter(i - 1)
       /\ at \in {"sleep", "nap"} => slept + wait = WaitAfter(i - 1)
       /\ at = "attempt" /\ ~closed => slept = WaitAfter(i - 1)
  /\ i = total_attempts =>
       /\ at # "nap"
       /\ at \in {"factory", "sleep"} => wait = 0
       /\ at \in {"sleep", "attempt"} => slept = 0
  /\ at # "done" => calls = i /\ outcome = "none"
  /\ BackoffLaw
=============================================================================
