------------------------------ MODULE Startup ------------------------------
(***************************************************************************)
(* get_batcher (setup/mod.rs) and the first life of every worker: the      *)
(* accumulator task spawns the inference thread, the thread builds its     *)
(* predictor and reports over the startup channel, and get_batcher waits   *)
(* for all reports, the first failure, the closing of the channel or its   *)
(* deadline.  When it ends without a handle the pool is dropped, and every *)
(* worker, started or not, has to go.                                      *)
(*                                                                         *)
(* A build is one step with the outcomes PredictorBuild can have: built,   *)
(* failed after its last attempt, or cancelled once nobody listens.        *)
(* Batchinf takes over where `caller` becomes "ready".                     *)
(***************************************************************************)
EXTENDS Integers, Sequences, FiniteSets

CONSTANTS
  PoolSize,     (* number of workers                                       *)
  SpawnFails,   (* may the system refuse to start a thread?                *)
  ErrorPanics   (* may the Debug of the factory's error panic in warn!?    *)

ASSUME StartupAssumption ==
  PoolSize \in Nat \ {0} /\ SpawnFails \in BOOLEAN /\ ErrorPanics \in BOOLEAN

Workers  == 0 .. PoolSize - 1
Failures == {"WorkerStartFailure", "WorkerStartPanic"}
Outcomes == Failures \cup {"none", "Ok", "InternalError", "Timeout", "Abandoned"}

VARIABLES
  caller,     (* get_batcher: "waiting" for acks, "ready" with the handle  *)
              (* alive, "failed" without one, or "released", handle gone   *)
  result,     (* what it returned: an outcome, and the worker it names     *)
  acked,      (* poll_acks: how many workers have reported success         *)
  acks,       (* the startup channel                                       *)
  acc,        (* each accumulator task: "new", "recv" or "gone"            *)
  th,         (* each inference thread: "none", "building", "acking",      *)
              (* "reporting", "serving" or "gone"                          *)
  failure,    (* why the thread's build failed, or "none"                  *)
  model,      (* does the thread own a predictor?                          *)
  predictor   (* WorkerStateInner.predictor_state                          *)

vars == <<caller, result, acked, acks, acc, th, failure, model, predictor>>

Report(o, w) == [outcome |-> o, worker |-> w]

Init ==
  /\ caller = "waiting"
  /\ result = Report("none", 0)
  /\ acked = 0
  /\ acks = <<>>
  /\ acc = [w \in Workers |-> "new"]
  /\ th = [w \in Workers |-> "none"]
  /\ failure = [w \in Workers |-> "none"]
  /\ model = [w \in Workers |-> FALSE]
  /\ predictor = [w \in Workers |-> "Alive"]

(* The receiver of the startup channel lives in poll_acks, its senders in  *)
(* the handoffs and then in the threads, until they have reported.         *)
Listening == caller = "waiting"

(* Mutant: get_batcher keeps its own sender.                               *)
SenderKept == TRUE

SenderAlive ==
  \E w \in Workers : acc[w] = "new" \/ th[w] \in {"building", "acking", "reporting"}

(* Mutant: a failed startup keeps the pool.                                *)
PoolLeaked == TRUE

PoolAlive == caller \in {"waiting", "ready"}

-----------------------------------------------------------------------------
(***************************************************************************)
(* A worker.                                                               *)
(***************************************************************************)
(* The accumulator starts and spawns its inference thread.                 *)
StartWorker(w) ==
  /\ acc[w] = "new"
  /\ acc' = [acc EXCEPT ![w] = "recv"]
  /\ th' = [th EXCEPT ![w] = "building"]
  /\ UNCHANGED <<caller, result, acked, acks, failure, model, predictor>>

(* It cannot: the failure is reported with try_send.                       *)
SpawnRefused(w) ==
  /\ SpawnFails
  /\ acc[w] = "new"
  /\ acc' = [acc EXCEPT ![w] = "recv"]
  /\ th' = [th EXCEPT ![w] = "gone"]
  /\ acks' = IF Listening /\ Len(acks) < PoolSize
             THEN Append(acks, Report("InternalError", w)) ELSE acks
  /\ UNCHANGED <<caller, result, acked, failure, model, predictor>>

BuildSucceeds(w) ==
  /\ th[w] = "building"
  /\ model' = [model EXCEPT ![w] = TRUE]
  /\ th' = [th EXCEPT ![w] = "acking"]
  /\ UNCHANGED <<caller, result, acked, acks, acc, failure, predictor>>

(* Mutant: the failure is reported and the predictor left Alive.           *)
BuildFailsAlive(w) ==
  /\ th[w] = "building"
  /\ \E f \in Failures : failure' = [failure EXCEPT ![w] = f]
  /\ th' = [th EXCEPT ![w] = "reporting"]
  /\ UNCHANGED <<caller, result, acked, acks, acc, model, predictor>>

BuildFails(w) ==
  /\ th[w] = "building"
  /\ \E f \in Failures : failure' = [failure EXCEPT ![w] = f]
  /\ predictor' = [predictor EXCEPT ![w] = "Dead"]
  /\ th' = [th EXCEPT ![w] = "reporting"]
  /\ UNCHANGED <<caller, result, acked, acks, acc, model>>

BuildCancelled(w) ==
  /\ th[w] = "building"
  /\ ~Listening
  /\ predictor' = [predictor EXCEPT ![w] = "Dead"]
  /\ th' = [th EXCEPT ![w] = "gone"]
  /\ UNCHANGED <<caller, result, acked, acks, acc, failure, model>>

(* A panic outside the factory call: the guard marks the predictor Dead,   *)
(* and the sender is dropped without a report.                             *)
BuildUnwinds(w) ==
  /\ ErrorPanics
  /\ th[w] = "building"
  /\ predictor' = [predictor EXCEPT ![w] = "Dead"]
  /\ th' = [th EXCEPT ![w] = "gone"]
  /\ UNCHANGED <<caller, result, acked, acks, acc, failure, model>>

(* blocking_send of Ok(()): with nobody listening the thread returns and   *)
(* its predictor is dropped.                                               *)
AckSuccess(w) ==
  /\ th[w] = "acking"
  /\ \/ /\ ~Listening
        /\ th' = [th EXCEPT ![w] = "gone"]
        /\ model' = [model EXCEPT ![w] = FALSE]
        /\ UNCHANGED acks
     \/ /\ Listening
        /\ Len(acks) < PoolSize
        /\ acks' = Append(acks, Report("Ok", w))
        /\ th' = [th EXCEPT ![w] = "serving"]
        /\ UNCHANGED model
  /\ UNCHANGED <<caller, result, acked, acc, failure, predictor>>

(* blocking_send of the failure.                                           *)
AckFailure(w) ==
  /\ th[w] = "reporting"
  /\ \/ ~Listening /\ UNCHANGED acks
     \/ /\ Listening
        /\ Len(acks) < PoolSize
        /\ acks' = Append(acks, Report(failure[w], w))
  /\ th' = [th EXCEPT ![w] = "gone"]
  /\ UNCHANGED <<caller, result, acked, acc, failure, model, predictor>>

(* The request channel is closed: the accumulator exits and takes its job  *)
(* sender with it, which ends the thread.                                  *)
AccumulatorExits(w) ==
  /\ acc[w] = "recv"
  /\ ~PoolAlive
  /\ acc' = [acc EXCEPT ![w] = "gone"]
  /\ UNCHANGED <<caller, result, acked, acks, th, failure, model, predictor>>

ThreadExits(w) ==
  /\ th[w] = "serving"
  /\ acc[w] = "gone"
  /\ th' = [th EXCEPT ![w] = "gone"]
  /\ model' = [model EXCEPT ![w] = FALSE]
  /\ UNCHANGED <<caller, result, acked, acks, acc, failure, predictor>>

-----------------------------------------------------------------------------
(***************************************************************************)
(* get_batcher.                                                            *)
(***************************************************************************)
Fail(r) ==
  /\ caller' = "failed"
  /\ result' = r
  /\ acks' = <<>>

(* Mutant: whatever a worker reports is counted.                           *)
PollAckAnything ==
  /\ Listening
  /\ acks # <<>>
  /\ acked' = acked + 1
  /\ acks' = Tail(acks)
  /\ caller' = IF acked + 1 = PoolSize THEN "ready" ELSE "waiting"
  /\ result' = IF acked + 1 = PoolSize THEN Report("Ok", 0) ELSE result
  /\ UNCHANGED <<acc, th, failure, model, predictor>>

PollAck ==
  /\ Listening
  /\ acks # <<>>
  /\ \/ /\ Head(acks).outcome = "Ok"
        /\ acked' = acked + 1
        /\ acks' = Tail(acks)
        /\ caller' = IF acked + 1 = PoolSize THEN "ready" ELSE "waiting"
        /\ result' = IF acked + 1 = PoolSize THEN Report("Ok", 0) ELSE result
     \/ /\ Head(acks).outcome # "Ok"
        /\ Fail(Head(acks))
        /\ UNCHANGED acked
  /\ UNCHANGED <<acc, th, failure, model, predictor>>

(* The channel closed before every worker has reported.                    *)
ChannelClosed ==
  /\ Listening
  /\ acks = <<>>
  /\ ~SenderAlive
  /\ Fail(Report("InternalError", 0))
  /\ UNCHANGED <<acked, acc, th, failure, model, predictor>>

StartupTimeout ==
  /\ Listening
  /\ Fail(Report("Timeout", 0))
  /\ UNCHANGED <<acked, acc, th, failure, model, predictor>>

(* The application drops the future of get_batcher.                        *)
DropStartup ==
  /\ Listening
  /\ Fail(Report("Abandoned", 0))
  /\ UNCHANGED <<acked, acc, th, failure, model, predictor>>

ReleaseHandle ==
  /\ caller = "ready"
  /\ caller' = "released"
  /\ UNCHANGED <<result, acked, acks, acc, th, failure, model, predictor>>

-----------------------------------------------------------------------------
WorkerProgress(w) ==
  \/ StartWorker(w) \/ SpawnRefused(w)
  \/ BuildSucceeds(w) \/ BuildFails(w) \/ BuildCancelled(w)
  \/ AckSuccess(w) \/ AckFailure(w)
  \/ AccumulatorExits(w) \/ ThreadExits(w)

CallerProgress == PollAck \/ ChannelClosed

(* Every accumulator and thread has ended and no predictor is left.        *)
Stopped ==
  \A w \in Workers : acc[w] = "gone" /\ th[w] = "gone" /\ ~model[w]

Terminated == ~PoolAlive /\ Stopped /\ UNCHANGED vars

Next ==
  \/ \E w \in Workers : WorkerProgress(w) \/ BuildUnwinds(w)
  \/ CallerProgress \/ StartupTimeout \/ DropStartup \/ ReleaseHandle
  \/ Terminated

(* Tasks and threads are scheduled and a factory call returns.  Nothing is *)
(* assumed of the startup deadline: it may be as long as one likes.        *)
Spec ==
  /\ Init /\ [][Next]_vars
  /\ \A w \in Workers : WF_vars(WorkerProgress(w))
  /\ WF_vars(CallerProgress)

-----------------------------------------------------------------------------
(* Every variable holds values of the program's types.                     *)
TypeOK ==
  /\ caller \in {"waiting", "ready", "failed", "released"}
  /\ result \in [outcome : Outcomes, worker : Workers]
  /\ acked \in 0 .. PoolSize
  /\ acks \in Seq([outcome : Outcomes, worker : Workers])
  /\ acc \in [Workers -> {"new", "recv", "gone"}]
  /\ th \in [Workers -> {"none", "building", "acking", "reporting",
                         "serving", "gone"}]
  /\ failure \in [Workers -> Failures \cup {"none"}]
  /\ model \in [Workers -> BOOLEAN]
  /\ predictor \in [Workers -> {"Alive", "Dead"}]

(* get_batcher "returns once every worker has built its predictor": with a *)
(* handle alive every thread serves, with a predictor that is Alive.       *)
ReadyMeansServing ==
  caller = "ready" =>
    \A w \in Workers : /\ acc[w] = "recv" /\ th[w] = "serving"
                       /\ model[w] /\ predictor[w] = "Alive"

(* A StartupError that names a worker names one whose build failed that    *)
(* way and that is marked Dead, and InternalError stands for a worker that *)
(* never got to serve.                                                     *)
BlameHonest ==
  /\ result.outcome \in Failures =>
       /\ failure[result.worker] = result.outcome
       /\ predictor[result.worker] = "Dead"
  /\ result.outcome = "InternalError" =>
       \E w \in Workers : th[w] = "gone" /\ failure[w] = "none"

(* get_batcher returns without the help of its deadline, whichever workers *)
(* stop without a report.                                                  *)
StartupEnds == caller = "waiting" ~> caller # "waiting"

(* "On error the workers that did start are shut down", and a factory call *)
(* that was running "runs to completion in the background and its          *)
(* predictor is then dropped"; the same once the handle is gone.           *)
FailureReleases == ~PoolAlive ~> Stopped

-----------------------------------------------------------------------------
(***************************************************************************)
(* The inductive invariant behind ReadyMeansServing and BlameHonest.       *)
(***************************************************************************)
Serving == {w \in Workers : th[w] = "serving"}

(* The workers whose success get_batcher has yet to read.                  *)
Unread == {w \in Workers : \E i \in DOMAIN acks : acks[i] = Report("Ok", w)}

WorkerInv ==
  \A w \in Workers :
    /\ acc[w] = "new" => th[w] = "none"
    /\ th[w] = "none" => acc[w] = "new"
    /\ acc[w] = "gone" => ~PoolAlive
    /\ th[w] \in {"acking", "serving"} => model[w]
    /\ th[w] \in {"none", "building", "acking", "serving"} =>
         predictor[w] = "Alive" /\ failure[w] = "none"
    /\ th[w] = "reporting" => predictor[w] = "Dead" /\ failure[w] # "none"

(* What an acknowledgement says of the worker that sent it.                *)
Truthful(r) ==
  /\ r.outcome \in Failures \cup {"Ok", "InternalError"}
  /\ r.outcome = "Ok" => th[r.worker] = "serving"
  /\ r.outcome # "Ok" => th[r.worker] = "gone"
  /\ r.outcome = "InternalError" => failure[r.worker] = "none"
  /\ r.outcome \in Failures => /\ failure[r.worker] = r.outcome
                               /\ predictor[r.worker] = "Dead"

(* While get_batcher waits, every worker has reported at most once, the    *)
(* successes it has counted are the serving workers without the unread     *)
(* ones, and every failed build that has ended has left its report.        *)
AckInv ==
  caller = "waiting" =>
    /\ \A n \in DOMAIN acks : Truthful(acks[n])
    /\ \A n, k \in DOMAIN acks : acks[n].worker = acks[k].worker => n = k
    /\ acked = Cardinality(Serving \ Unread)
    /\ acked < PoolSize
    /\ result.outcome = "none"
    /\ \A w \in Workers : th[w] = "gone" /\ failure[w] # "none" =>
         \E n \in DOMAIN acks : acks[n].worker = w

ResultInv ==
  /\ caller = "ready" => \A w \in Workers : th[w] = "serving"
  /\ result.outcome \in Failures => Truthful(result)
  /\ result.outcome = "InternalError" =>
       \E w \in Workers : th[w] = "gone" /\ failure[w] = "none"

StartupInv == WorkerInv /\ AckInv /\ ResultInv
=============================================================================
