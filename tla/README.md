# batchinf in TLA+

A verification development for `batchinf`, the Rust library under `src/` that collects single
inference requests into batches and runs them on a pool of workers. The modules here model the
library's control: who holds a request, who wakes whom, what each part reads of the others and
when, and what happens when a predictor panics, a rebuild fails, a metrics hook panics, a future is
dropped, startup fails, or the last handle goes away. TLC checks them on small pools; TLAPS proves
part of it for every size. Paths are written as in the repository (`src/worker/mod.rs` and so on).

- [The system](#the-system)
- [Modules, and how they correspond to the code](#modules-and-how-they-correspond-to-the-code)
- [What is abstracted](#what-is-abstracted)
- [Runs](#runs)
- [Fairness](#fairness)
- [What is proved](#what-is-proved)
- [What the checks found](#what-the-checks-found)
- [Not modelled](#not-modelled)
- [Plan](#plan)
- [Running it](#running-it)

## The system

| Component | State it keeps | Operations | What makes it correct |
|---|---|---|---|
| Handle, `batcher/mod.rs` | the pool, the shutdown receiver; per call a `oneshot` receiver and a `Notified` | `try_predict`, `blocking_try_predict`, `predict`, `predict_with_timeout`, clone, drop | every call ends; with the right error |
| Router, `pool/mod.rs` | the workers' `WorkerRef`s, a round-robin counter, the pool's `Notify` | `try_push` (two passes), `pool_status`, `worker_status` | blames the pool only if the pool is to blame; never picks a dead worker for ever |
| Worker state, `state/mod.rs` | one 64-bit word (length and status), one byte (predictor status) | `increment_len`, `reset_batch_len`, `set_worker_state`, `set_predictor_state`, `set_dead`, `snapshot` and the router's reads | what it shows is what there is, and makes sense although it is loaded in two steps; Dead is final |
| Accumulator, `worker/mod.rs` | the batch being collected, the request receiver, the job sender | `accumulate_next_batch`, `check_predictor_alive`, `handle_crashed_inf`, `run_inference` | no request lost or duplicated, batches no larger than `batch_size`, ends at the last drop |
| Inference thread, `worker/inf.rs` | the predictor, the batch it runs, the job receiver | take, filter, predict, flush, rebuild, give up | answers what it takes, marks its end, releases shutdown last |
| Building, `worker/inf.rs` | attempt, wait, last failure | `spawn_predictor`, `backoff_schedule`, `sleep_with_exit` | the documented waits, prompt cancellation |
| Buffers, `worker/buffer.rs` | two vectors, inputs and senders | `push`, `swap_replace`, `filter_canceled`, `split` | element-wise pairs; room for a batch |
| Panic guard, `worker/panic_guard.rs` | - | on unwinding: `set_dead`, `notify_waiters` | nobody waits for what unwound |
| Startup, `setup/mod.rs` | the acknowledgement channel and its deadline | `get_batcher`, `poll_acks`, `collect_acks` | a handle means a serving pool, an error means nothing is left |
| Shutdown, `shutdown/mod.rs` | a watch channel, one sender clone per thread | `wait`, `is_shutdown` | resolves once every thread has gone |
| Dispatch, `worker/dispatch.rs` | - | `send_output`, `send_errors`, `send_errors_on_crash` | one reply per request |
| Observability, `observability/mod.rs` | - (a backend's totals) | `emit_batch_start`, `emit_inference_ok`, `emit_inference_err`, `emit_queue_depth`, `emit_worker_panic`, `emit_timeout` | what is reported adds up; a gauge does not show a backlog that is gone |
| Config, errors, `lib.rs` | values | - | - |

Requests travel: a call pushes `(input, oneshot sender)` onto a worker's bounded request channel;
the worker's accumulator (a tokio task) moves it into its buffer, calling `notify_one` and
`increment_len`; a batch that is full, or whose timer fired, goes through a job channel of depth
one to the worker's inference thread (an OS thread), which answers the senders. The parts also
meet in shared state that no lock protects: the worker's status word, the predictor's status, and
the pool's `Notify`, on which callers that found every queue full wait. Three things end a worker:
the last handle (closing the request channel), a failed rebuild (the thread returns), and a
panicking metrics hook (the accumulator or the thread unwinds).

The hard behaviours, listed with their lines under `hazards` in `PROJECT.json`, are: reads of a
worker that are stale when acted on (router, `check_predictor_alive`, `run_inference`); wakeups
that reach the wrong caller, or nobody; drains and flushes that race with a rebuild; what is left in
a channel whose other end goes away; shutdown in the middle of a rebuild; startup in which some
workers succeed and others do not; in-place filtering while callers cancel; and vectors that
outgrow their capacity in a drain.

## Modules, and how they correspond to the code

```
 BuildPromise  <==  PredictorBuild         how one predictor is built    PredictorBuildProofs
                         |  (a build is one step in the two below)
                    Startup                get_batcher, first builds     StartupProofs
                         |  ReadyMeansServing is Batchinf's initial state
 BatchinfState <- Calls, Accumulator, InferenceThread
                         |
 BatchService  <==  Batchinf               a running batcher             BatchinfProofs
                     |   |   |                                           ConservationProofs
                     |   |   |                                           ServiceProofs
                     |   |   +-- MCBatchinf       symmetry for TLC
                     |   +------ PoolStatus       with the packed word   PoolStatusProofs
                     |              |             and an observer
                     |           StateWord
                     +---------- Observability    with the metrics hooks ObservabilityProofs
                                      |  (a batch is a set in all of these)
                    WorkerBuffer           a batch as two vectors        WorkerBufferProofs
```

`<==` is a refinement: the module on the left is what its users rely on, the one on the right is
checked and proved to implement it.

**`BatchinfState`** declares the constants and variables of a running batcher and what several
actors use: ownership of channel ends, the router's reads, `oneshot`, and tokio's `Notify`
with its stored permit, its list of waiters, and the forwarding of a `notify_one` by a dropped
`Notified`. A request is identified with the call that made it.

**`Calls`** has the steps of a call. `pc[c]` goes `idle -> probe -> push -> await -> done`, with
`probe_predictor` for the second load of the router's snapshot of a worker, `is_rebuilding` for the
second snapshot it takes, and `enable`, `parked` for `predict`'s wait. The loads and the push are
separate steps because nothing holds the worker in between. `sink`, `left`, `pass` and `hope` are `try_push`'s locals (`hope` is
`has_live_worker || has_rebuilding_worker`). `DropFuture` is `predict_with_timeout`'s deadline, or
any dropped `predict` future, at either await point.

**`Accumulator`** has `worker_loop` and what it calls, one action per await point or access to
shared state; the module's head lists the program points. `HookPanic`, `GuardSetDead`,
`GuardNotify` and `DropReceiver` are its unwinding in drop order.

**`InferenceThread`** has `inference_runner` from its first built predictor on: `TakeBatch`
(with `filter_canceled`), the three outcomes of `predict_batch`, its panic, `FailBatch`, the two
`FlushBatch`es around the rebuild, `SetAlive`/`NotifyAlive`, `SetDead`/`NotifyDead`, and the drop
of the job receiver. The panic guard does what a failed rebuild does, so both share steps.

**`Batchinf`** composes the three over all calls and workers, adds fairness, and states the
properties. **`MCBatchinf`** adds the symmetry set for TLC.

**`BatchService`** is what the request methods promise, without queues, router, accumulator or
rebuild: a call is new, looking for room, queued or done; a predictor is given a group of at most
`batch_size` requests of callers that wait at that moment, none twice; what it returns goes to the
callers of the group that still wait; a caller gets one answer, and the errors that blame the pool
only exist where user code panics. `Batchinf!ServiceKept` maps `pc` to the phase (`PhaseOf`) and a
dropped sender to `InternalError` (`AnswerOf`, the code's `From<RecvError>`).

**`StateWord`** has the arithmetic of the packed word: status code above, length below, with the
four writers and `snapshot`'s two decodings, for any width. **`PoolStatus`** is `Batchinf` with that
word next to the fields `status` and `batchLen`: every write of the accumulator is paired with the
primitive the code calls. Its observer is `pool_status`: it loads the word, lets the batcher run,
loads the predictor's status, and is shown the pair. It borrows a handle, so the last handle is not
dropped under it.

**`Observability`** is `Batchinf` with the totals a metrics backend would keep. Every `emit_` operator
says which steps call the hook and with which size or depth. `handed` is the batch that has been sent
and not yet reported, since `on_batch_trigger` is called after the hand-off.

**`PredictorBuild`** is `spawn_predictor` with its schedule and sliced sleep, in abstract time
units; **`BuildPromise`** is what its users rely on, and `PredictorBuild` is checked and proved to
implement it (`attempts` is mapped to the saturated number of attempts; the other variables keep
their names).

**`Startup`** is `get_batcher` with every worker's first build: spawning or not, building,
acknowledging over a bounded channel, the first failure, the channel closing, the deadline, and
what is dropped afterwards.

**`WorkerBuffer`** is the two vectors of a batch, with capacities and the growth rule of `Vec`,
through filling, draining, swapping, and the in-place filter that races with cancelling callers.

## What is abstracted

- Inputs, outputs and error payloads; a batch is a set of calls, except in `WorkerBuffer`.
- `WorkerRef::push` reads the status and calls `try_send` in one step. A worker that becomes Exit or Crashed in
  between dequeues nothing more, so a send that still reaches its channel might as well have come before the
  change, and one that finds it closed ends like a push that read the new status.
- `try_send` is one step. This does leave something out. tokio acquires a slot first and publishes the
  message without looking again, so a receiver that closes and drains in between leaves the request in a
  channel that nobody reads, until the last sender goes: the race of finding 4, on the request channel. It
  is internal to the library, where one call is all the code sees; the properties that rest on this step
  being atomic are `AnsweredUnlessStranded` and `NothingLeftBehind`.
- A router's snapshot whose word already rules the worker out does not load the predictor's status:
  the code does and ignores it. `Refuses` and `is_rebuilding` use one of the two loads each.
- In `Batchinf` the status and the length are two variables written together; `PoolStatus` has the
  word they are packed into, and `WordAgrees` says the two never differ. `set_worker_state` loads and
  stores in two operations; the accumulator is the word's only writer, so it is one step.
- `emit_batch_start` sets Running a second time, after the hand-off, when it already is; the reset that
  follows it is one step with it.
- An observer's snapshots of different workers are independent of each other, so it takes one at a time.
- `Observability` leaves out latencies and whether size or timer triggered a batch.
- `notified()` and `enable()` are one step: a `Notified` that has not been enabled only
  remembers how many `notify_waiters` it has seen, and the code does nothing in between.
- The replies to one batch are sent in one step; a caller that reads early only leaves early.
- Unwinding drops a batch and the job sender in one step, since nobody can act between the two
  and see a difference in what the model keeps; the guard and the receiver follow as own steps.
  `Crash` marks the worker and drops the task's frame in one step.
- A hook may panic anywhere between the status becoming Running and the next reset, not only at
  the line that calls it.
- A build is one step in `InferenceThread` and `Startup`, with the outcomes and the cancellation
  `BuildPromise` allows.
- The job channel has depth one by construction (`JOB_QUEUE_DEPTH`).
- In `WorkerBuffer` a drain fills the accumulator's own buffer, as `check_predictor_alive` has it. The
  other drain, in `run_inference`, fills a batch that has been swapped out already and is dropped
  after it.
- Time: a timer is something that may fire (and, under fairness, does, unless the constant
  `BatchTimer` is FALSE, for `batch_timeout = Duration::MAX`).
- Each call submits one request; `start` is kept modulo the pool size, as the router uses it.

## Runs

Passing runs; every property of each has a mutant of the code in `PROJECT.json` that breaks it.

| Run | Instance | Shows |
|---|---|---|
| `serve` (`Observability`) | 1 worker, batch 2, queue 1; one fail-fast call, one droppable `predict`, one plain `predict`; all returns of `predict_batch` | the wakeup of a sleeping caller is not lost, also when a woken one is dropped; `BatchService` is implemented; what the hooks report adds up and the queue gauge is not left behind; every call ends; shutdown completes |
| `pool` | 2 workers, batch 1, queue 1; one fail-fast call, one droppable `predict`, one plain `predict` | types; both passes and the wrap of the walk blame no healthy pool; no wakeup is lost between the workers, and nobody deadlocks; every call ends, though each has to be woken from whichever worker frees a slot |
| `dies` (`PoolStatus`) | 1 worker, batch 2, queue 1; 2 `predict` calls, one droppable; panics, rebuilds that fail; a word with 3 bits of length, of which a snapshot keeps 2; one observer | no request lost or duplicated, and `BatchService` kept, through flushes and deaths; threads end with their predictor Dead or after the handles; the snapshot's length is the batch's, also after a flush; queued requests are answered unless stranded; callers waiting for room hear of the end, also if they register while it comes; shutdown completes; the packed word never carries or loses a part; every snapshot is coherent and shows a Crashed worker with a Dead predictor |
| `hooks` | 1 worker, batch 2, queue 1; 3 fail-fast calls; everything may panic, hooks included | conservation and `batch_size` through drains, flushes and unwinding; Crashed means dead; Dead comes back only behind an unwound accumulator; a task or thread that has ended leaves no request behind; queued requests are answered unless stranded; shutdown completes |
| `build` | integers with a maximum of 4 for `u8`, so retries 0..4, durations 0, 1, 3, 5, 9, slice 2 | the waits between factory calls, and none after the last; at most one nap after cancellation; the promise |
| `startup` | 3 workers; spawning may fail, the factory's error may panic when logged | a handle means a serving pool; errors name a culprit; startup ends without its deadline; a failed startup leaves nothing |
| `buffer` | batch 3, 7 requests, 1-byte inputs | pairs; exactly the right requests run; accumulating never reallocates |

Why the bounds are enough to be interesting. One queue slot and three calls are the least with
which one request is queued, one caller waits for room and one is being served; batch 2 makes
partial batches, timer and size triggers all occur. In `hooks` two of the fail-fast calls are
buffered and queued while the third panics, so that a drain finds both. With two workers and one
slot each, three callers fill both and one waits. In `build` the saturation of `retries + 1`, a
start above the maximum wait, a start of zero, waits that are and are not multiples of the slice, and
up to four attempts all occur. Three workers in `startup` let one be ready, one fail and one
still build when the caller learns of it. In `dies` the length bits hold 0..7 and a snapshot's length 0..3, with a
batch of 2: `increment_len` runs right up to the batch size, and a carry into the status needs only a reset that
is missed. Two `predict` calls are enough there for one to be waiting when the other takes the last predictor with
it; with a third, and the observer, the temporal properties no longer finish in a few minutes. Seven requests let a drain outgrow a vector and two
batches follow it.

`dies`, `hooks` and the four violation runs of `MCBatchinf` switch deadlock checking off: callers of
a stranded batch really do hang (finding 4). The `buffer` runs switch it off because the
requests run out. In `dies` and `hooks` the answer to a queued request is therefore
stated as `AnsweredUnlessStranded`: answered, or in a job channel whose receiver has gone. Run
`serve` and `pool` state the full `EveryCallEnds`.

`EveryCallEnds` is not checked in a run with panics and waiting `predict` calls together: finding
2 is a counterexample. `HealthyPoolServes` is for runs without panics; finding 1 is what it would
meet otherwise. `ThreadOutlivesHandles` is for runs in which no hook panics (see the divergences below).

`SomebodyMoves` is for a pool with a batch timer in which no user code panics. It says in state predicates
(`CallReady`, `AccumulatorReady`, `ThreadReady`) which actors can go on, since `ENABLED` is beyond the
prover; in the instances of `serve` and `hooks` TLC finds these equal to `ENABLED` of the three fair actions in
every reachable state. A wakeup held by a caller that goes on to wait for its own reply takes four `predict` calls
on two workers to matter, and that instance is too large for a run (more than 19 million states, safety alone). `pool` has three
calls; `NobodyIsDeadlocked` and `WakeupsAreKept` are for any number of calls and workers.

## Fairness

Weak fairness of each call's progress, each accumulator's and each thread's, separately. This is
what tokio and the operating system give: a task that has been woken is polled, a thread is
scheduled. It includes that an armed batch timer fires and that `predict_batch` and the factory
return, without which nothing can be promised. Nothing is assumed of the application: it need not
make a call, drop a future or drop a handle; and nothing makes user code panic. A race inside
`select!` or between callers is not resolved fairly. `Startup` assumes no fairness of the deadline.
`PredictorBuild` assumes it of the building thread only.

## What is proved

All proofs are for every value of the constants, under the assumptions named in the modules
(`ConfigAssumption`: pool, batch and queue sizes are positive and the calls are finitely many, as
`NonZeroU8`, `NonZeroU32` and a finite program give; `BuildAssumption`; `StartupAssumption`;
`BufferAssumption`; `BatchSizeAssumption` of `PoolStatus`: a batch size fits the snapshot's `u32`, and that fits the
length bits).

`BatchinfProofs`:

- `TypeCorrect`: `Spec => []TypeOK`. One lemma per group of actions.
- `CrashedIsFinal`: `Spec => []CrashedMeansDead`. `CrashedMeansDead` is not inductive: a worker
  becomes Crashed in a step that knows only that its `reserve` failed. `CrashInv` adds that
  `accPc = "dead"` implies the thread has gone and the buffer is empty (`WorkerEnd`), and how a
  thread comes to be gone (`ThreadEnd`): through `SetDead`, or because its job sender was dropped.
- `ThreadsOutliveHandles`: `~HooksPanic => (Spec => []ThreadOutlivesHandles)`. Adds `OrderInv`: with
  no hook panicking an accumulator is gone only after the last handle or its thread, so a job sender
  is dropped only then. A handle once gone stays gone because calls start from an owner.
- `DeadStaysDead`: `Spec => DeadIsFinal`, whatever panics. `DeadInv`: Dead is written by a thread on its way out,
  or by the guard of an accumulator that unwinds, which its status Running tells from one that crashed
  (`Unwound`). Only there can a thread's rebuild overwrite it (see the divergences); where no hook panics Dead is final.
- `BatchesFit`: `Spec => []BatchBound`, from `BufferBound`: the buffer is below `batch_size`
  while collecting, at most `batch_size` from there to the send, and unbounded only in a drain, which
  no send follows.

`ConservationProofs`:

- `RequestsConserved`: `Spec => []RequestConservation`, whatever panics. `ConservationInv` says, worker by
  worker, that queue, buffer, job channel and thread hold disjoint sets and the queue has no duplicate;
  that no two workers hold the same request; and that a call that waits without an answer is held
  somewhere while any other is not (`Owed`). It needs `Slots`: the slot an accumulator has reserved is
  empty until it sends, and a thread that takes a batch holds none. Every step of a worker is shown to
  be a `Moves`: it shifts requests within the worker or answers the ones it lets go of. A step of a call is
  shown to be quiet or to append itself once.
- `NothingIsLeftBehind`: `Spec => []NothingLeftBehind`, whatever panics. `LeftoverInv`: an accumulator
  that has dropped its job sender has no batch, the job channel is empty once both its ends are gone, and the
  request channel once the accumulator is. With it `NobodyStranded`: where no hook panics and a rebuild succeeds in
  the end, no batch is ever stranded, so finding 4 needs one of the two.
- `SnapshotsHonest`: `Spec => []SnapshotHonest`, from `LengthInv`, which ties the length to the buffer at
  each program point.

`ServiceProofs`:

- `HealthyServes`: with no panic, `Spec => []HealthyPoolServes`. `HealthInv`: predictors stay Alive, an
  accumulator ends only after the last handle and a thread only after its accumulator; a call in flight
  holds a handle, so it finds every worker open and never reaches `is_rebuilding`.
- `ServiceImplemented`: `Spec => ServiceKept`, for all constants, panics included. Each step of `Batchinf` is
  shown to be a step of `BatchService` or a stutter under the mapping, with conservation (what a thread takes
  is waited for and in no other group), `BoundInv` (its size) and `HealthInv` (no blame without a panic).
- `DeathsAreTold`: `Spec => []DeathIsTold`, for all constants. The property speaks of callers that sleep, but a
  caller decides to sleep some steps earlier. `ToldInv` therefore also covers the calls that are on their way
  there (`Expecting`): those that have registered and stand before a push, or have found hope in their walk. A
  call joins them only at a predictor that is not Dead (`CallExpects`), and a worker that stops giving hope
  announces it first (`WorkerTells`). `predict` trying again after it has registered is what this rests on.
- `WakeupsAreKept`: with no panic, `Spec => []NoWakeupLost`. It is inductive together with `HealthInv` and
  `NotifyInv`, which says that the list of waiters has no duplicates and holds exactly the futures registered. A call
  that gives up or falls asleep has just met a full queue (`CallLands`), a dequeue notifies the oldest sleeper, and one
  that leaves with a notification hands it on. The theorem says that the wakeup exists, not that it arrives: a call that
  awaits its reply may hold it, for as long as that reply takes and, without a batch timer, for good (finding 3).
  `NobodyParkedForGood` follows: no caller sleeps in front of a pool that is idle in every part, so the lost wakeup of
  finding 2 needs a panic.
- `NobodyIsDeadlocked`: with no panic and with a batch timer, `Spec => []SomebodyMoves`. Who waits for a reply is
  held by a worker (`ConservationInv`), and a worker that holds a request can go on (`HolderMoves`): its accumulator
  collects, with the timer armed, or has a batch and waits for a slot that only its thread can free. Who
  waits for room has registered (`ParkedInv`), and its wakeup is kept: by such a worker, by a call that is
  walking, or by one that awaits a reply itself. The timer is needed; without it finding 3 is a deadlock.

`PoolStatusProofs`:

- `WordsAgree`: `StatusSpec => []WordAgrees`. `PackedInv` is `word = length + code * LenRange`;
  increments cannot carry because `SnapshotHonest` bounds the length.
- `SnapshotsCohere` and `CrashesShownDead`: from `ShownInv` (a Running worker has a batch; Exit only
  after the last handle) and `SeenInv`, which says what the observer may still conclude from the word it
  loaded earlier: once Crashed was loaded, the predictor is Dead now (`CrashedStays`). This is where the order
  of the two loads matters; the mutant of the run loads them the other way round.
  Steps of `PoolStatus` are steps of `Batchinf` (`StatusImplements`), so all its invariants hold here.

`ObservabilityProofs`: `NothingFromNowhere` (`ObservedSpec => []CompletedWereTriggered`) from `TallyInv`, and
`GaugesHonest` (`ObservedSpec => []GaugeHonest`) from `GaugeInv`, which follows the depth from the point a batch is
closed to the next one. `TriggeredCompletes` (`ObservedSpec => []TriggeredComplete`): `LeftInv` says
that a request whose caller has ended is still held only if that caller timed out, so that without a timeout the filter
removes nothing; `CompleteInv` then counts with equality where `TallyInv` has a bound.

`PredictorBuildProofs`: `BackoffDoubles` (`Spec => []BackoffLaw`) from `BackoffInv`, which states the schedule in closed
form, `next = Least(backoff * 2^i, max_wait)`, and has nothing slept once an error or panic is final. Clamping at each
doubling is clamping the doubled start because `2^(n+1) = 2 * 2^n`, which needs no induction: `2^n` is the library's
count of the subsets of `1 .. n`, and one element more doubles them (`PowersOfTwo`). Also `CancelsPromptly` (`Spec => []PromptCancel`) and `BuildRefinesPromise`, the
safety part of the refinement of `BuildPromise`, which come from `BuildInv`, which relates the program
point to the number of calls, the last failure and the naps since the condition was met.

`StartupProofs`: `StartupTypeCorrect`, `HandleMeansServing` (`Spec => []ReadyMeansServing`) and
`ErrorsAreHonest` (`Spec => []BlameHonest`), from `StartupInv`. Its heart is `AckInv`: while
`get_batcher` waits, every worker has reported at most once and truthfully, and the successes counted
are exactly as many as the serving workers whose report has been read. When the count reaches the
pool size those are all workers; when the channel closes before, a worker is missing that is neither serving
nor about to report.

`WorkerBufferProofs`: `PairsStayAligned` (`Spec => []PairsAligned`); `NeverReallocates`
(`Spec => AccumulatesInPlace`), from `RoomInv`: both capacities are at least `batch_size`,
kept by every swap although it reads only one of them; and `FilterIsExact` (`Spec => []FilterExact`), from
`FilterInv`: nothing before the index had been cancelled when the filter began, and what is missing
has been cancelled. `SwapRemovedSet` says that replacing an element by the last one loses just that element.

Model-checked only: all liveness (`EveryCallEnds`, `AnsweredUnlessStranded`,
`NobodyWaitsOnDeadPool`, `ShutdownCompletes`, `StartupEnds`,
`FailureReleases`, the liveness half of `BuildKeepsPromise`), which the prover cannot do. Every safety property
and action property of a passing run is proved.

## What the checks found

Each of the five violation runs checks one property taken from the repository's own words or
assertions, and TLC finds it violated by what the code does.

1. `no_available`. The router reads a worker twice, `can_accept_secondary` and then
   `is_rebuilding` (`pool/mod.rs:82`, and 132-145). A rebuild that finishes in between makes
   both false and the caller gets `NoAvailableWorkersError` from a pool that is Alive.
2. `lost_wakeup`. A drain (`worker/mod.rs:360`) dequeues without `notify_one`. A caller that
   parks after the rebuild's `notify_waiters` and before the drain sleeps in front of an idle worker until some
   other request comes along.
3. `swallowed_wakeup`. `predict` awaits its reply inside the loop iteration that
   registered the `Notified` (`batcher/mod.rs:196`), so a `notify_one` it received meanwhile is
   forwarded only when the reply has come. With an unbounded batch timeout nobody else may ever get on.
4. `stranded_batch`. `run_inference` checks the predictor, then sends on a reserved permit
   (`worker/mod.rs:383-389`). If the thread panics, fails to rebuild and ends in between, the batch
   goes into a closed channel and its callers wait until the accumulator ends.
5. `buffer_capacity`. A drain may push more than `batch_size` pairs, and the two vectors then
   grow by steps that depend on the size of their elements; the `debug_assert_eq!` on their capacities
   (`worker/buffer.rs:61`) panics the accumulator of a debug build. In a release build it does
   nothing wrong: `AccumulatesInPlace` is proved for any growth.

One thing the checks show about waiting is neither a finding nor a property of a run. Finding 2 suggests stating
that a caller sleeps only while every queue is full or a wakeup is on its way to somebody. That is false even in a
healthy pool with two workers (batch 1, queue 1, four `predict` calls): a caller woken for the room in worker 1 is
still looking at worker 0, which is full; worker 0 dequeues and wakes a second caller, which pushes into worker 1;
the first one then finds worker 1 full too and sleeps, although worker 0 is empty by now. It is woken by the next
dequeue of worker 1, so it waits longer than "until a queued request is picked up" (`batcher/mod.rs:163`) suggests.
What does hold is `NoWakeupLost`: its wakeup exists, in a queue or with a call. Whether it arrives is another matter.
With a batch timer every holder comes to use it or to hand it on (`SomebodyMoves`, `EveryCallEnds`); without one a
call may keep it for good, which is finding 3.

Divergences between the code and its documentation that were met on the way and have no run:

- `state/mod.rs:95` and `predictor/mod.rs:74` say queued requests wait for a rebuild; drains and
  flushes fail them at once with `InternalError`.
- `worker/panic_guard.rs:20` and `docs/design.md:140` say an unwinding accumulator ends with
  `WorkerStatus::Crashed`; the guard writes only the predictor's status, and the worker's stays
  Running.
- `tests/integration.rs:2383` says a Dead predictor never comes back. After a hook panic on the accumulator
  during a rebuild, the thread overwrites the guard's Dead with Alive; `DeadIsFinal` says that nothing else does.
- `worker/panic_guard.rs:25` notifies waiters "in the case this is the only worker and messages can no longer be
  serviced", which does not reach all of them in the same race. The guard notifies while the receiver is still alive and its queue full. If the thread
  finishes its rebuild after that (Alive, and its own `notify_waiters`), a caller may find the queue full and park; then the
  receiver is dropped and the thread ends on its closed job channel, and neither notifies. Met by TLC in an
  instance with hook panics and `predict` calls.
- `shutdown/mod.rs:49` says `wait` never resolves while a handle is alive. It does once every
  thread has given up its rebuild.
- `config/mod.rs:53` says `predict` returns `QueueFullError` when every queue is full; it waits and never
  returns it, as `batcher/mod.rs:164` and `error/mod.rs:41` say (`Refuse` in `BatchService`).
- `observability/mod.rs:29` says `on_batch_trigger` fires when a batch is triggered. It fires after the batch
  has been handed over (`worker/mod.rs:220`), possibly after its `on_batch_complete_ok`, and not at all for a
  batch that is flushed. `CompletedWereTriggered` states the order that does hold.
- `observability/mod.rs:68` says the queue depth is emitted again once the hand-off completes. It is only when the
  hand-off ends in a flush (`worker/mod.rs:224`); the comment at line 219 about the backlog stands over a call
  that reports the trigger. A drain in `check_predictor_alive` reports nothing, so after a panic the gauge may
  keep showing requests that have been failed.
- `state/mod.rs:120` calls a snapshot point-in-time, "at the moment of the atomic load". There are two loads,
  and the pair may never have existed; `SnapshotCoherent` and `CrashShownWithDeath` say what it still guarantees.
- `worker_start_retries = 255` gives 255 factory calls, not 256 (`worker/inf.rs:205`). `BuildKeepsPromise` takes this
  saturation for granted, since its mapping has it; what it rules out is that the sum wraps.

## Not modelled

- Tracing output, messages of errors, latencies and the kind of a batch's trigger: wording and reporting.
- The configuration builder and the `Predictor` trait: they assign values and declare types. The defaults a
  builder starts from are instances of the constants.
- `benches/`, `example/`, `http-bench/`: clients of the library.
- tokio's channels, `Notify`, `oneshot`, `watch` and `select!`, and `Vec`: modelled from how the
  code uses them and marked external in `PROJECT.json`.

## Plan

Done: the running batcher, startup, building and buffers; the packed word and its observers; the
abstract service and its implementation; the hooks; the safety proofs above. What is left:

1. Larger instances where the time allows: two workers with panics. The safety properties of one worker are
   proved for any number already; what a larger instance would add is liveness across workers.
2. Deadlock-freedom of a pool in which user code panics. `NobodyIsDeadlocked` has it for a healthy one; with panics
   it needs exceptions for what findings 2 and 4 strand. The temporal arguments on top stay with TLC.

## Running it

    tlc -workers 2 -config serve.cfg Observability
    tlc -workers 2 -config dies.cfg PoolStatus
    tlc -workers 2 -config hooks.cfg MCBatchinf         (and pool, and the violation runs)
    tlc -workers 2 -config build.cfg PredictorBuild
    tlc -workers 2 -config startup.cfg Startup
    tlc -workers 2 -config buffer.cfg WorkerBuffer
    tlapm BatchinfProofs.tla
    tlapm ConservationProofs.tla
    tlapm ServiceProofs.tla
    tlapm PoolStatusProofs.tla
    tlapm ObservabilityProofs.tla
    tlapm PredictorBuildProofs.tla
    tlapm StartupProofs.tla
    tlapm WorkerBufferProofs.tla

`PROJECT.json` maps every definition that models code to its lines, and lists the runs, the mutants,
the hazards, the findings and the theorems.
