# Verification of some_global_executor

`some_global_executor` is a multi-threaded executor for the `some_executor`
framework: a pool of worker threads that poll tasks, a hand-made waker, a
task counter that callers drain, static (non-`Send`) tasks pinned to the thread
that spawned them, and a second implementation for wasm. This directory holds
TLA+ models of its concurrent core, TLC configurations that check them on small
instances, and proofs, checked by TLAPS, for every instance.

Paths below are relative to the repository root, which is `src/` here (so the
crate's own sources are `src/src/...`).

## 1. Inventory

| component | source | state | operations |
|---|---|---|---|
| wake cell | `src/waker.rs` | `inline_wake`: `NOT_WOKEN`, `WOKEN` or the address of a boxed closure | `reset`, `wake_by_ref`, `check_wake`, clone/drop through the vtable |
| task counter | `src/lib.rs` (`DrainNotify`) | `running_tasks`, one `AtomicWaker` | count at spawn, subtract at the last poll, `drain`, `ExecutorDrain::poll`, conversions |
| native tasks | `src/sys/stdlib.rs` (`SpawnedTask`) | the boxed future, its waker and cell | `run`: reset, poll, finish or hand over to `check_wake` |
| native static tasks | `src/sys/stdlib.rs` (`SpawnedStaticTask`, `StaticExecutor`) | thread-locals `STATIC_TASKS`, `STATIC_PENDING_TASKS`, a channel of ids per thread | `spawn`, `run`, the static arm of `Thread::run` |
| native pool | `src/sys/stdlib.rs` (`Threadpool`, `Thread`) | task channel, thread channel, join handles, `requested_threads` | `new`, `Thread::run`, `resize`, shutdown by dropping the last handle |
| public API | `src/lib.rs` (`Executor`, `SomeExecutor`) | a handle and a name | `spawn*`, `resize`, `drain`, `drain_async`, `set_as_*` |
| wasm channel | `src/sys/wasm/channel.rs` | buffer of messages, stack of continuations | `send`, `recv` |
| wasm pool | `src/sys/wasm.rs` | pending-task map, size, the channel | `new`, `run_async`, `poll_task`, wake, `resize`, `Drop` |
| wasm static executor | `src/sys/wasm/static_executor.rs` | `CloseInfo` per worker | `spawn`, patched `close`, `consider_closing` |
| scripts, CI, docs | `scripts/`, `.github/`, `art/` | none | none |

How they interact. A handle counts a task (`running_tasks`) and sends it to the
task channel. A worker receives it, resets its wake cell and polls it. `Ready`
subtracts from the counter, and the task that brings it to zero wakes the drain
future. `Pending` boxes a closure that owns the task and tries to leave it in
the cell (`check_wake`); a waker, on any thread, takes the box out of the cell
and calls it, which sends the task back to the channel. A static task never
leaves its thread: the closure of its cell sends an id, which the thread looks
up in its map of pending tasks. `resize` sends `Shutdown` messages that any
thread may receive, and dropping the last handle disconnects the thread channel.

The wasm build has one channel, a stack, for new tasks, the ids of woken tasks
and `Shutdown`. A suspended task goes into a map shared by all workers, which
they hold weakly; its waker sends its id, and whoever receives it takes the task
out of the map. A worker is itself a future on the event loop of a web worker,
beside the static tasks of that worker, and the worker's global `close` is
patched so that it waits for all of them.

What is hard here:

- **Concurrency.** The wake cell is lock-free, with two compare-exchanges and
  addresses that are reused. A wake may come before, during or after the poll,
  from several threads at once. Drainers read the counter while tasks spawn
  tasks. A static task's wake crosses threads, its execution must not.
- **Ordering.** Every access in `waker.rs` is `Relaxed`. The executor registers
  the drain waker before it reads the counter, and counts before it sends.
- **Failure.** A poll may unwind, and takes its worker thread with it.
- **Shutdown.** Threads leave on a message or when the last handle goes, while
  tasks are queued, parked, static or about to be woken.
- **Wasm.** A wake may come before the task is in the map, ids may be sent
  twice, messages overtake each other, and the map may be gone.
- **Resizing.** Sizes are relative to `requested_threads`.

What makes each component correct: a woken task is polled again (wake cell);
a box and a task have one owner (wake cell, tasks); the counter counts what
drain should wait for, and drain waits for it all and returns (counter); queued
and woken tasks finish, static ones on their thread (pool); the pool has the
size asked for, and its threads leave when the executor is dropped (pool);
the same of the wasm pool, with one owner of a task in spite of duplicate ids;
a web worker closes after its last future and not before (close patch).

## 2. Modules

```
 WakeContract        what a waker promises; implemented by Waker and by each task of Pool
   Waker             the wake cell
 ExecutorContract    what an executor promises; implemented by Pool and WasmPool
   Pool              the native pool and its tasks
   WasmPool          the wasm pool and its channel
 Drain               the counter and the drains
 WasmClose           the event loop of a wasm worker and its close
   WasmWorker        extends it by run_async, the executor's counter and drain
 Occurrence          members of a channel, used by both pools
```

- **WakeContract** is the abstract specification of `std::task::Waker` as the
  executor relies on it: ready, running, suspended or done, and a flag that
  says that a wake has come since the last poll began.
- **ExecutorContract** is the abstract specification of the executor: tasks are
  submitted, polled by one worker at a time (a pinned one on its own worker),
  finished, unwound or abandoned, and `waited`, what `drain` waits for, goes up
  at a spawn and down when a task is finished. Only what nobody is polling may
  be abandoned, and while a handle is left only what is pinned to one worker.
  Pool and WasmPool implement it with their channels and maps. What `drain` may
  conclude from a zero is proved of the contract and carried to both pools
  (`DrainedMeansFinished`, section 5).
- **Waker** models `waker.rs` one atomic access per action: `Reset`,
  `FlushReset` (the store takes effect) and `StartPoll`; `PollPending` and
  `CheckWake` (`check_wake`'s box and its compare-exchange), `RunInline`;
  `WakeBegin`, `WakeCas`, `WakeTake` and `WakeAlert` (`wake_by_ref` as each
  thread executes it); and `FreeBox`, which returns a used address to the
  allocator at any later time. The cell and the heap are separate, so that a
  stale address can meet a new box. `strong` is the reference count of the cell:
  the task has two references (`Init`, `FreeTask`), each clone of its waker one
  (`Clone`, `DropWaker`), and `run` one while it is in `check_wake`
  (`PollPending`, `LeaveRun`), which may be after the task has been sent, polled
  elsewhere and dropped. The mapping to WakeContract reads `notified` off the
  cell, except while the store of `reset` is delayed into the poll (`Delayed`),
  when the cell may still hold the mark of the wake before (`Notified`).
- **Drain** models `DrainNotify`: `SpawnCount`/`SpawnSend` (`spawn_internal`),
  `Finish`/`WakeDrainer` (the last poll), `SyncReturn` (`drain`),
  `PollRegister`/`PollLoad` (`ExecutorDrain::poll`), `IntoExecutor`.
- **Pool** models `stdlib.rs` above the cell. `select_biased!` in `Thread::run`
  tries the static, the task and the thread channel one after the other, and
  each try is a step of its own: it receives (`RecvStatic`, `RecvTask`,
  `RecvShutdown`, `RecvDisconnected`) or passes on (`SkipStatic`, `SkipTask`,
  `Block`), and between two tries any other thread may send or drop the last
  handle. A worker parked on all three receives from the channel that unparks
  it, or tries again (`Retry`). The rest is the static inner loop (`RunStatic`,
  `StaticLoopEnds`), what a poll may do (`SpawnStatic`, `Spawn`) and how it ends
  (`PollReady`, `PollPending`, `StaticPending`, `PollPanic`), wakes from outside
  (`Wake`, then `SendTask` or `SendId`, which sends by the `sender` that the
  alert captured), `Resize`, `DropExecutor` and `ThreadExit`. `missed` is a
  history variable: the tasks in the channel at the last drop, if every worker
  was past its try of the task channel then. A task's cell is one atomic
  variable, which the refinement of WakeContract by Waker permits for the
  behaviours in which no wake meets a reset that is delayed into the poll; in
  the others a wake may be lost (finding 4), in the pool as in the cell. Each
  task of Pool is shown to see the contract kept.
- **WasmPool** models `wasm.rs` and `channel.rs`: `Send` and `Recv` of the
  stack with its waiting receivers, the three arms of `run_async`
  (`HandleNewTask`, `HandleResumeTask`/`HandleDuplicate`/`ResumeFails`,
  `HandleShutdown`), `poll_task` cut where another thread can act
  (`PollReady` or `PollPending`, `InsertPending` or `InsertFails`,
  `CheckInlineWake`, `Release` of the references to the map), the two steps of
  `WakeInfo::wake` (`WakeStore`, `WakeSend`) for the waker of every poll, each
  called any number of times (`Due` is the call that a suspended task waits for,
  `MaxExtra` bounds all others), and `Resize`, `DropExecutor`, `SendShutdown`
  and `DropMap`. The map lives as long as `Internal` or a worker's local holds
  it.
- **WasmClose** models `static_executor.rs` for one worker, one callback of its
  event loop per action: `Enter` (`Thread::run`), `LibraryCloses` and
  `FutureCloses` (calls of the patched `close`), `FutureSpawns`, `FutureReady`.
- **WasmWorker** extends WasmClose by what `run_async` does there: tasks are
  counted and sent (`SpawnTask`), polled (`HandleNewTask`, `TaskSpawnsStatic`,
  `TaskReady`), the handle is drained or dropped (`StartDrain`, `FinishDrain`,
  `Abandon`), and the `Shutdown` of its drop ends `run_async`
  (`HandleShutdown`). Every other step is a callback of WasmClose.
- **Occurrence** defines "at most once in a sequence", which both pools say of
  their channels; **OccurrenceProofs** has the lemmas about it and about the
  number of copies.
- **MC*** are the modules that TLC runs, and ***Proofs** hold the theorems.

Abstractions worth knowing. Values produced by tasks, observers, names,
priorities (they only select a log message in this code) and logging are left
out. crossbeam's channels and select are taken from how `stdlib.rs` uses them:
FIFO, unbounded, a disconnected channel is ready. `AtomicWaker::register` and
`wake` are one step each. A static task's id is the task itself. `Wake` is a
future's event, so it is enabled from the first poll on.

## 3. Runs

| run | instance | shows |
|---|---|---|
| WakerSC | 2 wakers cloned and dropped at any time, 2 addresses, 2 threads in `run`, stores immediate | box ownership under ABA, the cell is freed last, no lost wake, each wake is followed by a poll, refinement of WakeContract with its liveness |
| WakerLostWake | 1 waker, delayed store | **violation** of `NoLostWake` |
| Drain | 3 tasks, 1 synchronous and 1 asynchronous drain | exact counter, no early return, no missed wake, every drain returns |
| DrainTwoFutures | 1 task, 2 drain futures | **violation** of `DrainCompletes` |
| Pool | 2 workers, 1 task, 2 static tasks, handle dropped at any time | ownership, announcements, exact counter, a task queued at the drop is polled unless every worker was past its try of the task channel, tasks finish, workers exit, refinement of WakeContract (safety) per task |
| PoolResize | 3 possible threads, pool of 2 resized once to 0, 1 or 3; a task and a static task that may unwind | the size is reached unless a poll unwinds, a task finishes while a worker is left, the workers exit, refinement of ExecutorContract |
| PoolResizeTwice | 1 worker, resized to 2 and to 1 | **violation** of `PoolReachesSize` |
| PoolShrinkStatic | 2 workers, a static task, resized to 1 | **violation** of `DrainReturns` |
| WasmPool | 2 possible workers, pool of 1 resized twice to 1 or 2, 1 task of three polls, a call of a waker that it does not wait for, handle dropped at any time | one owner in spite of duplicate ids, a wake by the waker of the last poll is not lost, exact counter, the size last asked for, the task finishes, all workers leave, refinement of ExecutorContract |
| WasmDropWhileBusy | 1 worker, 1 task | **violation** of `ExitsCleanly` |
| WasmWorker | `run_async`, 2 tasks, 3 static tasks, close called by the library and twice by tasks, the handle drained or dropped at any time | exact count, no early close, open as long as there is a handle, a drain returns, closed in the end |
| WasmDrainStatic | `run_async`, 1 task, 1 static task | **violation** of `DrainCoversStatic` |

Bounds. Two wakers are enough for one that has read an address and one that
takes that box, calls it and lets a new box be allocated there; two addresses let
an address be reused while another box exists, and two threads in `run` let one
be at the end of `check_wake` while the other polls the task it sent. Three tasks give a chain of
descendants (a task that spawns a task that spawns a task). `MaxPolls = 2`
polls per task give a suspension, a wake and a last poll; the last poll returns
`Ready`. `MaxResizes` bounds the calls of `resize`. Two workers are enough for
a task to move between threads, three for a resize in both directions.
Two static tasks let one round of the static loop run both and leave an
announcement behind. In the wasm pool two workers suffice for an id to be sent
twice and received by both. Three polls and one call that no task waits for
(`MaxExtra`) let the waker of the first poll send its id during the second one,
and the id be dropped as a duplicate before the task is inserted; the same call
may instead repeat one that was made before, or come after the task is done. A
pool of one that grows and shrinks remembers a size and has its `Shutdown` and
those of the drop under way together; shrinking and growing again while workers
leave needs a third worker, which is left to the proofs (`SizeReached`,
`NoWorkerForgotten`), and so is what two tasks could do to each other.
Deadlock is not checked: an executor
with nothing to do stops.

### Findings

1. `resize` computes from the size at construction (`stdlib.rs:474`), so a
   second `resize` does not give the size asked for.
2. Two drain futures of one executor share one waker slot (`lib.rs:337`); when
   the second registers before the last task ends, the first is never woken.
3. Shrinking the pool drops suspended static tasks with their thread
   (`stdlib.rs:399`); their count stays and `drain` never returns.
4. `reset` is a relaxed store (`waker.rs:80`) and may overwrite, late, the mark
   of a wake that the poll did not see: the wake is lost.
5. On wasm, dropping the last handle while a task is in its first poll, or with
   an id still queued, drops the map of pending tasks, and the worker fails an
   `expect` (`wasm.rs:195`, `wasm.rs:133`) where it should leave its loop.
6. On wasm, static tasks are counted by `CloseInfo` of their worker only
   (`static_executor.rs:188`), not by `DrainNotify`: `drain` returns while static
   tasks spawned before it are unfinished, where the native build waits.

## 4. Fairness

Weak fairness only, and never of something that a caller decides.

- Waker: the worker that polls the task, the store buffer, and each thread that
  is inside `wake_by_ref` take their steps (the operating system runs them).
  Nobody has to wake the task.
- Drain: a spawn that has begun ends, tasks finish, a spinning `drain` is
  scheduled, the executor that polls a drain future polls it when it is woken.
  Nobody has to spawn, drain or give up.
- Pool: every worker that has something to do runs, the disconnection of the
  thread channel unparks it (`Retry`), polls return, the event a
  suspended task waits for occurs (`Wake`), and a thread that took a box calls
  it. Nobody has to spawn, resize or drop the executor. Without the fairness of
  `Wake` no suspended task would have to finish, whatever the executor does.
- WasmPool: workers run, the `Shutdown` messages of a drop are sent, the event
  that a suspended task waits for calls the waker of its last poll once, and a
  wake that has begun sends its id. No second call and no call of an older waker
  is assumed. Polls and repeated wakes are bounded, so messages stop coming at
  some time and the stack is emptied: endless wakes, which might keep a message
  below them for ever, are outside the model.
- WasmWorker: the event loop runs, the thread library calls `close` after the
  entry function, tasks and static tasks end, messages are received, and a
  `drain` that spins is scheduled. That the worker starts at all supposes that
  `drain` spins on another thread than the one whose event loop has to start
  it. Nobody has to drain or drop the handle: `run_async` ends only after a
  `Shutdown`.

## 5. Proofs

Constants are arbitrary (any number of wakers, addresses, tasks, workers, any
sizes and bounds) under the modules' named assumptions.

- **WakerProofs**. `IInv` is the type invariant, what the cell may hold at each
  place of the task, which waker may be in which place, and what the heap holds
  for each owner. Ownership does not follow from itself: that a stale address
  in `WakeTake` is harmless needs the fact that a box in the cell is always the
  box of the parked task, whoever read the address. `Ownership` and
  `NeverDropped` follow. `LostOnlyInDelay` says that `NoLostWake` holds of
  every behaviour, with or without the store buffer, in which no `WakeCas` is
  taken while the store of `reset` is delayed into the poll: finding 4 has no
  other cause. Its invariant (`OwedInv`) is that a returned wake leaves the
  cell `WOKEN` until the next reset, and that during a delay every wake owed is
  still before its first compare-exchange. `Refinement` is about the same
  behaviours: every step maps to a step of WakeContract or a stutter, a delayed
  reset included, as the poll counts as begun when the task is polled whether
  or not the store has landed; when the store overwrites a wake that met the
  delay, WakeContract has no step that takes the notification back. `ArcInv`
  says that the reference count is two for the task, one for each clone and one
  for each thread at the end of `run`, and that whoever is about to use the cell
  has one of them; `CellFreedLast` follows, with or without the store buffer.
- **DrainProofs**. `IInv` says that the counter is the cardinality of the
  counted tasks and that whatever a drain waits for has been spawned; so zero
  implies that all of it has finished (`DrainSound`). `SeparateFuturesWoken`
  lets any number of drain futures come and go, be given up and leave their
  wakers behind, as long as no two overlap; `SingleFutureWoken` is its case of
  one future. Overlap is exactly what finding 2 needs: `RegistrationKept` says
  that even then the registered future will be woken, and that a pending one
  loses its registration only to a wake of its own or to the registration of
  another.
- **PoolProofs**. `IInv` joins `TypeOK`, the places a polling worker may be in,
  the poll budget, the state of tasks not spawned yet, `OneOwner`,
  `StaticOwner` and `CounterExact`; there is one lemma per conjunct with one
  step per action. Resizes, panics and drops are all in it.
  `ExecutorRefinement` follows from it, each step mapped to a step of
  ExecutorContract or a stutter: that a shrink, an exit or a drop abandons only
  tasks that nobody polls is `OneOwner` and `StaticOwner`. `ReadyTaskAnnounced`
  needs its own strengthening: a thread inside its static loop need not have an
  announcement, one that leaves the loop has no ready task. `QueuedTasksRun`
  assumes `NeverShrinks` (resize only grows, no unwinding task, at least one
  thread), without which a pool may be left with no thread; its invariant says
  that a worker leaves only after the last handle, and that from then on a task
  that is queued, not polled yet and not in `missed` has a worker whose next try
  of the task channel is still to come (`WillTryTask`): such a worker cannot
  pass a channel that is not empty, and the others do not matter. Only tasks
  that have been polled come to the channel after the drop.
  `WakerRefinement` maps each step, for each task, to a step of WakeContract or
  a stutter: who starts a poll takes a task whose cell holds no box
  (`OneOwner`, `StaticOwner`), so the task was ready, and what a resize, an
  exit or a drop does to the others shows in none of their cells. It says
  nothing of wakes that meet a delayed reset, which the pool's atomic cell
  leaves out. `SizeReached`
  holds up to the first call of `resize`, by counting: the threads that have
  not begun to leave are as many as the size asked for plus the `Shutdown`
  messages on their way (`SizeInv`), until a poll unwinds; the second call is
  finding 1. `WorkersRemain` reads the same invariant as "a thread is left for
  what is spawned". `NothingLostWhileOpen` needs no assumption: whatever is
  shut down or unwinds, a task that is not static is lost only after the last
  handle.
- **WasmPoolProofs**. `IInv` joins `TypeOK`, what a worker's locals and inbox
  hold where (`WorkInv`, with the map empty once nobody holds it), the poll
  budget, `OneOwner`, `WokenIsResumed` and `CounterExact`. `SendFacts`,
  `RecvFacts` and `ReceivesFacts` say what each use of the channel does to the
  set of messages in it, so that the steps never look at the sequence.
  `WokenIsResumed` speaks of the waker of the last poll: an id of it that is
  dropped as a duplicate is harmless because its task is not in the map then,
  and `CheckInlineWake` still follows the insert. An id of an older waker that
  is dropped there is gone, and a future that keeps only that waker has not
  kept the contract of `Future::poll`.
  `ExecutorRefinement` needs in addition that the map exists as long as there
  is a handle (`MapInv`: `Drop for Internal` drops its fields after its own
  code has run); so no `expect` fails before the drop (`CrashOnlyAfterDrop`;
  finding 5 needs it) and no task is lost before it (`NothingLostWhileOpen`).
  `BalanceInv` is an equation: the threads that have not handled a `Shutdown`
  are the size asked for (none after the drop), plus the messages still to be
  sent, plus those on the stack or in an inbox. It gives `SizeReached` for any
  number of resizes, `NoWorkerForgotten` after the drop, and, with the lock of
  the channel (`NoMessageWaits`), `TasksReachWorkers`: the `Shutdown`s that may
  overtake a task on the stack are never enough to send every worker away.
- **OccurrenceProofs** has the lemmas about channels that both pools need: who
  is in a sequence after `Append`, `Tail` and a push in front, at most once,
  and how many copies of a message there are (`CopiesPush`, `CopiesTail`).
- **ExecutorContractProofs** proves what the abstract executor promises, for
  any finite set of tasks: `waited` is the number of tasks spawned and not
  finished, so that zero means that all have finished and none is polled
  (`DrainedMeansFinished`); once a task is abandoned `waited` is never zero
  again (`AbandonedBlocksDrain`); pinned tasks stay at home (`PolledInPlace`),
  others are abandoned only by their own poll while a handle is left
  (`OpenKeepsTasks`). PoolProofs and WasmPoolProofs instantiate the module with
  the refinement mapping of the pool and cite these theorems through
  `ExecutorRefinement`: `DrainedMeansFinished` and `DroppedBlocksDrain` (for
  wasm `LostBlocksDrain`) are not proved again about channels and maps. The
  second is why finding 3 is not a matter of time.
- **WasmCloseProofs**. `CloseInfoExact` is inductive with the types;
  `NeverClosedEarly` follows from the exact count.
- **WasmWorkerProofs**. `Composition`: every step of WasmWorker is a step of
  WasmClose or leaves it alone, so `IInv` of WasmCloseProofs is kept. `RunInv`
  adds that `run_async` is unfinished from the start of the worker until the
  `Shutdown` of the dropped handle, and while a task is polled; with the exact
  count, no call of `close` closes such a worker (`StaysOpen`).

Only model-checked: the liveness properties (`WakeLeadsToPoll`,
`DrainCompletes`, `DrainReturns`, `TasksFinish`, `OthersFinish`, `WorkersExit`,
`WorkersLeave`, `ClosesAfterDrop`, and the fairness part of
`ImplementsContract` in Waker), out of the prover's reach; what they rest on,
that no wake is lost (unless it meets a delayed reset) and no task or worker is
left with nobody to serve it, is proved. Every invariant of a passing run is
stated by a theorem, `NoLostWake` only if no wake meets a delayed reset,
`PendingWillBeWoken` only if no two drain futures overlap, `PoolReachesSize` of
the native pool only up to the first call of `resize`, and `QueuedRunBeforeExit`
only if the pool never shrinks and no task unwinds: without that the properties
do not hold.

## 6. Not modelled

- What the wasm pool does with tasks still queued when the last handle goes:
  `Shutdown` overtakes them on the stack and they are never run. The model has
  that behaviour and no property forbids it, as no doc promises otherwise.
- What should happen to a task that is sent together with the drop of the last
  handle while every worker is past its try of the task channel: it is dropped
  with the channel, unpolled (`missed`). No doc promises that it runs.
- What should happen to a wake after the last handle was dropped and the workers
  left: `unwrap` (`stdlib.rs:73`) panics in the caller of `wake` (`SendTask`
  with fate "refused"); no doc or test speaks of it. `QueuedRunBeforeExit` says
  when it cannot happen.
- Panics of tasks on wasm, where they abort the worker.
- `drain` called by a task of the executor it waits for, which spins for ever.
- Weakly ordered memory: the cell's boxes are published and taken with
  `Relaxed`; only the x86-64 store buffer is modelled.
- The cell of a static task at the exit of its thread. For a task, `Drop for
  WakeInternal` never finds a box (`CellOutlivesUse`), because the box owns the
  task and the task owns the cell. The box of a static task holds only a sender
  and an id; the task is in `STATIC_PENDING_TASKS`, and when a thread leaves
  with it the cell is dropped with the box, which `Box<*mut ()>` frees without
  its closure. Layouts of deallocations are not part of the models. A task
  whose wakers are all dropped while it is parked is never freed, as its box,
  itself and its cell own each other.
- Static tasks or tasks that stay runnable for ever (`select_biased!` prefers the
  static channel): polls are bounded by `MaxPolls`.
- Logging, names, `Hash`/`Eq`, the global and thread executor slots (they
  belong to `some_executor`).

## 7. Plan

1. (done) WakeContract, Waker, Drain, Pool, WasmPool, WasmClose with their runs
   and first proofs.
2. (done) ExecutorContract and its two refinements, model-checked and proved;
   the reference count of the wake cell; WasmWorker, which composes the close
   patch with the executor; proofs of `ReadyAnnounced`, `QueuedRunBeforeExit`,
   `CellOutlivesUse`, `OpenWhileHeld`, and of the refinement of WakeContract by
   Pool.
3. (done) Proofs of `PoolReachesSize` for both pools, of what ExecutorContract
   promises and its transfer to the pools, and theorems that name the cause of
   findings 4, 2 and 3 (`LostOnlyInDelay`, `RegistrationKept`,
   `DroppedBlocksDrain`).
4. The wasm stack with two tasks under liveness, which needs an instance of its
   own.
5. Theorems about WasmWorker beyond `StaysOpen`: what is left of a worker when
   its executor has gone.
6. A model of weakly ordered memory for the boxes of the wake cell.
