----------------------------- MODULE WasmWorker -----------------------------
(***************************************************************************)
(* A worker of the wasm build together with the executor it works for:     *)
(* WasmClose.tla, whose first future is run_async, src/src/sys/wasm.rs,    *)
(* the executor's counter and its last handle, src/src/lib.rs, and static  *)
(* tasks that executor tasks spawn on the thread that polls them.          *)
(*                                                                         *)
(* The pool has one worker.  Messages are received in any order and a task *)
(* is polled once; the stack channel and suspended tasks are the subject   *)
(* of WasmPool.tla.  Polls of the worker's futures are cut in pieces that  *)
(* may be interleaved here, which only adds behaviours.                    *)
(***************************************************************************)
EXTENDS WasmClose

CONSTANT Tasks   \* tasks given to Executor::spawn, each once

ASSUME WasmWorkerAssumption == IsFiniteSet(Tasks)

VARIABLES
  outstanding,  \* DrainNotify::running_tasks
  task,         \* what has become of each task
  handle,       \* the last handle: "held", "draining" or "dropped"
  awaited,      \* static tasks that were unfinished when drain was called
  shutdown      \* the Shutdown of Internal::drop is in the channel

executorVars == <<outstanding, task, handle, awaited, shutdown>>
allVars == <<vars, executorVars>>

Static == Futures \ {RunAsync}

WorkerTypeOK ==
  /\ TypeOK
  /\ outstanding \in Nat
  /\ task \in [Tasks -> {"new", "queued", "running", "done"}]
  /\ handle \in {"held", "draining", "dropped"}
  /\ awaited \subseteq Static
  /\ shutdown \in BOOLEAN

(* Executor::new with one thread. *)
WorkerInit ==
  /\ Init
  /\ outstanding = 0
  /\ task = [t \in Tasks |-> "new"]
  /\ handle = "held"
  /\ awaited = {}
  /\ shutdown = FALSE

-----------------------------------------------------------------------------
(* The side of the handle.                                                 *)

(* Mutation: the counter is left as it is. *)
CountNothing == outstanding

CountTask == outstanding + 1

(* Executor::spawn_internal: count, send NewTask. *)
SpawnTask(t) ==
  /\ handle = "held" /\ task[t] = "new"
  /\ outstanding' = CountTask
  /\ task' = [task EXCEPT ![t] = "queued"]
  /\ UNCHANGED <<vars, handle, awaited, shutdown>>

(* Executor::drain consumes the handle. *)
StartDrain ==
  /\ handle = "held"
  /\ handle' = "draining"
  /\ awaited' = {f \in Static : future[f] = "running"}
  /\ UNCHANGED <<vars, outstanding, task, shutdown>>

(* The handle goes: when drain has read zero, or without a drain.          *)
(* Internal::drop sends Shutdown.                                          *)
DropHandle ==
  /\ handle' = "dropped"
  /\ shutdown' = TRUE
  /\ UNCHANGED <<vars, outstanding, task, awaited>>

FinishDrain == handle = "draining" /\ outstanding = 0 /\ DropHandle

Abandon == handle = "held" /\ DropHandle

-----------------------------------------------------------------------------
(* The side of the worker.                                                 *)

Polling == {t \in Tasks : task[t] = "running"}

(* run_async is being polled: it waits for a message, or polls a task. *)
Listens == worker = "loop" /\ future[RunAsync] = "running"

(* run_async receives NewTask, and poll_task begins. *)
HandleNewTask(t) ==
  /\ Listens /\ Polling = {}
  /\ task[t] = "queued"
  /\ task' = [task EXCEPT ![t] = "running"]
  /\ UNCHANGED <<vars, outstanding, handle, awaited, shutdown>>

(* The task spawns a static task on the thread's static executor. *)
TaskSpawnsStatic(f) ==
  /\ Polling # {}
  /\ FutureSpawns(RunAsync, f)
  /\ UNCHANGED executorVars

(* poll_task: the task is ready and is subtracted. *)
TaskReady(t) ==
  /\ Listens /\ task[t] = "running"
  /\ task' = [task EXCEPT ![t] = "done"]
  /\ outstanding' = outstanding - 1
  /\ UNCHANGED <<vars, handle, awaited, shutdown>>

(* run_async receives Shutdown and ends. *)
HandleShutdown ==
  /\ shutdown /\ Polling = {}
  /\ FutureReady(RunAsync)
  /\ shutdown' = FALSE
  /\ UNCHANGED <<outstanding, task, handle, awaited>>

(* A static task ends, or spawns another one; somebody calls close. *)
StaticReady(f) == FutureReady(f) /\ UNCHANGED executorVars

StaticSpawns(f, g) == FutureSpawns(f, g) /\ UNCHANGED executorVars

CallsClose == (LibraryCloses \/ FutureCloses) /\ UNCHANGED executorVars

Starts == Enter /\ UNCHANGED executorVars

WorkerNext ==
  \/ \E t \in Tasks : SpawnTask(t) \/ HandleNewTask(t) \/ TaskReady(t)
  \/ StartDrain \/ FinishDrain \/ Abandon
  \/ Starts \/ CallsClose \/ HandleShutdown
  \/ \E f \in Static : TaskSpawnsStatic(f) \/ StaticReady(f)
  \/ \E f, g \in Static : StaticSpawns(f, g)

(* The browser runs the entry function and polls what is ready to run, the *)
(* thread library calls close, tasks and static tasks end, and drain's     *)
(* loop is scheduled.  Nobody has to drain or to drop the handle.          *)
WorkerFairness ==
  /\ WF_allVars(Starts)
  /\ WF_allVars(LibraryCloses /\ UNCHANGED executorVars)
  /\ WF_allVars(HandleShutdown) /\ WF_allVars(FinishDrain)
  /\ \A t \in Tasks : WF_allVars(HandleNewTask(t)) /\ WF_allVars(TaskReady(t))
  /\ \A f \in Static : WF_allVars(StaticReady(f))

WorkerSpec == WorkerInit /\ [][WorkerNext]_allVars /\ WorkerFairness

-----------------------------------------------------------------------------
(* A worker stays as long as its executor can send it tasks, although the  *)
(* thread library has called close long before and tasks call it too: its  *)
(* run_async is counted by CloseInfo (Thread::run).                        *)
OpenWhileHeld == worker = "closed" => handle = "dropped" /\ Polling = {}

(* drain returns: no close leaves it without a worker for the tasks that   *)
(* it waits for (Executor::drain).                                         *)
DrainReturns == handle = "draining" ~> handle = "dropped"

(* The worker does not outlive its executor: once the handle is dropped,   *)
(* by drain or not, the worker closes when its last static task is done    *)
(* ("Later when the last task is done, we call the original `close`        *)
(* function").                                                             *)
ClosesAfterDrop == (worker = "loop" /\ handle = "dropped") ~> worker = "closed"

(* What src/src/lib.rs says of drain: it "blocks the current thread until  *)
(* all spawned tasks have finished execution", static ones included, as    *)
(* they are in the native build.                                           *)
DrainCoversStatic ==
  handle = "dropped" => \A f \in awaited : future[f] = "done"

=============================================================================
