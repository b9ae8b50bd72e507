------------------------------- MODULE Drain --------------------------------
(***************************************************************************)
(* Waiting for an executor's tasks: DrainNotify, Executor::drain and       *)
(* ExecutorDrain::poll (src/src/lib.rs), with the two places that move the *)
(* counter: spawn_internal and the Poll::Ready arm of run (src/src/sys/    *)
(* stdlib.rs; wasm.rs has the same two).                                   *)
(*                                                                         *)
(* Executor is Clone, so several threads may hold one and spawn, and       *)
(* several may drain.  DrainNotify::waker is an AtomicWaker of the         *)
(* atomic-waker crate, which keeps one waker: register replaces it, wake   *)
(* takes it.  Both are linearizable and are one step each here; register   *)
(* synchronizes with the wake that took its waker, so the relaxed accesses *)
(* to running_tasks behave as if sequentially consistent.                  *)
(***************************************************************************)
EXTENDS Integers, FiniteSets

CONSTANTS
  Tasks,    \* tasks that may be spawned, each once
  Sync,     \* threads that call Executor::drain
  Async,    \* tasks, of other executors, that await Executor::drain_async
  NULL      \* no task, no waker

ASSUME DrainAssumption ==
  /\ IsFiniteSet(Tasks)
  /\ NULL \notin Tasks \cup Sync \cup Async
  /\ Sync \cap Async = {}

VARIABLES
  running_tasks,  \* DrainNotify::running_tasks
  waker,          \* DrainNotify::waker: whose waker it holds
  task,           \* what has become of each task
  parent,         \* the task whose poll spawned it, NULL for other threads
  drain,          \* where each drainer is
  notified,       \* async drainers woken since their last poll began
  before          \* tasks a drainer has to wait for (history)

vars == <<running_tasks, waker, task, parent, drain, notified, before>>
taskVars == <<running_tasks, task, parent>>
drainVars == <<drain, notified, before>>

Drainers == Sync \cup Async

(* "counted": spawn_internal has added it and not sent it yet; "last": its *)
(* fetch_sub has returned 1 and its wake is still to come.                 *)
TypeOK ==
  /\ running_tasks \in Nat
  /\ waker \in Async \cup {NULL}
  /\ task \in [Tasks -> {"new", "counted", "sent", "last", "done"}]
  /\ parent \in [Tasks -> Tasks \cup {NULL}]
  /\ drain \in [Drainers -> {"off", "scheduled", "registered", "pending",
                             "ready"}]
  /\ notified \in [Async -> BOOLEAN]
  /\ before \in [Drainers -> SUBSET Tasks]

Init ==
  /\ running_tasks = 0
  /\ waker = NULL
  /\ task = [t \in Tasks |-> "new"]
  /\ parent = [t \in Tasks |-> NULL]
  /\ drain = [d \in Drainers |-> "off"]
  /\ notified = [d \in Async |-> FALSE]
  /\ before = [d \in Drainers |-> {}]

Counted == {t \in Tasks : task[t] \in {"counted", "sent"}}

-----------------------------------------------------------------------------
(* Tasks. *)

(* Mutation: not counted. *)
CountNothing == UNCHANGED running_tasks

(* What spawn adds and the last poll subtracts. *)
CountTask == running_tasks' = running_tasks + 1
UncountTask == running_tasks' = running_tasks - 1

(* Mutations: the old value is compared as if it were the new one, and     *)
(* off by one.                                                             *)
OldIsZero == running_tasks = 0
AtMostOneRunning == running_tasks <= 1

(* fetch_sub returned 1; load returned 0. *)
OldIsOne == running_tasks = 1
NoneRunning == running_tasks = 0

(* spawn_internal's fetch_add, called by a thread that has the executor or *)
(* by a task while it is polled.                                           *)
SpawnCount(t, p) ==
  /\ task[t] = "new"
  /\ p # NULL => task[p] = "sent"
  /\ CountTask
  /\ task' = [task EXCEPT ![t] = "counted"]
  /\ parent' = [parent EXCEPT ![t] = p]
  /\ before' = [d \in Drainers |->
                  before[d] \cup IF p \in before[d] THEN {t} ELSE {}]
  /\ UNCHANGED <<waker, drain, notified>>

(* spawn_internal's send: from here on a worker may run the task. *)
SpawnSend(t) ==
  /\ task[t] = "counted"
  /\ task' = [task EXCEPT ![t] = "sent"]
  /\ UNCHANGED <<running_tasks, waker, parent, drainVars>>

(* run, Poll::Ready: fetch_sub.  The poll has returned, so no spawn that   *)
(* it made is still in progress.                                           *)
Finish(t) ==
  /\ task[t] = "sent"
  /\ \A c \in Tasks : parent[c] = t => task[c] # "counted"
  /\ UncountTask
  /\ task' = [task EXCEPT ![t] = IF OldIsOne THEN "last" ELSE "done"]
  /\ UNCHANGED <<waker, parent, drainVars>>

(* run, old == 1: drain_notify.waker.wake(). *)
WakeDrainer(t) ==
  /\ task[t] = "last"
  /\ task' = [task EXCEPT ![t] = "done"]
  /\ waker' = NULL
  /\ notified' = [d \in Async |-> notified[d] \/ d = waker]
  /\ drain' = [d \in Drainers |->
                 IF d = waker /\ drain[d] = "pending" THEN "scheduled"
                                                      ELSE drain[d]]
  /\ UNCHANGED <<running_tasks, parent, before>>

-----------------------------------------------------------------------------
(* Drainers. *)

(* Executor::drain and drain_async, called once per drainer at a time. *)
StartDrain(d) ==
  /\ drain[d] = "off"
  /\ drain' = [drain EXCEPT ![d] = "scheduled"]
  /\ before' = [before EXCEPT ![d] =
                  {t \in Tasks : task[t] \notin {"new", "counted"}}]
  /\ UNCHANGED <<taskVars, waker, notified>>

(* drain's loop reads zero and breaks; any other value makes it yield. *)
SyncReturn(d) ==
  /\ drain[d] = "scheduled"
  /\ NoneRunning
  /\ drain' = [drain EXCEPT ![d] = "ready"]
  /\ UNCHANGED <<taskVars, waker, notified, before>>

(* Mutation: a drain polled before is not registered again. *)
RegisterOnce(d) == waker' = IF notified[d] THEN waker ELSE d

Register(d) == waker' = d

(* ExecutorDrain::poll: "need to register prior to check". *)
PollRegister(d) ==
  /\ drain[d] = "scheduled"
  /\ Register(d)
  /\ drain' = [drain EXCEPT ![d] = "registered"]
  /\ notified' = [notified EXCEPT ![d] = FALSE]
  /\ UNCHANGED <<taskVars, before>>

(* ExecutorDrain::poll: load the counter and return.  A wake during the    *)
(* poll has the drainer polled again by its own executor.                  *)
PollLoad(d) ==
  /\ drain[d] = "registered"
  /\ drain' = [drain EXCEPT ![d] = IF NoneRunning THEN "ready"
                                   ELSE IF notified[d] THEN "scheduled"
                                   ELSE "pending"]
  /\ UNCHANGED <<taskVars, waker, notified, before>>

(* From<ExecutorDrain> for Executor: the drain is given up, its waker      *)
(* stays registered.                                                       *)
IntoExecutor(d) ==
  /\ drain[d] \in {"scheduled", "pending"}
  /\ drain' = [drain EXCEPT ![d] = "off"]
  /\ notified' = [notified EXCEPT ![d] = FALSE]
  /\ before' = [before EXCEPT ![d] = {}]
  /\ UNCHANGED <<taskVars, waker>>

-----------------------------------------------------------------------------
Next ==
  \/ \E t \in Tasks, p \in Tasks \cup {NULL} : SpawnCount(t, p)
  \/ \E t \in Tasks : SpawnSend(t) \/ Finish(t) \/ WakeDrainer(t)
  \/ \E d \in Drainers : StartDrain(d)
  \/ \E d \in Sync : SyncReturn(d)
  \/ \E d \in Async : PollRegister(d) \/ PollLoad(d) \/ IntoExecutor(d)

(* Spawning threads, workers, a spinning drain and the executors that poll *)
(* the drain futures all run; every task finishes in the end.  Nobody has  *)
(* to spawn, to drain or to give a drain up.                               *)
Fairness ==
  /\ \A t \in Tasks : WF_vars(SpawnSend(t) \/ Finish(t) \/ WakeDrainer(t))
  /\ \A d \in Sync : WF_vars(SyncReturn(d))
  /\ \A d \in Async : WF_vars(PollRegister(d) \/ PollLoad(d))

Spec == Init /\ [][Next]_vars /\ Fairness

-----------------------------------------------------------------------------
(* The counter is the number of tasks counted and not finished: it never   *)
(* wraps below zero, and zero means that there is none (spawn_internal     *)
(* adds before it sends; run subtracts once, after the last poll).         *)
CountsLive == running_tasks = Cardinality(Counted)

(* A drain that has returned left nothing behind: every task whose spawn   *)
(* had returned when the drain began, and every task those spawned in      *)
(* turn, has finished (lib.rs: "waits for all tasks in the executor to     *)
(* complete").                                                             *)
DrainCoversDescendants ==
  \A d \in Drainers : drain[d] = "ready" =>
    \A t \in before[d] : task[t] \in {"last", "done"}

(* A drain future that returned Pending will be woken: its waker is the    *)
(* registered one, and a task is left to wake it (ExecutorDrain::poll      *)
(* registers before it checks).                                            *)
PendingWillBeWoken ==
  \A d \in Async : drain[d] = "pending" =>
    /\ waker = d
    /\ running_tasks > 0 \/ \E t \in Tasks : task[t] = "last"

(* Every drain returns once it has begun, unless it is given up, when all  *)
(* tasks finish (lib.rs: ExecutorDrain is "a future that completes when    *)
(* all tasks in an executor have finished").                               *)
DrainCompletes ==
  \A d \in Drainers : drain[d] = "scheduled" ~> drain[d] \in {"ready", "off"}

=============================================================================
