-------------------------------- MODULE Pool --------------------------------
(***************************************************************************)
(* The native thread pool, src/src/sys/stdlib.rs: Threadpool, the loop of  *)
(* Thread::run, tasks, the static tasks of each worker thread, resize and  *)
(* what happens when the last Executor is dropped.                         *)
(*                                                                         *)
(* One action is what a thread does between two accesses to state that     *)
(* other threads see.  A task's wake cell is atomic here: a wake takes the *)
(* box out of the cell in one step and calls it, which sends to a channel, *)
(* in another.  That is right of the behaviours of Waker.tla in which no   *)
(* wake meets the relaxed store of reset before it is seen (its            *)
(* MeetsDelay); one that does may be lost, here as there.                  *)
(* crossbeam channels are FIFO queues; a channel whose last receiver is    *)
(* gone drops its messages and refuses new ones.  Messages carry no data:  *)
(* Shutdown is a counter.                                                  *)
(***************************************************************************)
EXTENDS Naturals, Sequences, FiniteSets, Occurrence

CONSTANTS
  Workers,      \* OS threads the pool may create
  Initial,      \* the ones Threadpool::new creates
  Tasks,        \* tasks that may be spawned, each once
  StaticTasks,  \* static tasks that may be spawned, each once
  MayPanic,     \* tasks whose poll may unwind
  Sizes,        \* arguments of resize
  MaxResizes,   \* bound: calls of resize
  MaxPolls,     \* bound: polls of a task; the last one returns Ready
  NEW_TASK,     \* stdlib.rs: 0, the id that announces a new static task
  NOT_WOKEN, WOKEN, BOX,  \* contents of a wake cell
  NULL          \* no task

All == Tasks \cup StaticTasks
Ids == StaticTasks \cup {NEW_TASK}

ASSUME PoolAssumption ==
  /\ IsFiniteSet(Workers) /\ Initial \subseteq Workers
  /\ IsFiniteSet(All) /\ Tasks \cap StaticTasks = {}
  /\ MayPanic \subseteq All
  /\ NULL \notin All /\ NEW_TASK \notin All
  /\ Sizes \subseteq Nat
  /\ MaxResizes \in Nat /\ MaxPolls \in Nat \ {0}
  /\ NOT_WOKEN # WOKEN /\ NOT_WOKEN # BOX /\ WOKEN # BOX

VARIABLES
  alive,           \* an Executor handle is left, so Threadpool is not dropped
  vec,             \* Threadpool::vec: threads whose JoinHandle is kept
  shutdowns,       \* ThreadMessage::Shutdown messages in the thread channel
  task_queue,      \* the task channel
  thread,          \* where each worker is in Thread::run
  polling,         \* the task each worker is polling
  static_queue,    \* each worker's static channel: NEW_TASK or a task's id
  static_ready,    \* STATIC_TASKS of each worker
  static_pending,  \* STATIC_PENDING_TASKS of each worker
  sender,          \* whose channel the alert of a static task sends to
  cell,            \* each task's wake cell
  taken,           \* tasks whose waker has the box and has not called it
  running_tasks,   \* DrainNotify::running_tasks
  fate,            \* what has become of each task
  polls,           \* polls begun of each task
  missed,          \* tasks in the channel at the last drop, if no worker
                   \* would try it again (history)
  resizes,         \* calls of resize (bound)
  size             \* the thread count last asked for (history)

poolVars == <<alive, vec, shutdowns, resizes, size, missed>>
staticVars == <<static_queue, static_ready, static_pending, sender>>
wakeVars == <<cell, taken>>
countVars == <<running_tasks, fate>>
vars == <<poolVars, task_queue, thread, polling, staticVars, wakeVars,
          countVars, polls>>

(* "select": about to try the static channel; "try_task", "try_thread":    *)
(* the ones before were empty when tried; "blocked": parked on all three;  *)
(* "static": in the inner loop over STATIC_TASKS; "exiting": has left the  *)
(* loop, its receivers not dropped yet.                                    *)
Selecting == {"select", "try_task", "try_thread", "blocked"}
ThreadState == Selecting \cup {"none", "poll", "static", "exiting", "exited"}

(* "unwound": its poll panicked; "lost": dropped with a queue or a thread; *)
(* "refused": its alert found the channel closed.                          *)
Fate == {"new", "spawned", "done", "unwound", "lost", "refused"}

TypeOK ==
  /\ alive \in BOOLEAN
  /\ vec \subseteq Workers
  /\ shutdowns \in Nat
  /\ task_queue \in Seq(Tasks)
  /\ thread \in [Workers -> ThreadState]
  /\ polling \in [Workers -> All \cup {NULL}]
  /\ static_queue \in [Workers -> Seq(Ids)]
  /\ static_ready \in [Workers -> Seq(StaticTasks)]
  /\ static_pending \in [Workers -> SUBSET StaticTasks]
  /\ sender \in [StaticTasks -> Workers \cup {NULL}]
  /\ cell \in [All -> {NOT_WOKEN, WOKEN, BOX}]
  /\ taken \subseteq All
  /\ running_tasks \in Nat
  /\ fate \in [All -> Fate]
  /\ polls \in [All -> 0..MaxPolls]
  /\ missed \subseteq Tasks
  /\ resizes \in 0..MaxResizes
  /\ size \in Nat

Running == {w \in Workers : thread[w] \notin {"none", "exited"}}

(* Mutation: Threadpool keeps no receiver. *)
OpenForThreads == Running # {}

(* Threadpool and every thread that has not dropped its Thread own a       *)
(* receiver of the task channel.                                           *)
ChannelOpen == alive \/ Running # {}

Queued(t) == Contains(task_queue, t)
Polled(t) == \E w \in Workers : polling[w] = t

(* Workers that will try the task channel before the thread channel.       *)
WillTryTask(w) ==
  thread[w] \in {"select", "try_task", "blocked", "poll", "static"}

(* Threadpool::requested_threads, which nothing assigns after new. *)
requested_threads == Cardinality(Initial)

(* Threadpool::new; each thread has installed its thread-locals. *)
Init ==
  /\ alive = TRUE
  /\ vec = Initial
  /\ shutdowns = 0
  /\ task_queue = <<>>
  /\ thread = [w \in Workers |-> IF w \in Initial THEN "select" ELSE "none"]
  /\ polling = [w \in Workers |-> NULL]
  /\ static_queue = [w \in Workers |-> <<>>]
  /\ static_ready = [w \in Workers |-> <<>>]
  /\ static_pending = [w \in Workers |-> {}]
  /\ sender = [t \in StaticTasks |-> NULL]
  /\ cell = [t \in All |-> NOT_WOKEN]
  /\ taken = {}
  /\ running_tasks = 0
  /\ fate = [t \in All |-> "new"]
  /\ polls = [t \in All |-> 0]
  /\ missed = {}
  /\ resizes = 0
  /\ size = requested_threads

-----------------------------------------------------------------------------
(* Executor handles. *)

(* Mutation: not counted. *)
CountNothing == UNCHANGED running_tasks

(* What is added at a spawn, and subtracted after the last poll. *)
CountTask == running_tasks' = running_tasks + 1
UncountTask == running_tasks' = running_tasks - 1

(* Executor::spawn_internal, from any thread or poll that has a handle.    *)
(* Drain.tla separates the fetch_add from the send.                        *)
Spawn(t) ==
  /\ alive /\ fate[t] = "new"
  /\ CountTask
  /\ fate' = [fate EXCEPT ![t] = "spawned"]
  /\ task_queue' = Append(task_queue, t)
  /\ UNCHANGED <<poolVars, thread, polling, staticVars, wakeVars, polls>>

(* Threadpool::resize, upwards: new threads.  The mutex makes it atomic.   *)
Grow(n) ==
  /\ n > requested_threads
  /\ \E new \in SUBSET {w \in Workers : thread[w] = "none"} :
       /\ Cardinality(new) = n - requested_threads
       /\ thread' = [w \in Workers |-> IF w \in new THEN "select"
                                                    ELSE thread[w]]
       /\ vec' = vec \cup new
  /\ UNCHANGED shutdowns

(* Mutation: size..=old_size. *)
OneMore(n) == requested_threads - n + 1

Excess(n) == requested_threads - n

(* Threadpool::resize, otherwise: Shutdown messages for whichever threads  *)
(* receive them, then the handles of finished threads are dropped.         *)
Shrink(n) ==
  /\ n <= requested_threads
  /\ shutdowns' = shutdowns + Excess(n)
  /\ vec' = {w \in vec : thread[w] # "exited"}
  /\ UNCHANGED thread

Resize(n) ==
  /\ alive /\ resizes < MaxResizes
  /\ Grow(n) \/ Shrink(n)
  /\ resizes' = resizes + 1
  /\ size' = n
  /\ UNCHANGED <<alive, missed, task_queue, polling, staticVars, wakeVars,
                 countVars, polls>>

(* A task channel without receivers drops the tasks in it. *)
Discard(open) ==
  /\ task_queue' = IF open THEN task_queue ELSE <<>>
  /\ fate' = [t \in All |-> IF ~open /\ Queued(t) THEN "lost" ELSE fate[t]]

(* The last Executor is dropped, and with it Threadpool: its sender of the *)
(* thread channel, the only one, and its receiver of the task channel.     *)
DropExecutor ==
  /\ alive
  /\ alive' = FALSE
  /\ Discard(Running # {})
  /\ missed' = {t \in Tasks : Queued(t) /\ \A w \in Workers : ~WillTryTask(w)}
  /\ UNCHANGED <<vec, shutdowns, resizes, size, thread, polling, staticVars,
                 wakeVars, running_tasks, polls>>

-----------------------------------------------------------------------------
(* Thread::run.  select_biased! tries the static, the task and the thread  *)
(* channel one after the other, and between two tries any other thread may *)
(* send or drop.  If none gave a message it parks on all three, looking    *)
(* once more at each: what it finds then it would have found by trying     *)
(* later.  A parked thread receives from the channel that unparks it.      *)

Pass(w, from, to) ==
  /\ thread[w] = from
  /\ thread' = [thread EXCEPT ![w] = to]
  /\ UNCHANGED <<poolVars, task_queue, polling, staticVars, wakeVars,
                 countVars, polls>>

(* Nothing in the static channel. *)
SkipStatic(w) == static_queue[w] = <<>> /\ Pass(w, "select", "try_task")

(* Mutation: the thread channel is tried before the task channel. *)
PassTasks(w) == Pass(w, "try_task", "try_thread")

(* Nothing in the task channel. *)
SkipTask(w) == task_queue = <<>> /\ Pass(w, "try_task", "try_thread")

(* Nothing in the thread channel either: the thread parks. *)
Block(w) == alive /\ shutdowns = 0 /\ Pass(w, "try_thread", "blocked")

(* A parked thread tries the channels in order again when one of them is   *)
(* disconnected, or when another thread was first to take the message that *)
(* unparked it.                                                            *)
Retry(w) == Pass(w, "blocked", "select")

(* Mutation: the loop is not left. *)
GoOn(w) == thread' = [thread EXCEPT ![w] = "select"]

(* The break out of the loop. *)
Leave(w) == thread' = [thread EXCEPT ![w] = "exiting"]

(* reset and the call of poll, at the start of run. *)
StartPoll(w, t) ==
  /\ thread' = [thread EXCEPT ![w] = "poll"]
  /\ polling' = [polling EXCEPT ![w] = t]
  /\ cell' = [cell EXCEPT ![t] = NOT_WOKEN]
  /\ polls' = [polls EXCEPT ![t] = @ + 1]

(* Mutation: the task is looked up in the map, not removed. *)
ReadyAndPending(w, id) ==
  /\ static_ready' = [static_ready EXCEPT ![w] = Append(@, id)]
  /\ UNCHANGED static_pending

(* A woken task moves from pending to ready. *)
MakeReady(w, id) ==
  /\ static_ready' = [static_ready EXCEPT ![w] = Append(@, id)]
  /\ static_pending' = [static_pending EXCEPT ![w] = @ \ {id}]

(* recv(static_receiver). *)
RecvStatic(w) ==
  /\ thread[w] \in {"select", "blocked"}
  /\ static_queue[w] # <<>>
  /\ LET id == Head(static_queue[w])
     IN  IF id \in static_pending[w] THEN MakeReady(w, id)
         ELSE UNCHANGED <<static_pending, static_ready>>
  /\ static_queue' = [static_queue EXCEPT ![w] = Tail(@)]
  /\ thread' = [thread EXCEPT ![w] = "static"]
  /\ UNCHANGED <<poolVars, task_queue, polling, sender, wakeVars, countVars,
                 polls>>

(* The inner loop: run the next ready static task. *)
RunStatic(w) ==
  /\ thread[w] = "static"
  /\ static_ready[w] # <<>>
  /\ StartPoll(w, Head(static_ready[w]))
  /\ static_ready' = [static_ready EXCEPT ![w] = Tail(@)]
  /\ UNCHANGED <<poolVars, task_queue, static_queue, static_pending, sender,
                 taken, countVars>>

(* The inner loop ends when STATIC_TASKS is empty. *)
StaticLoopEnds(w) == static_ready[w] = <<>> /\ Pass(w, "static", "select")

(* recv(receiver): SpawnedTask::run. *)
RecvTask(w) ==
  /\ thread[w] \in {"try_task", "blocked"}
  /\ task_queue # <<>>
  /\ StartPoll(w, Head(task_queue))
  /\ task_queue' = Tail(task_queue)
  /\ UNCHANGED <<poolVars, staticVars, taken, countVars>>

(* recv(thread_receiver): a Shutdown message. *)
RecvShutdown(w) ==
  /\ thread[w] \in {"try_thread", "blocked"}
  /\ shutdowns > 0
  /\ shutdowns' = shutdowns - 1
  /\ Leave(w)
  /\ UNCHANGED <<alive, vec, resizes, size, missed, task_queue, polling,
                 staticVars, wakeVars, countVars, polls>>

(* recv(thread_receiver): disconnected, whatever came to the channels      *)
(* before since they were tried.                                           *)
RecvDisconnected(w) ==
  /\ thread[w] = "try_thread"
  /\ ~alive /\ shutdowns = 0
  /\ Leave(w)
  /\ UNCHANGED <<poolVars, task_queue, polling, staticVars, wakeVars,
                 countVars, polls>>

(* The thread function returns or unwinds: its receivers are dropped, then *)
(* its thread-locals, with the static tasks that are still there.          *)
ThreadExit(w) ==
  /\ thread[w] = "exiting"
  /\ thread' = [thread EXCEPT ![w] = "exited"]
  /\ LET dropped == {t \in StaticTasks : Contains(static_ready[w], t)
                                         \/ t \in static_pending[w]}
         open == alive \/ Running # {w}
     IN  /\ task_queue' = IF open THEN task_queue ELSE <<>>
         /\ fate' = [t \in All |->
                       IF t \in dropped \/ (~open /\ Queued(t)) THEN "lost"
                                                                ELSE fate[t]]
  /\ static_queue' = [static_queue EXCEPT ![w] = <<>>]
  /\ static_ready' = [static_ready EXCEPT ![w] = <<>>]
  /\ static_pending' = [static_pending EXCEPT ![w] = {}]
  /\ UNCHANGED <<poolVars, polling, sender, wakeVars, running_tasks, polls>>

-----------------------------------------------------------------------------
(* During and after a poll. *)

(* Mutation: the thread is not told, as if its inner loop were running. *)
TellNobody(w) == UNCHANGED static_queue

Announce(w) ==
  static_queue' = [static_queue EXCEPT ![w] = Append(@, NEW_TASK)]

(* StaticExecutor::spawn, by whatever worker w is polling. *)
SpawnStatic(w, t) ==
  /\ thread[w] = "poll" /\ fate[t] = "new"
  /\ CountTask
  /\ fate' = [fate EXCEPT ![t] = "spawned"]
  /\ static_ready' = [static_ready EXCEPT ![w] = Append(@, t)]
  /\ Announce(w)
  /\ UNCHANGED <<poolVars, task_queue, thread, polling, static_pending, sender,
                 wakeVars, polls>>

(* Back in the loop of Thread::run, or in the inner one. *)
PollReturns(w) ==
  /\ polling' = [polling EXCEPT ![w] = NULL]
  /\ thread' = [thread EXCEPT ![w] =
                  IF polling[w] \in Tasks THEN "select" ELSE "static"]

(* run, Poll::Ready. *)
PollReady(w) ==
  /\ thread[w] = "poll"
  /\ UncountTask
  /\ fate' = [fate EXCEPT ![polling[w]] = "done"]
  /\ PollReturns(w)
  /\ UNCHANGED <<poolVars, task_queue, staticVars, wakeVars, polls>>

(* Mutation: the box is stored whatever the cell holds. *)
CheckWakeStores(t) == cell' = [cell EXCEPT ![t] = BOX]

(* check_wake: box the task's alert, or call it if a wake came already.    *)
CheckWake(t) ==
  cell' = [cell EXCEPT ![t] = IF @ = WOKEN THEN WOKEN ELSE BOX]

(* Mutation: the alert is boxed whatever has come. *)
InlineNever(t) == UNCHANGED task_queue

(* check_wake calls the alert of a task itself if a wake came in the poll. *)
InlineAlert(t) ==
  task_queue' = IF cell[t] = WOKEN THEN Append(task_queue, t) ELSE task_queue

(* SpawnedTask::run, Poll::Pending; the alert sends the task. *)
PollPending(w) ==
  /\ thread[w] = "poll" /\ polling[w] \in Tasks
  /\ LET t == polling[w]
     IN  /\ polls[t] < MaxPolls
         /\ CheckWake(t)
         /\ InlineAlert(t)
  /\ PollReturns(w)
  /\ UNCHANGED <<poolVars, staticVars, taken, countVars, polls>>

(* SpawnedStaticTask::run, Poll::Pending; the alert sends the id to the    *)
(* channel of the thread it was made on, and the task waits in             *)
(* STATIC_PENDING_TASKS.                                                   *)
StaticPending(w) ==
  /\ thread[w] = "poll" /\ polling[w] \in StaticTasks
  /\ LET t == polling[w]
     IN  /\ polls[t] < MaxPolls
         /\ CheckWake(t)
         /\ sender' = [sender EXCEPT ![t] = w]
         /\ static_pending' = [static_pending EXCEPT ![w] = @ \cup {t}]
         /\ static_queue' = IF cell[t] = WOKEN
                            THEN [static_queue EXCEPT ![w] = Append(@, t)]
                            ELSE static_queue
  /\ PollReturns(w)
  /\ UNCHANGED <<poolVars, task_queue, static_ready, taken, countVars, polls>>

(* The poll unwinds: the task is dropped, the thread leaves Thread::run.   *)
PollPanic(w) ==
  /\ thread[w] = "poll" /\ polling[w] \in MayPanic
  /\ fate' = [fate EXCEPT ![polling[w]] = "unwound"]
  /\ polling' = [polling EXCEPT ![w] = NULL]
  /\ Leave(w)
  /\ UNCHANGED <<poolVars, task_queue, staticVars, wakeVars, running_tasks,
                 polls>>

-----------------------------------------------------------------------------
(* Whoever holds the waker that the task got in a poll. *)

(* wake_by_ref; nothing changes when the cell holds WOKEN. *)
Wake(t) ==
  /\ fate[t] = "spawned" /\ polls[t] > 0
  /\ cell[t] # WOKEN
  /\ cell' = [cell EXCEPT ![t] = WOKEN]
  /\ taken' = IF cell[t] = BOX THEN taken \cup {t} ELSE taken
  /\ UNCHANGED <<poolVars, task_queue, thread, polling, staticVars, countVars,
                 polls>>

(* The alert of a task: task_sender.send(..).unwrap(). *)
SendTask(t) ==
  /\ t \in taken
  /\ taken' = taken \ {t}
  /\ IF ChannelOpen
     THEN task_queue' = Append(task_queue, t) /\ UNCHANGED fate
     ELSE fate' = [fate EXCEPT ![t] = "refused"] /\ UNCHANGED task_queue
  /\ UNCHANGED <<poolVars, thread, polling, staticVars, cell, running_tasks,
                 polls>>

(* Mutation: the alert sends 0. *)
IdZero(t) == NEW_TASK

(* SpawnedStaticTask::id. *)
IdOf(t) == t

(* The alert of a static task sends its id by the captured sender; the     *)
(* result, an error if that thread's receiver is gone, is ignored.         *)
SendId(t) ==
  /\ t \in taken
  /\ taken' = taken \ {t}
  /\ static_queue' = IF sender[t] \in Running
                     THEN [static_queue EXCEPT ![sender[t]] = Append(@, IdOf(t))]
                     ELSE static_queue
  /\ UNCHANGED <<poolVars, task_queue, thread, polling, static_ready,
                 static_pending, sender, cell, countVars, polls>>

-----------------------------------------------------------------------------
Receive(w) ==
  RecvStatic(w) \/ RecvTask(w) \/ RecvShutdown(w) \/ RecvDisconnected(w)
PollEnds(w) ==
  PollReady(w) \/ PollPending(w) \/ StaticPending(w) \/ PollPanic(w)
FindsNothing(w) == SkipStatic(w) \/ SkipTask(w) \/ Block(w)
WorkerStep(w) ==
  \/ FindsNothing(w) \/ Receive(w)
  \/ RunStatic(w) \/ StaticLoopEnds(w) \/ PollEnds(w) \/ ThreadExit(w)

Next ==
  \/ \E t \in Tasks : Spawn(t) \/ SendTask(t)
  \/ \E n \in Sizes : Resize(n)
  \/ DropExecutor
  \/ \E w \in Workers : WorkerStep(w) \/ Retry(w)
  \/ \E w \in Workers, t \in StaticTasks : SpawnStatic(w, t)
  \/ \E t \in All : Wake(t)
  \/ \E t \in StaticTasks : SendId(t)

(* The operating system runs every worker that has something to do, a      *)
(* disconnection unparks it, polls return, the event a suspended task      *)
(* waits for occurs, and a thread that took a box calls it.  Nobody has to *)
(* spawn, resize or drop the executor.                                     *)
Fairness ==
  /\ \A w \in Workers : WF_vars(WorkerStep(w)) /\ WF_vars(~alive /\ Retry(w))
  /\ \A t \in All : WF_vars(Wake(t))
  /\ \A t \in Tasks : WF_vars(SendTask(t))
  /\ \A t \in StaticTasks : WF_vars(SendId(t))

Spec == Init /\ [][Next]_vars /\ Fairness

-----------------------------------------------------------------------------
(* A spawned task is in one place only: in the channel, on the stack of    *)
(* one worker, in its own wake cell or with the waker that took it from    *)
(* there.  It is never polled twice at a time nor forgotten (stdlib.rs:    *)
(* run takes the task by value and moves it into the alert).               *)
OneOwner ==
  /\ \A v, w \in Workers : polling[v] = polling[w] /\ v # w =>
       polling[v] = NULL
  /\ \A t \in Tasks :
       /\ Once(task_queue, t)
       /\ Queued(t) => ~Polled(t) /\ cell[t] # BOX /\ t \notin taken
       /\ Polled(t) => cell[t] # BOX /\ t \notin taken
       /\ t \in taken => cell[t] # BOX
       /\ fate[t] = "spawned" <=>
            Queued(t) \/ Polled(t) \/ cell[t] = BOX \/ t \in taken

Ready(w, t) == Contains(static_ready[w], t)
Sent(w, t) == Contains(static_queue[w], t)
Holds(w, t) == Ready(w, t) \/ polling[w] = t \/ t \in static_pending[w]

(* A static task is with one worker, ready, polled or pending there; and   *)
(* what makes a pending one ready again exists exactly once: the alert in  *)
(* its cell, a waker about to send its id, or its id in that worker's      *)
(* channel.  So an id that arrives names a pending task, and a task parked *)
(* in STATIC_PENDING_TASKS is not forgotten (stdlib.rs: the map is filled  *)
(* before check_wake, and ids are unique).                                 *)
StaticOwner ==
  /\ \A w \in Workers, t \in StaticTasks :
       /\ Once(static_ready[w], t) /\ Once(static_queue[w], t)
       /\ Ready(w, t) => polling[w] # t /\ t \notin static_pending[w]
       /\ polling[w] = t => t \notin static_pending[w]
       /\ Ready(w, t) \/ polling[w] = t => cell[t] # BOX /\ t \notin taken
       /\ Sent(w, t) =>
            t \in static_pending[w] /\ cell[t] = WOKEN /\ t \notin taken
       /\ t \in static_pending[w] =>
            \/ cell[t] = BOX /\ t \notin taken
            \/ cell[t] = WOKEN /\ (t \in taken \/ Sent(w, t))
       /\ Holds(w, t) => /\ fate[t] = "spawned"
                         /\ \A v \in Workers : Holds(v, t) => v = w
  /\ \A t \in StaticTasks :
       fate[t] = "spawned" => \E w \in Workers : Holds(w, t)

(* A worker at its select has a message in its static channel whenever a   *)
(* static task is ready on it, however many of the announcements have been *)
(* used up by rounds that ran several tasks: it does not park next to a    *)
(* runnable static task (StaticExecutor::spawn sends 0 for each).          *)
ReadyAnnounced ==
  \A w \in Workers : thread[w] \in Selecting =>
    (static_ready[w] # <<>> => Contains(static_queue[w], NEW_TASK))

Counted == {t \in All : fate[t] \notin {"new", "done"}}

(* running_tasks counts the tasks whose spawn is not matched by a last     *)
(* poll, which is what drain waits for; a task that is dropped unfinished  *)
(* (its thread exits, or its poll unwinds) stays counted for ever.         *)
CounterExact == running_tasks = Cardinality(Counted)

(* Nothing is lost while there is a handle to the executor.  What is in    *)
(* the channel at the last drop is polled if any worker has still to try   *)
(* the task channel before it can find the thread channel disconnected,    *)
(* whichever worker takes it: select_biased! tries the thread channel      *)
(* last.  If every worker is past that try, it goes with the channel.  An  *)
(* alert that finds the channel closed (run: send(..).unwrap()) had its    *)
(* task polled.                                                            *)
QueuedRunBeforeExit ==
  \A t \in Tasks : fate[t] \in {"lost", "refused"} =>
    ~alive /\ (polls[t] > 0 \/ (fate[t] = "lost" /\ t \in missed))

(* When no Shutdown is on its way, and no poll has unwound and taken its   *)
(* thread, the pool has as many threads as resize was last asked for       *)
(* (lib.rs: "Resizes the thread pool to the specified number of threads"). *)
PoolReachesSize ==
  /\ alive /\ shutdowns = 0
  /\ \A w \in Workers : thread[w] # "exiting"
  /\ \A t \in All : fate[t] # "unwound"
  => Cardinality(Running) = size

(* Every spawned task finishes if the executor is kept: parked workers are *)
(* woken, woken tasks are polled again, static ones on their own thread.   *)
TasksFinish ==
  \A t \in All : fate[t] = "spawned" ~> fate[t] = "done" \/ ~alive

(* A task whose poll unwinds takes its thread and that thread's static     *)
(* tasks with it, no other task: those finish while a worker is left.      *)
OthersFinish ==
  \A t \in Tasks : fate[t] = "spawned" ~>
    fate[t] \in {"done", "unwound"} \/ ~alive \/ Running = {}

(* The counter comes down to zero whenever tasks are waited for, so that   *)
(* drain returns (lib.rs: it "blocks the current thread until all spawned  *)
(* tasks have finished execution"; resize is used before it in the         *)
(* example of a dynamic thread pool).                                      *)
DrainReturns == running_tasks # 0 ~> (running_tasks = 0 \/ ~alive)

(* Worker threads exit once the last executor handle is dropped            *)
(* (CHANGELOG: "worker loops exit cleanly").                               *)
WorkersExit == ~alive ~> Running = {}

(* Each task sees its waker keep the contract of WakeContract, whichever   *)
(* threads poll it, and whether it is sent whole or by its id.             *)
Contract(t) == INSTANCE WakeContract WITH
  task <- IF fate[t] \in {"done", "unwound"} THEN "done"
          ELSE IF Polled(t) THEN "running"
          ELSE IF cell[t] = BOX THEN "suspended" ELSE "ready",
  notified <- cell[t] = WOKEN

ImplementsContract ==
  /\ \A t \in All : Contract(t)!Init
  /\ [][\A t \in All : [Contract(t)!Next]_(Contract(t)!vars)]_vars

(* Whatever is resized, unwinds or is dropped, the pool keeps the promises *)
(* of ExecutorContract: a task is abandoned only by its own panic, with    *)
(* the worker it is pinned to, or after the last handle went; and what     *)
(* drain waits for moves with spawns and last polls only.                  *)
Home(w) == {t \in StaticTasks : Holds(w, t)}
Status(t) == CASE fate[t] = "new" -> "new"
               [] fate[t] = "spawned" -> "live"
               [] fate[t] = "done" -> "finished"
               [] OTHER -> "abandoned"
Executor == INSTANCE ExecutorContract WITH
  Tasks <- All, Pinned <- StaticTasks,
  open <- alive, running <- polling, waited <- running_tasks,
  home <- [w \in Workers |-> Home(w)], task <- [t \in All |-> Status(t)]

ImplementsExecutor == Executor!Spec

=============================================================================
