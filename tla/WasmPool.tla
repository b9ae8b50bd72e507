------------------------------ MODULE WasmPool ------------------------------
(***************************************************************************)
(* The pool of the wasm build, src/src/sys/wasm.rs, with the channel it is *)
(* built on, src/src/sys/wasm/channel.rs.                                  *)
(*                                                                         *)
(* One channel carries new tasks, the ids of woken tasks and Shutdown.  A  *)
(* suspended task waits in a map that all workers share, and a wake sends  *)
(* its id.  Each poll has a WakeInfo of its own, so a waker kept from an   *)
(* earlier poll marks another flag than the current one.  A waker may be   *)
(* called any number of times, by several threads at once.                 *)
(*                                                                         *)
(* Every access under the channel's lock, to the map and to a flag is one  *)
(* action.  The channel is a stack: Vec::push and Vec::pop.  A sender that *)
(* finds a waiting receiver hands it the value, and a receiver waits for   *)
(* that value only, so the hand-over belongs to the send.  Static tasks,   *)
(* which are not in this channel, are in WasmClose.tla.                    *)
(***************************************************************************)
EXTENDS Naturals, Sequences, FiniteSets, Occurrence

CONSTANTS
  Workers,      \* threads the pool may create
  Initial,      \* the ones Executor::new creates
  Tasks,        \* tasks that may be spawned, each once
  Sizes,        \* arguments of resize
  MaxResizes,   \* bound: calls of resize
  MaxPolls,     \* bound: polls of a task; the last one returns Ready
  MaxExtra,     \* bound: calls of wakers that no task waits for
  NULL          \* no task, no message

(* TaskMessage. *)
NewTask(t) == [kind |-> "NewTask", task |-> t]
ResumeTask(t) == [kind |-> "ResumeTask", task |-> t]
Shutdown == [kind |-> "Shutdown", task |-> NULL]
TaskMessage == {NewTask(t) : t \in Tasks} \cup {ResumeTask(t) : t \in Tasks}
                 \cup {Shutdown}

ASSUME WasmPoolAssumption ==
  /\ IsFiniteSet(Workers) /\ Initial \subseteq Workers
  /\ IsFiniteSet(Tasks)
  /\ NULL \notin Tasks /\ NULL \notin TaskMessage
  /\ Sizes \subseteq Nat
  /\ MaxResizes \in Nat /\ MaxPolls \in Nat \ {0}
  /\ MaxExtra \in Nat

VARIABLES
  alive,          \* an Executor handle is left, so Internal is not dropped
  map_alive,      \* Internal holds its reference to the map
  size,           \* Internal::size
  to_send,        \* Shutdown messages that resize or drop has still to send
  resizes,        \* calls of resize (bound)
  buffer,         \* SharedLocked::buffer, its end first
  resume,         \* SharedLocked::resume, its end first: waiting workers
  inbox,          \* the message each worker's recv has obtained
  thread,         \* where each worker is in run_async
  polling,        \* poll_task's local: the task, or its id once inserted
  info,           \* poll_task's local: the poll its WakeInfo belongs to
  pending_tasks,  \* the shared map, which Thread holds weakly
  holding,        \* workers whose locals hold a reference to the map
  woken,          \* <<t, n>>: inline_wake of the WakeInfo of t's n-th poll
  sending,        \* <<t, n>>: calls of its wake that have not sent yet
  extra,          \* calls of wakers that no task waited for (bound)
  running_tasks,  \* DrainNotify::running_tasks
  fate,           \* what has become of each task
  polls           \* polls begun of each task

poolVars == <<alive, map_alive, size, to_send, resizes>>
chanVars == <<buffer, resume, inbox>>
workVars == <<thread, polling, info>>
wakeVars == <<woken, sending, extra>>
taskVars == <<running_tasks, fate, polls>>
mapVars == <<pending_tasks, holding>>
vars == <<poolVars, chanVars, workVars, mapVars, wakeVars, taskVars>>

(* "recv": in the loop's recv; "insert": poll has returned Pending;        *)
(* "check": the task is in the map, inline_wake not loaded yet; "end":     *)
(* poll_task returns, and the references to the map go; "left": run_async  *)
(* has ended; "crashed": an expect has failed.                             *)
ThreadState == {"none", "recv", "poll", "insert", "check", "end", "left",
                "crashed"}

Wakes == Tasks \X (1..MaxPolls)

TypeOK ==
  /\ alive \in BOOLEAN /\ map_alive \in BOOLEAN
  /\ size \in Nat /\ to_send \in Nat
  /\ resizes \in 0..MaxResizes
  /\ buffer \in Seq(TaskMessage)
  /\ resume \in Seq(Workers)
  /\ inbox \in [Workers -> TaskMessage \cup {NULL}]
  /\ thread \in [Workers -> ThreadState]
  /\ polling \in [Workers -> Tasks \cup {NULL}]
  /\ info \in [Workers -> 0..MaxPolls]
  /\ pending_tasks \subseteq Tasks /\ holding \subseteq Workers
  /\ woken \subseteq Wakes /\ sending \in [Wakes -> Nat]
  /\ extra \in 0..MaxExtra
  /\ running_tasks \in Nat
  /\ fate \in [Tasks -> {"new", "spawned", "done", "lost"}]
  /\ polls \in [Tasks -> 0..MaxPolls]

Looping == {w \in Workers : thread[w] \notin {"none", "left", "crashed"}}

(* Executor::new; each thread has entered run_async. *)
Init ==
  /\ alive = TRUE /\ map_alive = TRUE
  /\ size = Cardinality(Initial)
  /\ to_send = 0
  /\ resizes = 0
  /\ buffer = <<>>
  /\ resume = <<>>
  /\ inbox = [w \in Workers |-> NULL]
  /\ thread = [w \in Workers |-> IF w \in Initial THEN "recv" ELSE "none"]
  /\ polling = [w \in Workers |-> NULL]
  /\ info = [w \in Workers |-> 0]
  /\ pending_tasks = {} /\ holding = {}
  /\ woken = {}
  /\ sending = [x \in Wakes |-> 0]
  /\ extra = 0
  /\ running_tasks = 0
  /\ fate = [t \in Tasks |-> "new"]
  /\ polls = [t \in Tasks |-> 0]

-----------------------------------------------------------------------------
(* The channel. *)

(* Sender::send: to the receiver that came last, or on the stack. *)
Send(m) ==
  \/ /\ resume # <<>>
     /\ inbox' = [inbox EXCEPT ![Head(resume)] = m]
     /\ resume' = Tail(resume)
     /\ UNCHANGED buffer
  \/ /\ resume = <<>>
     /\ buffer' = <<m>> \o buffer
     /\ UNCHANGED <<resume, inbox>>

(* Receiver::recv, under the lock: take the top of the stack, or wait.  A  *)
(* worker's own sender keeps the channel alive, so recv never gives None.  *)
Recv(w) ==
  /\ thread[w] = "recv" /\ inbox[w] = NULL /\ ~Contains(resume, w)
  /\ \/ /\ buffer # <<>>
        /\ inbox' = [inbox EXCEPT ![w] = Head(buffer)]
        /\ buffer' = Tail(buffer)
        /\ UNCHANGED resume
     \/ /\ buffer = <<>>
        /\ resume' = <<w>> \o resume
        /\ UNCHANGED <<buffer, inbox>>
  /\ UNCHANGED <<poolVars, workVars, mapVars, wakeVars, taskVars>>

-----------------------------------------------------------------------------
(* Executor handles. *)

(* Mutation: not counted. *)
CountNothing == UNCHANGED running_tasks

CountTask == running_tasks' = running_tasks + 1
UncountTask == running_tasks' = running_tasks - 1

(* Executor::spawn_internal. *)
Spawn(t) ==
  /\ alive /\ fate[t] = "new"
  /\ CountTask
  /\ fate' = [fate EXCEPT ![t] = "spawned"]
  /\ Send(NewTask(t))
  /\ UNCHANGED <<poolVars, workVars, mapVars, wakeVars, polls>>

(* Mutation: the size is not remembered. *)
Forget(n) == UNCHANGED size

Remember(n) == size' = n

(* Executor::resize, which holds the lock of size until it has sent all    *)
(* its messages.                                                           *)
Resize(n) ==
  /\ alive /\ to_send = 0 /\ resizes < MaxResizes
  /\ \/ /\ n <= size
        /\ to_send' = size - n
        /\ UNCHANGED thread
     \/ /\ n > size
        /\ \E new \in SUBSET {w \in Workers : thread[w] = "none"} :
             /\ Cardinality(new) = n - size
             /\ thread' = [w \in Workers |-> IF w \in new THEN "recv"
                                                          ELSE thread[w]]
        /\ UNCHANGED to_send
  /\ Remember(n)
  /\ resizes' = resizes + 1
  /\ UNCHANGED <<alive, map_alive, chanVars, polling, info, mapVars, wakeVars,
                 taskVars>>

(* Mutation: one message too few. *)
OneShort == IF size = 0 THEN 0 ELSE size - 1

(* Shutdown messages that Drop sends: one for each thread. *)
OnePerThread == size

(* The last handle goes: Drop for Internal. *)
DropExecutor ==
  /\ alive /\ to_send = 0
  /\ alive' = FALSE
  /\ to_send' = OnePerThread
  /\ UNCHANGED <<map_alive, size, resizes, chanVars, workVars, mapVars,
                 wakeVars, taskVars>>

SendShutdown ==
  /\ to_send > 0
  /\ to_send' = to_send - 1
  /\ Send(Shutdown)
  /\ UNCHANGED <<alive, map_alive, size, resizes, workVars, mapVars, wakeVars,
                 taskVars>>

(* Mutation: Internal holds the map weakly, too. *)
HeldByWorkers == holding # {}

(* The map, and the tasks in it, go with the last reference. *)
MapLives == map_alive \/ holding # {}

DropReference ==
  IF MapLives'
  THEN UNCHANGED <<pending_tasks, fate>>
  ELSE /\ fate' = [t \in Tasks |-> IF t \in pending_tasks THEN "lost"
                                                          ELSE fate[t]]
       /\ pending_tasks' = {}

(* After drop, Internal's fields. *)
DropMap ==
  /\ ~alive /\ to_send = 0 /\ map_alive
  /\ map_alive' = FALSE
  /\ UNCHANGED <<alive, size, to_send, resizes, chanVars, workVars, holding,
                 wakeVars, running_tasks, polls>>
  /\ DropReference

-----------------------------------------------------------------------------
(* Thread::run_async, once recv has returned. *)

Receives(w, kind) ==
  /\ thread[w] = "recv" /\ inbox[w] # NULL
  /\ inbox[w].kind = kind
  /\ inbox' = [inbox EXCEPT ![w] = NULL]
  /\ UNCHANGED <<buffer, resume>>

(* poll_task: a new WakeInfo, then poll. *)
StartPoll(w, t) ==
  /\ thread' = [thread EXCEPT ![w] = "poll"]
  /\ polling' = [polling EXCEPT ![w] = t]
  /\ polls' = [polls EXCEPT ![t] = @ + 1]
  /\ info' = [info EXCEPT ![w] = polls[t] + 1]

HandleNewTask(w) ==
  /\ Receives(w, "NewTask")
  /\ StartPoll(w, inbox[w].task)
  /\ UNCHANGED <<poolVars, mapVars, wakeVars, running_tasks, fate>>

(* Mutation: the task is looked up in the map, not removed. *)
Keep(t) == UNCHANGED pending_tasks

TakeOut(t) == pending_tasks' = pending_tasks \ {t}

(* ResumeTask of a pending task, which upgrades the reference to the map   *)
(* and keeps it until the task has been polled.                            *)
HandleResumeTask(w) ==
  /\ Receives(w, "ResumeTask")
  /\ MapLives /\ inbox[w].task \in pending_tasks
  /\ holding' = holding \cup {w}
  /\ TakeOut(inbox[w].task)
  /\ StartPoll(w, inbox[w].task)
  /\ UNCHANGED <<poolVars, wakeVars, running_tasks, fate>>

(* ResumeTask of another one: "duplicate/nonpending task". *)
HandleDuplicate(w) ==
  /\ Receives(w, "ResumeTask")
  /\ MapLives /\ inbox[w].task \notin pending_tasks
  /\ UNCHANGED <<poolVars, workVars, mapVars, wakeVars, taskVars>>

(* expect("Task resuming while shutting down?") *)
ResumeFails(w) ==
  /\ Receives(w, "ResumeTask")
  /\ ~MapLives
  /\ thread' = [thread EXCEPT ![w] = "crashed"]
  /\ UNCHANGED <<poolVars, polling, info, mapVars, wakeVars, taskVars>>

HandleShutdown(w) ==
  /\ Receives(w, "Shutdown")
  /\ thread' = [thread EXCEPT ![w] = "left"]
  /\ UNCHANGED <<poolVars, polling, info, mapVars, wakeVars, taskVars>>

PollReady(w) ==
  /\ thread[w] = "poll"
  /\ UncountTask
  /\ fate' = [fate EXCEPT ![polling[w]] = "done"]
  /\ thread' = [thread EXCEPT ![w] = "end"]
  /\ polling' = [polling EXCEPT ![w] = NULL]
  /\ UNCHANGED <<poolVars, chanVars, info, mapVars, wakeVars, polls>>

PollPending(w) ==
  /\ thread[w] = "poll" /\ polls[polling[w]] < MaxPolls
  /\ thread' = [thread EXCEPT ![w] = "insert"]
  /\ UNCHANGED <<poolVars, chanVars, polling, info, mapVars, wakeVars,
                 taskVars>>

InsertPending(w) ==
  /\ thread[w] = "insert" /\ MapLives
  /\ holding' = holding \cup {w}
  /\ pending_tasks' = pending_tasks \cup {polling[w]}
  /\ thread' = [thread EXCEPT ![w] = "check"]
  /\ UNCHANGED <<poolVars, chanVars, polling, info, wakeVars, taskVars>>

(* expect("Task pending while shutting down?") *)
InsertFails(w) ==
  /\ thread[w] = "insert" /\ ~MapLives
  /\ thread' = [thread EXCEPT ![w] = "crashed"]
  /\ fate' = [fate EXCEPT ![polling[w]] = "lost"]
  /\ polling' = [polling EXCEPT ![w] = NULL]
  /\ UNCHANGED <<poolVars, chanVars, info, mapVars, wakeVars, running_tasks,
                 polls>>

(* Mutation: a wake during the poll is taken to have been handled. *)
NotWoken(w) == FALSE

InlineWake(w) == <<polling[w], info[w]>> \in woken

(* inline_wake.load: "ensure a poll fires after the pending task insert". *)
CheckInlineWake(w) ==
  /\ thread[w] = "check"
  /\ IF InlineWake(w)
     THEN Send(ResumeTask(polling[w]))
     ELSE UNCHANGED chanVars
  /\ thread' = [thread EXCEPT ![w] = "end"]
  /\ polling' = [polling EXCEPT ![w] = NULL]
  /\ UNCHANGED <<poolVars, info, mapVars, wakeVars, taskVars>>

(* The end of poll_task and of the arm that called it. *)
Release(w) ==
  /\ thread[w] = "end"
  /\ thread' = [thread EXCEPT ![w] = "recv"]
  /\ holding' = holding \ {w}
  /\ UNCHANGED <<poolVars, chanVars, polling, info, wakeVars, running_tasks,
                 polls>>
  /\ DropReference

-----------------------------------------------------------------------------
(* A suspended task waits for an event, which calls the waker of its last  *)
(* poll.  In poll MaxPolls, which returns Ready, and after it, it waits    *)
(* for nothing.                                                            *)
Due(t, n) ==
  n = polls[t] /\ n < MaxPolls /\ fate[t] = "spawned" /\ <<t, n>> \notin woken

(* WakeInfo::wake, by whoever has the waker of t's n-th poll, whether or   *)
(* not it has been called and whatever became of the task: the flag is     *)
(* stored, then the id is sent.                                            *)

WakeStore(t, n) ==
  /\ n \in 1..polls[t]
  /\ \/ Due(t, n) /\ UNCHANGED extra
     \/ ~Due(t, n) /\ extra < MaxExtra /\ extra' = extra + 1
  /\ woken' = woken \cup {<<t, n>>}
  /\ sending' = [sending EXCEPT ![<<t, n>>] = @ + 1]
  /\ UNCHANGED <<poolVars, chanVars, workVars, mapVars, taskVars>>

WakeSend(t, n) ==
  /\ sending[<<t, n>>] > 0
  /\ sending' = [sending EXCEPT ![<<t, n>>] = @ - 1]
  /\ Send(ResumeTask(t))
  /\ UNCHANGED <<poolVars, workVars, mapVars, woken, extra, taskVars>>

-----------------------------------------------------------------------------
WorkerStep(w) ==
  \/ Recv(w)
  \/ HandleNewTask(w) \/ HandleResumeTask(w) \/ HandleDuplicate(w)
  \/ ResumeFails(w) \/ HandleShutdown(w)
  \/ PollReady(w) \/ PollPending(w)
  \/ InsertPending(w) \/ InsertFails(w) \/ CheckInlineWake(w)
  \/ Release(w)

Next ==
  \/ \E t \in Tasks : Spawn(t)
  \/ \E n \in Sizes : Resize(n)
  \/ DropExecutor \/ SendShutdown \/ DropMap
  \/ \E w \in Workers : WorkerStep(w)
  \/ \E t \in Tasks, n \in 1..MaxPolls : WakeStore(t, n) \/ WakeSend(t, n)

(* Workers run, a resize or drop that has begun ends, the event that a     *)
(* task waits for comes, and a wake that has begun ends.  Nobody has to    *)
(* wake a task again, or through an older waker, nor to spawn, resize or   *)
(* drop the executor.                                                      *)
Fairness ==
  /\ \A w \in Workers : WF_vars(WorkerStep(w))
  /\ WF_vars(SendShutdown) /\ WF_vars(DropMap)
  /\ \A t \in Tasks, n \in 1..MaxPolls :
       /\ WF_vars(Due(t, n) /\ WakeStore(t, n))
       /\ WF_vars(WakeSend(t, n))

Spec == Init /\ [][Next]_vars /\ Fairness

-----------------------------------------------------------------------------
Sent(m) == Contains(buffer, m) \/ \E w \in Workers : inbox[w] = m
Polled(w, t) == thread[w] \in {"poll", "insert"} /\ polling[w] = t

SentOnce(m) ==
  /\ Once(buffer, m)
  /\ \A v \in Workers : inbox[v] = m =>
       ~Contains(buffer, m) /\ \A w \in Workers : inbox[w] = m => v = w

(* A spawned task is in one place: in its NewTask message, with the worker *)
(* that polls it or in the map of pending tasks.  Duplicate ResumeTask     *)
(* messages, of the waker and of poll_task, never have it polled twice at  *)
(* a time (run_async removes it from the map under the lock).              *)
OneOwner ==
  \A t \in Tasks :
    /\ SentOnce(NewTask(t))
    /\ \A v, w \in Workers : Polled(v, t) /\ Polled(w, t) => v = w
    /\ Sent(NewTask(t)) =>
         t \notin pending_tasks /\ \A w \in Workers : ~Polled(w, t)
    /\ t \in pending_tasks => \A w \in Workers : ~Polled(w, t)
    /\ fate[t] = "spawned" <=>
         \/ Sent(NewTask(t)) \/ t \in pending_tasks
         \/ \E w \in Workers : Polled(w, t)

(* A task in the map that was woken by the waker of its last poll, which   *)
(* is the one a future has to keep, will be taken out of it: a call of     *)
(* that waker has still to send the id, or poll_task has still to look at  *)
(* the flag, or the id is in the channel (poll_task inserts the task       *)
(* before it loads inline_wake; wake stores before it sends).  Ids that    *)
(* older wakers send in between, and that a worker drops while the task is *)
(* not in the map, do not take its place.  A call of an older waker alone  *)
(* promises nothing.                                                       *)
WokenIsResumed ==
  \A t \in pending_tasks :
    <<t, polls[t]>> \in woken =>
      \/ sending[<<t, polls[t]>>] > 0
      \/ \E w \in Workers :
           thread[w] = "check" /\ polling[w] = t /\ info[w] = polls[t]
      \/ Sent(ResumeTask(t))

Counted == {t \in Tasks : fate[t] \notin {"new", "done"}}

(* running_tasks counts the tasks that were spawned and have not returned  *)
(* Ready, which is what drain waits for (spawn_internal and poll_task).    *)
CounterExact == running_tasks = Cardinality(Counted)

(* When no Shutdown is on its way the pool has the number of threads that  *)
(* resize was last asked for (lib.rs: "Resizes the thread pool to the      *)
(* specified number of threads").                                          *)
PoolReachesSize ==
  alive /\ to_send = 0 /\ ~Sent(Shutdown) => Cardinality(Looping) = size

(* Every spawned task finishes if the executor is kept, in whatever order  *)
(* the stack gives messages back.                                          *)
TasksFinish ==
  \A t \in Tasks : fate[t] = "spawned" ~> fate[t] = "done" \/ ~alive

(* Worker loops end once the last handle is dropped (Drop for Internal:    *)
(* "Ensure worker loops exit when the last executor reference is           *)
(* dropped").                                                              *)
WorkersLeave == ~alive ~> Looping = {}

(* They end by leaving the loop, not by a failed expect (CHANGELOG:        *)
(* "worker loops exit cleanly when the last executor handle is dropped").  *)
ExitsCleanly == \A w \in Workers : thread[w] # "crashed"

(* The wasm pool keeps the promises of ExecutorContract as well: no task   *)
(* is abandoned while there is a handle, however messages overtake each    *)
(* other, and what drain waits for moves with spawns and last polls only.  *)
PolledBy(w) == IF thread[w] = "poll" THEN polling[w] ELSE NULL
Status(t) == CASE fate[t] = "new" -> "new"
               [] fate[t] = "spawned" -> "live"
               [] fate[t] = "done" -> "finished"
               [] OTHER -> "abandoned"
Executor == INSTANCE ExecutorContract WITH
  Pinned <- {},
  open <- alive, waited <- running_tasks,
  running <- [w \in Workers |-> PolledBy(w)], home <- [w \in Workers |-> {}],
  task <- [t \in Tasks |-> Status(t)]

ImplementsExecutor == Executor!Spec

=============================================================================
