----------------------------- MODULE PoolProofs -----------------------------
(* Proofs about the thread pool of Pool.tla, for any number of threads,    *)
(* tasks, polls and resizes.                                               *)
EXTENDS Pool, OccurrenceProofs, FiniteSetTheorems, TLAPS

(* A worker moves on without a message: a try finds nothing, a parked      *)
(* thread tries again, the inner loop ends.                                *)
Moves(w) == FindsNothing(w) \/ Retry(w) \/ StaticLoopEnds(w)

USE DEF CountTask, UncountTask, Excess, MakeReady, Leave, Announce,
        InlineAlert, IdOf, Moves, FindsNothing, SkipStatic, SkipTask, Block,
        Retry, StaticLoopEnds, Selecting

-----------------------------------------------------------------------------
(* The inductive invariant.  OneOwner and StaticOwner say that a worker    *)
(* polls a task that is spawned and not finished, which CounterExact needs *)
(* for its subtraction; BudgetInv bounds the polls of whoever is queued.   *)
PollInv == \A w \in Workers : thread[w] = "poll" <=> polling[w] # NULL

BudgetInv ==
  \A t \in All : fate[t] \in {"new", "spawned"} /\ ~Polled(t) =>
    polls[t] < MaxPolls

FreshInv == \A t \in All : fate[t] = "new" => cell[t] # BOX /\ t \notin taken

(* The sender that an alert captured is that of the thread that keeps the  *)
(* task, as long as there is that thread: SendId does not look.            *)
SenderPlace(t) ==
  /\ \A w \in Workers : t \in static_pending[w] => sender[t] = w /\ w \in Running
  /\ \A w \in Workers :
       /\ cell[t] = BOX \/ t \in taken
       /\ sender[t] = w /\ thread[w] # "exited"
       => t \in static_pending[w]

SenderInv == \A t \in StaticTasks : SenderPlace(t)

IInv == TypeOK /\ PollInv /\ BudgetInv /\ FreshInv /\ OneOwner /\ StaticOwner
        /\ SenderInv /\ CounterExact

(* The task that a worker polls has been spawned and has not finished. *)
LEMMA PollingSpawned ==
  ASSUME IInv, NEW w \in Workers, thread[w] = "poll"
  PROVE  /\ polling[w] \in All /\ fate[polling[w]] = "spawned"
         /\ cell[polling[w]] # BOX /\ polling[w] \notin taken
BY PoolAssumption
   DEF IInv, TypeOK, PollInv, OneOwner, StaticOwner, Polled, Holds, All

(* A task at the head of a queue is spawned and may be polled once more. *)
LEMMA QueueHead ==
  ASSUME IInv, task_queue # <<>>, NEW t, t = Head(task_queue)
  PROVE  /\ t \in Tasks /\ Queued(t) /\ fate[t] = "spawned"
         /\ ~Polled(t) /\ polls[t] < MaxPolls
<1>1. task_queue \in Seq(Tasks)
  BY DEF IInv, TypeOK
<1>2. t \in Tasks /\ Queued(t)
  BY <1>1, TailMember DEF Queued
<1>3. fate[t] = "spawned" /\ ~Polled(t)
  BY <1>2 DEF IInv, OneOwner
<1> QED
  BY <1>2, <1>3 DEF IInv, BudgetInv, All

LEMMA ReadyHead ==
  ASSUME IInv, NEW w \in Workers, static_ready[w] # <<>>,
         NEW t, t = Head(static_ready[w])
  PROVE  /\ t \in StaticTasks /\ Ready(w, t) /\ fate[t] = "spawned"
         /\ ~Polled(t) /\ polls[t] < MaxPolls
<1>1. static_ready[w] \in Seq(StaticTasks)
  BY DEF IInv, TypeOK
<1>2. t \in StaticTasks /\ Ready(w, t)
  BY <1>1, TailMember DEF Ready
<1>3. fate[t] = "spawned" /\ ~Polled(t)
  BY <1>2 DEF IInv, StaticOwner, Polled, Holds
<1> QED
  BY <1>2, <1>3 DEF IInv, BudgetInv, All

-----------------------------------------------------------------------------
(* The counter. *)

LEMMA CountedFinite ==
  ASSUME CounterExact
  PROVE  IsFiniteSet(Counted) /\ running_tasks \in Nat
BY PoolAssumption, FS_Subset, FS_CardinalityType DEF Counted, CounterExact

LEMMA CounterUp ==
  ASSUME CounterExact, NEW t \in All, fate \in [All -> Fate],
         fate[t] = "new", fate' = [fate EXCEPT ![t] = "spawned"],
         running_tasks' = running_tasks + 1
  PROVE  CounterExact'
<1>1. Counted' = Counted \cup {t} /\ t \notin Counted
  BY DEF Counted
<1> QED
  BY <1>1, CountedFinite, FS_AddElement DEF CounterExact

LEMMA CounterDown ==
  ASSUME CounterExact, NEW t \in All, fate \in [All -> Fate],
         fate[t] = "spawned", fate' = [fate EXCEPT ![t] = "done"],
         running_tasks' = running_tasks - 1
  PROVE  CounterExact'
<1>1. Counted' = Counted \ {t} /\ t \in Counted
  BY DEF Counted
<1> QED
  BY <1>1, CountedFinite, FS_RemoveElement DEF CounterExact

LEMMA CounterSame ==
  ASSUME CounterExact, fate' \in [All -> Fate],
         \A t \in All : fate'[t] \in {"new", "done"} <=> fate[t] \in {"new", "done"},
         UNCHANGED running_tasks
  PROVE  CounterExact'
<1>1. Counted' = Counted
  BY DEF Counted
<1> QED
  BY <1>1 DEF CounterExact

(* The tasks that go with a channel or a thread were spawned. *)
LEMMA DiscardSpawned ==
  ASSUME IInv, NEW t \in All
  PROVE  /\ Queued(t) => fate[t] = "spawned"
         /\ \A w \in Workers : Ready(w, t) \/ t \in static_pending[w] =>
              t \in StaticTasks /\ fate[t] = "spawned"
<1>1. Queued(t) => t \in Tasks
  BY DEF IInv, TypeOK, Queued, Contains
<1>2. ASSUME NEW w \in Workers, Ready(w, t) \/ t \in static_pending[w]
      PROVE  t \in StaticTasks
  BY <1>2 DEF IInv, TypeOK, Ready, Contains
<1> QED
  BY <1>1, <1>2 DEF IInv, OneOwner, StaticOwner, Holds

LEMMA CounterStep ==
  ASSUME IInv, [Next]_vars
  PROVE  CounterExact'
<1> USE DEF IInv, TypeOK, poolVars, staticVars, wakeVars, countVars
<1>1. ASSUME NEW t \in Tasks, Spawn(t) PROVE CounterExact'
  BY <1>1, CounterUp DEF Spawn, All
<1>2. ASSUME NEW t \in Tasks, SendTask(t) PROVE CounterExact'
  <2>1. fate[t] = "spawned"
    BY <1>2 DEF SendTask, OneOwner
  <2> QED BY <1>2, <2>1, CounterSame DEF SendTask, Fate, All
<1>3. ASSUME NEW n \in Sizes, Resize(n) PROVE CounterExact'
  BY <1>3, CounterSame DEF Resize
<1>4. CASE DropExecutor
  BY <1>4, CounterSame, DiscardSpawned DEF DropExecutor, Discard, Fate
<1>5. ASSUME NEW w \in Workers, Receive(w) \/ RunStatic(w) \/ Moves(w)
      PROVE  CounterExact'
  BY <1>5, CounterSame
     DEF Receive, RecvStatic, RecvTask, RecvShutdown, RecvDisconnected,
         RunStatic, Pass
<1>6. ASSUME NEW w \in Workers, ThreadExit(w) PROVE CounterExact'
  BY <1>6, CounterSame, DiscardSpawned DEF ThreadExit, Fate, Ready
<1>7. ASSUME NEW w \in Workers, NEW t \in StaticTasks, SpawnStatic(w, t)
      PROVE  CounterExact'
  BY <1>7, CounterUp DEF SpawnStatic, All
<1>8. ASSUME NEW w \in Workers, PollReady(w) PROVE CounterExact'
  BY <1>8, CounterDown, PollingSpawned DEF PollReady
<1>9. ASSUME NEW w \in Workers, PollPending(w) \/ StaticPending(w)
      PROVE  CounterExact'
  BY <1>9, CounterSame DEF PollPending, StaticPending
<1>10. ASSUME NEW w \in Workers, PollPanic(w) PROVE CounterExact'
  BY <1>10, CounterSame, PollingSpawned DEF PollPanic, Fate
<1>11. ASSUME NEW t \in All, Wake(t) PROVE CounterExact'
  BY <1>11, CounterSame DEF Wake
<1>12. ASSUME NEW t \in StaticTasks, SendId(t) PROVE CounterExact'
  BY <1>12, CounterSame DEF SendId
<1>13. CASE UNCHANGED vars
  BY <1>13, CounterSame DEF vars
<1> QED
  BY <1>1, <1>2, <1>3, <1>4, <1>5, <1>6, <1>7, <1>8, <1>9, <1>10, <1>11,
     <1>12, <1>13 DEF Next, WorkerStep, PollEnds

-----------------------------------------------------------------------------
(* Types, then the parts of IInv about a single worker or task. *)

LEMMA TypeStep ==
  ASSUME IInv, [Next]_vars
  PROVE  TypeOK'
<1> USE PoolAssumption DEF IInv, TypeOK, ThreadState, Fate, All, poolVars,
    staticVars, wakeVars, countVars
<1>0. running_tasks' \in Nat
  <2>1. running_tasks' = Cardinality(Counted') /\ Counted' \subseteq All
    BY CounterStep DEF CounterExact, Counted
  <2> QED BY <2>1, FS_Subset, FS_CardinalityType
<1>1. ASSUME NEW t \in Tasks, Spawn(t) PROVE TypeOK'
  <2>1. Append(task_queue, t) \in Seq(Tasks)
    BY <1>1 DEF Spawn
  <2>2. /\ UNCHANGED <<poolVars, thread, polling, staticVars, wakeVars, polls>>
        /\ fate' = [fate EXCEPT ![t] = "spawned"]
        /\ task_queue' = Append(task_queue, t)
    BY <1>1 DEF Spawn
  <2> QED BY <1>0, <2>1, <2>2
<1>2. ASSUME NEW t \in Tasks, SendTask(t) PROVE TypeOK'
  <2>1. Append(task_queue, t) \in Seq(Tasks)
    OBVIOUS
  <2> QED BY <1>0, <1>2, <2>1 DEF SendTask
<1>3. ASSUME NEW n \in Sizes, Resize(n) PROVE TypeOK'
  <2>1. requested_threads \in Nat
    BY FS_CardinalityType, FS_Subset DEF requested_threads
  <2>2. CASE Grow(n)
    BY <1>0, <1>3, <2>2 DEF Resize, Grow
  <2>3. CASE Shrink(n)
    <3>1. shutdowns' \in Nat
      BY <2>1, <2>3 DEF Shrink
    <3> QED BY <1>0, <1>3, <2>3, <3>1 DEF Resize, Shrink
  <2> QED BY <1>3, <2>2, <2>3 DEF Resize
<1>4. CASE DropExecutor
  <2>1. task_queue' \in Seq(Tasks) /\ fate' \in [All -> Fate]
    BY <1>4 DEF DropExecutor, Discard
  <2> QED BY <1>0, <1>4, <2>1 DEF DropExecutor
<1>5. ASSUME NEW w \in Workers, RecvStatic(w) PROVE TypeOK'
  <2> DEFINE id == Head(static_queue[w])
  <2>1. static_queue' \in [Workers -> Seq(Ids)]
    <3>1. Tail(static_queue[w]) \in Seq(Ids)
      BY <1>5 DEF RecvStatic
    <3> QED BY <1>5, <3>1 DEF RecvStatic
  <2>2. /\ static_pending' \in [Workers -> SUBSET StaticTasks]
        /\ static_ready' \in [Workers -> Seq(StaticTasks)]
    <3>1. CASE id \in static_pending[w]
      <4>1. /\ static_ready' = [static_ready EXCEPT ![w] = Append(@, id)]
            /\ static_pending' = [static_pending EXCEPT ![w] = @ \ {id}]
        BY <1>5, <3>1 DEF RecvStatic
      <4>2. Append(static_ready[w], id) \in Seq(StaticTasks)
        BY <3>1
      <4>3. static_ready' \in [Workers -> Seq(StaticTasks)]
        BY <4>1, <4>2
      <4>4. static_pending' \in [Workers -> SUBSET StaticTasks]
        BY <4>1
      <4> QED BY <4>3, <4>4
    <3>2. CASE id \notin static_pending[w]
      BY <1>5, <3>2 DEF RecvStatic
    <3> QED BY <3>1, <3>2
  <2>3. /\ thread' \in [Workers -> ThreadState]
        /\ UNCHANGED <<poolVars, task_queue, polling, sender, wakeVars,
                       countVars, polls>>
    BY <1>5 DEF RecvStatic
  <2> QED BY <1>0, <2>1, <2>2, <2>3
<1>6. ASSUME NEW w \in Workers, RunStatic(w) PROVE TypeOK'
  <2>1. Tail(static_ready[w]) \in Seq(StaticTasks)
    BY <1>6 DEF RunStatic
  <2>2. /\ Head(static_ready[w]) \in All
        /\ polls[Head(static_ready[w])] + 1 \in 0..MaxPolls
    BY <1>6, ReadyHead DEF RunStatic
  <2> QED BY <1>0, <1>6, <2>1, <2>2 DEF RunStatic, StartPoll
<1>7. ASSUME NEW w \in Workers, RecvTask(w) PROVE TypeOK'
  <2>1. Tail(task_queue) \in Seq(Tasks)
    BY <1>7 DEF RecvTask
  <2>2. Head(task_queue) \in All /\ polls[Head(task_queue)] + 1 \in 0..MaxPolls
    BY <1>7, QueueHead DEF RecvTask
  <2> QED BY <1>0, <1>7, <2>1, <2>2 DEF RecvTask, StartPoll
<1>8. ASSUME NEW w \in Workers, RecvShutdown(w) PROVE TypeOK'
  BY <1>0, <1>8 DEF RecvShutdown
<1>18. ASSUME NEW w \in Workers, RecvDisconnected(w) \/ Moves(w)
       PROVE  TypeOK'
  BY <1>0, <1>18 DEF RecvDisconnected, Pass
<1>9. ASSUME NEW w \in Workers, ThreadExit(w) PROVE TypeOK'
  <2>1. task_queue' \in Seq(Tasks) /\ fate' \in [All -> Fate]
    BY <1>9 DEF ThreadExit
  <2> QED BY <1>0, <1>9, <2>1 DEF ThreadExit
<1>10. ASSUME NEW w \in Workers, NEW t \in StaticTasks, SpawnStatic(w, t)
       PROVE  TypeOK'
  <2>1. /\ Append(static_ready[w], t) \in Seq(StaticTasks)
        /\ Append(static_queue[w], NEW_TASK) \in Seq(Ids)
    BY DEF Ids
  <2> QED BY <1>0, <1>10, <2>1 DEF SpawnStatic
<1>11. ASSUME NEW w \in Workers, PollReady(w) PROVE TypeOK'
  BY <1>0, <1>11 DEF PollReady, PollReturns
<1>12. ASSUME NEW w \in Workers, PollPending(w) PROVE TypeOK'
  <2>1. Append(task_queue, polling[w]) \in Seq(Tasks)
    BY <1>12 DEF PollPending
  <2> QED BY <1>0, <1>12, <2>1 DEF PollPending, PollReturns, CheckWake
<1>13. ASSUME NEW w \in Workers, StaticPending(w) PROVE TypeOK'
  <2>1. Append(static_queue[w], polling[w]) \in Seq(Ids)
    BY <1>13 DEF StaticPending, Ids
  <2> QED BY <1>0, <1>13, <2>1 DEF StaticPending, PollReturns, CheckWake
<1>14. ASSUME NEW w \in Workers, PollPanic(w) PROVE TypeOK'
  BY <1>0, <1>14 DEF PollPanic
<1>15. ASSUME NEW t \in All, Wake(t) PROVE TypeOK'
  BY <1>0, <1>15 DEF Wake
<1>16. ASSUME NEW t \in StaticTasks, SendId(t) PROVE TypeOK'
  <2>1. static_queue' \in [Workers -> Seq(Ids)]
    <3>1. CASE sender[t] \in Running
      <4>1. Append(static_queue[sender[t]], t) \in Seq(Ids)
        BY <3>1 DEF Ids, Running
      <4> QED BY <1>16, <3>1, <4>1 DEF SendId
    <3> QED BY <1>16, <3>1 DEF SendId
  <2> QED BY <1>0, <1>16, <2>1 DEF SendId
<1>17. CASE UNCHANGED vars
  BY <1>17 DEF vars
<1> QED
  BY <1>1, <1>2, <1>3, <1>4, <1>5, <1>6, <1>7, <1>8, <1>9, <1>10, <1>11,
     <1>12, <1>13, <1>14, <1>15, <1>16, <1>17, <1>18
     DEF Next, WorkerStep, Receive, PollEnds

(* Which actions start and end polls. *)
LEMMA PollStep ==
  ASSUME IInv, [Next]_vars
  PROVE  PollInv'
<1> USE PoolAssumption DEF IInv, TypeOK, PollInv, ThreadState, All
<1>1. CASE UNCHANGED polling /\ \E n \in Sizes : Resize(n)
  BY <1>1 DEF Resize, Grow, Shrink
<1>2. ASSUME NEW w \in Workers, NEW t \in All, thread[w] # "poll", StartPoll(w, t)
      PROVE  PollInv'
  BY <1>2 DEF StartPoll
<1>3. ASSUME NEW w \in Workers, polling' = [polling EXCEPT ![w] = NULL],
             NEW s \in {"select", "static", "exiting"},
             thread' = [thread EXCEPT ![w] = s]
      PROVE  PollInv'
  BY <1>3
<1>4. ASSUME UNCHANGED polling, NEW w \in Workers, thread[w] # "poll",
             NEW s \in ThreadState \ {"poll"}, thread' = [thread EXCEPT ![w] = s]
      PROVE  PollInv'
  BY <1>4
<1>5. CASE UNCHANGED <<polling, thread>>
  BY <1>5
<1>6. ASSUME NEW w \in Workers, WorkerStep(w) \/ Retry(w)
      PROVE  PollInv'
  <2>1. CASE RunStatic(w)
    BY <2>1, <1>2, ReadyHead DEF RunStatic
  <2>2. CASE RecvTask(w)
    BY <2>2, <1>2, QueueHead DEF RecvTask
  <2>3. CASE PollEnds(w)
    <3>1. /\ polling' = [polling EXCEPT ![w] = NULL]
          /\ \E s \in {"select", "static", "exiting"} :
               thread' = [thread EXCEPT ![w] = s]
      BY <2>3 DEF PollEnds, PollReady, PollPending, StaticPending, PollPanic,
         PollReturns
    <3> QED BY <3>1, <1>3
  <2>4. CASE RecvStatic(w)
    BY <2>4, <1>4 DEF RecvStatic
  <2>5. CASE RecvShutdown(w) \/ RecvDisconnected(w)
    BY <2>5, <1>4 DEF RecvShutdown, RecvDisconnected
  <2>6. CASE Moves(w) \/ ThreadExit(w)
    BY <2>6, <1>4 DEF Pass, ThreadExit
  <2> QED
    BY <1>6, <2>1, <2>2, <2>3, <2>4, <2>5, <2>6 DEF WorkerStep, Receive
<1>7. ASSUME NEW n \in Sizes, Resize(n) PROVE PollInv'
  BY <1>7, <1>1 DEF Resize
<1> QED
  BY <1>5, <1>6, <1>7
     DEF Next, Spawn, SendTask, DropExecutor, SpawnStatic, Wake, SendId, vars

(* Polls are counted when they start, and a poll that may not be followed  *)
(* by another ends the task.                                               *)
LEMMA BudgetStep ==
  ASSUME IInv, [Next]_vars
  PROVE  BudgetInv'
<1> USE PoolAssumption DEF IInv, TypeOK, BudgetInv, Polled, countVars
<1>1. ASSUME NEW w \in Workers, NEW t \in All, polling[w] = NULL,
             polls' = [polls EXCEPT ![t] = @ + 1],
             polling' = [polling EXCEPT ![w] = t], UNCHANGED fate
      PROVE  BudgetInv'
  BY <1>1
<1>2. ASSUME NEW w \in Workers, thread[w] = "poll",
             polling' = [polling EXCEPT ![w] = NULL], UNCHANGED polls,
             \A t \in All \ {polling[w]} : fate'[t] = fate[t],
             \/ UNCHANGED fate /\ polls[polling[w]] < MaxPolls
             \/ fate'[polling[w]] \notin {"new", "spawned"}
      PROVE  BudgetInv'
  BY <1>2
<1>3. ASSUME UNCHANGED <<polling, polls>>,
             \A t \in All : fate'[t] \in {"new", "spawned"} =>
                            fate[t] \in {"new", "spawned"}
      PROVE  BudgetInv'
  BY <1>3
<1>4. ASSUME NEW w \in Workers, PollEnds(w) PROVE BudgetInv'
  BY <1>2, <1>4 DEF PollEnds, PollReady, PollPending, StaticPending,
     PollPanic, PollReturns
<1>5. ASSUME NEW w \in Workers, RunStatic(w) PROVE BudgetInv'
  <2>1. polling[w] = NULL
    BY <1>5 DEF RunStatic, PollInv
  <2> QED BY <1>1, <1>5, <2>1, ReadyHead DEF RunStatic, StartPoll, All
<1>6. ASSUME NEW w \in Workers, RecvTask(w) PROVE BudgetInv'
  <2>1. polling[w] = NULL
    BY <1>6 DEF RecvTask, PollInv
  <2> QED BY <1>1, <1>6, <2>1, QueueHead DEF RecvTask, StartPoll, All
<1>7. ASSUME NEW w \in Workers, RecvStatic(w) \/ RecvShutdown(w)
                 \/ RecvDisconnected(w) \/ Moves(w)
      PROVE  BudgetInv'
  BY <1>3, <1>7
     DEF RecvStatic, RecvShutdown, RecvDisconnected, Pass
<1>8. ASSUME NEW w \in Workers, ThreadExit(w) PROVE BudgetInv'
  BY <1>3, <1>8 DEF ThreadExit
<1>9. CASE DropExecutor
  BY <1>3, <1>9 DEF DropExecutor, Discard
<1>10. CASE \/ \E t \in Tasks : Spawn(t) \/ SendTask(t)
            \/ \E n \in Sizes : Resize(n)
            \/ \E w \in Workers, t \in StaticTasks : SpawnStatic(w, t)
            \/ \E t \in All : Wake(t)
            \/ \E t \in StaticTasks : SendId(t)
            \/ UNCHANGED vars
  BY <1>3, <1>10 DEF Spawn, SendTask, Resize, SpawnStatic, Wake, SendId, vars
<1> QED
  BY <1>4, <1>5, <1>6, <1>7, <1>8, <1>9, <1>10 DEF Next, WorkerStep, Receive

(* A task that has not been spawned has an empty cell. *)
LEMMA FreshStep ==
  ASSUME IInv, [Next]_vars
  PROVE  FreshInv'
<1> USE PoolAssumption DEF IInv, TypeOK, FreshInv, All, wakeVars, countVars
<1>1. ASSUME NEW t \in All, fate[t] # "new",
             \A u \in All \ {t} : cell'[u] = cell[u],
             taken' \subseteq taken \cup {t},
             \A u \in All : fate'[u] = "new" => fate[u] = "new"
      PROVE  FreshInv'
  BY <1>1, TypeStep
<1>2. ASSUME UNCHANGED cell, taken' \subseteq taken,
             \A u \in All : fate'[u] = "new" => fate[u] = "new"
      PROVE  FreshInv'
  BY <1>2
<1>3. ASSUME NEW w \in Workers, PollEnds(w) PROVE FreshInv'
  <2>1. polling[w] \in All /\ fate[polling[w]] = "spawned"
    BY <1>3, PollingSpawned
       DEF PollEnds, PollReady, PollPending, StaticPending, PollPanic
  <2> QED
    BY <1>1, <1>3, <2>1 DEF PollEnds, PollReady, PollPending, StaticPending,
       PollPanic, CheckWake
<1>4. ASSUME NEW w \in Workers, RunStatic(w) PROVE FreshInv'
  BY <1>1, <1>4, ReadyHead DEF RunStatic, StartPoll
<1>5. ASSUME NEW w \in Workers, RecvTask(w) PROVE FreshInv'
  BY <1>1, <1>5, QueueHead DEF RecvTask, StartPoll
<1>6. ASSUME NEW w \in Workers, RecvStatic(w) \/ RecvShutdown(w)
                 \/ RecvDisconnected(w) \/ Moves(w)
      PROVE  FreshInv'
  BY <1>2, <1>6
     DEF RecvStatic, RecvShutdown, RecvDisconnected, Pass
<1>7. ASSUME NEW w \in Workers, ThreadExit(w) PROVE FreshInv'
  BY <1>2, <1>7 DEF ThreadExit
<1>8. CASE DropExecutor
  BY <1>2, <1>8 DEF DropExecutor, Discard
<1>9. ASSUME NEW t \in All, Wake(t) PROVE FreshInv'
  BY <1>1, <1>9 DEF Wake
<1>10. CASE \/ \E t \in Tasks : Spawn(t) \/ SendTask(t)
            \/ \E n \in Sizes : Resize(n)
            \/ \E w \in Workers, t \in StaticTasks : SpawnStatic(w, t)
            \/ \E t \in StaticTasks : SendId(t)
            \/ UNCHANGED vars
  BY <1>2, <1>10 DEF Spawn, SendTask, Resize, SpawnStatic, SendId, vars
<1> QED
  BY <1>3, <1>4, <1>5, <1>6, <1>7, <1>8, <1>9, <1>10
     DEF Next, WorkerStep, Receive

-----------------------------------------------------------------------------
(* One owner.  Who polls a task after each kind of step. *)

LEMMA PolledAfterStart ==
  ASSUME IInv, NEW w \in Workers, NEW t, thread[w] # "poll",
         polling' = [polling EXCEPT ![w] = t], NEW u \in All
  PROVE  Polled(u)' <=> Polled(u) \/ u = t
BY PoolAssumption DEF IInv, TypeOK, PollInv, Polled

LEMMA PolledAfterEnd ==
  ASSUME IInv, NEW w \in Workers, thread[w] = "poll",
         polling' = [polling EXCEPT ![w] = NULL], NEW u \in All
  PROVE  Polled(u)' <=> Polled(u) /\ u # polling[w]
BY PoolAssumption DEF IInv, TypeOK, PollInv, OneOwner, Polled

LEMMA OneOwnerStep ==
  ASSUME IInv, [Next]_vars
  PROVE  OneOwner'
<1> USE PoolAssumption DEF IInv, TypeOK, All, poolVars, staticVars, wakeVars,
    countVars
<1>1. \A v, w \in Workers : polling'[v] = polling'[w] /\ v # w =>
        polling'[v] = NULL
  <2>1. ASSUME NEW w \in Workers, RunStatic(w) \/ RecvTask(w)
        PROVE  \E t : polling' = [polling EXCEPT ![w] = t] /\ ~Polled(t)
    BY <2>1, ReadyHead, QueueHead DEF RunStatic, RecvTask, StartPoll
  <2>2. ASSUME NEW w \in Workers, PollEnds(w)
        PROVE  polling' = [polling EXCEPT ![w] = NULL]
    BY <2>2 DEF PollEnds, PollReady, PollPending, StaticPending, PollPanic,
       PollReturns
  <2>3. \/ UNCHANGED polling
        \/ \E w \in Workers : RunStatic(w) \/ RecvTask(w) \/ PollEnds(w)
    BY DEF Next, WorkerStep, Receive, Spawn, SendTask, Resize, DropExecutor,
       RecvStatic, RecvShutdown, RecvDisconnected, Pass,
       ThreadExit, SpawnStatic, Wake, SendId, vars
  <2>4. ASSUME NEW w \in Workers, NEW t, ~Polled(t),
               polling' = [polling EXCEPT ![w] = t],
               NEW x \in Workers, NEW y \in Workers,
               polling'[x] = polling'[y], x # y
        PROVE  polling'[x] = NULL
    BY <2>4 DEF OneOwner, Polled
  <2>5. ASSUME NEW w \in Workers, polling' = [polling EXCEPT ![w] = NULL],
               NEW x \in Workers, NEW y \in Workers,
               polling'[x] = polling'[y], x # y
        PROVE  polling'[x] = NULL
    BY <2>5 DEF OneOwner
  <2> QED BY <2>1, <2>2, <2>3, <2>4, <2>5 DEF OneOwner
<1> SUFFICES ASSUME NEW u \in Tasks
             PROVE  (/\ Once(task_queue, u)
                     /\ Queued(u) => ~Polled(u) /\ cell[u] # BOX /\ u \notin taken
                     /\ Polled(u) => cell[u] # BOX /\ u \notin taken
                     /\ u \in taken => cell[u] # BOX
                     /\ fate[u] = "spawned" <=>
                          Queued(u) \/ Polled(u) \/ cell[u] = BOX \/ u \in taken)'
  BY <1>1 DEF OneOwner
<1> DEFINE Goal == (/\ Once(task_queue, u)
                    /\ Queued(u) => ~Polled(u) /\ cell[u] # BOX /\ u \notin taken
                    /\ Polled(u) => cell[u] # BOX /\ u \notin taken
                    /\ u \in taken => cell[u] # BOX
                    /\ fate[u] = "spawned" <=>
                         Queued(u) \/ Polled(u) \/ cell[u] = BOX \/ u \in taken)'
<1>2. ASSUME NEW t \in Tasks, Spawn(t) PROVE Goal
  <2>1. (Queued(u)' <=> Queued(u) \/ u = t) /\ Once(task_queue, u)'
    BY <1>2, AppendMember, AppendOnce DEF Spawn, Queued, OneOwner
  <2>2. Polled(u)' <=> Polled(u)
    BY <1>2 DEF Spawn, Polled
  <2> QED BY <1>2, <2>1, <2>2 DEF Spawn, OneOwner
<1>3. ASSUME NEW t \in Tasks, SendTask(t) PROVE Goal
  <2>1. Polled(u)' <=> Polled(u)
    BY <1>3 DEF SendTask, Polled
  <2>2. CASE ChannelOpen
    <3>1. task_queue' = Append(task_queue, t)
      BY <1>3, <2>2 DEF SendTask
    <3>2. Once(task_queue, u) /\ ~Queued(t)
      BY <1>3 DEF SendTask, OneOwner
    <3>3. (Queued(u)' <=> Queued(u) \/ u = t) /\ Once(task_queue, u)'
      BY <3>1, <3>2, AppendMember, AppendOnce DEF Queued
    <3> QED BY <1>3, <2>1, <2>2, <3>3 DEF SendTask, OneOwner
  <2>3. CASE ~ChannelOpen
    BY <1>3, <2>1, <2>3 DEF SendTask, Queued, OneOwner
  <2> QED BY <2>2, <2>3
<1>4. ASSUME UNCHANGED <<polling, cell, taken>>,
             \/ UNCHANGED task_queue /\ (fate'[u] = "spawned" <=> fate[u] = "spawned")
             \/ /\ task_queue' = <<>>
                /\ fate'[u] = IF Queued(u) THEN "lost" ELSE fate[u]
      PROVE  Goal
  <2>1. Polled(u)' <=> Polled(u)
    BY <1>4 DEF Polled
  <2>2. Queued(u)' <=> (Queued(u) /\ task_queue' = task_queue)
    BY <1>4, EmptyMember DEF Queued
  <2>3. Once(task_queue, u)'
    BY <1>4, EmptyMember DEF OneOwner
  <2>4. CASE UNCHANGED task_queue
    <3>1. fate'[u] = "spawned" <=> fate[u] = "spawned"
      BY <1>4, <2>2, <2>4, EmptyMember DEF Queued
    <3> QED BY <1>4, <2>1, <2>2, <2>3, <2>4, <3>1 DEF OneOwner
  <2>5. CASE task_queue' = <<>> /\ fate'[u] = IF Queued(u) THEN "lost" ELSE fate[u]
    <3>1. ~Queued(u)'
      BY <2>5, EmptyMember DEF Queued
    <3> QED BY <1>4, <2>1, <2>3, <2>5, <3>1 DEF OneOwner
  <2> QED BY <1>4, <2>4, <2>5
<1>5. ASSUME NEW w \in Workers, ThreadExit(w) PROVE Goal
  <2>1. u \notin static_pending[w] /\ ~Contains(static_ready[w], u)
    BY DEF Contains
  <2> QED BY <1>4, <1>5, <2>1 DEF ThreadExit
<1>6. CASE DropExecutor
  BY <1>4, <1>6 DEF DropExecutor, Discard
<1>7. ASSUME NEW w \in Workers, RecvTask(w) PROVE Goal
  <2> DEFINE t == Head(task_queue)
  <2>1. /\ Queued(u)' <=> Queued(u) /\ u # t
        /\ Once(task_queue, u)' /\ t \in Tasks /\ Queued(t)
    BY <1>7, TailMember DEF RecvTask, Queued, OneOwner
  <2>2. Polled(u)' <=> Polled(u) \/ u = t
    BY <1>7, PolledAfterStart DEF RecvTask, StartPoll
  <2> QED BY <1>7, <2>1, <2>2 DEF RecvTask, StartPoll, OneOwner
<1>8. ASSUME NEW w \in Workers, RunStatic(w) PROVE Goal
  <2>1. Head(static_ready[w]) \in StaticTasks
    BY <1>8, ReadyHead DEF RunStatic
  <2>2. Polled(u)' <=> Polled(u)
    BY <1>8, <2>1, PolledAfterStart DEF RunStatic, StartPoll
  <2> QED BY <1>8, <2>1, <2>2 DEF RunStatic, StartPoll, Queued, OneOwner
<1>9. ASSUME NEW w \in Workers, PollReady(w) \/ PollPanic(w) PROVE Goal
  <2>1. Polled(u)' <=> Polled(u) /\ u # polling[w]
    BY <1>9, PolledAfterEnd DEF PollReady, PollPanic, PollReturns
  <2>2. polling[w] = u => Polled(u)
    BY DEF Polled
  <2> QED BY <1>9, <2>1, <2>2 DEF PollReady, PollPanic, Queued, OneOwner
<1>10. ASSUME NEW w \in Workers, PollPending(w) PROVE Goal
  <2> DEFINE t == polling[w]
  <2>1. Polled(u)' <=> Polled(u) /\ u # t
    BY <1>10, PolledAfterEnd DEF PollPending, PollReturns
  <2>2. t \in Tasks /\ Polled(t)
    BY <1>10 DEF PollPending, Polled
  <2>3. CASE cell[t] = WOKEN
    <3>1. (Queued(u)' <=> Queued(u) \/ u = t) /\ Once(task_queue, u)'
      BY <1>10, <2>2, <2>3, AppendMember, AppendOnce
         DEF PollPending, Queued, OneOwner
    <3> QED BY <1>10, <2>1, <2>2, <2>3, <3>1 DEF PollPending, CheckWake, OneOwner
  <2>4. CASE cell[t] # WOKEN
    BY <1>10, <2>1, <2>2, <2>4 DEF PollPending, CheckWake, Queued, OneOwner
  <2> QED BY <2>3, <2>4
<1>11. ASSUME NEW w \in Workers, StaticPending(w) PROVE Goal
  <2>1. Polled(u)' <=> Polled(u)
    BY <1>11, PolledAfterEnd DEF StaticPending, PollReturns
  <2> QED BY <1>11, <2>1 DEF StaticPending, CheckWake, Queued, OneOwner
<1>12. ASSUME NEW t \in All, Wake(t) PROVE Goal
  BY <1>12 DEF Wake, Queued, Polled, OneOwner
<1>13. ASSUME NEW t \in StaticTasks, SendId(t) PROVE Goal
  BY <1>13 DEF SendId, Queued, Polled, OneOwner
<1>14. ASSUME NEW w \in Workers, NEW t \in StaticTasks, SpawnStatic(w, t)
       PROVE  Goal
  BY <1>4, <1>14 DEF SpawnStatic
<1>15. ASSUME NEW w \in Workers, RecvStatic(w) \/ RecvShutdown(w)
                 \/ RecvDisconnected(w) \/ Moves(w)
       PROVE  Goal
  BY <1>4, <1>15
     DEF RecvStatic, RecvShutdown, RecvDisconnected, Pass
<1>16. CASE UNCHANGED vars \/ \E n \in Sizes : Resize(n)
  BY <1>4, <1>16 DEF vars, Resize
<1> QED
  BY <1>2, <1>3, <1>5, <1>6, <1>7, <1>8, <1>9, <1>10, <1>11, <1>12, <1>13,
     <1>14, <1>15, <1>16 DEF Next, WorkerStep, Receive, PollEnds

-----------------------------------------------------------------------------
(* Static tasks.  What StaticOwner says of one task and one worker. *)

StaticPlace(w, t) ==
  /\ Once(static_ready[w], t) /\ Once(static_queue[w], t)
  /\ Ready(w, t) => polling[w] # t /\ t \notin static_pending[w]
  /\ polling[w] = t => t \notin static_pending[w]
  /\ Ready(w, t) \/ polling[w] = t => cell[t] # BOX /\ t \notin taken
  /\ Sent(w, t) =>
       t \in static_pending[w] /\ cell[t] = WOKEN /\ t \notin taken
  /\ t \in static_pending[w] =>
       \/ cell[t] = BOX /\ t \notin taken
       \/ cell[t] = WOKEN /\ (t \in taken \/ Sent(w, t))
  /\ Holds(w, t) => /\ fate[t] = "spawned"
                    /\ \A v \in Workers : Holds(v, t) => v = w

StaticKept(t) == fate[t] = "spawned" => \E w \in Workers : Holds(w, t)

StaticGood(t) == StaticKept(t) /\ \A w \in Workers : StaticPlace(w, t)

LEMMA StaticOwnerIff == StaticOwner <=> \A t \in StaticTasks : StaticGood(t)
BY DEF StaticOwner, StaticPlace, StaticKept, StaticGood

(* A step that leaves everything about a static task as it was. *)
LEMMA StaticFrame ==
  ASSUME NEW u \in StaticTasks, StaticGood(u),
         \A x \in Workers :
           /\ Ready(x, u)' <=> Ready(x, u)
           /\ Once(static_ready[x], u)'
           /\ Sent(x, u)' <=> Sent(x, u)
           /\ Once(static_queue[x], u)'
           /\ polling'[x] = u <=> polling[x] = u
           /\ u \in static_pending'[x] <=> u \in static_pending[x],
         cell'[u] = cell[u], u \in taken' <=> u \in taken,
         fate'[u] = "spawned" <=> fate[u] = "spawned"
  PROVE  StaticGood(u)'
BY DEF StaticGood, StaticPlace, StaticKept, Holds

(* A step that changes no channel or map of a thread. *)
LEMMA StaticFrameSame ==
  ASSUME NEW u \in StaticTasks, StaticGood(u), UNCHANGED staticVars,
         \A x \in Workers : polling'[x] = u <=> polling[x] = u,
         cell'[u] = cell[u], u \in taken' <=> u \in taken,
         fate'[u] = "spawned" <=> fate[u] = "spawned"
  PROVE  StaticGood(u)'
<1>1. \A x \in Workers :
        /\ Ready(x, u)' <=> Ready(x, u)
        /\ Once(static_ready[x], u)'
        /\ Sent(x, u)' <=> Sent(x, u)
        /\ Once(static_queue[x], u)'
        /\ u \in static_pending'[x] <=> u \in static_pending[x]
  BY DEF Ready, Sent, staticVars, StaticGood, StaticPlace
<1> QED
  BY <1>1, StaticFrame

LEMMA StaticOwnerStep ==
  ASSUME IInv, [Next]_vars
  PROVE  StaticOwner'
<1> SUFFICES ASSUME NEW u \in StaticTasks PROVE StaticGood(u)'
  BY StaticOwnerIff DEF StaticOwner, StaticPlace, StaticKept, StaticGood
<1>1. StaticGood(u)
  BY StaticOwnerIff DEF IInv
<1> USE PoolAssumption DEF IInv, TypeOK, All, poolVars, wakeVars, countVars
(* Steps of other parts of the pool. *)
<1>2. ASSUME NEW t \in Tasks, Spawn(t) \/ SendTask(t) PROVE StaticGood(u)'
  <2>1. u # t
    OBVIOUS
  <2>2. CASE Spawn(t)
    BY <1>1, <2>1, <2>2, StaticFrameSame DEF Spawn
  <2>3. CASE SendTask(t)
    <3>1. fate'[u] = fate[u] /\ UNCHANGED <<staticVars, cell, polling>>
      BY <2>1, <2>3 DEF SendTask
    <3>2. u \in taken' <=> u \in taken
      BY <2>1, <2>3 DEF SendTask
    <3> QED BY <1>1, <3>1, <3>2, StaticFrameSame
  <2> QED BY <1>2, <2>2, <2>3
<1>3. ASSUME NEW n \in Sizes, Resize(n) PROVE StaticGood(u)'
  BY <1>1, <1>3, StaticFrameSame DEF Resize
<1>4. ~Queued(u)
  BY DEF Queued, Contains
<1>5. CASE DropExecutor
  BY <1>1, <1>4, <1>5, StaticFrameSame DEF DropExecutor, Discard
<1>6. ASSUME NEW w \in Workers, RecvShutdown(w) \/ RecvDisconnected(w)
                  \/ Moves(w)
      PROVE  StaticGood(u)'
  BY <1>1, <1>6, StaticFrameSame
     DEF RecvShutdown, RecvDisconnected, Pass
<1>7. ASSUME NEW w \in Workers, RecvTask(w) PROVE StaticGood(u)'
  BY <1>1, <1>7, QueueHead, StaticFrameSame
     DEF RecvTask, StartPoll, PollInv
<1>8. ASSUME NEW w \in Workers, PollPending(w) PROVE StaticGood(u)'
  BY <1>1, <1>8, StaticFrameSame DEF PollPending, PollReturns, CheckWake
<1>9. ASSUME NEW t \in Tasks, Wake(t) PROVE StaticGood(u)'
  BY <1>1, <1>9, StaticFrameSame DEF Wake
<1>10. CASE UNCHANGED vars
  BY <1>1, <1>10, StaticFrameSame DEF vars
(* Steps of the static task. *)
<1>11. ASSUME NEW w \in Workers, NEW t \in StaticTasks, SpawnStatic(w, t)
       PROVE  StaticGood(u)'
  <2>1. ASSUME NEW x \in Workers
        PROVE  /\ Ready(x, u)' <=> Ready(x, u) \/ (x = w /\ u = t)
               /\ Sent(x, u)' <=> Sent(x, u)
               /\ Once(static_queue[x], u)'
               /\ u = t => ~Holds(x, u) /\ ~Sent(x, u)
               /\ Once(static_ready[x], u)'
    <3>1. u = t => ~Holds(x, u) /\ ~Sent(x, u)
      BY <1>1, <1>11 DEF SpawnStatic, StaticGood, StaticPlace, Holds
    <3>2. CASE x = w
      <4>1. /\ static_ready'[w] = Append(static_ready[w], t)
            /\ static_queue'[w] = Append(static_queue[w], NEW_TASK)
        BY <1>11 DEF SpawnStatic
      <4>2. /\ Once(static_ready[w], u) /\ Once(static_queue[w], u)
            /\ u = t => ~Contains(static_ready[w], u)
        BY <1>1, <3>1, <3>2 DEF StaticGood, StaticPlace, Holds, Ready
      <4>3. /\ Contains(static_ready'[w], u) <=> Contains(static_ready[w], u) \/ u = t
            /\ Once(static_ready'[w], u)
        BY <4>1, <4>2, AppendMember, AppendOnce
      <4>4. /\ Contains(static_queue'[w], u) <=> Contains(static_queue[w], u)
            /\ Once(static_queue'[w], u)
        <5>1. /\ u # NEW_TASK /\ NEW_TASK \in Ids
              /\ static_queue[w] \in Seq(Ids)
          BY DEF Ids
        <5> QED BY <4>1, <4>2, <5>1, AppendMember, AppendOnce
      <4> QED BY <3>1, <3>2, <4>3, <4>4 DEF Ready, Sent
    <3>3. CASE x # w
      BY <1>1, <1>11, <3>1, <3>3
         DEF SpawnStatic, StaticGood, StaticPlace, Ready, Sent
    <3> QED BY <3>2, <3>3
  <2>2. CASE u = t
    <3>1. cell[u] # BOX /\ u \notin taken
      BY <1>11, <2>2 DEF SpawnStatic, FreshInv
    <3> QED
      BY <1>11, <2>1, <2>2, <3>1
         DEF SpawnStatic, StaticGood, StaticPlace, StaticKept, Holds
  <2>3. CASE u # t
    BY <1>1, <1>11, <2>1, <2>3, StaticFrame DEF SpawnStatic
  <2> QED BY <2>2, <2>3
<1>12. ASSUME NEW w \in Workers, RunStatic(w) PROVE StaticGood(u)'
  <2> DEFINE t == Head(static_ready[w])
  <2>1. t \in StaticTasks /\ Ready(w, t) /\ polling[w] = NULL
    BY <1>12, ReadyHead DEF RunStatic, PollInv
  <2>2. ASSUME NEW x \in Workers
        PROVE  /\ Ready(x, u)' <=> Ready(x, u) /\ ~(x = w /\ u = t)
               /\ Once(static_ready[x], u)'
    <3>1. CASE x = w
      <4>1. /\ static_ready[w] \in Seq(StaticTasks) /\ static_ready[w] # <<>>
            /\ static_ready'[w] = Tail(static_ready[w])
            /\ Once(static_ready[w], u)
        BY <1>1, <1>12 DEF RunStatic, StaticGood, StaticPlace
      <4> QED BY <3>1, <4>1, TailMember DEF Ready
    <3>2. CASE x # w
      BY <1>1, <1>12, <3>2 DEF RunStatic, StaticGood, StaticPlace, Ready
    <3> QED BY <3>1, <3>2
  <2>3. \A x \in Workers :
          (Sent(x, u)' <=> Sent(x, u)) /\ Once(static_queue[x], u)'
    BY <1>1, <1>12 DEF RunStatic, StaticGood, StaticPlace, Sent
  <2>4. CASE u = t
    BY <1>1, <1>12, <2>1, <2>2, <2>3, <2>4
       DEF RunStatic, StartPoll, StaticGood, StaticPlace, StaticKept, Holds
  <2>5. CASE u # t
    <3>1. \A x \in Workers : polling'[x] = u <=> polling[x] = u
      BY <1>12, <2>1, <2>5 DEF RunStatic, StartPoll
    <3> QED
      BY <1>1, <1>12, <2>1, <2>2, <2>3, <2>5, <3>1, StaticFrame
         DEF RunStatic, StartPoll
  <2> QED BY <2>4, <2>5
<1>13. ASSUME NEW w \in Workers, PollReady(w) \/ PollPanic(w)
       PROVE  StaticGood(u)'
  <2>1. /\ polling' = [polling EXCEPT ![w] = NULL]
        /\ fate'[polling[w]] # "spawned" /\ polling[w] \in All
        /\ \A t \in All \ {polling[w]} : fate'[t] = fate[t]
        /\ UNCHANGED <<staticVars, wakeVars>>
    BY <1>13, PollingSpawned DEF PollReady, PollPanic, PollReturns
  <2>2. CASE u = polling[w]
    <3>1. \A x \in Workers : ~Sent(x, u) /\ (x # w => ~Holds(x, u))
      BY <1>1, <2>2 DEF StaticGood, StaticPlace, Holds
    <3>2. \A x \in Workers : ~Sent(x, u)' /\ ~Holds(x, u)'
      BY <1>1, <2>1, <2>2, <3>1
         DEF Sent, Holds, Ready, staticVars, StaticGood, StaticPlace
    <3> QED
      BY <1>1, <2>1, <2>2, <3>2
         DEF StaticGood, StaticPlace, StaticKept, Holds, staticVars
  <2>3. CASE u # polling[w]
    BY <1>1, <2>1, <2>3, StaticFrameSame
  <2> QED BY <2>2, <2>3
<1>14. ASSUME NEW w \in Workers, StaticPending(w) PROVE StaticGood(u)'
  <2> DEFINE t == polling[w]
  <2>1. /\ t \in StaticTasks /\ UNCHANGED <<static_ready, taken, fate>>
        /\ polling' = [polling EXCEPT ![w] = NULL]
        /\ static_pending' = [static_pending EXCEPT ![w] = @ \cup {t}]
        /\ cell' = [cell EXCEPT ![t] = IF @ = WOKEN THEN WOKEN ELSE BOX]
        /\ static_queue' = IF cell[t] = WOKEN
                           THEN [static_queue EXCEPT ![w] = Append(@, t)]
                           ELSE static_queue
    BY <1>14 DEF StaticPending, PollReturns, CheckWake
  <2>2. StaticGood(t) /\ t \notin taken /\ \A x \in Workers : ~Sent(x, t)
    BY <2>1, StaticOwnerIff DEF StaticGood, StaticPlace, Holds
  <2>3. ASSUME NEW x \in Workers
        PROVE  /\ Sent(x, u)' <=>
                    Sent(x, u) \/ (x = w /\ u = t /\ cell[t] = WOKEN)
               /\ Once(static_queue[x], u)'
    <3>1. CASE x = w /\ cell[t] = WOKEN
      <4>1. /\ static_queue[w] \in Seq(Ids)
            /\ t \in Ids
            /\ static_queue'[w] = Append(static_queue[w], t)
            /\ Once(static_queue[w], u)
        BY <1>1, <2>1, <3>1 DEF StaticGood, StaticPlace, Ids
      <4>2. u = t => ~Contains(static_queue[w], u)
        BY <2>2 DEF Sent
      <4> HIDE DEF t
      <4>3. /\ Contains(static_queue'[w], u) <=> Contains(static_queue[w], u) \/ u = t
            /\ Once(static_queue'[w], u)
        BY <4>1, <4>2, AppendMember, AppendOnce
      <4> QED BY <3>1, <4>3 DEF Sent
    <3>2. CASE ~(x = w /\ cell[t] = WOKEN)
      BY <1>1, <2>1, <3>2 DEF Sent, StaticGood, StaticPlace
    <3> QED BY <3>1, <3>2
  <2>4. \A x \in Workers :
          (Ready(x, u)' <=> Ready(x, u)) /\ Once(static_ready[x], u)'
    BY <1>1, <2>1 DEF Ready, StaticGood, StaticPlace
  <2>5. CASE u = t
    BY <2>1, <2>2, <2>3, <2>4, <2>5
       DEF StaticGood, StaticPlace, StaticKept, Holds
  <2>6. CASE u # t
    BY <1>1, <2>1, <2>3, <2>4, <2>6, StaticFrame
  <2> QED BY <2>5, <2>6
<1>15. ASSUME NEW w \in Workers, RecvStatic(w) PROVE StaticGood(u)'
  <2> DEFINE id == Head(static_queue[w])
  <2>1. static_queue[w] \in Seq(Ids) /\ static_queue[w] # <<>>
    BY <1>15 DEF RecvStatic
  <2>2. u = id => u \in static_pending[w] /\ Sent(w, u)
    BY <1>1, <2>1, TailMember DEF Sent, StaticGood, StaticPlace
  <2>3. ASSUME NEW x \in Workers
        PROVE  /\ Sent(x, u)' <=> Sent(x, u) /\ ~(x = w /\ u = id)
               /\ Once(static_queue[x], u)'
    <3>1. CASE x = w
      <4>1. static_queue'[w] = Tail(static_queue[w]) /\ Once(static_queue[w], u)
        BY <1>1, <1>15 DEF RecvStatic, StaticGood, StaticPlace
      <4> QED BY <2>1, <3>1, <4>1, TailMember DEF Sent
    <3>2. CASE x # w
      BY <1>1, <1>15, <3>2 DEF RecvStatic, Sent, StaticGood, StaticPlace
    <3> QED BY <3>1, <3>2
  <2>4. UNCHANGED <<polling, cell, taken, fate>>
    BY <1>15 DEF RecvStatic
  <2>5. ASSUME NEW x \in Workers
        PROVE  /\ Ready(x, u)' <=> Ready(x, u) \/ (x = w /\ u = id)
               /\ Once(static_ready[x], u)'
               /\ u \in static_pending'[x] <=>
                    u \in static_pending[x] /\ ~(x = w /\ u = id)
    <3>1. CASE x = w /\ id \in static_pending[w]
      <4>1. /\ static_ready'[w] = Append(static_ready[w], id)
            /\ static_pending'[w] = static_pending[w] \ {id}
        BY <1>15, <3>1 DEF RecvStatic
      <4>2. /\ static_ready[w] \in Seq(StaticTasks) /\ id \in StaticTasks
            /\ Once(static_ready[w], u)
        BY <1>1, <3>1 DEF StaticGood, StaticPlace
      <4>3. u = id => ~Contains(static_ready[w], u)
        BY <1>1, <2>2 DEF StaticGood, StaticPlace, Ready
      <4> HIDE DEF id
      <4>4. /\ Contains(static_ready'[w], u) <=> Contains(static_ready[w], u) \/ u = id
            /\ Once(static_ready'[w], u)
        BY <4>1, <4>2, <4>3, AppendMember, AppendOnce
      <4> QED BY <3>1, <4>1, <4>4 DEF Ready
    <3>2. CASE ~(x = w /\ id \in static_pending[w])
      <4>1. static_ready'[x] = static_ready[x] /\ static_pending'[x] = static_pending[x]
        BY <1>15, <3>2 DEF RecvStatic
      <4> QED BY <1>1, <2>2, <3>2, <4>1 DEF Ready, StaticGood, StaticPlace
    <3> QED BY <3>1, <3>2
  <2>6. CASE u = id
    <3> HIDE DEF id
    <3> QED
      BY <1>1, <2>2, <2>3, <2>4, <2>5, <2>6
         DEF StaticGood, StaticPlace, StaticKept, Holds
  <2>7. CASE u # id
    <3> HIDE DEF id
    <3> QED BY <1>1, <2>3, <2>4, <2>5, <2>7, StaticFrame
  <2> QED BY <2>6, <2>7
<1>16. ASSUME NEW w \in Workers, ThreadExit(w) PROVE StaticGood(u)'
  <2>1. /\ UNCHANGED <<polling, cell, taken>> /\ polling[w] = NULL
        /\ static_queue' = [static_queue EXCEPT ![w] = <<>>]
        /\ static_ready' = [static_ready EXCEPT ![w] = <<>>]
        /\ static_pending' = [static_pending EXCEPT ![w] = {}]
        /\ fate'[u] = IF Ready(w, u) \/ u \in static_pending[w] THEN "lost"
                                                              ELSE fate[u]
    BY <1>4, <1>16 DEF ThreadExit, PollInv, Ready
  <2>2. ASSUME NEW x \in Workers
        PROVE  /\ Ready(x, u)' <=> Ready(x, u) /\ x # w
               /\ Sent(x, u)' <=> Sent(x, u) /\ x # w
               /\ u \in static_pending'[x] <=> u \in static_pending[x] /\ x # w
               /\ Once(static_ready[x], u)' /\ Once(static_queue[x], u)'
    <3>1. CASE x = w
      BY <2>1, <3>1, EmptyMember DEF Ready, Sent
    <3>2. CASE x # w
      BY <1>1, <2>1, <3>2 DEF Ready, Sent, StaticGood, StaticPlace
    <3> QED BY <3>1, <3>2
  <2>3. CASE Holds(w, u)
    <3>1. \A x \in Workers : ~Holds(x, u)' /\ ~Sent(x, u)'
      BY <1>1, <2>1, <2>2, <2>3 DEF Holds, StaticGood, StaticPlace
    <3>2. fate'[u] = "lost"
      BY <2>1, <2>3 DEF Holds
    <3> QED
      BY <2>2, <3>1, <3>2 DEF StaticGood, StaticPlace, StaticKept, Holds
  <2>4. CASE ~Holds(w, u)
    <3>1. ~Ready(w, u) /\ ~Sent(w, u) /\ u \notin static_pending[w]
      BY <1>1, <2>4 DEF Holds, StaticGood, StaticPlace
    <3> QED BY <1>1, <2>1, <2>2, <3>1, StaticFrame
  <2> QED BY <2>3, <2>4
<1>17. ASSUME NEW t \in StaticTasks, Wake(t) PROVE StaticGood(u)'
  <2>1. CASE u # t
    BY <1>1, <1>17, <2>1, StaticFrameSame DEF Wake
  <2>2. CASE u = t
    <3>1. \A x \in Workers :
            /\ Ready(x, u)' <=> Ready(x, u)
            /\ Once(static_ready[x], u)' /\ Once(static_queue[x], u)'
            /\ Sent(x, u)' <=> Sent(x, u)
            /\ ~Sent(x, u) /\ static_pending' = static_pending
      BY <1>1, <1>17, <2>2
         DEF Wake, Ready, Sent, staticVars, StaticGood, StaticPlace
    <3>2. /\ polling' = polling /\ fate' = fate /\ cell'[u] = WOKEN
          /\ cell[u] = BOX => u \in taken'
          /\ cell[u] # BOX => (u \in taken' <=> u \in taken)
      BY <1>17, <2>2 DEF Wake
    <3>3. cell[u] # WOKEN
      BY <1>17, <2>2 DEF Wake
    <3> QED
      BY <1>1, <3>1, <3>2, <3>3 DEF StaticGood, StaticPlace, StaticKept, Holds
  <2> QED BY <2>1, <2>2
<1>18. ASSUME NEW t \in StaticTasks, SendId(t) PROVE StaticGood(u)'
  <2>1. /\ UNCHANGED <<polling, static_ready, static_pending, cell, fate>>
        /\ t \in taken /\ taken' = taken \ {t}
    BY <1>18 DEF SendId
  <2>2. \A x \in Workers : t \in static_pending[x] => cell[t] = WOKEN /\ ~Sent(x, t)
    BY <2>1, StaticOwnerIff DEF StaticGood, StaticPlace
  <2>3. ASSUME NEW x \in Workers
        PROVE  /\ Sent(x, u)' <=>
                    Sent(x, u) \/ (u = t /\ t \in static_pending[x])
               /\ Once(static_queue[x], u)'
    <3>0. t \in static_pending[x] <=> sender[t] = x /\ x \in Running
      BY <2>1 DEF SenderInv, SenderPlace, Running
    <3>1. CASE t \in static_pending[x]
      <4>1. /\ static_queue[x] \in Seq(Ids) /\ t \in Ids
            /\ static_queue'[x] = Append(static_queue[x], t)
            /\ Once(static_queue[x], u)
        BY <1>1, <1>18, <3>0, <3>1 DEF SendId, Ids, StaticGood, StaticPlace
      <4>2. u = t => ~Contains(static_queue[x], u)
        BY <2>2, <3>1 DEF Sent
      <4> QED BY <3>1, <4>1, <4>2, AppendMember, AppendOnce DEF Sent
    <3>2. CASE t \notin static_pending[x]
      BY <1>1, <1>18, <3>0, <3>2 DEF SendId, Sent, StaticGood, StaticPlace
    <3> QED BY <3>1, <3>2
  <2>4. \A x \in Workers :
          (Ready(x, u)' <=> Ready(x, u)) /\ Once(static_ready[x], u)'
    BY <1>1, <2>1 DEF Ready, StaticGood, StaticPlace
  <2>5. CASE u # t
    BY <1>1, <2>1, <2>3, <2>4, <2>5, StaticFrame
  <2>6. CASE u = t
    BY <1>1, <2>1, <2>2, <2>3, <2>4, <2>6
       DEF StaticGood, StaticPlace, StaticKept, Holds
  <2> QED BY <2>5, <2>6
<1> QED
  BY <1>2, <1>3, <1>5, <1>6, <1>7, <1>8, <1>9, <1>10, <1>11, <1>12, <1>13,
     <1>14, <1>15, <1>16, <1>17, <1>18
     DEF Next, WorkerStep, Receive, PollEnds

(* What SenderInv says of a task is disturbed only where it is suspended,  *)
(* woken up or dropped.                                                    *)
LEMMA SenderFrame ==
  ASSUME NEW u \in StaticTasks, SenderPlace(u), sender'[u] = sender[u],
         cell'[u] = BOX \/ u \in taken' => cell[u] = BOX \/ u \in taken,
         \A x \in Workers :
           /\ u \in static_pending'[x] <=> u \in static_pending[x]
           /\ thread'[x] = "exited" <=> thread[x] = "exited"
           /\ thread'[x] = "none" => thread[x] = "none"
  PROVE  SenderPlace(u)'
BY DEF SenderPlace, Running

LEMMA SenderStep ==
  ASSUME IInv, [Next]_vars
  PROVE  SenderInv'
<1> SUFFICES ASSUME NEW u \in StaticTasks PROVE SenderPlace(u)'
  BY DEF SenderInv
<1> USE PoolAssumption DEF IInv, TypeOK, All, poolVars, staticVars, wakeVars,
    countVars
<1>1. SenderPlace(u) /\ StaticGood(u)
  BY StaticOwnerIff DEF SenderInv
<1>2. CASE \/ \E t \in Tasks : Spawn(t) \/ SendTask(t)
           \/ DropExecutor
           \/ \E w \in Workers, t \in StaticTasks : SpawnStatic(w, t)
           \/ \E t \in StaticTasks : SendId(t)
           \/ UNCHANGED vars
  <2>1. /\ UNCHANGED <<sender, static_pending, cell, thread>>
        /\ taken' \subseteq taken
    BY <1>2 DEF Spawn, SendTask, DropExecutor, SpawnStatic, SendId, vars
  <2> QED BY <1>1, <2>1, SenderFrame
<1>3. ASSUME NEW n \in Sizes, Resize(n) PROVE SenderPlace(u)'
  <2>1. /\ UNCHANGED <<sender, static_pending, cell, taken>>
        /\ \A x \in Workers :
             thread'[x] = thread[x] \/ (thread[x] = "none" /\ thread'[x] = "select")
    BY <1>3 DEF Resize, Grow, Shrink
  <2> QED BY <1>1, <2>1, SenderFrame
<1>4. ASSUME NEW w \in Workers,
             \/ Moves(w) \/ RecvTask(w) \/ RecvShutdown(w) \/ RecvDisconnected(w)
             \/ RunStatic(w) \/ PollReady(w) \/ PollPanic(w) \/ PollPending(w)
      PROVE  SenderPlace(u)'
  <2>1. /\ UNCHANGED <<sender, static_pending, taken>>
        /\ thread[w] \notin {"none", "exited"}
        /\ \E s \in ThreadState \ {"none", "exited"} :
             thread' = [thread EXCEPT ![w] = s]
    BY <1>4 DEF Pass, RecvTask, RecvShutdown, RecvDisconnected, RunStatic,
       PollReady, PollPanic, PollPending, PollReturns, StartPoll, ThreadState
  <2>2. cell'[u] = BOX => cell[u] = BOX
    <3>1. ASSUME NEW t, StartPoll(w, t) PROVE cell'[u] = BOX => cell[u] = BOX
      BY <3>1 DEF StartPoll
    <3>2. CASE PollPending(w)
      <4>1. polling[w] # u
        BY <3>2 DEF PollPending
      <4> QED BY <3>2, <4>1 DEF PollPending, CheckWake
    <3>3. RecvTask(w) \/ RunStatic(w) => \E t : StartPoll(w, t)
      BY DEF RecvTask, RunStatic
    <3> QED
      BY <1>4, <3>1, <3>2, <3>3
         DEF Pass, RecvShutdown, RecvDisconnected, PollReady, PollPanic
  <2> QED BY <1>1, <2>1, <2>2, SenderFrame
<1>5. ASSUME NEW w \in Workers, RecvStatic(w) PROVE SenderPlace(u)'
  <2> DEFINE id == Head(static_queue[w])
  <2>1. /\ UNCHANGED <<sender, cell, taken>>
        /\ thread' = [thread EXCEPT ![w] = "static"]
        /\ thread[w] \in {"select", "blocked"}
        /\ \A x \in Workers : u \in static_pending'[x] <=>
             u \in static_pending[x] /\ ~(x = w /\ u = id)
    BY <1>5 DEF RecvStatic
  <2>2. u = id => cell[u] = WOKEN /\ u \notin taken
    BY <1>1, <1>5, TailMember DEF RecvStatic, Sent, StaticGood, StaticPlace
  <2> HIDE DEF id
  <2>3. CASE u = id
    BY <1>1, <2>1, <2>2, <2>3 DEF SenderPlace, Running
  <2>4. CASE u # id
    BY <1>1, <2>1, <2>4, SenderFrame
  <2> QED BY <2>3, <2>4
<1>6. ASSUME NEW w \in Workers, StaticPending(w) PROVE SenderPlace(u)'
  <2>1. /\ polling[w] \in StaticTasks /\ UNCHANGED taken
        /\ sender' = [sender EXCEPT ![polling[w]] = w]
        /\ static_pending' = [static_pending EXCEPT ![w] = @ \cup {polling[w]}]
        /\ thread[w] = "poll" /\ thread' = [thread EXCEPT ![w] = "static"]
        /\ \A t \in All \ {polling[w]} : cell'[t] = cell[t]
    BY <1>6 DEF StaticPending, PollReturns, CheckWake
  <2>2. CASE u = polling[w]
    <3>1. \A x \in Workers : u \notin static_pending[x]
      BY <1>1, <2>2 DEF StaticGood, StaticPlace, Holds
    <3> QED BY <2>1, <2>2, <3>1 DEF SenderPlace, Running
  <2>3. CASE u # polling[w]
    BY <1>1, <2>1, <2>3, SenderFrame
  <2> QED BY <2>2, <2>3
<1>7. ASSUME NEW w \in Workers, ThreadExit(w) PROVE SenderPlace(u)'
  <2>1. /\ UNCHANGED <<sender, cell, taken>>
        /\ thread' = [thread EXCEPT ![w] = "exited"]
        /\ static_pending' = [static_pending EXCEPT ![w] = {}]
    BY <1>7 DEF ThreadExit
  <2> QED BY <1>1, <2>1 DEF SenderPlace, Running
<1>8. ASSUME NEW t \in All, Wake(t) PROVE SenderPlace(u)'
  <2>1. /\ UNCHANGED <<sender, static_pending, thread>>
        /\ cell'[u] = BOX \/ u \in taken' => cell[u] = BOX \/ u \in taken
    BY <1>8 DEF Wake
  <2> QED BY <1>1, <2>1, SenderFrame
<1> QED
  BY <1>2, <1>3, <1>4, <1>5, <1>6, <1>7, <1>8
     DEF Next, WorkerStep, Receive, PollEnds

-----------------------------------------------------------------------------
LEMMA Inductive == Spec => []IInv
<1>1. Init => IInv
  <2> SUFFICES ASSUME Init PROVE IInv
    OBVIOUS
  <2> USE PoolAssumption DEF Init
  <2>1. TypeOK
    BY FS_Subset, FS_CardinalityType
       DEF TypeOK, ThreadState, Fate, requested_threads
  <2>2. PollInv /\ FreshInv /\ BudgetInv
    BY DEF PollInv, FreshInv, BudgetInv
  <2>3. OneOwner
    BY EmptyMember DEF OneOwner, Queued, Polled, All
  <2>4. StaticOwner /\ SenderInv
    BY EmptyMember DEF StaticOwner, SenderInv, SenderPlace, Ready, Sent, Holds, All
  <2>5. CounterExact
    <3>1. Counted = {}
      BY DEF Counted
    <3> QED BY <3>1, FS_EmptySet DEF CounterExact
  <2> QED BY <2>1, <2>2, <2>3, <2>4, <2>5 DEF IInv
<1>2. IInv /\ [Next]_vars => IInv'
  BY TypeStep, PollStep, BudgetStep, FreshStep, OneOwnerStep, StaticOwnerStep,
     SenderStep, CounterStep DEF IInv
<1> QED
  BY <1>1, <1>2, PTL DEF Spec

(* Every variable keeps its type; running_tasks never goes below zero.     *)
THEOREM TypeCorrect == Spec => []TypeOK
<1>1. IInv => TypeOK
  BY DEF IInv
<1> QED
  BY <1>1, Inductive, PTL

(* A spawned task is in one place, and nothing else owns it.               *)
THEOREM TaskOwned == Spec => []OneOwner
<1>1. IInv => OneOwner
  BY DEF IInv
<1> QED
  BY <1>1, Inductive, PTL

(* A static task is on one thread, and a pending one has exactly one way   *)
(* of becoming ready again.                                                *)
THEOREM StaticTaskOwned == Spec => []StaticOwner
<1>1. IInv => StaticOwner
  BY DEF IInv
<1> QED
  BY <1>1, Inductive, PTL

(* running_tasks is the number of spawned tasks whose last poll has not    *)
(* returned, through resizes, panics and the drop of the executor.         *)
THEOREM CounterCorrect == Spec => []CounterExact
<1>1. IInv => CounterExact
  BY DEF IInv
<1> QED
  BY <1>1, Inductive, PTL

-----------------------------------------------------------------------------
(* A worker does not park next to a ready static task.                     *)

(* Where a static task may be made ready although the inner loop is not    *)
(* running, it is announced.  Threads that do not exist have none.         *)
Announced(w) ==
  /\ thread[w] = "none" => static_ready[w] = <<>>
  /\ thread[w] \in Selecting \/ polling[w] \in Tasks =>
       (static_ready[w] # <<>> => Contains(static_queue[w], NEW_TASK))

AnnounceInv == \A w \in Workers : Announced(w)

LEMMA AnnouncedFrame ==
  ASSUME NEW w \in Workers, Announced(w),
         thread'[w] \in Selecting \/ polling'[w] \in Tasks =>
           \/ thread[w] \in Selecting \cup {"none"}
           \/ polling[w] \in Tasks,
         thread'[w] = "none" => thread[w] = "none",
         static_ready'[w] = static_ready[w],
         Contains(static_queue[w], NEW_TASK) => Contains(static_queue'[w], NEW_TASK)
  PROVE  Announced(w)'
BY DEF Announced

LEMMA AnnounceStep ==
  ASSUME IInv, AnnounceInv, [Next]_vars
  PROVE  AnnounceInv'
<1> SUFFICES ASSUME NEW v \in Workers PROVE Announced(v)'
  BY DEF AnnounceInv
<1> USE PoolAssumption DEF IInv, poolVars, staticVars, wakeVars, countVars
<1>1. Announced(v)
  BY DEF AnnounceInv
<1>2. ASSUME NEW n \in Sizes, Resize(n) PROVE Announced(v)'
  <2>1. /\ UNCHANGED <<static_ready, static_queue, polling>>
        /\ \/ thread'[v] = thread[v]
           \/ thread[v] = "none" /\ thread'[v] = "select"
    BY <1>2 DEF Resize, Grow, Shrink, TypeOK
  <2> QED BY <1>1, <2>1, AnnouncedFrame
<1>3. ASSUME NEW w \in Workers, RecvStatic(w) PROVE Announced(v)'
  <2>1. CASE v = w
    <3>1. thread'[v] = "static" /\ polling'[v] = NULL
      BY <1>3, <2>1 DEF RecvStatic, PollInv, TypeOK
    <3> QED BY <3>1 DEF Announced, All
  <2>2. CASE v # w
    <3>1. /\ thread'[v] = thread[v] /\ polling'[v] = polling[v]
          /\ static_ready'[v] = static_ready[v]
          /\ static_queue'[v] = static_queue[v]
      BY <1>3, <2>2 DEF RecvStatic, TypeOK
    <3> QED BY <1>1, <3>1, AnnouncedFrame
  <2> QED BY <2>1, <2>2
<1>4. ASSUME NEW w \in Workers, RunStatic(w) PROVE Announced(v)'
  <2>1. CASE v = w
    <3>1. polling'[v] \in StaticTasks /\ thread'[v] = "poll"
      BY <1>4, <2>1, ReadyHead DEF RunStatic, StartPoll, TypeOK
    <3> QED BY <3>1 DEF Announced
  <2>2. CASE v # w
    BY <1>1, <1>4, <2>2, AnnouncedFrame DEF RunStatic, StartPoll, TypeOK
  <2> QED BY <2>1, <2>2
<1>5. ASSUME NEW w \in Workers, Moves(w) PROVE Announced(v)'
  <2>1. /\ UNCHANGED <<staticVars, polling>>
        /\ \/ thread'[v] = thread[v]
           \/ thread'[v] \in Selecting /\ thread[v] \in Selecting
           \/ thread[v] = "static" /\ static_ready[v] = <<>>
    BY <1>5 DEF Pass, TypeOK
  <2> QED BY <1>1, <1>5, <2>1, AnnouncedFrame DEF Announced, Pass, TypeOK
<1>6. ASSUME NEW w \in Workers, RecvTask(w) PROVE Announced(v)'
  <2>1. thread[w] \in Selecting
    BY <1>6 DEF RecvTask
  <2> QED BY <1>1, <1>6, <2>1, AnnouncedFrame DEF RecvTask, StartPoll, TypeOK
<1>7. ASSUME NEW w \in Workers,
             RecvShutdown(w) \/ RecvDisconnected(w) \/ PollPanic(w)
      PROVE  Announced(v)'
  <2>1. /\ UNCHANGED staticVars
        /\ polling'[v] = polling[v] \/ polling'[v] = NULL
        /\ \/ thread'[v] = thread[v]
           \/ thread'[v] = "exiting"
    BY <1>7 DEF RecvShutdown, RecvDisconnected, PollPanic, TypeOK
  <2> QED BY <1>1, <2>1, AnnouncedFrame DEF All
<1>8. ASSUME NEW w \in Workers, ThreadExit(w) PROVE Announced(v)'
  <2>1. CASE v = w
    <3>1. thread'[v] = "exited" /\ static_ready'[v] = <<>>
      BY <1>8, <2>1 DEF ThreadExit, TypeOK
    <3> QED BY <3>1 DEF Announced
  <2>2. CASE v # w
    BY <1>1, <1>8, <2>2, AnnouncedFrame DEF ThreadExit, TypeOK
  <2> QED BY <2>1, <2>2
<1>9. ASSUME NEW w \in Workers, NEW t \in StaticTasks, SpawnStatic(w, t)
      PROVE  Announced(v)'
  <2>1. CASE v = w
    <3>1. /\ static_queue[v] \in Seq(Ids) /\ NEW_TASK \in Ids
          /\ static_queue'[v] = Append(static_queue[v], NEW_TASK)
          /\ thread'[v] = "poll"
      BY <1>9, <2>1 DEF SpawnStatic, Ids, TypeOK
    <3>2. Contains(static_queue'[v], NEW_TASK)
      BY <3>1, AppendMember
    <3> QED BY <3>1, <3>2 DEF Announced
  <2>2. CASE v # w
    BY <1>1, <1>9, <2>2, AnnouncedFrame DEF SpawnStatic, TypeOK
  <2> QED BY <2>1, <2>2
<1>10. ASSUME NEW w \in Workers, PollReady(w) \/ PollPending(w) \/ StaticPending(w)
       PROVE  Announced(v)'
  <2>1. /\ static_ready' = static_ready
        /\ static_queue' = static_queue \/ StaticPending(w)
        /\ PollReturns(w) /\ polling[w] \in All
    BY <1>10, PollingSpawned DEF PollReady, PollPending, StaticPending
  <2>2. Contains(static_queue[v], NEW_TASK) => Contains(static_queue'[v], NEW_TASK)
    <3>1. ASSUME static_queue' # static_queue
          PROVE  /\ polling[w] \in Ids /\ static_queue[w] \in Seq(Ids)
                 /\ static_queue' = [static_queue EXCEPT ![w] = Append(@, polling[w])]
      BY <2>1, <3>1 DEF StaticPending, TypeOK, Ids
    <3>2. CASE static_queue' # static_queue /\ v = w
      <4>1. /\ static_queue[v] \in Seq(Ids) /\ polling[w] \in Ids
            /\ static_queue'[v] = Append(static_queue[v], polling[w])
        BY <3>1, <3>2 DEF TypeOK
      <4> QED BY <4>1, AppendMember
    <3>3. CASE static_queue' = static_queue \/ v # w
      BY <3>1, <3>3 DEF TypeOK
    <3> QED BY <3>2, <3>3
  <2>3. /\ polling'[v] \in Tasks => polling[v] \in Tasks
        /\ thread'[v] = "none" => thread[v] = "none"
        /\ thread'[v] \in Selecting =>
             thread[v] \in Selecting \/ polling[v] \in Tasks
    BY <2>1 DEF PollReturns, TypeOK, All
  <2> QED BY <1>1, <2>1, <2>2, <2>3, AnnouncedFrame
<1>11. ASSUME NEW t \in StaticTasks, SendId(t) PROVE Announced(v)'
  <2>1. Contains(static_queue[v], NEW_TASK) => Contains(static_queue'[v], NEW_TASK)
    <3>1. /\ static_queue[v] \in Seq(Ids) /\ t \in Ids
          /\ \/ static_queue'[v] = static_queue[v]
             \/ static_queue'[v] = Append(static_queue[v], t)
      BY <1>11 DEF SendId, TypeOK, Ids
    <3>2. CASE static_queue'[v] = static_queue[v]
      BY <3>2
    <3>3. CASE static_queue'[v] = Append(static_queue[v], t)
      BY <3>1, <3>3, AppendMember
    <3> QED BY <3>1, <3>2, <3>3
  <2>2. UNCHANGED <<thread, polling, static_ready>>
    BY <1>11 DEF SendId
  <2> QED BY <1>1, <2>1, <2>2, AnnouncedFrame
<1>12. CASE \/ \E t \in Tasks : Spawn(t) \/ SendTask(t)
            \/ DropExecutor
            \/ \E t \in All : Wake(t)
            \/ UNCHANGED vars
  <2>1. UNCHANGED <<thread, polling, staticVars>>
    BY <1>12 DEF Spawn, SendTask, DropExecutor, Wake, vars
  <2> QED BY <1>1, <2>1, AnnouncedFrame
<1> QED
  BY <1>2, <1>3, <1>4, <1>5, <1>6, <1>7, <1>8, <1>9, <1>10, <1>11, <1>12
     DEF Next, WorkerStep, Receive, PollEnds

(* A worker at its select that has a ready static task also has the        *)
(* message that sends it to the inner loop.                                *)
THEOREM ReadyTaskAnnounced == Spec => []ReadyAnnounced
<1>1. Init => AnnounceInv
  BY EmptyMember DEF Init, AnnounceInv, Announced
<1>2. IInv /\ AnnounceInv /\ [Next]_vars => AnnounceInv'
  BY AnnounceStep
<1>3. AnnounceInv => ReadyAnnounced
  BY DEF AnnounceInv, Announced, ReadyAnnounced
<1> QED
  BY <1>1, <1>2, <1>3, Inductive, PTL DEF Spec

-----------------------------------------------------------------------------
(* The end of the pool, when neither a smaller size nor a panic ends a     *)
(* thread before.                                                          *)
NeverShrinks ==
  /\ \A n \in Sizes : n >= requested_threads
  /\ MayPanic = {} /\ Initial # {}

(* Workers leave after the last handle has gone.  From then on a queued    *)
(* task that has not been polled, and was not missed, has a worker on its  *)
(* way to the task channel, which cannot pass it by.                       *)
EndInv ==
  /\ shutdowns = 0
  /\ \A w \in Initial : thread[w] # "none"
  /\ \A w \in Workers : thread[w] \in {"exiting", "exited"} => ~alive
  /\ ~alive => \A t \in Tasks : Queued(t) =>
       polls[t] > 0 \/ t \in missed \/ \E w \in Workers : WillTryTask(w)
  /\ \A t \in All : Polled(t) \/ cell[t] = BOX \/ t \in taken => polls[t] > 0
  /\ QueuedRunBeforeExit

(* What a step may do to the parts of EndInv. *)
LEMMA EndFrame ==
  ASSUME EndInv, TypeOK, TypeOK',
         shutdowns' = 0, alive' = alive, missed' = missed,
         \A w \in Workers : thread'[w] = "none" => thread[w] = "none",
         \A w \in Workers : thread'[w] \in {"exiting", "exited"} =>
           thread[w] \in {"exiting", "exited"} \/ ~alive,
         \A t \in All : polls'[t] >= polls[t],
         \A t \in Tasks : Queued(t)' => Queued(t) \/ polls'[t] > 0,
         (\E t \in Tasks : Queued(t)') /\ (\E w \in Workers : WillTryTask(w))
           => \E w \in Workers : WillTryTask(w)',
         \A t \in All : Polled(t)' \/ cell'[t] = BOX \/ t \in taken' =>
           \/ Polled(t) \/ cell[t] = BOX \/ t \in taken
           \/ polls'[t] > 0,
         \A t \in Tasks : fate'[t] \in {"lost", "refused"} =>
           \/ fate[t] = fate'[t]
           \/ ~alive' /\ (polls'[t] > 0 \/ (fate'[t] = "lost" /\ t \in missed))
  PROVE  EndInv'
<1> USE DEF EndInv
<1>1. \A t \in All : polls[t] > 0 => polls'[t] > 0
  BY DEF TypeOK
<1>2. QueuedRunBeforeExit'
  BY <1>1 DEF QueuedRunBeforeExit, TypeOK, All
<1>3. (~alive => \A t \in Tasks : Queued(t) =>
         polls[t] > 0 \/ t \in missed \/ \E w \in Workers : WillTryTask(w))'
  BY <1>1 DEF All
<1>4. (\A w \in Workers : thread[w] \in {"exiting", "exited"} => ~alive)'
  BY DEF TypeOK
<1>5. (\A t \in All : Polled(t) \/ cell[t] = BOX \/ t \in taken => polls[t] > 0)'
  BY <1>1
<1>6. \A w \in Initial : thread'[w] # "none"
  BY PoolAssumption
<1> QED BY <1>2, <1>3, <1>4, <1>5, <1>6

(* A step of one worker that leaves it where it will try the task channel. *)
LEMMA WillTry ==
  ASSUME TypeOK, NEW w \in Workers, NEW s,
         s \in {"select", "try_task", "blocked", "poll", "static"},
         thread' = [thread EXCEPT ![w] = s]
  PROVE  /\ \E v \in Workers : WillTryTask(v)'
         /\ \A v \in Workers : thread'[v] \in {"none", "exiting", "exited"} =>
              thread'[v] = thread[v]
BY DEF TypeOK, WillTryTask

LEMMA EndStep ==
  ASSUME NeverShrinks, IInv, EndInv, [Next]_vars
  PROVE  EndInv'
<1>0. TypeOK /\ TypeOK' /\ shutdowns = 0 /\ \A t \in All : polls[t] \in Nat
  <2>1. TypeOK /\ TypeOK'
    BY TypeStep DEF IInv
  <2> QED BY <2>1, PoolAssumption DEF TypeOK, EndInv
<1> USE PoolAssumption
    DEF IInv, poolVars, staticVars, wakeVars, countVars
<1>1. Running # {} \/ ~alive
  BY DEF Running, NeverShrinks, EndInv
<1>2. ASSUME NEW t \in Tasks, Spawn(t) PROVE EndInv'
  <2>1. /\ alive /\ fate' = [fate EXCEPT ![t] = "spawned"]
        /\ UNCHANGED <<poolVars, thread, polling, wakeVars, polls>>
    BY <1>2 DEF Spawn
  <2>2. \A s \in Tasks : fate[s] \notin {"lost", "refused"}
    BY <2>1 DEF EndInv, QueuedRunBeforeExit
  <2>3. QueuedRunBeforeExit'
    BY <2>1, <2>2 DEF QueuedRunBeforeExit, TypeOK, All
  <2> QED BY <2>1, <2>3 DEF EndInv, Polled
<1>3. ASSUME NEW t \in Tasks, SendTask(t) PROVE EndInv'
  <2>1. /\ UNCHANGED <<poolVars, thread, polling, cell, polls>>
        /\ taken' \subseteq taken /\ polls[t] > 0
    BY <1>3 DEF SendTask, EndInv, All
  <2>2. \A s \in Tasks : Queued(s)' => Queued(s) \/ s = t
    <3>1. task_queue \in Seq(Tasks)
      BY DEF TypeOK
    <3>2. CASE task_queue' = Append(task_queue, t)
      BY <3>1, <3>2, AppendMember DEF Queued
    <3>3. CASE task_queue' = task_queue
      BY <3>3 DEF Queued
    <3> QED BY <1>3, <3>2, <3>3 DEF SendTask
  <2>3. \A s \in Tasks : fate'[s] = fate[s] \/ (s = t /\ ~alive)
    BY <1>3 DEF SendTask, ChannelOpen, TypeOK, All
  <2> QED BY <1>0, <2>1, <2>2, <2>3, EndFrame DEF Polled, WillTryTask
<1>4. CASE DropExecutor
  <2>1. /\ Running # {} /\ alive /\ ~alive'
        /\ UNCHANGED <<shutdowns, thread, polling, cell, taken, polls>>
        /\ missed' = {t \in Tasks :
                       Queued(t) /\ \A w \in Workers : ~WillTryTask(w)}
    BY <1>1, <1>4 DEF DropExecutor
  <2>2. task_queue' = task_queue /\ \A t \in All : fate'[t] = fate[t]
    BY <1>4, <2>1 DEF DropExecutor, Discard
  <2>3. \A t \in Tasks : fate'[t] \notin {"lost", "refused"}
    BY <2>1, <2>2 DEF EndInv, QueuedRunBeforeExit, All
  <2>4. (\A t \in Tasks : Queued(t) =>
           t \in missed \/ \E w \in Workers : WillTryTask(w))'
    BY <2>1, <2>2 DEF Queued, WillTryTask
  <2>5. QueuedRunBeforeExit'
    BY <2>3 DEF QueuedRunBeforeExit
  <2> QED BY <2>1, <2>4, <2>5 DEF EndInv, Polled
<1>5. ASSUME NEW w \in Workers, RecvTask(w) \/ RunStatic(w) PROVE EndInv'
  <2>1. PICK t \in All : StartPoll(w, t)
    BY <1>5, QueueHead, ReadyHead DEF RecvTask, RunStatic, All
  <2>2. \A s \in Tasks : Queued(s)' => Queued(s)
    <3>1. CASE RecvTask(w)
      BY <3>1, TailMember DEF RecvTask, Queued, TypeOK
    <3>2. CASE RunStatic(w)
      BY <3>2 DEF RunStatic, Queued
    <3> QED BY <1>5, <3>1, <3>2
  <2>3. /\ thread' = [thread EXCEPT ![w] = "poll"]
        /\ UNCHANGED <<poolVars, taken, fate>>
        /\ polling' = [polling EXCEPT ![w] = t]
        /\ polls'[t] = polls[t] + 1 /\ cell'[t] = NOT_WOKEN
        /\ \A s \in All \ {t} : polls'[s] = polls[s] /\ cell'[s] = cell[s]
    BY <1>5, <2>1 DEF RecvTask, RunStatic, StartPoll, TypeOK
  <2>4. \A s \in All : Polled(s)' => Polled(s) \/ s = t
    BY <2>3 DEF Polled, TypeOK
  <2>5. polls'[t] > 0 /\ \A s \in All : polls'[s] >= polls[s]
    BY <1>0, <2>3
  <2> QED BY <1>0, <2>2, <2>3, <2>4, <2>5, WillTry, EndFrame DEF All
<1>7. ASSUME NEW w \in Workers, RecvShutdown(w) \/ PollPanic(w) PROVE EndInv'
  BY <1>7 DEF RecvShutdown, PollPanic, NeverShrinks, EndInv
<1>8. ASSUME NEW w \in Workers, RecvDisconnected(w) PROVE EndInv'
  <2>1. /\ ~alive /\ thread[w] = "try_thread"
        /\ thread' = [thread EXCEPT ![w] = "exiting"]
        /\ UNCHANGED <<poolVars, task_queue, polling, cell, taken, fate, polls>>
    BY <1>8 DEF RecvDisconnected
  <2>2. \A v \in Workers : WillTryTask(v) => WillTryTask(v)'
    BY <2>1 DEF WillTryTask, TypeOK
  <2> QED BY <1>0, <2>1, <2>2, EndFrame DEF Polled, Queued, TypeOK
<1>9. ASSUME NEW w \in Workers, RecvStatic(w) \/ Moves(w) PROVE EndInv'
  <2>1. /\ UNCHANGED <<poolVars, task_queue, polling, cell, taken, fate, polls>>
        /\ \E s \in {"static", "select", "try_task", "try_thread", "blocked"} :
             /\ thread' = [thread EXCEPT ![w] = s]
             /\ s = "try_thread" => task_queue = <<>>
    BY <1>9 DEF RecvStatic, Pass
  <2>2. PICK s \in {"static", "select", "try_task", "try_thread", "blocked"} :
          /\ thread' = [thread EXCEPT ![w] = s]
          /\ s = "try_thread" => task_queue = <<>>
    BY <2>1
  <2>3. (\E t \in Tasks : Queued(t)') => \E v \in Workers : WillTryTask(v)'
    <3>1. CASE s = "try_thread"
      BY <2>1, <2>2, <3>1, EmptyMember DEF Queued
    <3>2. CASE s # "try_thread"
      BY <1>0, <2>2, <3>2, WillTry
    <3> QED BY <3>1, <3>2
  <2>4. \A v \in Workers : thread'[v] \in {"none", "exiting", "exited"} =>
                              thread'[v] = thread[v]
    BY <2>2 DEF TypeOK
  <2> QED BY <1>0, <2>1, <2>3, <2>4, EndFrame DEF Polled, Queued
<1>10. ASSUME NEW w \in Workers, ThreadExit(w) PROVE EndInv'
  <2>1. /\ thread[w] = "exiting" /\ ~alive
        /\ thread' = [thread EXCEPT ![w] = "exited"]
        /\ UNCHANGED <<poolVars, polling, cell, taken, polls>>
    BY <1>10 DEF ThreadExit, EndInv
  <2>2. \A v \in Workers : WillTryTask(v) => WillTryTask(v)'
    BY <2>1 DEF WillTryTask, TypeOK
  <2>3. \A t \in Tasks : Queued(t)' => Queued(t)
    BY <1>10, EmptyMember DEF ThreadExit, Queued
  <2>4. \A t \in Tasks : fate'[t] = fate[t]
          \/ (Queued(t) /\ Running = {w} /\ fate'[t] = "lost")
    BY <1>10, <2>1 DEF ThreadExit, All
  <2>5. Running = {w} => \A v \in Workers : ~WillTryTask(v)
    BY <2>1 DEF Running, WillTryTask
  <2>6. \A t \in Tasks : fate'[t] = fate[t]
          \/ (fate'[t] = "lost" /\ (polls[t] > 0 \/ t \in missed))
    BY <2>1, <2>4, <2>5 DEF EndInv
  <2> QED BY <1>0, <2>1, <2>2, <2>3, <2>6, EndFrame DEF Polled, TypeOK
<1>11. ASSUME NEW w \in Workers, NEW t \in StaticTasks, SpawnStatic(w, t)
       PROVE  EndInv'
  <2>1. /\ UNCHANGED <<poolVars, task_queue, thread, polling, wakeVars, polls>>
        /\ \A s \in Tasks : fate'[s] = fate[s]
    BY <1>11 DEF SpawnStatic, TypeOK, All
  <2> QED BY <1>0, <2>1, EndFrame DEF Polled, Queued, WillTryTask
<1>12. ASSUME NEW w \in Workers, PollReady(w) \/ PollPending(w) \/ StaticPending(w)
       PROVE  EndInv'
  <2>1. PICK t \in All : t = polling[w]
    BY <1>12, PollingSpawned DEF PollReady, PollPending, StaticPending
  <2>2. polls[t] > 0 /\ UNCHANGED <<poolVars, taken, polls>> /\ PollReturns(w)
    BY <1>12, <2>1 DEF PollReady, PollPending, StaticPending, Polled, EndInv
  <2>3. \A s \in All : cell'[s] = BOX => cell[s] = BOX \/ s = t
    BY <1>12, <2>1 DEF PollReady, PollPending, StaticPending, CheckWake, TypeOK
  <2>4. \A s \in Tasks : Queued(s)' => Queued(s) \/ s = t
    <3>1. /\ task_queue \in Seq(Tasks)
          /\ \/ task_queue' = task_queue
             \/ task_queue' = Append(task_queue, t) /\ t \in Tasks
      BY <1>12, <2>1 DEF PollReady, PollPending, StaticPending, TypeOK
    <3>2. CASE task_queue' = task_queue
      BY <3>2 DEF Queued
    <3>3. CASE task_queue' = Append(task_queue, t) /\ t \in Tasks
      BY <3>1, <3>3, AppendMember DEF Queued
    <3> QED BY <3>1, <3>2, <3>3
  <2>5. \A s \in Tasks : fate'[s] \in {"lost", "refused"} => fate'[s] = fate[s]
    <3>1. fate' = fate \/ fate' = [fate EXCEPT ![t] = "done"]
      BY <1>12, <2>1 DEF PollReady, PollPending, StaticPending
    <3>2. fate \in [All -> Fate] /\ Tasks \subseteq All
      BY DEF TypeOK, All
    <3> QED BY <3>1, <3>2
  <2>6. PICK s \in {"select", "static"} : thread' = [thread EXCEPT ![w] = s]
    BY <2>2 DEF PollReturns
  <2>7. \A u \in All : Polled(u)' => Polled(u)
    BY <2>2 DEF Polled, PollReturns, TypeOK
  <2>8. /\ \E v \in Workers : WillTryTask(v)'
        /\ \A v \in Workers : thread'[v] \in {"none", "exiting", "exited"} =>
             thread'[v] = thread[v]
    BY <1>0, <2>6, WillTry
  <2>9. \A x \in All : polls'[x] >= polls[x]
    BY <1>0, <2>2
  <2> QED BY <1>0, <2>2, <2>3, <2>4, <2>5, <2>7, <2>8, <2>9, EndFrame
<1>13. ASSUME NEW t \in All, Wake(t) PROVE EndInv'
  <2>1. /\ UNCHANGED <<poolVars, task_queue, thread, polling, fate, polls>>
        /\ \A s \in All : cell'[s] = BOX \/ s \in taken' =>
                            cell[s] = BOX \/ s \in taken
    BY <1>13 DEF Wake, TypeOK
  <2> QED BY <1>0, <2>1, EndFrame DEF Polled, Queued, WillTryTask
<1>14. ASSUME NEW t \in StaticTasks, SendId(t) PROVE EndInv'
  <2>1. /\ UNCHANGED <<poolVars, task_queue, thread, polling, cell, fate, polls>>
        /\ taken' \subseteq taken
    BY <1>14 DEF SendId
  <2> QED BY <1>0, <2>1, EndFrame DEF Polled, Queued, WillTryTask
<1>15. ASSUME NEW n \in Sizes, Resize(n) PROVE EndInv'
  <2>1. requested_threads \in Nat /\ n >= requested_threads /\ n \in Nat
    BY FS_Subset, FS_CardinalityType DEF requested_threads, NeverShrinks
  <2>2. shutdowns' = 0
    BY <1>0, <1>15, <2>1 DEF Resize, Grow, Shrink
  <2>3. /\ UNCHANGED <<alive, missed, task_queue, polling, cell, taken, fate, polls>>
        /\ \A w \in Workers : thread'[w] = thread[w] \/ thread'[w] = "select"
    BY <1>15 DEF Resize, Grow, Shrink, TypeOK
  <2>4. \A w \in Workers : WillTryTask(w) => WillTryTask(w)'
    BY <2>3 DEF WillTryTask
  <2> QED BY <1>0, <2>2, <2>3, <2>4, EndFrame DEF Polled, Queued
<1>16. CASE UNCHANGED vars
  BY <1>0, <1>16, EndFrame DEF vars, Polled, Queued, WillTryTask
<1> QED
  BY <1>2, <1>3, <1>4, <1>5, <1>7, <1>8, <1>9, <1>10, <1>11, <1>12,
     <1>13, <1>14, <1>15, <1>16 DEF Next, WorkerStep, Receive, PollEnds

(* A pool that is never asked to shrink and whose tasks do not panic loses *)
(* no task that it has not polled, except one that is in the channel when  *)
(* the last handle goes and every worker is between its try of the task    *)
(* channel and its try of the thread channel, or leaves.  Nor does a wake  *)
(* find the channel closed for a task that has not been polled.            *)
THEOREM QueuedTasksRun == ASSUME NeverShrinks PROVE Spec => []QueuedRunBeforeExit
<1>1. Init => EndInv
  BY EmptyMember, PoolAssumption
     DEF Init, EndInv, QueuedRunBeforeExit, NeverShrinks, Queued, Polled, All
<1>2. IInv /\ EndInv /\ [Next]_vars => EndInv'
  BY NeverShrinks, EndStep
<1>3. EndInv => QueuedRunBeforeExit
  BY DEF EndInv
<1> QED
  BY <1>1, <1>2, <1>3, Inductive, PTL DEF Spec

-----------------------------------------------------------------------------
(* Every step of the pool is a step of ExecutorContract or stutters there. *)

LEMMA HomeKept ==
  ASSUME \A w \in Workers, t \in StaticTasks : Holds(w, t)' <=> Holds(w, t)
  PROVE  [w \in Workers |-> Home(w)]' = [w \in Workers |-> Home(w)]
BY DEF Home

LEMMA ExecutorUnmoved ==
  ASSUME IInv,
         \/ \E n \in Sizes : Resize(n)
         \/ \E w \in Workers : RecvStatic(w) \/ RecvShutdown(w)
              \/ RecvDisconnected(w) \/ Moves(w)
         \/ \E t \in All : Wake(t)
         \/ \E t \in StaticTasks : SendId(t)
         \/ \E t \in Tasks : SendTask(t) /\ ChannelOpen
         \/ UNCHANGED vars
  PROVE  UNCHANGED Executor!vars
<1> USE PoolAssumption DEF IInv, poolVars, staticVars, wakeVars, countVars
<1>1. UNCHANGED <<alive, fate, polling, running_tasks>>
  BY DEF Resize, RecvStatic, RecvShutdown, RecvDisconnected, SendTask,
         Pass, Wake, SendId, vars
<1>2. \A w \in Workers, t \in StaticTasks : Holds(w, t)' <=> Holds(w, t)
  <2>1. CASE \E w \in Workers : RecvStatic(w)
    <3>1. PICK w \in Workers : RecvStatic(w)
      BY <2>1
    <3>2. CASE Head(static_queue[w]) \in static_pending[w]
      <4> DEFINE id == Head(static_queue[w])
      <4>1. /\ static_ready' = [static_ready EXCEPT ![w] = Append(@, id)]
            /\ static_pending' = [static_pending EXCEPT ![w] = @ \ {id}]
            /\ id \in StaticTasks /\ id \in static_pending[w]
        BY <3>1, <3>2 DEF RecvStatic, TypeOK
      <4>2. \A t \in StaticTasks : Contains(static_ready'[w], t)
                                    <=> Contains(static_ready[w], t) \/ t = id
        BY <4>1, AppendMember DEF TypeOK
      <4> QED BY <1>1, <4>1, <4>2 DEF Holds, Ready, TypeOK
    <3>3. CASE Head(static_queue[w]) \notin static_pending[w]
      BY <1>1, <3>1, <3>3 DEF RecvStatic, Holds, Ready
    <3> QED BY <3>2, <3>3
  <2>2. CASE ~\E w \in Workers : RecvStatic(w)
    <3>1. UNCHANGED <<static_ready, static_pending>>
      BY <2>2 DEF Resize, RecvShutdown, RecvDisconnected, SendTask,
                  Pass, Wake, SendId, vars
    <3> QED BY <1>1, <3>1 DEF Holds, Ready
  <2> QED BY <2>1, <2>2
<1> QED BY <1>1, <1>2, HomeKept DEF Executor!vars, Status

(* A worker that is not polling can take a queued or a ready task. *)
LEMMA ExecutorStart ==
  ASSUME IInv, NEW w \in Workers, RecvTask(w) \/ RunStatic(w)
  PROVE  \E t \in All : Executor!Start(w, t)
<1> USE PoolAssumption DEF poolVars, staticVars, wakeVars, countVars
<1>1. polling[w] = NULL
  BY DEF RecvTask, RunStatic, IInv, PollInv
<1>2. CASE RecvTask(w)
  <2> DEFINE t == Head(task_queue)
  <2>1. /\ t \in Tasks /\ t \notin StaticTasks /\ fate[t] = "spawned"
        /\ \A v \in Workers : polling[v] # t
    BY <1>2, QueueHead DEF RecvTask, Polled
  <2>2. /\ polling' = [polling EXCEPT ![w] = t]
        /\ UNCHANGED <<alive, fate, running_tasks, static_ready, static_pending>>
    BY <1>2 DEF RecvTask, StartPoll
  <2>3. \A v \in Workers, s \in StaticTasks : Holds(v, s)' <=> Holds(v, s)
    BY <1>1, <2>1, <2>2 DEF Holds, Ready, IInv, TypeOK, All
  <2>4. Executor!Start(w, t)
    BY <1>1, <2>1, <2>2, <2>3, HomeKept
       DEF Executor!Start, Executor!Idle, Status, All
  <2> QED BY <2>1, <2>4 DEF All
<1>3. CASE RunStatic(w)
  <2> DEFINE t == Head(static_ready[w])
  <2>1. /\ t \in StaticTasks /\ Ready(w, t) /\ fate[t] = "spawned"
        /\ \A v \in Workers : polling[v] # t
    BY <1>3, ReadyHead DEF RunStatic, Polled
  <2>2. /\ polling' = [polling EXCEPT ![w] = t]
        /\ static_ready' = [static_ready EXCEPT ![w] = Tail(@)]
        /\ UNCHANGED <<alive, fate, running_tasks, static_pending>>
    BY <1>3 DEF RunStatic, StartPoll
  <2>3. \A s \in StaticTasks :
          Contains(static_ready[w], s) <=> Contains(static_ready'[w], s) \/ s = t
    BY <1>3, <2>2, TailMember DEF RunStatic, IInv, TypeOK
  <2>4. \A v \in Workers, s \in StaticTasks : Holds(v, s)' <=> Holds(v, s)
    BY <1>1, <2>1, <2>2, <2>3 DEF Holds, Ready, IInv, TypeOK, All
  <2>5. Executor!Start(w, t)
    BY <1>1, <2>1, <2>2, <2>4, HomeKept
       DEF Executor!Start, Executor!Idle, Status, All, Home, Holds
  <2> QED BY <2>1, <2>5 DEF All
<1> QED BY <1>2, <1>3

LEMMA ExecutorSpawn ==
  ASSUME IInv
  PROVE  /\ \A t \in Tasks : Spawn(t) => Executor!Submit(t)
         /\ \A w \in Workers, t \in StaticTasks :
              SpawnStatic(w, t) => Executor!SubmitPinned(w, t)
<1> USE PoolAssumption DEF poolVars, staticVars, wakeVars, countVars
<1>1. ASSUME NEW t \in Tasks, Spawn(t) PROVE Executor!Submit(t)
  <2>1. \A w \in Workers, s \in StaticTasks : Holds(w, s)' <=> Holds(w, s)
    BY <1>1 DEF Spawn, Holds, Ready
  <2> QED BY <1>1, <2>1, HomeKept
             DEF Spawn, Executor!Submit, Status, All, IInv, TypeOK
<1>2. ASSUME NEW w \in Workers, NEW t \in StaticTasks, SpawnStatic(w, t)
      PROVE  Executor!SubmitPinned(w, t)
  <2>1. \A s \in StaticTasks :
          Contains(static_ready'[w], s) <=> Contains(static_ready[w], s) \/ s = t
    BY <1>2, AppendMember DEF SpawnStatic, IInv, TypeOK
  <2>2. \A v \in Workers, s \in StaticTasks :
          Holds(v, s)' <=> Holds(v, s) \/ (v = w /\ s = t)
    BY <1>2, <2>1 DEF SpawnStatic, Holds, Ready, IInv, TypeOK
  <2>3. [v \in Workers |-> Home(v)]'
          = [[v \in Workers |-> Home(v)] EXCEPT ![w] = @ \cup {t}]
    BY <2>2 DEF Home
  <2>4. polling[w] # NULL
    BY <1>2 DEF SpawnStatic, IInv, PollInv
  <2> QED BY <1>2, <2>3, <2>4
             DEF SpawnStatic, Executor!SubmitPinned, Status, All, IInv, TypeOK
<1> QED BY <1>1, <1>2

(* A poll ends: the task goes back where it waits, or is over. *)
LEMMA ExecutorPollEnds ==
  ASSUME IInv, NEW w \in Workers, PollEnds(w)
  PROVE  Executor!Yield(w) \/ Executor!Finish(w) \/ Executor!Unwind(w)
<1> USE PoolAssumption DEF poolVars, staticVars, wakeVars, countVars
<1>1. /\ polling[w] \in All /\ polling[w] # NULL /\ fate[polling[w]] = "spawned"
      /\ polling' = [polling EXCEPT ![w] = NULL] /\ UNCHANGED alive
      /\ static_ready' = static_ready
  BY PollingSpawned DEF PollEnds, PollReady, PollPending, StaticPending,
                        PollPanic, PollReturns, IInv, PollInv
<1>2. ASSUME PollReady(w) \/ PollPanic(w)
      PROVE  [v \in Workers |-> Home(v)]'
               = [[v \in Workers |-> Home(v)] EXCEPT ![w] = @ \ {polling[w]}]
  <2>1. static_pending' = static_pending
    BY <1>2 DEF PollReady, PollPanic
  <2>2. \A v \in Workers, s \in StaticTasks :
          Holds(v, s)' <=> Holds(v, s) /\ ~(v = w /\ s = polling[w])
    BY <1>1, <2>1 DEF Holds, Ready, IInv, TypeOK, StaticOwner, All
  <2> QED BY <2>2 DEF Home
<1>3. CASE PollReady(w)
  <2>1. /\ running_tasks' = running_tasks - 1
        /\ fate' = [fate EXCEPT ![polling[w]] = "done"]
    BY <1>3 DEF PollReady
  <2>2. [t \in All |-> Status(t)]'
          = [[t \in All |-> Status(t)] EXCEPT ![polling[w]] = "finished"]
    BY <1>1, <2>1 DEF Status, IInv, TypeOK
  <2>3. Status(polling[w]) = "live"
    BY <1>1 DEF Status
  <2> QED BY <1>1, <1>2, <1>3, <2>1, <2>2, <2>3
             DEF Executor!Finish, Executor!Ends
<1>4. CASE PollPanic(w)
  <2>1. /\ UNCHANGED running_tasks
        /\ fate' = [fate EXCEPT ![polling[w]] = "unwound"]
    BY <1>4 DEF PollPanic
  <2>2. [t \in All |-> Status(t)]'
          = [[t \in All |-> Status(t)] EXCEPT ![polling[w]] = "abandoned"]
    BY <1>1, <2>1 DEF Status, IInv, TypeOK
  <2>3. Status(polling[w]) = "live"
    BY <1>1 DEF Status
  <2> QED BY <1>1, <1>2, <1>4, <2>1, <2>2, <2>3
             DEF Executor!Unwind, Executor!Ends
<1>5. CASE PollPending(w) \/ StaticPending(w)
  <2>1. \A v \in Workers, s \in StaticTasks : Holds(v, s)' <=> Holds(v, s)
    BY <1>1, <1>5
       DEF PollPending, StaticPending, Holds, Ready, IInv, TypeOK, All
  <2>2. UNCHANGED <<fate, running_tasks>>
    BY <1>5 DEF PollPending, StaticPending
  <2> QED BY <1>1, <2>1, <2>2, HomeKept DEF Executor!Yield, Status
<1> QED BY <1>3, <1>4, <1>5 DEF PollEnds

(* Who drops tasks that nobody is polling: a channel without receivers, a  *)
(* thread that ends.                                                       *)
LEMMA ExecutorAbandons ==
  ASSUME IInv,
         \/ \E t \in Tasks : SendTask(t) /\ ~ChannelOpen
         \/ DropExecutor
         \/ \E w \in Workers : ThreadExit(w)
  PROVE  \E lost \in SUBSET All : Executor!Abandon(lost) \/ Executor!Close(lost)
<1> USE PoolAssumption DEF poolVars, staticVars, wakeVars, countVars
<1>q. \A t \in All : Queued(t) => t \in Tasks /\ fate[t] = "spawned" /\ ~Polled(t)
  BY DEF IInv, TypeOK, OneOwner, Queued, Contains
<1>1. ASSUME NEW t \in Tasks, SendTask(t), ~ChannelOpen
      PROVE  Executor!Abandon({t})
  <2>1. fate[t] = "spawned" /\ ~Polled(t) /\ ~alive
    BY <1>1 DEF SendTask, IInv, OneOwner, ChannelOpen
  <2>2. \A v \in Workers, s \in StaticTasks : Holds(v, s)' <=> Holds(v, s)
    BY <1>1 DEF SendTask, Holds, Ready
  <2>3. [v \in Workers |-> Home(v)]'
          = [v \in Workers |-> [x \in Workers |-> Home(x)][v] \ {t}]
    BY <2>2 DEF Home
  <2>4. fate' = [fate EXCEPT ![t] = "refused"]
    BY <1>1 DEF SendTask
  <2>5. UNCHANGED <<polling, running_tasks, alive>>
    BY <1>1 DEF SendTask
  <2> QED BY <2>1, <2>3, <2>4, <2>5
             DEF Executor!Abandon, Executor!Shed, Executor!Idle, Status,
                 Polled, All, IInv, TypeOK
<1>2. CASE DropExecutor
  <2> DEFINE lost == {t \in All : Running = {} /\ Queued(t)}
  <2>1. fate' = [t \in All |-> IF t \in lost THEN "lost" ELSE fate[t]]
    BY <1>2 DEF DropExecutor, Discard
  <2>2. \A v \in Workers, s \in StaticTasks : Holds(v, s)' <=> Holds(v, s)
    BY <1>2 DEF DropExecutor, Holds, Ready
  <2>3. [v \in Workers |-> Home(v)]'
          = [v \in Workers |-> [x \in Workers |-> Home(x)][v] \ lost]
    BY <1>q, <2>2 DEF Home
  <2>4. alive /\ alive' = FALSE /\ UNCHANGED <<polling, running_tasks>>
    BY <1>2 DEF DropExecutor
  <2>5. Executor!Close(lost)
    BY <1>q, <2>1, <2>3, <2>4
       DEF Executor!Close, Executor!Shed, Executor!Idle, Status, Polled,
           IInv, TypeOK
  <2> QED BY <2>5
<1>3. ASSUME NEW w \in Workers, ThreadExit(w)
      PROVE  \E lost \in SUBSET All : Executor!Abandon(lost)
  <2> DEFINE open == alive \/ Running # {w}
             lost == Home(w) \cup {t \in All : ~open /\ Queued(t)}
  <2>0. polling[w] = NULL
    BY <1>3 DEF ThreadExit, IInv, PollInv
  <2>1. \A t \in StaticTasks :
          t \in Home(w) <=> Ready(w, t) \/ t \in static_pending[w]
    BY <2>0 DEF Home, Holds, All
  <2>2. fate' = [t \in All |-> IF t \in lost THEN "lost" ELSE fate[t]]
    BY <1>3, <2>1 DEF ThreadExit, Ready, Home
  <2>3. \A t \in lost : fate[t] = "spawned" /\ ~Polled(t)
    <3>1. ASSUME NEW t \in Home(w) PROVE fate[t] = "spawned" /\ ~Polled(t)
      <4>1. t \in StaticTasks /\ Holds(w, t)
        BY <3>1 DEF Home
      <4> QED BY <2>0, <4>1 DEF IInv, StaticOwner, Polled, Holds, All
    <3> QED BY <1>q, <3>1
  <2>4. \A v \in Workers, s \in StaticTasks :
          Holds(v, s)' <=> Holds(v, s) /\ v # w
    BY <1>3, <2>0, EmptyMember DEF ThreadExit, Holds, Ready, IInv, TypeOK, All
  <2>5. \A v \in Workers : Home(v)' = Home(v) \ lost
    <3>1. ASSUME NEW v \in Workers, NEW s \in Home(v), v # w PROVE s \notin lost
      BY <1>q, <3>1 DEF Home, IInv, StaticOwner
    <3> QED BY <2>4, <3>1 DEF Home
  <2>6. UNCHANGED <<alive, polling, running_tasks>>
    BY <1>3 DEF ThreadExit
  <2>7. alive => lost \subseteq Home(w)
    OBVIOUS
  <2>8. [t \in All |-> Status(t)]'
          = [t \in All |-> IF t \in lost THEN "abandoned"
                           ELSE [u \in All |-> Status(u)][t]]
    BY <2>2 DEF Status
  <2>9. [v \in Workers |-> Home(v)]'
          = [v \in Workers |-> [x \in Workers |-> Home(x)][v] \ lost]
    BY <2>5
  <2>10. Executor!Shed(lost)
    BY <2>3, <2>6, <2>8, <2>9
       DEF Executor!Shed, Executor!Idle, Status, Polled, Home, All
  <2>11. Executor!Abandon(lost)
    BY <2>6, <2>7, <2>10 DEF Executor!Abandon
  <2> QED BY <2>11 DEF Home, All
<1> QED BY <1>1, <1>2, <1>3 DEF All

LEMMA ExecutorStep ==
  ASSUME IInv, [Next]_vars
  PROVE  [Executor!Next]_(Executor!vars)
BY ExecutorUnmoved, ExecutorStart, ExecutorSpawn, ExecutorPollEnds,
   ExecutorAbandons
   DEF Next, WorkerStep, Receive, Executor!Next, All

(* The pool implements ExecutorContract: a task is polled by one worker at *)
(* a time, a static one where it was spawned; and a task is abandoned only *)
(* by its own panic, with the worker it is pinned to, or once the last     *)
(* handle is gone.                                                         *)
THEOREM ExecutorRefinement == Spec => ImplementsExecutor
<1>1. Init => Executor!Init
  BY PoolAssumption, EmptyMember
     DEF Init, Executor!Init, Status, Home, Holds, Ready, All
<1>2. IInv /\ [Next]_vars => [Executor!Next]_(Executor!vars)
  BY ExecutorStep
<1> QED
  BY <1>1, <1>2, Inductive, PTL DEF Spec, ImplementsExecutor, Executor!Spec

-----------------------------------------------------------------------------
(* Every step of the pool is, for each task, a step of WakeContract or     *)
(* stutters there.                                                         *)

(* A task that is over stays so, and no other becomes so. *)
Over(t) == fate[t] \in {"done", "unwound"}

LEMMA ContractUnmoved ==
  ASSUME NEW t \in All, Over(t)' <=> Over(t), Polled(t)' <=> Polled(t),
         cell'[t] = cell[t]
  PROVE  UNCHANGED Contract(t)!vars
BY DEF Contract!vars, Over

(* What a worker polls next was ready, and no other task notices. *)
LEMMA ContractStart ==
  ASSUME IInv, NEW w \in Workers, RecvTask(w) \/ RunStatic(w), NEW t \in All
  PROVE  Contract(t)!Start \/ UNCHANGED Contract(t)!vars
<1> USE PoolAssumption DEF countVars, wakeVars
<1>1. polling[w] = NULL
  BY DEF RecvTask, RunStatic, IInv, PollInv
<1>2. PICK s \in All :
        /\ polling' = [polling EXCEPT ![w] = s]
        /\ cell' = [cell EXCEPT ![s] = NOT_WOKEN]
        /\ UNCHANGED fate
        /\ fate[s] = "spawned" /\ ~Polled(s) /\ cell[s] # BOX
  <2>1. CASE RecvTask(w)
    BY <2>1, QueueHead DEF RecvTask, StartPoll, IInv, OneOwner, All
  <2>2. CASE RunStatic(w)
    <3> DEFINE u == Head(static_ready[w])
    <3>1. u \in StaticTasks /\ Ready(w, u) /\ fate[u] = "spawned" /\ ~Polled(u)
      BY <2>2, ReadyHead DEF RunStatic
    <3>2. cell[u] # BOX
      BY <3>1 DEF IInv, StaticOwner
    <3> QED BY <2>2, <3>1, <3>2 DEF RunStatic, StartPoll, All
  <2> QED BY <2>1, <2>2
<1>3. CASE t = s
  <2>1. Polled(t)' /\ cell'[t] = NOT_WOKEN
    BY <1>2, <1>3 DEF Polled, IInv, TypeOK
  <2> QED BY <1>2, <1>3, <2>1 DEF Contract!Start
<1>4. CASE t # s
  <2>1. (Polled(t)' <=> Polled(t)) /\ cell'[t] = cell[t]
    BY <1>1, <1>2, <1>4 DEF Polled, IInv, TypeOK
  <2> QED BY <1>2, <2>1, ContractUnmoved DEF Over
<1> QED BY <1>3, <1>4

(* A poll that ends finishes its task, or suspends it unless it was woken. *)
LEMMA ContractPollEnds ==
  ASSUME IInv, NEW w \in Workers, PollEnds(w), NEW t \in All
  PROVE  Contract(t)!Finish \/ Contract(t)!Suspend \/ UNCHANGED Contract(t)!vars
<1> USE PoolAssumption DEF countVars, wakeVars
<1>1. PICK s \in All :
        /\ s = polling[w] /\ fate[s] = "spawned" /\ cell[s] # BOX
        /\ polling' = [polling EXCEPT ![w] = NULL]
  BY PollingSpawned DEF PollEnds, PollReady, PollPending, StaticPending,
                        PollPanic, PollReturns, IInv, PollInv
<1>2. /\ Polled(s) /\ ~Polled(s)'
      /\ \A u \in All \ {s} : Polled(u)' <=> Polled(u)
  <2>1. \A v \in Workers : polling[v] = s => v = w
    BY <1>1 DEF IInv, OneOwner
  <2> QED BY <1>1, <2>1 DEF Polled, IInv, TypeOK
<1>3. CASE PollReady(w) \/ PollPanic(w)
  <2>1. /\ UNCHANGED cell
        /\ \E f \in {"done", "unwound"} : fate' = [fate EXCEPT ![s] = f]
    BY <1>1, <1>3 DEF PollReady, PollPanic
  <2>2. CASE t = s
    <3>1. fate'[t] \in {"done", "unwound"}
      BY <1>1, <2>1, <2>2 DEF IInv, TypeOK
    <3> QED BY <1>1, <1>2, <2>1, <2>2, <3>1 DEF Contract!Finish
  <2>3. CASE t # s
    BY <1>2, <2>1, <2>3, ContractUnmoved DEF Over, IInv, TypeOK
  <2> QED BY <2>2, <2>3
<1>4. CASE PollPending(w) \/ StaticPending(w)
  <2>1. UNCHANGED fate /\ CheckWake(s)
    BY <1>1, <1>4 DEF PollPending, StaticPending
  <2>2. CASE t = s
    <3>1. cell'[t] = IF cell[t] = WOKEN THEN WOKEN ELSE BOX
      BY <2>1, <2>2 DEF CheckWake, IInv, TypeOK
    <3> QED BY <1>1, <1>2, <2>1, <2>2, <3>1 DEF Contract!Suspend
  <2>3. CASE t # s
    BY <1>2, <2>1, <2>3, ContractUnmoved DEF Over, CheckWake, IInv, TypeOK
  <2> QED BY <2>2, <2>3
<1> QED BY <1>3, <1>4 DEF PollEnds

(* A wake readies a suspended task, or is noted; no other task notices.    *)
LEMMA ContractWake ==
  ASSUME IInv, NEW s \in All, Wake(s), NEW t \in All
  PROVE  Contract(t)!Wake \/ UNCHANGED Contract(t)!vars
<1> USE PoolAssumption DEF countVars
<1>1. /\ fate[s] = "spawned" /\ UNCHANGED <<fate, polling>>
      /\ cell' = [cell EXCEPT ![s] = WOKEN]
  BY DEF Wake
<1>2. \A u \in All : Polled(u)' <=> Polled(u)
  BY <1>1 DEF Polled
<1>3. CASE t = s
  <2>1. cell'[t] = WOKEN
    BY <1>1, <1>3 DEF IInv, TypeOK
  <2> QED BY <1>1, <1>2, <1>3, <2>1 DEF Contract!Wake
<1>4. CASE t # s
  BY <1>1, <1>2, <1>4, ContractUnmoved DEF Over, IInv, TypeOK
<1> QED BY <1>3, <1>4

(* The rest polls nothing and touches no cell; what it drops was not over. *)
LEMMA ContractFrame ==
  ASSUME IInv, NEW t \in All,
         \/ \E s \in Tasks : Spawn(s) \/ SendTask(s)
         \/ \E n \in Sizes : Resize(n)
         \/ DropExecutor
         \/ \E w \in Workers : RecvStatic(w) \/ RecvShutdown(w)
              \/ RecvDisconnected(w) \/ Moves(w) \/ ThreadExit(w)
         \/ \E w \in Workers, s \in StaticTasks : SpawnStatic(w, s)
         \/ \E s \in StaticTasks : SendId(s)
         \/ UNCHANGED vars
  PROVE  UNCHANGED Contract(t)!vars
<1> USE PoolAssumption DEF poolVars, wakeVars, countVars
<1>1. UNCHANGED <<polling, cell>>
  BY DEF Spawn, SendTask, Resize, DropExecutor, RecvStatic, RecvShutdown,
         RecvDisconnected, Pass, ThreadExit, SpawnStatic,
         SendId, vars
<1>2. \/ fate'[t] = fate[t]
      \/ fate[t] \in {"new", "spawned"} /\ fate'[t] \notin {"done", "unwound"}
  <2>1. ASSUME NEW s \in Tasks, SendTask(s) PROVE fate[s] = "spawned"
    BY <2>1 DEF SendTask, IInv, OneOwner
  <2>2. CASE \E s \in Tasks : Spawn(s) \/ SendTask(s)
    BY <2>1, <2>2 DEF Spawn, SendTask, IInv, TypeOK, All
  <2>3. CASE DropExecutor
    BY <2>3, DiscardSpawned DEF DropExecutor, Discard
  <2>4. CASE \E w \in Workers : ThreadExit(w)
    BY <2>4, DiscardSpawned DEF ThreadExit, Ready
  <2>5. CASE \E w \in Workers, s \in StaticTasks : SpawnStatic(w, s)
    BY <2>5 DEF SpawnStatic, IInv, TypeOK, All
  <2> QED
    BY <2>2, <2>3, <2>4, <2>5
       DEF Resize, RecvStatic, RecvShutdown, RecvDisconnected,
           Pass, SendId, vars
<1>3. Over(t)' <=> Over(t)
  BY <1>2 DEF Over
<1> QED BY <1>1, <1>3, ContractUnmoved DEF Polled

LEMMA ContractStep ==
  ASSUME IInv, [Next]_vars, NEW t \in All
  PROVE  [Contract(t)!Next]_(Contract(t)!vars)
<1>1. \/ Contract(t)!Start \/ Contract(t)!Finish \/ Contract(t)!Suspend
      \/ Contract(t)!Wake \/ UNCHANGED Contract(t)!vars
  BY ContractStart, ContractPollEnds, ContractWake, ContractFrame
     DEF Next, WorkerStep, Receive
<1> QED BY <1>1 DEF Contract!Next

(* Each task of the pool sees its waker keep the contract, whichever       *)
(* threads poll it, and through resize, panics of other tasks and the drop *)
(* of the last handle, provided that its cell does: that is WakerProofs'   *)
(* Refinement, of behaviours in which no wake meets a delayed reset.       *)
THEOREM WakerRefinement == Spec => ImplementsContract
<1>1. Init => \A t \in All : Contract(t)!Init
  BY PoolAssumption DEF Init, Contract!Init, Polled, All
<1>2. IInv /\ [Next]_vars =>
        [\A t \in All : [Contract(t)!Next]_(Contract(t)!vars)]_vars
  BY ContractStep
<1> QED
  BY <1>1, <1>2, Inductive, PTL DEF Spec, ImplementsContract

-----------------------------------------------------------------------------
(* The number of threads.                                                  *)

(* The threads that have not begun to leave. *)
Working == {w \in Workers : thread[w] \notin {"none", "exiting", "exited"}}

Unwound == \E t \in All : fate[t] = "unwound"

(* As long as resize has been called once at most and no poll has unwound, *)
(* the threads beyond the size asked for are those that a Shutdown is on   *)
(* its way to.  A second call starts from requested_threads again, which   *)
(* is not the number of threads then.                                      *)
SizeInv ==
  alive /\ resizes <= 1 /\ ~Unwound =>
    /\ resizes = 0 => size = requested_threads /\ shutdowns = 0
    /\ Cardinality(Working) = size + shutdowns

LEMMA WorkingFinite ==
  /\ IsFiniteSet(Working) /\ Cardinality(Working) \in Nat
  /\ requested_threads \in Nat
BY PoolAssumption, FS_Subset, FS_CardinalityType
   DEF Working, requested_threads

LEMMA WorkingSame ==
  ASSUME IInv, NEW w \in Workers, thread[w] \notin {"none", "exiting", "exited"},
         NEW s \in Selecting \cup {"poll", "static"},
         thread' = [thread EXCEPT ![w] = s]
  PROVE  Working' = Working
BY DEF Working, IInv, TypeOK

(* Nothing that SizeInv speaks of moves. *)
LEMMA SizeFrame ==
  ASSUME SizeInv, UNCHANGED <<resizes, size, shutdowns>>,
         alive' => alive, Unwound => Unwound', Working' = Working
  PROVE  SizeInv'
BY DEF SizeInv

(* An unwound task stays unwound. *)
LEMMA UnwoundStays ==
  ASSUME IInv, [Next]_vars, Unwound
  PROVE  Unwound'
<1> USE PoolAssumption
    DEF IInv, TypeOK, poolVars, staticVars, wakeVars, countVars
<1>1. PICK t \in All : fate[t] = "unwound"
  BY DEF Unwound
<1>2. SUFFICES fate'[t] = "unwound"
  BY DEF Unwound
<1>3. ASSUME NEW u \in Tasks, Spawn(u) \/ SendTask(u)
      PROVE  fate'[t] = "unwound"
  <2>1. SendTask(u) => fate[u] = "spawned"
    BY DEF SendTask, OneOwner
  <2> QED BY <1>1, <1>3, <2>1 DEF Spawn, SendTask
<1>4. CASE DropExecutor
  BY <1>1, <1>4, DiscardSpawned DEF DropExecutor, Discard
<1>5. ASSUME NEW w \in Workers, ThreadExit(w) PROVE fate'[t] = "unwound"
  BY <1>1, <1>5, DiscardSpawned DEF ThreadExit, Ready
<1>6. ASSUME NEW w \in Workers, PollReady(w) \/ PollPanic(w)
      PROVE  fate'[t] = "unwound"
  BY <1>1, <1>6, PollingSpawned DEF PollReady, PollPanic
<1>7. ASSUME NEW w \in Workers, NEW u \in StaticTasks, SpawnStatic(w, u)
      PROVE  fate'[t] = "unwound"
  BY <1>1, <1>7 DEF SpawnStatic
<1> QED
  BY <1>1, <1>3, <1>4, <1>5, <1>6, <1>7
     DEF Next, WorkerStep, Receive, PollEnds, Resize, RecvStatic, RecvTask,
         RecvShutdown, RecvDisconnected, RunStatic, Pass,
         PollPending, StaticPending, Wake, SendId, vars

(* The first call of resize: as many threads more as it asks for, or as    *)
(* many Shutdown messages as there are threads too many.                   *)
LEMMA SizeResize ==
  ASSUME IInv, SizeInv, NEW n \in Sizes, Resize(n)
  PROVE  SizeInv'
<1> USE PoolAssumption DEF IInv, TypeOK, ThreadState
<1>1. /\ alive /\ UNCHANGED <<alive, fate>> /\ size' = n /\ n \in Nat
      /\ resizes' = resizes + 1 /\ resizes \in Nat
  BY DEF Resize, countVars
<1>2. SUFFICES ASSUME resizes = 0, ~Unwound
               PROVE  Cardinality(Working') = n + shutdowns'
  BY <1>1 DEF SizeInv, Unwound
<1>3. Cardinality(Working) = requested_threads /\ shutdowns = 0
  BY <1>1, <1>2, WorkingFinite DEF SizeInv
<1>4. CASE Grow(n)
  <2>1. PICK new \in SUBSET {w \in Workers : thread[w] = "none"} :
          /\ Cardinality(new) = n - requested_threads
          /\ thread' = [w \in Workers |-> IF w \in new THEN "select"
                                                       ELSE thread[w]]
    BY <1>4 DEF Grow
  <2>2. Working' = Working \cup new /\ Working \cap new = {}
    BY <2>1 DEF Working
  <2>3. IsFiniteSet(new) /\ Cardinality(new) \in Nat
    BY FS_Subset, FS_CardinalityType
  <2>4. Cardinality(Working \cup new) = Cardinality(Working) + Cardinality(new)
                                         - Cardinality(Working \cap new)
    BY <2>3, WorkingFinite, FS_Union
  <2>5. Cardinality(Working \cap new) = 0
    BY <2>2, FS_EmptySet
  <2>6. Cardinality(Working') = Cardinality(Working) + Cardinality(new)
    BY <2>2, <2>3, <2>4, <2>5, WorkingFinite
  <2> QED BY <1>1, <1>3, <1>4, <2>1, <2>6, WorkingFinite DEF Grow
<1>5. CASE Shrink(n)
  BY <1>1, <1>3, <1>5, WorkingFinite DEF Shrink, Working
<1> QED BY <1>4, <1>5 DEF Resize

LEMMA SizeStep ==
  ASSUME IInv, SizeInv, [Next]_vars
  PROVE  SizeInv'
<1> USE PoolAssumption DEF poolVars, staticVars, wakeVars, countVars
<1>1. ASSUME NEW n \in Sizes, Resize(n) PROVE SizeInv'
  BY <1>1, SizeResize
<1>2. ASSUME NEW w \in Workers, RecvShutdown(w) PROVE SizeInv'
  <2>1. /\ shutdowns' = shutdowns - 1 /\ thread' = [thread EXCEPT ![w] = "exiting"]
        /\ thread[w] \in {"try_thread", "blocked"}
        /\ UNCHANGED <<alive, resizes, size, fate>> /\ shutdowns > 0
    BY <1>2 DEF RecvShutdown
  <2>2. Working' = Working \ {w} /\ w \in Working
    BY <2>1 DEF Working, IInv, TypeOK
  <2>3. Cardinality(Working') = Cardinality(Working) - 1
    BY <2>2, WorkingFinite, FS_RemoveElement
  <2> QED BY <2>1, <2>3, WorkingFinite DEF SizeInv, Unwound, IInv, TypeOK
<1>3. ASSUME NEW w \in Workers, PollPanic(w) PROVE SizeInv'
  <2>1. Unwound'
    BY <1>3, PollingSpawned DEF PollPanic, Unwound, IInv, TypeOK
  <2> QED BY <2>1 DEF SizeInv
<1>4. CASE ~alive \/ DropExecutor
  BY <1>4 DEF SizeInv, Next, WorkerStep, Receive, PollEnds, Resize, DropExecutor,
     Spawn, SendTask, RecvStatic, RecvTask, RecvShutdown, RecvDisconnected,
     RunStatic, Pass, ThreadExit, PollReady, PollPending,
     StaticPending, PollPanic, SpawnStatic, Wake, SendId, vars
<1>5. ASSUME NEW w \in Workers,
             \/ RecvStatic(w) \/ RecvTask(w) \/ RunStatic(w) \/ Moves(w)
             \/ PollReady(w) \/ PollPending(w) \/ StaticPending(w)
      PROVE  SizeInv'
  <2>1. \E s \in Selecting \cup {"poll", "static"} :
          thread' = [thread EXCEPT ![w] = s]
    BY <1>5 DEF RecvStatic, RecvTask, RunStatic, Pass,
       PollReady, PollPending, StaticPending, StartPoll, PollReturns
  <2>2. thread[w] \in Selecting \cup {"poll", "static"}
    BY <1>5 DEF RecvStatic, RecvTask, RunStatic, Pass,
       PollReady, PollPending, StaticPending
  <2>3. Working' = Working
    BY <2>1, <2>2, WorkingSame
  <2>4. UNCHANGED <<alive, resizes, size, shutdowns>>
    BY <1>5 DEF RecvStatic, RecvTask, RunStatic, Pass,
       PollReady, PollPending, StaticPending
  <2> QED BY <2>3, <2>4, SizeFrame, UnwoundStays
<1>6. ASSUME NEW w \in Workers, ThreadExit(w) PROVE SizeInv'
  <2>1. Working' = Working
    BY <1>6 DEF ThreadExit, Working, IInv, TypeOK
  <2> QED BY <1>6, <2>1, SizeFrame, UnwoundStays DEF ThreadExit
<1>7. CASE \/ \E t \in Tasks : Spawn(t) \/ SendTask(t)
           \/ \E w \in Workers, t \in StaticTasks : SpawnStatic(w, t)
           \/ \E t \in All : Wake(t)
           \/ \E t \in StaticTasks : SendId(t)
           \/ UNCHANGED vars
  <2>1. UNCHANGED <<alive, resizes, size, shutdowns, thread>>
    BY <1>7 DEF Spawn, SendTask, SpawnStatic, Wake, SendId, vars
  <2> QED BY <2>1, SizeFrame, UnwoundStays DEF Working
<1> QED
  BY <1>1, <1>2, <1>3, <1>4, <1>5, <1>6, <1>7
     DEF Next, WorkerStep, Receive, PollEnds, RecvDisconnected

LEMMA SizeInductive == Spec => []SizeInv
<1>1. Init => SizeInv
  <2> SUFFICES ASSUME Init PROVE SizeInv
    OBVIOUS
  <2>1. Working = Initial
    BY PoolAssumption DEF Init, Working
  <2> QED BY <2>1, WorkingFinite DEF Init, SizeInv, requested_threads
<1>2. IInv /\ SizeInv /\ [Next]_vars => SizeInv'
  BY SizeStep
<1> QED
  BY <1>1, <1>2, Inductive, PTL DEF Spec

(* After the first call of resize the pool comes to have the size asked    *)
(* for, whichever threads receive the Shutdown messages and in whatever    *)
(* order spawns, polls and wakes fall among them.                          *)
THEOREM SizeReached == Spec => [](resizes <= 1 => PoolReachesSize)
<1>1. IInv /\ SizeInv => (resizes <= 1 => PoolReachesSize)
  <2> SUFFICES ASSUME IInv, SizeInv, resizes <= 1, alive, shutdowns = 0, ~Unwound,
                      \A w \in Workers : thread[w] # "exiting"
               PROVE  Cardinality(Running) = size
    BY DEF PoolReachesSize, Unwound
  <2>1. Running = Working
    BY DEF Running, Working
  <2> QED BY <2>1 DEF SizeInv, IInv, TypeOK
<1> QED
  BY <1>1, SizeInductive, Inductive, PTL

(* Until then a thread is left to run what is spawned: the Shutdowns on    *)
(* their way are fewer than the threads that can take them, unless no      *)
(* thread was asked for.                                                   *)
WorkerLeft ==
  alive /\ resizes <= 1 /\ ~Unwound /\ size > 0 =>
    Cardinality(Working) > shutdowns

THEOREM WorkersRemain == Spec => []WorkerLeft
<1>1. IInv /\ SizeInv => WorkerLeft
  <2> SUFFICES ASSUME IInv, SizeInv,
                      alive, resizes <= 1, ~Unwound, size > 0
               PROVE  Cardinality(Working) > shutdowns
    BY DEF WorkerLeft
  <2>1. Cardinality(Working) = size + shutdowns
    BY DEF SizeInv
  <2>2. size \in Nat /\ shutdowns \in Nat
    BY DEF IInv, TypeOK
  <2> QED BY <2>1, <2>2
<1> QED
  BY <1>1, SizeInductive, Inductive, PTL

-----------------------------------------------------------------------------
(* What is proved of ExecutorContract holds of the pool, which implements  *)
(* it: the two instances are the same specification.                       *)
Promise == INSTANCE ExecutorContractProofs WITH
  Tasks <- All, Pinned <- StaticTasks,
  open <- alive, running <- polling, waited <- running_tasks,
  home <- [w \in Workers |-> Home(w)], task <- [t \in All |-> Status(t)]

LEMMA PromiseKept == Spec => Promise!Spec
<1>1. Executor!Init => Promise!Init
  BY DEF Executor!Init, Promise!Init
<1>2. Executor!Next => Promise!Next
  BY DEF Executor!Next, Executor!Submit, Executor!SubmitPinned,
         Executor!Start, Executor!Yield, Executor!Finish, Executor!Unwind,
         Executor!Ends, Executor!Abandon, Executor!Close, Executor!Shed,
         Executor!Idle,
         Promise!Next, Promise!Submit, Promise!SubmitPinned, Promise!Start,
         Promise!Yield, Promise!Finish, Promise!Unwind, Promise!Ends,
         Promise!Abandon, Promise!Close, Promise!Shed, Promise!Idle
<1>3. UNCHANGED Executor!vars => UNCHANGED Promise!vars
  BY DEF Executor!vars, Promise!vars
<1> QED
  BY <1>1, <1>2, <1>3, ExecutorRefinement, PTL
     DEF ImplementsExecutor, Executor!Spec, Promise!Spec

LEMMA FiniteTasks == Promise!IsFiniteSet(All) /\ NULL \notin All
BY PoolAssumption DEF IsFiniteSet, Promise!IsFiniteSet

(* drain, which waits for the counter, returns only when every task that   *)
(* has been spawned has finished and no worker polls one, static tasks     *)
(* included.                                                               *)
THEOREM DrainedMeansFinished ==
  Spec => [](running_tasks = 0 =>
               /\ \A t \in All : fate[t] \in {"new", "done"}
               /\ \A w \in Workers : polling[w] = NULL)
<1>1. TypeOK /\ Promise!NothingLeft =>
        (running_tasks = 0 =>
           /\ \A t \in All : fate[t] \in {"new", "done"}
           /\ \A w \in Workers : polling[w] = NULL)
  BY DEF Promise!NothingLeft, Status, TypeOK, Fate
<1>2. Promise!Spec => []Promise!NothingLeft
  BY FiniteTasks, Promise!DrainedMeansFinished
<1> QED
  BY <1>1, <1>2, PromiseKept, TypeCorrect, PTL

(* Once a task is dropped unfinished, by its panic, with the thread of a   *)
(* static task or with a queue, drain never returns again: the cause of    *)
(* what PoolShrinkStatic.cfg shows.                                        *)
SomeDropped == \E t \in All : fate[t] \in {"unwound", "lost", "refused"}

THEOREM DroppedBlocksDrain == Spec => [](SomeDropped => [](running_tasks # 0))
<1>1. SomeDropped => Promise!SomeAbandoned
  BY DEF SomeDropped, Promise!SomeAbandoned, Status
<1>2. Promise!Spec => [](Promise!SomeAbandoned => [](running_tasks # 0))
  BY FiniteTasks, Promise!AbandonedBlocksDrain
<1> QED
  BY <1>1, <1>2, PromiseKept, PTL
-----------------------------------------------------------------------------
(* What no thread that leaves can take away, in any pool: a task that is   *)
(* not static is dropped by a queue, or refused by one, only after the     *)
(* last handle went, and then the queue is not kept when the last thread   *)
(* leaves.                                                                 *)
KeptWhileAlive ==
  /\ \A t \in Tasks : fate[t] \in {"lost", "refused"} => ~alive
  /\ ~ChannelOpen => task_queue = <<>>

LEMMA KeptStep ==
  ASSUME IInv, KeptWhileAlive, [Next]_vars
  PROVE  KeptWhileAlive'
<1> USE PoolAssumption DEF IInv, TypeOK, KeptWhileAlive, ChannelOpen, Running,
    All, poolVars, staticVars, wakeVars, countVars
<1>1. ASSUME NEW t \in Tasks, Spawn(t) PROVE KeptWhileAlive'
  BY <1>1 DEF Spawn
<1>2. ASSUME NEW t \in Tasks, SendTask(t) PROVE KeptWhileAlive'
  BY <1>2 DEF SendTask
<1>3. ASSUME NEW n \in Sizes, Resize(n) PROVE KeptWhileAlive'
  BY <1>3 DEF Resize, Grow, Shrink
<1>4. CASE DropExecutor
  BY <1>4 DEF DropExecutor, Discard
<1>5. ASSUME NEW w \in Workers, RecvStatic(w) \/ RunStatic(w)
                                \/ Moves(w)
      PROVE  KeptWhileAlive'
  <2>1. Running' = Running
    BY <1>5 DEF RecvStatic, RunStatic, StartPoll, Pass
  <2>2. UNCHANGED <<alive, task_queue, fate>>
    BY <1>5 DEF RecvStatic, RunStatic, Pass
  <2> QED
    BY <2>1, <2>2
<1>6. ASSUME NEW w \in Workers, RecvTask(w) PROVE KeptWhileAlive'
  <2>1. w \in Running /\ w \in Running'
    BY <1>6 DEF RecvTask, StartPoll
  <2> QED
    BY <1>6, <2>1 DEF RecvTask, StartPoll
<1>7. ASSUME NEW w \in Workers, RecvShutdown(w) \/ RecvDisconnected(w)
      PROVE  KeptWhileAlive'
  <2>1. Running' = Running
    BY <1>7 DEF RecvShutdown, RecvDisconnected, Leave
  <2> QED
    BY <1>7, <2>1 DEF RecvShutdown, RecvDisconnected, Leave
<1>8. ASSUME NEW w \in Workers, PollEnds(w) PROVE KeptWhileAlive'
  <2>1. w \in Running /\ w \in Running'
    BY <1>8 DEF PollEnds, PollReady, PollPending, StaticPending, PollPanic,
                PollReturns, Leave
  <2> QED
    BY <1>8, <2>1 DEF PollEnds, PollReady, PollPending, StaticPending,
                      PollPanic, PollReturns, Leave
<1>9. ASSUME NEW w \in Workers, ThreadExit(w) PROVE KeptWhileAlive'
  <2>1. alive \/ Running # {w} => ChannelOpen
    BY <1>9 DEF ThreadExit
  <2>2. Running' = Running \ {w}
    BY <1>9 DEF ThreadExit
  <2> QED
    BY <1>9, <2>1, <2>2 DEF ThreadExit
<1>10. ASSUME NEW w \in Workers, NEW t \in StaticTasks, SpawnStatic(w, t)
       PROVE  KeptWhileAlive'
  BY <1>10 DEF SpawnStatic
<1>11. ASSUME NEW t \in All, Wake(t) PROVE KeptWhileAlive'
  BY <1>11 DEF Wake
<1>12. ASSUME NEW t \in StaticTasks, SendId(t) PROVE KeptWhileAlive'
  BY <1>12 DEF SendId
<1>13. CASE UNCHANGED vars
  BY <1>13 DEF vars
<1> QED
  BY <1>1, <1>2, <1>3, <1>4, <1>5, <1>6, <1>7, <1>8, <1>9, <1>10, <1>11,
     <1>12, <1>13 DEF Next, WorkerStep, Receive

(* A task is not lost while a handle to its executor is left, even in a    *)
(* pool whose threads have all been shut down or have unwound.             *)
THEOREM NothingLostWhileOpen == Spec => []KeptWhileAlive
<1>1. Init => KeptWhileAlive
  BY DEF Init, KeptWhileAlive, ChannelOpen, All
<1>2. IInv /\ KeptWhileAlive /\ [Next]_vars => KeptWhileAlive'
  BY KeptStep
<1> QED
  BY <1>1, <1>2, Inductive, PTL DEF Spec

=============================================================================
