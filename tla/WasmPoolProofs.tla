--------------------------- MODULE WasmPoolProofs ---------------------------
(* Proofs about the wasm pool of WasmPool.tla, for any number of threads,  *)
(* tasks, polls and resizes.                                               *)
EXTENDS WasmPool, OccurrenceProofs, FiniteSetTheorems, TLAPS

USE DEF CountTask, UncountTask, Remember, OnePerThread, TakeOut, InlineWake

(* Where a worker's locals and messages belong: polling is set while it is *)
(* in poll_task, a message is there only in recv, and a waiting worker has *)
(* none; the map is empty once it is gone.                                 *)
WorkInv ==
  /\ \A w \in Workers :
       /\ thread[w] \in {"poll", "insert", "check"} <=> polling[w] # NULL
       /\ thread[w] \in {"poll", "insert"} => info[w] = polls[polling[w]]
       /\ inbox[w] # NULL => thread[w] = "recv"
       /\ Contains(resume, w) => thread[w] = "recv" /\ inbox[w] = NULL
       /\ Once(resume, w)
  /\ ~MapLives => pending_tasks = {}

(* A task that may still be polled has a poll left.                        *)
BudgetInv ==
  \A t \in Tasks :
    \/ fate[t] \in {"done", "lost"}
    \/ \E w \in Workers : thread[w] = "poll" /\ polling[w] = t
    \/ polls[t] < MaxPolls

(* Drop for Internal drops the map after its own code has run. *)
MapInv == alive => map_alive

IInv == TypeOK /\ WorkInv /\ BudgetInv /\ OneOwner /\ WokenIsResumed
        /\ CounterExact /\ MapInv

-----------------------------------------------------------------------------
(* Messages. *)

LEMMA MessageKinds ==
  /\ \A s, t \in Tasks : NewTask(s) = NewTask(t) => s = t
  /\ \A s, t \in Tasks : ResumeTask(s) = ResumeTask(t) => s = t
  /\ \A s, t \in Tasks : NewTask(s) # ResumeTask(t)
  /\ \A t \in Tasks : NewTask(t) # Shutdown /\ ResumeTask(t) # Shutdown
  /\ \A t \in Tasks : NewTask(t) # NULL /\ ResumeTask(t) # NULL
  /\ \A t \in Tasks : NewTask(t) \in TaskMessage /\ ResumeTask(t) \in TaskMessage
  /\ Shutdown \in TaskMessage /\ Shutdown # NULL
<1>1. \A t \in Tasks : /\ NewTask(t).kind = "NewTask" /\ NewTask(t).task = t
                       /\ ResumeTask(t).kind = "ResumeTask"
                       /\ ResumeTask(t).task = t
                       /\ Shutdown.kind = "Shutdown"
  BY DEF NewTask, ResumeTask, Shutdown
<1>2. /\ \A t \in Tasks : NewTask(t) \in TaskMessage /\ ResumeTask(t) \in TaskMessage
      /\ Shutdown \in TaskMessage
  BY DEF TaskMessage
<1>3. NULL \notin TaskMessage
  BY WasmPoolAssumption
<1>4. \A t \in Tasks : NewTask(t) # Shutdown /\ ResumeTask(t) # Shutdown
  BY <1>1
<1> QED BY <1>1, <1>2, <1>3, <1>4

(* A message of a kind is the one of its task.                             *)
LEMMA MessageOf ==
  ASSUME NEW m \in TaskMessage
  PROVE  /\ m.kind = "NewTask" => m.task \in Tasks /\ m = NewTask(m.task)
         /\ m.kind = "ResumeTask" => m.task \in Tasks /\ m = ResumeTask(m.task)
         /\ m.kind = "Shutdown" => m = Shutdown
BY DEF TaskMessage, NewTask, ResumeTask, Shutdown

(* Sender::send adds one message, and disturbs no other.                   *)
LEMMA SendFacts ==
  ASSUME TypeOK, WorkInv, NEW m \in TaskMessage, Send(m)
  PROVE  /\ buffer' \in Seq(TaskMessage) /\ resume' \in Seq(Workers)
         /\ inbox' \in [Workers -> TaskMessage \cup {NULL}]
         /\ \A w \in Workers :
              /\ inbox'[w] # NULL => inbox[w] # NULL \/ thread[w] = "recv"
              /\ Contains(resume', w) => Contains(resume, w) /\ inbox'[w] = NULL
              /\ Once(resume', w)
         /\ \A x \in TaskMessage : Sent(x)' <=> Sent(x) \/ x = m
         /\ \A x \in TaskMessage :
              SentOnce(x) /\ (x = m => ~Sent(x)) => SentOnce(x)'
<1> USE WasmPoolAssumption DEF TypeOK, WorkInv
<1>1. CASE resume # <<>>
  <2> DEFINE h == Head(resume)
  <2>1. /\ inbox' = [inbox EXCEPT ![h] = m] /\ resume' = Tail(resume)
        /\ buffer' = buffer
    BY <1>1 DEF Send
  <2>2. /\ h \in Workers /\ Contains(resume, h) /\ resume' \in Seq(Workers)
        /\ \A w \in Workers : Contains(resume', w) => Contains(resume, w)
        /\ \A w \in Workers : Once(resume', w)
        /\ ~Contains(resume', h)
    BY <1>1, <2>1, TailMember
  <2>3. inbox[h] = NULL /\ thread[h] = "recv"
    BY <2>2
  <2> HIDE DEF h
  <2>4. \A x \in TaskMessage : Sent(x)' <=> Sent(x) \/ x = m
    BY <2>1, <2>2, <2>3 DEF Sent
  <2>5. ASSUME NEW x \in TaskMessage, SentOnce(x), x = m => ~Sent(x)
        PROVE  SentOnce(x)'
    BY <2>1, <2>2, <2>3, <2>5 DEF Sent, SentOnce
  <2> QED BY <2>1, <2>2, <2>3, <2>4, <2>5
<1>2. CASE resume = <<>>
  <2>1. buffer' = <<m>> \o buffer /\ UNCHANGED <<resume, inbox>>
    BY <1>2 DEF Send
  <2>2. buffer' \in Seq(TaskMessage)
    BY <2>1, PushMember
  <2>3. \A x \in TaskMessage : Contains(buffer', x) <=> Contains(buffer, x) \/ x = m
    BY <2>1, PushMember
  <2>4. \A x \in TaskMessage :
          Once(buffer, x) /\ (x = m => ~Contains(buffer, x)) => Once(buffer', x)
    BY <2>1, PushMember
  <2>5. \A x \in TaskMessage : Sent(x)' <=> Sent(x) \/ x = m
    BY <2>1, <2>3 DEF Sent
  <2>6. ASSUME NEW x \in TaskMessage, SentOnce(x), x = m => ~Sent(x)
        PROVE  SentOnce(x)'
    BY <2>1, <2>3, <2>4, <2>6 DEF Sent, SentOnce
  <2> QED BY <2>1, <2>2, <2>5, <2>6
<1> QED BY <1>1, <1>2

(* Receiver::recv moves a message, or queues the worker.                   *)
LEMMA RecvFacts ==
  ASSUME TypeOK, WorkInv, NEW w \in Workers, Recv(w)
  PROVE  /\ buffer' \in Seq(TaskMessage) /\ resume' \in Seq(Workers)
         /\ inbox' \in [Workers -> TaskMessage \cup {NULL}]
         /\ \A v \in Workers :
              /\ inbox'[v] # NULL => inbox[v] # NULL \/ thread[v] = "recv"
              /\ Contains(resume', v) => thread[v] = "recv" /\ inbox'[v] = NULL
              /\ Once(resume', v)
         /\ \A x \in TaskMessage : Sent(x)' <=> Sent(x)
         /\ \A x \in TaskMessage : SentOnce(x) => SentOnce(x)'
<1> USE WasmPoolAssumption DEF TypeOK, WorkInv
<1>1. /\ thread[w] = "recv" /\ inbox[w] = NULL /\ ~Contains(resume, w)
  BY DEF Recv
<1>2. CASE buffer # <<>>
  <2> DEFINE h == Head(buffer)
  <2>1. /\ inbox' = [inbox EXCEPT ![w] = h] /\ buffer' = Tail(buffer)
        /\ resume' = resume
    BY <1>2 DEF Recv
  <2>2. /\ h \in TaskMessage /\ Contains(buffer, h) /\ buffer' \in Seq(TaskMessage)
        /\ \A x \in TaskMessage :
             /\ Contains(buffer', x) => Contains(buffer, x)
             /\ Contains(buffer, x) => x = h \/ Contains(buffer', x)
             /\ Once(buffer, x) => Once(buffer', x)
             /\ Once(buffer, x) /\ x = h => ~Contains(buffer', x)
    BY <1>2, <2>1, TailMember
  <2> HIDE DEF h
  <2>3. \A x \in TaskMessage : Sent(x)' <=> Sent(x)
    BY <1>1, <2>1, <2>2 DEF Sent
  <2>4. ASSUME NEW x \in TaskMessage, SentOnce(x) PROVE SentOnce(x)'
    BY <1>1, <2>1, <2>2, <2>4 DEF SentOnce
  <2> QED BY <1>1, <2>1, <2>2, <2>3, <2>4
<1>3. CASE buffer = <<>>
  <2>1. resume' = <<w>> \o resume /\ UNCHANGED <<buffer, inbox>>
    BY <1>3 DEF Recv
  <2>2. /\ resume' \in Seq(Workers)
        /\ \A v \in Workers : Contains(resume', v) <=> Contains(resume, v) \/ v = w
        /\ \A v \in Workers : Once(resume', v)
    BY <1>1, <2>1, PushMember
  <2> QED BY <1>1, <2>1, <2>2 DEF Sent, SentOnce
<1> QED BY <1>2, <1>3

(* run_async takes a message out of the channel.                           *)
LEMMA ReceivesFacts ==
  ASSUME TypeOK, WorkInv, NEW w \in Workers, NEW k, Receives(w, k)
  PROVE  /\ thread[w] = "recv" /\ inbox[w] \in TaskMessage /\ inbox[w].kind = k
         /\ polling[w] = NULL /\ ~Contains(resume, w)
         /\ inbox' \in [Workers -> TaskMessage \cup {NULL}]
         /\ \A v \in Workers : inbox'[v] = IF v = w THEN NULL ELSE inbox[v]
         /\ Sent(inbox[w])
         /\ \A x \in TaskMessage :
              /\ Sent(x)' => Sent(x)
              /\ Sent(x) /\ x # inbox[w] => Sent(x)'
              /\ SentOnce(x) => SentOnce(x)'
              /\ SentOnce(x) /\ x = inbox[w] => ~Sent(x)'
<1> USE WasmPoolAssumption DEF TypeOK, WorkInv
<1>1. /\ thread[w] = "recv" /\ inbox[w] \in TaskMessage /\ inbox[w].kind = k
      /\ inbox' = [inbox EXCEPT ![w] = NULL] /\ buffer' = buffer
  BY DEF Receives
<1>2. \A x \in TaskMessage : x # NULL
  OBVIOUS
<1>3. polling[w] = NULL /\ ~Contains(resume, w)
  BY <1>1, <1>2
<1>4. /\ inbox' \in [Workers -> TaskMessage \cup {NULL}]
      /\ \A v \in Workers : inbox'[v] = IF v = w THEN NULL ELSE inbox[v]
  BY <1>1
<1> HIDE DEF TypeOK, WorkInv
<1>5. Sent(inbox[w])
  BY DEF Sent
<1>6. ASSUME NEW x \in TaskMessage
      PROVE  /\ Sent(x)' => Sent(x)
             /\ Sent(x) /\ x # inbox[w] => Sent(x)'
             /\ SentOnce(x) => SentOnce(x)'
             /\ SentOnce(x) /\ x = inbox[w] => ~Sent(x)'
  BY <1>1, <1>2, <1>4 DEF Sent, SentOnce
<1> QED BY <1>1, <1>3, <1>4, <1>5, <1>6

-----------------------------------------------------------------------------
(* The counter. *)

Fate == {"new", "spawned", "done", "lost"}

LEMMA CountedFinite ==
  ASSUME CounterExact
  PROVE  IsFiniteSet(Counted) /\ running_tasks \in Nat
BY WasmPoolAssumption, FS_Subset, FS_CardinalityType DEF Counted, CounterExact

LEMMA CounterUp ==
  ASSUME CounterExact, NEW t \in Tasks, fate \in [Tasks -> Fate],
         fate[t] = "new", fate' = [fate EXCEPT ![t] = "spawned"],
         running_tasks' = running_tasks + 1
  PROVE  CounterExact'
<1>1. Counted' = Counted \cup {t} /\ t \notin Counted
  BY DEF Counted
<1> QED
  BY <1>1, CountedFinite, FS_AddElement DEF CounterExact

LEMMA CounterDown ==
  ASSUME CounterExact, NEW t \in Tasks, fate \in [Tasks -> Fate],
         fate[t] = "spawned", fate' = [fate EXCEPT ![t] = "done"],
         running_tasks' = running_tasks - 1
  PROVE  CounterExact'
<1>1. Counted' = Counted \ {t} /\ t \in Counted
  BY DEF Counted
<1> QED
  BY <1>1, CountedFinite, FS_RemoveElement DEF CounterExact

LEMMA CounterSame ==
  ASSUME CounterExact, fate' \in [Tasks -> Fate],
         \A t \in Tasks :
           fate'[t] \in {"new", "done"} <=> fate[t] \in {"new", "done"},
         UNCHANGED running_tasks
  PROVE  CounterExact'
<1>1. Counted' = Counted
  BY DEF Counted
<1> QED
  BY <1>1 DEF CounterExact

(* The task in poll_task, before it is in the map, and the tasks in the    *)
(* map are spawned.                                                        *)
LEMMA OwnedSpawned ==
  ASSUME IInv
  PROVE  /\ \A w \in Workers : thread[w] \in {"poll", "insert"} =>
              polling[w] \in Tasks /\ fate[polling[w]] = "spawned"
         /\ \A t \in pending_tasks : t \in Tasks /\ fate[t] = "spawned"
<1>1. ASSUME NEW w \in Workers, thread[w] \in {"poll", "insert"}
      PROVE  polling[w] \in Tasks /\ fate[polling[w]] = "spawned"
  <2>1. polling[w] \in Tasks
    BY <1>1 DEF IInv, TypeOK, WorkInv
  <2> QED BY <1>1, <2>1 DEF IInv, OneOwner, Polled
<1> QED BY <1>1 DEF IInv, TypeOK, OneOwner

LEMMA CounterStep ==
  ASSUME IInv, [Next]_vars
  PROVE  CounterExact'
<1> USE DEF IInv, TypeOK, Fate, mapVars, taskVars
<1>1. ASSUME NEW t \in Tasks, Spawn(t) PROVE CounterExact'
  BY <1>1, CounterUp DEF Spawn
<1>2. ASSUME NEW n \in Sizes, Resize(n) PROVE CounterExact'
  BY <1>2, CounterSame DEF Resize
<1>3. CASE DropExecutor \/ SendShutdown
  BY <1>3, CounterSame DEF DropExecutor, SendShutdown
<1>4. CASE DropMap
  BY <1>4, CounterSame, OwnedSpawned DEF DropMap, DropReference
<1>5. ASSUME NEW w \in Workers,
             Recv(w) \/ HandleNewTask(w) \/ HandleResumeTask(w)
               \/ HandleDuplicate(w) \/ ResumeFails(w) \/ HandleShutdown(w)
      PROVE  CounterExact'
  BY <1>5, CounterSame
     DEF Recv, HandleNewTask, HandleResumeTask, HandleDuplicate, ResumeFails,
         HandleShutdown
<1>6. ASSUME NEW w \in Workers, PollReady(w) PROVE CounterExact'
  BY <1>6, CounterDown, OwnedSpawned DEF PollReady
<1>7. ASSUME NEW w \in Workers,
             PollPending(w) \/ InsertPending(w) \/ CheckInlineWake(w)
      PROVE  CounterExact'
  BY <1>7, CounterSame DEF PollPending, InsertPending, CheckInlineWake
<1>8. ASSUME NEW w \in Workers, InsertFails(w) PROVE CounterExact'
  BY <1>8, CounterSame, OwnedSpawned DEF InsertFails
<1>9. ASSUME NEW t \in Tasks, NEW n \in 1..MaxPolls,
             WakeStore(t, n) \/ WakeSend(t, n)
      PROVE  CounterExact'
  BY <1>9, CounterSame DEF WakeStore, WakeSend
<1>10. ASSUME NEW w \in Workers, Release(w) PROVE CounterExact'
  BY <1>10, CounterSame, OwnedSpawned DEF Release, DropReference
<1>11. CASE UNCHANGED vars
  BY <1>11, CounterSame DEF vars
<1> QED
  BY <1>1, <1>2, <1>3, <1>4, <1>5, <1>6, <1>7, <1>8, <1>9, <1>10,
     <1>11 DEF Next, WorkerStep

-----------------------------------------------------------------------------
(* What run_async takes on when it begins a poll. *)

LEMMA NewTaskFacts ==
  ASSUME IInv, NEW w \in Workers, Receives(w, "NewTask")
  PROVE  /\ inbox[w].task \in Tasks /\ inbox[w] = NewTask(inbox[w].task)
         /\ fate[inbox[w].task] = "spawned" /\ inbox[w].task \notin pending_tasks
         /\ \A v \in Workers : ~Polled(v, inbox[w].task)
         /\ polls[inbox[w].task] < MaxPolls
<1> DEFINE t == inbox[w].task
<1>1. t \in Tasks /\ inbox[w] = NewTask(t) /\ Sent(NewTask(t))
  BY ReceivesFacts, MessageOf DEF IInv
<1>2. /\ fate[t] = "spawned" /\ t \notin pending_tasks
      /\ \A v \in Workers : ~Polled(v, t)
  BY <1>1 DEF IInv, OneOwner
<1>3. polls[t] < MaxPolls
  BY <1>1, <1>2 DEF IInv, BudgetInv, Polled
<1> QED BY <1>1, <1>2, <1>3

LEMMA ResumeTaskFacts ==
  ASSUME IInv, NEW w \in Workers, HandleResumeTask(w)
  PROVE  /\ inbox[w].task \in Tasks /\ inbox[w] = ResumeTask(inbox[w].task)
         /\ fate[inbox[w].task] = "spawned" /\ inbox[w].task \in pending_tasks
         /\ ~Sent(NewTask(inbox[w].task))
         /\ \A v \in Workers : ~Polled(v, inbox[w].task)
         /\ polls[inbox[w].task] < MaxPolls
<1> DEFINE t == inbox[w].task
<1>1. t \in Tasks /\ inbox[w] = ResumeTask(t) /\ t \in pending_tasks
  BY ReceivesFacts, MessageOf DEF IInv, HandleResumeTask
<1>2. /\ fate[t] = "spawned" /\ ~Sent(NewTask(t))
      /\ \A v \in Workers : ~Polled(v, t)
  BY <1>1 DEF IInv, OneOwner
<1>3. polls[t] < MaxPolls
  BY <1>1, <1>2 DEF IInv, BudgetInv, Polled
<1> QED BY <1>1, <1>2, <1>3

-----------------------------------------------------------------------------
(* Types, locals and budgets. *)

(* poll_task's first steps keep the types, and the locals.                 *)
LEMMA TypePoll ==
  ASSUME IInv, NEW w \in Workers, NEW k, Receives(w, k),
         NEW t \in Tasks, polls[t] < MaxPolls, StartPoll(w, t),
         pending_tasks' \subseteq pending_tasks, holding' \subseteq Workers,
         UNCHANGED <<poolVars, wakeVars, running_tasks, fate>>
  PROVE  TypeOK'
<1> USE WasmPoolAssumption DEF IInv, TypeOK, ThreadState, poolVars, wakeVars
<1>1. polls[t] + 1 \in 0..MaxPolls
  OBVIOUS
<1>2. /\ thread' \in [Workers -> ThreadState]
      /\ polling' \in [Workers -> Tasks \cup {NULL}]
      /\ info' \in [Workers -> 0..MaxPolls]
      /\ polls' \in [Tasks -> 0..MaxPolls]
  BY <1>1 DEF StartPoll
<1> QED BY <1>2 DEF Receives

LEMMA TypeStep ==
  ASSUME IInv, [Next]_vars
  PROVE  TypeOK'
<1> USE WasmPoolAssumption DEF IInv, TypeOK, ThreadState, poolVars, chanVars,
    workVars, mapVars, wakeVars, taskVars
<1>0. running_tasks' \in Nat
  <2>1. running_tasks' = Cardinality(Counted') /\ Counted' \subseteq Tasks
    BY CounterStep DEF CounterExact, Counted
  <2> QED BY <2>1, FS_Subset, FS_CardinalityType
<1>1. ASSUME NEW t \in Tasks, Spawn(t) PROVE TypeOK'
  BY <1>0, <1>1, SendFacts, MessageKinds DEF Spawn
<1>2. ASSUME NEW n \in Sizes, Resize(n) PROVE TypeOK'
  BY <1>0, <1>2 DEF Resize
<1>3. CASE DropExecutor
  BY <1>3 DEF DropExecutor
<1>4. CASE SendShutdown
  BY <1>0, <1>4, SendFacts, MessageKinds DEF SendShutdown
<1>5. CASE DropMap
  BY <1>5 DEF DropMap, DropReference
<1>6. ASSUME NEW w \in Workers, Recv(w) PROVE TypeOK'
  BY <1>6, RecvFacts DEF Recv
<1>7. ASSUME NEW w \in Workers, HandleNewTask(w) PROVE TypeOK'
  BY <1>7, NewTaskFacts, TypePoll DEF HandleNewTask
<1>8. ASSUME NEW w \in Workers, HandleResumeTask(w) PROVE TypeOK'
  BY <1>8, ResumeTaskFacts, TypePoll DEF HandleResumeTask
<1>9. ASSUME NEW w \in Workers,
             HandleDuplicate(w) \/ ResumeFails(w) \/ HandleShutdown(w)
      PROVE  TypeOK'
  BY <1>9 DEF HandleDuplicate, ResumeFails, HandleShutdown, Receives
<1>10. ASSUME NEW w \in Workers,
              PollReady(w) \/ PollPending(w) \/ InsertFails(w)
       PROVE  TypeOK'
  BY <1>0, <1>10 DEF PollReady, PollPending, InsertFails
<1>11. ASSUME NEW w \in Workers, InsertPending(w) PROVE TypeOK'
  BY <1>11 DEF InsertPending, WorkInv
<1>12. ASSUME NEW w \in Workers, CheckInlineWake(w) PROVE TypeOK'
  <2>1. polling[w] \in Tasks
    BY <1>12 DEF CheckInlineWake, WorkInv
  <2>2. /\ buffer' \in Seq(TaskMessage) /\ resume' \in Seq(Workers)
        /\ inbox' \in [Workers -> TaskMessage \cup {NULL}]
    BY <1>12, <2>1, SendFacts, MessageKinds DEF CheckInlineWake
  <2> QED BY <1>12, <2>2 DEF CheckInlineWake
<1>13. ASSUME NEW t \in Tasks, NEW n \in 1..MaxPolls, WakeStore(t, n)
       PROVE  TypeOK'
  <2>1. <<t, n>> \in Wakes /\ woken' \subseteq Wakes
    BY <1>13 DEF WakeStore, Wakes
  <2>2. sending' \in [Wakes -> Nat]
    BY <1>13, <2>1 DEF WakeStore
  <2>3. extra' \in 0..MaxExtra
    BY <1>13 DEF WakeStore
  <2> QED BY <1>13, <2>1, <2>2, <2>3 DEF WakeStore
<1>14. ASSUME NEW t \in Tasks, NEW n \in 1..MaxPolls, WakeSend(t, n)
       PROVE  TypeOK'
  <2>1. /\ buffer' \in Seq(TaskMessage) /\ resume' \in Seq(Workers)
        /\ inbox' \in [Workers -> TaskMessage \cup {NULL}]
    BY <1>14, SendFacts, MessageKinds DEF WakeSend
  <2>2. <<t, n>> \in Wakes
    BY DEF Wakes
  <2>3. sending' \in [Wakes -> Nat]
    BY <1>14, <2>2 DEF WakeSend
  <2> QED BY <1>14, <2>1, <2>3 DEF WakeSend
<1>15. ASSUME NEW w \in Workers, Release(w) PROVE TypeOK'
  BY <1>15 DEF Release, DropReference
<1>16. CASE UNCHANGED vars
  BY <1>16 DEF vars
<1> QED
  BY <1>1, <1>2, <1>3, <1>4, <1>5, <1>6, <1>7, <1>8, <1>9, <1>10, <1>11,
     <1>12, <1>13, <1>14, <1>15, <1>16 DEF Next, WorkerStep

(* A step that only sends keeps the locals.                                *)
LEMMA WorkSend ==
  ASSUME TypeOK, WorkInv, NEW m \in TaskMessage, Send(m),
         UNCHANGED <<thread, polling, info, polls, map_alive, mapVars>>
  PROVE  WorkInv'
BY SendFacts DEF WorkInv, MapLives, mapVars

LEMMA WorkPoll ==
  ASSUME IInv, NEW w \in Workers, NEW k, Receives(w, k),
         NEW t \in Tasks, \A v \in Workers : ~Polled(v, t), StartPoll(w, t),
         pending_tasks' \subseteq pending_tasks, MapLives => MapLives',
         UNCHANGED poolVars
  PROVE  WorkInv'
<1> USE WasmPoolAssumption DEF IInv, poolVars
<1>1. /\ thread[w] = "recv" /\ ~Contains(resume, w)
      /\ \A v \in Workers : inbox'[v] = IF v = w THEN NULL ELSE inbox[v]
  BY ReceivesFacts
<1>2. UNCHANGED resume
  BY DEF Receives
<1>3. ASSUME NEW v \in Workers
      PROVE  /\ thread'[v] = IF v = w THEN "poll" ELSE thread[v]
             /\ polling'[v] = IF v = w THEN t ELSE polling[v]
             /\ info'[v] = IF v = w THEN polls[t] + 1 ELSE info[v]
  BY DEF StartPoll, TypeOK
<1>4. ASSUME NEW s \in Tasks
      PROVE  polls'[s] = IF s = t THEN polls[t] + 1 ELSE polls[s]
  BY DEF StartPoll, TypeOK
<1>5. ASSUME NEW v \in Workers, thread'[v] \in {"poll", "insert"}
      PROVE  info'[v] = polls'[polling'[v]]
  <2>1. CASE v = w
    BY <1>3, <1>4, <2>1
  <2>2. CASE v # w
    <3>1. polling[v] \in Tasks /\ polling[v] # t /\ info[v] = polls[polling[v]]
      BY <1>3, <1>5, <2>2 DEF WorkInv, TypeOK, Polled
    <3> QED BY <1>3, <1>4, <2>2, <3>1
  <2> QED BY <2>1, <2>2
<1> QED BY <1>1, <1>2, <1>3, <1>5 DEF WorkInv

LEMMA WorkStep ==
  ASSUME IInv, [Next]_vars
  PROVE  WorkInv'
<1> USE WasmPoolAssumption DEF IInv, poolVars, chanVars,
    workVars, mapVars, wakeVars, taskVars, MapLives
<1>1. ASSUME NEW t \in Tasks, Spawn(t) PROVE WorkInv'
  BY <1>1, WorkSend, MessageKinds DEF Spawn
<1>2. ASSUME NEW n \in Sizes, Resize(n) PROVE WorkInv'
  BY <1>2 DEF Resize, WorkInv, TypeOK
<1>3. CASE DropExecutor
  BY <1>3 DEF DropExecutor, WorkInv
<1>4. CASE SendShutdown
  BY <1>4, WorkSend, MessageKinds DEF SendShutdown
<1>5. CASE DropMap
  BY <1>5 DEF DropMap, DropReference, WorkInv
<1>6. ASSUME NEW w \in Workers, Recv(w) PROVE WorkInv'
  <2>1. UNCHANGED <<thread, polling, info, polls, map_alive, mapVars>>
    BY <1>6 DEF Recv
  <2> QED BY <1>6, <2>1, RecvFacts DEF WorkInv
<1>7. ASSUME NEW w \in Workers, HandleNewTask(w) PROVE WorkInv'
  BY <1>7, NewTaskFacts, WorkPoll DEF HandleNewTask
<1>8. ASSUME NEW w \in Workers, HandleResumeTask(w) PROVE WorkInv'
  BY <1>8, ResumeTaskFacts, WorkPoll DEF HandleResumeTask
<1>9. ASSUME NEW w \in Workers,
             HandleDuplicate(w) \/ ResumeFails(w) \/ HandleShutdown(w)
      PROVE  WorkInv'
  <2>1. CASE HandleDuplicate(w)
    BY <2>1, ReceivesFacts DEF HandleDuplicate, WorkInv, TypeOK, Receives
  <2>2. CASE ResumeFails(w)
    BY <2>2, ReceivesFacts DEF ResumeFails, Receives, WorkInv, TypeOK
  <2>3. CASE HandleShutdown(w)
    BY <2>3, ReceivesFacts DEF HandleShutdown, Receives, WorkInv, TypeOK
  <2> QED BY <1>9, <2>1, <2>2, <2>3
<1>10. ASSUME NEW w \in Workers,
              PollReady(w) \/ PollPending(w) \/ InsertFails(w)
                \/ InsertPending(w)
       PROVE  WorkInv'
  <2>1. CASE PollReady(w) \/ PollPending(w)
    BY <2>1 DEF PollReady, PollPending, WorkInv, TypeOK
  <2>2. CASE InsertFails(w)
    BY <2>2 DEF InsertFails, WorkInv, TypeOK
  <2>3. CASE InsertPending(w)
    BY <2>3 DEF InsertPending, WorkInv, TypeOK
  <2> QED BY <1>10, <2>1, <2>2, <2>3
<1>11. ASSUME NEW w \in Workers, CheckInlineWake(w) PROVE WorkInv'
  <2>1. polling[w] \in Tasks /\ inbox[w] = NULL /\ ~Contains(resume, w)
    BY <1>11 DEF CheckInlineWake, WorkInv, TypeOK
  <2>2. CASE <<polling[w], info[w]>> \in woken
    <3>1. Send(ResumeTask(polling[w])) /\ ResumeTask(polling[w]) \in TaskMessage
      BY <1>11, <2>1, <2>2, MessageKinds DEF CheckInlineWake
    <3> QED BY <1>11, <2>1, <3>1, SendFacts DEF CheckInlineWake, WorkInv, TypeOK
  <2>3. CASE <<polling[w], info[w]>> \notin woken
    BY <1>11, <2>1, <2>3 DEF CheckInlineWake, WorkInv, TypeOK
  <2> QED BY <2>2, <2>3
<1>12. ASSUME NEW t \in Tasks, NEW n \in 1..MaxPolls, WakeStore(t, n)
       PROVE  WorkInv'
  BY <1>12 DEF WakeStore, WorkInv
<1>13. ASSUME NEW t \in Tasks, NEW n \in 1..MaxPolls, WakeSend(t, n)
       PROVE  WorkInv'
  BY <1>13, WorkSend, MessageKinds DEF WakeSend
<1>14. ASSUME NEW w \in Workers, Release(w) PROVE WorkInv'
  BY <1>14 DEF Release, DropReference, WorkInv, TypeOK
<1>15. CASE UNCHANGED vars
  BY <1>15 DEF vars, WorkInv
<1> QED
  BY <1>1, <1>2, <1>3, <1>4, <1>5, <1>6, <1>7, <1>8, <1>9, <1>10, <1>11,
     <1>12, <1>13, <1>14, <1>15 DEF Next, WorkerStep

LEMMA BudgetStep ==
  ASSUME IInv, [Next]_vars
  PROVE  BudgetInv'
<1> USE DEF IInv, TypeOK, BudgetInv, poolVars, chanVars, workVars, mapVars,
    wakeVars, taskVars
<1>1. ASSUME NEW t \in Tasks, Spawn(t) PROVE BudgetInv'
  BY <1>1 DEF Spawn
<1>2. ASSUME NEW n \in Sizes, Resize(n) PROVE BudgetInv'
  BY <1>2 DEF Resize
<1>3. CASE DropExecutor \/ SendShutdown \/ DropMap
  BY <1>3 DEF DropExecutor, SendShutdown, DropMap, DropReference
<1>4. ASSUME NEW w \in Workers, Recv(w) PROVE BudgetInv'
  BY <1>4 DEF Recv
<1>5. ASSUME NEW w \in Workers, HandleNewTask(w) PROVE BudgetInv'
  BY <1>5, NewTaskFacts, ReceivesFacts DEF HandleNewTask, StartPoll, WorkInv
<1>6. ASSUME NEW w \in Workers, HandleResumeTask(w) PROVE BudgetInv'
  BY <1>6, ResumeTaskFacts, ReceivesFacts DEF HandleResumeTask, StartPoll, WorkInv
<1>7. ASSUME NEW w \in Workers,
             HandleDuplicate(w) \/ ResumeFails(w) \/ HandleShutdown(w)
      PROVE  BudgetInv'
  BY <1>7 DEF HandleDuplicate, ResumeFails, HandleShutdown, Receives
<1>8. ASSUME NEW w \in Workers, PollReady(w) \/ PollPending(w) PROVE BudgetInv'
  <2>1. \A v \in Workers : v # w =>
          thread'[v] = thread[v] /\ polling'[v] = polling[v]
    BY <1>8 DEF PollReady, PollPending
  <2>2. UNCHANGED polls
    BY <1>8 DEF PollReady, PollPending
  <2>3. ASSUME NEW t \in Tasks, polling[w] # t PROVE fate'[t] = fate[t]
    BY <1>8, <2>3 DEF PollReady, PollPending
  <2>4. ASSUME NEW t \in Tasks, polling[w] = t
        PROVE  fate'[t] = "done" \/ polls[t] < MaxPolls
    BY <1>8, <2>4 DEF PollReady, PollPending
  <2> QED BY <2>1, <2>2, <2>3, <2>4
<1>9. ASSUME NEW w \in Workers,
             InsertFails(w) \/ InsertPending(w) \/ CheckInlineWake(w)
      PROVE  BudgetInv'
  <2>1. \A v \in Workers : thread[v] = "poll" =>
          thread'[v] = "poll" /\ polling'[v] = polling[v]
    BY <1>9 DEF InsertFails, InsertPending, CheckInlineWake
  <2>2. /\ polls' = polls
        /\ \A t \in Tasks : fate'[t] = fate[t] \/ fate'[t] = "lost"
    BY <1>9 DEF InsertFails, InsertPending, CheckInlineWake
  <2> QED BY <2>1, <2>2
<1>10. ASSUME NEW t \in Tasks, NEW n \in 1..MaxPolls,
              WakeStore(t, n) \/ WakeSend(t, n)
       PROVE  BudgetInv'
  BY <1>10 DEF WakeStore, WakeSend
<1>11. ASSUME NEW w \in Workers, Release(w) PROVE BudgetInv'
  BY <1>11 DEF Release, DropReference
<1>12. CASE UNCHANGED vars
  BY <1>12 DEF vars
<1> QED
  BY <1>1, <1>2, <1>3, <1>4, <1>5, <1>6, <1>7, <1>8, <1>9, <1>10, <1>11,
     <1>12 DEF Next, WorkerStep

-----------------------------------------------------------------------------
(* One owner. *)

(* A step that neither adds nor takes a NewTask, and leaves the tasks with *)
(* the workers and in the map where they are.                              *)
LEMMA OwnerSame ==
  ASSUME OneOwner,
         \A t \in Tasks : /\ Sent(NewTask(t))' <=> Sent(NewTask(t))
                          /\ SentOnce(NewTask(t)) => SentOnce(NewTask(t))'
                          /\ fate'[t] = fate[t]
                          /\ \A w \in Workers : Polled(w, t)' <=> Polled(w, t),
         UNCHANGED pending_tasks
  PROVE  OneOwner'
<1>1. \A t \in Tasks : t \in pending_tasks' <=> t \in pending_tasks
  OBVIOUS
<1>2. \A t \in Tasks : fate'[t] = "spawned" <=> fate[t] = "spawned"
  OBVIOUS
<1> QED BY <1>1, <1>2 DEF OneOwner

(* Sending an id or Shutdown is such a step. *)
LEMMA OtherSent ==
  ASSUME TypeOK, WorkInv, NEW m \in TaskMessage, Send(m),
         \A t \in Tasks : NewTask(t) # m
  PROVE  \A t \in Tasks : /\ Sent(NewTask(t))' <=> Sent(NewTask(t))
                          /\ SentOnce(NewTask(t)) => SentOnce(NewTask(t))'
BY SendFacts, MessageKinds

(* The same channel. *)
LEMMA SameSent ==
  ASSUME UNCHANGED chanVars
  PROVE  \A m \in TaskMessage : (Sent(m)' <=> Sent(m)) /\ (SentOnce(m)' <=> SentOnce(m))
BY DEF chanVars, Sent, SentOnce

LEMMA OwnerPoll ==
  ASSUME IInv, NEW w \in Workers, NEW k, Receives(w, k),
         NEW t \in Tasks, StartPoll(w, t), fate[t] = "spawned",
         \A v \in Workers : ~Polled(v, t), t \notin pending_tasks',
         \A s \in Tasks : s # t => (s \in pending_tasks' <=> s \in pending_tasks),
         \A s \in Tasks : s # t => inbox[w] # NewTask(s),
         ~Sent(NewTask(t))', UNCHANGED fate
  PROVE  OneOwner'
<1> USE DEF IInv
<1>1. \A s \in Tasks : SentOnce(NewTask(s))'
  BY ReceivesFacts, MessageKinds DEF OneOwner
<1>2. \A s \in Tasks : s # t => (Sent(NewTask(s))' <=> Sent(NewTask(s)))
  BY ReceivesFacts, MessageKinds
<1>3. \A v \in Workers, s \in Tasks : Polled(v, s)' <=> Polled(v, s) \/ (v = w /\ s = t)
  BY ReceivesFacts DEF StartPoll, TypeOK, Polled
<1>4. ASSUME NEW s \in Tasks, s # t
      PROVE  /\ \A v \in Workers : Polled(v, s)' <=> Polled(v, s)
             /\ fate'[s] = "spawned" <=> fate[s] = "spawned"
             /\ s \in pending_tasks' <=> s \in pending_tasks
             /\ Sent(NewTask(s))' <=> Sent(NewTask(s))
  BY <1>2, <1>3, <1>4
<1>5. /\ fate'[t] = "spawned" /\ ~Sent(NewTask(t))' /\ t \notin pending_tasks'
      /\ \A v \in Workers : Polled(v, t)' <=> v = w
  BY <1>3
<1> QED BY <1>1, <1>4, <1>5 DEF OneOwner

(* The tasks of the map are lost with it, and no other.                    *)
LEMMA OwnerDrop ==
  ASSUME IInv, DropReference, UNCHANGED chanVars,
         \A t \in Tasks, w \in Workers : Polled(w, t)' <=> Polled(w, t)
  PROVE  OneOwner'
<1>1. \A t \in Tasks : /\ Sent(NewTask(t))' <=> Sent(NewTask(t))
                       /\ SentOnce(NewTask(t)) => SentOnce(NewTask(t))'
  BY SameSent, MessageKinds
<1>2. CASE MapLives'
  BY <1>1, <1>2, OwnerSame DEF DropReference, IInv
<1>3. CASE ~MapLives'
  <2>1. pending_tasks' = {} /\ \A t \in Tasks :
          fate'[t] = IF t \in pending_tasks THEN "lost" ELSE fate[t]
    BY <1>3 DEF DropReference
  <2> QED BY <1>1, <2>1 DEF OneOwner, IInv
<1> QED BY <1>2, <1>3

LEMMA OwnerStep ==
  ASSUME IInv, [Next]_vars
  PROVE  OneOwner'
<1> USE WasmPoolAssumption DEF IInv, poolVars, workVars, mapVars, wakeVars,
    taskVars
<1>1. ASSUME NEW t \in Tasks, Spawn(t) PROVE OneOwner'
  <2>1. fate[t] = "new" /\ Send(NewTask(t))
        /\ UNCHANGED <<thread, polling, pending_tasks>>
    BY <1>1 DEF Spawn
  <2>2. /\ ~Sent(NewTask(t)) /\ t \notin pending_tasks
        /\ \A w \in Workers : ~Polled(w, t)
    BY <2>1 DEF OneOwner
  <2>3. \A s \in Tasks : /\ SentOnce(NewTask(s))'
                         /\ Sent(NewTask(s))' <=> Sent(NewTask(s)) \/ s = t
    BY <2>1, <2>2, SendFacts, MessageKinds DEF OneOwner
  <2>4. \A s \in Tasks : fate'[s] = IF s = t THEN "spawned" ELSE fate[s]
    BY <1>1 DEF Spawn, TypeOK
  <2>5. \A s \in Tasks, w \in Workers : Polled(w, s)' <=> Polled(w, s)
    BY <2>1 DEF Polled
  <2> QED BY <2>1, <2>2, <2>3, <2>4, <2>5 DEF OneOwner
<1>2. ASSUME NEW n \in Sizes, Resize(n) PROVE OneOwner'
  <2>1. \A t \in Tasks, w \in Workers : Polled(w, t)' <=> Polled(w, t)
    BY <1>2 DEF Resize, Polled, TypeOK
  <2>2. UNCHANGED <<fate, pending_tasks, chanVars>>
    BY <1>2 DEF Resize
  <2> QED BY <2>1, <2>2, OwnerSame, SameSent, MessageKinds
<1>3. CASE DropExecutor
  <2>1. UNCHANGED <<fate, pending_tasks, chanVars, thread, polling>>
    BY <1>3 DEF DropExecutor
  <2> QED BY <2>1, OwnerSame, SameSent, MessageKinds DEF Polled
<1>4. CASE SendShutdown
  <2>1. UNCHANGED <<fate, pending_tasks, thread, polling>> /\ Send(Shutdown)
    BY <1>4 DEF SendShutdown
  <2> QED BY <2>1, OwnerSame, OtherSent, MessageKinds DEF Polled
<1>5. CASE DropMap
  BY <1>5, OwnerDrop DEF DropMap, Polled
<1>6. ASSUME NEW w \in Workers, Recv(w) PROVE OneOwner'
  <2>1. UNCHANGED <<fate, pending_tasks, thread, polling>>
    BY <1>6 DEF Recv
  <2> QED BY <1>6, <2>1, RecvFacts, OwnerSame, MessageKinds DEF Polled
<1>7. ASSUME NEW w \in Workers, HandleNewTask(w) PROVE OneOwner'
  <2>1. Receives(w, "NewTask") /\ StartPoll(w, inbox[w].task)
        /\ UNCHANGED <<pending_tasks, fate>>
    BY <1>7 DEF HandleNewTask
  <2>2. PICK t \in Tasks : t = inbox[w].task
    BY <2>1, NewTaskFacts
  <2>3. ~Sent(NewTask(t))'
    BY <2>1, <2>2, NewTaskFacts, ReceivesFacts, MessageKinds DEF OneOwner
  <2> QED BY <2>1, <2>2, <2>3, NewTaskFacts, MessageKinds, OwnerPoll
<1>8. ASSUME NEW w \in Workers, HandleResumeTask(w) PROVE OneOwner'
  <2>1. Receives(w, "ResumeTask") /\ StartPoll(w, inbox[w].task)
        /\ pending_tasks' = pending_tasks \ {inbox[w].task} /\ UNCHANGED fate
    BY <1>8 DEF HandleResumeTask
  <2>2. PICK t \in Tasks : t = inbox[w].task
    BY <1>8, ResumeTaskFacts
  <2>3. ~Sent(NewTask(t))'
    BY <1>8, <2>1, <2>2, ResumeTaskFacts, ReceivesFacts, MessageKinds
  <2> QED BY <1>8, <2>1, <2>2, <2>3, ResumeTaskFacts, MessageKinds, OwnerPoll
<1>9. ASSUME NEW w \in Workers, NEW k, k # "NewTask", Receives(w, k),
             UNCHANGED <<fate, pending_tasks, polling>>,
             thread' = thread \/ thread' = [thread EXCEPT ![w] = "crashed"]
                              \/ thread' = [thread EXCEPT ![w] = "left"]
      PROVE  OneOwner'
  <2>1. \A t \in Tasks : inbox[w] # NewTask(t)
    BY <1>9, ReceivesFacts DEF NewTask
  <2>2. \A t \in Tasks : /\ Sent(NewTask(t))' <=> Sent(NewTask(t))
                         /\ SentOnce(NewTask(t)) => SentOnce(NewTask(t))'
    BY <1>9, <2>1, ReceivesFacts, MessageKinds
  <2>3. \A t \in Tasks, v \in Workers : Polled(v, t)' <=> Polled(v, t)
    BY <1>9, ReceivesFacts DEF Polled, TypeOK
  <2> QED BY <1>9, <2>2, <2>3, OwnerSame
<1>10. ASSUME NEW w \in Workers,
              HandleDuplicate(w) \/ ResumeFails(w) \/ HandleShutdown(w)
       PROVE  OneOwner'
  BY <1>9, <1>10 DEF HandleDuplicate, ResumeFails, HandleShutdown
<1>11. ASSUME NEW w \in Workers, PollReady(w) \/ InsertFails(w) \/ InsertPending(w)
       PROVE  OneOwner'
  <2>0. PICK t \in Tasks : t = polling[w]
    BY <1>11, OwnedSpawned DEF PollReady, InsertFails, InsertPending
  <2>1. Polled(w, t) /\ UNCHANGED chanVars
    BY <1>11, <2>0 DEF PollReady, InsertFails, InsertPending, Polled
  <2>2. \A s \in Tasks : /\ Sent(NewTask(s))' <=> Sent(NewTask(s))
                         /\ SentOnce(NewTask(s))' <=> SentOnce(NewTask(s))
    BY <2>1, SameSent, MessageKinds
  <2>3. \A v \in Workers, s \in Tasks : Polled(v, s)' <=> Polled(v, s) /\ v # w
    BY <1>11 DEF PollReady, InsertFails, InsertPending, Polled, TypeOK
  <2>4. /\ ~Sent(NewTask(t)) /\ t \notin pending_tasks /\ fate[t] = "spawned"
        /\ \A v \in Workers : Polled(v, t) => v = w
        /\ \A s \in Tasks : Polled(w, s) => s = t
    BY <2>0, <2>1 DEF OneOwner, Polled
  <2>5. \A s \in Tasks : s # t => /\ fate'[s] = fate[s]
                                  /\ s \in pending_tasks' <=> s \in pending_tasks
    BY <1>11, <2>0 DEF PollReady, InsertFails, InsertPending, TypeOK
  <2>6. fate'[t] = "spawned" <=> t \in pending_tasks'
    BY <1>11, <2>0, <2>4 DEF PollReady, InsertFails, InsertPending, TypeOK
  <2>7. ASSUME NEW s \in Tasks, s # t
        PROVE  \A v \in Workers : Polled(v, s)' <=> Polled(v, s)
    BY <2>3, <2>4, <2>7
  <2>8. \A v \in Workers : ~Polled(v, t)'
    BY <2>1, <2>3, <2>4
  <2> QED BY <2>1, <2>2, <2>4, <2>5, <2>6, <2>7, <2>8 DEF OneOwner
<1>12. ASSUME NEW w \in Workers, PollPending(w) PROVE OneOwner'
  <2>1. UNCHANGED <<fate, pending_tasks, chanVars>>
    BY <1>12 DEF PollPending
  <2>2. \A t \in Tasks, v \in Workers : Polled(v, t)' <=> Polled(v, t)
    BY <1>12 DEF PollPending, Polled, TypeOK
  <2> QED BY <2>1, <2>2, OwnerSame, SameSent, MessageKinds
<1>13. ASSUME NEW w \in Workers, CheckInlineWake(w) PROVE OneOwner'
  <2>1. UNCHANGED <<fate, pending_tasks>> /\ polling[w] \in Tasks
    BY <1>13 DEF CheckInlineWake, WorkInv, TypeOK
  <2>2. \A t \in Tasks, v \in Workers : Polled(v, t)' <=> Polled(v, t)
    BY <1>13 DEF CheckInlineWake, Polled, TypeOK
  <2>3. UNCHANGED chanVars \/ Send(ResumeTask(polling[w]))
    BY <1>13 DEF CheckInlineWake
  <2> QED BY <2>1, <2>2, <2>3, OwnerSame, OtherSent, SameSent, MessageKinds
<1>14. ASSUME NEW t \in Tasks, NEW n \in 1..MaxPolls, WakeStore(t, n)
       PROVE  OneOwner'
  <2>1. UNCHANGED <<fate, pending_tasks, chanVars, thread, polling>>
    BY <1>14 DEF WakeStore
  <2> QED BY <2>1, OwnerSame, SameSent, MessageKinds DEF Polled
<1>15. ASSUME NEW t \in Tasks, NEW n \in 1..MaxPolls, WakeSend(t, n)
       PROVE  OneOwner'
  <2>1. UNCHANGED <<fate, pending_tasks, thread, polling>> /\ Send(ResumeTask(t))
    BY <1>15 DEF WakeSend
  <2> QED BY <2>1, OwnerSame, OtherSent, MessageKinds DEF Polled
<1>16. ASSUME NEW w \in Workers, Release(w) PROVE OneOwner'
  <2>1. \A t \in Tasks, v \in Workers : Polled(v, t)' <=> Polled(v, t)
    BY <1>16 DEF Release, Polled, TypeOK
  <2> QED BY <1>16, <2>1, OwnerDrop DEF Release
<1>17. CASE UNCHANGED vars
  <2>1. UNCHANGED <<fate, pending_tasks, chanVars, thread, polling>>
    BY <1>17 DEF vars
  <2> QED BY <2>1, OwnerSame, SameSent, MessageKinds DEF Polled
<1> QED
  BY <1>1, <1>2, <1>3, <1>4, <1>5, <1>6, <1>7, <1>8, <1>10, <1>11, <1>12,
     <1>13, <1>14, <1>15, <1>16, <1>17 DEF Next, WorkerStep

-----------------------------------------------------------------------------
(* Wakes are not lost. *)

(* A step that takes no id of a task in the map, and disturbs neither a    *)
(* wake that has begun nor a worker about to look at the flag.             *)
LEMMA WokenSame ==
  ASSUME IInv,
         \A t \in pending_tasks' :
           /\ t \in pending_tasks /\ polls'[t] = polls[t]
           /\ Sent(ResumeTask(t)) => Sent(ResumeTask(t))'
           /\ \A w \in Workers : thread[w] = "check" /\ polling[w] = t =>
                /\ thread'[w] = "check" /\ polling'[w] = t
                /\ info'[w] = info[w],
         UNCHANGED wakeVars
  PROVE  WokenIsResumed'
<1> SUFFICES ASSUME NEW t \in pending_tasks', <<t, polls'[t]>> \in woken'
             PROVE  \/ sending'[<<t, polls'[t]>>] > 0
                    \/ \E w \in Workers : thread'[w] = "check" /\ polling'[w] = t
                                          /\ info'[w] = polls'[t]
                    \/ Sent(ResumeTask(t))'
  BY DEF WokenIsResumed
<1>1. t \in pending_tasks /\ <<t, polls[t]>> \in woken
  BY DEF wakeVars
<1>2. CASE sending[<<t, polls[t]>>] > 0
  BY <1>2 DEF wakeVars
<1>3. CASE Sent(ResumeTask(t))
  BY <1>3
<1>4. ASSUME NEW w \in Workers, thread[w] = "check", polling[w] = t,
             info[w] = polls[t]
      PROVE  thread'[w] = "check" /\ polling'[w] = t /\ info'[w] = polls'[t]
  BY <1>4
<1> QED BY <1>1, <1>2, <1>3, <1>4 DEF IInv, WokenIsResumed

(* No message of the channel is lost by sending another one. *)
LEMMA StillSent ==
  ASSUME IInv, UNCHANGED chanVars \/ \E m \in TaskMessage : Send(m)
  PROVE  \A t \in pending_tasks : Sent(ResumeTask(t)) => Sent(ResumeTask(t))'
BY SendFacts, SameSent, MessageKinds DEF IInv, TypeOK

LEMMA WokenStep ==
  ASSUME IInv, [Next]_vars
  PROVE  WokenIsResumed'
<1> USE WasmPoolAssumption DEF IInv, poolVars, workVars, mapVars, taskVars
<1>1. ASSUME NEW t \in Tasks, Spawn(t) PROVE WokenIsResumed'
  <2>1. Send(NewTask(t)) /\ NewTask(t) \in TaskMessage
    BY <1>1, MessageKinds DEF Spawn
  <2> QED BY <1>1, <2>1, WokenSame, StillSent DEF Spawn
<1>2. ASSUME NEW n \in Sizes, Resize(n) PROVE WokenIsResumed'
  BY <1>2, WokenSame, StillSent DEF Resize, TypeOK
<1>3. CASE DropExecutor
  BY <1>3, WokenSame, StillSent DEF DropExecutor
<1>4. CASE SendShutdown
  <2>1. Send(Shutdown) /\ Shutdown \in TaskMessage
    BY <1>4, MessageKinds DEF SendShutdown
  <2> QED BY <1>4, <2>1, WokenSame, StillSent DEF SendShutdown
<1>5. CASE DropMap
  BY <1>5, WokenSame, StillSent DEF DropMap, DropReference
<1>6. ASSUME NEW w \in Workers, Recv(w) PROVE WokenIsResumed'
  BY <1>6, WokenSame, RecvFacts, MessageKinds DEF Recv, TypeOK
<1>7. ASSUME NEW w \in Workers, NEW k, Receives(w, k), UNCHANGED wakeVars,
             pending_tasks' \subseteq pending_tasks,
             \A t \in pending_tasks' : inbox[w] # ResumeTask(t),
             \A t \in pending_tasks' : polls'[t] = polls[t],
             \A v \in Workers : v # w => /\ thread'[v] = thread[v]
                                         /\ polling'[v] = polling[v]
                                         /\ info'[v] = info[v]
      PROVE  WokenIsResumed'
  <2>1. thread[w] = "recv"
    BY <1>7, ReceivesFacts
  <2>2. \A t \in pending_tasks' : Sent(ResumeTask(t)) => Sent(ResumeTask(t))'
    BY <1>7, ReceivesFacts, MessageKinds DEF TypeOK
  <2> QED BY <1>7, <2>1, <2>2, WokenSame
<1>8. ASSUME NEW w \in Workers, HandleNewTask(w) PROVE WokenIsResumed'
  <2>1. PICK t \in Tasks : t = inbox[w].task
    BY <1>8, NewTaskFacts DEF HandleNewTask
  <2>2. t \notin pending_tasks /\ inbox[w] = NewTask(t)
    BY <1>8, <2>1, NewTaskFacts DEF HandleNewTask
  <2>3. StartPoll(w, t) /\ UNCHANGED <<pending_tasks, wakeVars>>
        /\ Receives(w, "NewTask")
    BY <1>8, <2>1 DEF HandleNewTask
  <2> QED BY <1>7, <2>2, <2>3, MessageKinds DEF StartPoll, TypeOK
<1>9. ASSUME NEW w \in Workers, HandleResumeTask(w) PROVE WokenIsResumed'
  <2>1. PICK t \in Tasks : t = inbox[w].task
    BY <1>9, ResumeTaskFacts
  <2>2. inbox[w] = ResumeTask(t)
    BY <1>9, <2>1, ResumeTaskFacts
  <2>3. /\ StartPoll(w, t) /\ UNCHANGED wakeVars
        /\ pending_tasks' = pending_tasks \ {t} /\ Receives(w, "ResumeTask")
    BY <1>9, <2>1 DEF HandleResumeTask
  <2> QED BY <1>7, <2>2, <2>3, MessageKinds DEF StartPoll, TypeOK
<1>10. ASSUME NEW w \in Workers, HandleDuplicate(w) PROVE WokenIsResumed'
  <2>1. \A t \in pending_tasks : inbox[w] # ResumeTask(t)
    BY <1>10 DEF HandleDuplicate, ResumeTask
  <2> QED BY <1>7, <1>10, <2>1 DEF HandleDuplicate
<1>11. ASSUME NEW w \in Workers, ResumeFails(w) PROVE WokenIsResumed'
  BY <1>11 DEF ResumeFails, WorkInv, WokenIsResumed
<1>12. ASSUME NEW w \in Workers, HandleShutdown(w) PROVE WokenIsResumed'
  <2>1. \A t \in pending_tasks : inbox[w] # ResumeTask(t)
    BY <1>12 DEF HandleShutdown, Receives, ResumeTask
  <2> QED BY <1>7, <1>12, <2>1 DEF HandleShutdown, TypeOK
<1>13. ASSUME NEW w \in Workers, PollReady(w) \/ PollPending(w) \/ InsertFails(w)
       PROVE  WokenIsResumed'
  <2>1. /\ thread[w] # "check" /\ UNCHANGED <<pending_tasks, polls, info>>
        /\ UNCHANGED chanVars /\ UNCHANGED wakeVars
        /\ \A v \in Workers : v # w => /\ thread'[v] = thread[v]
                                       /\ polling'[v] = polling[v]
    BY <1>13 DEF PollReady, PollPending, InsertFails, TypeOK
  <2> QED BY <2>1, WokenSame, StillSent
<1>14. ASSUME NEW w \in Workers, InsertPending(w) PROVE WokenIsResumed'
  <2>1. PICK t \in Tasks : t = polling[w]
    BY <1>14, OwnedSpawned DEF InsertPending
  <2>2. /\ thread'[w] = "check" /\ info[w] = polls[t]
        /\ UNCHANGED <<polling, info, polls, chanVars, wakeVars>>
    BY <1>14, <2>1 DEF InsertPending, WorkInv, TypeOK
  <2>3. \A s \in pending_tasks' : s # t => s \in pending_tasks
    BY <1>14, <2>1 DEF InsertPending
  <2>4. \A v \in Workers : thread[v] = "check" => thread'[v] = "check"
    BY <1>14 DEF InsertPending, TypeOK
  <2>5. \A s \in pending_tasks : Sent(ResumeTask(s)) => Sent(ResumeTask(s))'
    BY <2>2, StillSent
  <2> QED BY <2>1, <2>2, <2>3, <2>4, <2>5 DEF WokenIsResumed, wakeVars
<1>15. ASSUME NEW w \in Workers, CheckInlineWake(w) PROVE WokenIsResumed'
  <2>1. PICK t \in Tasks : t = polling[w]
    BY <1>15 DEF CheckInlineWake, WorkInv, TypeOK
  <2>2. /\ UNCHANGED <<info, polls, wakeVars, pending_tasks>>
        /\ \A v \in Workers : v # w => /\ thread'[v] = thread[v]
                                       /\ polling'[v] = polling[v]
        /\ IF <<t, info[w]>> \in woken THEN Send(ResumeTask(t))
                                       ELSE UNCHANGED chanVars
    BY <1>15, <2>1 DEF CheckInlineWake, TypeOK
  <2>3. \A s \in pending_tasks : Sent(ResumeTask(s)) => Sent(ResumeTask(s))'
    BY <2>2, StillSent, MessageKinds
  <2>4. <<t, info[w]>> \in woken => Sent(ResumeTask(t))'
    BY <2>2, SendFacts, MessageKinds
  <2> QED BY <2>1, <2>2, <2>3, <2>4 DEF WokenIsResumed, wakeVars
<1>16. ASSUME NEW t \in Tasks, NEW n \in 1..MaxPolls, WakeStore(t, n)
       PROVE  WokenIsResumed'
  <2>1. /\ woken' = woken \cup {<<t, n>>}
        /\ sending' = [sending EXCEPT ![<<t, n>>] = @ + 1]
        /\ UNCHANGED <<thread, polling, info, polls, pending_tasks, chanVars>>
    BY <1>16 DEF WakeStore
  <2>2. \A s \in pending_tasks : Sent(ResumeTask(s)) => Sent(ResumeTask(s))'
    BY <2>1, StillSent
  <2>3. \A x \in Wakes : sending[x] > 0 \/ x = <<t, n>> => sending'[x] > 0
    BY <2>1 DEF TypeOK, Wakes
  <2>4. \A s \in Tasks : <<s, polls[s]>> \in woken' => <<s, polls[s]>> \in Wakes
    BY <2>1, <1>16 DEF TypeOK, Wakes
  <2> QED BY <2>1, <2>2, <2>3, <2>4 DEF WokenIsResumed, TypeOK
<1>17. ASSUME NEW t \in Tasks, NEW n \in 1..MaxPolls, WakeSend(t, n)
       PROVE  WokenIsResumed'
  <2>1. /\ sending' = [sending EXCEPT ![<<t, n>>] = @ - 1] /\ Send(ResumeTask(t))
        /\ UNCHANGED <<thread, polling, info, polls, pending_tasks, woken>>
    BY <1>17 DEF WakeSend
  <2>2. /\ Sent(ResumeTask(t))'
        /\ \A s \in pending_tasks : Sent(ResumeTask(s)) => Sent(ResumeTask(s))'
    BY <2>1, SendFacts, StillSent, MessageKinds
  <2>3. \A s \in Tasks, k \in 1..MaxPolls :
          s # t /\ sending[<<s, k>>] > 0 => sending'[<<s, k>>] > 0
    BY <2>1 DEF TypeOK, Wakes
  <2>4. \A s \in Tasks : <<s, polls[s]>> \in woken => polls[s] \in 1..MaxPolls
    BY DEF TypeOK, Wakes
  <2> QED BY <2>1, <2>2, <2>3, <2>4 DEF WokenIsResumed, TypeOK
<1>18. ASSUME NEW w \in Workers, Release(w) PROVE WokenIsResumed'
  BY <1>18, WokenSame, StillSent DEF Release, DropReference, TypeOK
<1>19. CASE UNCHANGED vars
  BY <1>19, WokenSame, StillSent DEF vars, wakeVars
<1> QED
  BY <1>1, <1>2, <1>3, <1>4, <1>5, <1>6, <1>8, <1>9, <1>10, <1>11, <1>12,
     <1>13, <1>14, <1>15, <1>16, <1>17, <1>18, <1>19 DEF Next, WorkerStep

-----------------------------------------------------------------------------
LEMMA InitInv == Init => IInv
<1> SUFFICES ASSUME Init PROVE IInv
  OBVIOUS
<1> USE WasmPoolAssumption DEF Init
<1>1. TypeOK
  <2>1. Cardinality(Initial) \in Nat
    BY FS_Subset, FS_CardinalityType
  <2> QED BY <2>1 DEF TypeOK, ThreadState
<1>2. WorkInv
  BY EmptyMember DEF WorkInv, MapLives
<1>3. BudgetInv
  BY DEF BudgetInv
<1>4. OneOwner
  <2>1. \A m \in TaskMessage : ~Sent(m) /\ SentOnce(m)
    BY EmptyMember DEF Sent, SentOnce
  <2> QED BY <2>1, MessageKinds DEF OneOwner, Polled
<1>5. WokenIsResumed
  BY DEF WokenIsResumed
<1>6. CounterExact
  <2>1. Counted = {}
    BY DEF Counted
  <2> QED BY <2>1, FS_EmptySet DEF CounterExact
<1> QED BY <1>1, <1>2, <1>3, <1>4, <1>5, <1>6 DEF IInv, MapInv

LEMMA MapStep ==
  ASSUME MapInv, [Next]_vars
  PROVE  MapInv'
<1> USE DEF MapInv, poolVars, vars
<1>1. DropExecutor \/ DropMap => MapInv'
  BY DEF DropExecutor, DropMap
<1>2. ~DropExecutor /\ ~DropMap => UNCHANGED <<alive, map_alive>>
  BY DEF Next, Spawn, Resize, SendShutdown, WorkerStep, Recv, HandleNewTask,
         HandleResumeTask, HandleDuplicate, ResumeFails, HandleShutdown,
         PollReady, PollPending, InsertPending, InsertFails, CheckInlineWake,
         Release, WakeStore, WakeSend
<1> QED BY <1>1, <1>2

LEMMA Inductive == Spec => []IInv
<1>1. IInv /\ [Next]_vars => IInv'
  BY TypeStep, WorkStep, BudgetStep, OwnerStep, WokenStep, CounterStep, MapStep
     DEF IInv
<1> QED BY InitInv, <1>1, PTL DEF Spec

(* The messages, the map and the locals of run_async hold only what they   *)
(* may.                                                                    *)
THEOREM TypeCorrect == Spec => []TypeOK
BY Inductive, PTL DEF IInv

(* A spawned task is in its NewTask message, with one worker or in the map *)
(* of pending tasks, whatever duplicates of its id are sent.               *)
THEOREM TaskOwned == Spec => []OneOwner
BY Inductive, PTL DEF IInv

(* A suspended task that was woken by the waker of its last poll, before,  *)
(* between or after the insert and the look at inline_wake, will be taken  *)
(* out of the map, whatever ids older wakers send and workers drop in      *)
(* between.  Of a wake by an older waker alone it says nothing.            *)
THEOREM WokenResumed == Spec => []WokenIsResumed
BY Inductive, PTL DEF IInv

(* The counter that drain waits for is the number of unfinished tasks.     *)
THEOREM CounterCorrect == Spec => []CounterExact
BY Inductive, PTL DEF IInv

-----------------------------------------------------------------------------
(* Every step of the wasm pool is a step of ExecutorContract or stutters   *)
(* there.                                                                  *)

LEMMA ExecutorUnmoved ==
  ASSUME IInv, UNCHANGED <<alive, fate, running_tasks>>,
         \A w \in Workers : PolledBy(w)' = PolledBy(w)
  PROVE  UNCHANGED Executor!vars
BY DEF Executor!vars, Status

(* A worker in recv can poll what it has received. *)
LEMMA ExecutorStart ==
  ASSUME IInv, NEW w \in Workers, NEW t \in Tasks,
         thread[w] = "recv", fate[t] = "spawned",
         \A v \in Workers : ~Polled(v, t),
         StartPoll(w, t), UNCHANGED <<alive, fate, running_tasks>>
  PROVE  Executor!Start(w, t)
<1>1. [v \in Workers |-> PolledBy(v)]'
        = [[v \in Workers |-> PolledBy(v)] EXCEPT ![w] = t]
  BY DEF StartPoll, PolledBy, IInv, TypeOK
<1>2. \A v \in Workers : PolledBy(v) # t
  BY WasmPoolAssumption DEF PolledBy, Polled
<1>3. PolledBy(w) = NULL /\ Status(t) = "live"
  BY DEF PolledBy, Status
<1> QED BY <1>1, <1>2, <1>3 DEF Executor!Start, Executor!Idle, Status

(* What a worker does with its task. *)
LEMMA ExecutorPollEnds ==
  ASSUME IInv, NEW w \in Workers, PollReady(w) \/ PollPending(w)
  PROVE  Executor!Finish(w) \/ Executor!Yield(w)
<1> USE WasmPoolAssumption DEF poolVars, taskVars
<1>1. /\ polling[w] \in Tasks /\ PolledBy(w) = polling[w] /\ UNCHANGED alive
      /\ fate[polling[w]] = "spawned"
  BY OwnedSpawned DEF PollReady, PollPending, PolledBy, IInv, WorkInv, TypeOK
<1>2. [v \in Workers |-> PolledBy(v)]'
        = [[v \in Workers |-> PolledBy(v)] EXCEPT ![w] = NULL]
  BY DEF PollReady, PollPending, PolledBy, IInv, TypeOK
<1>3. CASE PollReady(w)
  <2>1. /\ running_tasks' = running_tasks - 1
        /\ fate' = [fate EXCEPT ![polling[w]] = "done"]
    BY <1>3 DEF PollReady
  <2>2. [t \in Tasks |-> Status(t)]'
          = [[t \in Tasks |-> Status(t)] EXCEPT ![polling[w]] = "finished"]
    BY <1>1, <2>1 DEF Status, IInv, TypeOK
  <2>3. Status(polling[w]) = "live"
    BY <1>1 DEF Status
  <2>4. [v \in Workers |-> {}]'
          = [[v \in Workers |-> {}] EXCEPT ![w] = @ \ {polling[w]}]
    OBVIOUS
  <2>5. Executor!Finish(w)
    BY <1>1, <1>2, <2>1, <2>2, <2>3, <2>4 DEF Executor!Finish, Executor!Ends
  <2> QED BY <2>5
<1>4. CASE PollPending(w)
  BY <1>1, <1>2, <1>4 DEF PollPending, Executor!Yield, Status
<1> QED BY <1>3, <1>4

(* Tasks are dropped with the map, or by a worker that finds it gone: only *)
(* once the last handle is gone.                                           *)
LEMMA ExecutorAbandons ==
  ASSUME IInv, NEW lost \in SUBSET Tasks, ~alive,
         \A t \in lost : fate[t] = "spawned" /\ \A w \in Workers :
                           ~(thread[w] = "poll" /\ polling[w] = t),
         fate' = [t \in Tasks |-> IF t \in lost THEN "lost" ELSE fate[t]],
         UNCHANGED <<alive, running_tasks>>,
         \A w \in Workers : PolledBy(w)' = PolledBy(w)
  PROVE  Executor!Abandon(lost)
<1>1. [t \in Tasks |-> Status(t)]'
        = [t \in Tasks |-> IF t \in lost THEN "abandoned"
                           ELSE [u \in Tasks |-> Status(u)][t]]
  BY DEF Status
<1>2. \A t \in lost : Status(t) = "live" /\ \A w \in Workers : PolledBy(w) # t
  BY WasmPoolAssumption DEF Status, PolledBy
<1>3. [w \in Workers |-> {}]'
        = [w \in Workers |-> [v \in Workers |-> {}][w] \ lost]
  OBVIOUS
<1> QED BY <1>1, <1>2, <1>3 DEF Executor!Abandon, Executor!Shed, Executor!Idle

LEMMA ExecutorStep ==
  ASSUME IInv, [Next]_vars
  PROVE  [Executor!Next]_(Executor!vars)
<1> USE WasmPoolAssumption
    DEF IInv, poolVars, chanVars, workVars, wakeVars, taskVars, mapVars
<1>1. ASSUME NEW t \in Tasks, Spawn(t) PROVE Executor!Submit(t)
  <2>1. /\ alive /\ UNCHANGED <<alive, thread, polling>> /\ fate[t] = "new"
        /\ fate' = [fate EXCEPT ![t] = "spawned"]
        /\ running_tasks' = running_tasks + 1
    BY <1>1 DEF Spawn
  <2>2. [u \in Tasks |-> Status(u)]'
          = [[u \in Tasks |-> Status(u)] EXCEPT ![t] = "live"]
    BY <2>1 DEF Status, TypeOK
  <2> QED BY <2>1, <2>2 DEF Executor!Submit, Status, PolledBy
<1>2. CASE DropExecutor
  <2>1. /\ alive /\ alive' = FALSE
        /\ UNCHANGED <<fate, running_tasks, thread, polling>>
    BY <1>2 DEF DropExecutor
  <2>2. Executor!Close({})
    BY <2>1 DEF Executor!Close, Executor!Shed, Status, PolledBy
  <2> QED BY <2>2 DEF Executor!Next
<1>3. ASSUME NEW w \in Workers, HandleNewTask(w)
      PROVE  \E t \in Tasks : Executor!Start(w, t)
  <2>1. PICK t \in Tasks : inbox[w] = NewTask(t) /\ t = inbox[w].task
    BY <1>3, NewTaskFacts DEF HandleNewTask
  <2>2. fate[t] = "spawned" /\ \A v \in Workers : ~Polled(v, t)
    BY <2>1 DEF OneOwner, Sent
  <2>3. /\ thread[w] = "recv" /\ StartPoll(w, t)
        /\ UNCHANGED <<alive, fate, running_tasks>>
    BY <1>3, <2>1 DEF HandleNewTask, Receives
  <2> QED BY <2>2, <2>3, ExecutorStart
<1>4. ASSUME NEW w \in Workers, HandleResumeTask(w)
      PROVE  \E t \in Tasks : Executor!Start(w, t)
  <2>1. PICK t \in pending_tasks : t = inbox[w].task
    BY <1>4 DEF HandleResumeTask
  <2>2. /\ t \in Tasks /\ fate[t] = "spawned"
        /\ \A v \in Workers : ~Polled(v, t)
    BY <2>1 DEF OneOwner, TypeOK
  <2>3. /\ thread[w] = "recv" /\ StartPoll(w, t)
        /\ UNCHANGED <<alive, fate, running_tasks>>
    BY <1>4, <2>1 DEF HandleResumeTask, Receives
  <2> QED BY <2>2, <2>3, ExecutorStart
<1>5. ASSUME NEW w \in Workers, InsertFails(w)
      PROVE  \E lost \in SUBSET Tasks : Executor!Abandon(lost)
  <2>1. PICK t \in Tasks : t = polling[w]
    BY <1>5 DEF InsertFails, WorkInv, TypeOK
  <2>2. fate[t] = "spawned" /\ \A v \in Workers : Polled(v, t) => v = w
    BY <1>5, <2>1 DEF InsertFails, OneOwner, Polled
  <2>3. /\ ~alive /\ UNCHANGED <<alive, running_tasks>> /\ thread[w] = "insert"
        /\ fate' = [u \in Tasks |-> IF u \in {t} THEN "lost" ELSE fate[u]]
    BY <1>5, <2>1 DEF InsertFails, MapInv, MapLives, TypeOK
  <2>4. \A v \in Workers : PolledBy(v)' = PolledBy(v)
    BY <1>5 DEF InsertFails, PolledBy, TypeOK
  <2>5. \A v \in Workers : ~(thread[v] = "poll" /\ polling[v] = t)
    BY <2>2, <2>3 DEF Polled
  <2>6. Executor!Abandon({t})
    BY <2>2, <2>3, <2>4, <2>5, ExecutorAbandons
  <2> QED BY <2>6
<1>6. ASSUME DropMap \/ \E w \in Workers : Release(w)
      PROVE  \/ UNCHANGED Executor!vars
             \/ \E lost \in SUBSET Tasks : Executor!Abandon(lost)
  <2>1. UNCHANGED <<alive, running_tasks>> /\ DropReference
    BY <1>6 DEF DropMap, Release
  <2>2. \A v \in Workers : PolledBy(v)' = PolledBy(v)
    BY <1>6 DEF DropMap, Release, PolledBy, TypeOK
  <2>3. CASE MapLives'
    BY <2>1, <2>2, <2>3, ExecutorUnmoved DEF DropReference
  <2>4. CASE ~MapLives'
    <3>1. ~alive
      BY <1>6, <2>4 DEF DropMap, Release, MapLives, MapInv
    <3>2. /\ pending_tasks \in SUBSET Tasks
          /\ \A t \in pending_tasks : fate[t] = "spawned"
               /\ \A w \in Workers : ~(thread[w] = "poll" /\ polling[w] = t)
      BY DEF OneOwner, Polled, TypeOK
    <3>3. fate' = [t \in Tasks |-> IF t \in pending_tasks THEN "lost"
                                                          ELSE fate[t]]
      BY <2>1, <2>4 DEF DropReference
    <3>4. Executor!Abandon(pending_tasks)
      BY <2>1, <2>2, <3>1, <3>2, <3>3, ExecutorAbandons
    <3> QED BY <3>2, <3>4
  <2> QED BY <2>3, <2>4
<1>7. ASSUME \/ \E n \in Sizes : Resize(n)
             \/ SendShutdown
             \/ \E w \in Workers :
                  \/ Recv(w) \/ HandleDuplicate(w) \/ ResumeFails(w)
                  \/ HandleShutdown(w) \/ InsertPending(w) \/ CheckInlineWake(w)
             \/ \E t \in Tasks, n \in 1..MaxPolls :
                  WakeStore(t, n) \/ WakeSend(t, n)
             \/ UNCHANGED vars
      PROVE  UNCHANGED Executor!vars
  <2>1. UNCHANGED <<alive, fate, running_tasks>>
    BY <1>7 DEF Resize, SendShutdown, Recv, HandleDuplicate, ResumeFails,
                HandleShutdown, InsertPending, CheckInlineWake, WakeStore,
                WakeSend, vars
  <2>2. ASSUME NEW w \in Workers PROVE PolledBy(w)' = PolledBy(w)
    <3>1. \/ UNCHANGED <<thread, polling>>
          \/ polling' = polling /\ thread[w] # "poll" /\ thread'[w] # "poll"
          \/ \E v \in Workers : CheckInlineWake(v)
          \/ UNCHANGED <<thread[w], polling[w]>>
      BY <1>7 DEF Resize, SendShutdown, Recv, HandleDuplicate, ResumeFails,
                  HandleShutdown, InsertPending, WakeStore, WakeSend, Receives,
                  vars, TypeOK
    <3>2. ASSUME NEW v \in Workers, CheckInlineWake(v)
          PROVE  PolledBy(w)' = PolledBy(w)
      BY <3>2 DEF CheckInlineWake, PolledBy, TypeOK
    <3> QED BY <3>1, <3>2 DEF PolledBy
  <2> QED BY <2>1, <2>2, ExecutorUnmoved
<1>8. \A w \in Workers : PollReady(w) \/ PollPending(w) =>
        Executor!Finish(w) \/ Executor!Yield(w)
  BY ExecutorPollEnds
<1> QED
  BY <1>1, <1>2, <1>3, <1>4, <1>5, <1>6, <1>7, <1>8
     DEF Next, WorkerStep, Executor!Next

(* The wasm pool implements ExecutorContract: a task is polled by one      *)
(* worker at a time, and none is abandoned while a handle is left, however *)
(* messages overtake each other and whatever threads come and go.          *)
THEOREM ExecutorRefinement == Spec => ImplementsExecutor
<1>1. Init => Executor!Init
  BY WasmPoolAssumption DEF Init, Executor!Init, Status, PolledBy
<1>2. IInv /\ [Next]_vars => [Executor!Next]_(Executor!vars)
  BY ExecutorStep
<1> QED
  BY <1>1, <1>2, Inductive, PTL DEF Spec, ImplementsExecutor, Executor!Spec

-----------------------------------------------------------------------------
(* The number of threads, and the Shutdown messages.                       *)

(* The threads that Shutdown messages are meant for.  A worker that a      *)
(* failed expect has ended will not take its message.                      *)
Unserved == {w \in Workers : thread[w] \notin {"none", "left"}}

(* Shutdown messages sent and not handled. *)
Obtained == {w \in Workers : inbox[w] = Shutdown}
Shutdowns == Copies(buffer, Shutdown) + Cardinality(Obtained)

(* Beyond the size asked for, there is a Shutdown sent or about to be sent *)
(* for each thread.                                                        *)
BalanceInv ==
  Cardinality(Unserved) = (IF alive THEN size ELSE 0) + to_send + Shutdowns

(* No expect fails while there is a handle, since Internal keeps the map.  *)
CrashInv == alive => ExitsCleanly

LEMMA BalanceFinite ==
  ASSUME TypeOK
  PROVE  /\ IsFiniteSet(Unserved) /\ Cardinality(Unserved) \in Nat
         /\ IsFiniteSet(Obtained) /\ Cardinality(Obtained) \in Nat
         /\ Copies(buffer, Shutdown) \in Nat /\ Shutdowns \in Nat
<1>1. IsFiniteSet(Unserved) /\ IsFiniteSet(Obtained)
  BY WasmPoolAssumption, FS_Subset DEF Unserved, Obtained
<1>2. Copies(buffer, Shutdown) \in Nat
  BY CopiesFinite DEF TypeOK
<1> QED BY <1>1, <1>2, FS_CardinalityType DEF Shutdowns

(* The inbox of a worker that had no message is filled, or emptied again.  *)
LEMMA ObtainedFill ==
  ASSUME TypeOK, NEW w \in Workers, inbox[w] = NULL, NEW m \in TaskMessage,
         inbox' = [inbox EXCEPT ![w] = m]
  PROVE  Cardinality(Obtained')
           = Cardinality(Obtained) + (IF m = Shutdown THEN 1 ELSE 0)
<1>1. w \notin Obtained
  BY MessageKinds DEF Obtained
<1>2. Obtained' = IF m = Shutdown THEN Obtained \cup {w} ELSE Obtained
  BY <1>1 DEF Obtained, TypeOK
<1>3. Cardinality(Obtained \cup {w}) = Cardinality(Obtained) + 1
  BY <1>1, BalanceFinite, FS_AddElement
<1> QED BY <1>2, <1>3, BalanceFinite

LEMMA ObtainedEmpty ==
  ASSUME TypeOK, NEW w \in Workers, inbox[w] \in TaskMessage,
         inbox' = [inbox EXCEPT ![w] = NULL]
  PROVE  Cardinality(Obtained)
           = Cardinality(Obtained') + (IF inbox[w] = Shutdown THEN 1 ELSE 0)
<1>1. Obtained' = Obtained \ {w}
  BY MessageKinds DEF Obtained, TypeOK
<1>2. w \in Obtained <=> inbox[w] = Shutdown
  BY DEF Obtained
<1>3. Cardinality(Obtained \ {w})
        = IF w \in Obtained THEN Cardinality(Obtained) - 1
                            ELSE Cardinality(Obtained)
  BY BalanceFinite, FS_RemoveElement
<1> QED BY <1>1, <1>2, <1>3, BalanceFinite

(* What the three uses of the channel do to the number of Shutdowns. *)
LEMMA SendShutdowns ==
  ASSUME TypeOK, WorkInv, NEW m \in TaskMessage, Send(m)
  PROVE  Shutdowns' = Shutdowns + (IF m = Shutdown THEN 1 ELSE 0)
<1>1. CASE resume # <<>>
  <2> DEFINE h == Head(resume)
  <2>1. h \in Workers /\ Contains(resume, h)
    BY <1>1, TailMember DEF TypeOK
  <2>2. inbox[h] = NULL
    BY <2>1 DEF WorkInv
  <2>3. inbox' = [inbox EXCEPT ![h] = m] /\ buffer' = buffer
    BY <1>1 DEF Send
  <2> HIDE DEF h
  <2>4. Cardinality(Obtained')
          = Cardinality(Obtained) + (IF m = Shutdown THEN 1 ELSE 0)
    BY <2>1, <2>2, <2>3, ObtainedFill
  <2> QED BY <2>3, <2>4, BalanceFinite DEF Shutdowns
<1>2. CASE resume = <<>>
  <2>1. buffer' = <<m>> \o buffer /\ inbox' = inbox
    BY <1>2 DEF Send
  <2>2. buffer \in Seq(TaskMessage)
    BY DEF TypeOK
  <2>3. Copies(<<m>> \o buffer, Shutdown)
          = Copies(buffer, Shutdown) + (IF m = Shutdown THEN 1 ELSE 0)
    BY <2>2, CopiesPush
  <2>4. Copies(buffer', Shutdown)
          = Copies(buffer, Shutdown) + (IF m = Shutdown THEN 1 ELSE 0)
    BY <2>1, <2>3, Zenon
  <2>5. Obtained' = Obtained
    BY <2>1 DEF Obtained
  <2> QED BY <2>4, <2>5, BalanceFinite DEF Shutdowns
<1> QED BY <1>1, <1>2

LEMMA RecvShutdowns ==
  ASSUME TypeOK, WorkInv, NEW w \in Workers, Recv(w)
  PROVE  Shutdowns' = Shutdowns
<1>1. CASE buffer # <<>>
  <2> DEFINE h == Head(buffer)
  <2>1. h \in TaskMessage
    BY <1>1, TailMember DEF TypeOK
  <2>2. Copies(buffer, Shutdown)
          = Copies(Tail(buffer), Shutdown) + (IF h = Shutdown THEN 1 ELSE 0)
    BY <1>1, CopiesTail DEF TypeOK
  <2>3. /\ inbox[w] = NULL /\ inbox' = [inbox EXCEPT ![w] = h]
        /\ buffer' = Tail(buffer)
    BY <1>1 DEF Recv
  <2>4. Tail(buffer) \in Seq(TaskMessage)
    BY <1>1, TailMember DEF TypeOK
  <2>5. Copies(Tail(buffer), Shutdown) \in Nat
    BY <2>4, CopiesFinite
  <2> HIDE DEF h
  <2>6. Cardinality(Obtained')
          = Cardinality(Obtained) + (IF h = Shutdown THEN 1 ELSE 0)
    BY <2>1, <2>3, ObtainedFill
  <2>7. Copies(buffer', Shutdown) = Copies(Tail(buffer), Shutdown)
    BY <2>3, Zenon
  <2> QED BY <2>2, <2>5, <2>6, <2>7, BalanceFinite DEF Shutdowns
<1>2. CASE buffer = <<>>
  BY <1>2 DEF Recv, Shutdowns, Obtained
<1> QED BY <1>1, <1>2

LEMMA ReceivesShutdowns ==
  ASSUME TypeOK, WorkInv, NEW w \in Workers, NEW k, Receives(w, k)
  PROVE  /\ Shutdowns' \in Nat
         /\ Shutdowns = Shutdowns' + (IF k = "Shutdown" THEN 1 ELSE 0)
<1>1. /\ inbox[w] \in TaskMessage /\ inbox[w].kind = k
      /\ inbox' = [inbox EXCEPT ![w] = NULL] /\ buffer' = buffer
  BY ReceivesFacts DEF Receives
<1>2. inbox[w] = Shutdown <=> k = "Shutdown"
  BY <1>1, MessageOf DEF Shutdown
<1>3. Cardinality(Obtained)
        = Cardinality(Obtained') + (IF inbox[w] = Shutdown THEN 1 ELSE 0)
  BY <1>1, ObtainedEmpty
<1>4. Obtained' \subseteq Obtained
  BY <1>1, MessageKinds DEF Obtained, TypeOK
<1>5. Cardinality(Obtained') \in Nat
  BY <1>4, BalanceFinite, FS_Subset, FS_CardinalityType
<1> QED BY <1>1, <1>2, <1>3, <1>5, BalanceFinite DEF Shutdowns

(* Workers that stay as they are, go on, or crash, need no other message.  *)
LEMMA BalanceFrame ==
  ASSUME BalanceInv, UNCHANGED <<alive, size, to_send>>,
         Unserved' = Unserved, Shutdowns' = Shutdowns
  PROVE  BalanceInv'
BY DEF BalanceInv

LEMMA UnservedSame ==
  ASSUME TypeOK, NEW w \in Workers, thread[w] \notin {"none", "left"},
         NEW s \in ThreadState \ {"none", "left"},
         thread' = [thread EXCEPT ![w] = s]
  PROVE  Unserved' = Unserved
BY DEF Unserved, TypeOK

LEMMA BalanceResize ==
  ASSUME IInv, BalanceInv, NEW n \in Sizes, Resize(n)
  PROVE  BalanceInv'
<1> USE WasmPoolAssumption
<1>1. /\ alive /\ alive' /\ size' = n /\ n \in Nat /\ size \in Nat
      /\ to_send = 0 /\ UNCHANGED <<buffer, inbox>>
  BY DEF Resize, chanVars, IInv, TypeOK
<1>2. Shutdowns' = Shutdowns /\ Shutdowns \in Nat
  BY <1>1, BalanceFinite DEF Shutdowns, Obtained, IInv
<1>3. CASE n <= size
  <2>1. to_send' = size - n /\ thread' = thread
    BY <1>1, <1>3 DEF Resize
  <2> QED BY <1>1, <1>2, <2>1 DEF BalanceInv, Unserved
<1>4. CASE n > size
  <2>1. to_send' = 0
    BY <1>1, <1>4 DEF Resize
  <2>2. PICK new \in SUBSET {w \in Workers : thread[w] = "none"} :
          /\ Cardinality(new) = n - size
          /\ thread' = [w \in Workers |-> IF w \in new THEN "recv" ELSE thread[w]]
    BY <1>1, <1>4 DEF Resize
  <2>3. Unserved' = Unserved \cup new /\ Unserved \cap new = {}
    BY <2>2 DEF Unserved
  <2>4. IsFiniteSet(new) /\ Cardinality(new) \in Nat /\ IsFiniteSet(Unserved)
        /\ Cardinality(Unserved) \in Nat
    BY BalanceFinite, FS_Subset, FS_CardinalityType DEF IInv
  <2>5. Cardinality(Unserved \cup new)
          = Cardinality(Unserved) + Cardinality(new) - Cardinality(Unserved \cap new)
    BY <2>4, FS_Union
  <2>6. Cardinality(Unserved \cap new) = 0
    BY <2>3, FS_EmptySet
  <2>7. Cardinality(Unserved') = Cardinality(Unserved) + Cardinality(new)
    BY <2>3, <2>4, <2>5, <2>6
  <2> QED BY <1>1, <1>2, <2>1, <2>2, <2>4, <2>7 DEF BalanceInv
<1> QED BY <1>1, <1>3, <1>4

LEMMA BalanceStep ==
  ASSUME IInv, BalanceInv, [Next]_vars
  PROVE  BalanceInv'
<1> USE WasmPoolAssumption DEF poolVars, chanVars, workVars, mapVars, wakeVars,
    taskVars
<1>0. TypeOK /\ WorkInv
  BY DEF IInv
<1>1. ASSUME NEW t \in Tasks, Spawn(t) PROVE BalanceInv'
  <2>1. Shutdowns' = Shutdowns
    BY <1>0, <1>1, SendShutdowns, MessageKinds, BalanceFinite DEF Spawn
  <2> QED BY <1>1, <2>1, BalanceFrame DEF Spawn, Unserved
<1>2. ASSUME NEW n \in Sizes, Resize(n) PROVE BalanceInv'
  BY <1>2, BalanceResize
<1>3. CASE DropExecutor
  <2>1. /\ alive /\ ~alive' /\ to_send = 0 /\ to_send' = size
        /\ UNCHANGED <<buffer, inbox, thread>>
    BY <1>3 DEF DropExecutor
  <2> QED BY <1>0, <2>1 DEF BalanceInv, Unserved, Shutdowns, Obtained, TypeOK
<1>4. CASE SendShutdown
  <2>1. /\ to_send > 0 /\ to_send' = to_send - 1
        /\ UNCHANGED <<alive, size, thread>> /\ Send(Shutdown)
    BY <1>4 DEF SendShutdown
  <2>2. Shutdowns' = Shutdowns + 1
    BY <1>0, <2>1, SendShutdowns, MessageKinds
  <2>3. Cardinality(Unserved') = Cardinality(Unserved)
    BY <2>1 DEF Unserved
  <2>4. Shutdowns \in Nat /\ Cardinality(Unserved) \in Nat
    BY <1>0, BalanceFinite
  <2>5. to_send \in Nat /\ size \in Nat
    BY <1>0 DEF TypeOK
  <2> QED BY <2>1, <2>2, <2>3, <2>4, <2>5 DEF BalanceInv
<1>5. ASSUME NEW w \in Workers, Recv(w) PROVE BalanceInv'
  <2>1. Shutdowns' = Shutdowns
    BY <1>0, <1>5, RecvShutdowns
  <2> QED BY <1>5, <2>1, BalanceFrame DEF Recv, Unserved
<1>6. ASSUME NEW w \in Workers,
             HandleNewTask(w) \/ HandleResumeTask(w) \/ ResumeFails(w)
      PROVE  BalanceInv'
  <2>1. \E k \in {"NewTask", "ResumeTask"} : Receives(w, k)
    BY <1>6 DEF HandleNewTask, HandleResumeTask, ResumeFails
  <2>2. Shutdowns' = Shutdowns /\ thread[w] = "recv"
    BY <1>0, <2>1, ReceivesShutdowns, ReceivesFacts, BalanceFinite
  <2>3. \E s \in {"poll", "crashed"} : thread' = [thread EXCEPT ![w] = s]
    BY <1>6 DEF HandleNewTask, HandleResumeTask, ResumeFails, StartPoll
  <2>4. Unserved' = Unserved
    BY <1>0, <2>2, <2>3, UnservedSame DEF ThreadState
  <2> QED BY <1>6, <2>2, <2>4, BalanceFrame
             DEF HandleNewTask, HandleResumeTask, ResumeFails
<1>7. ASSUME NEW w \in Workers, HandleDuplicate(w) PROVE BalanceInv'
  <2>1. Shutdowns' = Shutdowns
    BY <1>0, <1>7, ReceivesShutdowns, BalanceFinite DEF HandleDuplicate
  <2> QED BY <1>7, <2>1, BalanceFrame DEF HandleDuplicate, Unserved
<1>8. ASSUME NEW w \in Workers, HandleShutdown(w) PROVE BalanceInv'
  <2>1. /\ thread[w] = "recv" /\ thread' = [thread EXCEPT ![w] = "left"]
        /\ UNCHANGED <<alive, size, to_send>> /\ Receives(w, "Shutdown")
    BY <1>8 DEF HandleShutdown, Receives
  <2>2. Shutdowns = Shutdowns' + 1 /\ Shutdowns' \in Nat
    BY <1>0, <2>1, ReceivesShutdowns
  <2>3. Unserved' = Unserved \ {w} /\ w \in Unserved
    BY <1>0, <2>1 DEF Unserved, TypeOK
  <2>4. Cardinality(Unserved') = Cardinality(Unserved) - 1
    BY <1>0, <2>3, BalanceFinite, FS_RemoveElement
  <2>5. size \in Nat /\ to_send \in Nat
    BY <1>0 DEF TypeOK
  <2> QED BY <2>1, <2>2, <2>4, <2>5 DEF BalanceInv
<1>9. ASSUME NEW w \in Workers,
             \/ PollReady(w) \/ PollPending(w) \/ InsertPending(w)
             \/ InsertFails(w) \/ Release(w)
      PROVE  BalanceInv'
  <2>1. /\ thread[w] \in {"poll", "insert", "end"}
        /\ \E s \in {"end", "insert", "check", "crashed", "recv"} :
             thread' = [thread EXCEPT ![w] = s]
        /\ UNCHANGED <<alive, size, to_send, buffer, inbox>>
    BY <1>9 DEF PollReady, PollPending, InsertPending, InsertFails, Release
  <2>2. Unserved' = Unserved
    BY <1>0, <2>1, UnservedSame DEF ThreadState
  <2> QED BY <2>1, <2>2, BalanceFrame DEF Shutdowns, Obtained
<1>10. ASSUME NEW w \in Workers, CheckInlineWake(w) PROVE BalanceInv'
  <2>1. Shutdowns' = Shutdowns
    <3>1. CASE InlineWake(w)
      <4>1. polling[w] \in Tasks
        BY <1>0, <1>10 DEF CheckInlineWake, WorkInv, TypeOK
      <4> QED BY <1>0, <1>10, <3>1, <4>1, SendShutdowns, MessageKinds,
                 BalanceFinite DEF CheckInlineWake
    <3>2. CASE ~InlineWake(w)
      BY <1>10, <3>2 DEF CheckInlineWake, Shutdowns, Obtained
    <3> QED BY <3>1, <3>2
  <2>2. Unserved' = Unserved
    BY <1>0, <1>10, UnservedSame DEF CheckInlineWake, ThreadState
  <2> QED BY <1>10, <2>1, <2>2, BalanceFrame DEF CheckInlineWake
<1>11. ASSUME NEW t \in Tasks, NEW n \in 1..MaxPolls, WakeSend(t, n)
       PROVE  BalanceInv'
  <2>1. Shutdowns' = Shutdowns
    BY <1>0, <1>11, SendShutdowns, MessageKinds, BalanceFinite DEF WakeSend
  <2> QED BY <1>11, <2>1, BalanceFrame DEF WakeSend, Unserved
<1>12. CASE \/ DropMap
            \/ \E t \in Tasks, n \in 1..MaxPolls : WakeStore(t, n)
            \/ UNCHANGED vars
  BY <1>12, BalanceFrame DEF DropMap, WakeStore, vars, Unserved, Shutdowns,
     Obtained
<1> QED
  BY <1>1, <1>2, <1>3, <1>4, <1>5, <1>6, <1>7, <1>8, <1>9, <1>10, <1>11,
     <1>12 DEF Next, WorkerStep

LEMMA CrashStep ==
  ASSUME IInv, CrashInv, [Next]_vars
  PROVE  CrashInv'
<1> USE DEF poolVars, chanVars, workVars, mapVars, wakeVars, taskVars
<1>1. SUFFICES ASSUME alive' PROVE ExitsCleanly'
  BY DEF CrashInv
<1>2. alive /\ ExitsCleanly
  BY <1>1 DEF CrashInv, Next, WorkerStep, Spawn, Resize, DropExecutor,
     SendShutdown, DropMap, Recv, HandleNewTask, HandleResumeTask,
     HandleDuplicate, ResumeFails, HandleShutdown, PollReady, PollPending,
     InsertPending, InsertFails, CheckInlineWake, Release, WakeStore, WakeSend,
     vars
<1>3. MapLives
  BY <1>2 DEF IInv, MapInv, MapLives
<1> QED
  BY <1>2, <1>3
     DEF ExitsCleanly, Next, WorkerStep, Spawn, Resize, DropExecutor,
     SendShutdown, DropMap, Recv, HandleNewTask, HandleResumeTask, StartPoll,
     HandleDuplicate, ResumeFails, HandleShutdown, PollReady, PollPending,
     InsertPending, InsertFails, CheckInlineWake, Release, WakeStore, WakeSend,
     vars, IInv, TypeOK

LEMMA BalanceInductive == Spec => []BalanceInv
<1>1. Init => BalanceInv
  <2> SUFFICES ASSUME Init PROVE BalanceInv
    OBVIOUS
  <2>1. Unserved = Initial /\ Obtained = {}
    BY WasmPoolAssumption, MessageKinds DEF Init, Unserved, Obtained
  <2>2. TypeOK
    BY InitInv DEF IInv
  <2>3. Copies(buffer, Shutdown) = 0
    BY <2>2, CopiesFinite, EmptyMember DEF Init, TypeOK
  <2> QED BY <2>1, <2>2, <2>3, BalanceFinite, FS_EmptySet
             DEF Init, BalanceInv, Shutdowns
<1>2. IInv /\ BalanceInv /\ [Next]_vars => BalanceInv'
  BY BalanceStep
<1> QED BY <1>1, <1>2, Inductive, PTL DEF Spec

(* As long as there is a handle, no expect of run_async or poll_task       *)
(* fails: the map that a suspended task goes to, and comes from, is there. *)
THEOREM CrashOnlyAfterDrop == Spec => [](alive => ExitsCleanly)
<1>1. Init => CrashInv
  BY DEF Init, CrashInv, ExitsCleanly
<1>2. IInv /\ CrashInv /\ [Next]_vars => CrashInv'
  BY CrashStep
<1> QED BY <1>1, <1>2, Inductive, PTL DEF Spec, CrashInv

LEMMA NoShutdownLeft ==
  ASSUME TypeOK, ~Sent(Shutdown)
  PROVE  Shutdowns = 0
<1>1. ~Contains(buffer, Shutdown) /\ Obtained = {}
  BY DEF Sent, Obtained
<1>2. Copies(buffer, Shutdown) = 0
  BY <1>1, CopiesFinite DEF TypeOK
<1> QED BY <1>1, <1>2, FS_EmptySet DEF Shutdowns

(* Whenever no Shutdown is on its way the pool has the size last asked     *)
(* for, after any number of calls of resize, up and down, and whichever    *)
(* workers the messages reach.                                             *)
THEOREM SizeReached == Spec => []PoolReachesSize
<1>1. IInv /\ BalanceInv /\ (alive => ExitsCleanly) => PoolReachesSize
  <2> SUFFICES ASSUME IInv, BalanceInv, ExitsCleanly, alive, to_send = 0,
                      ~Sent(Shutdown)
               PROVE  Cardinality(Looping) = size
    BY DEF PoolReachesSize
  <2>1. Looping = Unserved
    BY DEF Looping, Unserved, ExitsCleanly
  <2>2. Shutdowns = 0
    BY NoShutdownLeft DEF IInv
  <2> QED BY <2>1, <2>2 DEF BalanceInv, IInv, TypeOK
<1> QED BY <1>1, BalanceInductive, CrashOnlyAfterDrop, Inductive, PTL

(* After the last handle is dropped, a Shutdown is left for each worker    *)
(* that has not had one: when all have been sent and taken, no worker is   *)
(* in the loop, whatever other messages they had to handle before.         *)
WorkersServed == ~alive /\ to_send = 0 /\ ~Sent(Shutdown) => Looping = {}

THEOREM NoWorkerForgotten == Spec => []WorkersServed
<1>1. IInv /\ BalanceInv => WorkersServed
  <2> SUFFICES ASSUME IInv, BalanceInv, ~alive, to_send = 0, ~Sent(Shutdown)
               PROVE  Looping = {}
    BY DEF WorkersServed
  <2>1. Shutdowns = 0
    BY NoShutdownLeft DEF IInv
  <2>2. Unserved = {}
    BY <2>1, BalanceFinite, FS_EmptySet DEF BalanceInv, IInv
  <2> QED BY <2>2 DEF Looping, Unserved
<1> QED BY <1>1, BalanceInductive, Inductive, PTL

-----------------------------------------------------------------------------
(* What is proved of ExecutorContract holds of the pool, which implements  *)
(* it: the two instances are the same specification.                       *)
Promise == INSTANCE ExecutorContractProofs WITH
  Pinned <- {},
  open <- alive, waited <- running_tasks,
  running <- [w \in Workers |-> PolledBy(w)], home <- [w \in Workers |-> {}],
  task <- [t \in Tasks |-> Status(t)]

LEMMA PromiseKept == Spec => Promise!Spec
<1>1. Executor!Init => Promise!Init
  BY DEF Executor!Init, Promise!Init
<1>2. Executor!Next => Promise!Next
  BY DEF Executor!Next, Executor!Submit, Executor!SubmitPinned,
         Executor!Start, Executor!Yield, Executor!Finish, Executor!Unwind,
         Executor!Ends, Executor!Abandon, Executor!Close, Executor!Shed,
         Executor!Idle,
         Promise!Next, Promise!Submit, Promise!SubmitPinned, Promise!Start,
         Promise!Yield, Promise!Finish, Promise!Unwind, Promise!Ends,
         Promise!Abandon, Promise!Close, Promise!Shed, Promise!Idle
<1>3. UNCHANGED Executor!vars => UNCHANGED Promise!vars
  BY DEF Executor!vars, Promise!vars
<1> QED
  BY <1>1, <1>2, <1>3, ExecutorRefinement, PTL
     DEF ImplementsExecutor, Executor!Spec, Promise!Spec

LEMMA FiniteTasks == Promise!IsFiniteSet(Tasks) /\ NULL \notin Tasks
BY WasmPoolAssumption DEF IsFiniteSet, Promise!IsFiniteSet

(* drain, which waits for the counter, returns only when every task that   *)
(* has been spawned has returned Ready and no worker is in a poll.         *)
THEOREM DrainedMeansFinished ==
  Spec => [](running_tasks = 0 =>
               /\ \A t \in Tasks : fate[t] \in {"new", "done"}
               /\ \A w \in Workers : thread[w] # "poll")
<1>1. IInv /\ Promise!NothingLeft =>
        (running_tasks = 0 =>
           /\ \A t \in Tasks : fate[t] \in {"new", "done"}
           /\ \A w \in Workers : thread[w] # "poll")
  BY WasmPoolAssumption
     DEF IInv, Promise!NothingLeft, Status, PolledBy, TypeOK, WorkInv
<1>2. Promise!Spec => []Promise!NothingLeft
  BY FiniteTasks, Promise!DrainedMeansFinished
<1> QED
  BY <1>1, <1>2, PromiseKept, Inductive, PTL

(* Once a task is dropped with the map, or with the worker whose expect    *)
(* failed, drain never returns again.                                      *)
SomeLost == \E t \in Tasks : fate[t] = "lost"

THEOREM LostBlocksDrain == Spec => [](SomeLost => [](running_tasks # 0))
<1>1. SomeLost => Promise!SomeAbandoned
  BY DEF SomeLost, Promise!SomeAbandoned, Status
<1>2. Promise!Spec => [](Promise!SomeAbandoned => [](running_tasks # 0))
  BY FiniteTasks, Promise!AbandonedBlocksDrain
<1> QED
  BY <1>1, <1>2, PromiseKept, PTL

(* That happens only after the last handle went: until then the map stays, *)
(* and no expect fails.                                                    *)
LostAfterDrop == SomeLost => ~alive

LEMMA LostStep ==
  ASSUME IInv, LostAfterDrop, [Next]_vars
  PROVE  LostAfterDrop'
<1> USE DEF IInv, TypeOK, MapInv, LostAfterDrop, SomeLost, poolVars, taskVars
<1>1. ASSUME NEW t \in Tasks, Spawn(t) PROVE LostAfterDrop'
  BY <1>1 DEF Spawn
<1>2. ASSUME NEW n \in Sizes, Resize(n) PROVE LostAfterDrop'
  BY <1>2 DEF Resize
<1>3. CASE DropExecutor \/ SendShutdown \/ DropMap
  BY <1>3 DEF DropExecutor, SendShutdown, DropMap
<1>4. ASSUME NEW w \in Workers,
             \/ Recv(w) \/ HandleNewTask(w) \/ HandleResumeTask(w)
             \/ HandleDuplicate(w) \/ ResumeFails(w) \/ HandleShutdown(w)
             \/ PollPending(w) \/ InsertPending(w) \/ CheckInlineWake(w)
      PROVE  LostAfterDrop'
  BY <1>4 DEF Recv, HandleNewTask, HandleResumeTask, HandleDuplicate,
              ResumeFails, HandleShutdown, PollPending, InsertPending,
              CheckInlineWake
<1>5. ASSUME NEW w \in Workers, PollReady(w) PROVE LostAfterDrop'
  BY <1>5 DEF PollReady
<1>6. ASSUME NEW w \in Workers, InsertFails(w) PROVE LostAfterDrop'
  BY <1>6 DEF InsertFails, MapLives
<1>7. ASSUME NEW w \in Workers, Release(w) PROVE LostAfterDrop'
  BY <1>7 DEF Release, DropReference, MapLives
<1>8. ASSUME NEW t \in Tasks, NEW n \in 1..MaxPolls,
             WakeStore(t, n) \/ WakeSend(t, n)
      PROVE  LostAfterDrop'
  BY <1>8 DEF WakeStore, WakeSend
<1>9. CASE UNCHANGED vars
  BY <1>9 DEF vars
<1> QED
  BY <1>1, <1>2, <1>3, <1>4, <1>5, <1>6, <1>7, <1>8, <1>9
     DEF Next, WorkerStep

THEOREM NothingLostWhileOpen == Spec => []LostAfterDrop
<1>1. Init => LostAfterDrop
  BY DEF Init, LostAfterDrop, SomeLost
<1>2. IInv /\ LostAfterDrop /\ [Next]_vars => LostAfterDrop'
  BY LostStep
<1> QED
  BY <1>1, <1>2, Inductive, PTL DEF Spec

-----------------------------------------------------------------------------
(* The stack of messages and the workers waiting for one.                  *)

(* No message lies on the stack while a worker waits: recv looks at the    *)
(* one and joins the others under the same lock.                           *)
NoMessageWaits == resume # <<>> => buffer = <<>>

LEMMA WaitStep ==
  ASSUME NoMessageWaits, [Next]_vars
  PROVE  NoMessageWaits'
<1> USE DEF NoMessageWaits, chanVars
<1>1. ASSUME NEW m, Send(m) PROVE NoMessageWaits'
  BY <1>1 DEF Send
<1>2. ASSUME NEW w \in Workers, Recv(w) PROVE NoMessageWaits'
  BY <1>2 DEF Recv
<1>3. ASSUME NEW w \in Workers, WorkerStep(w), ~Recv(w)
      PROVE  NoMessageWaits'
  BY <1>1, <1>3 DEF WorkerStep, HandleNewTask, HandleResumeTask,
     HandleDuplicate, ResumeFails, HandleShutdown, Receives, PollReady,
     PollPending, InsertPending, InsertFails, CheckInlineWake, Release
<1>4. CASE UNCHANGED vars
  BY <1>4 DEF vars
<1> QED
  BY <1>1, <1>2, <1>3, <1>4 DEF Next, Spawn, Resize, DropExecutor,
     SendShutdown, DropMap, WakeStore, WakeSend

(* The workers that no Shutdown has reached. *)
Kept == {w \in Looping : inbox[w] # Shutdown}

(* In a pool that has not been resized to nothing, a spawned task is       *)
(* suspended in the map, with a worker, or on the stack while no worker    *)
(* waits; and the Shutdowns on the stack, which may overtake it, are fewer *)
(* than the workers that can take them.                                    *)
NoTaskStranded ==
  alive /\ size > 0 =>
    /\ \A t \in Tasks : fate[t] = "spawned" =>
         \/ t \in pending_tasks
         \/ \E w \in Workers : Polled(w, t)
         \/ \E w \in Workers : thread[w] = "recv" /\ inbox[w] = NewTask(t)
         \/ Contains(buffer, NewTask(t)) /\ resume = <<>>
    /\ Cardinality(Kept) > Copies(buffer, Shutdown)

LEMMA KeptWorkers ==
  ASSUME IInv, BalanceInv, ExitsCleanly, alive, size > 0
  PROVE  Cardinality(Kept) > Copies(buffer, Shutdown)
<1> USE DEF IInv
<1>1. Looping = Unserved
  BY DEF Looping, Unserved, ExitsCleanly
<1>2. Obtained \subseteq Looping
  BY MessageKinds DEF Obtained, Looping, WorkInv, TypeOK
<1>3. Kept = Looping \ Obtained
  BY DEF Kept, Obtained, Looping
<1>4. /\ IsFiniteSet(Looping) /\ IsFiniteSet(Obtained)
      /\ Cardinality(Looping) = size + to_send + Shutdowns
  BY <1>1, BalanceFinite DEF BalanceInv
<1>5. Cardinality(Kept) = Cardinality(Looping) - Cardinality(Looping \cap Obtained)
  BY <1>3, <1>4, FS_Difference
<1>6. Looping \cap Obtained = Obtained
  BY <1>2
<1>7. /\ size \in Nat /\ to_send \in Nat
      /\ Copies(buffer, Shutdown) \in Nat /\ Cardinality(Obtained) \in Nat
  BY BalanceFinite DEF TypeOK
<1>8. Cardinality(Kept)
        = (size + to_send + (Copies(buffer, Shutdown) + Cardinality(Obtained)))
            - Cardinality(Obtained)
  <2> HIDE DEF IInv
  <2>1. Cardinality(Kept) = (size + to_send + Shutdowns) - Cardinality(Obtained)
    BY <1>4, <1>5, <1>6
  <2> QED
    BY <2>1 DEF Shutdowns
<1> QED
  BY <1>7, <1>8

(* So a task spawned while there is a handle is not left with nobody to    *)
(* run it, however spawns, wakes and calls of resize overtake each other.  *)
THEOREM TasksReachWorkers == Spec => [](NoMessageWaits /\ NoTaskStranded)
<1>1. Init => NoMessageWaits
  BY DEF Init, NoMessageWaits
<1>2. NoMessageWaits /\ [Next]_vars => NoMessageWaits'
  BY WaitStep
<1>3. IInv /\ BalanceInv /\ (alive => ExitsCleanly) /\ NoMessageWaits
      => NoTaskStranded
  <2> SUFFICES ASSUME IInv, BalanceInv, ExitsCleanly, NoMessageWaits,
                      alive, size > 0
               PROVE  NoTaskStranded
    BY DEF NoTaskStranded
  <2>1. ASSUME NEW t \in Tasks, Contains(buffer, NewTask(t))
        PROVE  resume = <<>>
    BY <2>1, EmptyMember DEF NoMessageWaits
  <2>2. ASSUME NEW t \in Tasks, NEW w \in Workers, inbox[w] = NewTask(t)
        PROVE  thread[w] = "recv"
    BY <2>2, MessageKinds, WasmPoolAssumption DEF IInv, WorkInv, TaskMessage
  <2>3. ASSUME NEW t \in Tasks, fate[t] = "spawned"
        PROVE  \/ t \in pending_tasks
               \/ \E w \in Workers : Polled(w, t)
               \/ \E w \in Workers : thread[w] = "recv" /\ inbox[w] = NewTask(t)
               \/ Contains(buffer, NewTask(t)) /\ resume = <<>>
    BY <2>1, <2>2, <2>3 DEF IInv, OneOwner, Sent
  <2> QED
    BY <2>3, KeptWorkers DEF NoTaskStranded
<1> QED
  BY <1>1, <1>2, <1>3, BalanceInductive, CrashOnlyAfterDrop, Inductive, PTL
     DEF Spec

=============================================================================
