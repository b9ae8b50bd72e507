---------------------------- MODULE DrainProofs -----------------------------
(***************************************************************************)
(* Proofs about Drain.tla, for any set of tasks and any drainers.  That a  *)
(* pending drain future will be woken needs that no other one is pending.  *)
(***************************************************************************)
EXTENDS Drain, FiniteSetTheorems, TLAPS

USE DEF CountTask, UncountTask, OldIsOne, NoneRunning, Register

(* A drainer waits for tasks that were spawned. *)
BeforeInv ==
  \A d \in Drainers : \A t \in before[d] : task[t] # "new"

IInv == TypeOK /\ CountsLive /\ BeforeInv /\ DrainCoversDescendants

(* Counting a task in adds one to the size of Counted. *)
LEMMA CountIn ==
  ASSUME NEW t \in Tasks, TypeOK, CountsLive, t \notin Counted,
         Counted' = Counted \cup {t}, running_tasks' = running_tasks + 1
  PROVE  CountsLive'
<1>1. IsFiniteSet(Counted)
  BY FS_Subset, DrainAssumption DEF Counted
<1>2. Cardinality(Counted \cup {t}) = Cardinality(Counted) + 1
  BY <1>1, FS_AddElement
<1> QED
  BY <1>2 DEF CountsLive

(* A finished task leaves Counted. *)
LEMMA CountOut ==
  ASSUME NEW t \in Tasks, TypeOK, CountsLive, t \in Counted,
         Counted' = Counted \ {t}, running_tasks' = running_tasks - 1
  PROVE  CountsLive' /\ running_tasks' \in Nat
<1>1. IsFiniteSet(Counted)
  BY FS_Subset, DrainAssumption DEF Counted
<1>2. /\ Cardinality(Counted \ {t}) = Cardinality(Counted) - 1
      /\ Cardinality(Counted \ {t}) \in Nat
  BY <1>1, FS_RemoveElement, FS_Subset, FS_CardinalityType
<1> QED
  BY <1>2 DEF CountsLive

(* Zero means that nothing is counted. *)
LEMMA ZeroMeansNone ==
  ASSUME CountsLive, running_tasks = 0
  PROVE  Counted = {}
<1>1. IsFiniteSet(Counted)
  BY FS_Subset, DrainAssumption DEF Counted
<1> QED
  BY <1>1, FS_EmptySet DEF CountsLive

(* One lemma per action: what it does to the counter and the tasks. *)
LEMMA TypeAndCountStep ==
  IInv /\ [Next]_vars => TypeOK' /\ CountsLive'
<1> SUFFICES ASSUME TypeOK, CountsLive, [Next]_vars
             PROVE  TypeOK' /\ CountsLive'
  BY DEF IInv
<1> USE DrainAssumption DEF Drainers, taskVars, drainVars
<1>1. ASSUME NEW t \in Tasks, NEW p \in Tasks \cup {NULL}, SpawnCount(t, p)
      PROVE  TypeOK' /\ CountsLive'
  <2>1. TypeOK'
    BY <1>1 DEF SpawnCount, TypeOK
  <2>2. t \notin Counted /\ Counted' = Counted \cup {t}
    BY <1>1 DEF SpawnCount, TypeOK, Counted
  <2> QED
    BY <1>1, <2>1, <2>2, CountIn DEF SpawnCount
<1>2. ASSUME NEW t \in Tasks, SpawnSend(t) PROVE TypeOK' /\ CountsLive'
  <2>1. TypeOK'
    BY <1>2 DEF SpawnSend, TypeOK
  <2>2. Counted' = Counted
    BY <1>2 DEF SpawnSend, TypeOK, Counted
  <2> QED
    BY <1>2, <2>1, <2>2 DEF SpawnSend, CountsLive
<1>3. ASSUME NEW t \in Tasks, Finish(t) PROVE TypeOK' /\ CountsLive'
  <2>1. t \in Counted /\ Counted' = Counted \ {t}
    BY <1>3 DEF Finish, TypeOK, Counted
  <2>2. CountsLive' /\ running_tasks' \in Nat
    BY <1>3, <2>1, CountOut DEF Finish
  <2> QED
    BY <1>3, <2>2 DEF Finish, TypeOK
<1>4. ASSUME NEW t \in Tasks, WakeDrainer(t) PROVE TypeOK' /\ CountsLive'
  <2>1. TypeOK'
    BY <1>4 DEF WakeDrainer, TypeOK
  <2>2. Counted' = Counted
    BY <1>4 DEF WakeDrainer, TypeOK, Counted
  <2> QED
    BY <1>4, <2>1, <2>2 DEF WakeDrainer, CountsLive
<1>5. ASSUME NEW d \in Drainers, StartDrain(d) PROVE TypeOK' /\ CountsLive'
  BY <1>5 DEF StartDrain, TypeOK, CountsLive, Counted
<1>6. ASSUME NEW d \in Sync, SyncReturn(d) PROVE TypeOK' /\ CountsLive'
  BY <1>6 DEF SyncReturn, TypeOK, CountsLive, Counted
<1>7. ASSUME NEW d \in Async, PollRegister(d) PROVE TypeOK' /\ CountsLive'
  BY <1>7 DEF PollRegister, TypeOK, CountsLive, Counted
<1>8. ASSUME NEW d \in Async, PollLoad(d) PROVE TypeOK' /\ CountsLive'
  BY <1>8 DEF PollLoad, TypeOK, CountsLive, Counted
<1>9. ASSUME NEW d \in Async, IntoExecutor(d) PROVE TypeOK' /\ CountsLive'
  BY <1>9 DEF IntoExecutor, TypeOK, CountsLive, Counted
<1>10. CASE UNCHANGED vars
  BY <1>10 DEF vars, TypeOK, CountsLive, Counted
<1> QED
  BY <1>1, <1>2, <1>3, <1>4, <1>5, <1>6, <1>7, <1>8, <1>9, <1>10 DEF Next

(* What a drainer waits for stays spawned, and stays finished once the     *)
(* drain has returned.                                                     *)
LEMMA CoverStep ==
  IInv /\ [Next]_vars => BeforeInv' /\ DrainCoversDescendants'
<1> SUFFICES ASSUME IInv, [Next]_vars
             PROVE  BeforeInv' /\ DrainCoversDescendants'
  OBVIOUS
<1> USE DrainAssumption DEF IInv, TypeOK, BeforeInv, DrainCoversDescendants,
    Drainers, taskVars, drainVars
<1>1. ASSUME NEW t \in Tasks, NEW p \in Tasks \cup {NULL}, SpawnCount(t, p)
      PROVE  BeforeInv' /\ DrainCoversDescendants'
  BY <1>1 DEF SpawnCount
<1>2. ASSUME NEW t \in Tasks, SpawnSend(t) \/ Finish(t)
      PROVE  BeforeInv' /\ DrainCoversDescendants'
  BY <1>2 DEF SpawnSend, Finish
<1>3. ASSUME NEW t \in Tasks, WakeDrainer(t)
      PROVE  BeforeInv' /\ DrainCoversDescendants'
  BY <1>3 DEF WakeDrainer
<1>4. ASSUME NEW d \in Drainers, StartDrain(d)
      PROVE  BeforeInv' /\ DrainCoversDescendants'
  BY <1>4 DEF StartDrain
<1>5. ASSUME running_tasks = 0, NEW d \in Drainers, NEW t \in before[d]
      PROVE  task[t] \in {"last", "done"}
  BY <1>5, ZeroMeansNone DEF Counted
<1>6. ASSUME NEW d \in Sync, SyncReturn(d)
      PROVE  BeforeInv' /\ DrainCoversDescendants'
  BY <1>5, <1>6 DEF SyncReturn
<1>7. ASSUME NEW d \in Async, PollRegister(d) \/ IntoExecutor(d)
      PROVE  BeforeInv' /\ DrainCoversDescendants'
  BY <1>7 DEF PollRegister, IntoExecutor
<1>8. ASSUME NEW d \in Async, PollLoad(d)
      PROVE  BeforeInv' /\ DrainCoversDescendants'
  BY <1>5, <1>8 DEF PollLoad
<1>9. CASE UNCHANGED vars
  BY <1>9 DEF vars
<1> QED
  BY <1>1, <1>2, <1>3, <1>4, <1>6, <1>7, <1>8, <1>9 DEF Next

LEMMA Inductive == Spec => []IInv
<1>1. Init => IInv
  <2> SUFFICES ASSUME Init PROVE IInv
    OBVIOUS
  <2>1. Counted = {}
    BY DEF Init, Counted
  <2>2. CountsLive
    BY <2>1, FS_EmptySet DEF Init, CountsLive
  <2> QED
    BY <2>2 DEF Init, IInv, TypeOK, BeforeInv, DrainCoversDescendants
<1>2. IInv /\ [Next]_vars => IInv'
  BY TypeAndCountStep, CoverStep DEF IInv
<1> QED
  BY <1>1, <1>2, PTL DEF Spec

(* Every variable keeps its type: the counter in particular never goes     *)
(* below zero, where an AtomicUsize would wrap.                            *)
THEOREM TypeCorrect == Spec => []TypeOK
<1>1. IInv => TypeOK
  BY DEF IInv
<1> QED
  BY <1>1, Inductive, PTL

(* running_tasks is the number of tasks counted and not finished.          *)
THEOREM CounterExact == Spec => []CountsLive
<1>1. IInv => CountsLive
  BY DEF IInv
<1> QED
  BY <1>1, Inductive, PTL

(* drain and drain_async return only when every task spawned before, and   *)
(* every task those spawned, has finished.                                 *)
THEOREM DrainSound == Spec => []DrainCoversDescendants
<1>1. IInv => DrainCoversDescendants
  BY DEF IInv
<1> QED
  BY <1>1, Inductive, PTL

-----------------------------------------------------------------------------
(* Two drain futures overlap when both have begun and not returned. *)
Draining(d) == drain[d] \in {"scheduled", "registered", "pending"}
NoOverlap ==
  \A d, e \in Async : Draining(d) /\ Draining(e) => d = e

(* Without overlap, a poll in progress either holds the registration or    *)
(* has been notified.                                                      *)
RegisterInv ==
  /\ \A d \in Async : drain[d] = "registered" => waker = d \/ notified[d]
  /\ PendingWillBeWoken

LEMMA RegisterStep ==
  ASSUME NoOverlap, IInv, RegisterInv, [Next]_vars
  PROVE  RegisterInv'
<1> USE DrainAssumption DEF IInv, TypeOK, RegisterInv, PendingWillBeWoken,
    Drainers, taskVars, drainVars
<1>1. ASSUME NEW t \in Tasks, NEW p \in Tasks \cup {NULL}, SpawnCount(t, p)
      PROVE  RegisterInv'
  BY <1>1 DEF SpawnCount
<1>2. ASSUME NEW t \in Tasks, SpawnSend(t) PROVE RegisterInv'
  BY <1>2 DEF SpawnSend
<1>3. ASSUME NEW t \in Tasks, Finish(t) PROVE RegisterInv'
  BY <1>3, TypeAndCountStep DEF Finish
<1>4. ASSUME NEW t \in Tasks, WakeDrainer(t) PROVE RegisterInv'
  BY <1>4 DEF WakeDrainer
<1>5. ASSUME NEW d \in Drainers, StartDrain(d) PROVE RegisterInv'
  BY <1>5 DEF StartDrain
<1>6. ASSUME NEW d \in Sync, SyncReturn(d) PROVE RegisterInv'
  BY <1>6 DEF SyncReturn
<1>7. ASSUME NEW d \in Async, PollRegister(d) PROVE RegisterInv'
  <2>1. ASSUME NEW e \in Async, drain[e] \in {"registered", "pending"}
        PROVE  FALSE
    BY <1>7, <2>1 DEF PollRegister, NoOverlap, Draining
  <2> QED
    BY <1>7, <2>1 DEF PollRegister
<1>8. ASSUME NEW d \in Async, PollLoad(d) PROVE RegisterInv'
  BY <1>8 DEF PollLoad
<1>9. ASSUME NEW d \in Async, IntoExecutor(d) PROVE RegisterInv'
  BY <1>9 DEF IntoExecutor
<1>10. CASE UNCHANGED vars
  BY <1>10 DEF vars
<1> QED
  BY <1>1, <1>2, <1>3, <1>4, <1>5, <1>6, <1>7, <1>8, <1>9, <1>10 DEF Next

(* As long as no two drain futures of an executor overlap, one that        *)
(* returned Pending is registered and a task is left to wake it, however   *)
(* many there have been and whatever waker the last one left behind.       *)
THEOREM SeparateFuturesWoken == Spec /\ []NoOverlap => []PendingWillBeWoken
<1>1. Init => RegisterInv
  BY DEF Init, RegisterInv, PendingWillBeWoken, Drainers
<1>2. NoOverlap /\ IInv /\ RegisterInv /\ [Next]_vars => RegisterInv'
  BY RegisterStep
<1>3. RegisterInv => PendingWillBeWoken
  BY DEF RegisterInv
<1> QED
  BY <1>1, <1>2, <1>3, Inductive, PTL DEF Spec

(* In particular a single drain future; with two, DrainTwoFutures.cfg      *)
(* shows one left asleep.                                                  *)
THEOREM SingleFutureWoken ==
  ASSUME \A d, e \in Async : d = e
  PROVE  Spec => []PendingWillBeWoken
<1>1. NoOverlap
  BY DEF NoOverlap
<1> QED
  BY <1>1, SeparateFuturesWoken, PTL

(* With any number of futures: the one whose waker is registered will be   *)
(* woken, for a task is left to do it.                                     *)
RegisteredWillBeWoken ==
  \A d \in Async : drain[d] = "pending" /\ waker = d =>
    running_tasks > 0 \/ \E t \in Tasks : task[t] = "last"

(* And a pending future loses its registration only to a wake, which has   *)
(* it polled again, or to the registration of another: AtomicWaker keeps   *)
(* one waker, which is the cause of finding DrainTwoFutures.               *)
LosesOnlyToAnother ==
  \A d \in Async : drain[d] = "pending" /\ waker = d /\ waker' # d =>
    \/ drain'[d] = "scheduled"
    \/ \E e \in Async \ {d} : drain[e] = "scheduled" /\ waker' = e

LEMMA RegisteredStep ==
  ASSUME IInv, RegisteredWillBeWoken, [Next]_vars
  PROVE  RegisteredWillBeWoken' /\ LosesOnlyToAnother
<1> USE DrainAssumption DEF IInv, TypeOK, RegisteredWillBeWoken,
    LosesOnlyToAnother, Drainers, taskVars, drainVars
<1> DEFINE Goal == RegisteredWillBeWoken' /\ LosesOnlyToAnother
<1>1. ASSUME NEW t \in Tasks, NEW p \in Tasks \cup {NULL}, SpawnCount(t, p)
      PROVE  Goal
  BY <1>1 DEF SpawnCount
<1>2. ASSUME NEW t \in Tasks, SpawnSend(t) PROVE Goal
  BY <1>2 DEF SpawnSend
<1>3. ASSUME NEW t \in Tasks, Finish(t) PROVE Goal
  BY <1>3, TypeAndCountStep DEF Finish
<1>4. ASSUME NEW t \in Tasks, WakeDrainer(t) PROVE Goal
  BY <1>4 DEF WakeDrainer
<1>5. ASSUME NEW d \in Drainers, StartDrain(d) PROVE Goal
  BY <1>5 DEF StartDrain
<1>6. ASSUME NEW d \in Sync, SyncReturn(d) PROVE Goal
  BY <1>6 DEF SyncReturn
<1>7. ASSUME NEW d \in Async, PollRegister(d) PROVE Goal
  BY <1>7 DEF PollRegister
<1>8. ASSUME NEW d \in Async, PollLoad(d) PROVE Goal
  BY <1>8 DEF PollLoad
<1>9. ASSUME NEW d \in Async, IntoExecutor(d) PROVE Goal
  BY <1>9 DEF IntoExecutor
<1>10. CASE UNCHANGED vars
  BY <1>10 DEF vars
<1> QED
  BY <1>1, <1>2, <1>3, <1>4, <1>5, <1>6, <1>7, <1>8, <1>9, <1>10 DEF Next

THEOREM RegistrationKept ==
  Spec => []RegisteredWillBeWoken /\ [][LosesOnlyToAnother]_vars
<1>1. Init => RegisteredWillBeWoken
  BY DEF Init, RegisteredWillBeWoken, Drainers
<1>2. IInv /\ RegisteredWillBeWoken /\ [Next]_vars
      => RegisteredWillBeWoken' /\ [LosesOnlyToAnother]_vars
  BY RegisteredStep
<1> QED
  BY <1>1, <1>2, Inductive, PTL DEF Spec

=============================================================================
