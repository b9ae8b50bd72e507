---------------------------- MODULE WakerProofs -----------------------------
(***************************************************************************)
(* Proofs about Waker.tla, for any number of waking threads and addresses. *)
(* Ownership of the boxes holds whether or not the reset is delayed by the *)
(* store buffer; NoLostWake and the refinement of WakeContract need that   *)
(* no wake meets the delay.                                                *)
(***************************************************************************)
EXTENDS Waker, FiniteSetTheorems, TLAPS

USE DEF CloneArc, CloneAndForget, Allocate, OtherBox, SeeBox, StillThere,
        cellVars, boxVars, arcVars, wakeVars

(* A box is in the cell exactly while the task is parked, and in the hands *)
(* of a waker exactly while the task is taken; the reset is in the store   *)
(* buffer only until the first locked instruction after the poll.          *)
CellInv ==
  /\ inline_wake \in Addr <=> task = "parked"
  /\ resetBuffered => task \in {"reset", "polling", "done"}
  /\ task \in {"check", "inline"} => raw_alert \in Addr
  /\ TaskNeverDropped

HolderInv ==
  /\ \A w \in Wakers : waker[w] \in {"take", "alert"} => boxed_fn[w] \in Addr
  /\ \A w \in Wakers : waker[w] = "alert" => task = "taken"
  /\ \A v, w \in Wakers : waker[v] = "alert" /\ waker[w] = "alert" => v = w

(* An armed box has a holder and a holder's box is armed. *)
HeapInv ==
  \A a \in Addr :
    heap[a] = "armed" <=>
      CheckHolds(a) \/ CellHolds(a) \/ \E w \in Wakers : WakerHolds(w, a)

(* Who owns references to the cell: the task two, run one of its own       *)
(* around check_wake, and every thread with a clone of the waker, which it *)
(* keeps while it is in wake_by_ref.                                       *)
TaskReferences == CASE task = "freed" -> 0
                    [] task \in {"check", "inline"} -> 3
                    [] OTHER -> 2

ArcInv ==
  /\ strong = TaskReferences + leaving + Cardinality(handles)
  /\ \A w \in Wakers : waker[w] # "idle" => w \in handles

IInv == TypeOK /\ CellInv /\ HolderInv /\ HeapInv /\ ArcInv

(* The reference count follows its owners. *)
LEMMA HandlesFinite ==
  ASSUME TypeOK
  PROVE  /\ IsFiniteSet(handles) /\ Cardinality(handles) \in Nat
         /\ Cardinality(handles) = 0 => handles = {}
         /\ \A w \in Wakers \ handles :
              Cardinality(handles \cup {w}) = Cardinality(handles) + 1
         /\ \A w \in handles :
              Cardinality(handles \ {w}) = Cardinality(handles) - 1
<1>1. IsFiniteSet(handles)
  BY WakerAssumption, FS_Subset DEF TypeOK
<1> QED
  BY <1>1, FS_CardinalityType, FS_EmptySet, FS_AddElement, FS_RemoveElement

LEMMA ArcStep == IInv /\ [Next]_vars => ArcInv' /\ strong' \in Nat
<1> SUFFICES ASSUME IInv, [Next]_vars PROVE ArcInv' /\ strong' \in Nat
  OBVIOUS
<1> USE HandlesFinite
    DEF IInv, TypeOK, ArcInv, TaskReferences
<1>0. TypeOK
  BY DEF IInv
<1>1. CASE Reset \/ FlushReset \/ PollReady
  BY <1>0, <1>1 DEF Reset, FlushReset, PollReady, CellInv
<1>2. CASE StartPoll
  BY <1>0, <1>2 DEF StartPoll
<1>3. CASE FreeTask
  BY <1>0, <1>3 DEF FreeTask
<1>4. ASSUME NEW a \in Addr, PollPending(a) \/ FreeBox(a)
      PROVE  ArcInv' /\ strong' \in Nat
  BY <1>0, <1>4 DEF PollPending, FreeBox
<1>5. CASE CheckWake
  BY <1>0, <1>5 DEF CheckWake
<1>6. CASE RunInline
  BY <1>0, <1>6 DEF RunInline
<1>7. CASE LeaveRun
  BY <1>0, <1>7 DEF LeaveRun
<1>8. ASSUME NEW w \in Wakers, Clone(w) PROVE ArcInv' /\ strong' \in Nat
  BY <1>0, <1>8 DEF Clone
<1>9. ASSUME NEW w \in Wakers, DropWaker(w) PROVE ArcInv' /\ strong' \in Nat
  BY <1>0, <1>9 DEF DropWaker
<1>10. ASSUME NEW w \in Wakers, WakeBegin(w) PROVE ArcInv' /\ strong' \in Nat
  BY <1>0, <1>10 DEF WakeBegin
<1>11. ASSUME NEW w \in Wakers, WakeCas(w) PROVE ArcInv' /\ strong' \in Nat
  BY <1>0, <1>11 DEF WakeCas
<1>12. ASSUME NEW w \in Wakers, WakeTake(w) PROVE ArcInv' /\ strong' \in Nat
  BY <1>0, <1>12, WakerAssumption DEF WakeTake, CellInv, HolderInv
<1>13. ASSUME NEW w \in Wakers, WakeAlert(w) PROVE ArcInv' /\ strong' \in Nat
  BY <1>0, <1>13 DEF WakeAlert, HolderInv
<1>14. CASE UNCHANGED vars
  BY <1>0, <1>14 DEF vars
<1> QED
  BY <1>1, <1>2, <1>3, <1>4, <1>5, <1>6, <1>7, <1>8, <1>9, <1>10, <1>11, <1>12,
     <1>13, <1>14 DEF Next, PollReturns, WakeStep

(* Every variable keeps its type. *)
LEMMA TypeStep == IInv /\ [Next]_vars => TypeOK'
<1> SUFFICES ASSUME TypeOK, CellInv, HolderInv, strong' \in Nat, [Next]_vars
             PROVE  TypeOK'
  BY ArcStep DEF IInv
<1> USE DEF TypeOK, TaskPlace
<1>1. CASE Reset
  BY <1>1 DEF Reset
<1>2. CASE FlushReset
  BY <1>2 DEF FlushReset
<1>3. CASE PollReady \/ FreeTask \/ RunInline
  BY <1>3 DEF PollReady, FreeTask, RunInline
<1>12. CASE StartPoll
  BY <1>12 DEF StartPoll
<1>13. CASE LeaveRun
  BY <1>13 DEF LeaveRun
<1>4. ASSUME NEW a \in Addr, PollPending(a) PROVE TypeOK'
  BY <1>4 DEF PollPending
<1>5. CASE CheckWake
  BY <1>5 DEF CheckWake, CellInv
<1>6. ASSUME NEW a \in Addr, FreeBox(a) PROVE TypeOK'
  BY <1>6 DEF FreeBox
<1>7. ASSUME NEW w \in Wakers, WakeBegin(w) \/ Clone(w) \/ DropWaker(w)
      PROVE  TypeOK'
  BY <1>7 DEF WakeBegin, Clone, DropWaker
<1>8. ASSUME NEW w \in Wakers, WakeCas(w) PROVE TypeOK'
  BY <1>8 DEF WakeCas
<1>9. ASSUME NEW w \in Wakers, WakeTake(w) PROVE TypeOK'
  BY <1>9 DEF WakeTake
<1>10. ASSUME NEW w \in Wakers, WakeAlert(w) PROVE TypeOK'
  BY <1>10 DEF WakeAlert
<1>11. CASE UNCHANGED vars
  BY <1>11 DEF vars
<1> QED
  BY <1>1, <1>2, <1>3, <1>4, <1>5, <1>6, <1>7, <1>8, <1>9, <1>10, <1>11,
     <1>12, <1>13
  DEF Next, PollReturns, WakeStep

(* The cell, the store buffer and check_wake's local agree with the place  *)
(* of the task.                                                            *)
LEMMA CellStep == IInv /\ [Next]_vars => CellInv'
<1> SUFFICES ASSUME TypeOK, CellInv, HolderInv, [Next]_vars PROVE CellInv'
  BY DEF IInv
<1> USE WakerAssumption DEF TypeOK, TaskPlace, CellInv, TaskNeverDropped
<1>1. CASE Reset
  BY <1>1 DEF Reset
<1>2. CASE FlushReset
  BY <1>2 DEF FlushReset
<1>3. CASE StartPoll \/ PollReady \/ FreeTask \/ RunInline \/ LeaveRun
  BY <1>3 DEF StartPoll, PollReady, FreeTask, RunInline, LeaveRun
<1>4. ASSUME NEW a \in Addr, PollPending(a) PROVE CellInv'
  BY <1>4 DEF PollPending
<1>5. CASE CheckWake
  BY <1>5 DEF CheckWake
<1>6. ASSUME NEW a \in Addr, FreeBox(a) PROVE CellInv'
  BY <1>6 DEF FreeBox
<1>7. ASSUME NEW w \in Wakers, WakeBegin(w) \/ Clone(w) \/ DropWaker(w)
      PROVE  CellInv'
  BY <1>7 DEF WakeBegin, Clone, DropWaker
<1>8. ASSUME NEW w \in Wakers, WakeCas(w) PROVE CellInv'
  BY <1>8 DEF WakeCas
<1>9. ASSUME NEW w \in Wakers, WakeTake(w) PROVE CellInv'
  BY <1>9 DEF WakeTake, HolderInv
<1>10. ASSUME NEW w \in Wakers, WakeAlert(w) PROVE CellInv'
  BY <1>10 DEF WakeAlert, HolderInv
<1>11. CASE UNCHANGED vars
  BY <1>11 DEF vars
<1> QED
  BY <1>1, <1>2, <1>3, <1>4, <1>5, <1>6, <1>7, <1>8, <1>9, <1>10, <1>11
  DEF Next, PollReturns, WakeStep

(* At most one waker has taken the box out of the cell. *)
LEMMA HolderStep == IInv /\ [Next]_vars => HolderInv'
<1> SUFFICES ASSUME TypeOK, CellInv, HolderInv, [Next]_vars PROVE HolderInv'
  BY DEF IInv
<1> USE WakerAssumption DEF TypeOK, TaskPlace, HolderInv
<1>1. CASE Reset \/ FlushReset \/ StartPoll \/ PollReady \/ FreeTask \/ RunInline
           \/ LeaveRun
  BY <1>1 DEF Reset, FlushReset, StartPoll, PollReady, FreeTask, RunInline, LeaveRun
<1>2. ASSUME NEW a \in Addr, PollPending(a) \/ FreeBox(a) PROVE HolderInv'
  BY <1>2 DEF PollPending, FreeBox
<1>3. CASE CheckWake
  BY <1>3 DEF CheckWake
<1>4. ASSUME NEW w \in Wakers, WakeBegin(w) \/ Clone(w) \/ DropWaker(w)
      PROVE  HolderInv'
  BY <1>4 DEF WakeBegin, Clone, DropWaker
<1>5. ASSUME NEW w \in Wakers, WakeCas(w) PROVE HolderInv'
  BY <1>5 DEF WakeCas
<1>6. ASSUME NEW w \in Wakers, WakeTake(w) PROVE HolderInv'
  BY <1>6 DEF WakeTake, CellInv
<1>7. ASSUME NEW w \in Wakers, WakeAlert(w) PROVE HolderInv'
  BY <1>7 DEF WakeAlert
<1>8. CASE UNCHANGED vars
  BY <1>8 DEF vars
<1> QED
  BY <1>1, <1>2, <1>3, <1>4, <1>5, <1>6, <1>7, <1>8
  DEF Next, PollReturns, WakeStep

(* A box is armed exactly while somebody holds it. *)
LEMMA HeapStep == IInv /\ [Next]_vars => HeapInv'
<1> SUFFICES ASSUME TypeOK, CellInv, HolderInv, HeapInv, [Next]_vars
             PROVE  HeapInv'
  BY DEF IInv
<1> USE WakerAssumption DEF TypeOK, TaskPlace, HeapInv, CheckHolds, CellHolds,
    WakerHolds
<1>1. CASE Reset
  BY <1>1 DEF Reset, CellInv
<1>2. CASE FlushReset
  BY <1>2 DEF FlushReset, CellInv
<1>3. CASE StartPoll \/ PollReady \/ FreeTask \/ LeaveRun
  BY <1>3 DEF StartPoll, PollReady, FreeTask, LeaveRun
<1>4. ASSUME NEW a \in Addr, PollPending(a) PROVE HeapInv'
  BY <1>4 DEF PollPending
<1>5. CASE CheckWake
  BY <1>5 DEF CheckWake, CellInv
<1>6. CASE RunInline
  BY <1>6 DEF RunInline, CellInv, HolderInv
<1>7. ASSUME NEW a \in Addr, FreeBox(a) PROVE HeapInv'
  BY <1>7 DEF FreeBox
<1>8. ASSUME NEW w \in Wakers, WakeBegin(w) \/ Clone(w) \/ DropWaker(w)
      PROVE  HeapInv'
  BY <1>8 DEF WakeBegin, Clone, DropWaker
<1>9. ASSUME NEW w \in Wakers, WakeCas(w) PROVE HeapInv'
  BY <1>9 DEF WakeCas
<1>10. ASSUME NEW w \in Wakers, WakeTake(w) PROVE HeapInv'
  BY <1>10 DEF WakeTake, CellInv, HolderInv
<1>11. ASSUME NEW w \in Wakers, WakeAlert(w) PROVE HeapInv'
  BY <1>11 DEF WakeAlert, CellInv, HolderInv
<1>12. CASE UNCHANGED vars
  BY <1>12 DEF vars
<1> QED
  BY <1>1, <1>2, <1>3, <1>4, <1>5, <1>6, <1>7, <1>8, <1>9, <1>10, <1>11, <1>12
  DEF Next, PollReturns, WakeStep

(* IInv is inductive. *)
LEMMA Inductive == Spec => []IInv
<1>1. Init => IInv
  <2> SUFFICES ASSUME Init PROVE IInv
    OBVIOUS
  <2> USE WakerAssumption DEF Init
  <2>1. TypeOK
    BY DEF TypeOK, TaskPlace
  <2>2. CellInv /\ HolderInv /\ HeapInv
    BY DEF CellInv, HolderInv, HeapInv, TaskNeverDropped, CheckHolds, CellHolds,
           WakerHolds
  <2>3. ArcInv
    BY FS_EmptySet DEF ArcInv, TaskReferences
  <2> QED BY <2>1, <2>2, <2>3 DEF IInv
<1>2. IInv /\ [Next]_vars => IInv'
  BY TypeStep, CellStep, HolderStep, HeapStep, ArcStep DEF IInv
<1> QED
  BY <1>1, <1>2, PTL DEF Spec

(* Every variable of the wake cell keeps its type; check_wake in           *)
(* particular never stores anything but the address of a box it made.      *)
THEOREM TypeCorrect == Spec => []TypeOK
<1>1. IInv => TypeOK
  BY DEF IInv
<1> QED
  BY <1>1, Inductive, PTL

(* Every box made by check_wake is called or freed by one thread only,     *)
(* while it is allocated, however addresses are reused and whether or not  *)
(* reset's relaxed store is delayed.                                       *)
THEOREM Ownership == Spec => []BoxOwnership
<1>1. IInv => BoxOwnership
  BY WakerAssumption DEF IInv, TypeOK, CellInv, HolderInv, HeapInv,
     BoxOwnership, CheckHolds, CellHolds, WakerHolds
<1> QED
  BY <1>1, Inductive, PTL

(* check_wake never meets another box in the cell, so it never drops the   *)
(* task it was given.                                                      *)
THEOREM NeverDropped == Spec => []TaskNeverDropped
<1>1. IInv => TaskNeverDropped
  BY DEF IInv, CellInv
<1> QED
  BY <1>1, Inductive, PTL

(* The cell is freed when nobody can use it any more, and without a box in *)
(* it; nobody who is in reset, check_wake or wake_by_ref finds it freed.   *)
THEOREM CellFreedLast == Spec => []CellOutlivesUse
<1>1. IInv => CellOutlivesUse
  <2> SUFFICES ASSUME IInv PROVE CellOutlivesUse
    OBVIOUS
  <2>1. strong = 0 => task = "freed" /\ leaving = 0 /\ handles = {}
    BY HandlesFinite DEF IInv, TypeOK, ArcInv, TaskReferences
  <2>2. task = "freed" /\ handles = {} /\ leaving = 0 => strong = 0
    BY FS_EmptySet DEF IInv, ArcInv, TaskReferences
  <2> QED BY <2>1, <2>2 DEF CellOutlivesUse, CellInUse, IInv, CellInv, ArcInv
<1> QED
  BY <1>1, Inductive, PTL

-----------------------------------------------------------------------------
(* wake_by_ref's first compare_exchange meets the value that the reset is  *)
(* about to overwrite.                                                     *)
MeetsDelay == Delayed /\ \E w \in Wakers : WakeCas(w)

(* A returned wake leaves the cell WOKEN until the next reset; none has    *)
(* returned while the last one is delayed.                                 *)
OwedInv ==
  /\ Delayed => \A w \in Wakers : owed[w] => waker[w] = "cas"
  /\ \A w \in Wakers : owed[w] /\ waker[w] = "idle"
                         /\ task \notin {"reset", "done", "freed"} =>
       inline_wake = WOKEN

(* The alert of a taken box is the delicate step: the cell must still be   *)
(* WOKEN.                                                                  *)
TakenInv == task = "taken" => inline_wake = WOKEN

LEMMA OwedStep ==
  ASSUME ~MeetsDelay, IInv, OwedInv, TakenInv, [Next]_vars
  PROVE  OwedInv' /\ TakenInv'
<1> USE WakerAssumption DEF IInv, TypeOK, TaskPlace, OwedInv, TakenInv, Delayed
<1>1. CASE Reset
  BY <1>1 DEF Reset
<1>2. CASE FlushReset
  BY <1>2 DEF FlushReset, CellInv
<1>3. CASE StartPoll \/ PollReady \/ FreeTask \/ RunInline \/ LeaveRun
  BY <1>3 DEF StartPoll, PollReady, FreeTask, RunInline, LeaveRun
<1>4. ASSUME NEW a \in Addr, PollPending(a) \/ FreeBox(a)
      PROVE  OwedInv' /\ TakenInv'
  BY <1>4 DEF PollPending, FreeBox
<1>5. CASE CheckWake
  BY <1>5 DEF CheckWake, CellInv
<1>6. ASSUME NEW w \in Wakers, WakeBegin(w) \/ Clone(w) \/ DropWaker(w)
      PROVE  OwedInv' /\ TakenInv'
  BY <1>6 DEF WakeBegin, Clone, DropWaker
<1>7. ASSUME NEW w \in Wakers, WakeCas(w) PROVE OwedInv' /\ TakenInv'
  BY <1>7 DEF WakeCas, MeetsDelay
<1>8. ASSUME NEW w \in Wakers, WakeTake(w) PROVE OwedInv' /\ TakenInv'
  BY <1>8 DEF WakeTake, CellInv, HolderInv
<1>9. ASSUME NEW w \in Wakers, WakeAlert(w) PROVE OwedInv' /\ TakenInv'
  BY <1>9 DEF WakeAlert, HolderInv
<1>10. CASE UNCHANGED vars
  BY <1>10 DEF vars
<1> QED
  BY <1>1, <1>2, <1>3, <1>4, <1>5, <1>6, <1>7, <1>8, <1>9, <1>10
  DEF Next, PollReturns, WakeStep

LEMMA OwedInvariant ==
  Spec /\ [][~MeetsDelay]_vars => [](IInv /\ OwedInv /\ TakenInv)
<1>1. Init => OwedInv /\ TakenInv
  BY DEF Init, OwedInv, TakenInv, Delayed
<1>2. IInv /\ OwedInv /\ TakenInv /\ [Next /\ ~MeetsDelay]_vars
      => (OwedInv /\ TakenInv)'
  <2> SUFFICES ASSUME IInv, OwedInv, TakenInv, [Next /\ ~MeetsDelay]_vars
               PROVE  (OwedInv /\ TakenInv)'
    OBVIOUS
  <2>1. CASE ~MeetsDelay
    BY <2>1, OwedStep
  <2>2. CASE UNCHANGED vars
    BY <2>2 DEF vars, OwedInv, TakenInv, Delayed, cellVars, wakeVars
  <2> QED
    BY <2>1, <2>2
<1> QED
  BY <1>1, <1>2, Inductive, PTL DEF Spec

(* A wake that returned after the last poll began never leaves the task    *)
(* parked, for any number of wakers, unless the first compare_exchange of  *)
(* a wake comes before the store of the reset has reached the cell of a    *)
(* task that is already being polled: the cause of what WakerLostWake.cfg  *)
(* shows, and the only one.                                                *)
THEOREM LostOnlyInDelay == Spec /\ [][~MeetsDelay]_vars => []NoLostWake
<1>1. IInv /\ OwedInv => NoLostWake
  BY WakerAssumption DEF IInv, CellInv, OwedInv, NoLostWake
<1> QED
  BY <1>1, OwedInvariant, PTL

-----------------------------------------------------------------------------
(* Each step of the cell is a step of the waker's contract or a stutter.   *)
LEMMA ContractStep ==
  ASSUME ~MeetsDelay, IInv, OwedInv, TakenInv, [Next]_vars
  PROVE  [Contract!Next]_(Contract!vars)
<1> USE WakerAssumption DEF IInv, TypeOK, TaskPlace, OwedInv, TakenInv,
    Delayed, Notified, Contract!Next, Contract!vars
<1>1. CASE Reset
  BY <1>1 DEF Reset, CellInv
<1>2. CASE FlushReset
  BY <1>2 DEF FlushReset, Contract!Start
<1>3. CASE FreeTask \/ RunInline \/ LeaveRun
  BY <1>3 DEF FreeTask, RunInline, LeaveRun
<1>12. CASE StartPoll
  BY <1>12 DEF StartPoll, Contract!Start
<1>4. CASE PollReady
  BY <1>4 DEF PollReady, Contract!Finish
<1>5. ASSUME NEW a \in Addr, PollPending(a) \/ FreeBox(a)
      PROVE  [Contract!Next]_(Contract!vars)
  BY <1>5 DEF PollPending, FreeBox
<1>6. CASE CheckWake
  BY <1>6 DEF CheckWake, Contract!Suspend, CellInv
<1>7. ASSUME NEW w \in Wakers, WakeBegin(w) \/ Clone(w) \/ DropWaker(w)
      PROVE  [Contract!Next]_(Contract!vars)
  BY <1>7 DEF WakeBegin, Clone, DropWaker
<1>8. ASSUME NEW w \in Wakers, WakeCas(w)
      PROVE  [Contract!Next]_(Contract!vars)
  BY <1>8 DEF WakeCas, Contract!Wake, CellInv, MeetsDelay
<1>9. ASSUME NEW w \in Wakers, WakeTake(w)
      PROVE  [Contract!Next]_(Contract!vars)
  BY <1>9 DEF WakeTake, Contract!Wake, CellInv, HolderInv
<1>10. ASSUME NEW w \in Wakers, WakeAlert(w)
      PROVE  [Contract!Next]_(Contract!vars)
  BY <1>10 DEF WakeAlert, HolderInv
<1>11. CASE UNCHANGED vars
  BY <1>11 DEF vars
<1> QED
  BY <1>1, <1>2, <1>3, <1>4, <1>5, <1>6, <1>7, <1>8, <1>9, <1>10, <1>11,
     <1>12
  DEF Next, PollReturns, WakeStep

(* The wake cell of waker.rs keeps the contract, as far as safety goes, in *)
(* every behaviour in which no wake meets a delayed reset: in each the     *)
(* reset's relaxed store may still be delayed beyond the beginning of a    *)
(* poll.  Pool.tla's cell stands for these behaviours and no others; the   *)
(* fairness that ImplementsContract adds is checked by TLC only.           *)
THEOREM Refinement == Spec /\ [][~MeetsDelay]_vars => Contract!SafetySpec
<1>1. Init => Contract!Init
  BY WakerAssumption DEF Init, Contract!Init, Notified, Delayed
<1>2. IInv /\ OwedInv /\ TakenInv /\ [Next /\ ~MeetsDelay]_vars
      => [Contract!Next]_(Contract!vars)
  <2> SUFFICES ASSUME IInv, OwedInv, TakenInv, [Next /\ ~MeetsDelay]_vars
               PROVE  [Contract!Next]_(Contract!vars)
    OBVIOUS
  <2>1. CASE ~MeetsDelay
    BY <2>1, ContractStep
  <2>2. CASE UNCHANGED vars
    BY <2>2 DEF vars, Notified, Delayed, Contract!vars
  <2> QED
    BY <2>1, <2>2
<1> QED
  BY <1>1, <1>2, OwedInvariant, PTL DEF Spec, Contract!SafetySpec
=============================================================================
