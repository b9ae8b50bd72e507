----------------------- MODULE ExecutorContractProofs -----------------------
(***************************************************************************)
(* What ExecutorContract.tla promises, for any finite set of tasks.  The   *)
(* two pools and the waiting side implement it, so whatever is proved here *)
(* of it holds of them.                                                    *)
(***************************************************************************)
EXTENDS ExecutorContract, FiniteSetTheorems, TLAPS

TypeOK ==
  /\ open \in BOOLEAN
  /\ task \in [Tasks -> {"new", "live", "finished", "abandoned"}]
  /\ running \in [Workers -> Tasks \cup {NULL}]
  /\ home \in [Workers -> SUBSET Tasks]
  /\ waited \in Nat

Unfinished == {t \in Tasks : task[t] \in {"live", "abandoned"}}

(* What drain waits for is the number of tasks spawned and not finished,   *)
(* those that will never finish included.                                  *)
WaitedExact == waited = Cardinality(Unfinished)

(* A worker polls live tasks only, and no two poll the same one.           *)
PolledOnce ==
  \A w \in Workers : running[w] # NULL =>
    /\ task[running[w]] = "live"
    /\ \A v \in Workers : running[v] = running[w] => v = w

(* A pinned task that is live is at home with one worker, which alone may  *)
(* poll it, and nothing else is at home anywhere.                          *)
PinnedAtHome ==
  /\ \A w \in Workers : \A t \in home[w] :
       /\ t \in Pinned /\ task[t] = "live"
       /\ \A v \in Workers : t \in home[v] \/ running[v] = t => v = w
  /\ \A t \in Tasks \cap Pinned : task[t] = "live" =>
       \E w \in Workers : t \in home[w]

IInv == TypeOK /\ WaitedExact /\ PolledOnce /\ PinnedAtHome

LEMMA UnfinishedFinite ==
  ASSUME IsFiniteSet(Tasks)
  PROVE  IsFiniteSet(Unfinished)
BY FS_Subset DEF Unfinished

(* A spawn adds one task to those waited for. *)
LEMMA WaitedUp ==
  ASSUME IsFiniteSet(Tasks), TypeOK, WaitedExact,
         NEW t \in Tasks, task[t] = "new",
         task' = [task EXCEPT ![t] = "live"], waited' = waited + 1
  PROVE  WaitedExact' /\ waited' \in Nat
<1>1. t \notin Unfinished /\ Unfinished' = Unfinished \cup {t}
  BY DEF Unfinished, TypeOK
<1>2. Cardinality(Unfinished \cup {t}) = Cardinality(Unfinished) + 1
  BY <1>1, UnfinishedFinite, FS_AddElement
<1> QED
  BY <1>1, <1>2 DEF WaitedExact, TypeOK

(* A last poll takes one away. *)
LEMMA WaitedDown ==
  ASSUME IsFiniteSet(Tasks), TypeOK, WaitedExact,
         NEW t \in Tasks, task[t] = "live",
         task' = [task EXCEPT ![t] = "finished"], waited' = waited - 1
  PROVE  WaitedExact' /\ waited' \in Nat
<1>1. t \in Unfinished /\ Unfinished' = Unfinished \ {t}
  BY DEF Unfinished, TypeOK
<1>2. /\ Cardinality(Unfinished \ {t}) = Cardinality(Unfinished) - 1
      /\ Cardinality(Unfinished \ {t}) \in Nat
  BY <1>1, UnfinishedFinite, FS_RemoveElement, FS_CardinalityType
<1> QED
  BY <1>1, <1>2 DEF WaitedExact

(* An abandoned task changes nothing in the count. *)
LEMMA WaitedSame ==
  ASSUME WaitedExact, UNCHANGED waited, Unfinished' = Unfinished
  PROVE  WaitedExact'
BY DEF WaitedExact

(* Tasks that nobody polls are dropped. *)
LEMMA ShedStep ==
  ASSUME IInv, NULL \notin Tasks, NEW lost \in SUBSET Tasks, Shed(lost),
         open' \in BOOLEAN
  PROVE  IInv'
<1> USE DEF IInv, Shed, Idle
<1>1. TypeOK'
  BY DEF TypeOK
<1>2. WaitedExact'
  <2>1. Unfinished' = Unfinished
    BY DEF TypeOK, Unfinished
  <2> QED
    BY <2>1, WaitedSame
<1>3. PolledOnce'
  BY DEF TypeOK, PolledOnce
<1>4. PinnedAtHome'
  BY DEF TypeOK, PinnedAtHome
<1> QED
  BY <1>1, <1>2, <1>3, <1>4

LEMMA InductiveStep ==
  ASSUME IsFiniteSet(Tasks), NULL \notin Tasks, IInv, [Next]_vars
  PROVE  IInv'
<1> USE DEF IInv
<1>1. ASSUME NEW t \in Tasks, Submit(t) PROVE IInv'
  <2>1. WaitedExact' /\ waited' \in Nat
    BY <1>1, WaitedUp DEF Submit
  <2>2. TypeOK'
    BY <1>1, <2>1 DEF Submit, TypeOK
  <2>3. PolledOnce' /\ PinnedAtHome'
    BY <1>1 DEF Submit, TypeOK, PolledOnce, PinnedAtHome
  <2> QED
    BY <2>1, <2>2, <2>3
<1>2. ASSUME NEW w \in Workers, NEW t \in Tasks, SubmitPinned(w, t)
      PROVE  IInv'
  <2>1. WaitedExact' /\ waited' \in Nat
    BY <1>2, WaitedUp DEF SubmitPinned
  <2>2. TypeOK'
    BY <1>2, <2>1 DEF SubmitPinned, TypeOK
  <2>3. PolledOnce'
    BY <1>2 DEF SubmitPinned, TypeOK, PolledOnce
  <2>4. PinnedAtHome'
    BY <1>2 DEF SubmitPinned, TypeOK, PolledOnce, PinnedAtHome
  <2> QED
    BY <2>1, <2>2, <2>3, <2>4
<1>3. ASSUME NEW w \in Workers, NEW t \in Tasks, Start(w, t) PROVE IInv'
  <2>1. TypeOK' /\ Unfinished' = Unfinished /\ UNCHANGED waited
    BY <1>3 DEF Start, TypeOK, Unfinished
  <2>2. PolledOnce'
    BY <1>3 DEF Start, Idle, TypeOK, PolledOnce
  <2>3. PinnedAtHome'
    BY <1>3 DEF Start, TypeOK, PinnedAtHome
  <2> QED
    BY <2>1, <2>2, <2>3, WaitedSame
<1>4. ASSUME NEW w \in Workers, Yield(w) PROVE IInv'
  <2>1. TypeOK' /\ Unfinished' = Unfinished /\ UNCHANGED waited
    BY <1>4 DEF Yield, TypeOK, Unfinished
  <2>2. PolledOnce' /\ PinnedAtHome'
    BY <1>4 DEF Yield, TypeOK, PolledOnce, PinnedAtHome
  <2> QED
    BY <2>1, <2>2, WaitedSame
<1>5. ASSUME NEW w \in Workers, NEW how \in {"finished", "abandoned"},
             Ends(w, how)
      PROVE  PolledOnce' /\ PinnedAtHome'
  BY <1>5 DEF Ends, TypeOK, PolledOnce, PinnedAtHome
<1>6. ASSUME NEW w \in Workers, Finish(w) PROVE IInv'
  <2>1. running[w] \in Tasks
    BY <1>6 DEF Finish, Ends, TypeOK
  <2>2. WaitedExact' /\ waited' \in Nat
    BY <1>6, <2>1, WaitedDown DEF Finish, Ends
  <2>3. TypeOK'
    BY <1>6, <2>2 DEF Finish, Ends, TypeOK
  <2> QED
    BY <1>5, <1>6, <2>2, <2>3 DEF Finish
<1>7. ASSUME NEW w \in Workers, Unwind(w) PROVE IInv'
  <2>1. TypeOK' /\ Unfinished' = Unfinished /\ UNCHANGED waited
    BY <1>7 DEF Unwind, Ends, TypeOK, Unfinished
  <2> QED
    BY <1>5, <1>7, <2>1, WaitedSame DEF Unwind
<1>8. ASSUME NEW lost \in SUBSET Tasks, Abandon(lost) \/ Close(lost)
      PROVE  IInv'
  BY <1>8, ShedStep DEF Abandon, Close, TypeOK
<1>9. CASE UNCHANGED vars
  <2>1. Unfinished' = Unfinished /\ UNCHANGED waited
    BY <1>9 DEF vars, Unfinished
  <2> QED
    BY <1>9, <2>1, WaitedSame DEF vars, TypeOK, PolledOnce, PinnedAtHome
<1> QED
  BY <1>1, <1>2, <1>3, <1>4, <1>6, <1>7, <1>8, <1>9 DEF Next

LEMMA Inductive ==
  ASSUME IsFiniteSet(Tasks), NULL \notin Tasks
  PROVE  Spec => []IInv
<1>1. Init => IInv
  <2> SUFFICES ASSUME Init PROVE IInv
    OBVIOUS
  <2>1. Unfinished = {}
    BY DEF Init, Unfinished
  <2>2. WaitedExact
    BY <2>1, FS_EmptySet DEF Init, WaitedExact
  <2> QED
    BY <2>2 DEF Init, IInv, TypeOK, PolledOnce, PinnedAtHome
<1>2. IInv /\ [Next]_vars => IInv'
  BY InductiveStep
<1> QED
  BY <1>1, <1>2, PTL DEF Spec

-----------------------------------------------------------------------------
(* A task is polled by one worker at a time, and a pinned one only where   *)
(* it was spawned, whatever is dropped in between.                         *)
THEOREM PolledInPlace ==
  ASSUME IsFiniteSet(Tasks), NULL \notin Tasks
  PROVE  Spec => [](PolledOnce /\ PinnedAtHome)
<1>1. IInv => PolledOnce /\ PinnedAtHome
  BY DEF IInv
<1> QED
  BY <1>1, Inductive, PTL

(* Drain waits for exactly the tasks spawned and not finished, so that     *)
(* when it sees zero there is none, and no task is being polled.           *)
NothingLeft ==
  waited = 0 => /\ \A t \in Tasks : task[t] \in {"new", "finished"}
                /\ \A w \in Workers : running[w] = NULL

THEOREM DrainedMeansFinished ==
  ASSUME IsFiniteSet(Tasks), NULL \notin Tasks
  PROVE  Spec => []NothingLeft
<1>1. ASSUME IInv, waited = 0 PROVE Unfinished = {}
  BY <1>1, UnfinishedFinite, FS_EmptySet DEF IInv, WaitedExact
<1>2. IInv => NothingLeft
  BY <1>1 DEF IInv, TypeOK, PolledOnce, NothingLeft, Unfinished
<1> QED
  BY <1>2, Inductive, PTL

(* Once a task has been abandoned the count stays up for ever: whoever     *)
(* drains after that never sees zero.                                      *)
SomeAbandoned == \E t \in Tasks : task[t] = "abandoned"

THEOREM AbandonedBlocksDrain ==
  ASSUME IsFiniteSet(Tasks), NULL \notin Tasks
  PROVE  Spec => [](SomeAbandoned => [](waited # 0))
<1>1. IInv /\ SomeAbandoned => waited # 0
  <2> SUFFICES ASSUME IInv, SomeAbandoned PROVE waited # 0
    OBVIOUS
  <2>1. Unfinished # {}
    BY DEF Unfinished, SomeAbandoned
  <2> QED
    BY <2>1, UnfinishedFinite, FS_EmptySet DEF IInv, WaitedExact
<1>2. IInv /\ SomeAbandoned /\ [Next]_vars => SomeAbandoned'
  <2> SUFFICES ASSUME IInv, [Next]_vars,
                      NEW t \in Tasks, task[t] = "abandoned"
               PROVE  task'[t] = "abandoned"
    BY DEF SomeAbandoned
  <2> DEFINE Gone == task[t] = "abandoned"
  <2> USE DEF IInv, TypeOK
  <2>1. ASSUME NEW s \in Tasks, Submit(s) PROVE Gone'
    BY <2>1 DEF Submit
  <2>2. ASSUME NEW w \in Workers, NEW s \in Tasks,
               SubmitPinned(w, s) \/ Start(w, s)
        PROVE  Gone'
    BY <2>2 DEF SubmitPinned, Start
  <2>3. ASSUME NEW w \in Workers, Yield(w) \/ Finish(w) \/ Unwind(w)
        PROVE  Gone'
    BY <2>3 DEF Yield, Finish, Unwind, Ends
  <2>4. ASSUME NEW lost \in SUBSET Tasks, Abandon(lost) \/ Close(lost)
        PROVE  Gone'
    BY <2>4 DEF Abandon, Close, Shed
  <2>5. CASE UNCHANGED vars
    BY <2>5 DEF vars
  <2> QED
    BY <2>1, <2>2, <2>3, <2>4, <2>5 DEF Next
<1> QED
  BY <1>1, <1>2, Inductive, PTL DEF Spec

(* While the executor is open, a task that may run anywhere is abandoned   *)
(* only by the poll it is in.                                              *)
OpenKeeps ==
  open' => \A t \in Tasks \ Pinned :
    task[t] = "live" /\ task'[t] = "abandoned" =>
      \E w \in Workers : running[w] = t

THEOREM OpenKeepsTasks ==
  ASSUME IsFiniteSet(Tasks), NULL \notin Tasks
  PROVE  Spec => [][OpenKeeps]_vars
<1>1. IInv /\ [Next]_vars => [OpenKeeps]_vars
  <2> SUFFICES ASSUME IInv, Next PROVE OpenKeeps
    OBVIOUS
  <2> USE DEF OpenKeeps, IInv, TypeOK
  <2>1. ASSUME NEW s \in Tasks, Submit(s) PROVE OpenKeeps
    BY <2>1 DEF Submit
  <2>2. ASSUME NEW w \in Workers, NEW s \in Tasks,
               SubmitPinned(w, s) \/ Start(w, s)
        PROVE  OpenKeeps
    BY <2>2 DEF SubmitPinned, Start
  <2>3. ASSUME NEW w \in Workers, Yield(w) \/ Finish(w) \/ Unwind(w)
        PROVE  OpenKeeps
    BY <2>3 DEF Yield, Finish, Unwind, Ends
  <2>4. ASSUME NEW lost \in SUBSET Tasks, Abandon(lost), open',
               NEW t \in Tasks \ Pinned, task[t] = "live"
        PROVE  task'[t] # "abandoned"
    <3>1. t \notin lost
      BY <2>4 DEF Abandon, PinnedAtHome
    <3> QED
      BY <2>4, <3>1 DEF Abandon, Shed
  <2>5. ASSUME NEW lost \in SUBSET Tasks, Close(lost) PROVE OpenKeeps
    BY <2>5 DEF Close
  <2> QED
    BY <2>1, <2>2, <2>3, <2>4, <2>5 DEF Next
<1> QED
  BY <1>1, Inductive, PTL DEF Spec

=============================================================================
