------------------------------- MODULE Waker --------------------------------
(***************************************************************************)
(* src/src/waker.rs: the lock-free wake cell of one task, with the part of *)
(* SpawnedTask::run (src/src/sys/stdlib.rs) that resets and checks it.     *)
(*                                                                         *)
(* The cell, WakeInternal::inline_wake, holds NOT_WOKEN, WOKEN or the      *)
(* address of a heap-allocated AlertFn, a closure that owns the suspended  *)
(* task and sends it back to a channel when called.  Every access to it is *)
(* one action: a load-free compare_exchange or a store.  Addresses are     *)
(* reused after they are freed, so the second compare_exchange of          *)
(* wake_by_ref may meet a new box at the address it read (ABA).            *)
(*                                                                         *)
(* All accesses are Ordering::Relaxed.  On x86-64 a compare_exchange is a  *)
(* locked instruction whatever its ordering, but a relaxed store is a      *)
(* plain mov that may wait in the store buffer of the core while the poll  *)
(* that follows it already reads.  StoreBuffered says whether it may.      *)
(*                                                                         *)
(* The cell itself is shared by reference counting (Arc): the task has two *)
(* references, each clone of its Waker one, and run one of its own while   *)
(* it is in check_wake.  The functions of VTABLE keep the count by hand.   *)
(***************************************************************************)
EXTENDS Naturals, FiniteSets

CONSTANTS
  Wakers,         \* threads that may be given a clone of the task's Waker
  Addr,           \* addresses the allocator may return for an AlertFn
  PoolThreads,    \* how many threads of the pool may run the task
  NOT_WOKEN,      \* waker.rs: u64::MAX
  WOKEN,          \* waker.rs: u64::MAX - 1
  NULL,           \* no address
  StoreBuffered   \* may the poll begin before reset's store is visible?

(* check_wake asserts that a box address is below INVALID_BOX = WOKEN. *)
ASSUME WakerAssumption ==
  /\ IsFiniteSet(Wakers)
  /\ PoolThreads \in Nat
  /\ NOT_WOKEN \notin Addr
  /\ WOKEN \notin Addr
  /\ NULL \notin Addr
  /\ NOT_WOKEN # WOKEN
  /\ StoreBuffered \in BOOLEAN

VARIABLES
  inline_wake,    \* WakeInternal::inline_wake, as other cores see it
  resetBuffered,  \* reset's store has not left the worker's store buffer
  heap,           \* what each address holds
  task,           \* where the task is
  raw_alert,      \* check_wake's local: the box it allocated
  handles,        \* threads that own a clone of the waker
  strong,         \* the Arc's strong count; the cell is freed at 0
  leaving,        \* workers done with check_wake, their clone not dropped
  waker,          \* where each waking thread is in wake_by_ref
  boxed_fn,       \* wake_by_ref's local: the address it read
  owed            \* wakes begun since the last poll began (history)

cellVars == <<inline_wake, resetBuffered>>
boxVars == <<heap, raw_alert>>
arcVars == <<handles, strong, leaving>>
wakeVars == <<waker, boxed_fn, owed>>
vars == <<cellVars, boxVars, arcVars, wakeVars, task>>

(* "queued": in a channel, or held by a worker that has not reset yet;     *)
(* "reset": reset has returned; "check": the poll was Pending and          *)
(* check_wake has boxed the task; "inline": check_wake found WOKEN and is  *)
(* about to call its own alert; "parked": the box is in the cell; "taken": *)
(* a waker has the box; "dropped": the box was dropped with the task in    *)
(* it; "freed": run has dropped the task after its last poll.              *)
TaskPlace == {"queued", "reset", "polling", "check", "inline", "parked",
              "taken", "done", "freed", "dropped"}

TypeOK ==
  /\ inline_wake \in {NOT_WOKEN, WOKEN} \cup Addr
  /\ resetBuffered \in BOOLEAN
  /\ heap \in [Addr -> {"free", "armed", "spent"}]
  /\ task \in TaskPlace
  /\ raw_alert \in Addr \cup {NULL}
  /\ handles \subseteq Wakers
  /\ strong \in Nat /\ leaving \in Nat
  /\ waker \in [Wakers -> {"idle", "cas", "take", "alert"}]
  /\ boxed_fn \in [Wakers -> Addr \cup {NULL}]
  /\ owed \in [Wakers -> BOOLEAN]

(* task_waker: a new cell, referred to by the Waker and the Arc that       *)
(* SpawnedTask::new keeps; then sent to the pool.                          *)
Init ==
  /\ inline_wake = NOT_WOKEN
  /\ resetBuffered = FALSE
  /\ heap = [a \in Addr |-> "free"]
  /\ task = "queued"
  /\ raw_alert = NULL
  /\ handles = {}
  /\ strong = 2 /\ leaving = 0
  /\ waker = [w \in Wakers |-> "idle"]
  /\ boxed_fn = [w \in Wakers |-> NULL]
  /\ owed = [w \in Wakers |-> FALSE]

-----------------------------------------------------------------------------
(* The thread that polls the task. *)

(* SpawnedTask::run: reset the cell. *)
Reset ==
  /\ task = "queued" /\ leaving < PoolThreads
  /\ task' = "reset"
  /\ resetBuffered' = TRUE
  /\ UNCHANGED <<inline_wake, boxVars, arcVars, wakeVars>>

(* The store reaches memory. *)
FlushReset ==
  /\ resetBuffered
  /\ resetBuffered' = FALSE
  /\ inline_wake' = NOT_WOKEN
  /\ UNCHANGED <<boxVars, arcVars, wakeVars, task>>

(* run: poll is called. *)
StartPoll ==
  /\ task = "reset" /\ (StoreBuffered \/ ~resetBuffered)
  /\ task' = "polling"
  /\ owed' = [w \in Wakers |-> FALSE]
  /\ UNCHANGED <<cellVars, boxVars, arcVars, waker, boxed_fn>>

(* run: Poll::Ready.  The accounting that follows is in Drain.tla. *)
PollReady ==
  /\ task = "polling"
  /\ task' = "done"
  /\ UNCHANGED <<cellVars, boxVars, arcVars, wakeVars>>

(* The end of run drops the task, its Waker and its Arc; the locked        *)
(* decrement waits until the store buffer is empty.                        *)
FreeTask ==
  /\ task = "done" /\ ~resetBuffered
  /\ task' = "freed"
  /\ strong' = strong - 2
  /\ UNCHANGED <<cellVars, boxVars, handles, leaving, wakeVars>>

(* Mutation: the address of the box is not kept. *)
AllocateUnrecorded(a) ==
  /\ heap[a] = "free"
  /\ heap' = [heap EXCEPT ![a] = "armed"]
  /\ UNCHANGED raw_alert

(* Box::new and Box::into_raw. *)
Allocate(a) ==
  /\ heap[a] = "free"
  /\ heap' = [heap EXCEPT ![a] = "armed"]
  /\ raw_alert' = a

(* Mutation: check_wake is called through the Arc of the task. *)
BorrowArc == UNCHANGED strong

(* move_wake_internal. *)
CloneArc == strong' = strong + 1

(* run: Poll::Pending; the Arc is cloned, by a locked increment too, and   *)
(* check_wake boxes the closure that owns the task.                        *)
PollPending(a) ==
  /\ task = "polling" /\ ~resetBuffered
  /\ CloneArc
  /\ Allocate(a)
  /\ task' = "check"
  /\ UNCHANGED <<cellVars, handles, leaving, wakeVars>>

(* Mutation: WOKEN leads to the branch that drops the box. *)
NotFresh == inline_wake # NOT_WOKEN

OtherBox == inline_wake \notin {NOT_WOKEN, WOKEN}

(* check_wake's compare_exchange. *)
CheckWake ==
  /\ task = "check"
  /\ \/ /\ inline_wake = NOT_WOKEN
        /\ inline_wake' = raw_alert
        /\ task' = "parked"
        /\ leaving' = leaving + 1
        /\ UNCHANGED heap
     \/ /\ inline_wake = WOKEN
        /\ task' = "inline"
        /\ UNCHANGED <<inline_wake, heap, leaving>>
     \/ /\ OtherBox
        /\ heap' = [heap EXCEPT ![raw_alert] = "free"]
        /\ task' = "dropped"
        /\ leaving' = leaving + 1
        /\ UNCHANGED inline_wake
  /\ UNCHANGED <<resetBuffered, raw_alert, handles, strong, wakeVars>>

(* check_wake, Err(WOKEN): run the alert inline, which sends the task. *)
RunInline ==
  /\ task = "inline"
  /\ task' = "queued"
  /\ heap' = [heap EXCEPT ![raw_alert] = "spent"]
  /\ leaving' = leaving + 1
  /\ UNCHANGED <<cellVars, raw_alert, handles, strong, wakeVars>>

(* The end of run after check_wake: move_wake_internal is dropped, while   *)
(* the task may be running elsewhere, or be gone.                          *)
LeaveRun ==
  /\ leaving > 0
  /\ leaving' = leaving - 1
  /\ strong' = strong - 1
  /\ UNCHANGED <<cellVars, boxVars, handles, wakeVars, task>>

(* Box::from_raw's box goes out of scope after its alert was called, while *)
(* the task it sent may already be running.                                *)
FreeBox(a) ==
  /\ heap[a] = "spent"
  /\ heap' = [heap EXCEPT ![a] = "free"]
  /\ UNCHANGED <<cellVars, raw_alert, arcVars, wakeVars, task>>

-----------------------------------------------------------------------------
(* The clones of the waker, through VTABLE. *)

(* Mutation: the Arc made from the pointer is not forgotten. *)
CloneAndDrop == UNCHANGED strong

(* VTABLE's clone forgets the Arc it made of the pointer, and gives the    *)
(* other one away.                                                         *)
CloneAndForget == strong' = strong + 1

(* A thread is given a clone, by the future out of a poll or by a thread   *)
(* that has one.  What the future writes follows the reset through the     *)
(* same store buffer.                                                      *)
Clone(w) ==
  /\ w \notin handles
  /\ (task = "polling" /\ ~resetBuffered) \/ handles # {}
  /\ handles' = handles \cup {w}
  /\ CloneAndForget
  /\ UNCHANGED <<cellVars, boxVars, leaving, wakeVars, task>>

(* VTABLE's drop, and the end of its wake. *)
DropWaker(w) ==
  /\ w \in handles /\ waker[w] = "idle"
  /\ handles' = handles \ {w}
  /\ strong' = strong - 1
  /\ UNCHANGED <<cellVars, boxVars, leaving, wakeVars, task>>

-----------------------------------------------------------------------------
(* A thread that calls wake_by_ref, which VTABLE's wake_by_ref and wake do *)
(* without changing the count: one forgets the Arc it made of the pointer, *)
(* the other drops it afterwards.                                          *)

WakeBegin(w) ==
  /\ waker[w] = "idle" /\ w \in handles
  /\ waker' = [waker EXCEPT ![w] = "cas"]
  /\ owed' = [owed EXCEPT ![w] = TRUE]
  /\ UNCHANGED <<cellVars, boxVars, arcVars, boxed_fn, task>>

(* Mutation: a box in the cell is taken for a wake that came before. *)
IgnoreBox(w) ==
  /\ waker' = [waker EXCEPT ![w] = "idle"]
  /\ UNCHANGED boxed_fn

SeeBox(w) ==
  /\ waker' = [waker EXCEPT ![w] = "take"]
  /\ boxed_fn' = [boxed_fn EXCEPT ![w] = inline_wake]

(* First compare_exchange, NOT_WOKEN to WOKEN. *)
WakeCas(w) ==
  /\ waker[w] = "cas"
  /\ \/ /\ inline_wake = NOT_WOKEN
        /\ inline_wake' = WOKEN
        /\ waker' = [waker EXCEPT ![w] = "idle"]
        /\ UNCHANGED boxed_fn
     \/ /\ inline_wake = WOKEN
        /\ waker' = [waker EXCEPT ![w] = "idle"]
        /\ UNCHANGED <<inline_wake, boxed_fn>>
     \/ /\ inline_wake \in Addr
        /\ SeeBox(w)
        /\ UNCHANGED inline_wake
  /\ UNCHANGED <<resetBuffered, boxVars, arcVars, owed, task>>

(* Mutation: a swap instead of the second compare_exchange. *)
Whatever(w) == TRUE

StillThere(w) == inline_wake = boxed_fn[w]

(* Second compare_exchange, from the address it read to WOKEN; whatever    *)
(* else it finds than WOKEN makes it start again.                          *)
WakeTake(w) ==
  /\ waker[w] = "take"
  /\ \/ /\ StillThere(w)
        /\ inline_wake' = WOKEN
        /\ waker' = [waker EXCEPT ![w] = "alert"]
        /\ task' = "taken"
     \/ /\ inline_wake = WOKEN
        /\ waker' = [waker EXCEPT ![w] = "idle"]
        /\ UNCHANGED <<inline_wake, task>>
     \/ /\ inline_wake \notin {boxed_fn[w], WOKEN}
        /\ waker' = [waker EXCEPT ![w] = "cas"]
        /\ UNCHANGED <<inline_wake, task>>
  /\ UNCHANGED <<resetBuffered, boxVars, arcVars, boxed_fn, owed>>

(* (b.alert)(): the closure sends the task it owns. *)
WakeAlert(w) ==
  /\ waker[w] = "alert"
  /\ waker' = [waker EXCEPT ![w] = "idle"]
  /\ heap' = [heap EXCEPT ![boxed_fn[w]] = "spent"]
  /\ task' = "queued"
  /\ UNCHANGED <<cellVars, raw_alert, arcVars, boxed_fn, owed>>

-----------------------------------------------------------------------------
PollReturns == PollReady \/ \E a \in Addr : PollPending(a)
WakeStep(w) == WakeCas(w) \/ WakeTake(w) \/ WakeAlert(w)

Next ==
  \/ Reset \/ FlushReset \/ StartPoll
  \/ PollReturns \/ FreeTask
  \/ CheckWake \/ RunInline \/ LeaveRun
  \/ \E a \in Addr : FreeBox(a)
  \/ \E w \in Wakers : Clone(w) \/ DropWaker(w)
  \/ \E w \in Wakers : WakeBegin(w) \/ WakeStep(w)

(* The operating system runs the workers and every thread inside           *)
(* wake_by_ref; nobody has to clone, drop or call a waker.                 *)
Fairness ==
  /\ WF_vars(Reset) /\ WF_vars(FlushReset) /\ WF_vars(StartPoll)
  /\ WF_vars(PollReturns) /\ WF_vars(FreeTask)
  /\ WF_vars(CheckWake) /\ WF_vars(RunInline) /\ WF_vars(LeaveRun)
  /\ \A a \in Addr : WF_vars(FreeBox(a))
  /\ \A w \in Wakers : WF_vars(WakeStep(w))

Spec == Init /\ [][Next]_vars /\ Fairness

-----------------------------------------------------------------------------
(* Who may call or drop the box at address a. *)
CheckHolds(a) == task \in {"check", "inline"} /\ raw_alert = a
CellHolds(a) == inline_wake = a
WakerHolds(w, a) == waker[w] = "alert" /\ boxed_fn[w] = a

(* The box at an address is called or freed by one thread only, and only   *)
(* while it is allocated and unused, in spite of address reuse: the three  *)
(* uses of Box::from_raw in wake_by_ref and check_wake (waker.rs) each     *)
(* take exclusive ownership, and a box nobody holds is never left armed.   *)
BoxOwnership ==
  \A a \in Addr :
    /\ CheckHolds(a) => ~CellHolds(a)
    /\ \A w \in Wakers : WakerHolds(w, a) => ~CheckHolds(a) /\ ~CellHolds(a)
    /\ \A v, w \in Wakers : WakerHolds(v, a) /\ WakerHolds(w, a) => v = w
    /\ heap[a] = "armed" <=>
         CheckHolds(a) \/ CellHolds(a) \/ \E w \in Wakers : WakerHolds(w, a)

(* check_wake's last branch, which drops a closure and the task in it, is  *)
(* never reached: when check_wake runs no other box is in the cell.        *)
TaskNeverDropped == task # "dropped"

(* Who is about to use the cell: run with its reset and check_wake, and a  *)
(* thread in wake_by_ref.                                                  *)
CellInUse ==
  \/ resetBuffered
  \/ task \in {"queued", "reset", "check"}
  \/ \E w \in Wakers : waker[w] \in {"cas", "take"}

(* The counts that VTABLE and run keep by hand free the cell neither while *)
(* somebody may use it nor too late: when the last reference goes the task *)
(* is gone and the cell holds no box, since a box owns the task that owns  *)
(* the cell (Drop for WakeInternal would free it as a Box<()>).            *)
CellOutlivesUse ==
  /\ strong = 0 => ~CellInUse /\ inline_wake \notin Addr
  /\ task = "freed" /\ handles = {} /\ leaving = 0 => strong = 0

(* A wake that has returned and was begun after the last poll began has    *)
(* not left the task parked (wake_by_ref: "multiple wakes, probably        *)
(* fine").                                                                 *)
NoLostWake ==
  \A w \in Wakers : owed[w] /\ waker[w] = "idle" => task # "parked"

(* The contract of Waker::wake: each call is followed by a poll that       *)
(* begins after the call began, unless the task is finished.               *)
WakeLeadsToPoll ==
  \A w \in Wakers : owed[w] ~> (~owed[w] \/ task \in {"done", "freed"})

(* The store of the reset has not reached the cell, but the poll is on.    *)
Delayed == resetBuffered /\ task = "polling"

(* A wake came since the poll began: the cell says so, except while the    *)
(* reset is delayed, when it may still hold the wake before the poll.      *)
Notified ==
  \/ inline_wake = WOKEN /\ (resetBuffered => task = "reset")
  \/ Delayed /\ \E w \in Wakers : owed[w] /\ waker[w] = "idle"

(* The cell implements the waker's contract: run, check_wake and           *)
(* wake_by_ref are its Start, Suspend and Wake.  Start is the moment the   *)
(* reset takes effect, or the beginning of the poll if that comes first.   *)
Contract == INSTANCE WakeContract WITH
  task <- CASE task \in {"queued", "inline", "taken"} -> "ready"
            [] task = "reset" -> IF resetBuffered THEN "ready" ELSE "running"
            [] task \in {"polling", "check"} -> "running"
            [] task = "parked" -> "suspended"
            [] OTHER -> "done",
  notified <- Notified

ImplementsContract == Contract!Spec

=============================================================================
