---------------------------- MODULE WakeContract ----------------------------
(***************************************************************************)
(* What a task's waker promises, without cells, boxes or compare-exchange: *)
(* the contract of std::task::Waker as src/src/sys/stdlib.rs relies on it. *)
(* A task is ready to be polled, being polled, suspended until it is woken *)
(* or done.  A wake is never forgotten: one that arrives while the task is *)
(* being polled makes it ready again when the poll ends.                   *)
(*                                                                         *)
(* Waker.tla implements this specification; Pool.tla uses it as its model  *)
(* of a task's wake cell.                                                  *)
(***************************************************************************)

VARIABLES
  task,      \* "ready", "running", "suspended" or "done"
  notified   \* a wake has happened since the last poll began

vars == <<task, notified>>

TypeOK ==
  /\ task \in {"ready", "running", "suspended", "done"}
  /\ notified \in BOOLEAN

Init ==
  /\ task = "ready"
  /\ notified = FALSE

(* A worker takes the task and polls it. *)
Start ==
  /\ task = "ready"
  /\ task' = "running"
  /\ notified' = FALSE

(* The poll returned Poll::Ready. *)
Finish ==
  /\ task = "running"
  /\ task' = "done"
  /\ UNCHANGED notified

(* The poll returned Poll::Pending: suspended, unless a wake came first. *)
Suspend ==
  /\ task = "running"
  /\ task' = IF notified THEN "ready" ELSE "suspended"
  /\ UNCHANGED notified

(* Waker::wake or wake_by_ref, called by anyone at any time. *)
Wake ==
  /\ notified' = TRUE
  /\ task' = IF task = "suspended" THEN "ready" ELSE task

Next == Start \/ Finish \/ Suspend \/ Wake

SafetySpec == Init /\ [][Next]_vars

Spec == SafetySpec /\ WF_vars(Start) /\ WF_vars(Finish \/ Suspend)

(* A task that was woken after its last poll began is not left asleep: the *)
(* promise that run and check_wake (stdlib.rs) are built to keep.          *)
NeverAsleepWhenNotified == task = "suspended" => ~notified

=============================================================================
