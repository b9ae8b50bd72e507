-------------------------- MODULE ExecutorContract --------------------------
(***************************************************************************)
(* What an executor promises to whoever spawns and drains, without         *)
(* channels, wakers or threads that park: src/src/lib.rs, Executor, as     *)
(* both builds of src/src/sys implement it.                                *)
(*                                                                         *)
(* A task is live from its spawn until a poll finishes it.  One worker     *)
(* polls it at a time, and a pinned one (a static task of the native       *)
(* build) only on the worker where it was spawned.  A live task may be     *)
(* abandoned: its poll unwinds, its executor is closed, or it is pinned to *)
(* a worker that leaves; no other task is while the executor is open.      *)
(* waited is what drain waits for: it goes up with each spawn and down     *)
(* with each task finished, and an abandoned task keeps it up.             *)
(*                                                                         *)
(* Pool.tla and WasmPool.tla implement this specification; Drain.tla, the  *)
(* waiting side, implements it too, so what it shows of drains holds of    *)
(* either pool.                                                            *)
(***************************************************************************)
EXTENDS Integers

CONSTANTS Workers, Tasks, Pinned, NULL

VARIABLES
  open,      \* an Executor handle is left
  task,      \* what has become of each task
  running,   \* the task each worker is polling
  home,      \* the pinned tasks each worker keeps
  waited     \* what drain waits to see at zero

vars == <<open, task, running, home, waited>>

Init ==
  /\ open = TRUE
  /\ task = [t \in Tasks |-> "new"]
  /\ running = [w \in Workers |-> NULL]
  /\ home = [w \in Workers |-> {}]
  /\ waited = 0

Idle(t) == \A w \in Workers : running[w] # t

Submit(t) ==
  /\ open /\ t \notin Pinned /\ task[t] = "new"
  /\ task' = [task EXCEPT ![t] = "live"]
  /\ waited' = waited + 1
  /\ UNCHANGED <<open, running, home>>

(* By the task that w is polling, open or not. *)
SubmitPinned(w, t) ==
  /\ running[w] # NULL /\ t \in Pinned /\ task[t] = "new"
  /\ task' = [task EXCEPT ![t] = "live"]
  /\ home' = [home EXCEPT ![w] = @ \cup {t}]
  /\ waited' = waited + 1
  /\ UNCHANGED <<open, running>>

Start(w, t) ==
  /\ task[t] = "live" /\ Idle(t) /\ running[w] = NULL
  /\ t \in Pinned => t \in home[w]
  /\ running' = [running EXCEPT ![w] = t]
  /\ UNCHANGED <<open, task, home, waited>>

Yield(w) ==
  /\ running[w] # NULL
  /\ running' = [running EXCEPT ![w] = NULL]
  /\ UNCHANGED <<open, task, home, waited>>

(* The poll ends with the task, finished or unwound. *)
Ends(w, how) ==
  /\ running[w] # NULL /\ task[running[w]] = "live"
  /\ task' = [task EXCEPT ![running[w]] = how]
  /\ running' = [running EXCEPT ![w] = NULL]
  /\ home' = [home EXCEPT ![w] = @ \ {running[w]}]
  /\ UNCHANGED open

Finish(w) == Ends(w, "finished") /\ waited' = waited - 1
Unwind(w) == Ends(w, "abandoned") /\ waited' = waited

(* Tasks that nobody is polling are dropped unfinished. *)
Shed(lost) ==
  /\ \A t \in lost : task[t] = "live" /\ Idle(t)
  /\ task' = [t \in Tasks |-> IF t \in lost THEN "abandoned" ELSE task[t]]
  /\ home' = [w \in Workers |-> home[w] \ lost]
  /\ UNCHANGED <<running, waited>>

Abandon(lost) ==
  /\ open => \E w \in Workers : lost \subseteq home[w]
  /\ Shed(lost)
  /\ UNCHANGED open

Close(lost) ==
  /\ open /\ open' = FALSE
  /\ Shed(lost)

Next ==
  \/ \E t \in Tasks : Submit(t)
  \/ \E w \in Workers, t \in Tasks : SubmitPinned(w, t) \/ Start(w, t)
  \/ \E w \in Workers : Yield(w) \/ Finish(w) \/ Unwind(w)
  \/ \E lost \in SUBSET Tasks : Abandon(lost) \/ Close(lost)

Spec == Init /\ [][Next]_vars

=============================================================================
