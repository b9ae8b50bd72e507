----------------------------- MODULE WasmClose ------------------------------
(***************************************************************************)
(* One worker of the wasm build as its event loop sees it,                 *)
(* src/src/sys/wasm/static_executor.rs: futures given to spawn_local, and  *)
(* the patch of the worker's global close function that lets them end.     *)
(*                                                                         *)
(* A worker runs one callback at a time, so an action is a callback or a   *)
(* poll: the entry function of the thread (Thread::run), the call of close *)
(* that the thread library makes at some time after it has returned, and   *)
(* what a poll of a future does.  The first future is Thread::run_async;   *)
(* it and static tasks spawn the others.  WasmWorker.tla adds what         *)
(* run_async does.                                                         *)
(***************************************************************************)
EXTENDS Naturals, FiniteSets

CONSTANTS
  Futures,     \* futures given to StaticExecutor::spawn, each once
  RunAsync,    \* the one that Thread::run spawns
  MaxCloses    \* bound: calls of close by the code of a future

ASSUME WasmCloseAssumption ==
  /\ IsFiniteSet(Futures) /\ RunAsync \in Futures
  /\ MaxCloses \in Nat

VARIABLES
  running_tasks,            \* CloseInfo::running_tasks
  installed_close_handler,  \* it holds the worker's own close function
  close_is_called,          \* CloseInfo::close_is_called
  patched,                  \* global.close is the wrapper
  worker,                   \* "new", "loop" or "closed"
  library,                  \* the thread library has called close
  future,                   \* what has become of each future
  closes                    \* calls of close by futures (bound)

closeInfo == <<running_tasks, installed_close_handler, close_is_called>>
vars == <<closeInfo, patched, worker, library, future, closes>>

TypeOK ==
  /\ running_tasks \in Nat
  /\ installed_close_handler \in BOOLEAN
  /\ close_is_called \in BOOLEAN
  /\ patched \in BOOLEAN
  /\ worker \in {"new", "loop", "closed"}
  /\ library \in BOOLEAN
  /\ future \in [Futures -> {"new", "running", "done"}]
  /\ closes \in 0..MaxCloses

(* StaticExecutor::new. *)
Init ==
  /\ running_tasks = 0
  /\ installed_close_handler = FALSE
  /\ close_is_called = FALSE
  /\ patched = FALSE
  /\ worker = "new"
  /\ library = FALSE
  /\ future = [f \in Futures |-> "new"]
  /\ closes = 0

(* Mutation: a future is not counted when close is patched already. *)
CountFirst ==
  running_tasks' = IF installed_close_handler THEN running_tasks
                                              ELSE running_tasks + 1

CountFuture == running_tasks' = running_tasks + 1

(* StaticExecutor::spawn: patch_if_needed, count, spawn_local. *)
Spawn(f) ==
  /\ future[f] = "new"
  /\ future' = [future EXCEPT ![f] = "running"]
  /\ CountFuture
  /\ installed_close_handler' = TRUE
  /\ patched' = TRUE

(* Mutation: what is still running is not considered. *)
CloseAtOnce(count, called) ==
  IF called /\ installed_close_handler
  THEN worker' = "closed" /\ installed_close_handler' = FALSE
  ELSE UNCHANGED <<worker, installed_close_handler>>

(* consider_closing, which takes the handler and calls it. *)
ConsiderClosing(count, called) ==
  IF called /\ count = 0 /\ installed_close_handler
  THEN worker' = "closed" /\ installed_close_handler' = FALSE
  ELSE UNCHANGED <<worker, installed_close_handler>>

(* The thread's entry function: Thread::run spawns run_async and returns. *)
Enter ==
  /\ worker = "new"
  /\ worker' = "loop"
  /\ Spawn(RunAsync)
  /\ UNCHANGED <<close_is_called, library, closes>>

(* A call of the global close: the wrapper that patch_if_needed installed. *)
CallClose ==
  /\ close_is_called' = TRUE
  /\ ConsiderClosing(running_tasks, TRUE)
  /\ UNCHANGED <<running_tasks, patched, future>>

(* The entry function has returned, and the thread library calls close. *)
LibraryCloses ==
  /\ worker = "loop" /\ ~library
  /\ library' = TRUE
  /\ CallClose
  /\ UNCHANGED closes

(* The code of a future calls close itself. *)
FutureCloses ==
  /\ worker = "loop"
  /\ closes < MaxCloses
  /\ \E f \in Futures : future[f] = "running"
  /\ CallClose
  /\ closes' = closes + 1
  /\ UNCHANGED library

(* A poll of f spawns another future, through the thread's static          *)
(* executor.                                                               *)
FutureSpawns(f, g) ==
  /\ worker = "loop"
  /\ future[f] = "running"
  /\ Spawn(g)
  /\ UNCHANGED <<worker, library, close_is_called, closes>>

(* Mutation: the wrapper of the future considers closing, then subtracts. *)
CountBefore == running_tasks

CountAfter == running_tasks - 1

(* WasmFuture::poll returns Ready. *)
FutureReady(f) ==
  /\ worker = "loop"
  /\ future[f] = "running"
  /\ future' = [future EXCEPT ![f] = "done"]
  /\ running_tasks' = running_tasks - 1
  /\ ConsiderClosing(CountAfter, close_is_called)
  /\ UNCHANGED <<close_is_called, patched, library, closes>>

Next ==
  \/ Enter \/ LibraryCloses \/ FutureCloses
  \/ \E f, g \in Futures : FutureSpawns(f, g)
  \/ \E f \in Futures : FutureReady(f)

(* When a future ends and what the event loop owes them is in WasmWorker.   *)
Spec == Init /\ [][Next]_vars

-----------------------------------------------------------------------------
Unfinished == {f \in Futures : future[f] = "running"}

(* The worker's own close is never called while a future is unfinished,    *)
(* whatever calls close and when (patch_if_needed: "all tasks are executed *)
(* before the worker is closed").                                          *)
NeverClosedEarly == worker = "closed" => Unfinished = {}

(* CloseInfo counts the futures that are unfinished, and as long as the    *)
(* worker runs it can be closed: the wrapper is in place and has the       *)
(* original function to call.                                              *)
CloseInfoExact ==
  /\ running_tasks = Cardinality(Unfinished)
  /\ worker = "loop" => patched /\ installed_close_handler

=============================================================================
