-------------------------- MODULE WasmWorkerProofs --------------------------
(* Proofs about a worker and its executor, WasmWorker.tla, for any tasks   *)
(* and futures.                                                            *)
EXTENDS WasmWorker, WasmCloseProofs

USE DEF CountTask

Counted == {t \in Tasks : task[t] \in {"queued", "running"}}

(* run_async runs from the start of the worker to the Shutdown that the    *)
(* dropped handle sends, and is not left during the poll of a task.        *)
RunInv ==
  /\ handle # "dropped" => ~shutdown
  /\ worker = "new" => future[RunAsync] = "new" /\ Polling = {}
  /\ worker # "new" /\ (handle # "dropped" \/ Polling # {})
       => future[RunAsync] = "running"

WInv ==
  /\ IInv
  /\ WorkerTypeOK
  /\ outstanding = Cardinality(Counted)
  /\ RunInv

(* A step of the worker or of the handle is a callback of WasmClose or     *)
(* leaves the event loop alone.                                            *)
LEMMA StepRefines == WorkerNext => [Next]_vars
  BY WasmCloseAssumption
     DEF WorkerNext, Next, SpawnTask, HandleNewTask, TaskReady, StartDrain,
         FinishDrain, Abandon, DropHandle, Starts, CallsClose, HandleShutdown,
         TaskSpawnsStatic, StaticReady, StaticSpawns, Static

(* A task is counted in when it is spawned.                                *)
LEMMA CountIn ==
  ASSUME WInv, NEW t \in Tasks, SpawnTask(t)
  PROVE  outstanding' = Cardinality(Counted') /\ outstanding' \in Nat
<1>1. IsFiniteSet(Counted)
  BY FS_Subset, WasmWorkerAssumption DEF Counted
<1>2. t \notin Counted /\ Counted' = Counted \cup {t}
  BY DEF SpawnTask, Counted, WInv, WorkerTypeOK
<1>3. Cardinality(Counted \cup {t}) = Cardinality(Counted) + 1
  BY <1>1, <1>2, FS_AddElement
<1> QED
  BY <1>1, <1>2, <1>3, FS_CardinalityType DEF SpawnTask, WInv

(* A task is counted out when its poll returns Ready.                      *)
LEMMA CountOut ==
  ASSUME WInv, NEW t \in Tasks, TaskReady(t)
  PROVE  outstanding' = Cardinality(Counted') /\ outstanding' \in Nat
<1>1. IsFiniteSet(Counted)
  BY FS_Subset, WasmWorkerAssumption DEF Counted
<1>2. t \in Counted /\ Counted' = Counted \ {t}
  BY DEF TaskReady, Counted, WInv, WorkerTypeOK
<1>3. /\ IsFiniteSet(Counted \ {t})
      /\ Cardinality(Counted \ {t}) = Cardinality(Counted) - 1
  BY <1>1, <1>2, FS_RemoveElement
<1> QED
  BY <1>1, <1>2, <1>3, FS_CardinalityType DEF TaskReady, WInv

LEMMA WorkerInitInv == WorkerInit => WInv
<1> SUFFICES ASSUME WorkerInit PROVE WInv
  OBVIOUS
<1>1. IInv
  BY InitInv DEF WorkerInit
<1>2. Counted = {} /\ Polling = {}
  BY DEF WorkerInit, Counted, Polling
<1>3. outstanding = Cardinality(Counted)
  BY <1>2, FS_EmptySet DEF WorkerInit
<1>4. task \in [Tasks -> {"new", "queued", "running", "done"}]
  BY DEF WorkerInit
<1>5. WorkerTypeOK
  BY <1>1, <1>4 DEF WorkerInit, WorkerTypeOK, IInv
<1>6. RunInv
  BY <1>2, WasmCloseAssumption DEF WorkerInit, Init, RunInv
<1> QED
  BY <1>1, <1>3, <1>5, <1>6 DEF WInv

LEMMA WorkerNextInv == WInv /\ [WorkerNext]_allVars => WInv'
<1> SUFFICES ASSUME WInv, [WorkerNext]_allVars PROVE WInv'
  OBVIOUS
<1> USE WasmCloseAssumption DEF vars, closeInfo, executorVars
<1>1. IInv'
  BY StepRefines, NextInv DEF WInv, allVars
<1>2. ASSUME UNCHANGED executorVars
      PROVE  WorkerTypeOK' /\ (outstanding = Cardinality(Counted))'
             /\ Polling' = Polling
  BY <1>1, <1>2 DEF WInv, WorkerTypeOK, IInv, Counted, Polling
<1>3. ASSUME NEW t \in Tasks, SpawnTask(t) PROVE WInv'
  <2>1. Polling' = Polling
    BY <1>3 DEF SpawnTask, Polling, WInv, WorkerTypeOK
  <2>2. WorkerTypeOK'
    BY <1>1, <1>3, CountIn DEF SpawnTask, WInv, WorkerTypeOK, IInv
  <2>3. RunInv'
    BY <1>3, <2>1 DEF SpawnTask, WInv, RunInv
  <2> QED
    BY <1>1, <1>3, <2>2, <2>3, CountIn DEF WInv
<1>4. ASSUME NEW t \in Tasks, HandleNewTask(t) PROVE WInv'
  <2>1. Counted' = Counted
    BY <1>4 DEF HandleNewTask, Counted, WInv, WorkerTypeOK
  <2>2. WorkerTypeOK'
    BY <1>1, <1>4 DEF HandleNewTask, WInv, WorkerTypeOK, IInv
  <2>3. RunInv'
    BY <1>4 DEF HandleNewTask, Listens, WInv, RunInv
  <2> QED
    BY <1>1, <1>4, <2>1, <2>2, <2>3 DEF HandleNewTask, WInv
<1>5. ASSUME NEW t \in Tasks, TaskReady(t) PROVE WInv'
  <2>1. WorkerTypeOK'
    BY <1>1, <1>5, CountOut DEF TaskReady, WInv, WorkerTypeOK, IInv
  <2>2. RunInv'
    BY <1>5 DEF TaskReady, Listens, WInv, RunInv
  <2> QED
    BY <1>1, <1>5, <2>1, <2>2, CountOut DEF WInv
<1>6. CASE StartDrain
  BY <1>1, <1>6
     DEF StartDrain, Static, WInv, WorkerTypeOK, IInv, RunInv, Counted, Polling
<1>7. CASE FinishDrain \/ Abandon
  BY <1>1, <1>7 DEF FinishDrain, Abandon, DropHandle, WInv, WorkerTypeOK, IInv,
                    RunInv, Counted, Polling
<1>8. CASE Starts
  <2>1. RunInv'
    BY <1>2, <1>8 DEF Starts, Enter, Spawn, WInv, RunInv, IInv, TypeOK
  <2> QED
    BY <1>1, <1>2, <1>8, <2>1 DEF Starts, WInv
<1>9. CASE CallsClose
  <2>1. UNCHANGED <<future, executorVars>> /\ worker = "loop"
    BY <1>9 DEF CallsClose, LibraryCloses, FutureCloses, CallClose
  <2>2. worker' # "new"
    BY <1>9, <2>1 DEF CallsClose, LibraryCloses, FutureCloses, CallClose,
                      ConsiderClosing
  <2>3. RunInv'
    BY <1>2, <2>1, <2>2 DEF WInv, RunInv
  <2> QED
    BY <1>1, <1>2, <2>1, <2>3 DEF WInv
<1>10. CASE HandleShutdown
  <2>1. handle = "dropped" /\ Polling = {} /\ Polling' = Polling
    BY <1>10 DEF HandleShutdown, WInv, RunInv, Polling
  <2>2. worker' # "new"
    BY <1>10 DEF HandleShutdown, FutureReady, ConsiderClosing
  <2>3. WorkerTypeOK' /\ Counted' = Counted
    BY <1>1, <1>10 DEF HandleShutdown, WInv, WorkerTypeOK, IInv, Counted
  <2> QED
    BY <1>1, <1>10, <2>1, <2>2, <2>3 DEF HandleShutdown, WInv, RunInv
<1>11. ASSUME NEW f \in Static, NEW g \in Futures, FutureSpawns(g, f),
              UNCHANGED executorVars
       PROVE  WInv'
  <2>1. worker' = worker /\ future'[RunAsync] = future[RunAsync]
    BY <1>11 DEF FutureSpawns, Spawn, Static, WInv, IInv, TypeOK
  <2> QED
    BY <1>1, <1>2, <1>11, <2>1 DEF WInv, RunInv
<1>12. ASSUME NEW f \in Static, StaticReady(f) PROVE WInv'
  <2>1. worker = "loop" /\ worker' # "new"
        /\ future'[RunAsync] = future[RunAsync]
    BY <1>12 DEF StaticReady, FutureReady, ConsiderClosing, Static, WInv,
                 IInv, TypeOK
  <2> QED
    BY <1>1, <1>2, <1>12, <2>1 DEF StaticReady, WInv, RunInv
<1>13. CASE UNCHANGED allVars
  BY <1>1, <1>2, <1>13 DEF allVars, WInv, RunInv
<1> QED
  BY <1>3, <1>4, <1>5, <1>6, <1>7, <1>8, <1>9, <1>10, <1>11, <1>12, <1>13
     DEF WorkerNext, TaskSpawnsStatic, StaticSpawns, Static

LEMMA WorkerInductive == WorkerSpec => []WInv
  BY WorkerInitInv, WorkerNextInv, PTL DEF WorkerSpec

(* Every variable of the worker and of its executor keeps its type; the    *)
(* two counters in particular never go below zero.                         *)
THEOREM WorkerTypeCorrect == WorkerSpec => []WorkerTypeOK
<1>1. WInv => WorkerTypeOK
  BY DEF WInv
<1> QED
  BY <1>1, WorkerInductive, PTL

(* The worker with its executor is a worker of WasmClose: what is shown    *)
(* there of every order of callbacks holds here.                           *)
THEOREM Composition == WorkerSpec => Spec
<1>1. WorkerInit => Init
  BY DEF WorkerInit
<1>2. [WorkerNext]_allVars => [Next]_vars
  BY StepRefines DEF allVars
<1> QED
  BY <1>1, <1>2, PTL DEF WorkerSpec, Spec

(* No close leaves the executor without its worker, and no task in the     *)
(* middle of its poll (Thread::run counts run_async like every future).    *)
THEOREM StaysOpen == WorkerSpec => []OpenWhileHeld
<1>1. WInv => OpenWhileHeld
  BY WasmCloseAssumption DEF WInv, IInv, RunInv, Unfinished, OpenWhileHeld
<1> QED
  BY <1>1, WorkerInductive, PTL

=============================================================================
