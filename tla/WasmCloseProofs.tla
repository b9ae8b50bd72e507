-------------------------- MODULE WasmCloseProofs ---------------------------
(* Proofs about the close of a worker, WasmClose.tla, for any futures.     *)
EXTENDS WasmClose, FiniteSetTheorems, TLAPS

USE DEF CountFuture, CountAfter

(* Nothing runs before the worker has started, nor after its close.        *)
IInv ==
  /\ TypeOK
  /\ CloseInfoExact
  /\ worker \in {"new", "closed"} => Unfinished = {}

(* The futures counted are finitely many.                                  *)
LEMMA UnfinishedFinite ==
  ASSUME CloseInfoExact
  PROVE  IsFiniteSet(Unfinished) /\ running_tasks \in Nat
         /\ (running_tasks = 0 => Unfinished = {})
<1>1. IsFiniteSet(Unfinished)
  BY FS_Subset, WasmCloseAssumption DEF Unfinished
<1> QED
  BY <1>1, FS_CardinalityType, FS_EmptySet DEF CloseInfoExact

(* A future that is spawned is counted in, and close can be called.        *)
LEMMA SpawnStep ==
  ASSUME IInv, NEW f \in Futures, Spawn(f)
  PROVE  /\ Unfinished' = Unfinished \cup {f}
         /\ running_tasks' = Cardinality(Unfinished') /\ running_tasks' \in Nat
         /\ installed_close_handler' /\ patched'
         /\ future' \in [Futures -> {"new", "running", "done"}]
<1>1. f \notin Unfinished /\ Unfinished' = Unfinished \cup {f}
  BY DEF Spawn, Unfinished, IInv, TypeOK
<1>2. Cardinality(Unfinished \cup {f}) = Cardinality(Unfinished) + 1
  BY <1>1, UnfinishedFinite, FS_AddElement DEF IInv
<1> QED
  BY <1>1, <1>2, UnfinishedFinite DEF Spawn, IInv, TypeOK, CloseInfoExact

(* A future that ends is counted out.                                      *)
LEMMA ReadyStep ==
  ASSUME IInv, NEW f \in Futures, FutureReady(f)
  PROVE  /\ Unfinished' = Unfinished \ {f}
         /\ running_tasks' = Cardinality(Unfinished') /\ running_tasks' \in Nat
         /\ running_tasks' = 0 => Unfinished' = {}
<1>1. f \in Unfinished /\ Unfinished' = Unfinished \ {f}
  BY DEF FutureReady, Unfinished, IInv, TypeOK
<1>2. /\ IsFiniteSet(Unfinished \ {f})
      /\ Cardinality(Unfinished \ {f}) = Cardinality(Unfinished) - 1
  BY <1>1, UnfinishedFinite, FS_RemoveElement DEF IInv
<1> QED
  BY <1>1, <1>2, FS_CardinalityType, FS_EmptySet
     DEF FutureReady, IInv, CloseInfoExact

(* A worker that has not started is as IInv says.                          *)
LEMMA InitInv == Init => IInv
<1> USE WasmCloseAssumption DEF closeInfo
<1> SUFFICES ASSUME Init PROVE IInv
  OBVIOUS
<1>1. Unfinished = {}
  BY DEF Init, Unfinished
<1>2. Cardinality(Unfinished) = 0
  BY <1>1, FS_EmptySet
<1>3. TypeOK
  <2>1. running_tasks \in Nat /\ closes \in 0..MaxCloses
    BY DEF Init
  <2>2. future \in [Futures -> {"new", "running", "done"}]
    BY DEF Init
  <2>3. /\ installed_close_handler \in BOOLEAN
        /\ close_is_called \in BOOLEAN /\ patched \in BOOLEAN
    BY DEF Init
  <2>4. worker \in {"new", "loop", "closed"} /\ library \in BOOLEAN
    BY DEF Init
  <2> QED BY <2>1, <2>2, <2>3, <2>4 DEF TypeOK
<1>4. CloseInfoExact
  BY <1>2 DEF Init, CloseInfoExact
<1> QED
  BY <1>1, <1>3, <1>4 DEF IInv

(* Every callback preserves IInv.                                          *)
LEMMA NextInv == IInv /\ [Next]_vars => IInv'
<1> USE WasmCloseAssumption DEF closeInfo
<1> SUFFICES ASSUME IInv, [Next]_vars PROVE IInv'
  OBVIOUS
<1>1. CASE Enter
  BY <1>1, SpawnStep DEF Enter, IInv, TypeOK, CloseInfoExact
<1>2. ASSUME CallClose PROVE
          /\ CloseInfoExact'
          /\ worker' \in {worker, "closed"}
          /\ worker' = "closed" /\ worker # "closed" => Unfinished' = {}
          /\ Unfinished' = Unfinished
          /\ installed_close_handler' \in BOOLEAN
  BY <1>2, UnfinishedFinite
     DEF CallClose, ConsiderClosing, IInv, TypeOK, CloseInfoExact, Unfinished
<1>3. CASE LibraryCloses
  BY <1>2, <1>3 DEF LibraryCloses, CallClose, IInv, TypeOK
<1>4. CASE FutureCloses
  BY <1>2, <1>4 DEF FutureCloses, CallClose, IInv, TypeOK
<1>5. ASSUME NEW f \in Futures, NEW g \in Futures, FutureSpawns(f, g)
      PROVE  IInv'
  BY <1>5, SpawnStep DEF FutureSpawns, IInv, TypeOK, CloseInfoExact
<1>6. ASSUME NEW f \in Futures, FutureReady(f) PROVE IInv'
  BY <1>6, ReadyStep
     DEF FutureReady, ConsiderClosing, IInv, TypeOK, CloseInfoExact
<1>7. CASE UNCHANGED vars
  BY <1>7 DEF vars, IInv, TypeOK, CloseInfoExact, Unfinished
<1> QED
  BY <1>1, <1>3, <1>4, <1>5, <1>6, <1>7 DEF Next

LEMMA Inductive == Spec => []IInv
  BY InitInv, NextInv, PTL DEF Spec

(* Every variable of WasmClose keeps its type; CloseInfo::running_tasks in *)
(* particular does not go below zero, where its subtraction would panic.   *)
THEOREM TypeCorrect == Spec => []TypeOK
<1>1. IInv => TypeOK
  BY DEF IInv
<1> QED
  BY <1>1, Inductive, PTL

(* CloseInfo counts the unfinished futures, and a running worker can still *)
(* be closed (spawn, patch_if_needed and WasmFuture::poll).                *)
THEOREM CountCorrect == Spec => []CloseInfoExact
<1>1. IInv => CloseInfoExact
  BY DEF IInv
<1> QED
  BY <1>1, Inductive, PTL

(* No worker is closed while one of its futures is unfinished, whatever    *)
(* calls close and when (consider_closing).                                *)
THEOREM ClosedLast == Spec => []NeverClosedEarly
<1>1. IInv => NeverClosedEarly
  BY DEF IInv, NeverClosedEarly
<1> QED
  BY <1>1, Inductive, PTL

=============================================================================
