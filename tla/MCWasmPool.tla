----------------------------- MODULE MCWasmPool -----------------------------
(* Model values for WasmPool.tla. *)
EXTENDS WasmPool
=============================================================================
