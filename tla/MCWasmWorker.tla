---------------------------- MODULE MCWasmWorker ----------------------------
(* Model values for WasmWorker.tla. *)
EXTENDS WasmWorker
=============================================================================
