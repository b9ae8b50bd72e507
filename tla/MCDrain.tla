------------------------------ MODULE MCDrain -------------------------------
(* Model values for Drain.tla. *)
EXTENDS Drain
=============================================================================
