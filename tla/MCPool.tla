------------------------------- MODULE MCPool -------------------------------
(* Model values for Pool.tla. *)
EXTENDS Pool
=============================================================================
