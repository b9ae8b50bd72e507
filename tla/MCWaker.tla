------------------------------ MODULE MCWaker -------------------------------
(* Model values for Waker.tla.  WakeLeadsToPoll is a liveness property, so *)
(* the wakers are not declared symmetric.                                  *)
EXTENDS Waker
=============================================================================
