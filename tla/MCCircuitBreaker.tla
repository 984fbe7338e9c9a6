-------------------------- MODULE MCCircuitBreaker --------------------------
(* Small instances of CircuitBreaker for TLC.                              *)
EXTENDS CircuitBreaker

(* An override without an end, one already expired, one of a single tick.  *)
Lives == {Null, 0, 1}
=============================================================================
