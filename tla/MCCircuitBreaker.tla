-------------------------- MODULE MCCircuitBreaker --------------------------
(***************************************************************************)
(* CircuitBreaker for TLC.  The cfg gives every constant its value.         *)
(***************************************************************************)
EXTENDS CircuitBreaker
=============================================================================
