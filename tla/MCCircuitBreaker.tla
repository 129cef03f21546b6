-------------------------- MODULE MCCircuitBreaker --------------------------
(* The circuit breaker alone, with the fairness its liveness needs. *)
EXTENDS CircuitBreaker
=============================================================================
