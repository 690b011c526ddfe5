------------------------ MODULE MCCircuitBreakerSink ------------------------
(* Small instances of CircuitBreakerSink for TLC. *)
EXTENDS CircuitBreakerSink
=============================================================================
