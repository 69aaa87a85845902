--------------------------- MODULE MCCircuitBreaker ---------------------------
(* TLC instance of CircuitBreaker: one provider and three requests.         *)
EXTENDS CircuitBreaker

CONSTANTS p1, r1, r2, r3

MCSingle == <<p1>>
==============================================================================
