--------------------------- MODULE MCEventDelivery ---------------------------
(* TLC instances of EventDelivery: five-byte segments that hold a record   *)
(* of two bytes and one of three.                                          *)
EXTENDS EventDelivery

CONSTANTS e1, e2

MCSize == [e \in Event |-> IF e = e1 THEN 2 ELSE 3]
=============================================================================
