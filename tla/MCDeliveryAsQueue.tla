-------------------------- MODULE MCDeliveryAsQueue --------------------------
(* TLC instance of DeliveryAsQueue.                                        *)
EXTENDS DeliveryAsQueue

CONSTANTS e1, e2

MCSize == [e \in Event |-> IF e = e1 THEN 2 ELSE 3]
=============================================================================
