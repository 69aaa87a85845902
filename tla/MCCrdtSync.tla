----------------------------- MODULE MCCrdtSync -----------------------------
(* TLC instance of CrdtSync: two gateways that are each other's peer.       *)
EXTENDS CrdtSync

CONSTANTS e1, f1

MCTime == 0 .. 1
MCValue == 1 .. MaxMutations
===============================================================================
