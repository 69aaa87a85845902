-------------------------- MODULE MCSupervisorStore --------------------------
(* TLC instances of SupervisorStore.                                        *)
EXTENDS SupervisorStore, TLC

CONSTANTS c1, c2, gw

\* A leftover WAL: an entry that replaces a field and one that adds to it.
MCLegacyWal == {[kind |-> k, inst |-> gw, stamp |-> 0] : k \in {"status", "history"}}

Symmetry == Permutations(Process)
===============================================================================
