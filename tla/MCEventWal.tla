----------------------------- MODULE MCEventWal -----------------------------
(* TLC instances of EventWal: a segment holds one two-byte and one         *)
(* three-byte record, and e3 exceeds the limit of one event.  The requests *)
(* are interchangeable.                                                    *)
EXTENDS EventWal, TLC

CONSTANTS e1, e2, e3, r1, r2

MCSize == [e \in Event |-> IF e = e1 THEN 2 ELSE IF e = e2 THEN 3 ELSE 9]
MCSymmetry == Permutations({r1, r2})
=============================================================================
