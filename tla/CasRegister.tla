----------------------------- MODULE CasRegister -----------------------------
(***************************************************************************)
(* What the supervisor's state directory promises the commands that share  *)
(* it: a register on which a command may only replace the value it has     *)
(* itself read or written last.                                            *)
(*                                                                         *)
(* There are two exceptions, and no others.  The medium may be damaged,    *)
(* and a client that has seen the register blank, or uses it after such a  *)
(* thing, may take up a value the register has held and put it back, over  *)
(* whatever the register holds by then.  From the moment either has lost a *)
(* value the register is suspect and writes are no longer compared.        *)
(***************************************************************************)
CONSTANTS
    Client,   \* those who read and write
    Blank,    \* the value before the first write
    None      \* the copy of a client that has read nothing

VARIABLES
    value,    \* what the register holds
    copy,     \* what each client last read or wrote
    past,     \* every value the register has held
    recovering, \* clients that are about to put back what they have read
    suspect   \* a value was lost, by damage or to a value put back

vars == <<value, copy, past, recovering, suspect>>

Init ==
    /\ value = Blank
    /\ copy = [c \in Client |-> None]
    /\ past = {Blank}
    /\ recovering = {}
    /\ suspect = FALSE

Read(c) ==
    /\ copy' = [copy EXCEPT ![c] = value]
    /\ UNCHANGED <<value, past, recovering, suspect>>

\* A client that finds nothing takes up a value the register has held ...
Recover(c) ==
    /\ copy[c] = Blank \/ suspect
    /\ \E v \in past : copy' = [copy EXCEPT ![c] = v]
    /\ recovering' = recovering \cup {c}
    /\ UNCHANGED <<value, past, suspect>>

\* ... and puts it back, over whatever is there now.
PutBack(c) ==
    /\ c \in recovering
    /\ value' = copy[c]
    /\ recovering' = recovering \ {c}
    /\ suspect' = (suspect \/ value' # value)
    /\ UNCHANGED <<copy, past>>

Forget(c) ==
    /\ copy' = [copy EXCEPT ![c] = None]
    /\ recovering' = recovering \ {c}
    /\ UNCHANGED <<value, past, suspect>>

Write(c) ==
    /\ copy[c] = value \/ suspect
    /\ value' \notin past \/ suspect
    /\ copy' = [copy EXCEPT ![c] = value']
    /\ past' = past \cup {value'}
    /\ UNCHANGED <<recovering, suspect>>

Damage ==
    /\ value' = Blank
    /\ suspect' = TRUE
    /\ UNCHANGED <<copy, past, recovering>>

Next ==
    \/ \E c \in Client : Read(c) \/ Recover(c) \/ PutBack(c) \/ Forget(c) \/ Write(c)
    \/ Damage

Spec == Init /\ [][Next]_vars
===============================================================================
