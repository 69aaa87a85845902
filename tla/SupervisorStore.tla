--------------------------- MODULE SupervisorStore ---------------------------
(***************************************************************************)
(* The supervisor's state store (src/src/supervisor/state_store.rs): one   *)
(* state file and its backup, shared by every `verdictan gateway` command  *)
(* that runs on the host.                                                  *)
(*                                                                         *)
(* A command loads the store without a lock, repairing files on the way,   *)
(* then changes its copy and persists it: under a file lock, and only when *)
(* the file still has the write version it loaded.  Files are replaced by  *)
(* a rename (src/src/persistence.rs), so one is whole, missing, or was     *)
(* damaged from outside.                                                   *)
(*                                                                         *)
(* The state kept is a write version and a set of facts: the fields of the *)
(* instance records, stamped by the change that set them.                  *)
(***************************************************************************)
EXTENDS Integers, FiniteSets

CONSTANTS
    Process,        \* commands that may run at the same time
    Instance,       \* instance ids
    LegacyWal,      \* committed entries of a WAL an older version left behind
    MaxHistory,     \* MAX_OPERATION_HISTORY_ENTRIES
    MaxChanges,     \* bound: changes made in a behaviour
    MaxFaults,      \* bound: times a file is damaged
    None,           \* nobody, nothing
    Missing,        \* a file that is not there
    Corrupt         \* a file that does not decode

Kind == {"instance", "status", "plan", "history", "action"}
Fact == [kind : Kind, inst : Instance, stamp : Nat]
State == [version : Nat, facts : SUBSET Fact]

ASSUME StoreAssumption ==
    /\ LegacyWal \subseteq {f \in Fact : f.kind \in {"status", "history", "action"}}
    /\ MaxHistory \in Nat \ {0}
    /\ MaxChanges \in Nat
    /\ MaxFaults \in Nat
    /\ None \notin Process
    /\ None \notin State
    /\ Missing \notin State
    /\ Corrupt \notin State
    /\ Missing # Corrupt

VARIABLES
    primary,   \* supervisor-state.json
    backup,    \* supervisor-state.json.bak
    wal,       \* supervisor-state.wal
    lock,      \* who holds supervisor-state.lock
    pc,        \* where each command is
    mem,       \* persisted, the command's copy of the state
    loaded,    \* loaded_write_version
    changes,   \* changes made so far
    harm,      \* times each file was damaged
    overwritten, \* history: a repair has replaced another committed state
    base,      \* history: the state a command last read or wrote
    past       \* history: every state the state file has held

files == <<primary, backup, wal>>
vars == <<files, lock, pc, mem, loaded, changes, harm, overwritten, base, past>>

Fresh == [version |-> 0, facts |-> {}]

Goto(p, there) == pc' = [pc EXCEPT ![p] = there]
SetMem(p, s) == mem' = [mem EXCEPT ![p] = s]

\* The state file has been damaged, or a repair has replaced a committed
\* state by another one.
Suspect == harm.primary > 0 \/ overwritten

\* What the state file holds; without one, nothing has been written yet.
Held == IF primary \in State THEN primary ELSE Fresh

-----------------------------------------------------------------------------
(* Changes to a copy of the state.                                         *)

Exists(facts, i) == \E f \in facts : f.kind = "instance" /\ f.inst = i
New(kind, i) == [kind |-> kind, inst |-> i, stamp |-> changes + 1]

\* A field holds one value: the new one replaces the old.
Put(facts, f) == {g \in facts : g.kind # f.kind \/ g.inst # f.inst} \cup {f}

\* The history of an instance keeps its newest entries.
Push(facts, f) ==
    LET history == {g \in facts \cup {f} : g.kind = "history" /\ g.inst = f.inst}
        Newer(g) == {h \in history : h.stamp > g.stamp}
    IN  (facts \ history) \cup {g \in history : Cardinality(Newer(g)) < MaxHistory}

\* replay_committed_wal_entries: an entry of an instance that is gone is
\* skipped, a history entry that is there already is not added again.
\* There is at most one entry of each kind, so their order is immaterial.
Replay(facts, entries) ==
    LET of(kind) == {f \in entries : f.kind = kind /\ Exists(facts, f.inst)}
        kept == {g \in facts : \A f \in of("status") : g.kind # "status" \/ g.inst # f.inst}
        added == kept \cup of("status") \cup {f \in entries : f.kind = "action"}
    IN  IF of("history") = {} THEN added
        ELSE Push(added, CHOOSE f \in of("history") : TRUE)

-----------------------------------------------------------------------------
(* load.                                                                   *)

ReadPrimary(p) ==
    /\ pc[p] = "idle"
    /\ \/ /\ primary \in State
          /\ SetMem(p, primary)
          /\ base' = [base EXCEPT ![p] = primary]
          /\ Goto(p, "check backup")
       \/ /\ primary = Corrupt
          /\ Goto(p, "was corrupt")
          /\ UNCHANGED <<mem, base>>
       \/ /\ primary = Missing
          /\ base' = [base EXCEPT ![p] = Fresh]
          /\ Goto(p, "was missing")
          /\ UNCHANGED mem
    /\ UNCHANGED <<files, lock, loaded, changes, harm, overwritten, past>>

\* repair_backup_from_primary_if_needed: the backup is looked at, then
\* written from the state file as it was read.
CheckBackup(p) ==
    /\ pc[p] = "check backup"
    /\ Goto(p, IF backup \in State THEN "replay" ELSE "repair backup")
    /\ UNCHANGED <<files, lock, mem, loaded, changes, harm, overwritten, base, past>>

\* Mutation: the WAL is replayed before the files are repaired.
ReadBackup_Replayed(p) ==
    /\ pc[p] \in {"was corrupt", "was missing"}
    /\ \/ /\ backup \in State
          /\ SetMem(p, [backup EXCEPT !.facts = Replay(@, wal)])
          /\ base' = [base EXCEPT ![p] = backup]
          /\ Goto(p, "repair primary")
       \/ /\ backup = Missing
          /\ pc[p] = "was missing"
          /\ SetMem(p, Fresh)
          /\ Goto(p, "replay")
          /\ UNCHANGED base
    /\ UNCHANGED <<files, lock, loaded, changes, harm, overwritten, past>>

\* load_backup_state.  Without a backup a missing state file means a new
\* directory, and a corrupt one is an error.
ReadBackup(p) ==
    /\ pc[p] \in {"was corrupt", "was missing"}
    /\ \/ /\ backup \in State
          /\ SetMem(p, backup)
          /\ base' = [base EXCEPT ![p] = backup]
          /\ Goto(p, "repair primary")
       \/ /\ backup = Missing
          /\ pc[p] = "was missing"
          /\ SetMem(p, Fresh)
          /\ Goto(p, "replay")
          /\ UNCHANGED base
       \/ /\ backup = Corrupt \/ (backup = Missing /\ pc[p] = "was corrupt")
          /\ base' = [base EXCEPT ![p] = None]
          /\ Goto(p, "idle")
          /\ UNCHANGED mem
    /\ UNCHANGED <<files, lock, loaded, changes, harm, overwritten, past>>

\* repair_state_from_backup: no lock is taken and no version compared, so
\* what another command has persisted since may be replaced.
RepairPrimary(p) ==
    /\ pc[p] = "repair primary"
    /\ primary' = mem[p]
    /\ overwritten' = (overwritten \/ (primary \in State /\ primary # mem[p]))
    /\ Goto(p, "repair backup")
    /\ UNCHANGED <<backup, wal, lock, mem, loaded, changes, harm, base, past>>

RepairBackup(p) ==
    /\ pc[p] = "repair backup"
    /\ backup' = mem[p]
    /\ Goto(p, "replay")
    /\ UNCHANGED <<primary, wal, lock, mem, loaded, changes, harm, overwritten, base, past>>

ReplayWal(p) ==
    /\ pc[p] = "replay"
    /\ SetMem(p, [mem[p] EXCEPT !.facts = Replay(@, wal)])
    /\ loaded' = [loaded EXCEPT ![p] = mem[p].version]
    /\ Goto(p, IF wal = {} THEN "ready" ELSE "drop wal")
    /\ UNCHANGED <<files, lock, changes, harm, overwritten, base, past>>

\* A WAL that cannot be removed is left for the next load.
DropWal(p) ==
    /\ pc[p] = "drop wal"
    /\ wal' \in {{}, wal}
    /\ Goto(p, "ready")
    /\ UNCHANGED <<primary, backup, lock, mem, loaded, changes, harm, overwritten, base, past>>

-----------------------------------------------------------------------------
(* The operations: each changes the copy, then persists it.                *)

Change(p, facts) ==
    /\ pc[p] = "ready"
    /\ changes < MaxChanges
    /\ changes' = changes + 1
    /\ SetMem(p, [mem[p] EXCEPT !.facts = facts])
    /\ Goto(p, "lock")
    /\ UNCHANGED <<files, lock, loaded, harm, overwritten, base, past>>

CreateInstance(p, i) ==
    /\ ~ Exists(mem[p].facts, i)
    /\ Change(p, mem[p].facts \cup {New("instance", i), New("status", i)})

AppendOperationHistory(p, i) ==
    /\ Exists(mem[p].facts, i)
    /\ Change(p, Push(mem[p].facts, New("history", i)))

SetStatus(p, i) ==
    /\ Exists(mem[p].facts, i)
    /\ Change(p, Put(mem[p].facts, New("status", i)))

SetRolloutPlan(p, i) ==
    /\ Exists(mem[p].facts, i)
    /\ \/ Change(p, Put(mem[p].facts, New("plan", i)))
       \/ Change(p, {f \in mem[p].facts : f.kind # "plan" \/ f.inst # i})

\* The instance need not exist; where it does its status is stamped too.
MarkActionApplied(p, i) ==
    LET marked == mem[p].facts \cup {New("action", i)}
    IN  Change(p, IF Exists(marked, i) THEN Put(marked, New("status", i)) ELSE marked)

-----------------------------------------------------------------------------
(* persist.                                                                *)

\* Mutation: the lock is not exclusive.
AcquireLock_Shared(p) ==
    /\ pc[p] = "lock"
    /\ lock' = p
    /\ Goto(p, "validate")
    /\ UNCHANGED <<files, mem, loaded, changes, harm, overwritten, base, past>>

AcquireLock(p) ==
    /\ pc[p] = "lock"
    /\ lock = None
    /\ lock' = p
    /\ Goto(p, "validate")
    /\ UNCHANGED <<files, mem, loaded, changes, harm, overwritten, base, past>>

\* The lock cannot be opened, or another command holds it for five seconds.
LockFails(p) ==
    /\ pc[p] = "lock"
    /\ Goto(p, "ready")
    /\ UNCHANGED <<files, lock, mem, loaded, changes, harm, overwritten, base, past>>

\* validate_expected_write_version.
Expected(p) ==
    \/ primary \in State /\ primary.version = loaded[p]
    \/ primary = Missing /\ loaded[p] = 0

\* Mutation: the version is not advanced.
Validate_SameVersion(p) ==
    /\ pc[p] = "validate"
    /\ IF Expected(p)
       THEN /\ Goto(p, "write primary")
            /\ UNCHANGED lock
       ELSE /\ lock' = None
            /\ Goto(p, "ready")
    /\ UNCHANGED <<files, mem, loaded, changes, harm, overwritten, base, past>>

Validate(p) ==
    /\ pc[p] = "validate"
    /\ IF Expected(p)
       THEN /\ SetMem(p, [mem[p] EXCEPT !.version = loaded[p] + 1])
            /\ Goto(p, "write primary")
            /\ UNCHANGED lock
       ELSE /\ lock' = None
            /\ Goto(p, "ready")
            /\ UNCHANGED mem
    /\ UNCHANGED <<files, loaded, changes, harm, overwritten, base, past>>

\* Mutation: the backup is written before the state file.
WritePrimary_BackupFirst(p) ==
    /\ pc[p] = "write primary"
    /\ \/ /\ primary' = mem[p]
          /\ base' = [base EXCEPT ![p] = mem[p]]
          /\ past' = past \cup {mem[p]}
          /\ Goto(p, "write backup")
          /\ UNCHANGED lock
       \/ /\ lock' = None
          /\ Goto(p, "ready")
          /\ UNCHANGED <<primary, base, past>>
    /\ backup' = mem[p]
    /\ UNCHANGED <<wal, mem, loaded, changes, harm, overwritten>>

\* An error ends the operation; the copy keeps the change.
WritePrimary(p) ==
    /\ pc[p] = "write primary"
    /\ \/ /\ primary' = mem[p]
          /\ base' = [base EXCEPT ![p] = mem[p]]
          /\ past' = past \cup {mem[p]}
          /\ Goto(p, "write backup")
          /\ UNCHANGED lock
       \/ /\ lock' = None
          /\ Goto(p, "ready")
          /\ UNCHANGED <<primary, base, past>>
    /\ UNCHANGED <<backup, wal, mem, loaded, changes, harm, overwritten>>

\* An error here is only logged: the operation has succeeded.
WriteBackup(p) ==
    /\ pc[p] = "write backup"
    /\ backup' \in {mem[p], backup}
    /\ loaded' = [loaded EXCEPT ![p] = mem[p].version]
    /\ lock' = None
    /\ Goto(p, "ready")
    /\ UNCHANGED <<primary, wal, mem, changes, harm, overwritten, base, past>>

-----------------------------------------------------------------------------
(* The environment.                                                        *)

\* A command ends, on an error of load or after its last operation, or is
\* killed wherever it is; the kernel then releases its lock.
Exit(p) ==
    /\ pc[p] # "idle"
    /\ Goto(p, "idle")
    /\ SetMem(p, Fresh)
    /\ loaded' = [loaded EXCEPT ![p] = 0]
    /\ base' = [base EXCEPT ![p] = None]
    /\ lock' = IF lock = p THEN None ELSE lock
    /\ UNCHANGED <<files, changes, harm, overwritten, past>>

DamagePrimary ==
    /\ harm.primary + harm.backup < MaxFaults
    /\ primary \in State
    /\ primary' \in {Missing, Corrupt}
    /\ harm' = [harm EXCEPT !.primary = @ + 1]
    /\ UNCHANGED <<backup, wal, lock, pc, mem, loaded, changes, overwritten, base, past>>

DamageBackup ==
    /\ harm.primary + harm.backup < MaxFaults
    /\ backup \in State
    /\ backup' \in {Missing, Corrupt}
    /\ harm' = [harm EXCEPT !.backup = @ + 1]
    /\ UNCHANGED <<primary, wal, lock, pc, mem, loaded, changes, overwritten, base, past>>

Init ==
    /\ primary = Missing
    /\ backup = Missing
    /\ wal \in {{}, LegacyWal}
    /\ lock = None
    /\ pc = [p \in Process |-> "idle"]
    /\ mem = [p \in Process |-> Fresh]
    /\ loaded = [p \in Process |-> 0]
    /\ changes = 0
    /\ harm = [primary |-> 0, backup |-> 0]
    /\ overwritten = FALSE
    /\ base = [p \in Process |-> None]
    /\ past = {Fresh}

Load(p) ==
    \/ ReadPrimary(p)
    \/ CheckBackup(p)
    \/ ReadBackup(p)
    \/ RepairPrimary(p)
    \/ RepairBackup(p)
    \/ ReplayWal(p)
    \/ DropWal(p)

Operate(p, i) ==
    \/ CreateInstance(p, i)
    \/ AppendOperationHistory(p, i)
    \/ SetStatus(p, i)
    \/ SetRolloutPlan(p, i)
    \/ MarkActionApplied(p, i)

Persist(p) ==
    \/ AcquireLock(p)
    \/ LockFails(p)
    \/ Validate(p)
    \/ WritePrimary(p)
    \/ WriteBackup(p)

Next ==
    \/ \E p \in Process :
          Load(p) \/ Persist(p) \/ Exit(p) \/ (\E i \in Instance : Operate(p, i))
    \/ DamagePrimary
    \/ DamageBackup

Spec == Init /\ [][Next]_vars

-----------------------------------------------------------------------------
(* Properties.                                                             *)

Location ==
    {"idle", "check backup", "was corrupt", "was missing", "repair primary",
     "repair backup", "replay", "drop wal", "ready", "lock", "validate",
     "write primary", "write backup"}

\* Every variable has its type.
TypeOK ==
    /\ primary \in State \cup {Missing, Corrupt}
    /\ backup \in State \cup {Missing, Corrupt}
    /\ wal \subseteq LegacyWal
    /\ lock \in Process \cup {None}
    /\ pc \in [Process -> Location]
    /\ mem \in [Process -> State]
    /\ loaded \in [Process -> Nat]
    /\ changes \in Nat
    /\ harm \in [primary : Nat, backup : Nat]
    /\ overwritten \in BOOLEAN
    /\ base \in [Process -> State \cup {None}]
    /\ past \subseteq State

\* The files only ever hold states that some command committed to the state
\* file: whatever fails or is killed between the two writes, neither a
\* repair nor a recovery brings in a state nobody committed.
OnlyCommittedStates == ({primary, backup} \cap State) \subseteq past

\* persist compares versions, not states.  Until the state file is damaged,
\* or an unlocked repair replaces a committed state by another, that is
\* enough: a command whose version is still the file's has the file's state,
\* so the change it writes loses nobody else's.
VersionIdentifiesState ==
    ~ Suspect =>
        \A p \in Process :
            /\ pc[p] \in {"drop wal", "ready", "lock", "validate", "write primary"}
            /\ loaded[p] = Held.version
            => base[p] = Held

\* Until the state file is damaged, or an unlocked repair replaces a committed
\* state by another, the backup is never ahead of it, and at the same version
\* is the same: "primary state remains authoritative" whatever order commands
\* repair and write the two files in.
BackupNeverAhead ==
    (~ Suspect /\ backup \in State) =>
        /\ primary \in State
        /\ backup.version <= primary.version
        /\ backup.version = primary.version => backup = primary

\* What the comments of PersistedSupervisorState and persist say of a state
\* file that nothing outside has damaged: write versions only grow, so no
\* change that was persisted is lost.
MonotonicWriteVersion ==
    harm.primary = 0 => \A s \in past : s.version <= Held.version

\* The store is a compare-and-swap register for the commands.
Register == INSTANCE CasRegister WITH
    Client <- Process,
    Blank <- Fresh,
    value <- Held,
    copy <- base,
    recovering <- {p \in Process : pc[p] = "repair primary"},
    suspect <- Suspect

ImplementsRegister == Register!Spec
===============================================================================
