---------------------------- MODULE ContextCrdt ----------------------------
(***************************************************************************)
(* The replicated context store (src/src/gateway/crdt.rs): a hybrid        *)
(* logical clock, an observed-remove set of entries and a last-writer-wins *)
(* register for each field, as functions of a replica's state.             *)
(*                                                                         *)
(* Node ids and values stand for strings and are ordered as their texts    *)
(* are.                                                                    *)
(***************************************************************************)
EXTENDS Integers, FiniteSets

CONSTANTS
    Node,        \* replica ids
    Id,          \* entry ids
    Field,
    Value,
    NoRegister,  \* a field without a register
    MaxLogical,  \* where the logical part saturates
    MaxAge       \* max_partition_buffer_age

Timestamp == [wall : Nat, logical : 0 .. MaxLogical, node : Node]
Register == [value : Value, at : Timestamp]
Tombstone == [tag : Timestamp, at : Timestamp]

ASSUME CrdtAssumption ==
    /\ Node \subseteq Nat
    /\ IsFiniteSet(Node)
    /\ Value \subseteq Nat
    /\ NoRegister \notin Register
    /\ MaxLogical \in Nat
    /\ MaxAge \in Nat

State ==
    [adds : [Id -> SUBSET Timestamp], tombs : [Id -> SUBSET Tombstone],
     fields : [Id -> [Field -> Register \cup {NoRegister}]]]

-----------------------------------------------------------------------------
(* The hybrid clock.                                                       *)

\* The derived order on the three parts of a timestamp.
Before(a, b) ==
    \/ a.wall < b.wall
    \/ a.wall = b.wall /\ a.logical < b.logical
    \/ a.wall = b.wall /\ a.logical = b.logical /\ a.node < b.node

Latest(S) == CHOOSE t \in S : \A u \in S : ~Before(t, u)

Succ(logical) == IF logical < MaxLogical THEN logical + 1 ELSE logical
Larger(a, b) == IF a >= b THEN a ELSE b

Tick(last, now) ==
    IF now > last.wall
    THEN [last EXCEPT !.wall = now, !.logical = 0]
    ELSE [last EXCEPT !.logical = Succ(@)]

\* Mutation: a remote timestamp does not move the clock.
Observe_LocalOnly(last, remote, now) == Tick(last, now)

Observe(last, remote, now) ==
    LET wall == Larger(now, Larger(last.wall, remote.wall))
        logical ==
            CASE wall = last.wall /\ wall = remote.wall -> Succ(Larger(last.logical, remote.logical))
              [] wall = last.wall /\ wall # remote.wall -> Succ(last.logical)
              [] wall # last.wall /\ wall = remote.wall -> Succ(remote.logical)
              [] OTHER -> 0
    IN  [last EXCEPT !.wall = wall, !.logical = logical]

-----------------------------------------------------------------------------
(* Membership, registers and their merges.                                 *)

VisibleTags(s, e) == s.adds[e] \ {t.tag : t \in s.tombs[e]}
IsVisible(s, e) == VisibleTags(s, e) # {}

\* Mutation: tombstones stay where they were made.
MergeTombs_Local(mine, theirs) == mine

\* OrSet::merge_in, for one entry: of two removals of a tag the later counts.
MergeTombs(mine, theirs) ==
    {t \in mine : \A u \in theirs : u.tag = t.tag => ~Before(t.at, u.at)}
        \cup {u \in theirs : \A t \in mine : t.tag = u.tag => Before(t.at, u.at)}

\* Mutation: what arrives last wins.
MergeRegister_Remote(local, remote) == IF remote = NoRegister THEN local ELSE remote

\* LwwRegister::merge, and the field that only one side has.
MergeRegister(local, remote) ==
    CASE remote = NoRegister -> local
      [] local = NoRegister -> remote
      [] OTHER -> IF Before(local.at, remote.at) THEN remote
                  ELSE IF Before(remote.at, local.at) THEN local
                  ELSE IF remote.value > local.value THEN remote ELSE local

\* ContextCrdtState::merge_in.
MergeState(s, other) ==
    [adds |-> [e \in Id |-> s.adds[e] \cup other.adds[e]],
     tombs |-> [e \in Id |-> MergeTombs(s.tombs[e], other.tombs[e])],
     fields |-> [e \in Id |-> [f \in Field |-> MergeRegister(s.fields[e][f], other.fields[e][f])]]]

Registers(s, e) == {s.fields[e][f] : f \in Field} \ {NoRegister}

\* latest_any_timestamp, max_timestamp: the timestamps they range over.
TimestampsOf(s, e) ==
    s.adds[e] \cup {t.tag : t \in s.tombs[e]} \cup {t.at : t \in s.tombs[e]}
              \cup {g.at : g \in Registers(s, e)}
Timestamps(s) == UNION {TimestampsOf(s, e) : e \in Id}

-----------------------------------------------------------------------------
(* Compaction.                                                             *)

\* Tombstones older than the cutoff go, with the tags they remove.
DropTombs(s, e, cutoff) ==
    LET stale == {t \in s.tombs[e] : t.at.wall < cutoff}
    IN  [s EXCEPT !.tombs[e] = @ \ stale, !.adds[e] = @ \ {t.tag : t \in stale}]

\* Mutation: the newest visible tag is not spared.
PruneAdds_Newest(s, e, cutoff) ==
    IF ~IsVisible(s, e) THEN s
    ELSE [s EXCEPT !.adds[e] = {t \in @ : t.wall >= cutoff}]

\* Of a visible entry the newest visible tag and the recent ones are kept.
PruneAdds(s, e, cutoff) ==
    IF ~IsVisible(s, e) THEN s
    ELSE [s EXCEPT !.adds[e] = {t \in @ : t = Latest(VisibleTags(s, e)) \/ t.wall >= cutoff}]

\* A hidden entry nothing happened to since the cutoff goes altogether.
DropHidden(s, e, cutoff) ==
    IF /\ ~IsVisible(s, e)
       /\ TimestampsOf(s, e) # {}
       /\ Latest(TimestampsOf(s, e)).wall < cutoff
    THEN [s EXCEPT !.adds[e] = {}, !.tombs[e] = {}, !.fields[e] = [f \in Field |-> NoRegister]]
    ELSE s

CompactEntry(s, e, cutoff) ==
    DropHidden(PruneAdds(DropTombs(s, e, cutoff), e, cutoff), e, cutoff)

\* ContextCrdtState::compact: the entries do not touch each other.
Compact(s, now) ==
    LET done == [e \in Id |-> CompactEntry(s, e, now - MaxAge)]
    IN  [adds |-> [e \in Id |-> done[e].adds[e]],
         tombs |-> [e \in Id |-> done[e].tombs[e]],
         fields |-> [e \in Id |-> done[e].fields[e]]]

-----------------------------------------------------------------------------
(* The replica: its clock and its state.                                   *)

NewReplica(n) ==
    [clock |-> [wall |-> 0, logical |-> 0, node |-> n],
     state |-> [adds |-> [e \in Id |-> {}], tombs |-> [e \in Id |-> {}],
                fields |-> [e \in Id |-> [f \in Field |-> NoRegister]]]]

\* upsert_entry with the values of some fields; set_field is the same with one.
Upsert(rep, e, values, now) ==
    LET at == Tick(rep.clock, now)
        s == rep.state
    IN  [clock |-> at,
         state |-> [s EXCEPT
             !.adds[e] = IF IsVisible(s, e) THEN @ ELSE @ \cup {at},
             !.fields[e] = [f \in Field |->
                 IF f \in DOMAIN values
                 THEN MergeRegister(s.fields[e][f], [value |-> values[f], at |-> at])
                 ELSE s.fields[e][f]]]]

\* remove_entry: of an entry that is not visible nothing changes, the clock
\* included.
RemoveEntry(rep, e, now) ==
    LET at == Tick(rep.clock, now)
        s == rep.state
    IN  IF ~IsVisible(s, e) THEN rep
        ELSE [clock |-> at,
              state |-> [s EXCEPT !.tombs[e] =
                             @ \cup {[tag |-> t, at |-> at] : t \in VisibleTags(s, e)}]]

\* merge_state_at.
MergeAt(rep, other, now) ==
    [clock |-> IF Timestamps(other) = {} THEN rep.clock
               ELSE Observe(rep.clock, Latest(Timestamps(other)), now),
     state |-> MergeState(rep.state, other)]

\* entry_view of every visible entry, without the order it is listed in.
View(s) == [e \in {i \in Id : IsVisible(s, i)} |-> [f \in Field |->
               IF s.fields[e][f] = NoRegister THEN NoRegister ELSE s.fields[e][f].value]]
===============================================================================
