--------------------------- MODULE CrdtSync_proofs ---------------------------
(***************************************************************************)
(* Proofs about ContextCrdt and CrdtSync, for any set of nodes, entries,   *)
(* fields, values and clock readings and any number of losses, duplicates, *)
(* timeouts and restarts.                                                  *)
(*                                                                         *)
(* The data type: merging is idempotent, commutative and associative,      *)
(* which is what makes the order and the number of deliveries irrelevant,  *)
(* and every operation leaves the clock at or after all timestamps of the  *)
(* state.                                                                  *)
(*                                                                         *)
(* The driver: SyncTyped is about the data: every replica's clock is ahead *)
(* of its state, and every envelope carries the state of some replica.     *)
(* Numbered is about the bookkeeping: an envelope is made once, sent only  *)
(* after it was stored, and the number a node still owes is never one that *)
(* a receiver has merged.                                                  *)
(* History is about convergence: every replica and envelope is explained   *)
(* by what the mutations it has taken in have contributed.                 *)
(***************************************************************************)
EXTENDS CrdtSync, FiniteSetTheorems, WellFoundedInduction, TLAPS

\* The tombstones of an entry are a map from tags.
OnePerTag(tombs) == \A t, u \in tombs : t.tag = u.tag => t = u

Mapped(s) == \A e \in Id : OnePerTag(s.tombs[e])

-----------------------------------------------------------------------------
(* The order of timestamps.                                                *)

LEMMA TimestampParts ==
    ASSUME NEW t \in Timestamp
    PROVE  /\ t.wall \in Nat /\ t.logical \in Nat /\ t.logical <= MaxLogical
           /\ t.node \in Node /\ t.node \in Nat
<1>1. t.wall \in Nat /\ t.logical \in 0 .. MaxLogical /\ t.node \in Node
  BY DEF Timestamp
<1>2. t.logical \in Nat /\ t.logical <= MaxLogical
  BY <1>1, CrdtAssumption
<1>3. t.node \in Nat
  <2>1. Node \subseteq Nat
    BY CrdtAssumption
  <2> QED BY <1>1, <2>1
<1> QED BY <1>1, <1>2, <1>3

LEMMA BeforeTransitive ==
    ASSUME NEW a \in Timestamp, NEW b \in Timestamp, NEW c \in Timestamp,
           Before(a, b), Before(b, c)
    PROVE  Before(a, c)
BY TimestampParts DEF Before

LEMMA BeforeIrreflexive ==
    ASSUME NEW a \in Timestamp
    PROVE  ~Before(a, a)
BY TimestampParts DEF Before

LEMMA BeforeAsymmetric ==
    ASSUME NEW a \in Timestamp, NEW b \in Timestamp, Before(a, b)
    PROVE  ~Before(b, a)
BY BeforeTransitive, BeforeIrreflexive

LEMMA BeforeTotal ==
    ASSUME NEW a \in Timestamp, NEW b \in Timestamp, ~Before(a, b), ~Before(b, a)
    PROVE  a = b
<1>1. a.wall = b.wall /\ a.logical = b.logical /\ a.node = b.node
  BY TimestampParts DEF Before
<1> QED BY <1>1 DEF Timestamp

LEMMA NotBeforeTransitive ==
    ASSUME NEW a \in Timestamp, NEW b \in Timestamp, NEW c \in Timestamp,
           ~Before(b, a), ~Before(c, b)
    PROVE  ~Before(c, a)
BY BeforeTotal, BeforeTransitive

-----------------------------------------------------------------------------
(* Registers.                                                              *)

\* Registers are ordered by time, and by value at the same time.
Less(g, h) == Before(g.at, h.at) \/ (g.at = h.at /\ g.value < h.value)

LEMMA RegisterParts ==
    ASSUME NEW g \in Register
    PROVE  g.at \in Timestamp /\ g.value \in Nat /\ g # NoRegister
BY CrdtAssumption DEF Register

LEMMA LessOrder ==
    ASSUME NEW a \in Register, NEW b \in Register, NEW c \in Register
    PROVE  /\ Less(a, b) /\ Less(b, c) => Less(a, c)
           /\ ~(Less(a, b) /\ Less(b, a))
           /\ ~Less(a, b) /\ ~Less(b, a) => a = b
<1>1. a.value \in Nat /\ b.value \in Nat /\ c.value \in Nat
  BY RegisterParts
<1>2. a.at \in Timestamp /\ b.at \in Timestamp /\ c.at \in Timestamp
  BY RegisterParts
<1>3. Less(a, b) /\ Less(b, c) => Less(a, c)
  BY <1>1, <1>2, BeforeTransitive DEF Less
<1>4. ~(Less(a, b) /\ Less(b, a))
  BY <1>1, <1>2, BeforeAsymmetric, BeforeIrreflexive DEF Less
<1>5. ASSUME ~Less(a, b), ~Less(b, a) PROVE a = b
  <2>1. a.at = b.at
    BY <1>2, <1>5, BeforeTotal DEF Less
  <2>2. a.value = b.value
    BY <1>1, <1>5, <2>1 DEF Less
  <2> QED BY <2>1, <2>2 DEF Register
<1> QED BY <1>3, <1>4, <1>5

\* Of two registers the merge is the greater one.
LEMMA MergeIsGreater ==
    ASSUME NEW a \in Register, NEW b \in Register
    PROVE  MergeRegister(a, b) = IF Less(a, b) THEN b ELSE a
<1>1. a.value \in Nat /\ b.value \in Nat /\ a # NoRegister /\ b # NoRegister
  BY RegisterParts
<1>2. a.at \in Timestamp /\ b.at \in Timestamp
  BY RegisterParts
<1>3. CASE Before(a.at, b.at)
  BY <1>1, <1>3 DEF MergeRegister, Less
<1>4. CASE ~Before(a.at, b.at) /\ Before(b.at, a.at)
  BY <1>1, <1>2, <1>4, BeforeIrreflexive DEF MergeRegister, Less
<1>5. CASE ~Before(a.at, b.at) /\ ~Before(b.at, a.at)
  <2>1. a.at = b.at
    BY <1>2, <1>5, BeforeTotal
  <2> QED BY <1>1, <1>5, <2>1 DEF MergeRegister, Less
<1> QED BY <1>3, <1>4, <1>5

Slot == Register \cup {NoRegister}

LEMMA MergeSlot ==
    ASSUME NEW a \in Slot
    PROVE  MergeRegister(a, NoRegister) = a /\ MergeRegister(NoRegister, a) = a
BY DEF MergeRegister

LEMMA MergeSlotTyped ==
    ASSUME NEW a \in Slot, NEW b \in Slot
    PROVE  MergeRegister(a, b) \in Slot
<1>1. CASE a \in Register /\ b \in Register
  BY <1>1, MergeIsGreater DEF Slot
<1>2. CASE a = NoRegister \/ b = NoRegister
  BY <1>2, MergeSlot
<1> QED BY <1>1, <1>2 DEF Slot

LEMMA MergeRegisterLaws ==
    ASSUME NEW a \in Slot, NEW b \in Slot, NEW c \in Slot
    PROVE  /\ MergeRegister(a, a) = a
           /\ MergeRegister(a, b) = MergeRegister(b, a)
           /\ MergeRegister(a, MergeRegister(b, c)) = MergeRegister(MergeRegister(a, b), c)
<1>1. MergeRegister(a, a) = a
  BY MergeSlot, MergeIsGreater DEF Slot
<1>2. MergeRegister(a, b) = MergeRegister(b, a)
  <2>1. CASE a \in Register /\ b \in Register
    BY <2>1, MergeIsGreater, LessOrder
  <2> QED BY <2>1, MergeSlot DEF Slot
<1>3. MergeRegister(a, MergeRegister(b, c)) = MergeRegister(MergeRegister(a, b), c)
  <2>1. CASE a \in Register /\ b \in Register /\ c \in Register
    <3>1. CASE Less(a, b)
      BY <2>1, <3>1, MergeIsGreater, LessOrder
    <3>2. CASE ~Less(a, b)
      BY <2>1, <3>2, MergeIsGreater, LessOrder
    <3> QED BY <3>1, <3>2
  <2>2. CASE a = NoRegister \/ b = NoRegister \/ c = NoRegister
    BY <2>2, MergeSlot, MergeSlotTyped
  <2> QED BY <2>1, <2>2 DEF Slot
<1> QED BY <1>1, <1>2, <1>3

-----------------------------------------------------------------------------
(* Tombstones.                                                             *)

\* The merge keeps the latest tombstone of every tag.
Latests(T) == {t \in T : \A u \in T : u.tag = t.tag => ~Before(t.at, u.at)}

LEMMA TombParts ==
    ASSUME NEW t \in Tombstone
    PROVE  t.tag \in Timestamp /\ t.at \in Timestamp
BY DEF Tombstone

LEMMA SameTomb ==
    ASSUME NEW t \in Tombstone, NEW u \in Tombstone, t.tag = u.tag,
           ~Before(t.at, u.at), ~Before(u.at, t.at)
    PROVE  t = u
<1>1. t.at = u.at
  BY TombParts, BeforeTotal
<1> QED BY <1>1 DEF Tombstone

LEMMA MergeIsLatest ==
    ASSUME NEW a \in SUBSET Tombstone, NEW b \in SUBSET Tombstone, OnePerTag(a), OnePerTag(b)
    PROVE  MergeTombs(a, b) = Latests(a \cup b)
<1>1. ASSUME NEW t \in a, \A u \in b : u.tag = t.tag => ~Before(t.at, u.at)
      PROVE  t \in Latests(a \cup b)
  <2>1. \A u \in a : u.tag = t.tag => ~Before(t.at, u.at)
    BY TombParts, BeforeIrreflexive DEF OnePerTag
  <2> QED BY <1>1, <2>1 DEF Latests
<1>2. ASSUME NEW u \in b, \A t \in a : t.tag = u.tag => Before(t.at, u.at)
      PROVE  u \in Latests(a \cup b)
  <2>1. \A t \in b : t.tag = u.tag => ~Before(u.at, t.at)
    BY TombParts, BeforeIrreflexive DEF OnePerTag
  <2>2. \A t \in a : t.tag = u.tag => ~Before(u.at, t.at)
    BY <1>2, TombParts, BeforeAsymmetric
  <2> QED BY <2>1, <2>2 DEF Latests
<1>3. ASSUME NEW t \in Latests(a \cup b)
      PROVE  t \in MergeTombs(a, b)
  <2>1. CASE t \in a
    BY <1>3, <2>1 DEF Latests, MergeTombs
  <2>2. CASE t \notin a
    <3>1. t \in b /\ \A u \in a : u.tag = t.tag => ~Before(t.at, u.at)
      BY <1>3, <2>2 DEF Latests
    <3>2. \A u \in a : u.tag = t.tag => Before(u.at, t.at)
      BY <2>2, <3>1, SameTomb
    <3> QED BY <3>1, <3>2 DEF MergeTombs
  <2> QED BY <2>1, <2>2
<1> QED BY <1>1, <1>2, <1>3 DEF MergeTombs

LEMMA LatestsMapped ==
    ASSUME NEW T \in SUBSET Tombstone
    PROVE  OnePerTag(Latests(T)) /\ Latests(T) \subseteq T
<1>1. ASSUME NEW t \in Latests(T), NEW u \in Latests(T), t.tag = u.tag
      PROVE  t = u
  BY <1>1, SameTomb DEF Latests
<1> QED BY <1>1 DEF OnePerTag, Latests

\* What was left out of a merge of two maps had a later one beside it.
LEMMA LatestsCover ==
    ASSUME NEW a \in SUBSET Tombstone, NEW b \in SUBSET Tombstone, OnePerTag(a), OnePerTag(b),
           NEW t \in a \cup b
    PROVE  \E u \in Latests(a \cup b) : u.tag = t.tag /\ ~Before(u.at, t.at)
<1>1. CASE t \in Latests(a \cup b)
  BY <1>1, TombParts, BeforeIrreflexive DEF Latests
<1>2. CASE t \notin Latests(a \cup b)
  <2>1. PICK u \in a \cup b : u.tag = t.tag /\ Before(t.at, u.at)
    BY <1>2 DEF Latests
  <2>2. u \in Latests(a \cup b)
    <3> SUFFICES ASSUME NEW v \in a \cup b, v.tag = u.tag PROVE ~Before(u.at, v.at)
      BY DEF Latests
    <3>1. v = t \/ v = u
      BY <2>1, TombParts, BeforeIrreflexive DEF OnePerTag
    <3> QED BY <2>1, <3>1, TombParts, BeforeIrreflexive, BeforeAsymmetric
  <2> QED BY <2>1, <2>2, TombParts, BeforeAsymmetric
<1> QED BY <1>1, <1>2

LEMMA LatestsAgain ==
    ASSUME NEW T \in SUBSET Tombstone, NEW c \in SUBSET Tombstone,
           \A t \in T : \E u \in Latests(T) : u.tag = t.tag /\ ~Before(u.at, t.at)
    PROVE  Latests(Latests(T) \cup c) = Latests(T \cup c)
<1> DEFINE L == Latests(T)
<1>1. L \subseteq T
  BY DEF Latests
<1>2. ASSUME NEW t \in Latests(L \cup c)
      PROVE  t \in Latests(T \cup c)
  <2>1. t \in L \cup c /\ \A u \in L \cup c : u.tag = t.tag => ~Before(t.at, u.at)
    BY <1>2 DEF Latests
  <2>2. ASSUME NEW u \in T, u.tag = t.tag PROVE ~Before(t.at, u.at)
    <3>1. PICK v \in L : v.tag = u.tag /\ ~Before(v.at, u.at)
      OBVIOUS
    <3>2. ~Before(t.at, v.at)
      BY <2>1, <2>2, <3>1
    <3>3. t \in Tombstone /\ u \in Tombstone /\ v \in Tombstone
      BY <1>1, <2>1
    <3> QED BY <3>1, <3>2, <3>3, TombParts, NotBeforeTransitive
  <2> QED BY <1>1, <2>1, <2>2 DEF Latests
<1>3. ASSUME NEW t \in Latests(T \cup c)
      PROVE  t \in Latests(L \cup c)
  BY <1>1, <1>3 DEF Latests
<1> QED BY <1>2, <1>3

LEMMA MergeTombsLaws ==
    ASSUME NEW a \in SUBSET Tombstone, NEW b \in SUBSET Tombstone, NEW c \in SUBSET Tombstone,
           OnePerTag(a), OnePerTag(b), OnePerTag(c)
    PROVE  /\ MergeTombs(a, a) = a
           /\ MergeTombs(a, b) = MergeTombs(b, a)
           /\ MergeTombs(a, MergeTombs(b, c)) = MergeTombs(MergeTombs(a, b), c)
<1>1. MergeTombs(a, a) = a
  BY TombParts, BeforeIrreflexive DEF MergeTombs, OnePerTag
<1> DEFINE ab == a \cup b
           bc == b \cup c
           abc == a \cup b \cup c
<1>2. /\ MergeTombs(a, b) = Latests(ab) /\ MergeTombs(b, a) = Latests(b \cup a)
      /\ OnePerTag(Latests(ab)) /\ Latests(ab) \in SUBSET Tombstone
  BY MergeIsLatest, LatestsMapped
<1>3. /\ MergeTombs(b, c) = Latests(bc)
      /\ OnePerTag(Latests(bc)) /\ Latests(bc) \in SUBSET Tombstone
  BY MergeIsLatest, LatestsMapped
<1>4. b \cup a = ab
  OBVIOUS
<1> DEFINE L == Latests(ab)
           R == Latests(bc)
           Lc == L \cup c
           Ra == R \cup a
<1>5. bc \cup a = abc /\ ab \cup c = abc /\ ab \in SUBSET Tombstone /\ bc \in SUBSET Tombstone
  OBVIOUS
<1>6. L = Latests(ab) /\ R = Latests(bc) /\ Lc = L \cup c /\ Ra = R \cup a
  OBVIOUS
<1>7. Latests(Lc) = Latests(abc) /\ Latests(Ra) = Latests(abc)
  <2>1. /\ \A t \in ab : \E u \in Latests(ab) : u.tag = t.tag /\ ~Before(u.at, t.at)
        /\ \A t \in bc : \E u \in Latests(bc) : u.tag = t.tag /\ ~Before(u.at, t.at)
    BY LatestsCover
  <2> HIDE DEF ab, bc, abc
  <2>2. Latests(Latests(ab) \cup c) = Latests(ab \cup c)
    BY <1>5, <2>1, LatestsAgain
  <2>3. Latests(Latests(bc) \cup a) = Latests(bc \cup a)
    BY <1>5, <2>1, LatestsAgain
  <2> QED BY <1>5, <2>2, <2>3
<1> HIDE DEF ab, bc, abc, L, R, Lc, Ra
<1>8. MergeTombs(a, b) = MergeTombs(b, a)
  BY <1>2, <1>4
<1>9. MergeTombs(MergeTombs(a, b), c) = Latests(abc)
  <2>1. MergeTombs(a, b) = L /\ L \in SUBSET Tombstone /\ OnePerTag(L)
    BY <1>2, <1>6
  <2>2. MergeTombs(L, c) = Latests(Lc)
    BY <1>6, <2>1, MergeIsLatest
  <2> QED BY <1>7, <2>1, <2>2
<1>10. MergeTombs(a, MergeTombs(b, c)) = Latests(abc)
  <2>1. MergeTombs(b, c) = R /\ R \in SUBSET Tombstone /\ OnePerTag(R)
    BY <1>3, <1>6
  <2>2. a \cup R = Ra
    BY <1>6
  <2>3. MergeTombs(a, R) = Latests(a \cup R)
    BY <2>1, MergeIsLatest
  <2> QED BY <1>7, <2>1, <2>2, <2>3
<1> QED BY <1>1, <1>8, <1>9, <1>10

-----------------------------------------------------------------------------
(* States.                                                                 *)

LEMMA StateParts ==
    ASSUME NEW s \in State, NEW e \in Id
    PROVE  /\ s.adds[e] \in SUBSET Timestamp
           /\ s.tombs[e] \in SUBSET Tombstone
           /\ s.fields[e] \in [Field -> Slot]
           /\ \A f \in Field : s.fields[e][f] \in Slot
BY DEF State, Slot

\* Two states with the same parts are the same.
LEMMA SameState ==
    ASSUME NEW s \in State, NEW t \in State,
           \A e \in Id : s.adds[e] = t.adds[e] /\ s.tombs[e] = t.tombs[e],
           \A e \in Id, f \in Field : s.fields[e][f] = t.fields[e][f]
    PROVE  s = t
<1>1. s.adds = t.adds
  BY DEF State
<1>2. s.tombs = t.tombs
  BY DEF State
<1>3. ASSUME NEW e \in Id PROVE s.fields[e] = t.fields[e]
  BY StateParts
<1>4. s.fields = t.fields
  BY <1>3 DEF State
<1> QED BY <1>1, <1>2, <1>4 DEF State

LEMMA MergeTyped ==
    ASSUME NEW s \in State, NEW t \in State
    PROVE  /\ MergeState(s, t) \in State
           /\ \A e \in Id : /\ MergeState(s, t).adds[e] = s.adds[e] \cup t.adds[e]
                            /\ MergeState(s, t).tombs[e] = MergeTombs(s.tombs[e], t.tombs[e])
           /\ \A e \in Id, f \in Field :
                  MergeState(s, t).fields[e][f] = MergeRegister(s.fields[e][f], t.fields[e][f])
<1> DEFINE adds == [e \in Id |-> s.adds[e] \cup t.adds[e]]
           tombs == [e \in Id |-> MergeTombs(s.tombs[e], t.tombs[e])]
           fields == [e \in Id |-> [f \in Field |-> MergeRegister(s.fields[e][f], t.fields[e][f])]]
<1>1. adds \in [Id -> SUBSET Timestamp]
  BY StateParts
<1>2. tombs \in [Id -> SUBSET Tombstone]
  BY StateParts DEF MergeTombs
<1>3. fields \in [Id -> [Field -> Slot]]
  BY StateParts, MergeSlotTyped
<1>4. MergeState(s, t) = [adds |-> adds, tombs |-> tombs, fields |-> fields]
  BY DEF MergeState
<1>5. MergeState(s, t) \in State
  <2> HIDE DEF adds, tombs, fields
  <2> QED BY <1>1, <1>2, <1>3, <1>4 DEF State, Slot
<1> QED BY <1>4, <1>5

LEMMA MergeMapped ==
    ASSUME NEW s \in State, NEW t \in State, Mapped(s), Mapped(t)
    PROVE  Mapped(MergeState(s, t))
<1> SUFFICES ASSUME NEW e \in Id PROVE OnePerTag(MergeTombs(s.tombs[e], t.tombs[e]))
  BY MergeTyped DEF Mapped
<1>1. OnePerTag(s.tombs[e]) /\ OnePerTag(t.tombs[e])
  BY DEF Mapped
<1>2. s.tombs[e] \in SUBSET Tombstone /\ t.tombs[e] \in SUBSET Tombstone
  BY StateParts
<1>3. MergeTombs(s.tombs[e], t.tombs[e]) = Latests(s.tombs[e] \cup t.tombs[e])
  BY <1>1, <1>2, MergeIsLatest
<1>4. s.tombs[e] \cup t.tombs[e] \in SUBSET Tombstone
  BY <1>2
<1> QED BY <1>3, <1>4, LatestsMapped

\* Merging the same state again changes nothing: an envelope that is
\* delivered twice is merged once.
THEOREM MergeIdempotent ==
    ASSUME NEW s \in State, Mapped(s)
    PROVE  MergeState(s, s) = s
<1>1. \A e \in Id : s.adds[e] \cup s.adds[e] = s.adds[e]
  OBVIOUS
<1>2. \A e \in Id : MergeTombs(s.tombs[e], s.tombs[e]) = s.tombs[e]
  BY StateParts, MergeTombsLaws DEF Mapped
<1>3. \A e \in Id, f \in Field : MergeRegister(s.fields[e][f], s.fields[e][f]) = s.fields[e][f]
  BY StateParts, MergeRegisterLaws
<1> DEFINE m == MergeState(s, s)
<1>4. /\ m \in State
      /\ \A e \in Id : m.adds[e] = s.adds[e] \cup s.adds[e]
      /\ \A e \in Id : m.tombs[e] = MergeTombs(s.tombs[e], s.tombs[e])
      /\ \A e \in Id, f \in Field :
             m.fields[e][f] = MergeRegister(s.fields[e][f], s.fields[e][f])
  BY MergeTyped
<1> HIDE DEF m
<1>5. \A e \in Id : m.adds[e] = s.adds[e] /\ m.tombs[e] = s.tombs[e]
  BY <1>1, <1>2, <1>4
<1>6. \A e \in Id, f \in Field : m.fields[e][f] = s.fields[e][f]
  BY <1>3, <1>4
<1>7. m = s
  BY <1>4, <1>5, <1>6, SameState
<1> QED BY <1>7 DEF m

\* It does not matter which of two replicas merges the other's state.
THEOREM MergeCommutative ==
    ASSUME NEW s \in State, NEW t \in State, Mapped(s), Mapped(t)
    PROVE  MergeState(s, t) = MergeState(t, s)
<1>1. \A e \in Id : s.adds[e] \cup t.adds[e] = t.adds[e] \cup s.adds[e]
  OBVIOUS
<1>2. \A e \in Id : MergeTombs(s.tombs[e], t.tombs[e]) = MergeTombs(t.tombs[e], s.tombs[e])
  BY StateParts, MergeTombsLaws DEF Mapped
<1>3. \A e \in Id, f \in Field :
          MergeRegister(s.fields[e][f], t.fields[e][f]) = MergeRegister(t.fields[e][f], s.fields[e][f])
  BY StateParts, MergeRegisterLaws
<1> DEFINE st == MergeState(s, t)
           ts == MergeState(t, s)
<1>4. /\ st \in State
      /\ \A e \in Id : st.adds[e] = s.adds[e] \cup t.adds[e]
      /\ \A e \in Id : st.tombs[e] = MergeTombs(s.tombs[e], t.tombs[e])
      /\ \A e \in Id, f \in Field :
             st.fields[e][f] = MergeRegister(s.fields[e][f], t.fields[e][f])
  BY MergeTyped
<1>5. /\ ts \in State
      /\ \A e \in Id : ts.adds[e] = t.adds[e] \cup s.adds[e]
      /\ \A e \in Id : ts.tombs[e] = MergeTombs(t.tombs[e], s.tombs[e])
      /\ \A e \in Id, f \in Field :
             ts.fields[e][f] = MergeRegister(t.fields[e][f], s.fields[e][f])
  BY MergeTyped
<1> HIDE DEF st, ts
<1>6. \A e \in Id : st.adds[e] = ts.adds[e] /\ st.tombs[e] = ts.tombs[e]
  BY <1>1, <1>2, <1>4, <1>5
<1>7. \A e \in Id, f \in Field : st.fields[e][f] = ts.fields[e][f]
  BY <1>3, <1>4, <1>5
<1>8. st = ts
  BY <1>4, <1>5, <1>6, <1>7, SameState
<1> QED BY <1>8 DEF st, ts

\* Nor in which order three states come together.
THEOREM MergeAssociative ==
    ASSUME NEW s \in State, NEW t \in State, NEW u \in State, Mapped(s), Mapped(t), Mapped(u)
    PROVE  MergeState(s, MergeState(t, u)) = MergeState(MergeState(s, t), u)
<1> DEFINE tu == MergeState(t, u)
           st == MergeState(s, t)
           left == MergeState(s, tu)
           right == MergeState(st, u)
<1>1. /\ tu \in State
      /\ \A e \in Id : tu.adds[e] = t.adds[e] \cup u.adds[e]
      /\ \A e \in Id : tu.tombs[e] = MergeTombs(t.tombs[e], u.tombs[e])
      /\ \A e \in Id, f \in Field :
             tu.fields[e][f] = MergeRegister(t.fields[e][f], u.fields[e][f])
  BY MergeTyped
<1>2. /\ st \in State
      /\ \A e \in Id : st.adds[e] = s.adds[e] \cup t.adds[e]
      /\ \A e \in Id : st.tombs[e] = MergeTombs(s.tombs[e], t.tombs[e])
      /\ \A e \in Id, f \in Field :
             st.fields[e][f] = MergeRegister(s.fields[e][f], t.fields[e][f])
  BY MergeTyped
<1> HIDE DEF tu, st
<1>3. /\ left \in State
      /\ \A e \in Id : left.adds[e] = s.adds[e] \cup tu.adds[e]
      /\ \A e \in Id : left.tombs[e] = MergeTombs(s.tombs[e], tu.tombs[e])
      /\ \A e \in Id, f \in Field :
             left.fields[e][f] = MergeRegister(s.fields[e][f], tu.fields[e][f])
  BY <1>1, MergeTyped
<1>4. /\ right \in State
      /\ \A e \in Id : right.adds[e] = st.adds[e] \cup u.adds[e]
      /\ \A e \in Id : right.tombs[e] = MergeTombs(st.tombs[e], u.tombs[e])
      /\ \A e \in Id, f \in Field :
             right.fields[e][f] = MergeRegister(st.fields[e][f], u.fields[e][f])
  BY <1>2, MergeTyped
<1> HIDE DEF left, right
<1>5. ASSUME NEW e \in Id PROVE left.adds[e] = right.adds[e]
  <2>1. left.adds[e] = s.adds[e] \cup (t.adds[e] \cup u.adds[e])
    BY <1>1, <1>3
  <2>2. right.adds[e] = (s.adds[e] \cup t.adds[e]) \cup u.adds[e]
    BY <1>2, <1>4
  <2> QED BY <2>1, <2>2
<1>6. ASSUME NEW e \in Id PROVE left.tombs[e] = right.tombs[e]
  <2>1. /\ s.tombs[e] \in SUBSET Tombstone /\ t.tombs[e] \in SUBSET Tombstone
        /\ u.tombs[e] \in SUBSET Tombstone
        /\ OnePerTag(s.tombs[e]) /\ OnePerTag(t.tombs[e]) /\ OnePerTag(u.tombs[e])
    BY StateParts DEF Mapped
  <2> QED BY <1>1, <1>2, <1>3, <1>4, <2>1, MergeTombsLaws
<1>7. ASSUME NEW e \in Id, NEW f \in Field PROVE left.fields[e][f] = right.fields[e][f]
  <2>1. s.fields[e][f] \in Slot /\ t.fields[e][f] \in Slot /\ u.fields[e][f] \in Slot
    BY StateParts
  <2> QED BY <1>1, <1>2, <1>3, <1>4, <2>1, MergeRegisterLaws
<1>8. left = right
  BY <1>3, <1>4, <1>5, <1>6, <1>7, SameState
<1> QED BY <1>8 DEF left, right, st, tu

-----------------------------------------------------------------------------
(* The clock.                                                              *)

\* A clock at c has reached t: what it stamps next is later, whatever the
\* nodes.
Reached(c, t) == t.wall < c.wall \/ (t.wall = c.wall /\ t.logical <= c.logical)

\* A clock that has reached everything in a state.
Ahead(c, s) ==
    \A e \in Id :
        /\ \A t \in s.adds[e] : Reached(c, t)
        /\ \A b \in s.tombs[e] : Reached(c, b.tag) /\ Reached(c, b.at)
        /\ \A f \in Field : s.fields[e][f] # NoRegister => Reached(c, s.fields[e][f].at)

Replica == [clock : Timestamp, state : State]

\* A replica of node n whose clock is ahead.
Good(rep, n) ==
    /\ rep \in Replica
    /\ rep.clock.node = n
    /\ Mapped(rep.state)
    /\ Ahead(rep.clock, rep.state)

LEMMA ReachedTransitive ==
    ASSUME NEW c \in Timestamp, NEW d \in Timestamp, NEW t \in Timestamp,
           Reached(d, c), Reached(c, t)
    PROVE  Reached(d, t)
BY TimestampParts DEF Reached

LEMMA ReachedSelf ==
    ASSUME NEW c \in Timestamp
    PROVE  Reached(c, c)
BY TimestampParts DEF Reached

LEMMA AheadLater ==
    ASSUME NEW c \in Timestamp, NEW d \in Timestamp, NEW s \in State, Reached(d, c), Ahead(c, s)
    PROVE  Ahead(d, s)
<1> SUFFICES ASSUME NEW e \in Id
             PROVE  /\ \A t \in s.adds[e] : Reached(d, t)
                    /\ \A b \in s.tombs[e] : Reached(d, b.tag) /\ Reached(d, b.at)
                    /\ \A f \in Field : s.fields[e][f] # NoRegister =>
                                            Reached(d, s.fields[e][f].at)
  BY DEF Ahead
<1>1. \A t \in s.adds[e] : Reached(d, t)
  BY StateParts, ReachedTransitive DEF Ahead
<1>2. \A b \in s.tombs[e] : Reached(d, b.tag) /\ Reached(d, b.at)
  BY StateParts, TombParts, ReachedTransitive DEF Ahead
<1>3. \A f \in Field : s.fields[e][f] # NoRegister => Reached(d, s.fields[e][f].at)
  BY StateParts, RegisterParts, ReachedTransitive DEF Ahead, Slot
<1> QED BY <1>1, <1>2, <1>3

LEMMA SuccTyped ==
    ASSUME NEW i \in 0 .. MaxLogical
    PROVE  Succ(i) \in 0 .. MaxLogical /\ i <= Succ(i)
BY CrdtAssumption DEF Succ

LEMMA TickReaches ==
    ASSUME NEW last \in Timestamp, NEW now \in Nat
    PROVE  /\ Tick(last, now) \in Timestamp
           /\ Tick(last, now).node = last.node
           /\ Reached(Tick(last, now), last)
<1>1. /\ last.wall \in Nat /\ last.logical \in 0 .. MaxLogical /\ last.node \in Node
      /\ last = [wall |-> last.wall, logical |-> last.logical, node |-> last.node]
  BY DEF Timestamp
<1>2. 0 \in 0 .. MaxLogical /\ Succ(last.logical) \in 0 .. MaxLogical
      /\ last.logical <= Succ(last.logical)
  BY <1>1, SuccTyped, CrdtAssumption
<1>3. CASE now > last.wall
  <2>1. Tick(last, now) = [wall |-> now, logical |-> 0, node |-> last.node]
    BY <1>1, <1>3 DEF Tick
  <2> QED BY <1>1, <1>2, <1>3, <2>1 DEF Timestamp, Reached
<1>4. CASE ~(now > last.wall)
  <2>1. Tick(last, now) = [wall |-> last.wall, logical |-> Succ(last.logical), node |-> last.node]
    BY <1>1, <1>4 DEF Tick
  <2> QED BY <1>1, <1>2, <2>1 DEF Timestamp, Reached
<1> QED BY <1>3, <1>4

LEMMA ObserveReaches ==
    ASSUME NEW last \in Timestamp, NEW remote \in Timestamp, NEW now \in Nat
    PROVE  /\ Observe(last, remote, now) \in Timestamp
           /\ Observe(last, remote, now).node = last.node
           /\ Reached(Observe(last, remote, now), last)
           /\ Reached(Observe(last, remote, now), remote)
<1> DEFINE wall == Larger(now, Larger(last.wall, remote.wall))
           o == Observe(last, remote, now)
<1>1. /\ last.wall \in Nat /\ last.logical \in 0 .. MaxLogical /\ last.node \in Node
      /\ last = [wall |-> last.wall, logical |-> last.logical, node |-> last.node]
      /\ remote.wall \in Nat /\ remote.logical \in 0 .. MaxLogical
  BY DEF Timestamp
<1>2. /\ wall \in Nat /\ last.wall <= wall /\ remote.wall <= wall
      /\ wall # last.wall /\ wall # remote.wall => last.wall < wall /\ remote.wall < wall
  BY <1>1 DEF Larger
<1>3. /\ Larger(last.logical, remote.logical) \in 0 .. MaxLogical
      /\ last.logical <= Larger(last.logical, remote.logical)
      /\ remote.logical <= Larger(last.logical, remote.logical)
  BY <1>1, CrdtAssumption DEF Larger
<1>4. /\ 0 \in 0 .. MaxLogical
      /\ Succ(last.logical) \in 0 .. MaxLogical /\ last.logical <= Succ(last.logical)
      /\ Succ(remote.logical) \in 0 .. MaxLogical /\ remote.logical <= Succ(remote.logical)
  BY <1>1, SuccTyped, CrdtAssumption
<1> DEFINE both == Succ(Larger(last.logical, remote.logical))
<1>5. both \in 0 .. MaxLogical /\ last.logical <= both /\ remote.logical <= both
  <2>1. both \in 0 .. MaxLogical /\ Larger(last.logical, remote.logical) <= both
    BY <1>3, SuccTyped
  <2> QED BY <1>1, <1>3, <2>1, CrdtAssumption
<1>6. \A i \in 0 .. MaxLogical : o = [wall |-> wall, logical |-> i, node |-> last.node] =>
          o \in Timestamp /\ o.node = last.node /\ o.wall = wall /\ o.logical = i
  BY <1>1, <1>2 DEF Timestamp
<1> DEFINE logical ==
             CASE wall = last.wall /\ wall = remote.wall -> both
               [] wall = last.wall /\ wall # remote.wall -> Succ(last.logical)
               [] wall # last.wall /\ wall = remote.wall -> Succ(remote.logical)
               [] OTHER -> 0
<1>7. o = [last EXCEPT !.wall = wall, !.logical = logical]
  BY DEF Observe
<1> HIDE DEF wall, o, both
<1>8. logical \in 0 .. MaxLogical
  BY <1>4, <1>5
<1>9. /\ wall = last.wall => last.logical <= logical
      /\ wall = remote.wall => remote.logical <= logical
  BY <1>4, <1>5
<1> HIDE DEF logical
<1>10. o = [wall |-> wall, logical |-> logical, node |-> last.node]
  BY <1>1, <1>7
<1>11. o \in Timestamp /\ o.node = last.node /\ o.wall = wall /\ o.logical = logical
  BY <1>6, <1>8, <1>10
<1>12. Reached(o, last) /\ Reached(o, remote)
  BY <1>1, <1>2, <1>9, <1>11 DEF Reached
<1> QED BY <1>11, <1>12 DEF o

\* A set of natural numbers under a bound has a largest.
LEMMA LargestExists ==
    ASSUME NEW S, S \subseteq Nat, S # {}, NEW w \in Nat, \A n \in S : n <= w
    PROVE  \E n \in S : \A m \in S : m <= n
<1> DEFINE D == {w - n : n \in S}
<1>1. D \subseteq Nat /\ D # {}
  <2>1. \A n \in S : n \in Nat
    OBVIOUS
  <2>2. \A n \in S : w - n \in Nat
    BY <2>1
  <2> QED BY <2>2
<1>2. PICK d \in D : \A g \in D : ~(<<g, d>> \in OpToRel(<, Nat))
  BY <1>1, NatLessThanWellFounded, WFMin
<1>3. PICK n \in S : d = w - n
  OBVIOUS
<1>4. ASSUME NEW m \in S PROVE m <= n
  <2>1. w - m \in D /\ w - m \in Nat /\ d \in Nat
    BY <1>1
  <2>2. ~(w - m < d)
    BY <1>2, <2>1 DEF OpToRel
  <2> QED BY <1>3, <2>2
<1> QED BY <1>4

LEMMA StrictlyFewer ==
    ASSUME NEW A, NEW B, IsFiniteSet(B), A \subseteq B, NEW x \in B, x \notin A
    PROVE  Cardinality(A) < Cardinality(B)
<1>1. IsFiniteSet(A) /\ Cardinality(A) <= Cardinality(B) /\ (Cardinality(B) = Cardinality(A) => B = A)
  BY FS_Subset
<1>2. Cardinality(A) \in Nat /\ Cardinality(B) \in Nat
  BY <1>1, FS_CardinalityType
<1>3. Cardinality(A) # Cardinality(B)
  BY <1>1
<1> QED BY <1>1, <1>2, <1>3

\* Node ids are under a bound.
LEMMA NodesBounded == \E w \in Nat : \A n \in Node : n <= w
<1> DEFINE Above(n) == {m \in Node : m > n}
           C == {Cardinality(Above(n)) : n \in Node}
<1>1. IsFiniteSet(Node) /\ Node \subseteq Nat
  BY CrdtAssumption
<1>2. CASE Node = {}
  BY <1>2
<1>3. CASE Node # {}
  <2>1. \A n \in Node : IsFiniteSet(Above(n)) /\ Cardinality(Above(n)) \in Nat
    BY <1>1, FS_Subset, FS_CardinalityType
  <2>2. C \subseteq Nat /\ C # {}
    BY <1>3, <2>1
  <2>3. PICK k \in C : \A g \in C : ~(<<g, k>> \in OpToRel(<, Nat))
    BY <2>2, NatLessThanWellFounded, WFMin
  <2>4. PICK n \in Node : k = Cardinality(Above(n))
    OBVIOUS
  <2>5. ASSUME NEW m \in Node, m > n PROVE FALSE
    <3>1. Above(m) \subseteq Above(n) /\ m \in Above(n) /\ m \notin Above(m)
      <4>1. m \in Nat /\ n \in Nat /\ \A i \in Node : i \in Nat
        BY <1>1
      <4>2. \A i \in Node : i > m => i > n
        BY <2>5, <4>1
      <4>3. ~(m > m)
        BY <4>1
      <4> QED BY <2>5, <4>2, <4>3
    <3>2. Cardinality(Above(m)) < Cardinality(Above(n))
      BY <2>1, <3>1, StrictlyFewer
    <3>3. Cardinality(Above(m)) \in C /\ Cardinality(Above(m)) \in Nat /\ k \in Nat
      BY <2>1, <2>4
    <3> QED BY <2>3, <2>4, <3>2, <3>3 DEF OpToRel
  <2>6. n \in Nat /\ \A m \in Node : m <= n
    BY <1>1, <2>5
  <2> QED BY <2>6
<1> QED BY <1>2, <1>3

\* Among timestamps whose walls are under a bound there is a latest.
LEMMA LatestExists ==
    ASSUME NEW S \in SUBSET Timestamp, S # {}, NEW w \in Nat, \A t \in S : t.wall <= w
    PROVE  Latest(S) \in S /\ \A u \in S : ~Before(Latest(S), u)
<1>1. \A t \in S : t.wall \in Nat /\ t.logical \in Nat /\ t.logical <= MaxLogical /\ t.node \in Nat
  BY TimestampParts
<1> DEFINE W == {t.wall : t \in S}
<1>2. PICK wall \in W : \A v \in W : v <= wall
  <2>1. W \subseteq Nat /\ W # {} /\ \A v \in W : v <= w
    BY <1>1
  <2> HIDE DEF W
  <2> QED BY <2>1, LargestExists
<1> DEFINE T == {t \in S : t.wall = wall}
           L == {t.logical : t \in T}
<1>3. PICK logical \in L : \A l \in L : l <= logical
  <2>1. L \subseteq Nat /\ L # {} /\ (\A l \in L : l <= MaxLogical) /\ MaxLogical \in Nat
    BY <1>1, CrdtAssumption
  <2> HIDE DEF L
  <2> QED BY <2>1, LargestExists
<1> DEFINE U == {t \in T : t.logical = logical}
           N == {t.node : t \in U}
<1>4. PICK node \in N : \A n \in N : n <= node
  <2>1. PICK top \in Nat : \A n \in Node : n <= top
    BY NodesBounded
  <2>2. \A t \in S : t.node \in Node
    BY TimestampParts
  <2>3. N \subseteq Nat /\ N # {} /\ \A n \in N : n <= top
    BY <1>1, <2>1, <2>2
  <2> HIDE DEF N
  <2> QED BY <2>3, LargestExists
<1>5. PICK t \in S : t.wall = wall /\ t.logical = logical /\ t.node = node
  OBVIOUS
<1>6. ASSUME NEW u \in S PROVE ~Before(t, u)
  <2>1. u.wall <= wall /\ u.wall \in Nat /\ wall \in Nat
    BY <1>1, <1>2
  <2>2. u.wall = wall => u.logical <= logical
    BY <1>3
  <2>3. u.wall = wall /\ u.logical = logical => u.node <= node
    BY <1>4
  <2>4. u.logical \in Nat /\ u.node \in Nat /\ logical \in Nat /\ node \in Nat
    BY <1>1, <1>5
  <2> HIDE DEF W, T, L, U, N
  <2> QED BY <1>5, <2>1, <2>2, <2>3, <2>4 DEF Before
<1> QED BY <1>6 DEF Latest

-----------------------------------------------------------------------------
(* What the operations of a replica keep.                                  *)

LEMMA TimestampsReached ==
    ASSUME NEW s \in State, NEW c \in Timestamp, Ahead(c, s)
    PROVE  Timestamps(s) \subseteq Timestamp /\ \A t \in Timestamps(s) : Reached(c, t)
<1> SUFFICES ASSUME NEW e \in Id, NEW t \in TimestampsOf(s, e)
             PROVE  t \in Timestamp /\ Reached(c, t)
  BY DEF Timestamps
<1>1. CASE t \in s.adds[e]
  BY <1>1, StateParts DEF Ahead
<1>2. ASSUME NEW b \in s.tombs[e], t = b.tag \/ t = b.at
      PROVE  t \in Timestamp /\ Reached(c, t)
  BY <1>2, StateParts, TombParts DEF Ahead
<1>3. ASSUME NEW g \in Registers(s, e), t = g.at
      PROVE  t \in Timestamp /\ Reached(c, t)
  <2>1. PICK f \in Field : g = s.fields[e][f] /\ g # NoRegister
    BY DEF Registers
  <2>2. g \in Register
    BY <2>1, StateParts DEF Slot
  <2> QED BY <1>3, <2>1, <2>2, RegisterParts DEF Ahead
<1> QED BY <1>1, <1>2, <1>3 DEF TimestampsOf

LEMMA NewGood ==
    ASSUME NEW n \in Node
    PROVE  Good(NewReplica(n), n)
<1> DEFINE clock == [wall |-> 0, logical |-> 0, node |-> n]
           adds == [e \in Id |-> {}]
           fields == [e \in Id |-> [f \in Field |-> NoRegister]]
           s == [adds |-> adds, tombs |-> adds, fields |-> fields]
<1>1. clock \in Timestamp
  BY CrdtAssumption DEF Timestamp
<1>2. s \in State
  BY DEF State
<1>3. NewReplica(n) = [clock |-> clock, state |-> s]
  BY DEF NewReplica
<1>4. Mapped(s) /\ Ahead(clock, s)
  BY DEF Mapped, OnePerTag, Ahead
<1>5. clock.node = n
  OBVIOUS
<1> HIDE DEF clock, s
<1> QED BY <1>1, <1>2, <1>3, <1>4, <1>5 DEF Good, Replica

\* A part of a state that lost some tags and tombstones, or the fields.
Shrunk(s, t, e) ==
    /\ t \in State
    /\ t.adds[e] \subseteq s.adds[e]
    /\ t.tombs[e] \subseteq s.tombs[e]
    /\ \A f \in Field : t.fields[e][f] = s.fields[e][f] \/ t.fields[e][f] = NoRegister

LEMMA DropTombsShrinks ==
    ASSUME NEW s \in State, NEW e \in Id, NEW cutoff
    PROVE  Shrunk(s, DropTombs(s, e, cutoff), e)
<1> DEFINE stale == {t \in s.tombs[e] : t.at.wall < cutoff}
           tags == {t.tag : t \in stale}
           d == DropTombs(s, e, cutoff)
           adds == [s.adds EXCEPT ![e] = @ \ tags]
           tombs == [s.tombs EXCEPT ![e] = @ \ stale]
<1>1. d = [adds |-> adds, tombs |-> tombs, fields |-> s.fields]
  <2>1. d = [s EXCEPT !.tombs[e] = @ \ stale, !.adds[e] = @ \ tags]
    BY DEF DropTombs
  <2> HIDE DEF stale, tags, d
  <2> QED BY <2>1 DEF State
<1>2. adds \in [Id -> SUBSET Timestamp] /\ adds[e] \subseteq s.adds[e]
  BY DEF State
<1>3. tombs \in [Id -> SUBSET Tombstone] /\ tombs[e] \subseteq s.tombs[e]
  BY DEF State
<1> HIDE DEF adds, tombs, d
<1>4. d \in State
  BY <1>1, <1>2, <1>3 DEF State
<1> QED BY <1>1, <1>2, <1>3, <1>4 DEF Shrunk, d

LEMMA PruneAddsShrinks ==
    ASSUME NEW s \in State, NEW e \in Id, NEW cutoff
    PROVE  Shrunk(s, PruneAdds(s, e, cutoff), e)
<1> DEFINE d == PruneAdds(s, e, cutoff)
           adds == [s.adds EXCEPT ![e] =
                        {t \in @ : t = Latest(VisibleTags(s, e)) \/ t.wall >= cutoff}]
<1>1. CASE ~IsVisible(s, e)
  BY <1>1 DEF PruneAdds, Shrunk
<1>2. CASE IsVisible(s, e)
  <2>1. d = [adds |-> adds, tombs |-> s.tombs, fields |-> s.fields]
    BY <1>2 DEF PruneAdds, State
  <2>2. adds \in [Id -> SUBSET Timestamp] /\ adds[e] \subseteq s.adds[e]
    BY DEF State
  <2> HIDE DEF adds, d
  <2>3. d \in State
    BY <2>1, <2>2 DEF State
  <2> QED BY <2>1, <2>2, <2>3 DEF Shrunk, d
<1> QED BY <1>1, <1>2

LEMMA DropHiddenShrinks ==
    ASSUME NEW s \in State, NEW e \in Id, NEW cutoff
    PROVE  Shrunk(s, DropHidden(s, e, cutoff), e)
<1> DEFINE d == DropHidden(s, e, cutoff)
           none == [f \in Field |-> NoRegister]
           adds == [s.adds EXCEPT ![e] = {}]
           tombs == [s.tombs EXCEPT ![e] = {}]
           fields == [s.fields EXCEPT ![e] = none]
<1>1. CASE d = s
  BY <1>1 DEF Shrunk
<1>2. CASE d # s
  <2>1. d = [adds |-> adds, tombs |-> tombs, fields |-> fields]
    BY <1>2 DEF DropHidden, State
  <2>2. adds \in [Id -> SUBSET Timestamp] /\ adds[e] = {}
    BY DEF State
  <2>3. tombs \in [Id -> SUBSET Tombstone] /\ tombs[e] = {}
    BY DEF State
  <2>4. fields \in [Id -> [Field -> Register \cup {NoRegister}]] /\ fields[e] = none
    BY DEF State
  <2>5. \A f \in Field : none[f] = NoRegister
    OBVIOUS
  <2> HIDE DEF adds, tombs, fields, d, none
  <2>6. d \in State
    BY <2>1, <2>2, <2>3, <2>4 DEF State
  <2> QED BY <2>1, <2>2, <2>3, <2>4, <2>5, <2>6 DEF Shrunk, d
<1> QED BY <1>1, <1>2

LEMMA CompactEntryShrinks ==
    ASSUME NEW s \in State, NEW e \in Id, NEW cutoff
    PROVE  Shrunk(s, CompactEntry(s, e, cutoff), e)
<1> DEFINE a == DropTombs(s, e, cutoff)
           b == PruneAdds(a, e, cutoff)
           c == DropHidden(b, e, cutoff)
<1>1. Shrunk(s, a, e)
  BY DropTombsShrinks
<1>2. Shrunk(a, b, e)
  BY <1>1, PruneAddsShrinks DEF Shrunk
<1>3. Shrunk(b, c, e)
  BY <1>2, DropHiddenShrinks DEF Shrunk
<1>4. CompactEntry(s, e, cutoff) = c
  BY DEF CompactEntry
<1> HIDE DEF a, b, c
<1> QED BY <1>1, <1>2, <1>3, <1>4 DEF Shrunk

\* Compaction invents nothing.
LEMMA CompactShrinks ==
    ASSUME NEW s \in State, NEW now
    PROVE  \A e \in Id : Shrunk(s, Compact(s, now), e)
<1> DEFINE done == [e \in Id |-> CompactEntry(s, e, now - MaxAge)]
           c == Compact(s, now)
           adds == [e \in Id |-> done[e].adds[e]]
           tombs == [e \in Id |-> done[e].tombs[e]]
           fields == [e \in Id |-> done[e].fields[e]]
<1>1. \A e \in Id : Shrunk(s, done[e], e)
  BY CompactEntryShrinks
<1>2. c = [adds |-> adds, tombs |-> tombs, fields |-> fields]
  BY DEF Compact
<1> HIDE DEF done, c
<1>3. \A e \in Id : done[e] \in State
  BY <1>1 DEF Shrunk
<1>4. \A e \in Id : /\ done[e].adds[e] \in SUBSET Timestamp
                    /\ done[e].tombs[e] \in SUBSET Tombstone
                    /\ done[e].fields[e] \in [Field -> Register \cup {NoRegister}]
  BY <1>3, StateParts DEF Slot
<1>5. c \in State
  BY <1>2, <1>4 DEF State
<1> QED BY <1>1, <1>2, <1>5 DEF Shrunk, c

\* A clock that was ahead of a state is ahead of what compaction leaves.
LEMMA ShrunkKept ==
    ASSUME NEW s \in State, NEW t \in State, \A e \in Id : Shrunk(s, t, e), Mapped(s)
    PROVE  Mapped(t) /\ \A c \in Timestamp : Ahead(c, s) => Ahead(c, t)
<1>1. Mapped(t)
  BY DEF Shrunk, Mapped, OnePerTag
<1>2. ASSUME NEW c \in Timestamp, Ahead(c, s) PROVE Ahead(c, t)
  BY <1>2 DEF Shrunk, Ahead
<1> QED BY <1>1, <1>2

\* A register that is not before another: the field was not put back.
NotOlder(old, new) == old # NoRegister /\ new # NoRegister => ~Before(new.at, old.at)

LEMMA MergeNotOlder ==
    ASSUME NEW old \in Slot, NEW other \in Slot
    PROVE  /\ NotOlder(old, MergeRegister(old, other))
           /\ old # NoRegister => MergeRegister(old, other) # NoRegister
<1>1. CASE old \in Register /\ other \in Register
  <2>1. /\ old.at \in Timestamp /\ other.at \in Timestamp
        /\ old # NoRegister /\ other # NoRegister
    BY <1>1, RegisterParts
  <2>2. MergeRegister(old, other) = IF Less(old, other) THEN other ELSE old
    BY <1>1, MergeIsGreater
  <2>3. CASE Less(old, other)
    BY <2>1, <2>2, <2>3, BeforeAsymmetric, BeforeIrreflexive DEF NotOlder, Less
  <2>4. CASE ~Less(old, other)
    BY <2>1, <2>2, <2>4, BeforeIrreflexive DEF NotOlder
  <2> QED BY <2>3, <2>4
<1>2. CASE old \in Register /\ other = NoRegister
  BY <1>2, MergeSlot, RegisterParts, BeforeIrreflexive DEF NotOlder, Slot
<1>3. CASE old = NoRegister
  BY <1>3 DEF NotOlder
<1> QED BY <1>1, <1>2, <1>3 DEF Slot

LEMMA Replaced ==
    ASSUME NEW s \in State, NEW adds, NEW fields, NEW r, r = [s EXCEPT !.adds = adds, !.fields = fields]
    PROVE  r = [adds |-> adds, tombs |-> s.tombs, fields |-> fields]
BY DEF State

\* upsert_entry: the timestamp is the clock's, and no field goes back.
LEMMA UpsertGood ==
    ASSUME NEW n \in Node, NEW rep, Good(rep, n), NEW e \in Id, NEW now \in Nat,
           NEW fs \in SUBSET Field, NEW values \in [fs -> Value]
    PROVE  /\ Good(Upsert(rep, e, values, now), n)
           /\ \A i \in Id, f \in Field :
                  NotOlder(rep.state.fields[i][f], Upsert(rep, e, values, now).state.fields[i][f])
<1> DEFINE at == Tick(rep.clock, now)
           s == rep.state
           grown == IF IsVisible(s, e) THEN s.adds[e] ELSE s.adds[e] \cup {at}
           adds == [s.adds EXCEPT ![e] = grown]
           mine == [f \in Field |->
                       IF f \in DOMAIN values
                       THEN MergeRegister(s.fields[e][f], [value |-> values[f], at |-> at])
                       ELSE s.fields[e][f]]
           fields == [s.fields EXCEPT ![e] = mine]
           t == [adds |-> adds, tombs |-> s.tombs, fields |-> fields]
<1>1. /\ rep.clock \in Timestamp /\ s \in State /\ rep.clock.node = n
      /\ Mapped(s) /\ Ahead(rep.clock, s)
  BY DEF Good, Replica
<1>2. at \in Timestamp /\ at.node = n /\ Reached(at, rep.clock)
  BY <1>1, TickReaches
<1>3. Ahead(at, s)
  BY <1>1, <1>2, AheadLater
<1>4. Upsert(rep, e, values, now) = [clock |-> at, state |-> t]
  <2>1. Upsert(rep, e, values, now) =
          [clock |-> at, state |-> [s EXCEPT !.adds[e] = grown, !.fields[e] = mine]]
    BY DEF Upsert
  <2> HIDE DEF at, s, mine, grown
  <2>2. [s EXCEPT !.adds[e] = grown, !.fields[e] = mine] = [s EXCEPT !.adds = adds, !.fields = fields]
    OBVIOUS
  <2>3. [s EXCEPT !.adds = adds, !.fields = fields] = t
    <3> DEFINE r == [s EXCEPT !.adds = adds, !.fields = fields]
    <3>1. r = [s EXCEPT !.adds = adds, !.fields = fields]
      OBVIOUS
    <3> HIDE DEF r, adds, fields
    <3>2. r = t
      BY <1>1, <3>1, Replaced
    <3> QED BY <3>1, <3>2
  <2> QED BY <2>1, <2>2, <2>3
<1> HIDE DEF at, s
<1>5. adds \in [Id -> SUBSET Timestamp] /\ \A i \in Id : adds[i] \subseteq s.adds[i] \cup {at}
  BY <1>1, <1>2 DEF State
<1>6. ASSUME NEW f \in Field
      PROVE  /\ mine[f] \in Slot
             /\ mine[f] # NoRegister => Reached(at, mine[f].at)
             /\ NotOlder(s.fields[e][f], mine[f])
  <2>1. s.fields[e][f] \in Slot
    BY <1>1, StateParts
  <2>2. CASE f \in fs
    <3> DEFINE new == [value |-> values[f], at |-> at]
               old == s.fields[e][f]
    <3>1. new \in Register /\ new.at = at
      BY <1>2, <2>2 DEF Register
    <3>2. mine[f] = MergeRegister(old, new)
      BY <2>2
    <3>3. mine[f] = old \/ mine[f] = new
      BY <3>2 DEF MergeRegister
    <3>4. old # NoRegister => Reached(at, old.at)
      BY <1>3 DEF Ahead
    <3>5. Reached(at, at)
      BY <1>2, ReachedSelf
    <3>6. new \in Slot
      BY <3>1 DEF Slot
    <3>7. NotOlder(old, MergeRegister(old, new))
      BY <2>1, <3>6, MergeNotOlder
    <3> HIDE DEF new, old, mine
    <3>8. mine[f] \in Slot
      BY <2>1, <3>3, <3>6 DEF old
    <3> QED BY <3>1, <3>2, <3>3, <3>4, <3>5, <3>7, <3>8 DEF old
  <2>3. CASE f \notin fs
    <3>1. mine[f] = s.fields[e][f]
      BY <2>3
    <3> HIDE DEF mine
    <3>2. NotOlder(s.fields[e][f], s.fields[e][f])
      BY <2>1, RegisterParts, BeforeIrreflexive DEF NotOlder, Slot
    <3> QED BY <1>3, <2>1, <3>1, <3>2 DEF Ahead
  <2> QED BY <2>2, <2>3
<1>7. mine \in [Field -> Slot]
  <2>1. \A f \in Field : mine[f] \in Slot
    BY <1>6
  <2>2. mine = [f \in Field |-> mine[f]]
    OBVIOUS
  <2> HIDE DEF mine
  <2> QED BY <2>1, <2>2
<1> HIDE DEF mine
<1>8. fields \in [Id -> [Field -> Slot]]
  BY <1>1, <1>7 DEF State, Slot
<1>9. \A i \in Id, f \in Field : fields[i][f] = IF i = e THEN mine[f] ELSE s.fields[i][f]
  BY <1>1 DEF State
<1> HIDE DEF adds, fields
<1>10. t \in State
  BY <1>1, <1>5, <1>8 DEF State, Slot
<1>11. Mapped(t)
  BY <1>1 DEF Mapped
<1>12. Ahead(at, t)
  <2> SUFFICES ASSUME NEW i \in Id
               PROVE  /\ \A x \in adds[i] : Reached(at, x)
                      /\ \A b \in s.tombs[i] : Reached(at, b.tag) /\ Reached(at, b.at)
                      /\ \A f \in Field : fields[i][f] # NoRegister => Reached(at, fields[i][f].at)
    BY DEF Ahead
  <2>1. \A x \in adds[i] : Reached(at, x)
    BY <1>2, <1>3, <1>5, ReachedSelf DEF Ahead
  <2>2. \A b \in s.tombs[i] : Reached(at, b.tag) /\ Reached(at, b.at)
    BY <1>3 DEF Ahead
  <2>3. \A f \in Field : fields[i][f] # NoRegister => Reached(at, fields[i][f].at)
    BY <1>3, <1>6, <1>9 DEF Ahead
  <2> QED BY <2>1, <2>2, <2>3
<1>13. \A i \in Id, f \in Field : NotOlder(s.fields[i][f], fields[i][f])
  <2> SUFFICES ASSUME NEW i \in Id, NEW f \in Field
               PROVE  NotOlder(s.fields[i][f], fields[i][f])
    OBVIOUS
  <2>1. CASE i = e
    BY <1>6, <1>9, <2>1
  <2>2. CASE i # e
    <3>1. s.fields[i][f] \in Slot
      BY <1>1, StateParts
    <3> QED BY <1>9, <2>2, <3>1, RegisterParts, BeforeIrreflexive DEF NotOlder, Slot
  <2> QED BY <2>1, <2>2
<1>14. t.fields = fields
  OBVIOUS
<1> HIDE DEF t
<1> QED BY <1>2, <1>4, <1>10, <1>11, <1>12, <1>13, <1>14 DEF Good, Replica, s

\* remove_entry: tombstones only for tags that have none.
LEMMA RemoveGood ==
    ASSUME NEW n \in Node, NEW rep, Good(rep, n), NEW e \in Id, NEW now \in Nat
    PROVE  /\ Good(RemoveEntry(rep, e, now), n)
           /\ RemoveEntry(rep, e, now).state.fields = rep.state.fields
<1> DEFINE at == Tick(rep.clock, now)
           s == rep.state
           new == {[tag |-> t, at |-> at] : t \in VisibleTags(s, e)}
           tombs == [s.tombs EXCEPT ![e] = @ \cup new]
           r == [s EXCEPT !.tombs[e] = @ \cup new]
<1>1. /\ rep.clock \in Timestamp /\ s \in State /\ rep.clock.node = n
      /\ Mapped(s) /\ Ahead(rep.clock, s)
  BY DEF Good, Replica
<1>2. at \in Timestamp /\ at.node = n /\ Reached(at, rep.clock)
  BY <1>1, TickReaches
<1>3. Ahead(at, s)
  BY <1>1, <1>2, AheadLater
<1>4. CASE ~IsVisible(s, e)
  BY <1>4 DEF RemoveEntry
<1>5. CASE IsVisible(s, e)
  <2>1. RemoveEntry(rep, e, now) = [clock |-> at, state |-> r]
    BY <1>5 DEF RemoveEntry
  <2>2. /\ VisibleTags(s, e) \subseteq s.adds[e]
        /\ \A b \in s.tombs[e] : b.tag \notin VisibleTags(s, e)
    BY DEF VisibleTags
  <2> HIDE DEF at, s
  <2>3. s.adds[e] \in SUBSET Timestamp /\ s.tombs[e] \in SUBSET Tombstone
    BY <1>1, StateParts
  <2>4. new \in SUBSET Tombstone
    BY <1>2, <2>2, <2>3 DEF Tombstone
  <2>5. \A b \in new : b.tag \in VisibleTags(s, e) /\ b.at = at
    OBVIOUS
  <2>6. OnePerTag(new)
    BY DEF OnePerTag
  <2> HIDE DEF new
  <2>7. /\ r.adds = s.adds /\ r.fields = s.fields /\ r.tombs = tombs
        /\ r \in State
    BY <1>1, <2>4 DEF State
  <2>8. \A i \in Id : tombs[i] = IF i = e THEN s.tombs[e] \cup new ELSE s.tombs[i]
    BY <1>1 DEF State
  <2> HIDE DEF tombs, r
  <2>9. Mapped(r)
    <3> SUFFICES ASSUME NEW i \in Id PROVE OnePerTag(tombs[i])
      BY <2>7 DEF Mapped
    <3>1. OnePerTag(s.tombs[i])
      BY <1>1 DEF Mapped
    <3>2. CASE i = e
      BY <2>2, <2>5, <2>6, <2>8, <3>1, <3>2 DEF OnePerTag
    <3> QED BY <2>8, <3>1, <3>2
  <2>10. Ahead(at, r)
    <3> SUFFICES ASSUME NEW i \in Id
                 PROVE  /\ \A x \in s.adds[i] : Reached(at, x)
                        /\ \A b \in tombs[i] : Reached(at, b.tag) /\ Reached(at, b.at)
                        /\ \A f \in Field : s.fields[i][f] # NoRegister =>
                                                Reached(at, s.fields[i][f].at)
      BY <2>7 DEF Ahead
    <3>1. \A b \in tombs[i] : b \in s.tombs[i] \/ (i = e /\ b \in new)
      BY <2>8
    <3>2. \A b \in new : Reached(at, b.tag) /\ Reached(at, b.at)
      BY <1>2, <1>3, <2>2, <2>5, ReachedSelf DEF Ahead
    <3> QED BY <1>3, <3>1, <3>2 DEF Ahead
  <2>11. Good([clock |-> at, state |-> r], n)
    BY <1>2, <2>7, <2>9, <2>10 DEF Good, Replica
  <2> QED BY <2>1, <2>7, <2>11 DEF s
<1> QED BY <1>4, <1>5

\* merge_state_at: the clock reaches what came in, and no field goes back.
LEMMA MergeGood ==
    ASSUME NEW n \in Node, NEW rep, Good(rep, n), NEW now \in Nat,
           NEW other \in State, Mapped(other), NEW c \in Timestamp, Ahead(c, other)
    PROVE  /\ Good(MergeAt(rep, other, now), n)
           /\ \A i \in Id, f \in Field :
                  NotOlder(rep.state.fields[i][f], MergeAt(rep, other, now).state.fields[i][f])
<1> DEFINE s == rep.state
           m == MergeState(s, other)
           last == Latest(Timestamps(other))
           clock == IF Timestamps(other) = {} THEN rep.clock ELSE Observe(rep.clock, last, now)
<1>1. /\ rep.clock \in Timestamp /\ s \in State /\ rep.clock.node = n
      /\ Mapped(s) /\ Ahead(rep.clock, s)
  BY DEF Good, Replica
<1>2. MergeAt(rep, other, now) = [clock |-> clock, state |-> m]
  BY DEF MergeAt
<1>3. m \in State /\ Mapped(m)
  BY <1>1, MergeTyped, MergeMapped
<1>4. /\ \A e \in Id : m.adds[e] = s.adds[e] \cup other.adds[e]
      /\ \A e \in Id : m.tombs[e] = MergeTombs(s.tombs[e], other.tombs[e])
      /\ \A e \in Id, f \in Field :
             m.fields[e][f] = MergeRegister(s.fields[e][f], other.fields[e][f])
  BY <1>1, MergeTyped
<1>5. /\ clock \in Timestamp /\ clock.node = n /\ Reached(clock, rep.clock)
      /\ \A t \in Timestamps(other) : Reached(clock, t)
  <2>1. Timestamps(other) \subseteq Timestamp /\ \A t \in Timestamps(other) : Reached(c, t)
    BY TimestampsReached
  <2>2. CASE Timestamps(other) = {}
    BY <1>1, <2>2, ReachedSelf
  <2>3. CASE Timestamps(other) # {}
    <3>1. c.wall \in Nat /\ \A t \in Timestamps(other) : t.wall <= c.wall
      BY <2>1, TimestampParts DEF Reached
    <3>2. last \in Timestamps(other) /\ \A u \in Timestamps(other) : ~Before(last, u)
      BY <2>1, <2>3, <3>1, LatestExists
    <3>3. clock = Observe(rep.clock, last, now)
      BY <2>3
    <3> HIDE DEF clock, last
    <3>4. last \in Timestamp
      BY <2>1, <3>2
    <3>5. clock \in Timestamp /\ clock.node = n /\ Reached(clock, rep.clock) /\ Reached(clock, last)
      BY <1>1, <3>3, <3>4, ObserveReaches
    <3>6. ASSUME NEW u \in Timestamps(other) PROVE Reached(clock, u)
      <4>1. u \in Timestamp /\ ~Before(last, u)
        BY <2>1, <3>2
      <4>2. Reached(last, u)
        BY <3>4, <4>1, TimestampParts DEF Before, Reached
      <4> QED BY <3>4, <3>5, <4>1, <4>2, ReachedTransitive
    <3> QED BY <3>5, <3>6
  <2> QED BY <2>2, <2>3
<1>6. Ahead(clock, s)
  BY <1>1, <1>5, AheadLater
<1>7. ASSUME NEW e \in Id
      PROVE  /\ \A t \in other.adds[e] : Reached(clock, t)
             /\ \A b \in other.tombs[e] : Reached(clock, b.tag) /\ Reached(clock, b.at)
             /\ \A f \in Field : other.fields[e][f] # NoRegister =>
                                     Reached(clock, other.fields[e][f].at)
  <2>1. TimestampsOf(other, e) \subseteq Timestamps(other)
    BY DEF Timestamps
  <2>2. other.adds[e] \subseteq TimestampsOf(other, e)
    BY DEF TimestampsOf
  <2>3. \A b \in other.tombs[e] : b.tag \in TimestampsOf(other, e) /\ b.at \in TimestampsOf(other, e)
    BY DEF TimestampsOf
  <2>4. \A f \in Field : other.fields[e][f] # NoRegister =>
            other.fields[e][f].at \in TimestampsOf(other, e)
    BY DEF TimestampsOf, Registers
  <2> HIDE DEF clock
  <2> QED BY <1>5, <2>1, <2>2, <2>3, <2>4
<1> HIDE DEF m, clock, s
<1>8. Ahead(clock, m)
  <2> SUFFICES ASSUME NEW e \in Id
               PROVE  /\ \A t \in m.adds[e] : Reached(clock, t)
                      /\ \A b \in m.tombs[e] : Reached(clock, b.tag) /\ Reached(clock, b.at)
                      /\ \A f \in Field : m.fields[e][f] # NoRegister =>
                                              Reached(clock, m.fields[e][f].at)
    BY DEF Ahead
  <2>1. \A t \in m.adds[e] : t \in s.adds[e] \/ t \in other.adds[e]
    BY <1>4
  <2>2. \A b \in m.tombs[e] : b \in s.tombs[e] \/ b \in other.tombs[e]
    BY <1>4 DEF MergeTombs
  <2>3. \A f \in Field : m.fields[e][f] = s.fields[e][f] \/ m.fields[e][f] = other.fields[e][f]
    BY <1>4 DEF MergeRegister
  <2> QED BY <1>6, <1>7, <2>1, <2>2, <2>3 DEF Ahead
<1>9. ASSUME NEW i \in Id, NEW f \in Field
      PROVE  NotOlder(s.fields[i][f], m.fields[i][f])
  BY <1>1, <1>4, StateParts, MergeNotOlder
<1>10. Good([clock |-> clock, state |-> m], n)
  BY <1>3, <1>5, <1>8 DEF Good, Replica
<1> QED BY <1>2, <1>9, <1>10 DEF s

\* Compaction of a replica leaves its clock.
LEMMA CompactGood ==
    ASSUME NEW n \in Node, NEW rep, Good(rep, n), NEW now,
           NEW kept, kept = Compact(rep.state, now)
    PROVE  Good([clock |-> rep.clock, state |-> kept], n)
<1> DEFINE s == rep.state
<1>1. /\ rep.clock \in Timestamp /\ s \in State /\ rep.clock.node = n
      /\ Mapped(s) /\ Ahead(rep.clock, s)
  BY DEF Good, Replica
<1>2. \A e \in Id : Shrunk(s, kept, e)
  BY <1>1, CompactShrinks
<1>3. kept \in State
  <2>1. CASE Id = {}
    BY <2>1 DEF Compact, State
  <2>2. CASE Id # {}
    BY <1>2, <2>2 DEF Shrunk
  <2> QED BY <2>1, <2>2
<1> HIDE DEF s
<1>4. Mapped(kept) /\ Ahead(rep.clock, kept)
  BY <1>1, <1>2, <1>3, ShrunkKept
<1> QED BY <1>1, <1>3, <1>4 DEF Good, Replica

-----------------------------------------------------------------------------
(* The driver.                                                             *)

Mutation == [num : Nat, entry : Id]

\* An envelope with a state that some clock was ahead of.
Sendable ==
    {env \in Envelope : Mapped(env.state) /\ \E c \in Timestamp : Ahead(c, env.state)}
Request ==
    [envelope : Sendable, to : Node, step : {"sent", "fresh", "merged"}, awaited : BOOLEAN]
Sending == [envelope : Sendable \cup {NoEnvelope}, taken : BOOLEAN]

SyncTyped ==
    /\ replica \in [Node -> Replica]
    /\ \A n \in Node : Good(replica[n], n)
    /\ ready \in [Node -> SUBSET Sendable]
    /\ pending \in [Node -> Sendable \cup {NoEnvelope}]
    /\ worker \in [Node -> Sending]
    /\ net \in SUBSET Request
    /\ seen \in [Node -> SUBSET Nat]
    /\ known \in [Node -> SUBSET Mutation]
    /\ count \in [mutations : Nat, faults : Nat]
    /\ owed \in [Node -> Nat]

\* No field of a node goes back in this step, unless the node forgets.
NoneOlder ==
    \A n \in Node : known[n] \subseteq known'[n] =>
        \A e \in Id, f \in Field :
            NotOlder(replica[n].state.fields[e][f], replica'[n].state.fields[e][f])

-----------------------------------------------------------------------------

LEMMA SendableParts ==
    ASSUME NEW env \in Sendable
    PROVE  /\ env.num \in Nat /\ env.from \in Node /\ env.state \in State
           /\ env.known \in SUBSET Mutation /\ env # NoEnvelope
BY SyncAssumption DEF Sendable, Envelope, Mutation

LEMMA NoSendingTyped == NoSending \in Sending
BY DEF NoSending, Sending

\* A replica that does not change does not go back.
LEMMA SameNotOlder ==
    ASSUME NEW s \in State
    PROVE  \A e \in Id, f \in Field : NotOlder(s.fields[e][f], s.fields[e][f])
BY StateParts, RegisterParts, BeforeIrreflexive DEF NotOlder, Slot

LEMMA UnchangedNotOlder ==
    ASSUME SyncTyped, UNCHANGED replica
    PROVE  NoneOlder
<1>1. \A n \in Node : replica[n].state \in State
  BY DEF SyncTyped, Replica
<1> QED BY <1>1, SameNotOlder DEF NoneOlder

\* What a node may do to its own replica.
LEMMA ReplicaStep ==
    ASSUME SyncTyped, NEW n \in Node, NEW rep, Good(rep, n),
           replica' = [replica EXCEPT ![n] = rep],
           \A e \in Id, f \in Field : NotOlder(replica[n].state.fields[e][f], rep.state.fields[e][f])
    PROVE  /\ replica' \in [Node -> Replica]
           /\ \A m \in Node : Good(replica'[m], m)
           /\ NoneOlder
<1>1. replica \in [Node -> Replica] /\ \A m \in Node : Good(replica[m], m)
  BY DEF SyncTyped
<1>2. rep \in Replica
  BY DEF Good
<1>3. replica'[n] = rep /\ \A m \in Node \ {n} : replica'[m] = replica[m]
  BY <1>1
<1>4. \A m \in Node : replica[m].state \in State
  BY <1>1 DEF Replica
<1>5. NoneOlder
  <2> SUFFICES ASSUME NEW m \in Node
               PROVE  \A e \in Id, f \in Field :
                          NotOlder(replica[m].state.fields[e][f], replica'[m].state.fields[e][f])
    BY DEF NoneOlder
  <2>1. CASE m = n
    BY <1>3, <2>1
  <2>2. CASE m # n
    BY <1>3, <1>4, <2>2, SameNotOlder
  <2> QED BY <2>1, <2>2
<1>6. replica' \in [Node -> Replica] /\ \A m \in Node : Good(replica'[m], m)
  BY <1>1, <1>2, <1>3
<1> QED BY <1>5, <1>6

\* A field that was not put back, and then kept or dropped, was not put back.
LEMMA KeptNotOlder ==
    ASSUME NEW old, NEW mid, NEW new, NotOlder(old, mid), new = mid \/ new = NoRegister
    PROVE  NotOlder(old, new)
BY DEF NotOlder

\* apply_local_mutation.
LEMMA ApplyTyped ==
    ASSUME SyncTyped, NEW n \in Node, NEW e \in Id, NEW now \in Nat, NEW after, Good(after, n),
           NEW removes, Apply(n, e, after, now, removes),
           \A i \in Id, f \in Field :
               NotOlder(replica[n].state.fields[i][f], after.state.fields[i][f])
    PROVE  SyncTyped' /\ NoneOlder
<1> DEFINE num == count.mutations + 1
           kept == Compact(after.state, now)
           facts == known[n] \cup {[num |-> num, entry |-> e]}
           env == [num |-> num, from |-> n, state |-> kept, known |-> facts]
           rep == [after EXCEPT !.state = kept]
<1>1. /\ count' = [count EXCEPT !.mutations = num]
      /\ UNCHANGED <<pending, worker, net, seen, owed>>
  BY DEF Apply
<1>2. num \in Nat /\ count' \in [mutations : Nat, faults : Nat]
  BY <1>1 DEF SyncTyped
<1>3. CASE after.state = replica[n].state
  <2>1. replica' = [replica EXCEPT ![n] = after] /\ UNCHANGED <<ready, known>>
    BY <1>3 DEF Apply
  <2>2. /\ replica' \in [Node -> Replica]
        /\ \A m \in Node : Good(replica'[m], m)
        /\ NoneOlder
    BY <2>1, ReplicaStep
  <2> QED BY <1>1, <1>2, <2>1, <2>2 DEF SyncTyped
<1>4. CASE after.state # replica[n].state
  <2>1. /\ replica' = [replica EXCEPT ![n] = rep]
        /\ known' = [known EXCEPT ![n] = facts]
        /\ ready' = [ready EXCEPT ![n] = @ \cup {env}]
    BY <1>4 DEF Apply
  <2>2. kept = Compact(after.state, now) /\ rep = [clock |-> after.clock, state |-> kept]
    BY DEF Good, Replica
  <2>3. facts \in SUBSET Mutation
    BY <1>2 DEF SyncTyped, Mutation
  <2> HIDE DEF num, kept, facts, rep
  <2>4. /\ Good(rep, n) /\ rep.state = kept
        /\ \A i \in Id, f \in Field :
               \/ kept.fields[i][f] = after.state.fields[i][f]
               \/ kept.fields[i][f] = NoRegister
    <3>1. Good([clock |-> after.clock, state |-> kept], n)
      BY <2>2, CompactGood
    <3>2. \A i \in Id, f \in Field :
               \/ kept.fields[i][f] = after.state.fields[i][f]
               \/ kept.fields[i][f] = NoRegister
      <4>1. after.state \in State
        BY DEF Good, Replica
      <4>2. \A i \in Id : Shrunk(after.state, kept, i)
        BY <2>2, <4>1, CompactShrinks
      <4> QED BY <4>2 DEF Shrunk
    <3> QED BY <2>2, <3>1, <3>2
  <2>5. \A i \in Id, f \in Field :
            NotOlder(replica[n].state.fields[i][f], rep.state.fields[i][f])
    BY <2>4, KeptNotOlder
  <2>6. /\ replica' \in [Node -> Replica]
        /\ \A m \in Node : Good(replica'[m], m)
        /\ NoneOlder
    BY <2>1, <2>4, <2>5, ReplicaStep
  <2>7. kept \in State /\ Mapped(kept) /\ \E c \in Timestamp : Ahead(c, kept)
    BY <2>4 DEF Good, Replica
  <2>8. env \in Sendable
    BY <1>2, <2>3, <2>7 DEF Sendable, Envelope, Mutation
  <2> HIDE DEF env
  <2>9. ready' \in [Node -> SUBSET Sendable] /\ known' \in [Node -> SUBSET Mutation]
    BY <2>1, <2>3, <2>8 DEF SyncTyped
  <2> QED BY <1>1, <1>2, <2>6, <2>9 DEF SyncTyped
<1> QED BY <1>3, <1>4

\* A request that moves on, is answered or is given up.
LEMMA AnswerTyped ==
    ASSUME SyncTyped, NEW q \in net, NEW success \in BOOLEAN, Answer(q, success)
    PROVE  net' \in SUBSET Request /\ worker' \in [Node -> Sending]
<1>1. net \in SUBSET Request /\ worker \in [Node -> Sending]
  BY DEF SyncTyped
<1>2. \A w \in Sending : [w EXCEPT !.taken = TRUE] \in Sending
  BY DEF Sending
<1>3. worker' \in [Node -> Sending]
  BY <1>1, <1>2, NoSendingTyped DEF Answer
<1> QED BY <1>1, <1>3 DEF Answer

LEMMA RequestParts ==
    ASSUME SyncTyped, NEW q \in net
    PROVE  /\ q \in Request /\ q.envelope \in Sendable /\ q.to \in Node
           /\ q.step \in {"sent", "fresh", "merged"} /\ q.awaited \in BOOLEAN
           /\ Orphan(q) \in Request
           /\ \A step \in {"sent", "fresh", "merged"} : [q EXCEPT !.step = step] \in Request
BY DEF SyncTyped, Request, Orphan

LEMMA AdvanceTyped ==
    ASSUME SyncTyped, NEW q \in net, NEW step \in {"sent", "fresh", "merged"}, Advance(q, step)
    PROVE  net' \in SUBSET Request
<1>1. net \in SUBSET Request /\ [q EXCEPT !.step = step] \in Request
  BY RequestParts DEF SyncTyped
<1> QED BY <1>1 DEF Advance

\* receive_envelope.
LEMMA ReceiveTyped ==
    ASSUME SyncTyped, NEW q \in net, NEW now \in Nat, Receive(q, now)
    PROVE  SyncTyped' /\ NoneOlder
<1> DEFINE n == q.to
           other == q.envelope.state
           after == MergeAt(replica[n], other, now)
           kept == Compact(after.state, now)
           rep == [after EXCEPT !.state = kept]
<1>1. n \in Node /\ q.envelope \in Sendable
  BY RequestParts
<1>2. other \in State /\ Mapped(other) /\ q.envelope.known \in SUBSET Mutation
      /\ q.envelope.from \in Node
  BY <1>1, SendableParts DEF Sendable
<1>3. PICK c \in Timestamp : Ahead(c, other)
  BY <1>1 DEF Sendable
<1>4. Good(replica[n], n)
  BY <1>1 DEF SyncTyped
<1>5. /\ Good(after, n)
      /\ \A i \in Id, f \in Field :
             NotOlder(replica[n].state.fields[i][f], after.state.fields[i][f])
  BY <1>1, <1>2, <1>3, <1>4, MergeGood
<1>6. /\ replica' = [replica EXCEPT ![n] = rep]
      /\ known' = [known EXCEPT ![n] = @ \cup q.envelope.known]
      /\ owed' = [owed EXCEPT ![q.envelope.from] = IF @ = q.envelope.num THEN 0 ELSE @]
      /\ Advance(q, "merged")
      /\ UNCHANGED <<ready, pending, worker, seen, count>>
  BY DEF Receive
<1>7. kept = Compact(after.state, now) /\ rep = [clock |-> after.clock, state |-> kept]
  <2> HIDE DEF after
  <2> QED BY <1>5 DEF Good, Replica
<1> HIDE DEF n, other, after, kept, rep
<1>8. /\ Good(rep, n) /\ rep.state = kept
      /\ \A i \in Id, f \in Field :
             \/ kept.fields[i][f] = after.state.fields[i][f]
             \/ kept.fields[i][f] = NoRegister
  <2>1. Good([clock |-> after.clock, state |-> kept], n)
    BY <1>1, <1>5, <1>7, CompactGood
  <2>2. \A i \in Id, f \in Field :
             \/ kept.fields[i][f] = after.state.fields[i][f]
             \/ kept.fields[i][f] = NoRegister
    <3>1. after.state \in State
      BY <1>5 DEF Good, Replica
    <3>2. \A i \in Id : Shrunk(after.state, kept, i)
      BY <1>7, <3>1, CompactShrinks
    <3> QED BY <3>2 DEF Shrunk
  <2> QED BY <1>7, <2>1, <2>2
<1>9. \A i \in Id, f \in Field : NotOlder(replica[n].state.fields[i][f], rep.state.fields[i][f])
  BY <1>5, <1>8, KeptNotOlder
<1>10. /\ replica' \in [Node -> Replica]
       /\ \A m \in Node : Good(replica'[m], m)
       /\ NoneOlder
  BY <1>1, <1>6, <1>8, <1>9, ReplicaStep
<1>11. known' \in [Node -> SUBSET Mutation]
  BY <1>1, <1>2, <1>6 DEF SyncTyped
<1>12. owed' \in [Node -> Nat]
  BY <1>2, <1>6 DEF SyncTyped
<1>13. net' \in SUBSET Request
  BY <1>6, AdvanceTyped
<1> QED BY <1>6, <1>10, <1>11, <1>12, <1>13 DEF SyncTyped

LEMMA RestartTyped ==
    ASSUME SyncTyped, NEW n \in Node, Restart(n)
    PROVE  SyncTyped' /\ NoneOlder
<1> DEFINE rep == NewReplica(n)
<1>1. Good(rep, n)
  BY NewGood
<1>2. replica' = [replica EXCEPT ![n] = rep]
  BY DEF Restart
<1>3. \A i \in Id, f \in Field : rep.state.fields[i][f] = NoRegister
  BY DEF NewReplica
<1> HIDE DEF rep
<1>4. \A i \in Id, f \in Field : NotOlder(replica[n].state.fields[i][f], rep.state.fields[i][f])
  BY <1>3 DEF NotOlder
<1>5. /\ replica' \in [Node -> Replica]
      /\ \A m \in Node : Good(replica'[m], m)
      /\ NoneOlder
  BY <1>1, <1>2, <1>4, ReplicaStep
<1>6. net' \in SUBSET Request
  BY RequestParts DEF Restart
<1>7. worker' \in [Node -> Sending]
  BY NoSendingTyped DEF Restart, SyncTyped
<1>8. /\ ready' \in [Node -> SUBSET Sendable]
      /\ pending' \in [Node -> Sendable \cup {NoEnvelope}]
      /\ seen' \in [Node -> SUBSET Nat]
      /\ known' \in [Node -> SUBSET Mutation]
      /\ owed' \in [Node -> Nat]
  BY DEF Restart, SyncTyped
<1>9. count' \in [mutations : Nat, faults : Nat]
  BY DEF Restart, Fault, SyncTyped
<1> QED BY <1>5, <1>6, <1>7, <1>8, <1>9 DEF SyncTyped

LEMMA InitTyped == Init => SyncTyped
<1> SUFFICES ASSUME Init PROVE SyncTyped
  OBVIOUS
<1>1. \A n \in Node : Good(NewReplica(n), n)
  BY NewGood
<1>2. \A n \in Node : replica[n] = NewReplica(n) /\ NewReplica(n) \in Replica
  BY <1>1 DEF Init, Good
<1>3. replica \in [Node -> Replica] /\ \A n \in Node : Good(replica[n], n)
  BY <1>1, <1>2 DEF Init
<1> QED BY <1>3, NoSendingTyped DEF Init, SyncTyped

LEMMA StepTyped == SyncTyped /\ [Next]_vars => SyncTyped' /\ NoneOlder
<1> SUFFICES ASSUME SyncTyped, [Next]_vars PROVE SyncTyped' /\ NoneOlder
  OBVIOUS
<1>0. \A now \in Time : now \in Nat
  BY SyncAssumption
<1>1. ASSUME NEW n \in Node, NEW e \in Id, NEW now \in Time, NEW fs \in SUBSET Field,
             UpsertEntry(n, e, fs, now)
      PROVE  SyncTyped' /\ NoneOlder
  <2> DEFINE values == [f \in fs |-> count.mutations + 1]
             after == Upsert(replica[n], e, values, now)
  <2>1. Apply(n, e, after, now, FALSE)
    BY <1>1 DEF UpsertEntry
  <2>2. count.mutations + 1 \in Value
    <3>1. count.mutations < MaxMutations
      BY <2>1 DEF Apply
    <3>2. count.mutations + 1 \in 1 .. MaxMutations
      BY <3>1, SyncAssumption DEF SyncTyped
    <3> QED BY <3>2, SyncAssumption
  <2>3. values \in [fs -> Value]
    BY <2>2
  <2>4. Good(replica[n], n)
    BY DEF SyncTyped
  <2> HIDE DEF values
  <2>5. /\ Good(after, n)
        /\ \A i \in Id, f \in Field :
               NotOlder(replica[n].state.fields[i][f], after.state.fields[i][f])
    BY <1>0, <2>3, <2>4, UpsertGood
  <2> HIDE DEF after
  <2> QED BY <1>0, <2>1, <2>5, ApplyTyped
<1>2. ASSUME NEW n \in Node, NEW e \in Id, NEW now \in Time, Remove(n, e, now)
      PROVE  SyncTyped' /\ NoneOlder
  <2> DEFINE after == RemoveEntry(replica[n], e, now)
  <2>1. Apply(n, e, after, now, TRUE)
    BY <1>2 DEF Remove
  <2>2. Good(replica[n], n) /\ replica[n].state \in State
    BY DEF SyncTyped, Replica
  <2>3. Good(after, n) /\ after.state.fields = replica[n].state.fields
    BY <1>0, <2>2, RemoveGood
  <2> HIDE DEF after
  <2>4. \A i \in Id, f \in Field :
            NotOlder(replica[n].state.fields[i][f], after.state.fields[i][f])
    BY <2>2, <2>3, SameNotOlder
  <2> QED BY <1>0, <2>1, <2>3, <2>4, ApplyTyped
<1>3. ASSUME NEW n \in Node, NEW env \in ready[n], StorePending(n, env)
      PROVE  SyncTyped' /\ NoneOlder
  <2>1. env \in Sendable /\ env.num \in Nat
    BY SendableParts DEF SyncTyped
  <2> QED BY <1>3, <2>1, UnchangedNotOlder DEF StorePending, SyncTyped
<1>4. ASSUME NEW n \in Node, NEW peer \in Peers(n), Send(n, peer)
      PROVE  SyncTyped' /\ NoneOlder
  <2>1. pending[n] \in Sendable /\ peer \in Node
    BY <1>4 DEF Send, SyncTyped, Peers
  <2>2. worker' \in [Node -> Sending]
    BY <1>4, <2>1 DEF Send, SyncTyped, Sending
  <2>3. [envelope |-> pending[n], to |-> peer, step |-> "sent", awaited |-> TRUE] \in Request
    BY <2>1 DEF Request
  <2>4. net' \in SUBSET Request
    BY <1>4, <2>3 DEF Send, SyncTyped
  <2> QED BY <1>4, <2>2, <2>4, UnchangedNotOlder DEF Send, SyncTyped
<1>5. ASSUME NEW n \in Node, ClearPending(n)
      PROVE  SyncTyped' /\ NoneOlder
  BY <1>5, NoSendingTyped, UnchangedNotOlder DEF ClearPending, SyncTyped
<1>6. ASSUME NEW q \in net, Timeout(q)
      PROVE  SyncTyped' /\ NoneOlder
  <2>1. net' \in SUBSET Request
    BY <1>6, RequestParts DEF Timeout, SyncTyped
  <2>2. worker' \in [Node -> Sending]
    BY <1>6, NoSendingTyped DEF Timeout, SyncTyped
  <2>3. count' \in [mutations : Nat, faults : Nat]
    BY <1>6 DEF Timeout, Fault, SyncTyped
  <2> QED BY <1>6, <2>1, <2>2, <2>3, UnchangedNotOlder DEF Timeout, SyncTyped
<1>7. ASSUME NEW q \in net, Refuse(q)
      PROVE  SyncTyped' /\ NoneOlder
  <2>1. net' \in SUBSET Request /\ worker' \in [Node -> Sending]
    BY <1>7, AnswerTyped DEF Refuse
  <2> QED BY <1>7, <2>1, UnchangedNotOlder DEF Refuse, SyncTyped
<1>8. ASSUME NEW q \in net, CheckSeen(q)
      PROVE  SyncTyped' /\ NoneOlder
  <2>1. Answer(q, TRUE) \/ (Advance(q, "fresh") /\ UNCHANGED worker)
    BY <1>8 DEF CheckSeen
  <2>2. net' \in SUBSET Request /\ worker' \in [Node -> Sending]
    BY <2>1, AnswerTyped, AdvanceTyped DEF SyncTyped
  <2> QED BY <1>8, <2>2, UnchangedNotOlder DEF CheckSeen, SyncTyped
<1>9. ASSUME NEW q \in net, Record(q)
      PROVE  SyncTyped' /\ NoneOlder
  <2> DEFINE room == q.envelope.num \in seen[q.to] \/ Cardinality(seen[q.to]) < MaxSeen
  <2>1. Answer(q, room) /\ room \in BOOLEAN
    BY <1>9 DEF Record
  <2>2. net' \in SUBSET Request /\ worker' \in [Node -> Sending]
    BY <2>1, AnswerTyped
  <2>3. seen' \in [Node -> SUBSET Nat]
    <3>1. q.envelope.num \in Nat /\ seen \in [Node -> SUBSET Nat]
      BY RequestParts, SendableParts DEF SyncTyped
    <3> QED BY <1>9, <3>1 DEF Record
  <2> QED BY <1>9, <2>2, <2>3, UnchangedNotOlder DEF Record, SyncTyped
<1>10. ASSUME NEW n \in Node, NEW num \in seen[n], ExpireSeen(n, num)
       PROVE  SyncTyped' /\ NoneOlder
  <2>1. count' \in [mutations : Nat, faults : Nat] /\ seen' \in [Node -> SUBSET Nat]
    BY <1>10 DEF ExpireSeen, Fault, SyncTyped
  <2> QED BY <1>10, <2>1, UnchangedNotOlder DEF ExpireSeen, SyncTyped
<1>11. ASSUME UNCHANGED vars
       PROVE  SyncTyped' /\ NoneOlder
  BY <1>11, UnchangedNotOlder DEF vars, SyncTyped
<1>12. ASSUME NEW n \in Node, Mutate(n) \/ Store(n) \/ Post(n) \/ ClearPending(n) \/ Restart(n)
       PROVE  SyncTyped' /\ NoneOlder
  <2>1. CASE Mutate(n)
    BY <1>1, <1>2, <2>1 DEF Mutate
  <2>2. CASE Store(n)
    BY <1>3, <2>2 DEF Store
  <2>3. CASE Post(n)
    BY <1>4, <2>3 DEF Post
  <2> QED BY <1>5, <1>12, <2>1, <2>2, <2>3, RestartTyped
<1>13. ASSUME NEW q \in net, Timeout(q) \/ Refuse(q) \/ CheckSeen(q) \/ Record(q)
       PROVE  SyncTyped' /\ NoneOlder
  BY <1>6, <1>7, <1>8, <1>9, <1>13
<1>14. ASSUME NEW q \in net, NEW now \in Time, Receive(q, now)
       PROVE  SyncTyped' /\ NoneOlder
  BY <1>0, <1>14, ReceiveTyped
<1> QED BY <1>10, <1>11, <1>12, <1>13, <1>14 DEF Next

\* The clocks, states and envelopes of every reachable state.
THEOREM DataInvariant == Spec => []SyncTyped
<1>1. SyncTyped /\ [Next]_vars => SyncTyped'
  BY StepTyped
<1> QED BY <1>1, InitTyped, PTL DEF Spec

\* Every replica, envelope and request keeps its type.
THEOREM TypeCorrect == Spec => []TypeOK
<1>1. SyncTyped => TypeOK
  BY DEF SyncTyped, TypeOK, Replica, Sendable, Sending, Request
<1> QED BY <1>1, DataInvariant, PTL

\* The hybrid clock is ahead of everything a replica has written or merged,
\* also when the wall clock goes back or a peer's is far in the future.
THEOREM ClockAlwaysAhead == Spec => []ClockAhead
<1>1. SyncTyped => ClockAhead
  <2> SUFFICES ASSUME SyncTyped, NEW n \in Node, NEW t \in Timestamps(replica[n].state)
               PROVE  ~Before(replica[n].clock, [t EXCEPT !.node = n])
    BY DEF ClockAhead
  <2>1. /\ replica[n].clock \in Timestamp /\ replica[n].state \in State
        /\ replica[n].clock.node = n /\ Ahead(replica[n].clock, replica[n].state)
    BY DEF SyncTyped, Good, Replica
  <2>2. t \in Timestamp /\ Reached(replica[n].clock, t)
    BY <2>1, TimestampsReached
  <2> DEFINE u == [t EXCEPT !.node = n]
  <2>3. u.wall = t.wall /\ u.logical = t.logical /\ u.node = n
    BY <2>2 DEF Timestamp
  <2> HIDE DEF u
  <2>4. ~Before(replica[n].clock, u)
    BY <2>1, <2>2, <2>3, TimestampParts DEF Reached, Before
  <2> QED BY <2>4 DEF u
<1> QED BY <1>1, DataInvariant, PTL

\* Late, repeated and reordered envelopes never put an older value back.
THEOREM FieldsNeverOlder == Spec => NeverOlder
<1>1. NoneOlder => [\A n \in Node, e \in Id, f \in Field :
          LET old == replica[n].state.fields[e][f]
              new == replica'[n].state.fields[e][f]
          IN  known[n] \subseteq known'[n] /\ old # NoRegister /\ new # NoRegister =>
                  ~Before(new.at, old.at)]_vars
  BY DEF NoneOlder, NotOlder
<1> QED BY <1>1, StepTyped, DataInvariant, PTL DEF Spec, NeverOlder

-----------------------------------------------------------------------------
(* The bookkeeping of envelopes.                                           *)

Sent(env) ==
    \/ \E n \in Node : env = pending[n] \/ env = worker[n].envelope
    \/ \E q \in net : env = q.envelope
Made(env) == Sent(env) \/ \E n \in Node : env \in ready[n]

\* An envelope has a number of its own, and is ready before it is sent.
Catalogue ==
    /\ \A a \in Sendable : Made(a) => a.num > 0 /\ a.num <= count.mutations
    /\ \A a, b \in Sendable : Made(a) /\ Made(b) /\ a.num = b.num => a = b
    /\ \A n \in Node : \A a \in ready[n] : a.from = n /\ ~Sent(a)
    /\ \A n, m \in Node : \A a \in ready[n] : a.num \notin seen[m]
    /\ \A n \in Node : \A i \in seen[n] : i <= count.mutations

\* A worker waits for the answer to one request, about what it is sending.
Waiting ==
    /\ \A n \in Node : pending[n] # NoEnvelope => pending[n].from = n
    /\ \A n \in Node : worker[n].taken => worker[n].envelope # NoEnvelope
    /\ \A q, r \in net : q.awaited /\ r.awaited /\ q.envelope.from = r.envelope.from => q = r
    /\ \A q \in net : q.awaited => /\ worker[q.envelope.from].envelope = q.envelope
                                  /\ ~worker[q.envelope.from].taken

\* What a node owes is pending and nobody has merged it.
Owes(m) ==
    /\ pending[m] # NoEnvelope /\ pending[m].num = owed[m]
    /\ \A n \in Node : owed[m] \notin seen[n]
    /\ \A n \in Node : worker[n].taken => worker[n].envelope.num # owed[m]
    /\ \A q \in net : q.step = "merged" => q.envelope.num # owed[m]

Debts == \A m \in Node : owed[m] # 0 => Owes(m)

Numbered == Catalogue /\ Waiting /\ Debts

LEMMA SyncParts ==
    ASSUME SyncTyped
    PROVE  /\ \A n \in Node : /\ pending[n] # NoEnvelope => pending[n] \in Sendable
                              /\ worker[n] \in Sending
                              /\ worker[n].envelope # NoEnvelope => worker[n].envelope \in Sendable
                              /\ ready[n] \subseteq Sendable
           /\ \A q \in net : q.envelope \in Sendable /\ q.envelope.from \in Node /\ q.to \in Node
           /\ \A a \in Sendable : a # NoEnvelope /\ a.num \in Nat
           /\ count.mutations \in Nat
<1>1. \A a \in Sendable : a # NoEnvelope /\ a.num \in Nat /\ a.from \in Node
  BY SendableParts
<1>2. \A q \in net : q.envelope \in Sendable /\ q.to \in Node
  BY RequestParts
<1> QED BY <1>1, <1>2 DEF SyncTyped, Sending

\* A step that makes and stores no envelope.
LEMMA CatalogueKept ==
    ASSUME SyncTyped, Catalogue, count.mutations <= count'.mutations, count'.mutations \in Nat,
           \A a \in Sendable : Sent(a)' => Sent(a),
           \A n \in Node : ready'[n] \subseteq ready[n],
           \A n \in Node : \A i \in seen'[n] :
               i \in seen[n] \/ \E a \in Sendable : Sent(a) /\ a.num = i
    PROVE  Catalogue'
<1>1. \A n \in Node : ready[n] \subseteq Sendable
  BY SyncParts
<1>2. \A a \in Sendable : Made(a)' => Made(a)
  BY DEF Made
<1>3. \A a \in Sendable : a.num \in Nat
  BY SyncParts
<1>4. \A a \in Sendable : Made(a)' => a.num > 0 /\ a.num <= count'.mutations
  BY <1>2, <1>3, SyncParts DEF Catalogue
<1>5. \A a, b \in Sendable : Made(a)' /\ Made(b)' /\ a.num = b.num => a = b
  BY <1>2 DEF Catalogue
<1>6. \A n \in Node : \A a \in ready'[n] : a.from = n /\ ~Sent(a)'
  BY <1>1 DEF Catalogue
<1>7. \A n, m \in Node : \A a \in ready'[n] : a.num \notin seen'[m]
  <2> SUFFICES ASSUME NEW n \in Node, NEW m \in Node, NEW a \in ready'[n], a.num \in seen'[m]
               PROVE  FALSE
    OBVIOUS
  <2>1. a \in ready[n] /\ a \in Sendable /\ Made(a) /\ ~Sent(a) /\ a.num \notin seen[m]
    BY <1>1 DEF Catalogue, Made
  <2>2. PICK b \in Sendable : Sent(b) /\ b.num = a.num
    BY <2>1
  <2> QED BY <2>1, <2>2 DEF Catalogue, Made
<1>8. \A n \in Node : \A i \in seen'[n] : i <= count'.mutations
  <2> SUFFICES ASSUME NEW n \in Node, NEW i \in seen'[n] PROVE i <= count'.mutations
    OBVIOUS
  <2>1. i \in Nat /\ i <= count.mutations
    BY <1>3 DEF Catalogue, Made, SyncTyped
  <2> QED BY <2>1, SyncParts
<1> QED BY <1>4, <1>5, <1>6, <1>7, <1>8 DEF Catalogue

\* The answer to a request that was taken or was not.
LEMMA AnswerKept ==
    ASSUME SyncTyped, Waiting, Debts, NEW q \in net, NEW success \in BOOLEAN, Answer(q, success),
           UNCHANGED <<pending, owed>>,
           success => \A m \in Node : owed[m] # 0 => q.envelope.num # owed[m],
           \A n \in Node : \A i \in seen'[n] : i \in seen[n] \/ (success /\ i = q.envelope.num)
    PROVE  /\ Waiting' /\ Debts'
           /\ \A a \in Sendable : Sent(a)' => Sent(a)
<1> DEFINE k == q.envelope.from
<1>1. k \in Node /\ worker \in [Node -> Sending] /\ \A n \in Node : worker[n] \in Sending
  BY SyncParts DEF SyncTyped
<1>2. net' = net \ {q}
  BY DEF Answer
<1>3. \A n \in Node \ {k} : worker'[n] = worker[n]
  BY <1>1 DEF Answer
<1>4. ~q.awaited => worker'[k] = worker[k]
  BY <1>1 DEF Answer
<1>5. q.awaited /\ success => worker'[k].envelope = q.envelope
  BY <1>1 DEF Answer, Sending, Waiting
<1>6. q.awaited /\ ~success => worker'[k] = NoSending
  BY <1>1 DEF Answer
<1>7. NoSending.envelope = NoEnvelope /\ ~NoSending.taken
  BY DEF NoSending
<1> HIDE DEF k
<1>8. ASSUME NEW n \in Node
      PROVE  \/ worker'[n] = worker[n]
             \/ worker'[n] = NoSending
             \/ success /\ worker'[n].envelope = q.envelope
  BY <1>3, <1>4, <1>5, <1>6
<1>9. q.envelope # NoEnvelope
  BY SyncParts
<1>10. Waiting'
  <2>1. \A n \in Node : pending'[n] # NoEnvelope => pending'[n].from = n
    BY DEF Waiting
  <2>2. \A n \in Node : worker'[n].taken => worker'[n].envelope # NoEnvelope
    BY <1>7, <1>8, <1>9 DEF Waiting
  <2>3. \A p, r \in net' : p.awaited /\ r.awaited /\ p.envelope.from = r.envelope.from => p = r
    BY <1>2 DEF Waiting
  <2>4. ASSUME NEW r \in net', r.awaited
        PROVE  /\ worker'[r.envelope.from].envelope = r.envelope
               /\ ~worker'[r.envelope.from].taken
    <3>1. r \in net /\ r # q /\ r.envelope.from \in Node
      BY <1>2, SyncParts
    <3>2. ~q.awaited \/ r.envelope.from # k
      BY <2>4, <3>1 DEF Waiting, k
    <3>3. worker'[r.envelope.from] = worker[r.envelope.from]
      BY <1>3, <1>4, <3>1, <3>2
    <3> QED BY <2>4, <3>1, <3>3 DEF Waiting
  <2> QED BY <2>1, <2>2, <2>3, <2>4 DEF Waiting
<1>11. Debts'
  <2> SUFFICES ASSUME NEW m \in Node, owed[m] # 0 PROVE Owes(m)'
    BY DEF Debts
  <2>1. Owes(m)
    BY DEF Debts
  <2>2. \A n \in Node : owed[m] \notin seen'[n]
    BY <2>1 DEF Owes
  <2>3. \A n \in Node : worker'[n].taken => worker'[n].envelope.num # owed[m]
    BY <1>7, <1>8, <2>1 DEF Owes
  <2> QED BY <1>2, <2>1, <2>2, <2>3 DEF Owes
<1>12. ASSUME NEW a \in Sendable, Sent(a)' PROVE Sent(a)
  <2>1. a # NoEnvelope
    BY SyncParts
  <2>2. CASE \E n \in Node : a = pending'[n]
    BY <2>2 DEF Sent
  <2>3. CASE \E r \in net' : a = r.envelope
    BY <1>2, <2>3 DEF Sent
  <2>4. CASE \E n \in Node : a = worker'[n].envelope
    BY <1>7, <1>8, <2>1, <2>4 DEF Sent
  <2> QED BY <1>12, <2>2, <2>3, <2>4 DEF Sent
<1> QED BY <1>10, <1>11, <1>12

\* A request that moves on or that nobody waits for any more.
LEMMA RequestMoved ==
    ASSUME SyncTyped, Waiting, NEW q \in net, NEW r, net' = (net \ {q}) \cup {r},
           r.envelope = q.envelope, r.awaited => q.awaited
    PROVE  /\ \A p \in net' : \E o \in net :
                  o.envelope = p.envelope /\ (p.awaited => o.awaited) /\ (p = r => o = q)
                  /\ (p # r => o = p)
           /\ \A p, o \in net' :
                  p.awaited /\ o.awaited /\ p.envelope.from = o.envelope.from => p = o
BY DEF Waiting

\* A step that at most forgets what is pending, being sent or owed.
LEMMA BookkeepingKept ==
    ASSUME SyncTyped, Waiting, Debts,
           \A n \in Node : pending'[n] = pending[n] \/ (pending'[n] = NoEnvelope /\ owed'[n] = 0),
           \A n \in Node : worker'[n] = worker[n] \/ worker'[n] = NoSending,
           \A n \in Node : owed'[n] = owed[n] \/ owed'[n] = 0,
           \A n \in Node : seen'[n] \subseteq seen[n],
           \A p, r \in net' :
               p.awaited /\ r.awaited /\ p.envelope.from = r.envelope.from => p = r,
           \A r \in net' : \E q \in net :
               /\ r.envelope = q.envelope
               /\ r.awaited => q.awaited /\ worker'[q.envelope.from] = worker[q.envelope.from]
               /\ r.step = "merged" =>
                      \/ q.step = "merged"
                      \/ \A m \in Node : owed'[m] # 0 => q.envelope.num # owed'[m]
    PROVE  /\ Waiting' /\ Debts'
           /\ \A a \in Sendable : Sent(a)' => Sent(a)
<1>1. NoSending.envelope = NoEnvelope /\ ~NoSending.taken
  BY DEF NoSending
<1>2. Waiting'
  <2>1. \A n \in Node : pending'[n] # NoEnvelope => pending'[n].from = n
    BY DEF Waiting
  <2>2. \A n \in Node : worker'[n].taken => worker'[n].envelope # NoEnvelope
    BY <1>1 DEF Waiting
  <2>3. ASSUME NEW r \in net', r.awaited
        PROVE  /\ worker'[r.envelope.from].envelope = r.envelope
               /\ ~worker'[r.envelope.from].taken
    BY <2>3 DEF Waiting
  <2> QED BY <2>1, <2>2, <2>3 DEF Waiting
<1>3. Debts'
  <2> SUFFICES ASSUME NEW m \in Node, owed'[m] # 0 PROVE Owes(m)'
    BY DEF Debts
  <2>1. Owes(m) /\ owed'[m] = owed[m] /\ pending'[m] = pending[m]
    BY DEF Debts
  <2>2. \A n \in Node : owed'[m] \notin seen'[n]
    BY <2>1 DEF Owes
  <2>3. \A n \in Node : worker'[n].taken => worker'[n].envelope.num # owed'[m]
    BY <1>1, <2>1 DEF Owes
  <2>4. \A r \in net' : r.step = "merged" => r.envelope.num # owed'[m]
    BY <2>1 DEF Owes
  <2> QED BY <2>1, <2>2, <2>3, <2>4 DEF Owes
<1>4. ASSUME NEW a \in Sendable, Sent(a)' PROVE Sent(a)
  <2>1. a # NoEnvelope
    BY SyncParts
  <2>2. CASE \E n \in Node : a = pending'[n]
    BY <2>1, <2>2 DEF Sent
  <2>3. CASE \E r \in net' : a = r.envelope
    BY <2>3 DEF Sent
  <2>4. CASE \E n \in Node : a = worker'[n].envelope
    BY <1>1, <2>1, <2>4 DEF Sent
  <2> QED BY <1>4, <2>2, <2>3, <2>4 DEF Sent
<1> QED BY <1>2, <1>3, <1>4

\* apply_local_mutation gives its envelope the next number.
LEMMA ApplyNumbered ==
    ASSUME SyncTyped, SyncTyped', Numbered, NEW n \in Node, NEW e, NEW after, NEW now, NEW removes,
           Apply(n, e, after, now, removes)
    PROVE  Numbered'
<1> DEFINE num == count.mutations + 1
<1>1. count.mutations \in Nat /\ count'.mutations = num
  BY DEF Apply, SyncTyped
<1>2. UNCHANGED <<pending, worker, net, seen, owed>>
  BY DEF Apply
<1>3. Waiting' /\ Debts'
  BY <1>2 DEF Numbered, Waiting, Debts, Owes
<1>4. \A a : Sent(a)' <=> Sent(a)
  BY <1>2 DEF Sent
<1>5. \A m \in Node : ready'[m] \subseteq Sendable
  BY SyncParts DEF SyncTyped
<1>6. \A m \in Node : \A a \in ready'[m] :
          a \in ready[m] \/ (m = n /\ a.num = num /\ a.from = n)
  BY DEF Apply, SyncTyped
<1>7. \A m, k \in Node : \A a \in ready'[m], b \in ready'[k] : a.num = num /\ b.num = num => a = b
  <2> DEFINE env == [num |-> num, from |-> n, state |-> Compact(after.state, now),
                     known |-> known[n] \cup {[num |-> num, entry |-> e]}]
  <2>1. \A m \in Node : \A a \in ready'[m] : a \in ready[m] \/ a = env
    BY DEF Apply, SyncTyped
  <2> HIDE DEF env
  <2>2. \A m \in Node : \A a \in ready[m] : a.num # num
    BY <1>1, SyncParts DEF Numbered, Catalogue, Made
  <2> QED BY <2>1, <2>2
<1> HIDE DEF num
<1>8. num \in Nat /\ num > count.mutations
  BY <1>1 DEF num
<1>9. \A a \in Sendable : Made(a) => a.num \in Nat /\ a.num > 0 /\ a.num < num
  BY <1>1, <1>8, SyncParts DEF Numbered, Catalogue
<1>10. \A a \in Sendable : Made(a)' =>
           Made(a) \/ (a.num = num /\ a.from = n /\ a \in ready'[n])
  BY <1>4, <1>6 DEF Made
<1>11. \A a \in Sendable : Made(a)' => a.num > 0 /\ a.num <= count'.mutations
  BY <1>1, <1>8, <1>9, <1>10
<1>12. ASSUME NEW a \in Sendable, NEW b \in Sendable, Made(a)', Made(b)', a.num = b.num
       PROVE  a = b
  <2>1. CASE Made(a) /\ Made(b)
    BY <1>12, <2>1 DEF Numbered, Catalogue
  <2>2. CASE ~(Made(a) /\ Made(b))
    <3>1. a.num = num
      BY <1>10, <1>12, <2>2
    <3>2. ~Made(a)
      <4> SUFFICES ASSUME Made(a) PROVE FALSE
        OBVIOUS
      <4>1. a.num < num
        BY <1>9
      <4> QED BY <1>8, <3>1, <4>1
    <3>3. ~Made(b)
      <4> SUFFICES ASSUME Made(b) PROVE FALSE
        OBVIOUS
      <4>1. b.num < num
        BY <1>9
      <4> QED BY <1>8, <1>12, <3>1, <4>1
    <3> QED BY <1>7, <1>10, <1>12, <3>2, <3>3
  <2> QED BY <2>1, <2>2
<1>13. ASSUME NEW m \in Node, NEW a \in ready'[m]
       PROVE  a.from = m /\ ~Sent(a)' /\ \A k \in Node : a.num \notin seen'[k]
  <2>1. a \in Sendable
    BY <1>5
  <2>2. CASE a \in ready[m]
    BY <1>2, <1>4, <2>2 DEF Numbered, Catalogue
  <2>3. CASE a \notin ready[m]
    <3>1. m = n /\ a.num = num /\ a.from = n
      BY <1>6, <2>3
    <3>2. ~Sent(a)
      BY <1>8, <1>9, <2>1, <3>1 DEF Made
    <3>3. \A k \in Node : \A i \in seen[k] : i \in Nat /\ i <= count.mutations
      BY DEF Numbered, Catalogue, SyncTyped
    <3>4. \A k \in Node : num \notin seen[k]
      BY <1>1, <1>8, <3>3
    <3> QED BY <1>2, <1>4, <3>1, <3>2, <3>4
  <2> QED BY <2>2, <2>3
<1>14. \A m \in Node : \A i \in seen'[m] : i <= count'.mutations
  <2>1. \A k \in Node : \A i \in seen[k] : i \in Nat /\ i <= count.mutations
    BY DEF Numbered, Catalogue, SyncTyped
  <2> QED BY <1>1, <1>2, <1>8, <2>1
<1>15. Catalogue'
  BY <1>11, <1>12, <1>13, <1>14 DEF Catalogue
<1> QED BY <1>3, <1>15 DEF Numbered

\* The envelope that is stored has not been sent before.
LEMMA StoreNumbered ==
    ASSUME SyncTyped, SyncTyped', Numbered, NEW n \in Node, NEW env \in ready[n],
           StorePending(n, env)
    PROVE  Numbered'
<1>1. env \in Sendable /\ env.num \in Nat /\ env.num > 0 /\ env.from = n /\ Made(env) /\ ~Sent(env)
  BY SyncParts DEF Numbered, Catalogue, Made
<1>2. env # NoEnvelope
  BY <1>1, SyncParts
<1>3. /\ UNCHANGED <<worker, net, seen, count>>
      /\ pending'[n] = env /\ \A m \in Node \ {n} : pending'[m] = pending[m]
      /\ owed'[n] = env.num /\ \A m \in Node \ {n} : owed'[m] = owed[m]
      /\ ready'[n] = ready[n] \ {env} /\ \A m \in Node \ {n} : ready'[m] = ready[m]
  BY DEF StorePending, SyncTyped
<1>4. Waiting'
  BY <1>1, <1>3 DEF Numbered, Waiting
<1>5. ASSUME NEW a \in Sendable, Sent(a), a.num = env.num PROVE FALSE
  BY <1>1, <1>5 DEF Numbered, Catalogue, Made
<1>6. Debts'
  <2> SUFFICES ASSUME NEW m \in Node, owed'[m] # 0 PROVE Owes(m)'
    BY DEF Debts
  <2>1. CASE m # n
    <3>1. Owes(m)
      BY <1>3, <2>1 DEF Numbered, Debts
    <3> QED BY <1>3, <2>1, <3>1 DEF Owes
  <2>2. CASE m = n
    <3>1. \A k \in Node : env.num \notin seen[k]
      BY DEF Numbered, Catalogue
    <3>2. ASSUME NEW k \in Node, worker[k].taken PROVE worker[k].envelope.num # env.num
      <4>1. worker[k].envelope # NoEnvelope
        BY <3>2 DEF Numbered, Waiting
      <4>2. worker[k].envelope \in Sendable /\ Sent(worker[k].envelope)
        BY <4>1, SyncParts DEF Sent
      <4> QED BY <1>5, <4>2
    <3>3. ASSUME NEW q \in net PROVE q.envelope.num # env.num
      <4>1. q.envelope \in Sendable /\ Sent(q.envelope)
        BY SyncParts DEF Sent
      <4> QED BY <1>5, <4>1
    <3> QED BY <1>2, <1>3, <2>2, <3>1, <3>2, <3>3 DEF Owes
  <2> QED BY <2>1, <2>2
<1>7. \A a \in Sendable : Sent(a)' => Sent(a) \/ a = env
  BY <1>3 DEF Sent
<1>8. \A a \in Sendable : Made(a)' => Made(a)
  BY <1>1, <1>3, <1>7 DEF Made
<1>9. ASSUME NEW m \in Node, NEW a \in ready'[m] PROVE a.from = m /\ ~Sent(a)'
  <2>1. a \in ready[m] /\ a \in Sendable
    BY <1>3, SyncParts
  <2>2. a.from = m /\ ~Sent(a)
    BY <2>1 DEF Numbered, Catalogue
  <2>3. a # env
    BY <1>1, <1>3, <2>2
  <2> QED BY <1>7, <2>1, <2>2, <2>3
<1>10. \A m, k \in Node : \A a \in ready'[m] : a.num \notin seen'[k]
  BY <1>3 DEF Numbered, Catalogue
<1>11. Catalogue'
  BY <1>3, <1>8, <1>9, <1>10 DEF Numbered, Catalogue
<1> QED BY <1>4, <1>6, <1>11 DEF Numbered

\* The worker sends what is pending when it waits for nothing else.
LEMMA SendNumbered ==
    ASSUME SyncTyped, SyncTyped', Numbered, NEW n \in Node, NEW peer \in Peers(n), Send(n, peer)
    PROVE  Numbered'
<1> DEFINE new == [envelope |-> pending[n], to |-> peer, step |-> "sent", awaited |-> TRUE]
<1>1. /\ pending[n] \in Sendable /\ pending[n].from = n /\ worker[n] = NoSending
      /\ pending[n] # NoEnvelope
  BY SyncParts DEF Send, Numbered, Waiting
<1>2. /\ UNCHANGED <<ready, pending, seen, count, owed>>
      /\ net' = net \cup {new}
      /\ \A m \in Node \ {n} : worker'[m] = worker[m]
  BY DEF Send, SyncTyped
<1>3. worker'[n].envelope = pending[n] /\ ~worker'[n].taken
  BY <1>1 DEF Send, SyncTyped, NoSending
<1>4. new.envelope = pending[n] /\ new.awaited /\ new.step = "sent"
  OBVIOUS
<1> HIDE DEF new
<1>5. ASSUME NEW q \in net, q.awaited, q.envelope.from = n PROVE FALSE
  <2>1. q.envelope # NoEnvelope
    BY SyncParts
  <2> QED BY <1>1, <1>5, <2>1 DEF Numbered, Waiting, NoSending
<1>6. Waiting'
  <2>1. \A m \in Node : pending'[m] # NoEnvelope => pending'[m].from = m
    BY <1>2 DEF Numbered, Waiting
  <2>2. \A m \in Node : worker'[m].taken => worker'[m].envelope # NoEnvelope
    BY <1>1, <1>2, <1>3 DEF Numbered, Waiting
  <2>3. \A q, r \in net' : q.awaited /\ r.awaited /\ q.envelope.from = r.envelope.from => q = r
    BY <1>1, <1>2, <1>4, <1>5 DEF Numbered, Waiting
  <2>4. ASSUME NEW q \in net', q.awaited
        PROVE  /\ worker'[q.envelope.from].envelope = q.envelope
               /\ ~worker'[q.envelope.from].taken
    <3>1. CASE q = new
      BY <1>1, <1>3, <1>4, <3>1
    <3>2. CASE q # new
      <4>1. q \in net /\ q.envelope.from \in Node /\ q.envelope.from # n
        BY <1>2, <1>5, <2>4, <3>2, SyncParts
      <4> QED BY <1>2, <2>4, <4>1 DEF Numbered, Waiting
    <3> QED BY <3>1, <3>2
  <2> QED BY <2>1, <2>2, <2>3, <2>4 DEF Waiting
<1>7. Debts'
  <2> SUFFICES ASSUME NEW m \in Node, owed[m] # 0 PROVE Owes(m)'
    BY <1>2 DEF Debts
  <2>1. Owes(m)
    BY DEF Numbered, Debts
  <2>2. \A k \in Node : worker'[k].taken => worker'[k].envelope.num # owed[m]
    BY <1>2, <1>3, <2>1 DEF Owes
  <2>3. \A q \in net' : q.step = "merged" => q.envelope.num # owed[m]
    BY <1>2, <1>4, <2>1 DEF Owes
  <2> QED BY <1>2, <2>1, <2>2, <2>3 DEF Owes
<1>8. \A a \in Sendable : Sent(a)' => Sent(a)
  BY <1>2, <1>3, <1>4 DEF Sent
<1>9. Catalogue'
  BY <1>2, <1>8, CatalogueKept, SyncParts DEF Numbered
<1> QED BY <1>6, <1>7, <1>9 DEF Numbered

\* An answered request is over; what was merged or seen is owed no more.
LEMMA AnswerNumbered ==
    ASSUME SyncTyped, SyncTyped', Numbered, NEW q \in net,
           Refuse(q) \/ (CheckSeen(q) /\ q.envelope.num \in seen[q.to]) \/ Record(q)
    PROVE  Numbered'
<1>1. q.envelope \in Sendable /\ q.to \in Node /\ Sent(q.envelope)
  BY SyncParts DEF Sent
<1>2. CASE Refuse(q)
  <2>1. Answer(q, FALSE) /\ UNCHANGED <<ready, pending, seen, count, owed>>
    BY <1>2 DEF Refuse
  <2>2. Waiting' /\ Debts' /\ \A a \in Sendable : Sent(a)' => Sent(a)
    BY <2>1, AnswerKept DEF Numbered
  <2>3. Catalogue'
    BY <2>1, <2>2, CatalogueKept, SyncParts DEF Numbered
  <2> QED BY <2>2, <2>3 DEF Numbered
<1>3. CASE CheckSeen(q) /\ q.envelope.num \in seen[q.to]
  <2>1. Answer(q, TRUE) /\ UNCHANGED <<ready, pending, seen, count, owed>>
    BY <1>3 DEF CheckSeen
  <2>2. \A m \in Node : owed[m] # 0 => q.envelope.num # owed[m]
    BY <1>1, <1>3 DEF Numbered, Debts, Owes
  <2>3. Waiting' /\ Debts' /\ \A a \in Sendable : Sent(a)' => Sent(a)
    BY <2>1, <2>2, AnswerKept DEF Numbered
  <2>4. Catalogue'
    BY <2>1, <2>3, CatalogueKept, SyncParts DEF Numbered
  <2> QED BY <2>3, <2>4 DEF Numbered
<1>4. CASE Record(q)
  <2> DEFINE room == q.envelope.num \in seen[q.to] \/ Cardinality(seen[q.to]) < MaxSeen
  <2>1. Answer(q, room) /\ room \in BOOLEAN /\ UNCHANGED <<ready, pending, count, owed>>
    BY <1>4 DEF Record
  <2>2. \A m \in Node : owed[m] # 0 => q.envelope.num # owed[m]
    BY <1>4 DEF Record, Numbered, Debts, Owes
  <2>3. \A n \in Node : \A i \in seen'[n] : i \in seen[n] \/ (room /\ i = q.envelope.num)
    BY <1>1, <1>4 DEF Record, SyncTyped
  <2> HIDE DEF room
  <2>4. Waiting' /\ Debts' /\ \A a \in Sendable : Sent(a)' => Sent(a)
    BY <2>1, <2>2, <2>3, AnswerKept DEF Numbered
  <2>5. \A n \in Node : \A i \in seen'[n] :
            i \in seen[n] \/ \E a \in Sendable : Sent(a) /\ a.num = i
    BY <1>1, <2>3
  <2>6. Catalogue'
    BY <2>1, <2>4, <2>5, CatalogueKept, SyncParts DEF Numbered
  <2> QED BY <2>4, <2>6 DEF Numbered
<1> QED BY <1>2, <1>3, <1>4

\* The worker clears only what it sent, and a newer envelope is not that.
LEMMA ClearNumbered ==
    ASSUME SyncTyped, SyncTyped', Numbered, NEW n \in Node, ClearPending(n)
    PROVE  Numbered'
<1>1. /\ worker[n].taken /\ UNCHANGED <<ready, net, seen, count, owed>>
      /\ worker'[n] = NoSending /\ \A m \in Node \ {n} : worker'[m] = worker[m]
      /\ pending'[n] = IF pending[n] = worker[n].envelope THEN NoEnvelope ELSE pending[n]
      /\ \A m \in Node \ {n} : pending'[m] = pending[m]
  BY DEF ClearPending, SyncTyped
<1>2. owed[n] # 0 => pending[n] # worker[n].envelope
  BY <1>1 DEF Numbered, Debts, Owes
<1>3. \A m \in Node : pending'[m] = pending[m] \/ (pending'[m] = NoEnvelope /\ owed'[m] = 0)
  BY <1>1, <1>2
<1>4. \A r \in net' : r \in net /\ (r.awaited => worker'[r.envelope.from] = worker[r.envelope.from])
  BY <1>1, SyncParts DEF Numbered, Waiting
<1>5. Waiting' /\ Debts' /\ \A a \in Sendable : Sent(a)' => Sent(a)
  <2>1. \A p, r \in net' :
            p.awaited /\ r.awaited /\ p.envelope.from = r.envelope.from => p = r
    BY <1>1 DEF Numbered, Waiting
  <2>2. \A m \in Node : worker'[m] = worker[m] \/ worker'[m] = NoSending
    BY <1>1
  <2>3. (\A m \in Node : owed'[m] = owed[m] \/ owed'[m] = 0) /\ \A m \in Node : seen'[m] \subseteq seen[m]
    BY <1>1
  <2>4. \A r \in net' : \E q \in net :
            /\ r.envelope = q.envelope
            /\ r.awaited => q.awaited /\ worker'[q.envelope.from] = worker[q.envelope.from]
            /\ r.step = "merged" =>
                   \/ q.step = "merged"
                   \/ \A m \in Node : owed'[m] # 0 => q.envelope.num # owed'[m]
    BY <1>4
  <2> QED BY <1>3, <2>1, <2>2, <2>3, <2>4, BookkeepingKept DEF Numbered
<1>6. Catalogue'
  BY <1>1, <1>5, CatalogueKept, SyncParts DEF Numbered
<1> QED BY <1>5, <1>6 DEF Numbered

\* A request that times out, passes the duplicate check or is merged.
LEMMA MovedNumbered ==
    ASSUME SyncTyped, SyncTyped', Numbered, NEW q \in net, NEW r,
           net' = (net \ {q}) \cup {r}, r.envelope = q.envelope, r.awaited => q.awaited,
           UNCHANGED <<ready, pending, seen>>, count'.mutations = count.mutations,
           \A n \in Node : worker'[n] = worker[n] \/ (worker'[n] = NoSending /\ n = q.envelope.from
                                                     /\ q.awaited /\ ~r.awaited),
           \A m \in Node : owed'[m] = owed[m] \/ owed'[m] = 0,
           r.step = "merged" =>
               \/ q.step = "merged"
               \/ \A m \in Node : owed'[m] # 0 => q.envelope.num # owed'[m]
    PROVE  Numbered'
<1>1. /\ \A p \in net' : \E o \in net :
             o.envelope = p.envelope /\ (p.awaited => o.awaited) /\ (p = r => o = q)
             /\ (p # r => o = p)
      /\ \A p, o \in net' : p.awaited /\ o.awaited /\ p.envelope.from = o.envelope.from => p = o
  BY RequestMoved DEF Numbered
<1>2. ASSUME NEW p \in net'
      PROVE  \E o \in net :
          /\ p.envelope = o.envelope
          /\ p.awaited => o.awaited /\ worker'[o.envelope.from] = worker[o.envelope.from]
          /\ p.step = "merged" =>
                 \/ o.step = "merged"
                 \/ \A m \in Node : owed'[m] # 0 => o.envelope.num # owed'[m]
  <2>1. CASE p = r
    <3>1. q.envelope.from \in Node
      BY SyncParts
    <3> QED BY <2>1, <3>1
  <2>2. CASE p # r
    <3>1. p \in net /\ p # q /\ p.envelope.from \in Node
      BY <2>2, SyncParts
    <3>2. p.awaited /\ q.awaited => p.envelope.from # q.envelope.from
      BY <3>1 DEF Numbered, Waiting
    <3> QED BY <3>1, <3>2
  <2> QED BY <2>1, <2>2
<1>3. /\ \A n \in Node : pending'[n] = pending[n] \/ (pending'[n] = NoEnvelope /\ owed'[n] = 0)
      /\ \A n \in Node : worker'[n] = worker[n] \/ worker'[n] = NoSending
      /\ \A n \in Node : seen'[n] \subseteq seen[n]
  OBVIOUS
<1>4. Waiting' /\ Debts' /\ \A a \in Sendable : Sent(a)' => Sent(a)
  BY <1>1, <1>2, <1>3, BookkeepingKept DEF Numbered
<1>5. Catalogue'
  BY <1>4, CatalogueKept, SyncParts DEF Numbered
<1> QED BY <1>4, <1>5 DEF Numbered

\* receive_envelope settles the debt of the envelope's own sender only.
LEMMA ReceiveNumbered ==
    ASSUME SyncTyped, SyncTyped', Numbered, NEW q \in net, NEW now, Receive(q, now)
    PROVE  Numbered'
<1> DEFINE r == [q EXCEPT !.step = "merged"]
<1>1. /\ q \in Request /\ q.envelope \in Sendable /\ q.envelope.from \in Node
      /\ q.envelope # NoEnvelope
  BY RequestParts, SyncParts
<1>2. r.envelope = q.envelope /\ r.awaited = q.awaited
  BY <1>1 DEF Request
<1>3. /\ net' = (net \ {q}) \cup {r} /\ UNCHANGED <<ready, pending, worker, seen, count>>
      /\ owed' = [owed EXCEPT ![q.envelope.from] = IF @ = q.envelope.num THEN 0 ELSE @]
  BY DEF Receive, Advance
<1>4. \A m \in Node : owed'[m] = owed[m] \/ owed'[m] = 0
  BY <1>1, <1>3 DEF SyncTyped
<1>5. ASSUME NEW m \in Node, owed'[m] # 0, q.envelope.num = owed'[m] PROVE FALSE
  <2>1. owed[m] = q.envelope.num /\ owed[m] # 0 /\ m # q.envelope.from
    BY <1>1, <1>3, <1>5 DEF SyncTyped
  <2>2. pending[m] # NoEnvelope /\ pending[m].num = q.envelope.num /\ pending[m].from = m
    BY <2>1 DEF Numbered, Debts, Owes, Waiting
  <2>3. pending[m] \in Sendable /\ Made(pending[m]) /\ Made(q.envelope)
    BY <2>2, SyncParts DEF Made, Sent
  <2>4. pending[m] = q.envelope
    BY <1>1, <2>2, <2>3 DEF Numbered, Catalogue
  <2> QED BY <2>1, <2>2, <2>4
<1> HIDE DEF r
<1> QED BY <1>2, <1>3, <1>4, <1>5, MovedNumbered

\* A restart forgets what the node owes; requests to it fail.
LEMMA RestartNumbered ==
    ASSUME SyncTyped, SyncTyped', Numbered, NEW n \in Node, Restart(n)
    PROVE  Numbered'
<1>1. /\ \A m \in Node : pending'[m] = pending[m] \/ (pending'[m] = NoEnvelope /\ owed'[m] = 0)
      /\ \A m \in Node : owed'[m] = owed[m] \/ owed'[m] = 0
      /\ \A m \in Node : seen'[m] \subseteq seen[m]
      /\ \A m \in Node : ready'[m] \subseteq ready[m]
      /\ count'.mutations = count.mutations
  BY DEF Restart, Fault, SyncTyped
<1>2. \A m \in Node : \/ worker'[m] = worker[m]
                      \/ /\ worker'[m] = NoSending
                         /\ m = n \/ \E q \in net : q.envelope.from = m /\ q.to = n /\ q.awaited
  BY DEF Restart
<1>3. ASSUME NEW p \in net'
      PROVE  \E o \in net : /\ o.to # n /\ o.envelope = p.envelope /\ o.step = p.step
                            /\ IF o.envelope.from = n THEN ~p.awaited ELSE p = o
  <2>1. PICK o \in net : o.to # n /\ p = IF o.envelope.from = n THEN Orphan(o) ELSE o
    BY DEF Restart
  <2>2. o \in Request
    BY RequestParts
  <2>3. Orphan(o).envelope = o.envelope /\ Orphan(o).step = o.step /\ ~Orphan(o).awaited
    BY <2>2 DEF Request, Orphan
  <2> QED BY <2>1, <2>3
<1>4. \A p, r \in net' : p.awaited /\ r.awaited /\ p.envelope.from = r.envelope.from => p = r
  BY <1>3 DEF Numbered, Waiting
<1>5. ASSUME NEW p \in net'
      PROVE  \E o \in net :
          /\ p.envelope = o.envelope
          /\ p.awaited => o.awaited /\ worker'[o.envelope.from] = worker[o.envelope.from]
          /\ p.step = "merged" =>
                 \/ o.step = "merged"
                 \/ \A m \in Node : owed'[m] # 0 => o.envelope.num # owed'[m]
  <2>1. PICK o \in net : /\ o.to # n /\ o.envelope = p.envelope /\ o.step = p.step
                         /\ IF o.envelope.from = n THEN ~p.awaited ELSE p = o
    BY <1>3
  <2>2. ASSUME p.awaited PROVE o.awaited /\ worker'[o.envelope.from] = worker[o.envelope.from]
    <3>1. o.awaited /\ o.envelope.from # n /\ o.envelope.from \in Node
      BY <2>1, <2>2, SyncParts
    <3>2. ~\E q \in net : q.envelope.from = o.envelope.from /\ q.to = n /\ q.awaited
      BY <2>1, <3>1 DEF Numbered, Waiting
    <3> QED BY <1>2, <3>1, <3>2
  <2> QED BY <2>1, <2>2
<1>6. \A m \in Node : worker'[m] = worker[m] \/ worker'[m] = NoSending
  BY <1>2
<1>7. Waiting' /\ Debts' /\ \A a \in Sendable : Sent(a)' => Sent(a)
  BY <1>1, <1>4, <1>5, <1>6, BookkeepingKept DEF Numbered
<1>8. Catalogue'
  BY <1>1, <1>7, CatalogueKept, SyncParts DEF Numbered
<1> QED BY <1>7, <1>8 DEF Numbered

LEMMA InitNumbered == Init => Numbered
<1> SUFFICES ASSUME Init PROVE Numbered
  OBVIOUS
<1>1. SyncTyped
  BY InitTyped
<1>2. NoSending.envelope = NoEnvelope /\ ~NoSending.taken
  BY DEF NoSending
<1>3. \A a \in Sendable : ~Made(a)
  BY <1>1, <1>2, SyncParts DEF Init, Made, Sent
<1>4. Catalogue
  BY <1>3 DEF Init, Catalogue
<1>5. Waiting /\ Debts
  BY <1>2 DEF Init, Waiting, Debts
<1> QED BY <1>4, <1>5 DEF Numbered

LEMMA StepNumbered == SyncTyped /\ SyncTyped' /\ Numbered /\ [Next]_vars => Numbered'
<1> SUFFICES ASSUME SyncTyped, SyncTyped', Numbered, [Next]_vars PROVE Numbered'
  OBVIOUS
<1>1. ASSUME NEW n \in Node, Mutate(n) PROVE Numbered'
  BY <1>1, ApplyNumbered DEF Mutate, UpsertEntry, Remove
<1>2. ASSUME NEW n \in Node, Store(n) \/ Post(n) \/ ClearPending(n) \/ Restart(n) PROVE Numbered'
  <2>1. CASE Store(n)
    BY <2>1, StoreNumbered DEF Store
  <2>2. CASE Post(n)
    BY <2>2, SendNumbered DEF Post
  <2> QED BY <1>2, <2>1, <2>2, ClearNumbered, RestartNumbered
<1>3. ASSUME NEW q \in net, Timeout(q) PROVE Numbered'
  <2>1. q \in Request /\ q.envelope.from \in Node
    BY RequestParts, SyncParts
  <2>2. Orphan(q).envelope = q.envelope /\ ~Orphan(q).awaited /\ Orphan(q).step = q.step
    BY <2>1 DEF Request, Orphan
  <2>3. count'.mutations = count.mutations
    BY <1>3 DEF Timeout, Fault, SyncTyped
  <2>4. /\ net' = (net \ {q}) \cup {Orphan(q)} /\ UNCHANGED <<ready, pending, seen, owed>>
        /\ \A n \in Node : worker'[n] = worker[n] \/ (worker'[n] = NoSending /\ n = q.envelope.from
                                                     /\ q.awaited /\ ~Orphan(q).awaited)
    BY <1>3, <2>1, <2>2 DEF Timeout, SyncTyped
  <2> QED BY <2>2, <2>3, <2>4, MovedNumbered
<1>4. ASSUME NEW q \in net, CheckSeen(q), q.envelope.num \notin seen[q.to] PROVE Numbered'
  <2> DEFINE r == [q EXCEPT !.step = "fresh"]
  <2>1. q \in Request
    BY RequestParts
  <2>2. r.envelope = q.envelope /\ r.awaited = q.awaited /\ r.step # "merged"
    BY <2>1 DEF Request
  <2>3. net' = (net \ {q}) \cup {r} /\ UNCHANGED <<ready, pending, worker, seen, count, owed>>
    BY <1>4 DEF CheckSeen, Advance
  <2> HIDE DEF r
  <2> QED BY <2>2, <2>3, MovedNumbered
<1>5. ASSUME NEW q \in net, Timeout(q) \/ Refuse(q) \/ CheckSeen(q) \/ Record(q) PROVE Numbered'
  BY <1>3, <1>4, <1>5, AnswerNumbered
<1>6. ASSUME NEW n \in Node, NEW num \in seen[n], ExpireSeen(n, num) PROVE Numbered'
  <2>1. /\ UNCHANGED <<ready, pending, worker, net, owed>> /\ count'.mutations = count.mutations
        /\ \A m \in Node : seen'[m] \subseteq seen[m]
    BY <1>6 DEF ExpireSeen, Fault, SyncTyped
  <2>2. Waiting' /\ Debts' /\ \A a \in Sendable : Sent(a)' => Sent(a)
    BY <2>1 DEF Numbered, Waiting, Debts, Owes, Sent
  <2>3. Catalogue'
    BY <2>1, <2>2, CatalogueKept, SyncParts DEF Numbered
  <2> QED BY <2>2, <2>3 DEF Numbered
<1>7. ASSUME UNCHANGED vars PROVE Numbered'
  BY <1>7 DEF vars, Numbered, Catalogue, Made, Sent, Waiting, Debts, Owes
<1> QED BY <1>1, <1>2, <1>5, <1>6, <1>7, ReceiveNumbered DEF Next

\* apply_local_mutation's last envelope stays pending until a peer merges it,
\* however the worker's answers for older envelopes are delayed.
THEOREM NeverForgotten == Spec => []NotForgotten
<1>1. Numbered => NotForgotten
  BY DEF Numbered, Debts, Owes, NotForgotten
<1> QED BY <1>1, InitNumbered, StepNumbered, DataInvariant, PTL DEF Spec

-----------------------------------------------------------------------------
(* What a state is made of.  c[i] is what mutation i contributed; K is the *)
(* set of the mutations that a state has taken in.                         *)

\* Every field holds the greatest register that was contributed to it.
FieldsOf(s, K, c) ==
    \A e \in Id, f \in Field :
        /\ s.fields[e][f] = NoRegister => \A m \in K : c[m.num].fields[e][f] = NoRegister
        /\ s.fields[e][f] # NoRegister =>
               /\ \E m \in K : c[m.num].fields[e][f] = s.fields[e][f]
               /\ \A m \in K : c[m.num].fields[e][f] # NoRegister =>
                                   ~Less(s.fields[e][f], c[m.num].fields[e][f])

\* The tags are the ones contributed.
TagsOf(s, K, c) ==
    \A e \in Id :
        /\ \A t \in s.adds[e] : \E m \in K : t \in c[m.num].adds[e]
        /\ \A m \in K : c[m.num].adds[e] \subseteq s.adds[e]

\* The tombstones are the latest contributed for their tags.
TombsOf(s, K, c) ==
    \A e \in Id :
        /\ \A b \in s.tombs[e] : \E m \in K : b \in c[m.num].tombs[e]
        /\ \A m \in K : \A b \in c[m.num].tombs[e] :
               \E u \in s.tombs[e] : u.tag = b.tag /\ ~Before(u.at, b.at)

\* A state that nothing was removed from.
Grown(s, K) ==
    \A e \in Id :
        /\ s.tombs[e] = {}
        /\ s.adds[e] # {} <=> \E m \in K : m.entry = e
        /\ s.adds[e] = {} => \A f \in Field : s.fields[e][f] = NoRegister

\* What is known of a state by what may have happened to it.
Explains(c, s, K, removed, compacted) ==
    /\ ~removed \/ ~compacted => FieldsOf(s, K, c)
    /\ ~removed => Grown(s, K)
    /\ ~compacted => TagsOf(s, K, c) /\ TombsOf(s, K, c)

Contributions == [Nat -> State]

LEMMA GreatestMerge ==
    ASSUME NEW a \in Slot, NEW b \in Slot
    PROVE  /\ MergeRegister(a, b) = NoRegister => a = NoRegister /\ b = NoRegister
           /\ MergeRegister(a, b) = a \/ MergeRegister(a, b) = b
           /\ \A g \in Register :
                  \/ a # NoRegister /\ ~Less(a, g)
                  \/ b # NoRegister /\ ~Less(b, g)
                  => ~Less(MergeRegister(a, b), g)
<1>1. CASE a \in Register /\ b \in Register
  <2>1. MergeRegister(a, b) = IF Less(a, b) THEN b ELSE a
    BY <1>1, MergeIsGreater
  <2>2. a # NoRegister /\ b # NoRegister
    BY <1>1, RegisterParts
  <2>3. CASE Less(a, b)
    BY <1>1, <2>1, <2>2, <2>3, LessOrder
  <2>4. CASE ~Less(a, b)
    BY <1>1, <2>1, <2>2, <2>4, LessOrder
  <2> QED BY <2>3, <2>4
<1>2. CASE a = NoRegister \/ b = NoRegister
  BY <1>2, MergeSlot
<1> QED BY <1>1, <1>2 DEF Slot

LEMMA FieldsMerge ==
    ASSUME NEW s \in State, NEW t \in State, NEW c \in Contributions,
           NEW K \in SUBSET Mutation, NEW L \in SUBSET Mutation,
           FieldsOf(s, K, c), FieldsOf(t, L, c)
    PROVE  FieldsOf(MergeState(s, t), K \cup L, c)
<1> DEFINE r == MergeState(s, t)
<1> SUFFICES ASSUME NEW e \in Id, NEW f \in Field
             PROVE  /\ r.fields[e][f] = NoRegister =>
                           \A m \in K \cup L : c[m.num].fields[e][f] = NoRegister
                    /\ r.fields[e][f] # NoRegister =>
                           /\ \E m \in K \cup L : c[m.num].fields[e][f] = r.fields[e][f]
                           /\ \A m \in K \cup L : c[m.num].fields[e][f] # NoRegister =>
                                  ~Less(r.fields[e][f], c[m.num].fields[e][f])
  BY DEF FieldsOf
<1> DEFINE a == s.fields[e][f]
           b == t.fields[e][f]
           g == MergeRegister(a, b)
           G(m) == c[m.num].fields[e][f]
<1>1. r.fields[e][f] = g
  BY MergeTyped
<1>2. a \in Slot /\ b \in Slot
  BY StateParts
<1>3. \A m \in K \cup L : G(m) \in Slot
  <2>1. \A m \in K \cup L : c[m.num] \in State
    BY DEF Contributions, Mutation
  <2> QED BY <2>1, StateParts
<1>4. /\ a = NoRegister => \A m \in K : G(m) = NoRegister
      /\ a # NoRegister => /\ \E m \in K : G(m) = a
                           /\ \A m \in K : G(m) # NoRegister => ~Less(a, G(m))
  BY DEF FieldsOf
<1>5. /\ b = NoRegister => \A m \in L : G(m) = NoRegister
      /\ b # NoRegister => /\ \E m \in L : G(m) = b
                           /\ \A m \in L : G(m) # NoRegister => ~Less(b, G(m))
  BY DEF FieldsOf
<1> HIDE DEF r, a, b, G
<1>6. /\ g = NoRegister => a = NoRegister /\ b = NoRegister
      /\ g = a \/ g = b
      /\ \A h \in Register : (a # NoRegister /\ ~Less(a, h)) \/ (b # NoRegister /\ ~Less(b, h))
                                 => ~Less(g, h)
  BY <1>2, GreatestMerge
<1> HIDE DEF g
<1>7. \A m \in K \cup L : G(m) # NoRegister => G(m) \in Register
  BY <1>3 DEF Slot
<1>8. \A m \in K \cup L : G(m) # NoRegister => ~Less(g, G(m))
  BY <1>4, <1>5, <1>6, <1>7
<1>9. g # NoRegister => \E m \in K \cup L : G(m) = g
  BY <1>4, <1>5, <1>6
<1>10. g = NoRegister => \A m \in K \cup L : G(m) = NoRegister
  BY <1>4, <1>5, <1>6
<1> QED BY <1>1, <1>8, <1>9, <1>10 DEF G

LEMMA TagsMerge ==
    ASSUME NEW s \in State, NEW t \in State, NEW c, NEW K, NEW L, TagsOf(s, K, c), TagsOf(t, L, c)
    PROVE  TagsOf(MergeState(s, t), K \cup L, c)
<1> SUFFICES ASSUME NEW e \in Id
             PROVE  /\ \A x \in MergeState(s, t).adds[e] : \E m \in K \cup L : x \in c[m.num].adds[e]
                    /\ \A m \in K \cup L : c[m.num].adds[e] \subseteq MergeState(s, t).adds[e]
  BY DEF TagsOf
<1>1. MergeState(s, t).adds[e] = s.adds[e] \cup t.adds[e]
  BY MergeTyped
<1>2. /\ \A x \in s.adds[e] : \E m \in K : x \in c[m.num].adds[e]
      /\ \A m \in K : c[m.num].adds[e] \subseteq s.adds[e]
  BY DEF TagsOf
<1>3. /\ \A x \in t.adds[e] : \E m \in L : x \in c[m.num].adds[e]
      /\ \A m \in L : c[m.num].adds[e] \subseteq t.adds[e]
  BY DEF TagsOf
<1> QED BY <1>1, <1>2, <1>3

LEMMA TombsMerge ==
    ASSUME NEW s \in State, NEW t \in State, Mapped(s), Mapped(t), NEW c \in Contributions,
           NEW K \in SUBSET Mutation, NEW L \in SUBSET Mutation,
           TombsOf(s, K, c), TombsOf(t, L, c)
    PROVE  TombsOf(MergeState(s, t), K \cup L, c)
<1> SUFFICES ASSUME NEW e \in Id
             PROVE  /\ \A b \in MergeState(s, t).tombs[e] :
                           \E m \in K \cup L : b \in c[m.num].tombs[e]
                    /\ \A m \in K \cup L : \A b \in c[m.num].tombs[e] :
                           \E u \in MergeState(s, t).tombs[e] : u.tag = b.tag /\ ~Before(u.at, b.at)
  BY DEF TombsOf
<1> DEFINE A == s.tombs[e]
           B == t.tombs[e]
           C(m) == c[m.num].tombs[e]
           R == Latests(A \cup B)
<1>1. /\ A \in SUBSET Tombstone /\ B \in SUBSET Tombstone /\ OnePerTag(A) /\ OnePerTag(B)
  BY StateParts DEF Mapped
<1>2. MergeState(s, t).tombs[e] = R
  BY <1>1, MergeTyped, MergeIsLatest
<1>3. /\ \A b \in A : \E m \in K : b \in C(m)
      /\ \A m \in K : \A b \in C(m) : \E u \in A : u.tag = b.tag /\ ~Before(u.at, b.at)
  BY DEF TombsOf
<1>4. /\ \A b \in B : \E m \in L : b \in C(m)
      /\ \A m \in L : \A b \in C(m) : \E u \in B : u.tag = b.tag /\ ~Before(u.at, b.at)
  BY DEF TombsOf
<1>5. \A m \in K \cup L : C(m) \in SUBSET Tombstone
  <2>1. \A m \in K \cup L : c[m.num] \in State
    BY DEF Contributions, Mutation
  <2> QED BY <2>1, StateParts
<1> HIDE DEF A, B, C
<1>6. R \subseteq A \cup B
  BY DEF Latests
<1>7. \A x \in A \cup B : \E u \in R : u.tag = x.tag /\ ~Before(u.at, x.at)
  BY <1>1, LatestsCover
<1> HIDE DEF R
<1>8. ASSUME NEW m \in K \cup L, NEW b \in C(m)
      PROVE  \E u \in R : u.tag = b.tag /\ ~Before(u.at, b.at)
  <2>1. PICK x \in A \cup B : x.tag = b.tag /\ ~Before(x.at, b.at)
    BY <1>3, <1>4
  <2>2. PICK u \in R : u.tag = x.tag /\ ~Before(u.at, x.at)
    BY <1>7
  <2>3. b \in Tombstone /\ x \in Tombstone /\ u \in Tombstone
    BY <1>1, <1>5, <1>6
  <2> QED BY <2>1, <2>2, <2>3, TombParts, NotBeforeTransitive
<1>9. \A b \in R : \E m \in K \cup L : b \in C(m)
  BY <1>3, <1>4, <1>6
<1> QED BY <1>2, <1>8, <1>9 DEF C

LEMMA GrownMerge ==
    ASSUME NEW s \in State, NEW t \in State, NEW K, NEW L, Grown(s, K), Grown(t, L)
    PROVE  Grown(MergeState(s, t), K \cup L)
<1> DEFINE r == MergeState(s, t)
<1> SUFFICES ASSUME NEW e \in Id
             PROVE  /\ r.tombs[e] = {}
                    /\ r.adds[e] # {} <=> \E m \in K \cup L : m.entry = e
                    /\ r.adds[e] = {} => \A f \in Field : r.fields[e][f] = NoRegister
  BY DEF Grown
<1>1. /\ r.adds[e] = s.adds[e] \cup t.adds[e] /\ r.tombs[e] = MergeTombs(s.tombs[e], t.tombs[e])
      /\ \A f \in Field : r.fields[e][f] = MergeRegister(s.fields[e][f], t.fields[e][f])
  BY MergeTyped
<1>2. MergeTombs({}, {}) = {}
  BY DEF MergeTombs
<1>3. MergeRegister(NoRegister, NoRegister) = NoRegister
  BY DEF MergeRegister
<1>4. /\ s.tombs[e] = {} /\ t.tombs[e] = {}
      /\ s.adds[e] # {} <=> \E m \in K : m.entry = e
      /\ t.adds[e] # {} <=> \E m \in L : m.entry = e
      /\ s.adds[e] = {} => \A f \in Field : s.fields[e][f] = NoRegister
      /\ t.adds[e] = {} => \A f \in Field : t.fields[e][f] = NoRegister
  BY DEF Grown
<1> HIDE DEF r
<1>5. r.tombs[e] = {}
  BY <1>1, <1>2, <1>4
<1>6. r.adds[e] # {} <=> s.adds[e] # {} \/ t.adds[e] # {}
  BY <1>1
<1>7. ASSUME r.adds[e] = {}, NEW f \in Field PROVE r.fields[e][f] = NoRegister
  <2>1. s.fields[e][f] = NoRegister /\ t.fields[e][f] = NoRegister
    BY <1>4, <1>6, <1>7
  <2> QED BY <1>1, <1>3, <2>1
<1>8. r.adds[e] # {} <=> \E m \in K \cup L : m.entry = e
  BY <1>4, <1>6
<1> QED BY <1>5, <1>7, <1>8

\* receive_envelope: a merge is explained by both sides' mutations.
LEMMA ExplainsMerge ==
    ASSUME NEW s \in State, NEW t \in State, Mapped(s), Mapped(t), NEW c \in Contributions,
           NEW K \in SUBSET Mutation, NEW L \in SUBSET Mutation, NEW removed, NEW compacted,
           Explains(c, s, K, removed, compacted), Explains(c, t, L, removed, compacted)
    PROVE  Explains(c, MergeState(s, t), K \cup L, removed, compacted)
BY FieldsMerge, TagsMerge, TombsMerge, GrownMerge DEF Explains

-----------------------------------------------------------------------------
(* Mutations are merges, and compaction forgets nothing that shows.        *)

\* The state r is s with entry e made visible and some fields written.
Upserted(r, s, e, fs, values, at) ==
    /\ r \in State /\ at \in Timestamp
    /\ \A i \in Id : /\ r.tombs[i] = s.tombs[i]
                     /\ i # e => r.adds[i] = s.adds[i]
                     /\ i # e => \A f \in Field : r.fields[i][f] = s.fields[i][f]
    /\ r.adds[e] = IF IsVisible(s, e) THEN s.adds[e] ELSE s.adds[e] \cup {at}
    /\ \A f \in Field : r.fields[e][f] =
           IF f \in fs THEN MergeRegister(s.fields[e][f], [value |-> values[f], at |-> at])
           ELSE s.fields[e][f]

LEMMA UpsertParts ==
    ASSUME NEW n \in Node, NEW rep, Good(rep, n), NEW e \in Id, NEW now \in Nat,
           NEW fs \in SUBSET Field, NEW values \in [fs -> Value]
    PROVE  Upserted(Upsert(rep, e, values, now).state, rep.state, e, fs, values,
                    Tick(rep.clock, now))
<1> DEFINE s == rep.state
           at == Tick(rep.clock, now)
           r == Upsert(rep, e, values, now).state
           grown == IF IsVisible(s, e) THEN s.adds[e] ELSE s.adds[e] \cup {at}
           mine == [f \in Field |->
                       IF f \in DOMAIN values
                       THEN MergeRegister(s.fields[e][f], [value |-> values[f], at |-> at])
                       ELSE s.fields[e][f]]
           adds == [s.adds EXCEPT ![e] = grown]
           fields == [s.fields EXCEPT ![e] = mine]
<1>1. s \in State /\ rep.clock \in Timestamp
  BY DEF Good, Replica
<1>2. at \in Timestamp
  BY <1>1, TickReaches DEF Good
<1>3. r \in State
  BY UpsertGood DEF Good, Replica
<1>4. r = [s EXCEPT !.adds[e] = grown, !.fields[e] = mine]
  BY DEF Upsert
<1> HIDE DEF s, at, r, grown, mine
<1>5. r = [s EXCEPT !.adds = adds, !.fields = fields]
  BY <1>4
<1>6. r = [adds |-> adds, tombs |-> s.tombs, fields |-> fields]
  <2> HIDE DEF adds, fields
  <2> QED BY <1>1, <1>5, Replaced
<1>7. \A i \in Id : adds[i] = IF i = e THEN grown ELSE s.adds[i]
  BY <1>1 DEF State
<1>8. \A i \in Id : fields[i] = IF i = e THEN mine ELSE s.fields[i]
  BY <1>1 DEF State
<1>9. r.adds = adds /\ r.tombs = s.tombs /\ r.fields = fields
  <2> HIDE DEF adds, fields
  <2> QED BY <1>6
<1> HIDE DEF adds, fields
<1>10. \A f \in Field : mine[f] =
           IF f \in fs THEN MergeRegister(s.fields[e][f], [value |-> values[f], at |-> at])
           ELSE s.fields[e][f]
  BY DEF mine
<1>11. \A i \in Id : /\ r.tombs[i] = s.tombs[i]
                     /\ i # e => r.adds[i] = s.adds[i]
                     /\ i # e => \A f \in Field : r.fields[i][f] = s.fields[i][f]
  BY <1>7, <1>8, <1>9
<1>12. r.adds[e] = grown /\ r.fields[e] = mine
  BY <1>7, <1>8, <1>9
<1>13. Upserted(r, s, e, fs, values, at)
  BY <1>2, <1>3, <1>10, <1>11, <1>12 DEF grown, Upserted
<1> QED BY <1>13 DEF r, s, at

LEMMA NoTombs ==
    ASSUME NEW T \in SUBSET Tombstone
    PROVE  MergeTombs(T, {}) = T
BY DEF MergeTombs

\* upsert_entry merges the tag and the registers it makes.
LEMMA UpsertIsMerge ==
    ASSUME NEW n \in Node, NEW rep, Good(rep, n), NEW e \in Id, NEW now \in Nat,
           NEW fs \in SUBSET Field, NEW values \in [fs -> Value]
    PROVE  \E c \in State : Mapped(c) /\ Upsert(rep, e, values, now).state = MergeState(rep.state, c)
<1> DEFINE s == rep.state
           at == Tick(rep.clock, now)
           r == Upsert(rep, e, values, now).state
           new == IF IsVisible(s, e) THEN {} ELSE {at}
           adds == [i \in Id |-> IF i = e THEN new ELSE {}]
           tombs == [i \in Id |-> {}]
           mine == [f \in Field |-> IF f \in fs THEN [value |-> values[f], at |-> at] ELSE NoRegister]
           none == [f \in Field |-> NoRegister]
           fields == [i \in Id |-> IF i = e THEN mine ELSE none]
           c == [adds |-> adds, tombs |-> tombs, fields |-> fields]
<1>0. Upserted(r, s, e, fs, values, at)
  BY UpsertParts
<1>1. s \in State
  BY DEF Good, Replica
<1> HIDE DEF s, at, r
<1>2. /\ r \in State /\ at \in Timestamp
      /\ \A i \in Id : /\ r.tombs[i] = s.tombs[i]
                       /\ i # e => r.adds[i] = s.adds[i]
                       /\ i # e => \A f \in Field : r.fields[i][f] = s.fields[i][f]
      /\ r.adds[e] = IF IsVisible(s, e) THEN s.adds[e] ELSE s.adds[e] \cup {at}
      /\ \A f \in Field : r.fields[e][f] =
             IF f \in fs THEN MergeRegister(s.fields[e][f], [value |-> values[f], at |-> at])
             ELSE s.fields[e][f]
  BY <1>0 DEF Upserted
<1>3. adds \in [Id -> SUBSET Timestamp] /\ tombs \in [Id -> SUBSET Tombstone]
  BY <1>2
<1>4. mine \in [Field -> Slot] /\ none \in [Field -> Slot]
  BY <1>2 DEF Slot, Register
<1>5. fields \in [Id -> [Field -> Slot]]
  <2> HIDE DEF mine, none
  <2> QED BY <1>4
<1>6. /\ \A i \in Id : tombs[i] = {} /\ adds[i] = IF i = e THEN new ELSE {}
      /\ \A i \in Id, f \in Field : fields[i][f] = IF i = e THEN mine[f] ELSE NoRegister
  OBVIOUS
<1>7. \A f \in Field : mine[f] = IF f \in fs THEN [value |-> values[f], at |-> at] ELSE NoRegister
  OBVIOUS
<1>8. c.adds = adds /\ c.tombs = tombs /\ c.fields = fields
  OBVIOUS
<1>9. c \in State
  <2> HIDE DEF adds, tombs, fields
  <2> QED BY <1>3, <1>5 DEF State, Slot
<1>10. Mapped(c)
  BY <1>6, <1>8 DEF Mapped, OnePerTag
<1> HIDE DEF c, adds, tombs, fields, mine
<1> DEFINE g == MergeState(s, c)
<1>11. /\ g \in State
       /\ \A i \in Id : g.adds[i] = s.adds[i] \cup adds[i] /\ g.tombs[i] = MergeTombs(s.tombs[i], tombs[i])
       /\ \A i \in Id, f \in Field : g.fields[i][f] = MergeRegister(s.fields[i][f], fields[i][f])
  BY <1>1, <1>8, <1>9, MergeTyped
<1> HIDE DEF g
<1>12. ASSUME NEW i \in Id PROVE r.tombs[i] = g.tombs[i]
  <2>1. g.tombs[i] = MergeTombs(s.tombs[i], {}) /\ s.tombs[i] \in SUBSET Tombstone
    BY <1>1, <1>6, <1>11, StateParts
  <2>2. MergeTombs(s.tombs[i], {}) = s.tombs[i]
    BY <2>1, NoTombs
  <2> QED BY <1>2, <2>1, <2>2
<1>13. ASSUME NEW i \in Id PROVE r.adds[i] = g.adds[i]
  <2>1. g.adds[i] = s.adds[i] \cup IF i = e THEN new ELSE {}
    BY <1>6, <1>11
  <2>2. CASE i = e
    BY <1>2, <2>1, <2>2
  <2>3. CASE i # e
    BY <1>2, <2>1, <2>3
  <2> QED BY <2>2, <2>3
<1>14. ASSUME NEW i \in Id, NEW f \in Field PROVE r.fields[i][f] = g.fields[i][f]
  <2>1. s.fields[i][f] \in Slot
    BY <1>1, StateParts
  <2>2. MergeRegister(s.fields[i][f], NoRegister) = s.fields[i][f]
    BY <2>1, MergeSlot
  <2>3. g.fields[i][f] = MergeRegister(s.fields[i][f], fields[i][f])
    BY <1>11
  <2>4. CASE i # e
    <3>1. fields[i][f] = NoRegister /\ r.fields[i][f] = s.fields[i][f]
      BY <1>2, <1>6, <2>4
    <3> QED BY <2>2, <2>3, <3>1
  <2>5. CASE i = e /\ f \notin fs
    <3>1. fields[i][f] = NoRegister /\ r.fields[i][f] = s.fields[i][f]
      BY <1>2, <1>6, <1>7, <2>5
    <3> QED BY <2>2, <2>3, <3>1
  <2>6. CASE i = e /\ f \in fs
    <3> DEFINE written == [value |-> values[f], at |-> at]
    <3>1. fields[i][f] = written
      BY <1>6, <1>7, <2>6
    <3>2. r.fields[i][f] = MergeRegister(s.fields[i][f], written)
      BY <1>2, <2>6
    <3> HIDE DEF written
    <3> QED BY <2>3, <3>1, <3>2
  <2> QED BY <2>4, <2>5, <2>6
<1>15. r = g
  BY <1>2, <1>11, <1>12, <1>13, <1>14, SameState
<1> QED BY <1>9, <1>10, <1>15 DEF r, s, g

\* Without removals, an upsert makes its entry visible and touches no other.
LEMMA UpsertGrown ==
    ASSUME NEW n \in Node, NEW rep, Good(rep, n), NEW e \in Id, NEW now \in Nat,
           NEW fs \in SUBSET Field, NEW values \in [fs -> Value],
           NEW K, Grown(rep.state, K), NEW m, m.entry = e
    PROVE  Grown(Upsert(rep, e, values, now).state, K \cup {m})
<1> DEFINE s == rep.state
           at == Tick(rep.clock, now)
           r == Upsert(rep, e, values, now).state
<1>0. Upserted(r, s, e, fs, values, at)
  BY UpsertParts
<1>2. Grown(s, K)
  OBVIOUS
<1> HIDE DEF s, at, r
<1>1. /\ \A i \in Id : /\ r.tombs[i] = s.tombs[i]
                       /\ i # e => r.adds[i] = s.adds[i]
                       /\ i # e => \A f \in Field : r.fields[i][f] = s.fields[i][f]
      /\ r.adds[e] = IF IsVisible(s, e) THEN s.adds[e] ELSE s.adds[e] \cup {at}
  BY <1>0 DEF Upserted
<1>3. r.adds[e] # {}
  BY <1>1 DEF IsVisible, VisibleTags
<1>4. ASSUME NEW i \in Id
      PROVE  /\ r.tombs[i] = {}
             /\ r.adds[i] # {} <=> \E x \in K \cup {m} : x.entry = i
             /\ r.adds[i] = {} => \A f \in Field : r.fields[i][f] = NoRegister
  <2>1. /\ s.tombs[i] = {}
        /\ s.adds[i] # {} <=> \E x \in K : x.entry = i
        /\ s.adds[i] = {} => \A f \in Field : s.fields[i][f] = NoRegister
    BY <1>2 DEF Grown
  <2>2. CASE i = e
    BY <1>1, <1>3, <2>1, <2>2
  <2>3. CASE i # e
    <3>1. (\E x \in K \cup {m} : x.entry = i) <=> (\E x \in K : x.entry = i)
      BY <2>3
    <3> QED BY <1>1, <2>1, <2>3, <3>1
  <2> QED BY <2>2, <2>3
<1> QED BY <1>4 DEF Grown, r

\* remove_entry merges the tombstones it makes.
LEMMA RemoveIsMerge ==
    ASSUME NEW n \in Node, NEW rep, Good(rep, n), NEW e \in Id, NEW now \in Nat,
           IsVisible(rep.state, e)
    PROVE  \E c \in State : Mapped(c) /\ RemoveEntry(rep, e, now).state = MergeState(rep.state, c)
<1> DEFINE s == rep.state
           at == Tick(rep.clock, now)
           new == {[tag |-> t, at |-> at] : t \in VisibleTags(s, e)}
           r == [s EXCEPT !.tombs[e] = @ \cup new]
           adds == [i \in Id |-> {}]
           tombs == [i \in Id |-> IF i = e THEN new ELSE {}]
           fields == [i \in Id |-> [f \in Field |-> NoRegister]]
           c == [adds |-> adds, tombs |-> tombs, fields |-> fields]
<1>1. s \in State /\ rep.clock \in Timestamp /\ rep.clock.node = n
  BY DEF Good, Replica
<1>2. at \in Timestamp
  BY <1>1, TickReaches
<1>3. RemoveEntry(rep, e, now).state = r
  BY DEF RemoveEntry
<1>4. /\ VisibleTags(s, e) \subseteq s.adds[e]
      /\ \A b \in s.tombs[e] : b.tag \notin VisibleTags(s, e)
  BY DEF VisibleTags
<1> HIDE DEF at, s
<1>5. s.adds[e] \in SUBSET Timestamp /\ s.tombs[e] \in SUBSET Tombstone
  BY <1>1, StateParts
<1>6. new \in SUBSET Tombstone
  BY <1>2, <1>4, <1>5 DEF Tombstone
<1>7. /\ OnePerTag(new)
      /\ \A b \in new : b.tag \in VisibleTags(s, e)
  BY DEF OnePerTag
<1> HIDE DEF new
<1>8. /\ r.adds = s.adds /\ r.fields = s.fields /\ r \in State
      /\ \A i \in Id : r.tombs[i] = IF i = e THEN s.tombs[e] \cup new ELSE s.tombs[i]
  BY <1>1, <1>5, <1>6 DEF State
<1>9. c.adds = adds /\ c.tombs = tombs /\ c.fields = fields
  OBVIOUS
<1>10. /\ adds \in [Id -> SUBSET Timestamp] /\ tombs \in [Id -> SUBSET Tombstone]
       /\ fields \in [Id -> [Field -> Slot]]
  BY <1>6 DEF Slot
<1>11. /\ \A i \in Id : adds[i] = {} /\ tombs[i] = IF i = e THEN new ELSE {}
       /\ \A i \in Id, f \in Field : fields[i][f] = NoRegister
  OBVIOUS
<1> HIDE DEF adds, tombs, fields, r
<1>12. c \in State
  BY <1>10 DEF State, Slot
<1> HIDE DEF c
<1>13. Mapped(c)
  BY <1>7, <1>9, <1>11 DEF Mapped, OnePerTag
<1> DEFINE g == MergeState(s, c)
<1>14. /\ g \in State
       /\ \A i \in Id : g.adds[i] = s.adds[i] \cup adds[i] /\ g.tombs[i] = MergeTombs(s.tombs[i], tombs[i])
       /\ \A i \in Id, f \in Field : g.fields[i][f] = MergeRegister(s.fields[i][f], fields[i][f])
  BY <1>1, <1>9, <1>12, MergeTyped
<1> HIDE DEF g
<1>15. ASSUME NEW i \in Id PROVE r.adds[i] = g.adds[i]
  BY <1>8, <1>11, <1>14
<1>16. ASSUME NEW i \in Id PROVE r.tombs[i] = g.tombs[i]
  <2>1. CASE i = e
    <3>1. MergeTombs(s.tombs[e], new) = s.tombs[e] \cup new
      BY <1>4, <1>7 DEF MergeTombs
    <3>2. tombs[i] = new /\ g.tombs[i] = MergeTombs(s.tombs[i], tombs[i])
      BY <1>11, <1>14, <2>1
    <3>3. r.tombs[i] = s.tombs[e] \cup new
      BY <1>8, <2>1
    <3> QED BY <2>1, <3>1, <3>2, <3>3
  <2>2. CASE i # e
    <3>1. g.tombs[i] = MergeTombs(s.tombs[i], {}) /\ s.tombs[i] \in SUBSET Tombstone
      BY <1>1, <1>11, <1>14, <2>2, StateParts
    <3>2. MergeTombs(s.tombs[i], {}) = s.tombs[i]
      BY <3>1, NoTombs
    <3> QED BY <1>8, <2>2, <3>1, <3>2
  <2> QED BY <2>1, <2>2
<1>17. ASSUME NEW i \in Id, NEW f \in Field PROVE r.fields[i][f] = g.fields[i][f]
  <2>1. g.fields[i][f] = MergeRegister(s.fields[i][f], NoRegister) /\ s.fields[i][f] \in Slot
    BY <1>1, <1>11, <1>14, StateParts
  <2> QED BY <1>8, <2>1, MergeSlot
<1>18. r = g
  BY <1>8, <1>14, <1>15, <1>16, <1>17, SameState
<1> QED BY <1>3, <1>12, <1>13, <1>18 DEF s, g

\* What a mutation contributed is explained by that mutation alone.
LEMMA ExplainsOne ==
    ASSUME NEW c \in Contributions, NEW m \in Mutation
    PROVE  /\ FieldsOf(c[m.num], {m}, c)
           /\ TagsOf(c[m.num], {m}, c)
           /\ TombsOf(c[m.num], {m}, c)
<1> DEFINE s == c[m.num]
<1>1. s \in State
  BY DEF Contributions, Mutation
<1> HIDE DEF s
<1>2. ASSUME NEW e \in Id, NEW f \in Field, s.fields[e][f] # NoRegister
      PROVE  ~Less(s.fields[e][f], s.fields[e][f])
  BY <1>1, <1>2, StateParts, LessOrder DEF Slot
<1>3. FieldsOf(s, {m}, c)
  BY <1>2 DEF FieldsOf, s
<1>4. TagsOf(s, {m}, c)
  BY DEF TagsOf, s
<1>5. ASSUME NEW e \in Id, NEW b \in s.tombs[e] PROVE ~Before(b.at, b.at)
  BY <1>1, StateParts, TombParts, BeforeIrreflexive
<1>6. TombsOf(s, {m}, c)
  BY <1>5 DEF TombsOf, s
<1> QED BY <1>3, <1>4, <1>6 DEF s

\* Without removals compaction keeps every entry and every field.
LEMMA CompactGrown ==
    ASSUME NEW s \in State, NEW clock \in Timestamp, Ahead(clock, s), NEW now, NEW K, Grown(s, K)
    PROVE  /\ Grown(Compact(s, now), K)
           /\ \A e \in Id, f \in Field : Compact(s, now).fields[e][f] = s.fields[e][f]
<1> DEFINE cutoff == now - MaxAge
           r == Compact(s, now)
<1>1. ASSUME NEW e \in Id
      PROVE  LET d == CompactEntry(s, e, cutoff)
             IN  /\ d.fields[e] = s.fields[e] /\ d.tombs[e] = {}
                 /\ d.adds[e] = {} <=> s.adds[e] = {}
  <2> DEFINE a == DropTombs(s, e, cutoff)
             b == PruneAdds(a, e, cutoff)
             d == DropHidden(b, e, cutoff)
  <2>0. CompactEntry(s, e, cutoff) = d
    BY DEF CompactEntry
  <2>1. s.tombs[e] = {} /\ (s.adds[e] = {} => \A f \in Field : s.fields[e][f] = NoRegister)
    BY DEF Grown
  <2>2. a.fields[e] = s.fields[e] /\ a.adds[e] = s.adds[e] /\ a.tombs[e] = {} /\ a \in State
    <3>1. a \in State
      BY DropTombsShrinks DEF Shrunk
    <3> DEFINE stale == {t \in s.tombs[e] : t.at.wall < cutoff}
               tags == {t.tag : t \in stale}
    <3>2. a = [s EXCEPT !.tombs[e] = @ \ stale, !.adds[e] = @ \ tags]
      BY DEF DropTombs
    <3>3. stale = {} /\ tags = {}
      BY <2>1
    <3> HIDE DEF stale, tags, a
    <3>4. a.fields = s.fields /\ a.adds[e] = s.adds[e] \ tags /\ a.tombs[e] = s.tombs[e] \ stale
      BY <3>2 DEF State
    <3> QED BY <2>1, <3>1, <3>3, <3>4
  <2> HIDE DEF a, cutoff
  <2>3. VisibleTags(a, e) = s.adds[e]
    BY <2>2 DEF VisibleTags
  <2>4. b.fields[e] = s.fields[e] /\ b.tombs[e] = {} /\ b \in State
        /\ (b.adds[e] = {} <=> s.adds[e] = {})
    <3>1. b \in State
      BY <2>2, PruneAddsShrinks DEF Shrunk
    <3>2. CASE s.adds[e] = {}
      BY <2>2, <2>3, <3>1, <3>2 DEF PruneAdds, IsVisible
    <3>3. CASE s.adds[e] # {}
      <4> DEFINE last == Latest(s.adds[e])
      <4>1. last \in s.adds[e]
        <5>1. s.adds[e] \in SUBSET Timestamp /\ clock.wall \in Nat
          BY StateParts, TimestampParts
        <5>2. \A t \in s.adds[e] : t.wall <= clock.wall
          BY <5>1, TimestampParts DEF Ahead, Reached
        <5> QED BY <3>3, <5>1, <5>2, LatestExists
      <4> HIDE DEF last
      <4>2. b = [a EXCEPT !.adds[e] = {t \in @ : t = last \/ t.wall >= cutoff}]
        BY <2>3, <3>3 DEF PruneAdds, IsVisible, last
      <4>3. b.adds[e] = {t \in a.adds[e] : t = last \/ t.wall >= cutoff}
        BY <2>2, <4>2 DEF State
      <4>4. b.fields[e] = a.fields[e] /\ b.tombs[e] = a.tombs[e]
        BY <2>2, <4>2 DEF State
      <4> QED BY <2>2, <3>1, <3>3, <4>1, <4>3, <4>4
    <3> QED BY <3>2, <3>3
  <2> HIDE DEF b
  <2>5. CASE s.adds[e] # {}
    <3>1. IsVisible(b, e)
      BY <2>4, <2>5 DEF IsVisible, VisibleTags
    <3> QED BY <2>0, <2>4, <3>1 DEF DropHidden
  <2>6. CASE s.adds[e] = {}
    <3>1. Registers(b, e) = {}
      BY <2>1, <2>4, <2>6 DEF Registers
    <3>2. TimestampsOf(b, e) = {}
      BY <2>4, <2>6, <3>1 DEF TimestampsOf
    <3> QED BY <2>0, <2>4, <3>2 DEF DropHidden
  <2> QED BY <2>5, <2>6
<1>2. \A e \in Id : LET d == CompactEntry(s, e, cutoff)
                    IN  r.adds[e] = d.adds[e] /\ r.tombs[e] = d.tombs[e] /\ r.fields[e] = d.fields[e]
  BY DEF Compact
<1> HIDE DEF cutoff, r
<1>3. \A e \in Id : /\ r.fields[e] = s.fields[e] /\ r.tombs[e] = {}
                    /\ r.adds[e] = {} <=> s.adds[e] = {}
  BY <1>1, <1>2
<1>4. \A e \in Id, f \in Field : r.fields[e][f] = s.fields[e][f]
  BY <1>3
<1>5. Grown(r, K)
  BY <1>3, <1>4 DEF Grown
<1> QED BY <1>4, <1>5 DEF r

\* More may have happened to other states in the meantime.
LEMMA ExplainsLess ==
    ASSUME NEW c, NEW s, NEW K, NEW removed, NEW compacted, NEW removed2, NEW compacted2,
           removed => removed2, compacted => compacted2, Explains(c, s, K, removed, compacted)
    PROVE  Explains(c, s, K, removed2, compacted2)
BY DEF Explains

\* compact: with its fields an entry loses what explains it only if something
\* was removed as well.
LEMMA ExplainsCompacted ==
    ASSUME NEW s \in State, NEW clock \in Timestamp, Ahead(clock, s), NEW now, NEW K, NEW c,
           NEW removed, NEW compacted, NEW compacted2, compacted => compacted2,
           Compact(s, now) # s => compacted2, Explains(c, s, K, removed, compacted)
    PROVE  Explains(c, Compact(s, now), K, removed, compacted2)
<1>1. CASE Compact(s, now) = s
  BY <1>1, ExplainsLess
<1>2. CASE Compact(s, now) # s /\ removed
  BY <1>2 DEF Explains
<1>3. CASE Compact(s, now) # s /\ ~removed
  <2> DEFINE r == Compact(s, now)
  <2>1. Grown(s, K) /\ FieldsOf(s, K, c)
    BY <1>3 DEF Explains
  <2>2. Grown(r, K) /\ \A e \in Id, f \in Field : r.fields[e][f] = s.fields[e][f]
    BY <2>1, CompactGrown
  <2> HIDE DEF r
  <2>3. FieldsOf(r, K, c)
    BY <2>1, <2>2 DEF FieldsOf
  <2>4. Explains(c, r, K, removed, compacted2)
    BY <1>3, <2>2, <2>3 DEF Explains, r
  <2> QED BY <2>4 DEF r
<1> QED BY <1>1, <1>2, <1>3

\* A contribution nobody has taken in does not matter.
LEMMA ExplainsOther ==
    ASSUME NEW c, NEW d, NEW s, NEW K, \A m \in K : d[m.num] = c[m.num],
           NEW removed, NEW compacted, Explains(c, s, K, removed, compacted)
    PROVE  Explains(d, s, K, removed, compacted)
<1>1. FieldsOf(s, K, c) => FieldsOf(s, K, d)
  BY DEF FieldsOf
<1>2. TagsOf(s, K, c) => TagsOf(s, K, d)
  BY DEF TagsOf
<1>3. TombsOf(s, K, c) => TombsOf(s, K, d)
  BY DEF TombsOf
<1> QED BY <1>1, <1>2, <1>3 DEF Explains

LEMMA ExplainsNew ==
    ASSUME NEW n \in Node, NEW c, NEW removed, NEW compacted
    PROVE  Explains(c, NewReplica(n).state, {}, removed, compacted)
<1> DEFINE s == NewReplica(n).state
<1>1. /\ \A e \in Id : s.adds[e] = {} /\ s.tombs[e] = {}
      /\ \A e \in Id, f \in Field : s.fields[e][f] = NoRegister
  BY DEF NewReplica
<1> HIDE DEF s
<1>2. FieldsOf(s, {}, c) /\ TagsOf(s, {}, c) /\ TombsOf(s, {}, c) /\ Grown(s, {})
  BY <1>1 DEF FieldsOf, TagsOf, TombsOf, Grown
<1> QED BY <1>2 DEF Explains, s

\* The same mutations give the same registers.
LEMMA SameFields ==
    ASSUME NEW s \in State, NEW t \in State, NEW c \in Contributions, NEW K \in SUBSET Mutation,
           FieldsOf(s, K, c), FieldsOf(t, K, c), NEW e \in Id, NEW f \in Field
    PROVE  s.fields[e][f] = t.fields[e][f]
<1> DEFINE a == s.fields[e][f]
           b == t.fields[e][f]
           G(m) == c[m.num].fields[e][f]
<1>1. /\ a = NoRegister => \A m \in K : G(m) = NoRegister
      /\ a # NoRegister => /\ \E m \in K : G(m) = a
                           /\ \A m \in K : G(m) # NoRegister => ~Less(a, G(m))
  BY DEF FieldsOf
<1>2. /\ b = NoRegister => \A m \in K : G(m) = NoRegister
      /\ b # NoRegister => /\ \E m \in K : G(m) = b
                           /\ \A m \in K : G(m) # NoRegister => ~Less(b, G(m))
  BY DEF FieldsOf
<1>3. a \in Slot /\ b \in Slot
  BY StateParts
<1> HIDE DEF a, b, G
<1>4. a = NoRegister <=> b = NoRegister
  BY <1>1, <1>2
<1>5. CASE a # NoRegister
  <2>1. ~Less(a, b) /\ ~Less(b, a)
    BY <1>1, <1>2, <1>4, <1>5
  <2> QED BY <1>3, <1>4, <1>5, <2>1, LessOrder DEF Slot, a, b
<1> QED BY <1>4, <1>5 DEF a, b

\* And the same tombstones.
LEMMA SameTombs ==
    ASSUME NEW s \in State, NEW t \in State, Mapped(s), Mapped(t), NEW c \in Contributions,
           NEW K \in SUBSET Mutation, TombsOf(s, K, c), TombsOf(t, K, c), NEW e \in Id
    PROVE  s.tombs[e] \subseteq t.tombs[e]
<1> SUFFICES ASSUME NEW x \in s.tombs[e] PROVE x \in t.tombs[e]
  OBVIOUS
<1>1. s.tombs[e] \in SUBSET Tombstone /\ t.tombs[e] \in SUBSET Tombstone /\ OnePerTag(s.tombs[e])
  BY StateParts DEF Mapped
<1>2. PICK m \in K : x \in c[m.num].tombs[e]
  BY DEF TombsOf
<1>3. PICK u \in t.tombs[e] : u.tag = x.tag /\ ~Before(u.at, x.at)
  BY <1>2 DEF TombsOf
<1>4. PICK k \in K : u \in c[k.num].tombs[e]
  BY DEF TombsOf
<1>5. PICK v \in s.tombs[e] : v.tag = u.tag /\ ~Before(v.at, u.at)
  BY <1>4 DEF TombsOf
<1>6. v = x
  BY <1>1, <1>3, <1>5 DEF OnePerTag
<1>7. u = x
  BY <1>1, <1>3, <1>5, <1>6, SameTomb
<1> QED BY <1>7

\* Two states with the same mutations show the same.
LEMMA SameView ==
    ASSUME NEW s \in State, NEW t \in State, Mapped(s), Mapped(t), NEW c \in Contributions,
           NEW K \in SUBSET Mutation, NEW removed, NEW compacted, ~removed \/ ~compacted,
           Explains(c, s, K, removed, compacted), Explains(c, t, K, removed, compacted)
    PROVE  View(s) = View(t)
<1>1. \A e \in Id, f \in Field : s.fields[e][f] = t.fields[e][f]
  BY SameFields DEF Explains
<1>2. ASSUME NEW e \in Id PROVE IsVisible(s, e) <=> IsVisible(t, e)
  <2>1. CASE ~removed
    <3>1. Grown(s, K) /\ Grown(t, K)
      BY <2>1 DEF Explains
    <3>2. VisibleTags(s, e) = s.adds[e] /\ VisibleTags(t, e) = t.adds[e]
      BY <3>1 DEF Grown, VisibleTags
    <3> QED BY <3>1, <3>2 DEF Grown, IsVisible
  <2>2. CASE ~compacted
    <3>1. TagsOf(s, K, c) /\ TagsOf(t, K, c) /\ TombsOf(s, K, c) /\ TombsOf(t, K, c)
      BY <2>2 DEF Explains
    <3>2. s.tombs[e] = t.tombs[e]
      <4>1. s.tombs[e] \subseteq t.tombs[e] /\ t.tombs[e] \subseteq s.tombs[e]
        BY <3>1, SameTombs
      <4> QED BY <4>1
    <3>3. s.adds[e] = t.adds[e]
      <4>1. /\ \A x \in s.adds[e] : \E m \in K : x \in c[m.num].adds[e]
            /\ \A m \in K : c[m.num].adds[e] \subseteq s.adds[e]
        BY <3>1 DEF TagsOf
      <4>2. /\ \A x \in t.adds[e] : \E m \in K : x \in c[m.num].adds[e]
            /\ \A m \in K : c[m.num].adds[e] \subseteq t.adds[e]
        BY <3>1 DEF TagsOf
      <4> QED BY <4>1, <4>2
    <3>4. VisibleTags(s, e) = VisibleTags(t, e)
      BY <3>2, <3>3 DEF VisibleTags
    <3> QED BY <3>4 DEF IsVisible
  <2> QED BY <2>1, <2>2
<1> DEFINE S == {i \in Id : IsVisible(s, i)}
           V(x, e) == [f \in Field |-> IF x.fields[e][f] = NoRegister THEN NoRegister
                                       ELSE x.fields[e][f].value]
<1>3. S = {i \in Id : IsVisible(t, i)}
  BY <1>2
<1>4. \A e \in S : V(s, e) = V(t, e)
  BY <1>1
<1>5. View(s) = [e \in S |-> V(s, e)]
  BY DEF View
<1>6. View(t) = [e \in S |-> V(t, e)]
  BY <1>3 DEF View
<1> HIDE DEF S, V
<1> QED BY <1>4, <1>5, <1>6

-----------------------------------------------------------------------------
(* Every replica and every envelope is explained by the mutations it has   *)
(* taken in, all by the same contributions.                                *)

Flags == [removed : BOOLEAN, compacted : BOOLEAN]

Explained(c, s, K) ==
    /\ Explains(c, s, K, lossy.removed, lossy.compacted)
    /\ \A m \in K : m.num <= count.mutations

Recorded(c) ==
    /\ \A n \in Node : Explained(c, replica[n].state, known[n])
    /\ \A a \in Sendable : Made(a) => Explained(c, a.state, a.known)

History == lossy \in Flags /\ \E c \in Contributions : Recorded(c)

\* A step that explains what it changes.
LEMMA RecordedStep ==
    ASSUME SyncTyped, SyncTyped', NEW c, NEW d, Recorded(c),
           \A i \in Nat : i <= count.mutations => d[i] = c[i],
           lossy.removed => lossy'.removed, lossy.compacted => lossy'.compacted,
           count.mutations <= count'.mutations,
           \A n \in Node : \/ replica'[n].state = replica[n].state /\ known'[n] = known[n]
                           \/ Explained(d, replica[n].state, known[n])',
           \A a \in Sendable : Made(a)' => Made(a) \/ Explained(d, a.state, a.known)'
    PROVE  Recorded(d)'
<1>1. count.mutations \in Nat /\ count'.mutations \in Nat
  BY DEF SyncTyped
<1>2. ASSUME NEW s, NEW K \in SUBSET Mutation, Explained(c, s, K)
      PROVE  Explained(d, s, K)'
  <2>1. \A m \in K : m.num \in Nat /\ m.num <= count.mutations
    BY <1>2 DEF Explained, Mutation
  <2>2. \A m \in K : d[m.num] = c[m.num] /\ m.num <= count'.mutations
    BY <1>1, <2>1
  <2>3. Explains(d, s, K, lossy.removed, lossy.compacted)
    BY <1>2, <2>2, ExplainsOther DEF Explained
  <2>4. Explains(d, s, K, lossy'.removed, lossy'.compacted)
    BY <2>3, ExplainsLess
  <2> QED BY <2>2, <2>4 DEF Explained
<1>3. ASSUME NEW n \in Node PROVE Explained(d, replica[n].state, known[n])'
  <2>1. CASE replica'[n].state = replica[n].state /\ known'[n] = known[n]
    <3>1. Explained(c, replica[n].state, known[n]) /\ known[n] \in SUBSET Mutation
      BY DEF Recorded, SyncTyped
    <3> DEFINE s == replica[n].state
               K == known[n]
    <3>2. Explained(d, s, K)'
      BY <1>2, <3>1, <2>1
    <3> QED BY <3>2
  <2> QED BY <2>1
<1>4. ASSUME NEW a \in Sendable, Made(a)' PROVE Explained(d, a.state, a.known)'
  <2>1. CASE Made(a)
    <3>1. Explained(c, a.state, a.known) /\ a.known \in SUBSET Mutation
      BY <2>1, SendableParts DEF Recorded
    <3> QED BY <1>2, <3>1
  <2> QED BY <1>4, <2>1
<1> QED BY <1>3, <1>4 DEF Recorded

\* A step that only passes envelopes on.
LEMMA MadeKept ==
    ASSUME SyncTyped,
           \A n \in Node : ready'[n] \subseteq ready[n],
           \A n \in Node : pending'[n] = NoEnvelope \/ pending'[n] = pending[n] \/ pending'[n] \in ready[n],
           \A n \in Node : \/ worker'[n].envelope = NoEnvelope
                           \/ worker'[n].envelope = worker[n].envelope
                           \/ worker'[n].envelope = pending[n],
           \A q \in net' : \/ \E r \in net : q.envelope = r.envelope
                           \/ \E n \in Node : q.envelope = pending[n]
    PROVE  \A a \in Sendable : Made(a)' => Made(a)
<1> SUFFICES ASSUME NEW a \in Sendable, Made(a)' PROVE Made(a)
  OBVIOUS
<1>1. a # NoEnvelope
  BY SyncParts
<1>2. CASE \E n \in Node : a = pending'[n]
  BY <1>1, <1>2 DEF Made, Sent
<1>3. CASE \E n \in Node : a = worker'[n].envelope
  BY <1>1, <1>3 DEF Made, Sent
<1>4. CASE \E q \in net' : a = q.envelope
  BY <1>4 DEF Made, Sent
<1>5. CASE \E n \in Node : a \in ready'[n]
  BY <1>5 DEF Made
<1> QED BY <1>2, <1>3, <1>4, <1>5 DEF Made, Sent

\* What the retry worker, the network and the receiver's cache do.
LEMMA PassedOn ==
    ASSUME SyncTyped, NEW q \in net,
           Timeout(q) \/ Refuse(q) \/ CheckSeen(q) \/ Record(q)
    PROVE  /\ \A a \in Sendable : Made(a)' => Made(a)
           /\ UNCHANGED <<replica, known, lossy>> /\ count'.mutations = count.mutations
<1>1. q \in Request /\ q.envelope.from \in Node
  BY RequestParts, SyncParts
<1>2. UNCHANGED <<replica, known, lossy, ready, pending>> /\ count'.mutations = count.mutations
  BY DEF Timeout, Refuse, CheckSeen, Record, Fault, SyncTyped
<1>3. Orphan(q).envelope = q.envelope /\ [q EXCEPT !.step = "fresh"].envelope = q.envelope
  BY <1>1 DEF Request, Orphan
<1>4. \A w \in Sending : [w EXCEPT !.taken = TRUE].envelope = w.envelope
  BY DEF Sending
<1>5. NoSending.envelope = NoEnvelope
  BY DEF NoSending
<1>6. worker \in [Node -> Sending]
  BY DEF SyncTyped
<1>7. ASSUME NEW success, Answer(q, success)
      PROVE  \A n \in Node : worker'[n].envelope \in {NoEnvelope, worker[n].envelope}
  BY <1>1, <1>4, <1>5, <1>6, <1>7 DEF Answer
<1>8. \A n \in Node : worker'[n].envelope \in {NoEnvelope, worker[n].envelope}
  <2>1. CASE Timeout(q)
    BY <1>1, <1>5, <1>6, <2>1 DEF Timeout
  <2>2. CASE Refuse(q)
    BY <1>7, <2>2 DEF Refuse
  <2>3. CASE CheckSeen(q)
    <3>1. Answer(q, TRUE) \/ UNCHANGED worker
      BY <2>3 DEF CheckSeen
    <3> QED BY <1>7, <3>1
  <2>4. CASE Record(q)
    <3>1. \E success : Answer(q, success)
      BY <2>4 DEF Record
    <3> QED BY <1>7, <3>1
  <2> QED BY <2>1, <2>2, <2>3, <2>4
<1>9. \A p \in net' : \E r \in net : p.envelope = r.envelope
  <2>1. ASSUME NEW success, Answer(q, success) PROVE net' \subseteq net
    BY <2>1 DEF Answer
  <2>2. CASE Timeout(q)
    BY <1>3, <2>2 DEF Timeout
  <2>3. CASE Refuse(q)
    BY <2>1, <2>3 DEF Refuse
  <2>4. CASE CheckSeen(q)
    <3>1. Answer(q, TRUE) \/ net' = (net \ {q}) \cup {[q EXCEPT !.step = "fresh"]}
      BY <2>4 DEF CheckSeen, Advance
    <3> QED BY <1>3, <2>1, <3>1
  <2>5. CASE Record(q)
    <3>1. \E success : Answer(q, success)
      BY <2>5 DEF Record
    <3> QED BY <2>1, <3>1
  <2> QED BY <2>2, <2>3, <2>4, <2>5
<1>10. \A a \in Sendable : Made(a)' => Made(a)
  BY <1>2, <1>8, <1>9, MadeKept
<1> QED BY <1>2, <1>10

LEMMA NodePassesOn ==
    ASSUME SyncTyped, NEW n \in Node, Store(n) \/ Post(n) \/ ClearPending(n)
    PROVE  /\ \A a \in Sendable : Made(a)' => Made(a)
           /\ UNCHANGED <<replica, known, lossy>> /\ count'.mutations = count.mutations
<1>1. UNCHANGED <<replica, known, lossy, count>>
  BY DEF Store, StorePending, Post, Send, ClearPending
<1>2. NoSending.envelope = NoEnvelope
  BY DEF NoSending
<1>3. /\ worker \in [Node -> Sending] /\ pending \in [Node -> Sendable \cup {NoEnvelope}]
      /\ ready \in [Node -> SUBSET Sendable]
  BY DEF SyncTyped
<1>4. CASE Store(n)
  <2>1. PICK env \in ready[n] : StorePending(n, env)
    BY <1>4 DEF Store
  <2> QED BY <1>1, <1>3, <2>1, MadeKept DEF StorePending
<1>5. CASE Post(n)
  <2>1. PICK peer : Send(n, peer)
    BY <1>5 DEF Post
  <2>2. \A m \in Node : worker'[m].envelope \in {worker[m].envelope, pending[m]}
    BY <1>3, <2>1 DEF Send, Sending
  <2>3. \A q \in net' : (\E r \in net : q.envelope = r.envelope) \/ \E m \in Node : q.envelope = pending[m]
    BY <2>1 DEF Send
  <2>4. UNCHANGED <<ready, pending>>
    BY <2>1 DEF Send
  <2> QED BY <1>1, <2>2, <2>3, <2>4, MadeKept
<1>6. CASE ClearPending(n)
  <2>1. \A m \in Node : pending'[m] \in {NoEnvelope, pending[m]}
    BY <1>3, <1>6 DEF ClearPending
  <2>2. \A m \in Node : worker'[m].envelope \in {NoEnvelope, worker[m].envelope}
    BY <1>2, <1>3, <1>6 DEF ClearPending
  <2>3. UNCHANGED <<ready, net>>
    BY <1>6 DEF ClearPending
  <2> QED BY <1>1, <2>1, <2>2, <2>3, MadeKept
<1> QED BY <1>4, <1>5, <1>6

LEMMA RestartPassesOn ==
    ASSUME SyncTyped, NEW n \in Node, Restart(n)
    PROVE  \A a \in Sendable : Made(a)' => Made(a)
<1>1. NoSending.envelope = NoEnvelope
  BY DEF NoSending
<1>2. /\ worker \in [Node -> Sending] /\ pending \in [Node -> Sendable \cup {NoEnvelope}]
      /\ ready \in [Node -> SUBSET Sendable]
  BY DEF SyncTyped
<1>3. \A m \in Node : ready'[m] \subseteq ready[m] /\ pending'[m] \in {NoEnvelope, pending[m]}
  BY <1>2 DEF Restart
<1>4. \A m \in Node : worker'[m].envelope \in {NoEnvelope, worker[m].envelope}
  BY <1>1 DEF Restart
<1>5. ASSUME NEW p \in net' PROVE \E r \in net : p.envelope = r.envelope
  <2>1. PICK r \in net : p = IF r.envelope.from = n THEN Orphan(r) ELSE r
    BY DEF Restart
  <2>2. Orphan(r).envelope = r.envelope
    BY RequestParts DEF Request, Orphan
  <2> QED BY <2>1, <2>2
<1> QED BY <1>3, <1>4, <1>5, MadeKept

\* apply_local_mutation contributes what it merges, under its own number.
LEMMA ApplyRecorded ==
    ASSUME SyncTyped, SyncTyped', History, NEW n \in Node, NEW e \in Id, NEW now \in Nat,
           NEW after, Good(after, n), NEW new \in State, Mapped(new),
           after.state = MergeState(replica[n].state, new), NEW removes \in BOOLEAN,
           \A K \in SUBSET Mutation, m \in Mutation :
               ~removes /\ Grown(replica[n].state, K) /\ m.entry = e =>
                   Grown(after.state, K \cup {m}),
           Apply(n, e, after, now, removes)
    PROVE  History'
<1> DEFINE num == count.mutations + 1
           s == replica[n].state
           K == known[n]
           x == after.state
           kept == Compact(x, now)
           m == [num |-> num, entry |-> e]
           facts == K \cup {m}
           env == [num |-> num, from |-> n, state |-> kept, known |-> facts]
<1>1. PICK c \in Contributions : Recorded(c)
  BY DEF History
<1>2. /\ lossy \in Flags /\ count.mutations \in Nat /\ num \in Nat /\ count'.mutations = num
      /\ K \in SUBSET Mutation /\ \A i \in Node : replica[i].state \in State
  BY DEF History, SyncTyped, Apply, Replica
<1>3. /\ s \in State /\ Mapped(s) /\ x \in State /\ after.clock \in Timestamp /\ Ahead(after.clock, x)
  BY DEF SyncTyped, Good, Replica
<1>4. /\ UNCHANGED <<pending, worker, net>>
      /\ replica \in [Node -> Replica] /\ known \in [Node -> SUBSET Mutation]
      /\ ready \in [Node -> SUBSET Sendable]
  BY DEF Apply, SyncTyped
<1>5. CASE x = s
  <2>1. replica' = [replica EXCEPT ![n] = after] /\ UNCHANGED <<ready, known, lossy>>
    BY <1>5 DEF Apply
  <2>2. \A i \in Node : replica'[i].state = replica[i].state
    BY <1>4, <1>5, <2>1
  <2>3. \A a \in Sendable : Made(a)' => Made(a)
    BY <1>4, <2>1 DEF Made, Sent
  <2>4. Recorded(c)'
    BY <1>1, <1>2, <2>1, <2>2, <2>3, RecordedStep
  <2> QED BY <1>1, <1>2, <2>1, <2>4 DEF History
<1>6. CASE x # s
  <2> DEFINE removed == lossy.removed \/ removes
             compacted == lossy.compacted \/ kept # x
  <2>1. /\ replica' = [replica EXCEPT ![n] = [after EXCEPT !.state = kept]]
        /\ known' = [known EXCEPT ![n] = facts]
        /\ ready' = [ready EXCEPT ![n] = @ \cup {env}]
        /\ lossy' = [removed |-> removed, compacted |-> compacted]
    BY <1>6 DEF Apply
  <2>2. m \in Mutation /\ m.entry = e /\ m.num = num
    BY <1>2 DEF Mutation
  <2>3. PICK d \in Contributions : d[num] = new /\ \A i \in Nat : i # num => d[i] = c[i]
    <3> DEFINE D == [c EXCEPT ![num] = new]
    <3>1. D \in Contributions /\ D[num] = new /\ \A i \in Nat : i # num => D[i] = c[i]
      BY <1>2 DEF Contributions
    <3> QED BY <3>1
  <2>4. \A i \in Nat : i <= count.mutations => d[i] = c[i]
    BY <1>2, <2>3
  <2>5. lossy'.removed = removed /\ lossy'.compacted = compacted /\ lossy' \in Flags
    BY <2>1 DEF Flags
  <2>6. \A k \in K : k.num \in Nat /\ k.num <= count.mutations
    BY <1>1, <1>2 DEF Recorded, Explained, Mutation
  <2>7. Explains(d, s, K, lossy.removed, lossy.compacted)
    <3>1. Explains(c, s, K, lossy.removed, lossy.compacted)
      BY <1>1 DEF Recorded, Explained
    <3>2. \A k \in K : d[k.num] = c[k.num]
      BY <2>4, <2>6
    <3> HIDE DEF s, K
    <3> QED BY <3>1, <3>2, ExplainsOther
  <2>8. replica'[n].state = kept /\ \A i \in Node \ {n} : replica'[i] = replica[i]
    BY <1>4, <2>1 DEF Good, Replica
  <2>9. known'[n] = facts /\ \A i \in Node \ {n} : known'[i] = known[i]
    BY <1>4, <2>1
  <2>10. \A i \in Node : \A a \in ready'[i] : a \in ready[i] \/ a = env
    BY <1>4, <2>1
  <2>11. env.state = kept /\ env.known = facts
    OBVIOUS
  <2>12. x = MergeState(s, new) /\ \A L \in SUBSET Mutation :
             ~removes /\ Grown(s, L) => Grown(x, L \cup {m})
    BY <2>2
  <2>13. /\ kept = Compact(x, now) /\ facts = K \cup {m}
         /\ (lossy.removed => removed) /\ (removes => removed)
         /\ (lossy.compacted => compacted) /\ (kept # x => compacted)
         /\ (removed => lossy.removed \/ removes)
    OBVIOUS
  <2> HIDE DEF num, s, K, x, m, removed, compacted, env, kept, facts
  <2>14. FieldsOf(new, {m}, d) /\ TagsOf(new, {m}, d) /\ TombsOf(new, {m}, d)
    BY <2>2, <2>3, ExplainsOne
  <2>15. {m} \in SUBSET Mutation
    BY <2>2
  <2>16. Explains(d, x, facts, removed, lossy.compacted)
    <3>1. ~removed \/ ~lossy.compacted => FieldsOf(x, facts, d)
      <4>1. ~removed \/ ~lossy.compacted => FieldsOf(s, K, d)
        BY <2>7, <2>13 DEF Explains
      <4> QED BY <1>2, <1>3, <2>3, <2>12, <2>13, <2>14, <2>15, <4>1, FieldsMerge
    <3>2. ~lossy.compacted => TagsOf(x, facts, d)
      <4>1. ~lossy.compacted => TagsOf(s, K, d)
        BY <2>7 DEF Explains
      <4> QED BY <1>3, <2>12, <2>13, <2>14, <4>1, TagsMerge
    <3>3. ~lossy.compacted => TombsOf(x, facts, d)
      <4>1. ~lossy.compacted => TombsOf(s, K, d)
        BY <2>7 DEF Explains
      <4> QED BY <1>2, <1>3, <2>3, <2>12, <2>13, <2>14, <2>15, <4>1, TombsMerge
    <3>4. ~removed => Grown(x, facts)
      BY <1>2, <2>7, <2>12, <2>13 DEF Explains
    <3> QED BY <3>1, <3>2, <3>3, <3>4 DEF Explains
  <2>17. Explains(d, kept, facts, removed, compacted)
    BY <1>3, <2>13, <2>16, ExplainsCompacted
  <2>18. \A k \in facts : k.num <= count'.mutations
    BY <1>2, <2>2, <2>6, <2>13 DEF num
  <2>19. \A i \in Node : \/ replica'[i].state = replica[i].state /\ known'[i] = known[i]
                         \/ Explained(d, replica[i].state, known[i])'
    BY <2>5, <2>8, <2>9, <2>17, <2>18 DEF Explained
  <2>20. \A a \in Sendable : Made(a)' => Made(a) \/ Explained(d, a.state, a.known)'
    <3> SUFFICES ASSUME NEW a \in Sendable, Made(a)' PROVE Made(a) \/ a = env
      BY <2>5, <2>11, <2>17, <2>18 DEF Explained
    <3> QED BY <1>4, <2>10 DEF Made, Sent
  <2>21. Recorded(d)'
    BY <1>1, <1>2, <2>4, <2>5, <2>13, <2>19, <2>20, RecordedStep DEF num
  <2> QED BY <2>3, <2>5, <2>21 DEF History
<1> QED BY <1>5, <1>6

\* receive_envelope takes in what the envelope's sender knew.
LEMMA ReceiveRecorded ==
    ASSUME SyncTyped, SyncTyped', History, NEW q \in net, NEW now \in Nat, Receive(q, now)
    PROVE  History'
<1> DEFINE n == q.to
           s == replica[n].state
           env == q.envelope
           after == MergeAt(replica[n], env.state, now)
           x == after.state
           kept == Compact(x, now)
           K == known[n]
           facts == K \cup env.known
<1>1. PICK c \in Contributions : Recorded(c)
  BY DEF History
<1>2. n \in Node /\ env \in Sendable /\ q \in Request
  BY RequestParts
<1>3. env.state \in State /\ Mapped(env.state) /\ env.known \in SUBSET Mutation
  BY <1>2, SendableParts DEF Sendable
<1>4. /\ s \in State /\ Mapped(s) /\ K \in SUBSET Mutation /\ Good(replica[n], n)
      /\ replica \in [Node -> Replica] /\ known \in [Node -> SUBSET Mutation]
      /\ count.mutations \in Nat /\ lossy \in Flags
  BY <1>2 DEF SyncTyped, Good, Replica, History
<1>5. Good(after, n)
  <2>1. PICK clock \in Timestamp : Ahead(clock, env.state)
    BY <1>2 DEF Sendable
  <2> QED BY <1>2, <1>3, <1>4, <2>1, MergeGood
<1>6. x = MergeState(s, env.state)
  BY DEF MergeAt
<1>7. /\ replica' = [replica EXCEPT ![n] = [after EXCEPT !.state = kept]]
      /\ known' = [known EXCEPT ![n] = facts]
      /\ lossy' = [lossy EXCEPT !.compacted = @ \/ kept # x]
      /\ net' = (net \ {q}) \cup {[q EXCEPT !.step = "merged"]}
      /\ UNCHANGED <<ready, pending, worker, count>>
  BY DEF Receive, Advance
<1>8. [q EXCEPT !.step = "merged"].envelope = env
  BY <1>2 DEF Request
<1>9. \A a \in Sendable : Made(a)' => Made(a)
  BY <1>7, <1>8, MadeKept
<1>10. Made(env)
  BY DEF Made, Sent
<1> HIDE DEF after
<1>11. /\ x \in State /\ after.clock \in Timestamp /\ Ahead(after.clock, x)
       /\ [after EXCEPT !.state = kept].state = kept
  BY <1>5 DEF Good, Replica
<1>12. /\ lossy' \in Flags /\ lossy'.removed = lossy.removed
       /\ lossy.compacted => lossy'.compacted
       /\ kept # x => lossy'.compacted
  BY <1>4, <1>7 DEF Flags
<1>13. Explains(c, x, facts, lossy.removed, lossy.compacted)
  <2>1. /\ Explains(c, s, K, lossy.removed, lossy.compacted)
        /\ Explains(c, env.state, env.known, lossy.removed, lossy.compacted)
    BY <1>1, <1>2, <1>10 DEF Recorded, Explained
  <2> HIDE DEF s, x, K, env
  <2> QED BY <1>3, <1>4, <1>6, <2>1, ExplainsMerge
<1>14. Explains(c, kept, facts, lossy'.removed, lossy'.compacted)
  <2> HIDE DEF x, facts
  <2> QED BY <1>11, <1>12, <1>13, ExplainsCompacted
<1>15. \A k \in facts : k.num <= count'.mutations
  BY <1>1, <1>2, <1>7, <1>10 DEF Recorded, Explained
<1>16. /\ replica'[n].state = kept /\ known'[n] = facts
       /\ \A i \in Node \ {n} : replica'[i] = replica[i] /\ known'[i] = known[i]
  BY <1>2, <1>4, <1>7, <1>11
<1> HIDE DEF n, env, x, kept, K, facts
<1>17. \A i \in Node : \/ replica'[i].state = replica[i].state /\ known'[i] = known[i]
                       \/ Explained(c, replica[i].state, known[i])'
  BY <1>14, <1>15, <1>16 DEF Explained
<1>18. Recorded(c)'
  BY <1>1, <1>4, <1>7, <1>9, <1>12, <1>17, RecordedStep
<1> QED BY <1>1, <1>12, <1>18 DEF History

\* A restarted node knows nothing and has nothing.
LEMMA RestartRecorded ==
    ASSUME SyncTyped, SyncTyped', History, NEW n \in Node, Restart(n)
    PROVE  History'
<1>1. PICK c \in Contributions : Recorded(c)
  BY DEF History
<1>2. /\ replica \in [Node -> Replica] /\ known \in [Node -> SUBSET Mutation]
      /\ count.mutations \in Nat /\ lossy \in Flags
  BY DEF SyncTyped, History
<1>3. /\ replica'[n] = NewReplica(n) /\ known'[n] = {} /\ UNCHANGED lossy
      /\ \A i \in Node \ {n} : replica'[i] = replica[i] /\ known'[i] = known[i]
      /\ count'.mutations = count.mutations
  BY <1>2 DEF Restart, Fault, SyncTyped
<1>4. Explains(c, NewReplica(n).state, {}, lossy'.removed, lossy'.compacted)
  BY ExplainsNew
<1>5. \A i \in Node : \/ replica'[i].state = replica[i].state /\ known'[i] = known[i]
                      \/ Explained(c, replica[i].state, known[i])'
  BY <1>3, <1>4 DEF Explained
<1>6. \A a \in Sendable : Made(a)' => Made(a)
  BY RestartPassesOn
<1>7. Recorded(c)'
  BY <1>1, <1>2, <1>3, <1>5, <1>6, RecordedStep
<1> QED BY <1>1, <1>2, <1>3, <1>7 DEF History

LEMMA OtherRecorded ==
    ASSUME SyncTyped, SyncTyped', History, UNCHANGED <<replica, known, lossy>>,
           count'.mutations = count.mutations, \A a \in Sendable : Made(a)' => Made(a)
    PROVE  History'
<1>1. PICK c \in Contributions : Recorded(c)
  BY DEF History
<1>2. count.mutations \in Nat
  BY DEF SyncTyped
<1>3. Recorded(c)'
  BY <1>1, <1>2, RecordedStep
<1> QED BY <1>1, <1>3 DEF History

LEMMA InitRecorded == Init => History
<1> SUFFICES ASSUME Init PROVE History
  OBVIOUS
<1>1. SyncTyped
  BY InitTyped
<1>2. NoSending.envelope = NoEnvelope
  BY DEF NoSending
<1>3. \A a \in Sendable : ~Made(a)
  BY <1>1, <1>2, SyncParts DEF Init, Made, Sent
<1>4. \E c : c \in Contributions
  <2> DEFINE none == [adds |-> [e \in Id |-> {}], tombs |-> [e \in Id |-> {}],
                      fields |-> [e \in Id |-> [f \in Field |-> NoRegister]]]
  <2>1. none \in State
    BY DEF State
  <2> HIDE DEF none
  <2>2. [i \in Nat |-> none] \in Contributions
    BY <2>1 DEF Contributions
  <2> QED BY <2>2
<1>5. PICK c : c \in Contributions
  BY <1>4
<1>6. ASSUME NEW n \in Node PROVE Explained(c, replica[n].state, known[n])
  <2>1. replica[n].state = NewReplica(n).state /\ known[n] = {}
    BY DEF Init
  <2> QED BY <2>1, ExplainsNew DEF Explained
<1>7. Recorded(c)
  BY <1>3, <1>6 DEF Recorded
<1>8. lossy \in Flags
  BY DEF Init, Flags
<1> QED BY <1>5, <1>7, <1>8 DEF History

LEMMA StepRecorded == SyncTyped /\ SyncTyped' /\ History /\ [Next]_vars => History'
<1> SUFFICES ASSUME SyncTyped, SyncTyped', History, [Next]_vars PROVE History'
  OBVIOUS
<1>0. \A now \in Time : now \in Nat
  BY SyncAssumption
<1>1. ASSUME NEW n \in Node, NEW e \in Id, NEW now \in Time, NEW fs \in SUBSET Field,
             UpsertEntry(n, e, fs, now)
      PROVE  History'
  <2> DEFINE values == [f \in fs |-> count.mutations + 1]
             after == Upsert(replica[n], e, values, now)
  <2>1. Apply(n, e, after, now, FALSE)
    BY <1>1 DEF UpsertEntry
  <2>2. count.mutations + 1 \in Value
    <3>1. count.mutations < MaxMutations
      BY <2>1 DEF Apply
    <3>2. count.mutations + 1 \in 1 .. MaxMutations
      BY <3>1, SyncAssumption DEF SyncTyped
    <3> QED BY <3>2, SyncAssumption
  <2>3. values \in [fs -> Value]
    BY <2>2
  <2>4. Good(replica[n], n)
    BY DEF SyncTyped
  <2> HIDE DEF values
  <2>5. Good(after, n)
    BY <1>0, <2>3, <2>4, UpsertGood
  <2>6. PICK new \in State : Mapped(new) /\ after.state = MergeState(replica[n].state, new)
    BY <1>0, <2>3, <2>4, UpsertIsMerge
  <2>7. \A K \in SUBSET Mutation, m \in Mutation :
            ~FALSE /\ Grown(replica[n].state, K) /\ m.entry = e => Grown(after.state, K \cup {m})
    BY <1>0, <2>3, <2>4, UpsertGrown
  <2> HIDE DEF after
  <2> QED BY <1>0, <2>1, <2>5, <2>6, <2>7, ApplyRecorded
<1>2. ASSUME NEW n \in Node, NEW e \in Id, NEW now \in Time, Remove(n, e, now)
      PROVE  History'
  <2> DEFINE after == RemoveEntry(replica[n], e, now)
  <2>1. Apply(n, e, after, now, TRUE) /\ IsVisible(replica[n].state, e)
    BY <1>2 DEF Remove
  <2>2. Good(replica[n], n)
    BY DEF SyncTyped
  <2>3. Good(after, n)
    BY <1>0, <2>2, RemoveGood
  <2>4. PICK new \in State : Mapped(new) /\ after.state = MergeState(replica[n].state, new)
    BY <1>0, <2>1, <2>2, RemoveIsMerge
  <2> HIDE DEF after
  <2>5. \A K \in SUBSET Mutation, m \in Mutation :
            ~TRUE /\ Grown(replica[n].state, K) /\ m.entry = e => Grown(after.state, K \cup {m})
    OBVIOUS
  <2> QED BY <1>0, <2>1, <2>3, <2>4, <2>5, ApplyRecorded
<1>3. ASSUME NEW n \in Node, Mutate(n) \/ Store(n) \/ Post(n) \/ ClearPending(n) \/ Restart(n)
      PROVE  History'
  <2>1. CASE Mutate(n)
    BY <1>1, <1>2, <2>1 DEF Mutate
  <2>2. CASE Store(n) \/ Post(n) \/ ClearPending(n)
    BY <2>2, NodePassesOn, OtherRecorded
  <2> QED BY <1>3, <2>1, <2>2, RestartRecorded
<1>4. ASSUME NEW q \in net, Timeout(q) \/ Refuse(q) \/ CheckSeen(q) \/ Record(q)
      PROVE  History'
  BY <1>4, PassedOn, OtherRecorded
<1>5. ASSUME NEW q \in net, NEW now \in Time, Receive(q, now)
      PROVE  History'
  BY <1>0, <1>5, ReceiveRecorded
<1>6. ASSUME NEW n \in Node, NEW num \in seen[n], ExpireSeen(n, num)
      PROVE  History'
  <2>1. UNCHANGED <<replica, ready, pending, worker, net, known, lossy>> /\ count'.mutations = count.mutations
    BY <1>6 DEF ExpireSeen, Fault, SyncTyped
  <2>2. \A a \in Sendable : Made(a)' => Made(a)
    BY <2>1 DEF Made, Sent
  <2> QED BY <2>1, <2>2, OtherRecorded
<1>7. ASSUME UNCHANGED vars PROVE History'
  <2>1. \A a \in Sendable : Made(a)' => Made(a)
    BY <1>7 DEF vars, Made, Sent
  <2> QED BY <1>7, <2>1, OtherRecorded DEF vars
<1> QED BY <1>3, <1>4, <1>5, <1>6, <1>7 DEF Next

\* Some contributions of the mutations explain every replica and envelope.
THEOREM HistoryExplains == Spec => []History
<1> QED BY InitRecorded, StepRecorded, DataInvariant, PTL DEF Spec

\* Strong eventual consistency: replicas that have taken in the same mutations
\* show the same, for any number of replicas and deliveries in any order,
\* unless something was removed and something compacted.
THEOREM ReplicasAgree == Spec => []SameKnowledgeSameView
<1>1. SyncTyped /\ History => SameKnowledgeSameView
  <2> SUFFICES ASSUME SyncTyped, History, NEW m \in Node, NEW n \in Node, known[m] = known[n],
                      ~(lossy.removed /\ lossy.compacted)
               PROVE  View(replica[m].state) = View(replica[n].state)
    BY DEF SameKnowledgeSameView
  <2>1. PICK c \in Contributions : Recorded(c)
    BY DEF History
  <2>2. \A i \in Node : replica[i].state \in State /\ Mapped(replica[i].state)
    BY DEF SyncTyped, Good, Replica
  <2>3. known[n] \in SUBSET Mutation
    BY DEF SyncTyped
  <2>4. /\ Explains(c, replica[m].state, known[n], lossy.removed, lossy.compacted)
        /\ Explains(c, replica[n].state, known[n], lossy.removed, lossy.compacted)
    BY <2>1 DEF Recorded, Explained
  <2>5. ~lossy.removed \/ ~lossy.compacted
    OBVIOUS
  <2> QED BY <2>1, <2>2, <2>3, <2>4, <2>5, SameView
<1> QED BY <1>1, HistoryExplains, DataInvariant, PTL

\* Compaction hides no entry as long as none was removed: of a visible entry
\* the newest tag stays, whatever the clocks say.
THEOREM NothingEverVanishes == Spec => []NothingVanishes
<1>1. SyncTyped /\ History => NothingVanishes
  <2> SUFFICES ASSUME SyncTyped, History, ~lossy.removed, NEW n \in Node, NEW m \in known[n]
               PROVE  IsVisible(replica[n].state, m.entry)
    BY DEF NothingVanishes
  <2>1. PICK c \in Contributions : Recorded(c)
    BY DEF History
  <2>2. Grown(replica[n].state, known[n])
    BY <2>1 DEF Recorded, Explained, Explains
  <2>3. m.entry \in Id
    BY DEF SyncTyped, Mutation
  <2>4. replica[n].state.adds[m.entry] # {} /\ replica[n].state.tombs[m.entry] = {}
    BY <2>2, <2>3 DEF Grown
  <2> QED BY <2>4 DEF IsVisible, VisibleTags
<1> QED BY <1>1, HistoryExplains, DataInvariant, PTL
==============================================================================
