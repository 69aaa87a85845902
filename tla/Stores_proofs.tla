---------------------------- MODULE Stores_proofs ----------------------------
(***************************************************************************)
(* Proofs about the two stores of the project, BoundedTtlCache in memory   *)
(* and SupervisorStore on disk.                                            *)
(*                                                                         *)
(* The cache is taken with any number of callers and keys, any capacity    *)
(* and any rebuild parameters.  The operations under the mutex are         *)
(* functions of the cache, so most of the argument is about them: each     *)
(* keeps a cache Sound, and all that add records end in a compaction that  *)
(* bounds both heaps.                                                      *)
(*                                                                         *)
(* The state store is taken with any set of commands and instances, any    *)
(* leftover WAL and any bounds.  VersionIdentifiesState is not inductive:  *)
(* a command compares versions long after it has read, so the invariant    *)
(* says of every command, wherever it is, that what it read is not newer   *)
(* than the state file and the same at the same version, that the lock     *)
(* keeps this true between comparison and write, and that whatever may be  *)
(* written to a file was committed.                                        *)
(***************************************************************************)
EXTENDS BoundedTtlCache, SupervisorStore, FiniteSetTheorems, WellFoundedInduction, TLAPS

-----------------------------------------------------------------------------
(* The cache.                                                              *)

\* What a caller may be in the middle of.
Call ==
    [op : {"get", "prune"}, key : Key, now : Nat]
        \cup [op : {"insert"}, key : Key, value : Value, ttl : Ttl, now : Nat]

\* No two entries have the same generation, and none has the next one.
Numbered(c) ==
    \A k \in Live(c) :
        /\ c.entries[k].gen <= c.next
        /\ \A j \in Live(c) \ {k} : c.entries[j].gen # c.entries[k].gen

\* A cache every operation can start from.
Sound(c) ==
    /\ c \in Cache
    /\ IsFiniteSet(c.expirations)
    /\ IsFiniteSet(c.insertions)
    /\ Tracked(c)
    /\ Numbered(c)

Bounded(c) ==
    /\ Cardinality(c.expirations) <= RecordBound
    /\ Cardinality(c.insertions) <= RecordBound

CacheInv ==
    /\ Sound(cache)
    /\ WithinCapacity
    /\ HeapsBounded
    /\ clock \in Nat
    /\ call \in [Caller -> Call \cup {NoCall}]

-----------------------------------------------------------------------------
(* The map.                                                                *)

LEMMA LiveFinite ==
    ASSUME NEW c
    PROVE  IsFiniteSet(Live(c)) /\ Cardinality(Live(c)) \in Nat
<1>1. IsFiniteSet(Key) /\ Live(c) \in SUBSET Key
  BY CacheAssumption DEF Live
<1> QED BY <1>1, FS_Subset, FS_CardinalityType

\* A live key has an entry.
LEMMA LiveEntry ==
    ASSUME NEW c \in Cache, NEW k \in Live(c)
    PROVE  /\ k \in Key
           /\ c.entries[k] \in Entry
           /\ ExpirationOf(c, k) \in Expiration
           /\ InsertionOf(c, k) \in Insertion
<1>1. k \in Key /\ c.entries[k] \in Entry
  BY DEF Live, Cache
<1> QED BY <1>1 DEF Entry, ExpirationOf, InsertionOf, Expiration, Insertion

LEMMA DropTyped ==
    ASSUME NEW c \in Cache, NEW gone
    PROVE  /\ Drop(c, gone) \in Cache
           /\ Drop(c, gone).expirations = c.expirations
           /\ Drop(c, gone).insertions = c.insertions
           /\ Drop(c, gone).next = c.next
           /\ Live(Drop(c, gone)) = Live(c) \ gone
           /\ \A k \in Live(c) \ gone : Drop(c, gone).entries[k] = c.entries[k]
<1> DEFINE kept == [k \in Key |-> IF k \in gone THEN NoEntry ELSE c.entries[k]]
<1>1. kept \in [Key -> Entry \cup {NoEntry}]
  BY DEF Cache
<1>2. Drop(c, gone) = [entries |-> kept, expirations |-> c.expirations,
                       insertions |-> c.insertions, next |-> c.next]
  BY DEF Drop, Cache
<1>3. Drop(c, gone) \in Cache
  BY <1>1, <1>2 DEF Cache
<1>4. Live(Drop(c, gone)) = Live(c) \ gone
  BY <1>2 DEF Live
<1> QED BY <1>2, <1>3, <1>4 DEF Live

\* Fewer entries stay tracked by the records that are kept.
LEMMA FewerTracked ==
    ASSUME NEW c \in Cache, NEW d \in Cache, Tracked(c),
           Live(d) \subseteq Live(c),
           \A k \in Live(d) : d.entries[k] = c.entries[k],
           \A k \in Live(d) : ExpirationOf(c, k) \in d.expirations,
           \A k \in Live(d) : InsertionOf(c, k) \in d.insertions
    PROVE  Tracked(d)
BY DEF Tracked, ExpirationOf, InsertionOf

\* Fewer entries keep different generations.
LEMMA FewerNumbered ==
    ASSUME NEW c, NEW d, Numbered(c), d.next = c.next, Live(d) \subseteq Live(c),
           \A k \in Live(d) : d.entries[k] = c.entries[k]
    PROVE  Numbered(d)
BY DEF Numbered

LEMMA FewerLive ==
    ASSUME NEW c, NEW d, Live(d) \subseteq Live(c)
    PROVE  Cardinality(Live(d)) <= Cardinality(Live(c))
BY LiveFinite, FS_Subset

\* Fewer records are no more than before.
LEMMA FewerRecords ==
    ASSUME NEW S, IsFiniteSet(S), NEW T, T \subseteq S
    PROVE  IsFiniteSet(T) /\ Cardinality(T) <= Cardinality(S)
BY FS_Subset

-----------------------------------------------------------------------------
(* What keeps a cache sound.                                               *)

\* Pruning: an entry that stays has a record that was not due.
LEMMA PruneSound ==
    ASSUME NEW c, Sound(c), NEW now \in Nat
    PROVE  /\ Sound(Prune(c, now))
           /\ Live(Prune(c, now)) \subseteq Live(c)
           /\ Prune(c, now).expirations \subseteq c.expirations
           /\ Prune(c, now).insertions = c.insertions
<1> DEFINE due == {r \in c.expirations : r.expires <= now}
           gone == {k \in Live(c) : /\ c.entries[k].expires <= now
                                    /\ \E r \in due : r.key = k /\ r.gen = c.entries[k].gen}
           d == Drop(c, gone)
           p == Prune(c, now)
<1>1. c \in Cache /\ Tracked(c) /\ Numbered(c)
  BY DEF Sound
<1>2. /\ d \in Cache
      /\ d.expirations = c.expirations
      /\ d.insertions = c.insertions
      /\ d.next = c.next
      /\ Live(d) = Live(c) \ gone
      /\ \A k \in Live(c) \ gone : d.entries[k] = c.entries[k]
  BY <1>1, DropTyped
<1>3. p = [d EXCEPT !.expirations = c.expirations \ due]
  BY DEF Prune
<1> HIDE DEF d, p
<1>4. /\ p.entries = d.entries
      /\ p.expirations = c.expirations \ due
      /\ p.insertions = c.insertions
      /\ p.next = c.next
      /\ p \in Cache
  BY <1>1, <1>2, <1>3 DEF Cache
<1>5. Live(p) = Live(c) \ gone
  BY <1>2, <1>4 DEF Live
<1>6. \A k \in Live(p) : ExpirationOf(c, k) \in p.expirations
  <2> SUFFICES ASSUME NEW k \in Live(c) \ gone
               PROVE  ExpirationOf(c, k) \notin due
    BY <1>1, <1>4, <1>5 DEF Tracked
  <2> DEFINE r == ExpirationOf(c, k)
  <2>1. r.key = k /\ r.gen = c.entries[k].gen /\ r.expires = c.entries[k].expires
    BY DEF ExpirationOf
  <2> HIDE DEF r
  <2>2. ~(r \in due)
    BY <2>1
  <2> QED BY <2>2 DEF r
<1>7. Tracked(p)
  BY <1>1, <1>2, <1>4, <1>5, <1>6, FewerTracked DEF Tracked
<1>8. IsFiniteSet(p.expirations) /\ IsFiniteSet(p.insertions)
  BY <1>4, FewerRecords DEF Sound
<1>9. Numbered(p)
  BY <1>1, <1>2, <1>4, <1>5, FewerNumbered
<1> QED BY <1>4, <1>5, <1>7, <1>8, <1>9 DEF Sound, p

LEMMA DropSound ==
    ASSUME NEW c, Sound(c), NEW gone
    PROVE  /\ Sound(Drop(c, gone))
           /\ Live(Drop(c, gone)) \subseteq Live(c)
<1>1. c \in Cache /\ Tracked(c) /\ Numbered(c)
  BY DEF Sound
<1>2. Tracked(Drop(c, gone))
  BY <1>1, DropTyped, FewerTracked DEF Tracked
<1>3. Numbered(Drop(c, gone))
  BY <1>1, DropTyped, FewerNumbered
<1> QED BY <1>1, <1>2, <1>3, DropTyped DEF Sound

\* Some generation of a set of them is the smallest.
LEMMA SmallestExists ==
    ASSUME NEW S, S \subseteq Nat, S # {}
    PROVE  \E g \in S : \A h \in S : g <= h
<1>1. PICK g \in S : \A h \in S : ~(<<h, g>> \in OpToRel(<, Nat))
  BY NatLessThanWellFounded, WFMin
<1>2. \A h \in S : ~(h < g)
  BY <1>1 DEF OpToRel
<1>3. \A h \in S : g <= h
  BY <1>2
<1> QED BY <1>3

\* Eviction makes room, and what it keeps is still tracked: the record of
\* an entry that is left is newer than all that were popped.
LEMMA EvictSound ==
    ASSUME NEW c, Sound(c), MaxEntries # 0
    PROVE  /\ Sound(Evict(c))
           /\ Live(Evict(c)) \subseteq Live(c)
           /\ Cardinality(Live(Evict(c))) < MaxEntries
<1>1. /\ c \in Cache /\ Tracked(c) /\ Numbered(c)
      /\ IsFiniteSet(c.expirations) /\ IsFiniteSet(c.insertions)
  BY DEF Sound
<1>2. CASE Cardinality(Live(c)) < MaxEntries
  BY <1>2 DEF Evict
<1>3. CASE ~(Cardinality(Live(c)) < MaxEntries) /\ Room(c) = {}
  <2> DEFINE all == {k \in Live(c) : InsertionOf(c, k) \in c.insertions}
             d == Drop(c, all)
             e == Evict(c)
  <2>1. /\ d \in Cache
        /\ d.expirations = c.expirations
        /\ Live(d) = Live(c) \ all
    BY <1>1, DropTyped
  <2>2. e = [d EXCEPT !.insertions = {}]
    BY <1>3 DEF Evict
  <2> HIDE DEF d, e
  <2>3. e.entries = d.entries /\ e.insertions = {} /\ e.expirations = c.expirations /\ e \in Cache
    BY <2>1, <2>2 DEF Cache
  <2>4. Live(e) = {}
    BY <1>1, <2>1, <2>3 DEF Live, Tracked
  <2>5. Cardinality(Live(e)) = 0 /\ IsFiniteSet(e.insertions)
    BY <2>3, <2>4, FS_EmptySet
  <2>6. Tracked(e) /\ Numbered(e)
    BY <2>4 DEF Tracked, Numbered
  <2>7. 0 < MaxEntries
    BY CacheAssumption
  <2> QED BY <1>1, <2>3, <2>4, <2>5, <2>6, <2>7 DEF Sound, e
<1>4. CASE ~(Cardinality(Live(c)) < MaxEntries) /\ Room(c) # {}
  <2> DEFINE g == CHOOSE g \in Room(c) : \A h \in Room(c) : g <= h
             left == Left(c, g)
             d == Drop(c, Live(c) \ left)
             e == Evict(c)
  <2>1. Room(c) \subseteq Nat
    BY <1>1 DEF Room, Cache, Insertion
  <2>2. g \in Room(c)
    BY <1>4, <2>1, SmallestExists
  <2>3. e = [d EXCEPT !.insertions = {r \in c.insertions : r.gen > g}]
    BY <1>4 DEF Evict
  <2> HIDE DEF g
  <2>4. left \subseteq Live(c) /\ Cardinality(left) < MaxEntries /\ g \in Nat
    BY <2>1, <2>2 DEF Room, Left
  <2>5. /\ d \in Cache
        /\ d.expirations = c.expirations
        /\ d.next = c.next
        /\ Live(d) = left
        /\ \A k \in left : d.entries[k] = c.entries[k]
    <3> DEFINE gone == Live(c) \ left
    <3>1. Live(c) \ gone = left
      BY <2>4
    <3> HIDE DEF gone, left
    <3>2. /\ Drop(c, gone) \in Cache
          /\ Drop(c, gone).expirations = c.expirations
          /\ Drop(c, gone).next = c.next
          /\ Live(Drop(c, gone)) = Live(c) \ gone
          /\ \A k \in Live(c) \ gone : Drop(c, gone).entries[k] = c.entries[k]
      BY <1>1, DropTyped
    <3> QED BY <3>1, <3>2 DEF gone
  <2> HIDE DEF d, e
  <2>6. /\ e.entries = d.entries
        /\ e.expirations = c.expirations
        /\ e.insertions = {r \in c.insertions : r.gen > g}
        /\ e.next = c.next
        /\ e \in Cache
    BY <1>1, <2>3, <2>5 DEF Cache
  <2>7. Live(e) = left
    BY <2>5, <2>6 DEF Live
  <2>8. \A k \in left : InsertionOf(c, k) \in e.insertions
    <3> SUFFICES ASSUME NEW k \in left PROVE InsertionOf(c, k) \in e.insertions
      OBVIOUS
    <3> DEFINE r == InsertionOf(c, k)
    <3>1. r \in c.insertions /\ r.key = k /\ r.gen = c.entries[k].gen
      BY <1>1, <2>4 DEF Tracked, InsertionOf
    <3>2. r.gen \in Nat
      BY <1>1, <3>1 DEF Cache, Insertion
    <3> HIDE DEF r
    <3>3. ~(r.gen <= g)
      BY <3>1 DEF Left
    <3>4. r.gen > g
      BY <2>4, <3>2, <3>3
    <3> QED BY <2>6, <3>1, <3>4 DEF r
  <2>9. Tracked(e)
    BY <1>1, <2>4, <2>5, <2>6, <2>7, <2>8, FewerTracked DEF Tracked
  <2>10. IsFiniteSet(e.insertions)
    BY <1>1, <2>6, FewerRecords
  <2>11. Numbered(e)
    BY <1>1, <2>4, <2>5, <2>6, <2>7, FewerNumbered
  <2> QED BY <1>1, <2>4, <2>6, <2>7, <2>9, <2>10, <2>11 DEF Sound, e
<1> QED BY <1>2, <1>3, <1>4

-----------------------------------------------------------------------------
(* Compaction, and the insertion of an entry.                              *)

LEMMA BoundTyped ==
    /\ RecordBound \in Nat
    /\ 2 * MaxEntries <= RecordBound
    /\ MinRecords <= RecordBound
    /\ RebuildFactor * MaxEntries <= RecordBound
<1>1. RebuildFactor * MaxEntries \in Nat /\ 2 * MaxEntries \in Nat /\ MinRecords \in Nat
  BY CacheAssumption
<1> DEFINE f == RebuildFactor * MaxEntries
           t == 2 * MaxEntries
<1> HIDE DEF f, t
<1>2. \A a, b \in Nat : Larger(a, b) \in Nat /\ a <= Larger(a, b) /\ b <= Larger(a, b)
  BY DEF Larger
<1>3. Larger(Larger(f, t), MinRecords) \in Nat /\ t <= Larger(Larger(f, t), MinRecords)
      /\ f <= Larger(Larger(f, t), MinRecords) /\ MinRecords <= Larger(Larger(f, t), MinRecords)
  <2>1. f \in Nat /\ t \in Nat /\ MinRecords \in Nat
    BY <1>1 DEF f, t
  <2>2. Larger(f, t) \in Nat /\ f <= Larger(f, t) /\ t <= Larger(f, t)
    BY <1>2, <2>1
  <2>3. Larger(Larger(f, t), MinRecords) \in Nat /\ Larger(f, t) <= Larger(Larger(f, t), MinRecords)
        /\ MinRecords <= Larger(Larger(f, t), MinRecords)
    BY <1>2, <2>1, <2>2
  <2> QED BY <2>1, <2>2, <2>3
<1> QED BY <1>3 DEF RecordBound, f, t

\* With no more entries than the capacity, the threshold is under the bound.
LEMMA ThresholdBounded ==
    ASSUME NEW c, Cardinality(Live(c)) <= MaxEntries
    PROVE  Threshold(c) \in Nat /\ Threshold(c) <= RecordBound
<1>1. Cardinality(Live(c)) \in Nat
  BY LiveFinite
<1>2. \A n \in Nat : n <= MaxEntries =>
          RebuildFactor * n \in Nat /\ RebuildFactor * n <= RebuildFactor * MaxEntries
  BY CacheAssumption, Z3
<1> DEFINE f == RebuildFactor * Cardinality(Live(c))
           t == 2 * MaxEntries
<1>3. f \in Nat /\ f <= RecordBound /\ t \in Nat /\ t <= RecordBound
  BY <1>1, <1>2, BoundTyped, CacheAssumption
<1> HIDE DEF f, t
<1>4. Larger(Larger(f, t), MinRecords) \in {f, t, MinRecords}
  BY DEF Larger
<1>5. MinRecords \in Nat /\ MinRecords <= RecordBound
  BY BoundTyped, CacheAssumption
<1>6. Threshold(c) = Larger(Larger(f, t), MinRecords)
  BY DEF Threshold, f, t
<1>7. Threshold(c) = f \/ Threshold(c) = t \/ Threshold(c) = MinRecords
  BY <1>4, <1>6
<1> QED BY <1>3, <1>5, <1>7

\* A heap made of one record for each entry.
LEMMA OneRecordEach ==
    ASSUME NEW c, NEW T, NEW f \in [Live(c) -> T], \A r \in T : \E k \in Live(c) : f[k] = r
    PROVE  IsFiniteSet(T) /\ Cardinality(T) <= Cardinality(Live(c))
<1>1. f \in Surjection(Live(c), T)
  BY DEF Surjection
<1> QED BY <1>1, LiveFinite, FS_Surjection

LEMMA CompactSound ==
    ASSUME NEW c, Sound(c), Cardinality(Live(c)) <= MaxEntries
    PROVE  /\ Sound(Compact(c))
           /\ Live(Compact(c)) = Live(c)
           /\ Bounded(Compact(c))
<1> DEFINE d == Compact(c)
<1>1. c \in Cache /\ Tracked(c) /\ Numbered(c)
  BY DEF Sound
<1>2. CASE Live(c) = {}
  <2>1. d = [c EXCEPT !.expirations = {}, !.insertions = {}]
    BY <1>2 DEF Compact
  <2> HIDE DEF d
  <2>2. d.entries = c.entries /\ d.expirations = {} /\ d.insertions = {} /\ d \in Cache
    BY <1>1, <2>1 DEF Cache
  <2>3. Live(d) = {}
    BY <1>2, <2>2 DEF Live
  <2>4. Sound(d)
    BY <2>2, <2>3, FS_EmptySet DEF Sound, Tracked, Numbered
  <2>5. Bounded(d)
    BY <2>2, BoundTyped, FS_EmptySet DEF Bounded
  <2> QED BY <1>2, <2>3, <2>4, <2>5 DEF d
<1>3. CASE /\ Live(c) # {}
           /\ Cardinality(c.expirations) <= Threshold(c)
           /\ Cardinality(c.insertions) <= Threshold(c)
  <2>1. d = c
    BY <1>3 DEF Compact
  <2>2. Threshold(c) \in Nat /\ Threshold(c) <= RecordBound /\ RecordBound \in Nat
    BY ThresholdBounded, BoundTyped
  <2>3. Cardinality(c.expirations) \in Nat /\ Cardinality(c.insertions) \in Nat
    BY FS_CardinalityType DEF Sound
  <2>4. Bounded(c)
    BY <1>3, <2>2, <2>3 DEF Bounded
  <2> QED BY <2>1, <2>4
<1>4. CASE /\ Live(c) # {}
           /\ ~(/\ Cardinality(c.expirations) <= Threshold(c)
                /\ Cardinality(c.insertions) <= Threshold(c))
  <2> DEFINE ex == [k \in Live(c) |-> ExpirationOf(c, k)]
             in == [k \in Live(c) |-> InsertionOf(c, k)]
             exs == {ExpirationOf(c, k) : k \in Live(c)}
             ins == {InsertionOf(c, k) : k \in Live(c)}
  <2>1. d = [c EXCEPT !.expirations = exs, !.insertions = ins]
    BY <1>4 DEF Compact
  <2>2. ex \in [Live(c) -> exs] /\ \A r \in exs : \E k \in Live(c) : ex[k] = r
    OBVIOUS
  <2>3. in \in [Live(c) -> ins] /\ \A r \in ins : \E k \in Live(c) : in[k] = r
    OBVIOUS
  <2>4. exs \subseteq Expiration /\ ins \subseteq Insertion
    BY <1>1, LiveEntry
  <2>5. \A k \in Live(c) : ExpirationOf(c, k) \in exs /\ InsertionOf(c, k) \in ins
    OBVIOUS
  <2> HIDE DEF ex, in, exs, ins, d
  <2>6. /\ IsFiniteSet(exs) /\ Cardinality(exs) <= Cardinality(Live(c))
        /\ IsFiniteSet(ins) /\ Cardinality(ins) <= Cardinality(Live(c))
    BY <2>2, <2>3, OneRecordEach
  <2>7. /\ d.entries = c.entries /\ d.expirations = exs /\ d.insertions = ins
        /\ d.next = c.next /\ d \in Cache
    BY <1>1, <2>1, <2>4 DEF Cache
  <2>8. Live(d) = Live(c)
    BY <2>7 DEF Live
  <2>9. Tracked(d)
    BY <1>1, <2>5, <2>7, <2>8, FewerTracked
  <2>10. Cardinality(exs) \in Nat /\ Cardinality(ins) \in Nat /\ Cardinality(Live(c)) \in Nat
    BY <2>6, FS_CardinalityType, LiveFinite
  <2>11. Cardinality(exs) <= RecordBound /\ Cardinality(ins) <= RecordBound
    BY <2>6, <2>10, BoundTyped, CacheAssumption
  <2>12. Numbered(d)
    BY <1>1, <2>7, <2>8, FewerNumbered
  <2> QED BY <2>6, <2>7, <2>8, <2>9, <2>11, <2>12 DEF Sound, Bounded, d
<1> QED BY <1>2, <1>3, <1>4

LEMMA AddSound ==
    ASSUME NEW c, Sound(c), NEW k \in Key, NEW v \in Value, NEW expires \in Nat
    PROVE  /\ Sound(Add(c, k, v, expires))
           /\ Live(Add(c, k, v, expires)) = Live(c) \cup {k}
<1> DEFINE g == c.next + 1
           new == [value |-> v, expires |-> expires, gen |-> g]
           ex == [key |-> k, expires |-> expires, gen |-> g]
           in == [key |-> k, gen |-> g]
           d == Add(c, k, v, expires)
<1>1. /\ c \in Cache /\ Tracked(c) /\ Numbered(c)
      /\ IsFiniteSet(c.expirations) /\ IsFiniteSet(c.insertions)
  BY DEF Sound
<1>2. g \in Nat /\ c.next \in Nat /\ g = c.next + 1
  BY <1>1 DEF Cache
<1>3. new \in Entry /\ ex \in Expiration /\ in \in Insertion
  BY <1>2 DEF Entry, Expiration, Insertion
<1>4. new # NoEntry
  BY <1>3, CacheAssumption
<1>5. /\ d.entries = [c.entries EXCEPT ![k] = new]
      /\ d.expirations = c.expirations \cup {ex}
      /\ d.insertions = c.insertions \cup {in}
      /\ d.next = g
      /\ d = [entries |-> d.entries, expirations |-> d.expirations,
              insertions |-> d.insertions, next |-> d.next]
  BY DEF Add
<1>6. new.expires = expires /\ new.gen = g
  OBVIOUS
<1> DEFINE exOf == [key |-> k, expires |-> new.expires, gen |-> new.gen]
           inOf == [key |-> k, gen |-> new.gen]
<1>7. exOf = ex /\ inOf = in
  BY <1>6
<1> HIDE DEF g, new, ex, in, d
<1>8. d \in Cache
  BY <1>1, <1>2, <1>3, <1>5 DEF Cache
<1>9. d.entries[k] = new /\ \A j \in Key \ {k} : d.entries[j] = c.entries[j]
  BY <1>1, <1>5 DEF Cache
<1>10. Live(d) = Live(c) \cup {k}
  BY <1>4, <1>9 DEF Live
<1>11. Tracked(d)
  <2> SUFFICES ASSUME NEW j \in Live(d)
               PROVE  ExpirationOf(d, j) \in d.expirations /\ InsertionOf(d, j) \in d.insertions
    BY DEF Tracked
  <2>1. CASE j = k
    BY <1>5, <1>7, <1>9, <2>1 DEF ExpirationOf, InsertionOf
  <2>2. CASE j # k
    <3>1. j \in Live(c) /\ d.entries[j] = c.entries[j]
      BY <1>9, <1>10, <2>2 DEF Live
    <3>2. ExpirationOf(d, j) = ExpirationOf(c, j) /\ InsertionOf(d, j) = InsertionOf(c, j)
      BY <3>1 DEF ExpirationOf, InsertionOf
    <3> QED BY <1>1, <1>5, <3>1, <3>2 DEF Tracked
  <2> QED BY <2>1, <2>2
<1>12. IsFiniteSet(d.expirations) /\ IsFiniteSet(d.insertions)
  <2>1. IsFiniteSet(c.expirations) /\ IsFiniteSet(c.insertions)
    BY DEF Sound
  <2>2. IsFiniteSet(c.expirations \cup {ex}) /\ IsFiniteSet(c.insertions \cup {in})
    BY <2>1, FS_AddElement
  <2>3. d.expirations = c.expirations \cup {ex} /\ d.insertions = c.insertions \cup {in}
    BY <1>5
  <2> QED BY <2>2, <2>3
<1>13. Numbered(d)
  <2>1. ASSUME NEW j \in Live(c) PROVE c.entries[j].gen \in Nat /\ c.entries[j].gen <= c.next
    BY <1>1, LiveEntry DEF Numbered, Entry
  <2>2. ASSUME NEW j \in Live(d), j # k
        PROVE  /\ j \in Live(c) /\ d.entries[j] = c.entries[j]
               /\ d.entries[j].gen < g
    <3>1. j \in Live(c) /\ d.entries[j] = c.entries[j]
      BY <1>9, <1>10, <2>2 DEF Live
    <3> QED BY <1>2, <2>1, <3>1
  <2>3. d.entries[k].gen = g
    BY <1>6, <1>9
  <2> SUFFICES ASSUME NEW j \in Live(d)
               PROVE  /\ d.entries[j].gen <= d.next
                      /\ \A i \in Live(d) \ {j} : d.entries[i].gen # d.entries[j].gen
    BY DEF Numbered
  <2>4. CASE j = k
    <3>1. \A i \in Live(d) \ {k} : d.entries[i].gen < g /\ d.entries[i].gen \in Nat
      BY <2>1, <2>2
    <3>2. \A i \in Live(d) \ {k} : d.entries[i].gen # g
      BY <1>2, <3>1
    <3> QED BY <1>2, <1>5, <2>3, <2>4, <3>2
  <2>5. CASE j # k
    <3>1. /\ j \in Live(c) /\ d.entries[j] = c.entries[j]
          /\ d.entries[j].gen < g /\ d.entries[j].gen \in Nat
      BY <2>1, <2>2, <2>5
    <3>2. d.entries[j].gen <= d.next /\ d.entries[j].gen # g
      BY <1>2, <1>5, <3>1
    <3>3. ASSUME NEW i \in Live(d) \ {j} PROVE d.entries[i].gen # d.entries[j].gen
      <4>1. CASE i = k
        BY <2>3, <3>2, <4>1
      <4>2. CASE i # k
        BY <1>1, <2>2, <3>1, <4>2 DEF Numbered
      <4> QED BY <4>1, <4>2
    <3> QED BY <3>2, <3>3
  <2> QED BY <2>4, <2>5
<1> QED BY <1>8, <1>10, <1>11, <1>12, <1>13 DEF Sound, d

\* insert_inner_at: there is room for the entry before it is added.
LEMMA InsertSound ==
    ASSUME NEW c, Sound(c), Cardinality(Live(c)) <= MaxEntries, Bounded(c),
           NEW k \in Key, NEW v \in Value, NEW ttl \in Nat, NEW now \in Nat
    PROVE  LET d == InsertAt(c, k, v, ttl, now)
           IN  Sound(d) /\ Cardinality(Live(d)) <= MaxEntries /\ Bounded(d)
<1> DEFINE p == Prune(c, now)
           m == MakeRoom(p, k)
           a == Add(m, k, v, now + ttl)
<1>1. CASE MaxEntries = 0
  BY <1>1 DEF InsertAt
<1>2. CASE MaxEntries # 0
  <2>1. Sound(p) /\ Live(p) \subseteq Live(c)
    BY PruneSound
  <2>2. Cardinality(Live(p)) <= MaxEntries
    BY <2>1, FewerLive, LiveFinite, CacheAssumption
  <2> HIDE DEF p
  <2>3. Sound(m) /\ (k \in Live(m) \/ Cardinality(Live(m)) < MaxEntries)
        /\ Cardinality(Live(m)) <= MaxEntries
    <3>1. CASE k \in Live(p)
      BY <2>1, <2>2, <3>1 DEF MakeRoom
    <3>2. CASE k \notin Live(p)
      <4>1. m = Evict(p)
        BY <3>2 DEF MakeRoom
      <4>2. Sound(Evict(p)) /\ Cardinality(Live(Evict(p))) < MaxEntries
        BY <1>2, <2>1, EvictSound
      <4>3. Cardinality(Live(Evict(p))) \in Nat
        BY LiveFinite
      <4> QED BY <4>1, <4>2, <4>3, CacheAssumption
    <3> QED BY <3>1, <3>2
  <2> HIDE DEF m
  <2>4. now + ttl \in Nat
    OBVIOUS
  <2>5. Sound(a) /\ Live(a) = Live(m) \cup {k}
    BY <2>3, <2>4, AddSound
  <2>6. Cardinality(Live(a)) <= MaxEntries
    <3>1. Cardinality(Live(m) \cup {k}) =
              IF k \in Live(m) THEN Cardinality(Live(m)) ELSE Cardinality(Live(m)) + 1
      BY LiveFinite, FS_AddElement
    <3>2. Cardinality(Live(m)) \in Nat
      BY LiveFinite
    <3>3. Cardinality(Live(m) \cup {k}) <= MaxEntries
      BY <2>3, <3>1, <3>2, CacheAssumption
    <3> QED BY <2>5, <3>3
  <2> HIDE DEF a
  <2>7. Sound(Compact(a)) /\ Live(Compact(a)) = Live(a) /\ Bounded(Compact(a))
    BY <2>5, <2>6, CompactSound
  <2>8. InsertAt(c, k, v, ttl, now) = Compact(a)
    BY <1>2 DEF InsertAt, a, m, p
  <2> QED BY <2>6, <2>7, <2>8
<1> QED BY <1>1, <1>2

-----------------------------------------------------------------------------
(* The specification.                                                      *)

LEMMA InitInv == CacheInit => CacheInv
<1> SUFFICES ASSUME CacheInit PROVE CacheInv
  OBVIOUS
<1>1. /\ cache \in Cache
      /\ cache.expirations = {} /\ cache.insertions = {}
      /\ \A k \in Key : cache.entries[k] = NoEntry
  BY DEF CacheInit, Empty, Cache
<1>2. Live(cache) = {}
  BY <1>1 DEF Live
<1>3. Sound(cache)
  BY <1>1, <1>2, FS_EmptySet DEF Sound, Tracked, Numbered
<1>4. WithinCapacity /\ HeapsBounded
  BY <1>1, <1>2, FS_EmptySet, BoundTyped, CacheAssumption DEF WithinCapacity, HeapsBounded
<1> QED BY <1>3, <1>4 DEF CacheInv, CacheInit

\* What remains to be shown of a step that changes only the cache, or only
\* who is in it.
LEMMA CacheStep ==
    ASSUME CacheInv, Sound(cache'), Cardinality(Live(cache')) <= MaxEntries, Bounded(cache'),
           clock' \in Nat, call' \in [Caller -> Call \cup {NoCall}]
    PROVE  CacheInv'
BY DEF CacheInv, WithinCapacity, HeapsBounded, Bounded

LEMMA OtherStep ==
    ASSUME CacheInv, UNCHANGED cache, clock' \in Nat, call' \in [Caller -> Call \cup {NoCall}]
    PROVE  CacheInv'
BY CacheStep DEF CacheInv, WithinCapacity, HeapsBounded, Bounded

LEMMA ReturnTyped ==
    ASSUME CacheInv, NEW p \in Caller, Return(p)
    PROVE  call' \in [Caller -> Call \cup {NoCall}]
BY DEF CacheInv, Return

LEMMA EnterTyped ==
    ASSUME CacheInv, NEW p \in Caller, NEW op \in Call, Enter(p, op)
    PROVE  CacheInv'
<1>1. call' \in [Caller -> Call \cup {NoCall}]
  BY DEF CacheInv, Enter
<1> QED BY <1>1, OtherStep DEF CacheInv, Enter

LEMMA StepInv == CacheInv /\ [CacheNext]_cacheVars => CacheInv'
<1> SUFFICES ASSUME CacheInv, [CacheNext]_cacheVars PROVE CacheInv'
  OBVIOUS
<1>1. /\ Sound(cache) /\ Cardinality(Live(cache)) <= MaxEntries /\ Bounded(cache)
      /\ cache \in Cache /\ clock \in Nat /\ call \in [Caller -> Call \cup {NoCall}]
  BY DEF CacheInv, WithinCapacity, HeapsBounded, Bounded, Sound
<1>2. ASSUME NEW p \in Caller, NEW k \in Key, StartGet(p, k)
      PROVE  CacheInv'
  <2>1. [op |-> "get", key |-> k, now |-> clock] \in Call
    BY <1>1 DEF Call
  <2> QED BY <1>2, <2>1, EnterTyped DEF StartGet
<1>3. ASSUME NEW p \in Caller, ReadEntry(p)
      PROVE  CacheInv'
  <2>1. call[p] \in [op : {"get", "prune"}, key : Key, now : Nat]
    BY <1>1, <1>3 DEF ReadEntry, Call
  <2>2. [call[p] EXCEPT !.op = "prune"] \in Call
    BY <2>1 DEF Call
  <2>3. call' = [call EXCEPT ![p].op = "prune"] \/ Return(p)
    BY <1>3 DEF ReadEntry
  <2>4. call' \in [Caller -> Call \cup {NoCall}]
    BY <1>1, <2>2, <2>3, ReturnTyped
  <2> QED BY <1>1, <1>3, <2>4, OtherStep DEF ReadEntry
<1>4. ASSUME NEW p \in Caller, PruneAndRead(p)
      PROVE  CacheInv'
  <2>1. call[p].now \in Nat
    BY <1>1, <1>4 DEF PruneAndRead, Call
  <2> DEFINE d == Prune(cache, call[p].now)
  <2>2. /\ Sound(d) /\ Live(d) \subseteq Live(cache)
        /\ d.expirations \subseteq cache.expirations /\ d.insertions = cache.insertions
    BY <1>1, <2>1, PruneSound
  <2>3. cache' = d
    BY <1>4 DEF PruneAndRead
  <2> HIDE DEF d
  <2>4. Cardinality(Live(d)) <= MaxEntries
    BY <1>1, <2>2, FewerLive, LiveFinite, CacheAssumption
  <2>5. Bounded(d)
    <3>1. Cardinality(d.expirations) <= Cardinality(cache.expirations)
      BY <1>1, <2>2, FewerRecords DEF Sound
    <3>2. Cardinality(d.expirations) \in Nat /\ Cardinality(cache.expirations) \in Nat
      BY <1>1, <2>2, FS_CardinalityType DEF Sound
    <3> QED BY <1>1, <2>2, <3>1, <3>2, BoundTyped DEF Bounded
  <2>6. call' \in [Caller -> Call \cup {NoCall}]
    BY <1>4, ReturnTyped DEF PruneAndRead
  <2> QED BY <1>1, <1>4, <2>2, <2>3, <2>4, <2>5, <2>6, CacheStep DEF PruneAndRead
<1>5. ASSUME NEW p \in Caller, NEW k \in Key, NEW v \in Value, NEW ttl \in Ttl,
             StartInsert(p, k, v, ttl)
      PROVE  CacheInv'
  <2>1. [op |-> "insert", key |-> k, value |-> v, ttl |-> ttl, now |-> clock] \in Call
    BY <1>1 DEF Call
  <2> QED BY <1>5, <2>1, EnterTyped DEF StartInsert
<1>6. ASSUME NEW p \in Caller, Insert(p)
      PROVE  CacheInv'
  <2> DEFINE i == call[p]
             d == InsertAt(cache, i.key, i.value, i.ttl, i.now)
  <2>1. i \in [op : {"insert"}, key : Key, value : Value, ttl : Ttl, now : Nat]
    BY <1>1, <1>6 DEF Insert, Call
  <2>2. i.key \in Key /\ i.value \in Value /\ i.ttl \in Nat /\ i.now \in Nat
    BY <2>1, CacheAssumption
  <2>3. cache' = d
    BY <1>6 DEF Insert
  <2>4. Sound(d) /\ Cardinality(Live(d)) <= MaxEntries /\ Bounded(d)
    <3> HIDE DEF i
    <3> QED BY <1>1, <2>2, InsertSound
  <2> HIDE DEF d
  <2>5. call' \in [Caller -> Call \cup {NoCall}]
    BY <1>6, ReturnTyped DEF Insert
  <2> QED BY <1>1, <1>6, <2>3, <2>4, <2>5, CacheStep DEF Insert
<1>7. ASSUME NEW gone, cache' = RemoveAll(cache, gone), UNCHANGED <<clock, call>>
      PROVE  CacheInv'
  <2> DEFINE d == Drop(cache, gone)
  <2>1. Sound(d) /\ Live(d) \subseteq Live(cache)
    BY <1>1, DropSound
  <2>2. Cardinality(Live(d)) <= MaxEntries
    BY <1>1, <2>1, FewerLive, LiveFinite, CacheAssumption
  <2>3. cache' = Compact(d)
    BY <1>7 DEF RemoveAll
  <2> HIDE DEF d
  <2>4. Sound(Compact(d)) /\ Live(Compact(d)) = Live(d) /\ Bounded(Compact(d))
    BY <2>1, <2>2, CompactSound
  <2> QED BY <1>1, <1>7, <2>2, <2>3, <2>4, CacheStep
<1>8. ASSUME Clear
      PROVE  CacheInv'
  <2>1. /\ cache' \in Cache
        /\ cache'.expirations = {} /\ cache'.insertions = {}
        /\ \A k \in Key : cache'.entries[k] = NoEntry
    BY <1>1, <1>8 DEF Clear, Empty, Cache
  <2>2. Live(cache') = {}
    BY <2>1 DEF Live
  <2>3. Sound(cache')
    BY <2>1, <2>2, FS_EmptySet DEF Sound, Tracked, Numbered
  <2>4. Cardinality(Live(cache')) <= MaxEntries /\ Bounded(cache')
    BY <2>1, <2>2, FS_EmptySet, BoundTyped, CacheAssumption DEF Bounded
  <2> QED BY <1>1, <1>8, <2>3, <2>4, CacheStep DEF Clear
<1>9. ASSUME Reap
      PROVE  CacheInv'
  <2> DEFINE d == Prune(cache, clock)
  <2>1. Sound(d) /\ Live(d) \subseteq Live(cache)
    BY <1>1, PruneSound
  <2>2. Cardinality(Live(d)) <= MaxEntries
    BY <1>1, <2>1, FewerLive, LiveFinite, CacheAssumption
  <2>3. cache' = Compact(d)
    BY <1>9 DEF Reap, ReapAt
  <2> HIDE DEF d
  <2>4. Sound(Compact(d)) /\ Live(Compact(d)) = Live(d) /\ Bounded(Compact(d))
    BY <2>1, <2>2, CompactSound
  <2> QED BY <1>1, <1>9, <2>2, <2>3, <2>4, CacheStep DEF Reap
<1>10. ASSUME Tick
       PROVE  CacheInv'
  BY <1>1, <1>10, OtherStep DEF Tick
<1>11. ASSUME UNCHANGED cacheVars
       PROVE  CacheInv'
  BY <1>1, <1>11, OtherStep DEF cacheVars
<1>12. ASSUME NEW p \in Caller, CacheOperate(p)
       PROVE  CacheInv'
  BY <1>2, <1>3, <1>4, <1>5, <1>6, <1>12 DEF CacheOperate
<1>13. ASSUME NEW k \in Key, Remove(k)
       PROVE  CacheInv'
  BY <1>7, <1>13 DEF Remove
<1>14. ASSUME NEW gone \in SUBSET Live(cache), RemoveWhere(gone)
       PROVE  CacheInv'
  BY <1>7, <1>14 DEF RemoveWhere
<1> QED BY <1>8, <1>9, <1>10, <1>11, <1>12, <1>13, <1>14 DEF CacheNext

\* What the operations keep of a cache holds at every step, of any number of
\* callers with old times.
THEOREM Invariant == CacheSpec => []CacheInv
BY InitInv, StepInv, PTL DEF CacheSpec

\* Every variable of the cache keeps its type, whatever the callers do.
THEOREM CacheTypeCorrect == CacheSpec => []CacheTypeOK
<1>1. CacheInv => CacheTypeOK
  <2> SUFFICES ASSUME CacheInv PROVE CacheTypeOK
    OBVIOUS
  <2>1. \A p \in Caller : call[p] # NoCall => call[p].key \in Key /\ call[p].now \in Nat
    BY DEF CacheInv, Call
  <2> QED BY <2>1 DEF CacheInv, Sound, CacheTypeOK
<1> QED BY <1>1, Invariant, PTL

\* Every entry of the map can expire and can be evicted: maintenance and
\* rebuilding never lose its record in either heap.
THEOREM AlwaysTracked == CacheSpec => []EntriesTracked
<1>1. CacheInv => EntriesTracked
  BY DEF CacheInv, Sound, EntriesTracked
<1> QED BY <1>1, Invariant, PTL

\* An insert makes room before it adds, so the map never exceeds max_entries.
THEOREM NeverOverfull == CacheSpec => []WithinCapacity
<1>1. CacheInv => WithinCapacity
  BY DEF CacheInv
<1> QED BY <1>1, Invariant, PTL

\* Neither heap of records outgrows the bound, although removed and replaced
\* entries leave their records behind.
THEOREM RecordsBounded == CacheSpec => []HeapsBounded
<1>1. CacheInv => HeapsBounded
  BY DEF CacheInv
<1> QED BY <1>1, Invariant, PTL

\* Room is made by the first generation popped that has an entry: the record
\* of any entry makes room, and the smallest that does is popped last.
LEMMA EvictsFirst ==
    ASSUME NEW c, Sound(c), Cardinality(Live(c)) <= MaxEntries, Live(c) # Live(Evict(c))
    PROVE  \E g \in Nat :
              /\ \A k \in Live(c) : g <= c.entries[k].gen
              /\ Live(Evict(c)) = {k \in Live(c) : ~(c.entries[k].gen <= g)}
<1>1. c \in Cache /\ Tracked(c)
  BY DEF Sound
<1>2. ~(Cardinality(Live(c)) < MaxEntries)
  BY DEF Evict
<1>3. \A k \in Live(c) :
         /\ InsertionOf(c, k) \in c.insertions
         /\ InsertionOf(c, k).key = k /\ InsertionOf(c, k).gen = c.entries[k].gen
         /\ c.entries[k].gen \in Nat
  BY <1>1, LiveEntry DEF Tracked, InsertionOf, Entry
<1>4. \A h : Left(c, h) = {k \in Live(c) : ~(c.entries[k].gen <= h)}
  <2> TAKE h
  <2>1. ASSUME NEW k \in Live(c)
        PROVE  (\E r \in c.insertions : r.key = k /\ r.gen = c.entries[k].gen /\ r.gen <= h)
                  <=> c.entries[k].gen <= h
    <3> DEFINE own == InsertionOf(c, k)
    <3>1. own \in c.insertions /\ own.key = k /\ own.gen = c.entries[k].gen
      BY <1>3
    <3> HIDE DEF own
    <3> QED BY <3>1
  <2> QED BY <2>1 DEF Left
<1>5. ASSUME NEW k \in Live(c) PROVE c.entries[k].gen \in Room(c)
  <2> DEFINE left == Left(c, c.entries[k].gen)
             others == Live(c) \ {k}
  <2>1. left \subseteq others
    BY <1>3, <1>4
  <2>2. IsFiniteSet(others) /\ Cardinality(others) = Cardinality(Live(c)) - 1
    BY LiveFinite, FS_RemoveElement
  <2> HIDE DEF left, others
  <2>3. Cardinality(left) \in Nat /\ Cardinality(left) <= Cardinality(others)
    BY <2>1, <2>2, FS_Subset, FS_CardinalityType
  <2>4. Cardinality(left) < MaxEntries
    BY <2>2, <2>3, LiveFinite, CacheAssumption
  <2>5. c.entries[k].gen \in {r.gen : r \in c.insertions}
    BY <1>3
  <2> QED BY <2>4, <2>5 DEF Room, left
<1>6. Room(c) # {}
  <2> SUFFICES ASSUME Room(c) = {} PROVE FALSE
    OBVIOUS
  <2>1. Live(c) = {}
    BY <1>5
  <2> DEFINE all == {k \in Live(c) : InsertionOf(c, k) \in c.insertions}
             d == Drop(c, all)
  <2>2. d \in Cache /\ Live(d) = Live(c) \ all
    BY <1>1, DropTyped
  <2>3. Evict(c) = [d EXCEPT !.insertions = {}]
    BY <1>2 DEF Evict
  <2> HIDE DEF d
  <2>4. Live(Evict(c)) = Live(d)
    BY <2>2, <2>3 DEF Live, Cache
  <2> QED BY <2>1, <2>2, <2>4
<1> DEFINE g == CHOOSE g \in Room(c) : \A h \in Room(c) : g <= h
           gone == Live(c) \ Left(c, g)
           d == Drop(c, gone)
<1>7. Room(c) \subseteq Nat
  BY <1>1 DEF Room, Cache, Insertion
<1>8. g \in Nat /\ \A h \in Room(c) : g <= h
  BY <1>6, <1>7, SmallestExists
<1>9. Evict(c) = [d EXCEPT !.insertions = {r \in c.insertions : r.gen > g}]
  BY <1>2, <1>6 DEF Evict
<1> HIDE DEF g
<1>10. d \in Cache /\ Live(d) = Live(c) \ gone
  BY <1>1, DropTyped
<1> HIDE DEF d
<1>11. Live(Evict(c)) = Live(d)
  BY <1>9, <1>10 DEF Live, Cache
<1>12. Live(Evict(c)) = {k \in Live(c) : ~(c.entries[k].gen <= g)}
  BY <1>4, <1>10, <1>11
<1> QED BY <1>5, <1>8, <1>12

\* insert_inner_at and evict_excess_locked: once the expired entries have
\* gone, room for a new one costs one entry at most, the oldest.
THEOREM OldestGoFirst == CacheSpec => []EvictsOldest
<1>1. CacheInv => EvictsOldest
  <2> SUFFICES ASSUME CacheInv, NEW now \in 0 .. clock
               PROVE  LET before == Prune(cache, now)
                          after == Evict(before)
                          gone == Live(before) \ Live(after)
                      IN  /\ Cardinality(gone) <= 1
                          /\ \A k \in gone, j \in Live(after) :
                                before.entries[k].gen < before.entries[j].gen
    BY DEF EvictsOldest
  <2> DEFINE c == Prune(cache, now)
             gone == Live(c) \ Live(Evict(c))
  <2>1. Sound(c) /\ Cardinality(Live(c)) <= MaxEntries
    <3>1. now \in Nat /\ Sound(cache) /\ Cardinality(Live(cache)) <= MaxEntries
      BY DEF CacheInv, WithinCapacity
    <3>2. Sound(c) /\ Live(c) \subseteq Live(cache)
      BY <3>1, PruneSound
    <3> HIDE DEF c
    <3>3. Cardinality(Live(c)) <= Cardinality(Live(cache))
      BY <3>2, FewerLive
    <3> QED BY <3>1, <3>2, <3>3, LiveFinite, CacheAssumption
  <2> HIDE DEF c
  <2>2. c \in Cache /\ Numbered(c)
    BY <2>1 DEF Sound
  <2>3. \A k \in Live(c) : c.entries[k].gen \in Nat
    BY <2>2, LiveEntry DEF Entry
  <2>4. Cardinality(gone) <= 1 /\ \A k \in gone, j \in Live(Evict(c)) :
                                     c.entries[k].gen < c.entries[j].gen
    <3>1. CASE Live(c) = Live(Evict(c))
      <4>1. gone = {}
        BY <3>1
      <4>2. Cardinality(gone) = 0
        BY <4>1, FS_EmptySet
      <4> QED BY <4>1, <4>2
    <3>2. CASE Live(c) # Live(Evict(c))
      <4>1. PICK g \in Nat :
               /\ \A k \in Live(c) : g <= c.entries[k].gen
               /\ Live(Evict(c)) = {k \in Live(c) : ~(c.entries[k].gen <= g)}
        BY <2>1, <3>2, EvictsFirst
      <4>2. \A k \in gone : k \in Live(c) /\ c.entries[k].gen = g
        BY <2>3, <4>1
      <4>3. \A k, j \in gone : k = j
        BY <2>2, <4>2 DEF Numbered
      <4>4. Cardinality(gone) <= 1
        <5>1. CASE gone = {}
          <6>1. Cardinality(gone) = 0
            BY <5>1, FS_EmptySet
          <6> QED BY <6>1
        <5>2. CASE gone # {}
          <6>1. PICK k \in gone : TRUE
            BY <5>2
          <6>2. gone = {k}
            BY <4>3, <6>1
          <6>3. Cardinality(gone) = 1
            BY <6>2, FS_Singleton
          <6> QED BY <6>3
        <5> QED BY <5>1, <5>2
      <4>5. ASSUME NEW k \in gone, NEW j \in Live(Evict(c))
            PROVE  c.entries[k].gen < c.entries[j].gen
        <5>1. c.entries[k].gen = g /\ c.entries[j].gen \in Nat /\ ~(c.entries[j].gen <= g)
          BY <2>3, <4>1, <4>2
        <5> QED BY <5>1
      <4> QED BY <4>4, <4>5
    <3> QED BY <3>1, <3>2
  <2> QED BY <2>4 DEF c
<1> QED BY <1>1, Invariant, PTL

-----------------------------------------------------------------------------
(* The state store.                                                        *)

\* Places where a command's copy is what it has read or written, where it
\* relies on the version it has loaded, and where it holds the lock.
Unchanged == {"check backup", "repair primary", "repair backup", "replay", "write backup"}
Loaded == {"drop wal", "ready", "lock", "validate", "write primary"}
Holding == {"validate", "write primary", "write backup"}
Writing == {"check backup", "repair primary", "repair backup", "write backup"}

\* A state that may be in a file.
Committed(s) == s \in past /\ s.version > 0

FilesCommitted ==
    /\ primary \in State => Committed(primary)
    /\ backup \in State => Committed(backup)
    /\ \A p \in Process : pc[p] \in Writing => Committed(mem[p])

Exclusive == \A p \in Process : pc[p] \in Holding => lock = p

\* What each command knows of the state it started from.
InStep(p) ==
    /\ pc[p] \in Unchanged => mem[p] = base[p]
    /\ pc[p] = "was missing" => base[p] = Fresh
    /\ pc[p] \in Loaded => base[p] \in State /\ loaded[p] = base[p].version
    /\ pc[p] = "write primary" => mem[p].version = loaded[p] + 1
    /\ pc[p] = "was corrupt" => Suspect

CopyInStep == \A p \in Process : InStep(p)

\* At any place but these a command has read a state.
Based(p) == pc[p] \notin {"idle", "was corrupt"}

\* While the state file has neither been damaged nor overwritten.
Current ==
    /\ primary # Corrupt
    /\ \A s \in past : s.version <= Held.version
    /\ \A p \in Process : Based(p) =>
          /\ base[p] \in State
          /\ base[p].version <= Held.version
          /\ base[p].version = Held.version => base[p] = Held
    /\ \A p \in Process : pc[p] = "write primary" => loaded[p] = Held.version

StoreInv ==
    /\ TypeOK
    /\ FilesCommitted
    /\ Exclusive
    /\ CopyInStep
    /\ ~Suspect => Current /\ BackupNeverAhead

-----------------------------------------------------------------------------

\* Changing some facts of a state gives a state.
LEMMA FactsTyped ==
    ASSUME NEW s \in State, NEW facts \in SUBSET Fact
    PROVE  /\ [s EXCEPT !.facts = facts] \in State
           /\ s.facts \in SUBSET Fact
BY DEF State

LEMMA VersionTyped ==
    ASSUME NEW s \in State, NEW v \in Nat
    PROVE  /\ [s EXCEPT !.version = v] \in State
           /\ [s EXCEPT !.version = v].version = v
           /\ s.version \in Nat
BY DEF State

LEMMA FreshTyped == Fresh \in State /\ Fresh.version = 0
BY DEF Fresh, State

\* The history and the WAL bring in nothing but facts.
LEMMA PushTyped ==
    ASSUME NEW facts \in SUBSET Fact, NEW f \in Fact
    PROVE  Push(facts, f) \in SUBSET Fact
BY DEF Push

LEMMA ReplayTyped ==
    ASSUME NEW facts \in SUBSET Fact, NEW entries \in SUBSET LegacyWal
    PROVE  Replay(facts, entries) \in SUBSET Fact
<1>1. LegacyWal \subseteq Fact
  BY StoreAssumption
<1> DEFINE of(kind) == {f \in entries : f.kind = kind /\ Exists(facts, f.inst)}
           kept == {g \in facts : \A f \in of("status") : g.kind # "status" \/ g.inst # f.inst}
           added == kept \cup of("status") \cup {f \in entries : f.kind = "action"}
<1>2. added \in SUBSET Fact
  BY <1>1
<1>3. CASE of("history") = {}
  BY <1>2, <1>3 DEF Replay
<1>4. CASE of("history") # {}
  <2>1. (CHOOSE f \in of("history") : TRUE) \in of("history")
    BY <1>4
  <2>2. (CHOOSE f \in of("history") : TRUE) \in Fact
    BY <1>1, <2>1
  <2>3. Push(added, CHOOSE f \in of("history") : TRUE) \in SUBSET Fact
    BY <1>2, <2>2, PushTyped
  <2> QED BY <1>4, <2>3 DEF Replay
<1> QED BY <1>3, <1>4

\* Every operation changes some facts of the copy.
LEMMA OperationIsChange ==
    ASSUME TypeOK, NEW p \in Process, NEW i \in Instance, Operate(p, i)
    PROVE  \E facts \in SUBSET Fact : Change(p, facts)
<1> DEFINE held == mem[p].facts
<1>1. held \in SUBSET Fact
  BY FactsTyped DEF TypeOK
<1>2. \A kind \in Kind : New(kind, i) \in Fact
  BY DEF New, Fact, TypeOK
<1>3. \A facts \in SUBSET Fact, f \in Fact : Put(facts, f) \in SUBSET Fact
  BY DEF Put
<1>4. \A kind \in {"instance", "status", "plan", "history", "action"} : New(kind, i) \in Fact
  BY <1>2 DEF Kind
<1> HIDE DEF held
<1>5. CASE CreateInstance(p, i)
  <2>1. held \cup {New("instance", i), New("status", i)} \in SUBSET Fact
    BY <1>1, <1>4
  <2> QED BY <1>5, <2>1 DEF CreateInstance, held
<1>6. CASE AppendOperationHistory(p, i)
  <2>1. Push(held, New("history", i)) \in SUBSET Fact
    BY <1>1, <1>4, PushTyped
  <2> QED BY <1>6, <2>1 DEF AppendOperationHistory, held
<1>7. CASE SetStatus(p, i)
  <2>1. Put(held, New("status", i)) \in SUBSET Fact
    BY <1>1, <1>3, <1>4
  <2> QED BY <1>7, <2>1 DEF SetStatus, held
<1>8. CASE SetRolloutPlan(p, i)
  <2>1. /\ Put(held, New("plan", i)) \in SUBSET Fact
        /\ {f \in held : f.kind # "plan" \/ f.inst # i} \in SUBSET Fact
    BY <1>1, <1>3, <1>4
  <2> QED BY <1>8, <2>1 DEF SetRolloutPlan, held
<1>9. CASE MarkActionApplied(p, i)
  <2> DEFINE marked == held \cup {New("action", i)}
             facts == IF Exists(marked, i) THEN Put(marked, New("status", i)) ELSE marked
  <2>1. marked \in SUBSET Fact
    BY <1>1, <1>4
  <2>2. facts \in SUBSET Fact
    BY <1>3, <1>4, <2>1
  <2>3. Change(p, facts)
    BY <1>9 DEF MarkActionApplied, held
  <2> QED BY <2>2, <2>3
<1> QED BY <1>5, <1>6, <1>7, <1>8, <1>9 DEF Operate

-----------------------------------------------------------------------------
(* Each step keeps the invariant, one lemma for each part.                 *)

\* The types are kept.
LEMMA TypeStep ==
    ASSUME TypeOK, [Next]_vars
    PROVE  TypeOK'
<1>1. ASSUME NEW p \in Process, ReadPrimary(p) PROVE TypeOK'
  <2>1. pc' \in [Process -> Location]
    BY <1>1 DEF ReadPrimary, TypeOK, Location, Goto
  <2>2. mem' \in [Process -> State]
    BY <1>1, FreshTyped DEF ReadPrimary, TypeOK, SetMem
  <2>3. base' \in [Process -> State \cup {None}]
    BY <1>1, FreshTyped DEF ReadPrimary, TypeOK
  <2> QED BY <1>1, <2>1, <2>2, <2>3 DEF ReadPrimary, TypeOK, files
<1>2. ASSUME NEW p \in Process, CheckBackup(p) PROVE TypeOK'
  BY <1>2 DEF CheckBackup, TypeOK, Location, Goto, files
<1>3. ASSUME NEW p \in Process, ReadBackup(p) PROVE TypeOK'
  <2>1. pc' \in [Process -> Location]
    BY <1>3 DEF ReadBackup, TypeOK, Location, Goto
  <2>2. mem' \in [Process -> State]
    BY <1>3, FreshTyped DEF ReadBackup, TypeOK, SetMem
  <2>3. base' \in [Process -> State \cup {None}]
    BY <1>3, FreshTyped DEF ReadBackup, TypeOK
  <2> QED BY <1>3, <2>1, <2>2, <2>3 DEF ReadBackup, TypeOK, files
<1>4. ASSUME NEW p \in Process, RepairPrimary(p) PROVE TypeOK'
  BY <1>4 DEF RepairPrimary, TypeOK, Location, Goto, files
<1>5. ASSUME NEW p \in Process, RepairBackup(p) PROVE TypeOK'
  BY <1>5 DEF RepairBackup, TypeOK, Location, Goto, files
<1>6. ASSUME NEW p \in Process, ReplayWal(p) PROVE TypeOK'
  <2>1. Replay(mem[p].facts, wal) \in SUBSET Fact
    BY FactsTyped, ReplayTyped DEF TypeOK
  <2>2. /\ [mem[p] EXCEPT !.facts = Replay(@, wal)] \in State
        /\ mem[p].version \in Nat
    BY <2>1, FactsTyped, VersionTyped DEF TypeOK
  <2> QED BY <1>6, <2>2 DEF ReplayWal, TypeOK, Location, Goto, SetMem, files
<1>7. ASSUME NEW p \in Process, DropWal(p) PROVE TypeOK'
  BY <1>7 DEF DropWal, TypeOK, Location, Goto, files
<1>8. ASSUME NEW p \in Process, AcquireLock(p) PROVE TypeOK'
  BY <1>8 DEF AcquireLock, TypeOK, Location, Goto, files
<1>9. ASSUME NEW p \in Process, LockFails(p) PROVE TypeOK'
  BY <1>9 DEF LockFails, TypeOK, Location, Goto, files
<1>10. ASSUME NEW p \in Process, Validate(p) PROVE TypeOK'
  <2>1. mem[p] \in State /\ loaded[p] + 1 \in Nat
    BY DEF TypeOK
  <2>2. [mem[p] EXCEPT !.version = loaded[p] + 1] \in State
    BY <2>1, VersionTyped
  <2> QED BY <1>10, <2>2 DEF Validate, TypeOK, Location, Goto, SetMem, files
<1>11. ASSUME NEW p \in Process, WritePrimary(p) PROVE TypeOK'
  <2>1. mem[p] \in State /\ past' \subseteq State
    BY <1>11 DEF WritePrimary, TypeOK
  <2>2. /\ primary' \in State \cup {Missing, Corrupt}
        /\ base' \in [Process -> State \cup {None}]
        /\ lock' \in Process \cup {None}
        /\ pc' \in [Process -> Location]
    BY <1>11, <2>1 DEF WritePrimary, TypeOK, Location, Goto
  <2> QED BY <1>11, <2>1, <2>2 DEF WritePrimary, TypeOK
<1>12. ASSUME NEW p \in Process, WriteBackup(p) PROVE TypeOK'
  <2>1. mem[p].version \in Nat
    BY VersionTyped DEF TypeOK
  <2> QED BY <1>12, <2>1 DEF WriteBackup, TypeOK, Location, Goto, files
<1>13. ASSUME NEW p \in Process, Exit(p) PROVE TypeOK'
  BY <1>13, FreshTyped DEF Exit, TypeOK, Location, Goto, files, SetMem
<1>14. ASSUME NEW p \in Process, NEW facts \in SUBSET Fact, Change(p, facts) PROVE TypeOK'
  <2>1. [mem[p] EXCEPT !.facts = facts] \in State
    BY FactsTyped DEF TypeOK
  <2>2. changes' \in Nat
    BY <1>14 DEF Change, TypeOK
  <2> QED BY <1>14, <2>1, <2>2 DEF Change, TypeOK, Location, Goto, SetMem, files
<1>15. ASSUME DamagePrimary PROVE TypeOK'
  <2>1. harm' \in [primary : Nat, backup : Nat]
    BY <1>15 DEF DamagePrimary, TypeOK
  <2> QED BY <1>15, <2>1 DEF DamagePrimary, TypeOK
<1>16. ASSUME DamageBackup PROVE TypeOK'
  <2>1. harm' \in [primary : Nat, backup : Nat]
    BY <1>16 DEF DamageBackup, TypeOK
  <2> QED BY <1>16, <2>1 DEF DamageBackup, TypeOK
<1>17. ASSUME UNCHANGED vars PROVE TypeOK'
  BY <1>17 DEF vars, TypeOK, files
<1> QED BY <1>1, <1>2, <1>3, <1>4, <1>5, <1>6, <1>7, <1>8,
           <1>9, <1>10, <1>11, <1>12, <1>13, <1>14, <1>15, <1>16, <1>17, OperationIsChange
       DEF Next, Load, Persist

\* What is in the files, or on its way there, was committed.
LEMMA CommittedStep ==
    ASSUME StoreInv, [Next]_vars
    PROVE  FilesCommitted'
<1> USE DEF StoreInv
<1>1. ASSUME NEW p \in Process, ReadPrimary(p) PROVE FilesCommitted'
  BY <1>1 DEF ReadPrimary, Goto, SetMem, FilesCommitted, Committed, Writing, TypeOK, files
<1>2. ASSUME NEW p \in Process, CheckBackup(p) PROVE FilesCommitted'
  BY <1>2 DEF CheckBackup, Goto, FilesCommitted, Committed, Writing, TypeOK, files
<1>3. ASSUME NEW p \in Process, ReadBackup(p) PROVE FilesCommitted'
  BY <1>3 DEF ReadBackup, Goto, SetMem, FilesCommitted, Committed, Writing, TypeOK, files
<1>4. ASSUME NEW p \in Process, RepairPrimary(p) PROVE FilesCommitted'
  BY <1>4 DEF RepairPrimary, Goto, FilesCommitted, Committed, Writing, TypeOK, files
<1>5. ASSUME NEW p \in Process, RepairBackup(p) PROVE FilesCommitted'
  BY <1>5 DEF RepairBackup, Goto, FilesCommitted, Committed, Writing, TypeOK, files
<1>6. ASSUME NEW p \in Process, ReplayWal(p) PROVE FilesCommitted'
  BY <1>6 DEF ReplayWal, Goto, SetMem, FilesCommitted, Committed, Writing, TypeOK, files
<1>7. ASSUME NEW p \in Process, DropWal(p) PROVE FilesCommitted'
  BY <1>7 DEF DropWal, Goto, FilesCommitted, Committed, Writing, TypeOK, files
<1>8. ASSUME NEW p \in Process, AcquireLock(p) PROVE FilesCommitted'
  BY <1>8 DEF AcquireLock, Goto, FilesCommitted, Committed, Writing, TypeOK, files
<1>9. ASSUME NEW p \in Process, LockFails(p) PROVE FilesCommitted'
  BY <1>9 DEF LockFails, Goto, FilesCommitted, Committed, Writing, TypeOK, files
<1>10. ASSUME NEW p \in Process, Validate(p) PROVE FilesCommitted'
  BY <1>10 DEF Validate, Goto, SetMem, FilesCommitted, Committed, Writing, TypeOK, files
<1>11. ASSUME NEW p \in Process, WritePrimary(p) PROVE FilesCommitted'
  <2>1. loaded[p] \in Nat /\ mem[p].version = loaded[p] + 1
    BY <1>11 DEF TypeOK, CopyInStep, InStep, WritePrimary
  <2>4. mem[p].version > 0
    BY <2>1
  <2>2. CASE pc'[p] = "write backup"
    BY <1>11, <2>4, <2>2 DEF WritePrimary, Goto, FilesCommitted, Committed, Writing, TypeOK
  <2>3. CASE pc'[p] # "write backup"
    BY <1>11, <2>3 DEF WritePrimary, Goto, FilesCommitted, Committed, Writing, TypeOK
  <2> QED BY <2>2, <2>3
<1>12. ASSUME NEW p \in Process, WriteBackup(p) PROVE FilesCommitted'
  BY <1>12 DEF WriteBackup, Goto, FilesCommitted, Committed, Writing, TypeOK, files
<1>13. ASSUME NEW p \in Process, Exit(p) PROVE FilesCommitted'
  BY <1>13 DEF Exit, Goto, SetMem, FilesCommitted, Committed, Writing, TypeOK, files
<1>14. ASSUME NEW p \in Process, NEW facts \in SUBSET Fact, Change(p, facts) PROVE FilesCommitted'
  BY <1>14 DEF Change, Goto, SetMem, FilesCommitted, Committed, Writing, TypeOK, files
<1>15. ASSUME DamagePrimary PROVE FilesCommitted'
  BY <1>15, StoreAssumption DEF DamagePrimary, FilesCommitted, Committed
<1>16. ASSUME DamageBackup PROVE FilesCommitted'
  BY <1>16, StoreAssumption DEF DamageBackup, FilesCommitted, Committed
<1>17. ASSUME UNCHANGED vars PROVE FilesCommitted'
  BY <1>17 DEF vars, FilesCommitted, Committed, files
<1> QED BY <1>1, <1>2, <1>3, <1>4, <1>5, <1>6, <1>7, <1>8,
           <1>9, <1>10, <1>11, <1>12, <1>13, <1>14, <1>15, <1>16, <1>17, OperationIsChange
       DEF Next, Load, Persist

\* Only the holder of the lock is between the comparison and the backup.
LEMMA ExclusiveStep ==
    ASSUME StoreInv, [Next]_vars
    PROVE  Exclusive'
<1> USE DEF StoreInv
<1>1. ASSUME NEW p \in Process, ReadPrimary(p) PROVE Exclusive'
  BY <1>1, StoreAssumption DEF ReadPrimary, Goto, Exclusive, Holding, TypeOK
<1>2. ASSUME NEW p \in Process, CheckBackup(p) PROVE Exclusive'
  BY <1>2, StoreAssumption DEF CheckBackup, Goto, Exclusive, Holding, TypeOK
<1>3. ASSUME NEW p \in Process, ReadBackup(p) PROVE Exclusive'
  BY <1>3, StoreAssumption DEF ReadBackup, Goto, Exclusive, Holding, TypeOK
<1>4. ASSUME NEW p \in Process, RepairPrimary(p) PROVE Exclusive'
  BY <1>4, StoreAssumption DEF RepairPrimary, Goto, Exclusive, Holding, TypeOK
<1>5. ASSUME NEW p \in Process, RepairBackup(p) PROVE Exclusive'
  BY <1>5, StoreAssumption DEF RepairBackup, Goto, Exclusive, Holding, TypeOK
<1>6. ASSUME NEW p \in Process, ReplayWal(p) PROVE Exclusive'
  BY <1>6, StoreAssumption DEF ReplayWal, Goto, Exclusive, Holding, TypeOK
<1>7. ASSUME NEW p \in Process, DropWal(p) PROVE Exclusive'
  BY <1>7, StoreAssumption DEF DropWal, Goto, Exclusive, Holding, TypeOK
<1>8. ASSUME NEW p \in Process, AcquireLock(p) PROVE Exclusive'
  BY <1>8, StoreAssumption DEF AcquireLock, Goto, Exclusive, Holding, TypeOK
<1>9. ASSUME NEW p \in Process, LockFails(p) PROVE Exclusive'
  BY <1>9, StoreAssumption DEF LockFails, Goto, Exclusive, Holding, TypeOK
<1>10. ASSUME NEW p \in Process, Validate(p) PROVE Exclusive'
  BY <1>10, StoreAssumption DEF Validate, Goto, Exclusive, Holding, TypeOK
<1>11. ASSUME NEW p \in Process, WritePrimary(p) PROVE Exclusive'
  BY <1>11, StoreAssumption DEF WritePrimary, Goto, Exclusive, Holding, TypeOK
<1>12. ASSUME NEW p \in Process, WriteBackup(p) PROVE Exclusive'
  BY <1>12, StoreAssumption DEF WriteBackup, Goto, Exclusive, Holding, TypeOK
<1>13. ASSUME NEW p \in Process, Exit(p) PROVE Exclusive'
  BY <1>13, StoreAssumption DEF Exit, Goto, Exclusive, Holding, TypeOK
<1>14. ASSUME NEW p \in Process, NEW facts \in SUBSET Fact, Change(p, facts) PROVE Exclusive'
  BY <1>14, StoreAssumption DEF Change, Goto, Exclusive, Holding, TypeOK
<1>15. ASSUME DamagePrimary PROVE Exclusive'
  BY <1>15 DEF DamagePrimary, Exclusive
<1>16. ASSUME DamageBackup PROVE Exclusive'
  BY <1>16 DEF DamageBackup, Exclusive
<1>17. ASSUME UNCHANGED vars PROVE Exclusive'
  BY <1>17 DEF vars, Exclusive
<1> QED BY <1>1, <1>2, <1>3, <1>4, <1>5, <1>6, <1>7, <1>8,
           <1>9, <1>10, <1>11, <1>12, <1>13, <1>14, <1>15, <1>16, <1>17, OperationIsChange
       DEF Next, Load, Persist

\* A suspicion stays.
LEMMA SuspicionStays ==
    ASSUME TypeOK, [Next]_vars, Suspect
    PROVE  Suspect'
<1> USE DEF Suspect
<1>1. ASSUME NEW p \in Process, ReadPrimary(p) PROVE Suspect'
  BY <1>1 DEF ReadPrimary
<1>2. ASSUME NEW p \in Process, CheckBackup(p) PROVE Suspect'
  BY <1>2 DEF CheckBackup
<1>3. ASSUME NEW p \in Process, ReadBackup(p) PROVE Suspect'
  BY <1>3 DEF ReadBackup
<1>4. ASSUME NEW p \in Process, RepairPrimary(p) PROVE Suspect'
  <2>1. harm' = harm /\ (overwritten => overwritten')
    BY <1>4 DEF RepairPrimary
  <2> QED BY <2>1
<1>5. ASSUME NEW p \in Process, RepairBackup(p) PROVE Suspect'
  BY <1>5 DEF RepairBackup
<1>6. ASSUME NEW p \in Process, ReplayWal(p) PROVE Suspect'
  BY <1>6 DEF ReplayWal
<1>7. ASSUME NEW p \in Process, DropWal(p) PROVE Suspect'
  BY <1>7 DEF DropWal
<1>8. ASSUME NEW p \in Process, AcquireLock(p) PROVE Suspect'
  BY <1>8 DEF AcquireLock
<1>9. ASSUME NEW p \in Process, LockFails(p) PROVE Suspect'
  BY <1>9 DEF LockFails
<1>10. ASSUME NEW p \in Process, Validate(p) PROVE Suspect'
  BY <1>10 DEF Validate
<1>11. ASSUME NEW p \in Process, WritePrimary(p) PROVE Suspect'
  BY <1>11 DEF WritePrimary
<1>12. ASSUME NEW p \in Process, WriteBackup(p) PROVE Suspect'
  BY <1>12 DEF WriteBackup
<1>13. ASSUME NEW p \in Process, Exit(p) PROVE Suspect'
  BY <1>13 DEF Exit
<1>14. ASSUME NEW p \in Process, NEW facts \in SUBSET Fact, Change(p, facts) PROVE Suspect'
  BY <1>14 DEF Change
<1>15. ASSUME DamagePrimary PROVE Suspect'
  BY <1>15 DEF DamagePrimary, TypeOK
<1>16. ASSUME DamageBackup PROVE Suspect'
  BY <1>16 DEF DamageBackup
<1>17. ASSUME UNCHANGED vars PROVE Suspect'
  BY <1>17 DEF vars
<1> QED BY <1>1, <1>2, <1>3, <1>4, <1>5, <1>6, <1>7, <1>8,
           <1>9, <1>10, <1>11, <1>12, <1>13, <1>14, <1>15, <1>16, <1>17, OperationIsChange
       DEF Next, Load, Persist

\* Every command's copy and version stay in step with what it has read.
LEMMA CopyStep ==
    ASSUME StoreInv, [Next]_vars
    PROVE  CopyInStep'
<1> USE DEF StoreInv
<1>0. Suspect => Suspect'
  BY SuspicionStays
<1> USE <1>0
<1>1. ASSUME NEW p \in Process, ReadPrimary(p) PROVE CopyInStep'
  <2>1. ASSUME NEW q \in Process, q # p PROVE InStep(q)'
    <3>1. /\ pc'[q] = pc[q] /\ mem'[q] = mem[q]
          /\ base'[q] = base[q] /\ loaded'[q] = loaded[q]
      BY <1>1, <2>1 DEF ReadPrimary, Goto, SetMem, TypeOK
    <3> QED BY <3>1 DEF CopyInStep, InStep
  <2>2. ASSUME pc'[p] = "check backup" PROVE InStep(p)'
    <3>1. /\ mem' = [mem EXCEPT ![p] = primary]
          /\ base' = [base EXCEPT ![p] = primary]
      BY <1>1, <2>2 DEF ReadPrimary, Goto, SetMem, TypeOK
    <3>2. mem'[p] = base'[p]
      BY <3>1 DEF TypeOK
    <3> QED BY <2>2, <3>2 DEF InStep, Unchanged, Loaded
  <2>3. ASSUME pc'[p] = "was corrupt" PROVE InStep(p)'
    <3>1. primary = Corrupt
      BY <1>1, <2>3 DEF ReadPrimary, Goto, TypeOK
    <3>2. Suspect
      BY <3>1 DEF Current
    <3> QED BY <2>3, <3>2 DEF InStep, Unchanged, Loaded
  <2>4. ASSUME pc'[p] = "was missing" PROVE InStep(p)'
    <3>1. base'[p] = Fresh
      BY <1>1, <2>4 DEF ReadPrimary, Goto, SetMem, TypeOK, CopyInStep, InStep
    <3> QED BY <2>4, <3>1 DEF InStep, Unchanged, Loaded
  <2>5. pc'[p] \in {"check backup", "was corrupt", "was missing"}
    BY <1>1 DEF ReadPrimary, Goto, TypeOK
  <2> QED BY <2>1, <2>2, <2>3, <2>4, <2>5 DEF CopyInStep
<1>2. ASSUME NEW p \in Process, CheckBackup(p) PROVE CopyInStep'
  BY <1>2 DEF CheckBackup, Goto, CopyInStep, InStep, Unchanged, Loaded, TypeOK
<1>3. ASSUME NEW p \in Process, ReadBackup(p) PROVE CopyInStep'
  <2>1. ASSUME NEW q \in Process, q # p PROVE InStep(q)'
    <3>1. /\ pc'[q] = pc[q] /\ mem'[q] = mem[q]
          /\ base'[q] = base[q] /\ loaded'[q] = loaded[q]
      BY <1>3, <2>1 DEF ReadBackup, Goto, SetMem, TypeOK
    <3> QED BY <3>1 DEF CopyInStep, InStep
  <2>2. ASSUME pc'[p] = "repair primary" PROVE InStep(p)'
    <3>1. /\ mem' = [mem EXCEPT ![p] = backup]
          /\ base' = [base EXCEPT ![p] = backup]
      BY <1>3, <2>2 DEF ReadBackup, Goto, SetMem, TypeOK
    <3>2. mem'[p] = base'[p]
      BY <3>1 DEF TypeOK
    <3> QED BY <2>2, <3>1, <3>2 DEF InStep, Unchanged, Loaded
  <2>3. ASSUME pc'[p] = "replay" PROVE InStep(p)'
    <3>1. mem'[p] = base'[p]
      BY <1>3, <2>3 DEF ReadBackup, Goto, SetMem, TypeOK, CopyInStep, InStep
    <3> QED BY <2>3, <3>1 DEF InStep, Unchanged, Loaded
  <2>4. ASSUME pc'[p] = "idle" PROVE InStep(p)'
    <3>1. TRUE
      BY <1>3, <2>4 DEF ReadBackup, Goto, SetMem, TypeOK, CopyInStep, InStep
    <3> QED BY <2>4, <3>1 DEF InStep, Unchanged, Loaded
  <2>5. pc'[p] \in {"repair primary", "replay", "idle"}
    BY <1>3 DEF ReadBackup, Goto, TypeOK
  <2> QED BY <2>1, <2>2, <2>3, <2>4, <2>5 DEF CopyInStep
<1>4. ASSUME NEW p \in Process, RepairPrimary(p) PROVE CopyInStep'
  BY <1>4 DEF RepairPrimary, Goto, CopyInStep, InStep, Unchanged, Loaded, TypeOK
<1>5. ASSUME NEW p \in Process, RepairBackup(p) PROVE CopyInStep'
  BY <1>5 DEF RepairBackup, Goto, CopyInStep, InStep, Unchanged, Loaded, TypeOK
<1>6. ASSUME NEW p \in Process, ReplayWal(p) PROVE CopyInStep'
  BY <1>6 DEF ReplayWal, Goto, SetMem, CopyInStep, InStep, Unchanged, Loaded, TypeOK
<1>7. ASSUME NEW p \in Process, DropWal(p) PROVE CopyInStep'
  BY <1>7 DEF DropWal, Goto, CopyInStep, InStep, Unchanged, Loaded, TypeOK
<1>8. ASSUME NEW p \in Process, AcquireLock(p) PROVE CopyInStep'
  BY <1>8 DEF AcquireLock, Goto, CopyInStep, InStep, Unchanged, Loaded, TypeOK
<1>9. ASSUME NEW p \in Process, LockFails(p) PROVE CopyInStep'
  BY <1>9 DEF LockFails, Goto, CopyInStep, InStep, Unchanged, Loaded, TypeOK
<1>10. ASSUME NEW p \in Process, Validate(p) PROVE CopyInStep'
  <2>1. mem[p] \in State /\ loaded[p] + 1 \in Nat
    BY DEF TypeOK
  <2>2. [mem[p] EXCEPT !.version = loaded[p] + 1].version = loaded[p] + 1
    BY <2>1, VersionTyped
  <2>3. /\ pc[p] = "validate" /\ base' = base /\ loaded' = loaded
        /\ pc'[p] \in {"write primary", "ready"}
        /\ pc'[p] = "write primary" => mem'[p].version = loaded[p] + 1
    BY <1>10, <2>2 DEF Validate, Goto, SetMem, TypeOK
  <2>4. InStep(p)'
    BY <2>3 DEF CopyInStep, InStep, Unchanged, Loaded
  <2>5. ASSUME NEW q \in Process, q # p PROVE InStep(q)'
    <3>1. pc'[q] = pc[q] /\ mem'[q] = mem[q]
      BY <1>10, <2>5 DEF Validate, Goto, SetMem, TypeOK
    <3> QED BY <2>3, <3>1 DEF CopyInStep, InStep
  <2> QED BY <2>4, <2>5 DEF CopyInStep
<1>11. ASSUME NEW p \in Process, WritePrimary(p) PROVE CopyInStep'
  <2>1. /\ pc[p] = "write primary" /\ mem' = mem /\ loaded' = loaded
        /\ pc'[p] \in {"write backup", "ready"}
    BY <1>11 DEF WritePrimary, Goto, TypeOK
  <2>2. /\ pc'[p] = "write backup" => base'[p] = mem[p]
        /\ pc'[p] = "ready" => base'[p] = base[p]
    BY <1>11 DEF WritePrimary, Goto, TypeOK
  <2>3. InStep(p)'
    BY <2>1, <2>2 DEF CopyInStep, InStep, Unchanged, Loaded
  <2>4. ASSUME NEW q \in Process, q # p PROVE InStep(q)'
    <3>1. pc'[q] = pc[q] /\ base'[q] = base[q]
      BY <1>11, <2>4 DEF WritePrimary, Goto, TypeOK
    <3> QED BY <2>1, <3>1 DEF CopyInStep, InStep
  <2> QED BY <2>3, <2>4 DEF CopyInStep
<1>12. ASSUME NEW p \in Process, WriteBackup(p) PROVE CopyInStep'
  BY <1>12 DEF WriteBackup, Goto, CopyInStep, InStep, Unchanged, Loaded, TypeOK
<1>13. ASSUME NEW p \in Process, Exit(p) PROVE CopyInStep'
  BY <1>13 DEF Exit, Goto, SetMem, CopyInStep, InStep, Unchanged, Loaded, TypeOK
<1>14. ASSUME NEW p \in Process, NEW facts \in SUBSET Fact, Change(p, facts) PROVE CopyInStep'
  BY <1>14 DEF Change, Goto, SetMem, CopyInStep, InStep, Unchanged, Loaded, TypeOK
<1>15. ASSUME DamagePrimary PROVE CopyInStep'
  BY <1>15 DEF DamagePrimary, CopyInStep, InStep
<1>16. ASSUME DamageBackup PROVE CopyInStep'
  BY <1>16 DEF DamageBackup, CopyInStep, InStep
<1>17. ASSUME UNCHANGED vars PROVE CopyInStep'
  BY <1>17 DEF vars, CopyInStep, InStep
<1> QED BY <1>1, <1>2, <1>3, <1>4, <1>5, <1>6, <1>7, <1>8,
           <1>9, <1>10, <1>11, <1>12, <1>13, <1>14, <1>15, <1>16, <1>17, OperationIsChange
       DEF Next, Load, Persist

LEMMA PositiveAboveZero == \A n \in Nat : n > 0 => ~(n <= 0)
OBVIOUS

\* While no state was lost, a repair finds a state in the file it replaces.
LEMMA RepairFindsState ==
    ASSUME StoreInv, ~Suspect, NEW p \in Process, pc[p] = "repair primary"
    PROVE  primary \in State
<1>1. base[p] = mem[p] /\ mem[p].version > 0 /\ base[p].version <= Held.version
  BY DEF StoreInv, CopyInStep, InStep, Unchanged, FilesCommitted, Committed, Writing, Current, Based
<1>2. mem[p].version \in Nat
  BY VersionTyped DEF StoreInv, TypeOK
<1>3. CASE primary \in State
  BY <1>3
<1>4. CASE primary \notin State
  <2>1. Held = Fresh
    BY <1>4 DEF Held
  <2>2. base[p].version <= 0 /\ base[p].version > 0 /\ base[p].version \in Nat
    BY <1>1, <1>2, <2>1, FreshTyped
  <2> QED BY <2>2, PositiveAboveZero
<1> QED BY <1>3, <1>4

\* While no state was lost, the state file is at least as new as anything
\* anybody has read.
LEMMA CurrentStep ==
    ASSUME StoreInv, [Next]_vars, ~Suspect'
    PROVE  Current' /\ BackupNeverAhead'
<1> USE DEF StoreInv
<1> ~Suspect /\ Current /\ BackupNeverAhead
  BY SuspicionStays
<1>1. ASSUME NEW p \in Process, ReadPrimary(p) PROVE Current' /\ BackupNeverAhead'
  <2>1. /\ Held' = Held /\ past' = past
        /\ \A q \in Process \ {p} : pc'[q] = pc[q] /\ base'[q] = base[q]
    BY <1>1 DEF ReadPrimary, Goto, files, Held, TypeOK
  <2>2. base'[p] = Held /\ pc'[p] # "write primary"
    BY <1>1, StoreAssumption DEF ReadPrimary, Goto, Held, Current, TypeOK
  <2>3. Held \in State /\ Held.version \in Nat
    BY FreshTyped, VersionTyped DEF Held
  <2>4. primary' = primary /\ loaded' = loaded
    BY <1>1 DEF ReadPrimary, files
  <2>5. ASSUME NEW q \in Process, Based(q)'
        PROVE  /\ base'[q] \in State
               /\ base'[q].version <= Held.version
               /\ base'[q].version = Held.version => base'[q] = Held
    <3>1. CASE q = p
      <4>1. base'[q] = Held
        BY <2>2, <3>1
      <4>2. base'[q].version = Held.version
        BY <4>1
      <4> QED BY <2>3, <4>1, <4>2
    <3>2. CASE q # p
      BY <2>1, <2>5, <3>2 DEF Current, Based
    <3> QED BY <3>1, <3>2
  <2>6. \A q \in Process : pc'[q] = "write primary" => loaded'[q] = Held.version
    BY <2>1, <2>2, <2>4 DEF Current
  <2>7. Current'
    BY <2>1, <2>4, <2>5, <2>6 DEF Current
  <2> QED BY <1>1, <2>7 DEF ReadPrimary, files, BackupNeverAhead
<1>2. ASSUME NEW p \in Process, CheckBackup(p) PROVE Current' /\ BackupNeverAhead'
  BY <1>2 DEF CheckBackup, Goto, files, Held, Current, Based, BackupNeverAhead, TypeOK
<1>3. ASSUME NEW p \in Process, ReadBackup(p) PROVE Current' /\ BackupNeverAhead'
  <2>1. /\ Held' = Held /\ past' = past /\ loaded' = loaded
        /\ primary' = primary /\ backup' = backup
        /\ pc'[p] # "write primary"
        /\ \A q \in Process \ {p} : pc'[q] = pc[q] /\ base'[q] = base[q]
    BY <1>3 DEF ReadBackup, Goto, files, Held, TypeOK
  <2>2. CASE pc'[p] = "repair primary"
    <3>1. backup \in State /\ base'[p] = backup
      BY <1>3, <2>2 DEF ReadBackup, Goto, TypeOK
    <3>2. /\ backup.version <= Held.version
          /\ backup.version = Held.version => backup = Held
      BY <3>1 DEF BackupNeverAhead, Held
    <3> QED BY <2>1, <3>1, <3>2 DEF Current, Based, BackupNeverAhead
  <2>3. CASE pc'[p] # "repair primary"
    <3>1. Based(p)' => Based(p) /\ base'[p] = base[p]
      BY <1>3, <2>3 DEF ReadBackup, Goto, Based, TypeOK
    <3> QED BY <2>1, <3>1 DEF Current, Based, BackupNeverAhead
  <2> QED BY <2>2, <2>3
<1>4. ASSUME NEW p \in Process, RepairPrimary(p) PROVE Current' /\ BackupNeverAhead'
  <2>1. primary \in State
    BY <1>4, RepairFindsState DEF RepairPrimary
  <2>2. primary' = primary
    BY <1>4, <2>1 DEF RepairPrimary, Suspect
  <2>3. /\ Held' = Held /\ past' = past /\ loaded' = loaded /\ base' = base /\ backup' = backup
        /\ \A q \in Process \ {p} : pc'[q] = pc[q]
        /\ pc'[p] # "write primary" /\ Based(p)
    BY <1>4, <2>2 DEF RepairPrimary, Goto, Held, Based, TypeOK
  <2> QED BY <2>2, <2>3 DEF Current, Based, BackupNeverAhead
<1>5. ASSUME NEW p \in Process, RepairBackup(p) PROVE Current' /\ BackupNeverAhead'
  <2>1. /\ base[p] = mem[p] /\ mem[p].version > 0
        /\ base[p].version <= Held.version
        /\ base[p].version = Held.version => base[p] = Held
    BY <1>5 DEF RepairBackup, CopyInStep, InStep, Unchanged, FilesCommitted, Committed, Writing, Current, Based
  <2>2. primary \in State
    <3>1. mem[p].version \in Nat
      BY VersionTyped DEF TypeOK
    <3> SUFFICES ASSUME primary \notin State PROVE FALSE
      OBVIOUS
    <3>2. Held.version = 0
      BY FreshTyped DEF Held
    <3> QED BY <2>1, <3>1, <3>2
  <2>3. BackupNeverAhead'
    BY <1>5, <2>1, <2>2 DEF RepairBackup, Held, BackupNeverAhead
  <2> QED BY <1>5, <2>3 DEF RepairBackup, Goto, Held, Current, Based, TypeOK
<1>6. ASSUME NEW p \in Process, ReplayWal(p) PROVE Current' /\ BackupNeverAhead'
  BY <1>6 DEF ReplayWal, Goto, files, Held, Current, Based, BackupNeverAhead, TypeOK
<1>7. ASSUME NEW p \in Process, DropWal(p) PROVE Current' /\ BackupNeverAhead'
  BY <1>7 DEF DropWal, Goto, files, Held, Current, Based, BackupNeverAhead, TypeOK
<1>8. ASSUME NEW p \in Process, AcquireLock(p) PROVE Current' /\ BackupNeverAhead'
  BY <1>8 DEF AcquireLock, Goto, files, Held, Current, Based, BackupNeverAhead, TypeOK
<1>9. ASSUME NEW p \in Process, LockFails(p) PROVE Current' /\ BackupNeverAhead'
  BY <1>9 DEF LockFails, Goto, files, Held, Current, Based, BackupNeverAhead, TypeOK
<1>10. ASSUME NEW p \in Process, Validate(p) PROVE Current' /\ BackupNeverAhead'
  <2>1. pc'[p] = "write primary" => loaded[p] = Held.version
    BY <1>10, StoreAssumption, FreshTyped DEF Validate, Expected, Held, Goto, TypeOK
  <2> QED BY <1>10, <2>1 DEF Validate, Goto, files, Held, Current, Based, BackupNeverAhead, TypeOK
<1>11. ASSUME NEW p \in Process, WritePrimary(p) PROVE Current' /\ BackupNeverAhead'
  <2>1. CASE pc'[p] # "write backup"
    BY <1>11, <2>1 DEF WritePrimary, Goto, Held, Current, Based, BackupNeverAhead, TypeOK
  <2>2. CASE pc'[p] = "write backup"
    <3>1. /\ primary' = mem[p] /\ base' = [base EXCEPT ![p] = mem[p]]
          /\ past' = past \cup {mem[p]} /\ backup' = backup
      BY <1>11, <2>2 DEF WritePrimary, Goto, TypeOK
    <3>2. /\ mem[p] \in State /\ Held' = mem[p]
          /\ Held.version \in Nat /\ mem[p].version = Held.version + 1
      BY <1>11, <3>1, FreshTyped, VersionTyped DEF WritePrimary, Held, Current, CopyInStep, InStep, TypeOK
    <3>3. \A s \in past : s.version \in Nat /\ s.version <= Held'.version
      <4> TAKE s \in past
      <4>1. s.version \in Nat /\ s.version <= Held.version
        BY VersionTyped DEF Current, TypeOK
      <4> QED BY <3>2, <4>1
    <3>4. \A q \in Process \ {p} : pc'[q] = pc[q] /\ pc[q] # "write primary" /\ base'[q] = base[q]
      BY <1>11, <3>1 DEF WritePrimary, Goto, Exclusive, Holding, TypeOK
    <3>5. \A q \in Process : Based(q) /\ q # p => base[q].version <= Held.version
      BY DEF Current
    <3>6. \A q \in Process : Based(q) /\ q # p => base[q].version < Held'.version
      <4> TAKE q \in Process
      <4> HAVE Based(q) /\ q # p
      <4>1. base[q].version \in Nat
        BY VersionTyped DEF Current
      <4> QED BY <3>2, <3>5, <4>1
    <3>7. Current'
      <4>1. base'[p] = mem[p] /\ pc'[p] # "write primary" /\ primary' # Corrupt
        BY <2>2, <3>1, <3>2, StoreAssumption DEF TypeOK
      <4>2. mem[p].version \in Nat
        BY <3>2, VersionTyped
      <4>3. \A s \in past' : s.version <= Held'.version
        BY <3>1, <3>2, <3>3, <4>2
      <4>4. ASSUME NEW q \in Process, Based(q)'
            PROVE  /\ base'[q] \in State
                   /\ base'[q].version <= Held'.version
                   /\ base'[q].version = Held'.version => base'[q] = Held'
        <5>1. CASE q = p
          <6>1. base'[q] = mem[p] /\ Held' = mem[p]
            BY <3>2, <4>1, <5>1
          <6>2. base'[q].version = Held'.version /\ Held'.version \in Nat
            BY <4>2, <6>1
          <6> QED BY <3>2, <6>1, <6>2
        <5>2. CASE q # p
          <6>1. Based(q) /\ base'[q] = base[q]
            BY <3>4, <4>4, <5>2 DEF Based
          <6>2. base[q] \in State /\ base[q].version \in Nat
            BY <6>1, VersionTyped DEF Current
          <6>3. base[q].version < Held'.version
            BY <3>6, <5>2, <6>1
          <6>4. Held'.version \in Nat
            BY <3>2, <4>2
          <6> QED BY <6>1, <6>2, <6>3, <6>4
        <5> QED BY <5>1, <5>2
      <4>5. \A q \in Process : pc'[q] # "write primary"
        BY <3>4, <4>1
      <4> QED BY <4>1, <4>3, <4>4, <4>5 DEF Current
    <3>8. BackupNeverAhead'
      <4> SUFFICES ASSUME backup \in State
                   PROVE  /\ mem[p] \in State
                          /\ backup.version <= mem[p].version
                          /\ backup.version = mem[p].version => backup = mem[p]
        BY <3>1 DEF BackupNeverAhead
      <4>1. backup.version \in Nat /\ backup.version <= Held.version
        BY VersionTyped DEF FilesCommitted, Committed, Current
      <4> QED BY <3>2, <4>1
    <3> QED BY <3>7, <3>8
  <2> QED BY <2>1, <2>2
<1>12. ASSUME NEW p \in Process, WriteBackup(p) PROVE Current' /\ BackupNeverAhead'
  <2>1. /\ base[p] = mem[p] /\ mem[p].version > 0
        /\ base[p].version <= Held.version
        /\ base[p].version = Held.version => base[p] = Held
    BY <1>12 DEF WriteBackup, CopyInStep, InStep, Unchanged, FilesCommitted, Committed, Writing, Current, Based
  <2>2. primary \in State
    <3>1. mem[p].version \in Nat
      BY VersionTyped DEF TypeOK
    <3> SUFFICES ASSUME primary \notin State PROVE FALSE
      OBVIOUS
    <3>2. Held.version = 0
      BY FreshTyped DEF Held
    <3> QED BY <2>1, <3>1, <3>2
  <2>3. BackupNeverAhead'
    <3>1. CASE backup' = mem[p]
      BY <1>12, <2>1, <2>2, <3>1 DEF WriteBackup, Held, BackupNeverAhead
    <3>2. CASE backup' = backup
      BY <1>12, <2>2, <3>2 DEF WriteBackup, BackupNeverAhead
    <3> QED BY <1>12, <3>1, <3>2 DEF WriteBackup
  <2> QED BY <1>12, <2>3 DEF WriteBackup, Goto, Held, Current, Based, TypeOK
<1>13. ASSUME NEW p \in Process, Exit(p) PROVE Current' /\ BackupNeverAhead'
  BY <1>13 DEF Exit, Goto, files, Held, Current, Based, BackupNeverAhead, TypeOK
<1>14. ASSUME NEW p \in Process, NEW facts \in SUBSET Fact, Change(p, facts) PROVE Current' /\ BackupNeverAhead'
  BY <1>14 DEF Change, Goto, files, Held, Current, Based, BackupNeverAhead, TypeOK
<1>15. ASSUME DamagePrimary PROVE Current' /\ BackupNeverAhead'
  BY <1>15 DEF DamagePrimary, Suspect, TypeOK
<1>16. ASSUME DamageBackup PROVE Current' /\ BackupNeverAhead'
  BY <1>16, StoreAssumption DEF DamageBackup, Current, BackupNeverAhead, Held, Based
<1>17. ASSUME UNCHANGED vars PROVE Current' /\ BackupNeverAhead'
  BY <1>17 DEF vars, files, Current, BackupNeverAhead, Held, Based
<1> QED BY <1>1, <1>2, <1>3, <1>4, <1>5, <1>6, <1>7, <1>8,
           <1>9, <1>10, <1>11, <1>12, <1>13, <1>14, <1>15, <1>16, <1>17, OperationIsChange
       DEF Next, Load, Persist

-----------------------------------------------------------------------------
(* The theorems.                                                           *)

\* The invariant holds in the initial states.
LEMMA InitHolds == Init => StoreInv
<1> SUFFICES ASSUME Init PROVE StoreInv
  OBVIOUS
<1> USE DEF Init
<1>1. TypeOK
  BY FreshTyped, StoreAssumption DEF TypeOK, Location
<1>2. FilesCommitted /\ Exclusive /\ CopyInStep
  BY StoreAssumption
  DEF FilesCommitted, Exclusive, CopyInStep, InStep, Writing, Holding, Unchanged, Loaded
<1>3. BackupNeverAhead
  BY StoreAssumption DEF BackupNeverAhead
<1>4. Current
  <2>1. Held = Fresh /\ primary # Corrupt
    BY StoreAssumption DEF Held
  <2>2. \A s \in past : s.version <= Held.version
    BY <2>1, FreshTyped
  <2> QED BY <2>1, <2>2 DEF Current, Based
<1> QED BY <1>1, <1>2, <1>3, <1>4 DEF StoreInv

\* Every behaviour keeps the invariant.
LEMMA StoreInvariant == Spec => []StoreInv
<1>1. StoreInv /\ [Next]_vars => StoreInv'
  BY TypeStep, CommittedStep, ExclusiveStep, CopyStep, CurrentStep DEF StoreInv
<1> QED BY <1>1, InitHolds, PTL DEF Spec

\* Every variable of the state store keeps its type.
THEOREM TypeCorrect == Spec => []TypeOK
<1>1. StoreInv => TypeOK
  BY DEF StoreInv
<1> QED BY <1>1, StoreInvariant, PTL

\* state_store.rs: whatever fails, is killed or is damaged, the state file
\* and its backup hold nothing but states some command committed.
THEOREM OnlyCommitted == Spec => []OnlyCommittedStates
<1>1. StoreInv => OnlyCommittedStates
  BY DEF StoreInv, FilesCommitted, Committed, OnlyCommittedStates
<1> QED BY <1>1, StoreInvariant, PTL

\* validate_expected_write_version: comparing versions is comparing states,
\* for any number of commands, until the state file is damaged or a repair
\* replaces a committed state by another.
THEOREM VersionsIdentify == Spec => []VersionIdentifiesState
<1>1. StoreInv => VersionIdentifiesState
  BY DEF StoreInv, Current, Based, CopyInStep, InStep, Loaded, VersionIdentifiesState
<1> QED BY <1>1, StoreInvariant, PTL

\* repair_backup_from_primary_if_needed and persist: no order of repairs and
\* writes puts the backup ahead of the state file before such a repair has
\* replaced a committed state.
THEOREM BackupBehind == Spec => []BackupNeverAhead
<1>1. StoreInv => BackupNeverAhead
  BY DEF StoreInv, BackupNeverAhead
<1> QED BY <1>1, StoreInvariant, PTL

LEMMA SuccessorGreater == \A n \in Nat : \A m : m = n + 1 => ~(m <= n)
OBVIOUS

\* What persist writes: the command has the value of the register, and the
\* new value is one the register has not held.
LEMMA WriteIsFresh ==
    ASSUME StoreInv, ~Suspect, NEW p \in Process, pc[p] = "write primary"
    PROVE  base[p] = Held /\ mem[p] \notin past
<1>1. Current /\ InStep(p) /\ mem[p] \in State
  BY DEF StoreInv, CopyInStep, TypeOK
<1>2. loaded[p] = Held.version /\ loaded[p] = base[p].version
  BY <1>1 DEF Current, InStep, Loaded
<1>3. base[p] = Held
  BY <1>1, <1>2 DEF Current, Based
<1>4. loaded[p] \in Nat /\ mem[p].version = loaded[p] + 1
  BY <1>1 DEF InStep, StoreInv, TypeOK
<1>5. Held.version \in Nat /\ mem[p].version = Held.version + 1
  BY <1>2, <1>4
<1>6. mem[p] \notin past
  <2> SUFFICES ASSUME mem[p] \in past PROVE FALSE
    OBVIOUS
  <2>1. mem[p].version <= Held.version
    BY <1>1 DEF Current
  <2> QED BY <1>5, <2>1, SuccessorGreater
<1> QED BY <1>3, <1>6

Recovering == {p \in Process : pc[p] = "repair primary"}

\* Who repairs nothing before and after a step.
LEMMA RecoveringKept ==
    ASSUME TypeOK, NEW p \in Process, NEW there, Goto(p, there),
           pc[p] # "repair primary", there # "repair primary"
    PROVE  Recovering' = Recovering
BY DEF Recovering, Goto, TypeOK

\* Every step of the store is a step of the register, or none.
LEMMA StepRefines ==
    ASSUME StoreInv, [Next]_vars
    PROVE  [Register!Next]_(Register!vars)
<1> DEFINE Goal == [Register!Next]_(Register!vars)
<1> USE DEF StoreInv, Recovering
<1>1. ASSUME NEW p \in Process, ReadPrimary(p) PROVE Goal
  <2>1. Held' = Held /\ past' = past /\ Suspect' = Suspect
    BY <1>1 DEF ReadPrimary, files, Held, Suspect
  <2>2. base' = [base EXCEPT ![p] = Held] \/ base' = base
    BY <1>1, StoreAssumption DEF ReadPrimary, Held
  <2>3. Recovering' = Recovering
    BY <1>1, RecoveringKept DEF ReadPrimary
  <2> QED BY <2>1, <2>2, <2>3 DEF Register!Next, Register!Read, Register!vars
<1>2. ASSUME NEW p \in Process, CheckBackup(p) PROVE Goal
  <2>1. Recovering' = Recovering
    BY <1>2, RecoveringKept DEF CheckBackup
  <2> QED BY <1>2, <2>1 DEF CheckBackup, files, Held, Suspect, Register!vars
<1>3. ASSUME NEW p \in Process, RepairBackup(p) PROVE Goal
  <2>1. Recovering' = Recovering
    BY <1>3, RecoveringKept DEF RepairBackup
  <2> QED BY <1>3, <2>1 DEF RepairBackup, files, Held, Suspect, Register!vars
<1>4. ASSUME NEW p \in Process, ReplayWal(p) PROVE Goal
  <2>1. Recovering' = Recovering
    BY <1>4, RecoveringKept DEF ReplayWal
  <2> QED BY <1>4, <2>1 DEF ReplayWal, files, Held, Suspect, Register!vars
<1>5. ASSUME NEW p \in Process, DropWal(p) PROVE Goal
  <2>1. Recovering' = Recovering
    BY <1>5, RecoveringKept DEF DropWal
  <2> QED BY <1>5, <2>1 DEF DropWal, files, Held, Suspect, Register!vars
<1>6. ASSUME NEW p \in Process, AcquireLock(p) PROVE Goal
  <2>1. Recovering' = Recovering
    BY <1>6, RecoveringKept DEF AcquireLock
  <2> QED BY <1>6, <2>1 DEF AcquireLock, files, Held, Suspect, Register!vars
<1>7. ASSUME NEW p \in Process, LockFails(p) PROVE Goal
  <2>1. Recovering' = Recovering
    BY <1>7, RecoveringKept DEF LockFails
  <2> QED BY <1>7, <2>1 DEF LockFails, files, Held, Suspect, Register!vars
<1>8. ASSUME NEW p \in Process, Validate(p) PROVE Goal
  <2>1. Recovering' = Recovering
    BY <1>8, RecoveringKept DEF Validate
  <2> QED BY <1>8, <2>1 DEF Validate, files, Held, Suspect, Register!vars
<1>9. ASSUME NEW p \in Process, WriteBackup(p) PROVE Goal
  <2>1. Recovering' = Recovering
    BY <1>9, RecoveringKept DEF WriteBackup
  <2> QED BY <1>9, <2>1 DEF WriteBackup, files, Held, Suspect, Register!vars
<1>10. ASSUME NEW p \in Process, NEW facts \in SUBSET Fact, Change(p, facts) PROVE Goal
  <2>1. Recovering' = Recovering
    BY <1>10, RecoveringKept DEF Change
  <2> QED BY <1>10, <2>1 DEF Change, files, Held, Suspect, Register!vars
<1>11. ASSUME NEW p \in Process, ReadBackup(p) PROVE Goal
  <2>1. Held' = Held /\ past' = past /\ harm' = harm
    BY <1>11 DEF ReadBackup, files, Held
  <2>2. overwritten' = overwritten /\ Suspect' = Suspect
    BY <1>11 DEF ReadBackup, Suspect
  <2>3. CASE pc'[p] = "repair primary"
    <3>1. backup \in past /\ base' = [base EXCEPT ![p] = backup]
      BY <1>11, <2>3 DEF ReadBackup, Goto, TypeOK, FilesCommitted, Committed
    <3>2. base[p] = Fresh \/ Suspect
      BY <1>11 DEF ReadBackup, CopyInStep, InStep
    <3>3. Recovering' = Recovering \cup {p}
      BY <1>11, <2>3 DEF ReadBackup, Goto, TypeOK
    <3> QED BY <2>1, <2>2, <3>1, <3>2, <3>3 DEF Register!Next, Register!Recover
  <2>4. CASE pc'[p] # "repair primary"
    <3>1. base' = base \/ base' = [base EXCEPT ![p] = None]
      BY <1>11, <2>4 DEF ReadBackup, Goto, TypeOK
    <3>2. Recovering' = Recovering /\ p \notin Recovering
      BY <1>11, <2>4 DEF ReadBackup, Goto, TypeOK
    <3> QED BY <2>1, <2>2, <3>1, <3>2 DEF Register!Next, Register!Forget, Register!vars
  <2> QED BY <2>3, <2>4
<1>12. ASSUME NEW p \in Process, RepairPrimary(p) PROVE Goal
  <2>1. mem[p] \in State /\ base[p] = mem[p]
    BY <1>12 DEF RepairPrimary, CopyInStep, InStep, Unchanged, TypeOK
  <2>2. Held' = base[p] /\ base' = base /\ past' = past
    BY <1>12, <2>1 DEF RepairPrimary, Held
  <2>3. p \in Recovering /\ Recovering' = Recovering \ {p}
    BY <1>12 DEF RepairPrimary, Goto, TypeOK
  <2>4. Suspect' = (Suspect \/ Held' # Held)
    <3>1. Suspect \/ primary \in State
      BY <1>12, RepairFindsState DEF RepairPrimary
    <3>2. harm' = harm /\ overwritten' = (overwritten \/ (primary \in State /\ primary # mem[p]))
      BY <1>12 DEF RepairPrimary
    <3>3. CASE Suspect
      <4>1. Suspect' = TRUE
        BY <3>2, <3>3 DEF Suspect
      <4> QED BY <3>3, <4>1
    <3>4. CASE ~Suspect
      <4>1. primary \in State /\ Held = primary
        BY <3>1, <3>4 DEF Held
      <4>2. Suspect' <=> primary # mem[p]
        BY <3>2, <3>4, <4>1 DEF Suspect
      <4> QED BY <2>1, <2>2, <3>4, <4>1, <4>2 DEF Suspect
    <3> QED BY <3>3, <3>4
  <2> QED BY <2>2, <2>3, <2>4 DEF Register!Next, Register!PutBack
<1>13. ASSUME NEW p \in Process, WritePrimary(p) PROVE Goal
  <2>1. Suspect' = Suspect
    BY <1>13 DEF WritePrimary, Suspect
  <2>0. Recovering' = Recovering
    BY <1>13, RecoveringKept DEF WritePrimary
  <2>2. CASE pc'[p] = "write backup"
    <3>1. /\ Held' = mem[p]
          /\ base' = [base EXCEPT ![p] = mem[p]]
          /\ past' = past \cup {mem[p]}
      <4>1. /\ primary' = mem[p]
            /\ base' = [base EXCEPT ![p] = mem[p]]
            /\ past' = past \cup {mem[p]}
        BY <1>13, <2>2 DEF WritePrimary, Goto, TypeOK
      <4>2. mem[p] \in State
        BY DEF TypeOK
      <4> QED BY <4>1, <4>2 DEF Held
    <3>2. Suspect \/ (base[p] = Held /\ mem[p] \notin past)
      BY <1>13, WriteIsFresh DEF WritePrimary
    <3>3. Register!Write(p)
      BY <2>0, <2>1, <3>1, <3>2 DEF Register!Write
    <3> QED BY <3>3 DEF Register!Next
  <2>3. CASE pc'[p] # "write backup"
    <3>1. Held' = Held /\ base' = base /\ past' = past
      BY <1>13, <2>3 DEF WritePrimary, Goto, Held, TypeOK
    <3> QED BY <2>0, <2>1, <3>1 DEF Register!vars
  <2> QED BY <2>2, <2>3
<1>14. ASSUME NEW p \in Process, Exit(p) PROVE Goal
  <2>1. Held' = Held /\ past' = past /\ Suspect' = Suspect /\ base' = [base EXCEPT ![p] = None]
    BY <1>14 DEF Exit, files, Held, Suspect
  <2>2. Recovering' = Recovering \ {p}
    BY <1>14 DEF Exit, Goto, TypeOK
  <2> QED BY <2>1, <2>2 DEF Register!Next, Register!Forget
<1>15. ASSUME DamagePrimary PROVE Goal
  <2>1. Held' = Fresh /\ base' = base /\ past' = past /\ Recovering' = Recovering
    BY <1>15, StoreAssumption DEF DamagePrimary, Held
  <2>2. harm'.primary > 0
    BY <1>15 DEF DamagePrimary, TypeOK
  <2>3. Suspect' = TRUE
    BY <2>2 DEF Suspect
  <2> QED BY <2>1, <2>3 DEF Register!Next, Register!Damage
<1>16. ASSUME DamageBackup PROVE Goal
  <2>1. harm'.primary = harm.primary /\ overwritten' = overwritten
    BY <1>16 DEF DamageBackup, TypeOK
  <2> QED BY <1>16, <2>1 DEF DamageBackup, Held, Suspect, Register!vars
<1>17. ASSUME UNCHANGED vars PROVE Goal
  BY <1>17 DEF vars, files, Held, Suspect, Register!vars
<1> HIDE DEF Goal
<1>18. Goal
  BY <1>1, <1>2, <1>3, <1>4, <1>5, <1>6, <1>7, <1>8, <1>9,
     <1>10, <1>11, <1>12, <1>13, <1>14, <1>15, <1>16, <1>17, OperationIsChange
  DEF Next, Load, Persist
<1> QED BY <1>18 DEF Goal

\* The state directory is a compare-and-swap register: persist replaces a
\* state only by a change made to that very state, until a state file is
\* damaged or a command that has found none puts back an older state.
THEOREM RefinesRegister == Spec => ImplementsRegister
<1>1. Init => Register!Init
  <2> SUFFICES ASSUME Init PROVE Register!Init
    OBVIOUS
  <2>1. Held = Fresh
    BY StoreAssumption DEF Init, Held
  <2>2. Suspect = FALSE
    BY DEF Init, Suspect
  <2>3. {p \in Process : pc[p] = "repair primary"} = {}
    BY DEF Init
  <2> QED BY <2>1, <2>2, <2>3 DEF Init, Register!Init
<1>2. StoreInv /\ [Next]_vars => [Register!Next]_(Register!vars)
  BY StepRefines
<1> QED BY <1>1, <1>2, StoreInvariant, PTL DEF Spec, ImplementsRegister, Register!Spec
===============================================================================
