--------------------------- MODULE BoundedTtlCache ---------------------------
(***************************************************************************)
(* The bounded cache with expiry (src/src/gateway/bounded_ttl_cache.rs)    *)
(* behind the gateway's token, routing and preflight lookups.              *)
(*                                                                         *)
(* Next to the map it keeps two heaps of records, by expiry and by         *)
(* insertion.  Records are not removed with their entry: one that meets    *)
(* another generation under its key is ignored, and from time to time the  *)
(* heaps are rebuilt.                                                      *)
(*                                                                         *)
(* Everything that changes the cache runs under the maintenance mutex and  *)
(* is one step.  A get reads the map without the mutex first.  The time is *)
(* read before the mutex is taken, so an operation may act on an old one.  *)
(***************************************************************************)
EXTENDS Integers, FiniteSets

CONSTANTS
    Caller,         \* threads that use the cache
    Key,
    Value,
    NoEntry,        \* a key that is not in the map
    NoCall,         \* a caller that is not in the cache
    MaxEntries,     \* max_entries
    Ttl,            \* the times to live callers ask for
    RebuildFactor,  \* METADATA_REBUILD_FACTOR
    MinRecords,     \* MIN_METADATA_REBUILD_RECORDS
    MaxInserts,     \* bound: entries inserted in a behaviour
    MaxTime         \* bound: the last instant

Entry == [value : Value, expires : Nat, gen : Nat]
Expiration == [key : Key, expires : Nat, gen : Nat]
Insertion == [key : Key, gen : Nat]

ASSUME CacheAssumption ==
    /\ IsFiniteSet(Key)
    /\ NoEntry \notin Entry
    /\ MaxEntries \in Nat
    /\ Ttl \subseteq Nat
    /\ RebuildFactor \in Nat \ {0}
    /\ MinRecords \in Nat
    /\ MaxInserts \in Nat
    /\ MaxTime \in Nat

VARIABLES
    cache,   \* the map, the two heaps and next_generation
    clock,   \* Instant::now()
    call     \* what each caller is in the middle of

cacheVars == <<cache, clock, call>>

-----------------------------------------------------------------------------
(* What the operations do to the cache under the mutex.                    *)

Live(c) == {k \in Key : c.entries[k] # NoEntry}
Drop(c, gone) ==
    [c EXCEPT !.entries = [k \in Key |-> IF k \in gone THEN NoEntry ELSE c.entries[k]]]

ExpirationOf(c, k) == [key |-> k, expires |-> c.entries[k].expires, gen |-> c.entries[k].gen]
InsertionOf(c, k) == [key |-> k, gen |-> c.entries[k].gen]

\* prune_expired_locked: the records that are due are popped; one of another
\* generation removes nothing.
Prune(c, now) ==
    LET due == {r \in c.expirations : r.expires <= now}
        gone == {k \in Live(c) : /\ c.entries[k].expires <= now
                                 /\ \E r \in due : r.key = k /\ r.gen = c.entries[k].gen}
    IN  [Drop(c, gone) EXCEPT !.expirations = c.expirations \ due]

\* Mutation: a record removes whatever is under its key.
Left_AnyGeneration(c, g) ==
    {k \in Live(c) : ~ \E r \in c.insertions : r.key = k /\ r.gen <= g}

\* The entries left once the records up to generation g are popped, when a
\* record only removes the entry it was made for.
Left(c, g) ==
    {k \in Live(c) : ~ \E r \in c.insertions :
                          r.key = k /\ r.gen = c.entries[k].gen /\ r.gen <= g}

\* evict_excess_locked: records are popped, oldest first, until there is
\* room or there are no more.
Room(c) == {g \in {r.gen : r \in c.insertions} : Cardinality(Left(c, g)) < MaxEntries}
Evict(c) ==
    IF Cardinality(Live(c)) < MaxEntries THEN c
    ELSE IF Room(c) = {}
    THEN [Drop(c, {k \in Live(c) : InsertionOf(c, k) \in c.insertions}) EXCEPT !.insertions = {}]
    ELSE LET g == CHOOSE g \in Room(c) : \A h \in Room(c) : g <= h
         IN  [Drop(c, Live(c) \ Left(c, g)) EXCEPT
                  !.insertions = {r \in c.insertions : r.gen > g}]

Larger(a, b) == IF a >= b THEN a ELSE b
Threshold(c) ==
    Larger(Larger(RebuildFactor * Cardinality(Live(c)), 2 * MaxEntries), MinRecords)

\* Mutation: the heaps are cut off at the threshold instead of rebuilt.
Compact_Truncate(c) ==
    IF Live(c) = {}
    THEN [c EXCEPT !.expirations = {}, !.insertions = {}]
    ELSE IF /\ Cardinality(c.expirations) <= Threshold(c)
            /\ Cardinality(c.insertions) <= Threshold(c)
    THEN c
    ELSE [c EXCEPT !.expirations = {}, !.insertions = {}]

\* Mutation: only the heap of expirations is looked at.
Compact_OneHeap(c) ==
    IF Live(c) = {}
    THEN [c EXCEPT !.expirations = {}, !.insertions = {}]
    ELSE IF Cardinality(c.expirations) <= Threshold(c)
    THEN c
    ELSE [c EXCEPT !.expirations = {ExpirationOf(c, k) : k \in Live(c)},
                   !.insertions = {InsertionOf(c, k) : k \in Live(c)}]

\* maybe_compact_metadata_locked.
Compact(c) ==
    IF Live(c) = {}
    THEN [c EXCEPT !.expirations = {}, !.insertions = {}]
    ELSE IF /\ Cardinality(c.expirations) <= Threshold(c)
            /\ Cardinality(c.insertions) <= Threshold(c)
    THEN c
    ELSE [c EXCEPT !.expirations = {ExpirationOf(c, k) : k \in Live(c)},
                   !.insertions = {InsertionOf(c, k) : k \in Live(c)}]

\* The entry replaces the one under its key and leaves that one's records.
Add(c, k, v, expires) ==
    LET g == c.next + 1
    IN  [entries |-> [c.entries EXCEPT ![k] = [value |-> v, expires |-> expires, gen |-> g]],
         expirations |-> c.expirations \cup {[key |-> k, expires |-> expires, gen |-> g]},
         insertions |-> c.insertions \cup {[key |-> k, gen |-> g]},
         next |-> g]

\* Mutation: room is made for one entry too many.
MakeRoom_Late(c, k) ==
    IF k \in Live(c) \/ Cardinality(Live(c)) <= MaxEntries THEN c ELSE Evict(c)

MakeRoom(c, k) == IF k \in Live(c) THEN c ELSE Evict(c)

\* insert_inner_at.
InsertAt(c, k, v, ttl, now) ==
    IF MaxEntries = 0 THEN c
    ELSE Compact(Add(MakeRoom(Prune(c, now), k), k, v, now + ttl))

RemoveAll(c, gone) == Compact(Drop(c, gone))
ReapAt(c, now) == Compact(Prune(c, now))

-----------------------------------------------------------------------------
(* The operations.                                                         *)

Empty ==
    [entries |-> [k \in Key |-> NoEntry], expirations |-> {}, insertions |-> {}, next |-> 0]

Return(p) == call' = [call EXCEPT ![p] = NoCall]
Enter(p, op) ==
    /\ call[p] = NoCall
    /\ call' = [call EXCEPT ![p] = op]
    /\ UNCHANGED <<cache, clock>>

StartGet(p, k) == Enter(p, [op |-> "get", key |-> k, now |-> clock])

\* get_at without the mutex: a miss or a hit returns, an expired entry is
\* looked at again.
ReadEntry(p) ==
    /\ call[p] # NoCall
    /\ call[p].op = "get"
    /\ LET e == cache.entries[call[p].key]
       IN  IF e # NoEntry /\ e.expires <= call[p].now
           THEN call' = [call EXCEPT ![p].op = "prune"]
           ELSE Return(p)
    /\ UNCHANGED <<cache, clock>>

PruneAndRead(p) ==
    /\ call[p] # NoCall
    /\ call[p].op = "prune"
    /\ cache' = Prune(cache, call[p].now)
    /\ Return(p)
    /\ UNCHANGED clock

StartInsert(p, k, v, ttl) ==
    /\ cache.next < MaxInserts
    /\ Enter(p, [op |-> "insert", key |-> k, value |-> v, ttl |-> ttl, now |-> clock])

Insert(p) ==
    /\ call[p] # NoCall
    /\ call[p].op = "insert"
    /\ cache' = InsertAt(cache, call[p].key, call[p].value, call[p].ttl, call[p].now)
    /\ Return(p)
    /\ UNCHANGED clock

Remove(k) ==
    /\ cache' = RemoveAll(cache, {k})
    /\ UNCHANGED <<clock, call>>

\* remove_where_kv, by the entries its predicate holds of.
RemoveWhere(gone) ==
    /\ cache' = RemoveAll(cache, gone)
    /\ UNCHANGED <<clock, call>>

Clear ==
    /\ cache' = [Empty EXCEPT !.next = cache.next]
    /\ UNCHANGED <<clock, call>>

\* reap_expired, called once a minute; the time is read under the mutex.
Reap ==
    /\ cache' = ReapAt(cache, clock)
    /\ UNCHANGED <<clock, call>>

Tick ==
    /\ clock < MaxTime
    /\ clock' = clock + 1
    /\ UNCHANGED <<cache, call>>

CacheInit ==
    /\ cache = Empty
    /\ clock = 0
    /\ call = [p \in Caller |-> NoCall]

CacheOperate(p) ==
    \/ \E k \in Key : StartGet(p, k)
    \/ ReadEntry(p)
    \/ PruneAndRead(p)
    \/ \E k \in Key, v \in Value, ttl \in Ttl : StartInsert(p, k, v, ttl)
    \/ Insert(p)

CacheNext ==
    \/ \E p \in Caller : CacheOperate(p)
    \/ \E k \in Key : Remove(k)
    \/ \E gone \in SUBSET Live(cache) : RemoveWhere(gone)
    \/ Clear
    \/ Reap
    \/ Tick

CacheSpec == CacheInit /\ [][CacheNext]_cacheVars

-----------------------------------------------------------------------------
(* Properties.                                                             *)

Cache ==
    [entries : [Key -> Entry \cup {NoEntry}], expirations : SUBSET Expiration,
     insertions : SUBSET Insertion, next : Nat]

\* Every variable has its type.
CacheTypeOK ==
    /\ cache \in Cache
    /\ clock \in Nat
    /\ \A p \in Caller : call[p] # NoCall => call[p].key \in Key /\ call[p].now \in Nat

\* Every entry has its record in both heaps, however often its key was
\* removed and inserted and the heaps rebuilt: it can expire and it can be
\* evicted.
Tracked(c) ==
    \A k \in Live(c) :
        /\ ExpirationOf(c, k) \in c.expirations
        /\ InsertionOf(c, k) \in c.insertions

EntriesTracked == Tracked(cache)

\* The map never holds more than max_entries.
WithinCapacity == Cardinality(Live(cache)) <= MaxEntries

\* The records left behind by removed and replaced entries do not pile up.
RecordBound == Larger(Larger(RebuildFactor * MaxEntries, 2 * MaxEntries), MinRecords)
HeapsBounded ==
    /\ Cardinality(cache.expirations) <= RecordBound
    /\ Cardinality(cache.insertions) <= RecordBound

\* Making room costs one entry at most, after the expired ones have gone, and
\* that is the oldest: none that is kept is older, although a key may have
\* been inserted again since and the caller's time may be an old one.
EvictsOldest ==
    \A now \in 0 .. clock :
        LET before == Prune(cache, now)
            after == Evict(before)
            gone == Live(before) \ Live(after)
        IN  /\ Cardinality(gone) <= 1
            /\ \A k \in gone, j \in Live(after) :
                  before.entries[k].gen < before.entries[j].gen
===============================================================================
