CONSTANTS
    p1 = p1
    p2 = p2
    k1 = k1
    k2 = k2
    k3 = k3
    v1 = v1
    Caller = {p1, p2}
    Key = {k1, k2, k3}
    Value = {v1}
    NoEntry = NoEntry
    NoCall = NoCall
    MaxEntries = 2
    Ttl = {1, 2}
    RebuildFactor = 1
    MinRecords = 1
    MaxInserts = 4
    MaxTime = 1
SYMMETRY Symmetry
SPECIFICATION CacheSpec
INVARIANTS
    EntriesTracked
    WithinCapacity
    HeapsBounded
    EvictsOldest
