CONSTANTS
    e1 = e1
    e2 = e2
    e3 = e3
    r1 = r1
    r2 = r2
    Event = {e1, e2, e3}
    Size <- MCSize
    SegmentBytes = 5
    TotalBytes = 9
    MaxEventBytes = 8
    Request = {r1, r2}
    NoRequest = NoRequest
    RequestBytes = 3
    MaxEventsPerRequest = 2
    MaxAcks = 4
    MaxRecords = 3
    MaxCrashes = 1
    MaxTears = 1
SYMMETRY MCSymmetry
SPECIFICATION WalSpec
INVARIANTS
    DurableUntilAcknowledged
    CapacityRespected
    UntornSegmentsReadBack
PROPERTY PassedOnlyWhenRead
CHECK_DEADLOCK FALSE
