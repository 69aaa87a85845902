CONSTANTS
    j1 = j1
    j2 = j2
    w1 = w1
    w2 = w2
    Job = {j1, j2}
    Payload <- MCPayload
    Worker = {w1, w2}
    Nobody = Nobody
    Capacity = 1
    MaxBytes = 2
    Word = 16
SPECIFICATION FairSpec
INVARIANTS
    CountersExact
    ReservedSlotIsFree
PROPERTIES
    AcceptedIsRun
    ShutdownStopsWorkers
CHECK_DEADLOCK FALSE
