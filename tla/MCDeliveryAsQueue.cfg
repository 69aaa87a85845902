CONSTANTS
    e1 = e1
    e2 = e2
    Event = {e1, e2}
    Size <- MCSize
    SegmentBytes = 4
    TotalBytes = 5
    MaxEventBytes = 8
    Request = {}
    NoRequest = NoRequest
    RequestBytes = 4
    MaxEventsPerRequest = 1
    MaxAcks = 10
    MaxRecords = 2
    MaxCrashes = 2
    MaxTears = 0
    UaEvent = {e1}
    LocalEvent = {e2}
    MachineProcess = {0, 2}
    Status = {200, 422}
    MaxAborts = 1
SPECIFICATION FairSpec
INVARIANTS
    SettledBehindFrontier
    OncePerProcess
PROPERTIES
    ImplementsQueue
    EventuallyAcknowledged
CHECK_DEADLOCK FALSE
