CONSTANTS
    e1 = e1
    e2 = e2
    Event = {e1, e2}
    Size <- MCSize
    SegmentBytes = 5
    TotalBytes = 8
    MaxEventBytes = 8
    Request = {}
    NoRequest = NoRequest
    RequestBytes = 4
    MaxEventsPerRequest = 1
    MaxAcks = 10
    MaxRecords = 2
    MaxCrashes = 1
    MaxTears = 1
    UaEvent = {}
    LocalEvent = {}
    MachineProcess = {0, 1}
    Status = {200, 422, 503}
    MaxAborts = 0
SPECIFICATION Spec
INVARIANT QuarantineRetainsRecord
CHECK_DEADLOCK FALSE
