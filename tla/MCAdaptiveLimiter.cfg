CONSTANTS
    r1 = r1
    r2 = r2
    r3 = r3
    Request = {r1, r2, r3}
    Streaming = {r3}
    MaxConcurrency = 2
    MaxRetries = 1
    MaxDelay = 2
SPECIFICATION FairSpec
INVARIANTS
    PermitsExact
    NoLostWakeup
PROPERTY Drains
