CONSTANTS
    r1 = r1
    r2 = r2
    Request = {r1, r2}
    Streamed = {r1}
    Loop = Loop
    None = None
    InitialBackoff = 1
    MaxBackoff = 2
    IdlePings = 1
    Chunk <- MCChunk
    MaxChunks = 2
    MaxSessions = 2
    MaxFails = 2
SPECIFICATION FairSpec
INVARIANTS
    AnswersWhole
    TextIntact
    BackoffExact
PROPERTIES
    EveryRequestAnswered
    SilenceNoticed
