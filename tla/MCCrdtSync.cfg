CONSTANTS
    e1 = e1
    f1 = f1
    Node = {1, 2}
    Id = {e1}
    Field = {f1}
    Value <- MCValue
    NoRegister = NoRegister
    NoEnvelope = NoEnvelope
    Time <- MCTime
    MaxLogical = 2
    MaxAge = 0
    MaxSeen = 1
    MaxMutations = 3
    MaxFaults = 1
SPECIFICATION Spec
INVARIANTS
    ClockAhead
    SameKnowledgeSameView
    NothingVanishes
    NotForgotten
PROPERTIES
    NeverOlder
CHECK_DEADLOCK FALSE
