CONSTANTS
    c1 = c1
    c2 = c2
    gw = gw
    Process = {c1, c2}
    Instance = {gw}
    LegacyWal = {}
    MaxHistory = 1
    MaxChanges = 2
    MaxFaults = 0
    None = None
    Missing = Missing
    Corrupt = Corrupt
SPECIFICATION Spec
INVARIANT MonotonicWriteVersion
