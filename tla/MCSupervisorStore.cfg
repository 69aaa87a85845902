CONSTANTS
    c1 = c1
    c2 = c2
    gw = gw
    Process = {c1, c2}
    Instance = {gw}
    LegacyWal <- MCLegacyWal
    MaxHistory = 1
    MaxChanges = 3
    MaxFaults = 1
    None = None
    Missing = Missing
    Corrupt = Corrupt
SYMMETRY Symmetry
SPECIFICATION Spec
INVARIANTS
    BackupNeverAhead
    VersionIdentifiesState
    OnlyCommittedStates
PROPERTY ImplementsRegister
