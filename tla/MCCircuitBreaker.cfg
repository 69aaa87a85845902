CONSTANTS
    p1 = p1
    r1 = r1
    r2 = r2
    r3 = r3
    Provider = {p1}
    Order <- MCSingle
    Request = {r1, r2, r3}
    Threshold = 2
    Cooldown = 1
    HalfOpenSuccesses = 2
    Never = Never
    MaxReloads = 1
SPECIFICATION FairSpec
INVARIANTS
    OpenAdmitsNone
    ClosedCountsStreak
PROPERTY RecoversWhenHealthy
