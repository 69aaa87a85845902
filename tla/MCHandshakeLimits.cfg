CONSTANTS
    r1 = r1
    r2 = r2
    r3 = r3
    ws = ws
    chat_completions = chat_completions
    responses = responses
    token = token
    gateway = gateway
    address = address
    user = user
    tenant = tenant
    Request = {r1, r2, r3}
    Region = {ws}
    Family = {chat_completions, responses}
    RegionOf <- MCRegionOf
    FamilyOf <- MCFamilyOf
    MaxRegion = 2
    MaxFamily = 1
    Key = {token, gateway, address, user, tenant}
    NoKey = NoKey
    LimitKey <- MCLimitKey
    Gateway = gateway
    Limit <- MCLimit
    WindowSeconds <- MCWindowSeconds
    NoTime = NoTime
    MaxTime = 2
    MaxHandshakes = 3
SPECIFICATION HandshakeSpec
INVARIANTS
    CountersExact
    SessionsWithinLimits
    AcceptedWithinWindow
PROPERTY
    RetryAfterHonest
