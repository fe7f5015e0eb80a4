SPECIFICATION FairSpec
CONSTANTS
    s1 = s1  u1 = u1  a1 = a1  a2 = a2  d1 = d1  d2 = d2
    Flow = {u1, a1}
    Kind <- MCKind
    Dev = {d1, d2}
    DevOf <- MCDevOf
    Peer = {p1, p2}
    Paired <- MCPaired
    Permitted = {d1}
    Tofu = {}
    OobPin = {d2}
    Disk0 = {d1}
    ReplayCap = 1
    MaxSessions = 1
    TTL = 1
    GcPeriod = 1
    Delay = 0
    MaxNonce = 2
    MaxRestarts = 0
    SendSpan <- MCSendSpan
    MaxRetries = 1
    MaxShift = 1
    MaxRebinds = 1
PROPERTIES RunEnds
CHECK_DEADLOCK FALSE
