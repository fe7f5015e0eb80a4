SPECIFICATION Spec
CONSTANTS
    s1 = s1  u1 = u1  a1 = a1  a2 = a2  d1 = d1  d2 = d2
    Flow = {s1, a1}
    Kind <- MCKind
    Dev = {d1, d2}
    DevOf <- MCDevOf
    Peer = {p1, p2}
    Paired <- MCPaired
    Permitted = {d1, d2}
    Tofu = {s1}
    OobPin = {}
    Disk0 = {d2}
    ReplayCap = 1
    MaxSessions = 1
    TTL = 2
    GcPeriod = 1
    Delay = 1
    MaxNonce = 2
    MaxRestarts = 1
    SendSpan <- MCSendSpan
    MaxRetries = 1
    MaxShift = 1
    MaxRebinds = 0
INVARIANTS TypeOK EnrolledIsDurable NoSpuriousFailure
CHECK_DEADLOCK FALSE
