SPECIFICATION Spec
CONSTANTS
    s1 = s1  u1 = u1  a1 = a1  a2 = a2  d1 = d1  d2 = d2
    Flow = {a1, a2}
    Kind <- MCKind
    Dev = {d1, d2}
    DevOf <- MCDevOf
    Peer = {p1, p2}
    Paired <- MCPaired
    Permitted = {d1, d2}
    Tofu = {}
    OobPin = {}
    Disk0 = {d1, d2}
    ReplayCap = 1
    MaxSessions = 1
    TTL = 0
    GcPeriod = 1
    Delay = 0
    MaxNonce = 2
    MaxRestarts = 0
    SendSpan <- MCSendSpan
    MaxRetries = 0
    MaxShift = 1
    MaxRebinds = 1
INVARIANTS KeyAgreement AcceptOncePerWindow
CHECK_DEADLOCK FALSE
