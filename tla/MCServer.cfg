SPECIFICATION Spec
CONSTANTS
    u = u  c = c
    d1 = d1  d2 = d2  d3 = d3  d4 = d4
    k1 = k1  k2 = k2  k3 = k3
    Worker <- MCWorker
    Dev <- MCDev
    NoDev = NoDev
    Paired <- MCPaired
    Permitted <- MCPermitted
    Key <- MCKey
    NoKey = NoKey
    Cap = 1
    Opening <- MCOpening
    NoOpen = NoOpen
    TabCap = 2
    Route <- MCRoute
    RegCap = 3
    Disk0 <- MCDisk0
    MaxDeliveries = 5
    MaxRestarts = 1
INVARIANTS TypeOK ReservationsOwned AcceptOncePerWindow OneAckPerSession AckedIsDurable
    NoDuplicateEntry ScanFindsEnrolled SessionsWereAccepted
PROPERTIES NoSessionLost
