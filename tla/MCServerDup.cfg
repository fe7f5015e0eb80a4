SPECIFICATION Spec
CONSTANTS
    u = u  c = c  d1 = d1  d2 = d2  k1 = k1  k2 = k2
    Worker <- MCWorker
    Dev <- MCDev
    NoDev = NoDev
    Paired <- MCDev
    Permitted <- MCDev
    Key <- MCKey
    NoKey = NoKey
    Cap = 1
    Opening <- MCOpening
    NoOpen = NoOpen
    TabCap = 2
    Route <- MCRoute
    RegCap = 2
    Disk0 <- MCDisk0
    MaxDeliveries = 6
    MaxRestarts = 0
INVARIANT SlotHeldByOne
