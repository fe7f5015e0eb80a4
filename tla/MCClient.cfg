SPECIFICATION ClientFairSpec
CONSTANTS
    u = u
    Worker <- MCWorker
    Dev <- MCDev
    NoDev = 0
    Paired <- MCPaired
    Permitted <- MCPermitted
    Route <- MCRoute
    RegCap = 3
    Disk0 <- MCDisk0
    Opening <- MCOpening
    NoOpen = NoOpen
    Key <- MCKey
    NoKey = 0
    Cap = 1
    TabCap = 2
    MaxDeliveries = 6
    MaxRestarts = 1
    MaxRuns = 2
    Attempts = 2
INVARIANTS SavedIsEnrolled DoneIsAcknowledged OneAckPerRun
PROPERTIES RunEnds RequestAnswered
