SPECIFICATION Spec
CONSTANTS
    p1 = p1
    p2 = p2
    Peer <- MCPeer
    Attempt <- MCAttempt
    Request <- MCRequest
    MaxCrashes = 1
    MaxRetries = 1
    LatchLost = TRUE
INVARIANTS TypeOK StableRecovery DeclaredCuts EntitledWrites PairUse LostPair ConvergedIsCurrent
PROPERTY EarnedUse
SYMMETRY Sides
