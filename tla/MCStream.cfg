CONSTANTS
    Q = 40009
    HashOf <- Polynomial
    MAX_ROLES = 8
    MAX_DATAGRAM = 40
    Chunks = {1, 5, 50}
    FrameLists <- MCFrameLists
    Samples <- MCSamples
    Records <- MCRecords
    Credential = 1
    Peer = 2
    Session <- MCSession
SPECIFICATION Spec
INVARIANTS FramesInOrder StrictDecoding
CHECK_DEADLOCK FALSE
