SPECIFICATION FairSpec
CONSTANTS
    v1 = v1  v2 = v2
    Workers = {w1, w2}
    Main = main
    Chunks <- MCChunks
    Window = 2
    Nodes = {0, 1, 2}
    Located <- MCLocated
    LateReplicas <- MCLate
    Healthy <- MCHealthy
    Files = {1, 2, 3, 4}
    NoFile = NoFile
CHECK_DEADLOCK FALSE
INVARIANTS PullTypeOK PartialIsPrefix WindowBounded FailureExplained
PROPERTIES AtomicPublish PullEnds
