CONSTANTS
    Worker = {w1, w2, w3}
    Main = w1
    Node <- MCNode
    Root = 1
    Body <- MCBody
    Spawned <- MCSpawned
    TOKENS_PER_HEARTBEAT = 2
    MAX_HEARTBEAT_TOKENS = 2
SPECIFICATION Spec
SYMMETRY Symmetry
INVARIANTS
    TypeOK
    DequeMatchesFrames
    WaitsFullyPromoted
PROPERTIES
    SyncDequeuesItsOwnJob
    NoEnqueueInsideDequeOperation
    ImplementsForkJoin
