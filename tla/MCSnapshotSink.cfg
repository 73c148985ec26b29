CONSTANTS
    Start = start
    Bridge = {b1, b2, b3}
    Barrier = {x1}
    Inner = {l1, l2}
    MAX_SUCCS = 2
    MaxMarkerWalkDepth = 2
    VALUES = 3
    MAX_PAST = 2
SPECIFICATION SinkSpec
SYMMETRY Symmetry
INVARIANTS
    FindsAllCopies
    GivesUpForAReason
    LeavesEachBlockOnce
    SinkTypeOK
    PastExitSeesRealIndex
    VerifiesUnlessTwoWays
