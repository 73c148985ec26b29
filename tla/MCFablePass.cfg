CONSTANTS
    Token = {t1, t2}
    NoToken = NoToken
    Marker = {m1, m2, m3}
    Query = {q1}
    MAX_COPIES = 2
    Slot = {s1, s2}
    NoSlot = NoSlot
    Probes <- MCProbes
    NoProbe = NoProbe
    SporkMaxBatch = 4
    ForceBatches = {0, 3}
SPECIFICATION Spec
SYMMETRY Symmetry
INVARIANTS
    TypeOK
    FactorCoversCopies
    CopiesShareOneBatch
    NothingLeftBehind
