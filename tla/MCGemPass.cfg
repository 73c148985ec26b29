CONSTANTS
    Token = {t1, t2}
    NoToken = NoToken
    Marker = {m1, m2, m3}
    NoMarker = NoMarker
    Query = {q1}
    MAX_COUNT = 4
SPECIFICATION Spec
SYMMETRY Symmetry
INVARIANTS
    TypeOK
    FactorCoversCopies
    NothingLeftBehind
