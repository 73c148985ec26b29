CONSTANTS
    IDX_RANGE = 32
    MAX_N = 26
SPECIFICATION Spec
INVARIANTS
    TypeOK
    ResultIsPrefix
    SplitFoundAgain
    LeavesNothingBehind
