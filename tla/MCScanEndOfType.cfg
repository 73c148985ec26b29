CONSTANTS
    IDX_RANGE = 32
    MAX_N = 31
SPECIFICATION Spec
INVARIANTS
    SplitHasWork
