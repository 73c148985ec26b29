CONSTANTS
    BLOCK = 2
    FACTORS = {1, 2, 3}
    None = None
    LOW <- MCLow
    HIGH = 20
    MAX_RANGE = 15
SPECIFICATION Spec
INVARIANTS
    WideRangesRunOnce
