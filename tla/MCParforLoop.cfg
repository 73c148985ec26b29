CONSTANTS
    IDX_RANGE = 16
    Shapes <- MCShapes
    FACTOR = 4
SPECIFICATION FairSpec
INVARIANTS
    TypeOK
    CommittedStepFits
    ResultIsSequential
    JoinsWhatItEnqueued
PROPERTIES
    LoopFinishes
