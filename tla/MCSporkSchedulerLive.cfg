CONSTANTS
    Worker = {w1, w2}
    Main = w1
    Node <- LiveNode
    Root = 1
    Body <- LiveBody
    Spawned <- LiveSpawned
    TOKENS_PER_HEARTBEAT = 2
    MAX_HEARTBEAT_TOKENS = 2
SPECIFICATION FairSpec
PROPERTIES
    ProgramFinishes
