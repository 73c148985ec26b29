CONSTANTS
    Slot = {s1, s2, s3}
    Front = Front
    Null = Null
    TOKENS_PER_HEARTBEAT = 3
    MAX_HEARTBEAT_TOKENS = 3
    JobTokens <- MCJobTokens
SPECIFICATION FairSpec
INVARIANTS
    TypeOK
    HandlerSeesOpenSlots
    OutermostFirst
    TokensOnlyWhenFullyPromoted
    JoinsFullyPromoted
    PromotedOnce
PROPERTIES
    PromotesOnlyOpenSlots
    ImplementsSlotStack
    HandlerReturns
