SPECIFICATION FairSpec
CONSTANTS
    Setups <- RespondSetups
    Wires <- RespondWires
    Resumed <- RespondResumed
    ReadSize = 3
    PointerSize = 2
    SendBufSize = 4
    Sizes = {0, 4, 12}
    MaxVersion = 2
    MaxExchanges = 2
INVARIANTS
    TypeOK
    AnswersRequest
    CacheCoherent
PROPERTIES
    HeadFrozen
    SendReturns
CHECK_DEADLOCK FALSE
