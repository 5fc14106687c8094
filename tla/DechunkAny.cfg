SPECIFICATION FairSpec
CONSTANTS
    UlongMax = 20
    Messages <- AllMessages
    MayCut <- NotBehindCr
INVARIANTS
    TypeOK
    FlushSafe
    DecodesBody
PROPERTIES
    UpdateReturns
