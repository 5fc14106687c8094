SPECIFICATION Spec
CONSTANTS
    Scenarios <- MCScenarios
    MaxRoom = 6
    MaxLost = 1
INVARIANTS
    TypeOK
    Linked
    MemorySafe
PROPERTIES
    CallsMeant
CHECK_DEADLOCK FALSE
