SPECIFICATION Spec
CONSTANTS
    Uses <- ParserUses
    BufferSize = 3
INVARIANTS
    TypeOK
    MessagesRead
PROPERTIES
    ParseAdvances
CHECK_DEADLOCK FALSE
