SPECIFICATION Spec
CONSTANTS
    UlongMax = 255
    Messages <- AnyMessages
    Beyond = Beyond
INVARIANTS
    DecodesBody
PROPERTIES
    Returns
CHECK_DEADLOCK FALSE
