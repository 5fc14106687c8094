SPECIFICATION Spec
CONSTANTS
    Slots = {s1, s2}
    Handles = {e1, e2}
    Hosts = {"a", "b"}
    Bodies = {"seek", "pipe"}
    Size <- MCSize
    Seekable = {"seek"}
    Scripts <- MCScripts
    None = None
SYMMETRY Permuted
INVARIANTS
    TypeOK
    OneUser
    RequestsApart
    BodySentWhole
CHECK_DEADLOCK FALSE
