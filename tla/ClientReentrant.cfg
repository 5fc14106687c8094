SPECIFICATION Spec
CONSTANTS
    Requests = {r1, r2}
    Slots = {s1, s2}
    None = None
    CallbackCalls = {"enqueue", "requeue", "dequeue", "reset", "send", "once", "pop"}
    AddMayFail = FALSE
    MaxEnqueues = 3
    MaxNesting = 2
    MaxResponses = 2
SYMMETRY Symmetry
INVARIANTS
    TypeOK
    QueueConsistent
    RefsHeldByHandlers
    SendAnswersAll
PROPERTIES
    ImplementsRequestQueue
