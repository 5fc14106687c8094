SPECIFICATION FairSpec
CONSTANTS
    Requests = {r1, r2}
    Slots = {s1, s2}
    None = None
    CallbackCalls = {"enqueue", "send", "once"}
    AddMayFail = TRUE
    MaxEnqueues = 3
    MaxNesting = 2
    MaxResponses = 2
INVARIANTS
    FinishedMeansAnswered
PROPERTIES
    SendTerminates
