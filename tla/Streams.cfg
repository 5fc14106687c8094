SPECIFICATION Spec
CONSTANTS
    Meaning <- MCMeaning
    Closing = {"5E"}
    UlongMax = 255
    Slack = 1
    BufferSize = 4
    Streams = {s1, s2}
    Compressed <- MCCompressed
    Text <- MCText
    MaxOut = 3
    Flags <- MCFlags
    Line <- MCLine
    SplitsEol = FALSE
INVARIANTS
    TypeOK
    StreamsKeepAll
    FiltersDeliver
CHECK_DEADLOCK FALSE
SYMMETRY Swapped
