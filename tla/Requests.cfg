SPECIFICATION Spec
CHECK_DEADLOCK FALSE
CONSTANTS
    Names = {"a", "b"}
    MaxIndex = 4
    X = X
    Marks = {X}
    Words = {"", "1", "  1", "++1", "2"}
    Plus <- MCPlus
    Bare = Bare
    Null = Null
    None = None
    Empty = ""
    Unset = Unset
    Variable = Variable
    Alike <- MCAlike
    DefaultPort <- MCDefaultPort
    Objects = {"c", "r", "s"}
    Clients = {"c"}
    Parts = {"ssl"}
    Special = {"recordHistory"}
    Keys = {"p", "ssl", "recordHistory"}
    Settings = {1, 2}
    Fields = {"a", "b"}
    Contents <- MCContents
    GivenOptions <- MCGivenOptions
    MaxEdits <- MCMaxEdits
    QueryObjects = {"q"}
    UrlObjects = {"u"}
    GivenQueries <- MCGivenQueries
    GivenValues <- MCGivenValues
    GivenUrls <- MCGivenUrls
    FlagSets <- MCFlagSets
    Server <- MCServer
INVARIANTS
    TypeOK
    OptionsAsTold
    QueryAsAsked
    UrlsSettled
