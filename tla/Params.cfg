SPECIFICATION CookieSpec
CONSTANTS
    Formats <- MCFormats
    Opts <- MCOpts
    Texts <- MCTexts
    Names <- MCNames
    Given <- MCGiven
    GivenArgs <- MCGivenArgs
    MaxEdits = 3
    Objects = {"o1", "o2"}
    Cookie = "cookie"
    Allowed <- MCAllowed
    Numerals <- MCNumerals
    CookieNames <- MCCookieNames
    CookieValues <- MCCookieValues
    Attributes <- MCAttributes
INVARIANTS
    TypeOK
    TextsMeant
PROPERTIES
    Apart
    ParseAdvances
