SPECIFICATION Spec
CONSTANTS
    Characters = {"W", "/", "m", "n", "s", "d", "x", "t", "u", "b", "v"}
    Wide = {"W"}
    NewLine = "/"
    Files <- MCFiles
    Above <- MCAbove
    Parsed <- MCParsed
    KeySpan <- MCKeySpan
    TemplateFaults <- MCTemplateFaults
    ReadDefinitions <- MCReadDefinitions
    FaultsOfObject <- MCFaultsOfObject
    Initially <- MCInitially
    OnDisk <- MCOnDisk
    Typed <- MCTyped
    Parts <- MCParts
    Patterns <- NoTexts
    Compatible = {"new"}
    Numerals <- NoTexts
    Truths <- NoTexts
    Dates <- NoTexts
    Blank = {""}
    LocalOffset = 1
    NoOffset = 99
    Today = 500
    MaxSteps = 4
    MaxInbox = 2
INVARIANTS BuffersAgree ShownIsFresh ErrorsAreTheLoaders
CHECK_DEADLOCK FALSE
