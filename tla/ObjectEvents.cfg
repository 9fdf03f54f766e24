SPECIFICATION Spec
CONSTANTS
    Definitions <- MCDefinitions
    Names = {"a", "b"}
    Toml <- MCToml
    TextsSent = {"y", "bad"}
    BadText = "bad"
    Orders <- MCOrders
    ValuePathsSent <- MCValuePaths
    ChildPathsSent <- MCChildPaths
    Given <- MCGiven
    FilesSent <- MCFiles
    FirstFiles <- MCFirst
    MaxSteps = 2
    Native = FALSE
    Lower <- MCLower
    StartsWith <- MCStartsWith
INVARIANTS FileSystemIsSound
PROPERTIES EventsKeepSiteReadable EventsTouchWhatTheyName
CHECK_DEADLOCK FALSE
