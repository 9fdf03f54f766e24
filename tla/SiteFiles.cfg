SPECIFICATION Spec
CONSTANTS
    ReadDefinitions <- DefinitionsFrom
    Rewritten <- FormattedFrom
    Written <- MCWritten
    ObjectDocs <- MCObjectDocs
    Settings <- MCSettings
    Overrides <- MCOverrides
    Parts <- MCParts
    Patterns <- MCPatterns
    Compatible = {"new"}
    Numerals <- NoTexts
    Truths <- NoTexts
    Dates <- NoTexts
    Blank = {""}
    LocalOffset = 1
    NoOffset = 99
    Today = 500
    MaxSteps = 5
INVARIANTS ManifestSurvives
PROPERTIES RewritesKeepTheRest ReportsAreSound
CHECK_DEADLOCK FALSE
