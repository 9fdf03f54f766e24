SPECIFICATION Spec
CONSTANTS
    FieldDocs <- MCFieldDocs
    Editors <- MCEditors
    Tomls <- MCTomls
    Jsons <- MCJsons
    Values <- MCValues
    Orders <- MCOrders
    Numerals <- MCNumerals
    Truths <- MCTruths
    Dates <- MCDates
    Blank = {"", " "}
    LocalOffset = 1
    NoOffset = 99
    Today = 500
    U32 = 16
    MaxEdits = 3
INVARIANTS EditedObjectsLoad MeaningTravels SecretsStayOut
CHECK_DEADLOCK FALSE
