SPECIFICATION Spec
CONSTANTS
    Formats = {"dos", "ne"}
    Segs = {1, 2}
    Code = {1, 2}
    Layouts <- TwoCodeGroups
    Items <- CallsAndOthers
    MaxItems = 3
    MaxCells = 12
    Para = 4
    Word = 128
    PageSize = 4
    Base = 20
    FarCalls <- FarCallsOn
    Loads <- Nearby
INVARIANTS ReferencesRight
CHECK_DEADLOCK FALSE
