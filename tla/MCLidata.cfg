SPECIFICATION Spec
CONSTANTS
    Iterated <- TwoBlocks
    MaxPlain = 2
    MaxRecords = 2
    MaxFixups = 2
INVARIANT FixupsFollow
CHECK_DEADLOCK FALSE
