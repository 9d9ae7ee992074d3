SPECIFICATION Spec
CONSTANTS
    Lists <- MCLists
    MaxCount = 8
    ForcesAck = FALSE
    Waits = TRUE
    Abandons = FALSE
    SpeedWithoutW = FALSE
    ReadsLoadedPc = FALSE
    DropsBusy = FALSE
INVARIANT WordsLand
INVARIANT ReturnFormula
