SPECIFICATION ProcessorSpec
CONSTANTS
    Banked = {"svc", "fiq"}
    Unbanked = {"usr"}
    Events = {"swi", "fiq"}
    Words <- MCWords
    MsrWithEntry = FALSE
    Asked <- MCAsked
    RegNums = {14}
    Values = {0, 1}
    ResetValue = 0
INVARIANT SavedContext
PROPERTIES UserConfined BankedRegistersSpec BanksPrivate
