SPECIFICATION LiveSpec
CONSTANTS
    Deciders <- OneLot
    TakerDeadLimit = 2
    DefaultMode = "dual"
    HedgeRatio = 1
    KeepPartial = TRUE
    ForceClose = FALSE
    HedgeRetries = 1
    LotStep = 0
    MinLots = 1
    LotBook = FALSE
    MayHalt = FALSE
    MayShutdown = TRUE
    FaultKinds = {"silent", "reject", "kill"}
    MaxFaults = 2
INVARIANTS NothingForgotten LedgerBalanced SettledTruth
PROPERTIES EventuallyHedged ObligationsMet
