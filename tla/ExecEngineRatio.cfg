SPECIFICATION Spec
CONSTANTS
    Deciders <- OneLotOrTaker
    TakerDeadLimit = 3
    DefaultMode = "solo"
    HedgeRatio = 2
    KeepPartial = TRUE
    ForceClose = FALSE
    HedgeRetries = 1
    LotStep = 1
    MinLots = 1
    LotBook = FALSE
    MayHalt = TRUE
    MayShutdown = FALSE
    FaultKinds = {"ghost", "silent", "blind", "async", "dup", "reject"}
    MaxFaults = 2
INVARIANTS LedgerBalanced
PROPERTIES HaltAbsolute
