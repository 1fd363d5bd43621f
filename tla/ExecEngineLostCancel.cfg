SPECIFICATION Spec
CONSTANTS
    Deciders <- TwoLots
    TakerDeadLimit = 3
    DefaultMode = "dual"
    HedgeRatio = 1
    KeepPartial = TRUE
    ForceClose = FALSE
    HedgeRetries = 1
    LotStep = 0
    MinLots = 1
    LotBook = FALSE
    MayHalt = FALSE
    MayShutdown = FALSE
    FaultKinds = {"silent"}
    MaxFaults = 1
INVARIANTS WithinCap
