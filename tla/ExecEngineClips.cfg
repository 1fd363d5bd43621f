SPECIFICATION Spec
CONSTANTS
    Deciders <- Shapes
    TakerDeadLimit = 3
    DefaultMode = "dual"
    HedgeRatio = 1
    KeepPartial = FALSE
    ForceClose = TRUE
    HedgeRetries = 1
    LotStep = 0
    MinLots = 1
    LotBook = TRUE
    MayHalt = FALSE
    MayShutdown = FALSE
    FaultKinds = {}
    MaxFaults = 0
INVARIANTS TypeOK WithinCap BookMatches SettledTruth
PROPERTIES OpensOnTruth
