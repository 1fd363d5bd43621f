SPECIFICATION LiveSpec
CONSTANTS
    Conn = {"A", "B"}
    Caller = {"order"}
    Closer = {"client", "auth"}
    MaxFlaps = 1
INVARIANTS TypeOK ClosedStaysDown AnswersTrue ChannelMatchesFlag CurrentLives
PROPERTIES NobodyStranded LooseEndsTied
CHECK_DEADLOCK FALSE
