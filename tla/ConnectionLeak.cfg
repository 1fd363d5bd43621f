SPECIFICATION Spec
CONSTANTS
    Conn = {"A", "B"}
    Caller = {"order"}
    Closer = {"client", "auth"}
    MaxFlaps = 1
INVARIANT NothingLeaks
CHECK_DEADLOCK FALSE
