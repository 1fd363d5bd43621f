SPECIFICATION Spec
CONSTANTS
    Limit = 4
    Window = 2
    Margin = 1
    WindowLimit = 4
    Burst = {1, 2}
    Pollers = {p1}
    MaxNow = 4
    MaxSpent = 5
INVARIANTS TypeOK Conservative
PROPERTIES GrantsKeepReserve
