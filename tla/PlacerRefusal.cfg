SPECIFICATION Spec
CONSTANTS
    Calls = {c1}
    Stranger = Stranger
    Rounds = 2
    Probes = 1
INVARIANTS RejectedLeavesNothing
\* Calls return and orders end: the system stops.
CHECK_DEADLOCK FALSE
