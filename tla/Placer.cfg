SPECIFICATION LiveSpec
CONSTANTS
    Calls = {c1, c2}
    Stranger = Stranger
    Rounds = 3
    Probes = 2
INVARIANTS TypeOK AdoptedIsOurs
PROPERTIES ImplementsPlacement EveryCallReturns
\* Calls return and orders end: the system stops.
CHECK_DEADLOCK FALSE
