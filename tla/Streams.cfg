SPECIFICATION LiveSpec
CONSTANTS
    Kinds = {"book", "trades"}
    Books <- Rising
    MaxTrades = 3
    Wire = 2
    Buffer = 2
    CrossLimit = 2
    MaxDrops = 0
    MaxFaults = 3
INVARIANTS NewestKept TradesOnce
PROPERTIES BooksFlow TradesArrive
CHECK_DEADLOCK FALSE
