SPECIFICATION Spec
CONSTANTS
    MaxLots = 4
INVARIANTS TypeOK CreditMirrorsHedge StreamExact RetireExact TakerExact
PROPERTIES ImplementsLedger
CHECK_DEADLOCK FALSE
