SPECIFICATION Behaviour
CONSTANTS
    d1 = d1
    d2 = d2
    e1 = e1
    Null = Null
    u = u
    r1 = r1
    r2 = r2
CHECK_DEADLOCK FALSE
INVARIANTS
    ReceiptsAgree
    RecoveryAgrees
PROPERTIES
    ImplementsLedger
    EveryUnitSettles
