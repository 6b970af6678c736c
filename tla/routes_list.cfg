CONSTANTS
    BITS = 3
    MaxNetworks = 4
    DebugBuilds = {TRUE, FALSE}
SPECIFICATION Spec
INVARIANTS
    TypeOK
    Covers
    Separate
    AssertsHold
PROPERTY Terminates
CHECK_DEADLOCK FALSE
