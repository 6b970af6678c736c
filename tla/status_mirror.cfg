CONSTANTS
    Clients = {ui}
    MaxUpdates = 3
    MaxFaults = 1
SPECIFICATION Spec
INVARIANTS
    TypeOK
    MirrorsStatus
PROPERTY ImplementsFeed
CHECK_DEADLOCK FALSE
