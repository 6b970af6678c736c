CONSTANTS
    BITS = 3
    MaxNetworks = 3
    DebugBuilds = {TRUE}
SPECIFICATION Spec
INVARIANT NoAssertFails
CHECK_DEADLOCK FALSE
