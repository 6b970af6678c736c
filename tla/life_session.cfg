CONSTANTS
    Profiles = {home}
    NoProfile = NoProfile
    MaxSessions = 2
    MaxEvents = 3
    AlwaysOn = FALSE
    AlwaysVisible = FALSE
SPECIFICATION Spec
INVARIANTS
    TypeOK
    ProcessThreadLive
    Reachable
    StopsAtTheEnd
CHECK_DEADLOCK FALSE
