CONSTANTS
    Main = main
    Reader = reader
    Callers = {main, binder}
    Nets = {wifi}
    NoNet = NoNet
    MaxInFlight = 1
    MaxResume = 1
    MaxDisconnect = 1
    IgnoreNetState = {TRUE, FALSE}
    ScreenOffPause = {TRUE}
    NetChangeReconnect = {TRUE}
    RedundantResume = TRUE
SPECIFICATION Spec
INVARIANTS
    TypeOK
    NoLostHold
