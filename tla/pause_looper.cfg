CONSTANTS
    Main = main
    Reader = reader
    Callers = {main}
    Nets = {wifi, cell}
    NoNet = NoNet
    MaxInFlight = 3
    MaxResume = 2
    MaxDisconnect = 2
    IgnoreNetState = {FALSE}
    ScreenOffPause = {TRUE}
    NetChangeReconnect = {TRUE, FALSE}
    RedundantResume = FALSE
SPECIFICATION Spec
SYMMETRY NetSymmetry
INVARIANT ReleasePending
