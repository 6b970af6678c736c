CONSTANTS
    Main = main
    Reader = reader
    Callers = {main}
    Nets = {wifi, cell}
    NoNet = NoNet
    MaxInFlight = 3
    MaxResume = 2
    MaxDisconnect = 2
    IgnoreNetState = {FALSE}
    ScreenOffPause = {FALSE}
    NetChangeReconnect = {TRUE}
    RedundantResume = FALSE
SPECIFICATION Spec
PROPERTY EstablishedOnSameNetwork
