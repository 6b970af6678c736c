CONSTANTS
    Tunnels = {home, work}
    NoTunnel = NoTunnel
    Configs = {c1, c2}
    NoConfig = NoConfig
    MaxHandle = 1
SPECIFICATION Spec
SYMMETRY Symmetry
PROPERTY DownMeansDown
