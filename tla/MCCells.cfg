CONSTANTS
    l1 = l1
    l2 = l2
    Launches = {l1, l2}
    Client = Client
    Ports = {p1, p2, p3}
    EnvUrls = {NoPort, Elsewhere}
    Started <- MCStarted
    NoPort = NoPort
    None = None
    Free = Free
    Other = Other
    Pids = {1, 2}
    Contested = {p1}
SPECIFICATION FairSpec
INVARIANTS
    NoOrphanSoma
PROPERTIES
    StrangerNoticed
    ClientConverges
CHECK_DEADLOCK FALSE
