SPECIFICATION FairSpec
CONSTANTS
    c1 = c1
    c2 = c2
    c3 = c3
    Clients = {c1}
    MaxUDPSessions = 1
    MaxTunnels = 2
    MaxStreams = 1
    None = None
PROPERTIES StaleGoesAway ServeReturns CloseReleases
CHECK_DEADLOCK FALSE
