SPECIFICATION Spec
CONSTANTS
    c1 = c1
    c2 = c2
    c3 = c3
    Clients = {c1, c2}
    MaxUDPSessions = 1
    MaxTunnels = 2
    MaxStreams = 2
    None = None
SYMMETRY ClientSymmetry
INVARIANTS NoLeak TableBounded SweeperRuns
CHECK_DEADLOCK FALSE
