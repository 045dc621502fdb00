SPECIFICATION Spec
CONSTANTS
    s1 = s1
    p1 = p1
    p2 = p2
    u1 = u1
    u2 = u2
    None = None
    Services = {s1}
    Pids = {p1, p2}
    UIs = {u1, u2}
    Admins = {u1}
    MaxSpawns = 2
    MaxForeign = 1
SYMMETRY Symmetry
INVARIANTS Recorded OrphansCleaned
PROPERTIES CleanupSpares
CHECK_DEADLOCK FALSE
