SPECIFICATION Spec
CONSTANTS
    h1 = h1
    h2 = h2
    MaxId = 2
    Names = {"m", "n"}
    Listens = {"none", "p"}
    Initial <- MCInitial
    Handlers = {h1, h2}
    Kinds = {"start", "forwards", "auto", "rename", "config", "create", "delete", "import"}
    MaxOps = 2
    MaxFaults = 1
    MaxCrashes = 1
SYMMETRY HandlerSymmetry
INVARIANTS FileValid FileWhole DeletedStays
PROPERTIES RefusalRestores
CHECK_DEADLOCK FALSE
