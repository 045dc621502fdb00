SPECIFICATION Spec
CONSTANTS
    Updaters = {"u1"}
    Zips = {"full", "exe", "badexe", "baddll"}
    Olds = {"none", "older"}
    MaxFaults = 6
    MaxCrashes = 1
INVARIANTS Recoverable NoMix OnlyVerified
CHECK_DEADLOCK FALSE
