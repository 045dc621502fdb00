SPECIFICATION FairSpec
CONSTANTS
    Keys = {"a", "b"}
    Targets = {"x", "y"}
    Configs <- MCConfigs
    MaxServeFailures = 1
    MaxEdits = 2
    MaxBindFaults = 2
    MaxServeFaults = 1
    MaxTunnels = 2
INVARIANTS SocketsOwned TunnelFits InForce
PROPERTIES EditsSettle
CHECK_DEADLOCK FALSE
