SPECIFICATION FairSpec
CONSTANTS
    l1 = l1
    l2 = l2
    Locals = {l1}
    Configs = {kcp}
    LocalVersion <- OneVersion
    RemoteVersion <- RemoteVersionDef
    MaxSessions = 2
    MaxConnectAttempts = 1
    Faults = {"set", "del"}
    None = None
PROPERTIES AttemptEnds RemoteGetsFree
