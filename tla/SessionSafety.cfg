SPECIFICATION Spec
CONSTANTS
    l1 = l1
    l2 = l2
    Locals = {l1, l2}
    Configs = {quic, kcp}
    LocalVersion <- MixedVersions
    RemoteVersion <- RemoteVersionDef
    MaxSessions = 2
    MaxConnectAttempts = 2
    Faults = {"exists", "get", "set"}
    None = None
INVARIANTS EndpointsFit DialsKnownAddress
PROPERTIES StateNeverRegresses
