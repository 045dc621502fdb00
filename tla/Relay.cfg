SPECIFICATION RelayFairSpec
CONSTANTS
    Kinds = {"tcp", "udp"}
    Transports = {"quic", "kcp"}
    MaxData <- MCMaxData
    Room = 1
INVARIANTS Prefix EofIsReal
PROPERTIES Released
CHECK_DEADLOCK FALSE
