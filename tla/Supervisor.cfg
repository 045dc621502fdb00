SPECIFICATION FairSpec
CONSTANTS
    k1 = k1
    MaxGen = 2
    Stoppers = {k1}
    StartStatus = "Connecting"
    Lines = {"Connected", "ConnectFailed", "Mismatch"}
INVARIANTS OneRecord NoStrayChild
PROPERTIES CrashRecovers StoppingEnds
