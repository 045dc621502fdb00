SPECIFICATION FairSpec
CONSTANTS
    w1 = w1
    w2 = w2
    c1 = c1
    c2 = c2
    s1 = s1
    s2 = s2
    Writers = {w1, w2}
    Closers = {c1, c2}
    Senders = {s1, s2}
    QueueCap = 3
    MaxBatch = 2
    WriteAttempts = 2
    MaxMsgs = 5
INVARIANTS QueueHasSender NoLostWakeup InOrder
PROPERTIES CloseEnds ImplementsQueue
