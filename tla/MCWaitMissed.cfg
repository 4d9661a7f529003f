CONSTANTS
    Senders <- MCSenders
    s1 = s1
    s2 = s2
    Kinds = {"chat", "self"}
    MaxSeq = 3
    QueueCap = 3
    MaxLosses = 0
    Modes = {"loop"}
    PageLimit = 3
    PullLimit = 3
    EventCap = 3
    MaxCrashes = 0
SPECIFICATION Spec
INVARIANT NoReplyMissed
