CONSTANTS
    Senders <- MCSenders
    s1 = s1
    s2 = s2
    Kinds = {"chat", "self", "filtered", "thinking"}
    MaxSeq = 2
    QueueCap = 1
    MaxLosses = 1
    Modes = {"follow", "loop", "drain"}
    PageLimit = 1
    PullLimit = 1
    EventCap = 1
    MaxCrashes = 1
SPECIFICATION Spec
CONSTRAINT KindsBound
CONSTRAINT OneTrouble
INVARIANT MissedOnlyIfOvertakenOrDropped
PROPERTY SeqNeverReused
PROPERTY CursorFileMonotonic
PROPERTY CursorCatchesUp
