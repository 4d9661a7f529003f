CONSTANTS
    a1 = a1
    a2 = a2
    t1 = t1
    t2 = t2
    v1 = v1
    None = None
    Agents <- MCAgents
    Votes = {v1}
    Timers <- MCTimers
    MaxRestarts = 1
SPECIFICATION Spec
SYMMETRY Symmetric
CONSTRAINT OneKind
INVARIANT UncountedUnacknowledged
INVARIANT SealedUntilComplete
INVARIANT CompleteVoteCloses
INVARIANT LeaderGoneOnlyUnnoticed
INVARIANT GoneRoomLeavesNothing
PROPERTY NoBallotAfterResult
PROPERTY OwnTimerDecides
CHECK_DEADLOCK FALSE
