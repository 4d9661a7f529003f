CONSTANTS
    a1 = a1
    a2 = a2
    Agents <- MCAgents
    Rooms = {r1, lobby}
    Lobby = lobby
    Tasks = {t1}
    Fields = {status, note}
    Values = {v1}
    None = None
    MaxRev = 3
    MaxCrash = 1
SPECIFICATION Spec
SYMMETRY Symmetric
INVARIANT NoUpdateLost
INVARIANT SentIsSaved
INVARIANT ListenersHaveTheBoard
PROPERTY BoardSpec
CONSTRAINT EmptyLobby
