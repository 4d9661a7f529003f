CONSTANTS
    c1 = c1
    c2 = c2
    k1 = k1
    k2 = k2
    Sockets <- MCSockets
    Keys <- MCKeys
    NoKey = NoKey
    Ids = {i1}
    None = None
    MaxAgents = 1
    MaxRooms = 1
    Wide = 4
    MaxOwned = 2
    MaxRestarts = 1
SPECIFICATION RegistrationSpec
SYMMETRY Symmetric
INVARIANT CountersExact
INVARIANT IdentityHolds
PROPERTY LimitsExceededOnlyByRace
CONSTRAINT OneTrouble
CONSTRAINT CountersApart
