CONSTANTS
    n1 = n1
    n2 = n2
    pad = pad
    bad = bad
    t1 = t1
    t2 = t2
    g1 = g1
    g2 = g2
    r1 = r1
    r2 = r2
    Tasks <- MCTasks
    Rooms <- MCRooms
    Lobby = lobby
    Tokens = {i1}
    Keys = {owner, g1, g2}
    Members = {owner}
    Ids = {a1}
    Names = {n1, n2, pad, bad}
    Trimmed <- MCTrimmed
    LobbyName = general
    None = None
SPECIFICATION Spec
SYMMETRY Symmetric
CONSTRAINT InvitesApart
INVARIANT HandedKeysOpen
INVARIANT NoInviteToTheDead
INVARIANT HeardLast
PROPERTY AccessSpec
