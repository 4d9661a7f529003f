CONSTANTS
    c1 = c1
    c2 = c2
    c3 = c3
    None = None
    Conns <- MCConns
    Rooms = {"a"}
    MaxBuffered = 2
    MaxVersion = 2
SPECIFICATION Spec
SYMMETRY ConnsSymmetric
CONSTRAINT RenamesOfTwo
CHECK_DEADLOCK FALSE
INVARIANT TypeOK
INVARIANT MembersAreTheSessions
INVARIANT StashIsWhatTheAgentHad
INVARIANT StashForgetsRooms
INVARIANT EventsOnceInOrder
INVARIANT BufferedUntilReached
