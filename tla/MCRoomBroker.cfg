CONSTANTS
    a1 = a1
    a2 = a2
    c1 = c1
    c2 = c2
    c3 = c3
    Agents <- MCAgents
    Conns <- MCConns
    AgentOf <- MCAgentOf
    Lobby = lobby
    RoomIds = {lobby, r1}
    NoAgent = NoAgent
    NoConn = NoConn
SPECIFICATION Spec
CONSTRAINT TwoAtATime
INVARIANT NoPhantomMembership
INVARIANT JoinOrderDistinct
PROPERTY OnlyRacedAdvanceStrandsToken
