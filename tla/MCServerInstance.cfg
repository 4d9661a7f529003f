CONSTANTS
    a = a
    alias = alias
    b = b
    h = h
    k = k
    c1 = c1
    c2 = c2
    c3 = c3
    c4 = c4
    f1 = f1
    f2 = f2
    f3 = f3
    Servers = {p1, p2}
    Names = {a, alias, b, h, k}
    Canon <- MCCanon
    File <- MCFile
    Paths = {s1}
    Inodes = {1, 2, 3}
    None = None
    Alien = Alien
    MaxStarts = 3
SPECIFICATION Spec
CHECK_DEADLOCK FALSE
INVARIANT OneServerPerDatabase
INVARIANT RunningIsReachable
PROPERTY FailsOnlyForCause
PROPERTY OrphansEnd
CONSTRAINT Apart
