SPECIFICATION Spec
CONSTANTS
    e1 = e1
    e2 = e2
    n1 = n1
    t1 = t1
    t2 = t2
    r1 = r1
    r2 = r2
    None = None
    Email <- MCEmail
    Username <- MCUsername
    Token <- MCToken
    Request <- MCRequest
    PerSecond = 2
    Minute = 1
    Week = 2
    MaxClock = 5
    MaxSessions = 3
    MaxFaults = 1
SYMMETRY Symmetry
CHECK_DEADLOCK FALSE
INVARIANTS
    TypeOK
    UsedTokenHasUser
    LoginsBounded
    LogoutEndsSessions
