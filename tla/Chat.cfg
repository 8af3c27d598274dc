SPECIFICATION Spec
CONSTANTS
    c1 = c1
    m1 = m1
    m2 = m2
    m3 = m3
    Client <- MCClient
    Message <- MCMessage
    Limit = 1
    MaxClock = 3
    MaxFaults = 1
SYMMETRY Symmetry
INVARIANTS
    TypeOK
    NothingMissed
    AnsweredFirst
