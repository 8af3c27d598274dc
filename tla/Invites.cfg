SPECIFICATION Spec
CONSTANTS
    u1 = u1
    u2 = u2
    i1 = i1
    i2 = i2
    r1 = r1
    r2 = r2
    User <- MCUser2
    InviteId <- MCInviteId2
    Request <- MCRequest2
    MaxFaults = 1
SYMMETRY Symmetry
CHECK_DEADLOCK FALSE
INVARIANTS
    TypeOK
    PendingBounded
    AcceptanceIsWhole
    MembershipIsBacked
PROPERTIES
    SettledStays
