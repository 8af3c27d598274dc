SPECIFICATION Spec
CONSTANTS
    a = a
    b = b
    r1 = r1
    r2 = r2
    User <- MCUser
    Creator = a
    Call <- MCCall
    MaxFaults = 1
    Visitor <- MCVisitor
    MaxRecorded = 2
SYMMETRY Symmetric
INVARIANTS
    TypeOK
    GrantIsHonest
    RequestsAreWhole
    AccessesCounted
PROPERTIES
    ChangesAreEntitled
