SPECIFICATION Spec
CONSTANTS
    u1 = u1
    u2 = u2
    u3 = u3
    e1 = e1
    e2 = e2
    c1 = c1
    c2 = c2
    p1 = p1
    p2 = p2
    None = None
    Waiting = Waiting
    Update <- MCUpdate3
    Needs <- MCNeeds
    Resent <- MCUpdate3
    EntryId <- MCEntryId2
    Caller <- MCCaller2
    Evictor <- MCEvictor1
    KeepSnapshots = 1
    MaxUpdates = 2
    MaxFaults = 0
    MaxDeletes = 0
SYMMETRY Symmetry
INVARIANTS
    CompactionIsCovered
