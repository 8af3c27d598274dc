SPECIFICATION FairSpec
CONSTANTS
    u1 = u1
    u2 = u2
    u3 = u3
    u4 = u4
    Update <- MCUpdate4
    Needs <- MCNeeds
    KeepSnapshots = 2
    MaxUpdates = 2
    MaxFaults = 2
    MaxCrashes = 2
CHECK_DEADLOCK FALSE
INVARIANTS
    TypeOK
    PrimaryKeysFree
    CompactionIsCovered
    OnlyFailedAppendsAtRisk
    StorageBounded
    PendingIsExact
PROPERTIES
    DurableSpec
    UpdatesSettle
