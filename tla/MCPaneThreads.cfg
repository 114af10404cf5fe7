SPECIFICATION FairSpec
CONSTANTS
    ObeysHangup = TRUE
    MayHold = TRUE
    LockingHooks = TRUE
    MaxPushes = 2
    MaxChunks = 1
INVARIANTS
    WrittenInOrder
    SleepsOnlyIdle
    FreedSafely
PROPERTIES
    DestructorReturns
CHECK_DEADLOCK FALSE
