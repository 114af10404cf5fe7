\* Each is refuted: tlc -continue names them all.
SPECIFICATION Spec
CONSTANTS
    ObeysHangup = TRUE
    MayHold = FALSE
    LockingHooks = TRUE
    MaxPushes = 1
    MaxChunks = 1
INVARIANTS
    NeverLockedOut
    NoLostWakeup
CHECK_DEADLOCK FALSE
