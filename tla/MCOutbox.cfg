CONSTANTS
    Events = {e1, e2}
    Dispatchers = {d1, d2}
    ClaimLimit = 1
    FlagSets <- mcFlagSets
    MaxReplays = 1
    MaxCrashes = 1
    MaxFaults = 1
SPECIFICATION Spec
SYMMETRY mcSymmetry
INVARIANT OutboxSound
INVARIANT DoneMeansSent
CHECK_DEADLOCK FALSE
