CONSTANTS
    Events = {e1, e2}
    Dispatchers = {d1}
    ClaimLimit = 2
    FlagSets <- mcAllOn
    MaxReplays = 2
    MaxCrashes = 1
    MaxFaults = 0
SPECIFICATION FairSpec
INVARIANT AttemptsBounded
PROPERTY SettledIsFinal
PROPERTY EventuallySettled
CHECK_DEADLOCK FALSE
