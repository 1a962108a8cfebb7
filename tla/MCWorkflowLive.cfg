CONSTANTS
    Sessions = {s1}
    Execs = {x1, x2}
    Handlers = {h1}
    Dispatcher = dispatcher
    None = None
    FlagSets <- mcAllOn
    MaxReplays = 1
    MaxCrashes = 0
    MaxFaults = 0
SPECIFICATION FairSpec
PROPERTY PendingDecided
PROPERTY ExecutingFinishes
CHECK_DEADLOCK FALSE
