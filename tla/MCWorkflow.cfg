CONSTANTS
    Sessions = {s1}
    Execs = {x1, x2}
    Handlers = {h1, h2}
    Dispatcher = dispatcher
    None = None
    FlagSets <- mcFlagSets
    MaxReplays = 1
    MaxCrashes = 1
    MaxFaults = 1
SPECIFICATION Spec
SYMMETRY mcSymmetry
INVARIANT RunsSound
INVARIANT SessionBacked
PROPERTY RunNeedsFeature
PROPERTY GateImplemented
CHECK_DEADLOCK FALSE
