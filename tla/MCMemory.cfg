SPECIFICATION MCSpec
CONSTANTS
    Sessions = {s1}
    AlertKeys = {k1, k2}
    Execs = {1, 2}
    Updates = {u1}
    Handlers = {h1, h2}
    Dispatcher = dispatcher
    None = None
    FlagSets <- mcFlagSets
    BatchSize = 1
    SendAttempts = 2
    MaxReplays = 1
    MaxLostSends = 1
    MaxDeliveries = 2
    MaxEvents = 6
    Closed = {c1, c2}
    MaxVersion = 2
    MaxChanges = 3
    MaxReindexes = 1
    MaxIngestFaults = 1
    HitLimit = 2
    ScanLimit = 3
INVARIANTS MemorySound KnowledgeSound ChunkTextFits
PROPERTIES GateImplemented BacklogDrains ClosedIsIngested
CHECK_DEADLOCK FALSE
