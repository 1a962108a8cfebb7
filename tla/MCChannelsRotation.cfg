SPECIFICATION MCSpec
CONSTANTS
    Parts = {"credentials"}
    Approvals = {r1}
    MaxUpdates = 1
    Handlers = {"p"}
    Poller = "p"
    Targets = 1
    MaxTgFaults = 0
    MaxTgCrashes = 0
    MaxRepeats = 1
    Trigs = {1}
    Firers = {f1}
    Editors = {e1}
    Cooldowns = {1}
    MaxClock = 1
    MaxFires = 0
    MaxTrigEdits = 0
    Admins = {a1}
    Resolvers = {k1}
    Hosts = {"h"}
    MaxPuts = 2
    MaxAdminOps = 4
    MaxResolves = 0
    MaxVaultFaults = 1
INVARIANTS RotationCleared
CHECK_DEADLOCK FALSE
