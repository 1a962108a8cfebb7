SPECIFICATION MCSpec
CONSTANTS
    Parts = {"telegram", "triggers", "credentials"}
    Approvals = {r1, r2}
    MaxUpdates = 2
    Handlers = {"p", "h"}
    Poller = "p"
    Targets = 1
    MaxTgFaults = 1
    MaxTgCrashes = 1
    MaxRepeats = 2
    Trigs = {1}
    Firers = {f1, f2}
    Editors = {e1, e2}
    Cooldowns = {1}
    MaxClock = 2
    MaxFires = 2
    MaxTrigEdits = 2
    Admins = {a1, a2}
    Resolvers = {k1}
    Hosts = {"h"}
    MaxPuts = 2
    MaxAdminOps = 3
    MaxResolves = 1
    MaxVaultFaults = 1
INVARIANTS TelegramSound TriggersSound CredentialsSound
PROPERTIES UpdatesTaken
CHECK_DEADLOCK FALSE
