SPECIFICATION MCSpec
CONSTANTS
    Connectors = {n1}
    Versions = {1, 2}
    Bodies = {"a", "b"}
    Incomplete = {"b"}
    Offered <- MCOffered
    Calls = {t1}
    MaxSaves = 3
    MaxRevs = 2
    Absent = Absent
    SkillIds = {s1, s2}
    Texts = {"a", "b"}
    Uploads <- MCUploads
    Operators = {o1, o2}
    MaxRequests = 3
    MaxSkillRevs = 2
    NoSkill = NoSkill
    Candidates = {x1}
    Bundled <- MCBundled
    MaxOperations = 5
    NoCandidate = NoCandidate
    Requests = {o1, o2}
    Models = {m1, m2}
    MaxSubmitted = 3
    MaxFailures = 1
    Unset = Unset
    Writers = {o1, o2}
    TicksPerDay = 3
    MaxClock = 3
    MaxWrites = 3
    MaxMishaps = 1
    Retention = 2
    MaxRecords = 2
    Limit = 2
    Nobody = Nobody
SYMMETRY Symmetry
INVARIANTS ConnectorsSound SkillsSound ImportsSound SetupSound SignalsSound
CHECK_DEADLOCK FALSE
