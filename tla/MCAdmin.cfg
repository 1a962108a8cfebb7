SPECIFICATION MCSpec
CONSTANTS
    Users = {alice}
    TotpUsers = {alice}
    ChallengeUsers = {alice}
    TokenUser = alice
    OpsUser = alice
    AllowJIT = TRUE
    Clients = {c1, c2}
    Ids = {i1, i2, i3}
    MaxAttempts = 1
    MaxEdits = 1
    None = None
    People = {p1}
    Groups = {g1}
    Roles = {"auditor", "admin"}
    Permissions <- MCPermissions
    Grants <- MCGrants
    Segments = {":id"}
    RegexMatches <- MCRegexMatches
    Keys = {k1, k2}
    Builtin = {k1}
    Vals = {d, v}
    Default = d
    Editors = {e1, e2}
    MaxBegun = 3
    Torn = Torn
    Missing = Missing
SYMMETRY Symmetry
INVARIANTS LoginSafe DirectorySound StoresSound
CHECK_DEADLOCK FALSE
