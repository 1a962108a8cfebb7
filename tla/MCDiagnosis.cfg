SPECIFICATION MCSpec
CONSTANTS
    Caps = {"w", "m"}
    ReadOnly = {"m"}
    Marketplace = {"m"}
    Plans <- MCPlans
    Routings <- MCRoutings
    Fallback = "ops"
    Self = "self"
    MaxPasses = 2
    MaxPlanEdits = 1
    MaxPlanFaults = 1
    MaxAsks = 2
    Commands = {"uptime", "restart", "wipe"}
    Channels = {"web", "telegram"}
    Policies <- MCPolicies
    RunRoles <- MCRoles
    Candidates = 2
    MaxCmdEdits = 2
    NoCommand = NoCommand
    Models = {"m1", "m2"}
    NoModel = "-"
    Contexts <- MCContexts
    MaskRules <- MCMaskRules
    Bindings <- MCBindings
    RoleBindings <- MCRoleBindings
    PlannerAnswers <- MCPlannerAnswers
    FinalAnswers <- MCFinalAnswers
    Names <- MCNames
    HostMarks <- MCHostMarks
    PathMarks <- MCPathMarks
    LocalFallback = TRUE
    MaxReasonEdits = 1
INVARIANTS CallsCleared StepsSound CommandSound ReasoningSound
PROPERTIES WorkEnds
CHECK_DEADLOCK FALSE
