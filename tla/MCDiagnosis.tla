---------------------------- MODULE MCDiagnosis ----------------------------
(***************************************************************************)
(* Instances of ToolPlan, CommandRun and Reasoning for TLC, explored one   *)
(* at a time.                                                              *)
(***************************************************************************)
EXTENDS ToolPlan, CommandRun, Reasoning

VARIABLE part

planStep(t, c, stops) == [tool |-> t, cap |-> c, stopOn |-> stops]

\* "w" changes something, "m" is a read-only MCP capability
MCPlans ==
    {<<planStep("metrics", "m", {"failed"}), planStep("capability", "w", {"pending_approval"}),
       planStep("command", "m", {})>>,
     <<planStep("logs", "w", {}), planStep("command", "m", {})>>,
     <<planStep("knowledge", "m", {}), planStep("delivery", "m", {"denied"})>>}

\* the owner group holds only the requester, the service has no group
MCRoutings == {[groups |-> <<<<"self">>, <<>>, <<"p", "q">>, <<"d">>>>, noSelf |-> TRUE, chat |-> FALSE],
               [groups |-> <<<<"p", "q">>, <<>>, <<>>, <<>>>>, noSelf |-> FALSE, chat |-> TRUE]}

override(globs, channels, action) == [globs |-> globs, channels |-> channels, action |-> action]

MCPolicies ==
    {[hard |-> {"wipe"}, white |-> {"uptime", "wipe"}, black |-> {"restart"},
      onWhite |-> "direct_execute", onBlack |-> "suggest_only", otherwise |-> "require_approval",
      overrides |-> <<override({"wipe", "restart"}, {"web"}, "require_approval"),
                      override({"restart"}, {}, "direct_execute")>>],
     [hard |-> {}, white |-> {}, black |-> {"wipe"},
      onWhite |-> "direct_execute", onBlack |-> "deny", otherwise |-> "require_approval",
      overrides |-> <<>>]}

\* the built-in diagnosis role, a stricter one, and one with an unknown action
MCRoles == {[hard |-> {}, ask |-> {}, maxAction |-> "require_approval"],
            [hard |-> {"restart"}, ask |-> {"uptime"}, maxAction |-> ""],
            [hard |-> {}, ask |-> {}, maxAction |-> "auto"]}

\* two hosts and a path of the context, one secret a rule knows and one only a detector finds
mcContext(disk, intent, wants, asksHost) ==
    [host |-> "h1", mentions |-> {"h2", "loadavg"}, secrets |-> {"assignment", "odd"},
     rolePrompt |-> {"h2"}, offers |-> {"h1"}, disk |-> disk, skill |-> FALSE, intent |-> intent, direct |-> wants, asksHost |-> asksHost]

MCContexts == {mcContext(FALSE, "delivery", FALSE, FALSE), mcContext(TRUE, "metrics", FALSE, FALSE),
               mcContext(TRUE, "generic", TRUE, FALSE),
               [mcContext(TRUE, "cause", FALSE, TRUE) EXCEPT !.skill = TRUE]}

MCMaskRules ==
    {[enabled |-> TRUE, inline |-> {"HOST", "PATH"}, back |-> {"HOST", "PATH"}, detect |-> TRUE, detector |-> NoModel],
     [enabled |-> TRUE, inline |-> {"HOST"}, back |-> {"PATH"}, detect |-> FALSE, detector |-> "m1"],
     [enabled |-> FALSE, inline |-> {}, back |-> {}, detect |-> TRUE, detector |-> "m2"]}

MCHostMarks == <<"[HOST_1]", "[HOST_2]">>
MCPathMarks == <<"[PATH_1]">>
MCNames == {"h1", "h2", "loadavg", "[HOST_1]", "[HOST_2]", "[PATH_1]", Nothing}

mcRegistry(primary, assist, entries) == [primary |-> primary, assist |-> assist, entries |-> entries]

\* two models, one model in both places, and none but an entry
MCBindings == {mcRegistry("m1", "m2", {"m1", "m2"}), mcRegistry("m1", "m1", {"m1"}),
               mcRegistry(NoModel, NoModel, {"m2"})}

mcRole(primary, fallback) == [set |-> TRUE, primary |-> primary, fallback |-> fallback, inherit |-> FALSE]

\* no binding of its own, one with both targets, one with the same target twice
MCRoleBindings == {[mcRole(NoModel, NoModel) EXCEPT !.set = FALSE], mcRole("m2", "m1"), mcRole("m2", "m2")}

\* hosts and paths by their marks, as they are, or left out
MCPlannerAnswers ==
    {<<>>, <<Proposal("bogus", "none", Nothing), Proposal("command", "uptime", Nothing)>>,
     <<Proposal("metrics", "none", "[HOST_1]"), Proposal("command", "restart", "[HOST_2]")>>,
     <<Proposal("command", "cat", "[PATH_1]"), Proposal("command", "cat", "loadavg")>>}

mcFinal(said, names, runs) == [summary |-> said, names |-> names, hint |-> runs]

MCFinalAnswers ==
    {mcFinal("blank", Nothing, "tool"), mcFinal("finding", "[HOST_1]", "restart"),
     mcFinal("finding", "[PATH_1]", "cat"), mcFinal("unrelated", "[HOST_2]", "uptime"),
     mcFinal("unrelated", Nothing, "sudo")}

\* the component that is not explored keeps one of its initial states
MCInit == /\ part \in {"plan", "command", "models"}
          /\ ToolPlanInit /\ CmdInit /\ ReasoningInit
          /\ part # "command" => /\ policy = CHOOSE p \in Policies : TRUE
                                 /\ role = CHOOSE r \in RunRoles : TRUE
                                 /\ connector = "ssh"
          /\ part # "plan" => barred = {} /\ ~routing.chat
          /\ routing.chat => barred = Marketplace
          /\ part # "models" => /\ rules = CHOOSE r \in MaskRules : TRUE
                                /\ registry = CHOOSE b \in Bindings : TRUE
                                /\ subject = CHOOSE c \in Contexts : TRUE
                                /\ binding = CHOOSE b \in RoleBindings : TRUE
          /\ binding.set => /\ subject = CHOOSE c \in Contexts : TRUE
                            /\ rules = CHOOSE r \in MaskRules : TRUE
          /\ ~binding.set => registry = CHOOSE b \in Bindings : TRUE

MCNext == /\ part' = part
          /\ \/ part = "plan" /\ ToolPlanNext /\ UNCHANGED <<cmdVars, reasonVars>>
             \/ part = "command" /\ CmdNext /\ UNCHANGED <<planVars, reasonVars>>
             \/ part = "models" /\ ReasoningNext /\ UNCHANGED <<planVars, cmdVars>>

\* the fairness of the component that is explored
MCSpec == /\ MCInit /\ [][MCNext]_<<part, planVars, cmdVars, reasonVars>>
          /\ WF_planVars(part = "plan" /\ PlanWorker) /\ WF_planVars(part = "plan" /\ PlanRestart)
          /\ WF_cmdVars(part = "command" /\ CmdWorker)
          /\ WF_reasonVars(part = "models" /\ ReasonStep)

\* A claimed diagnosis, an approved execution and a question to the models all
\* come to an end, whatever fails on the way.
WorkEnds == DiagnosisEnds /\ ExecutionEnds /\ DiagnosisConcludes
=============================================================================
