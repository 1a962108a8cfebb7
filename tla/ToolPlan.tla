------------------------------ MODULE ToolPlan ------------------------------
(***************************************************************************)
(* The diagnosis of one session by the dispatcher, step by step of the     *)
(* tool plan: plan, run the tools in order, ask for an approval where the  *)
(* policy wants one, tell the approvers, finalize, and store the           *)
(* diagnosis.  Against it run the approvers, the timeout sweep,            *)
(* administrators who edit the hard-deny list and the connectors, and the  *)
(* crash and restart of the process.  Every store transaction and every    *)
(* remote call is a step of its own.                                       *)
(***************************************************************************)
EXTENDS Integers, Sequences, FiniteSets, SequencesExt, Listing

CONSTANTS
    Caps,          \* connector capabilities
    ReadOnly,      \* those marked read_only in their connector's manifest
    Marketplace,   \* those of an MCP or skill connector (hard_deny.mcp_skill)
    Plans,         \* the plans a skill expands to or the planner may return
    Routings,      \* approval routings: four groups of targets, in order, or
                   \* direct to the chat the request came from
    Fallback,      \* the chat, or the target used when no group has one
    Self,          \* the requester name of the tool plan executor
    MaxPasses,     \* bound: times the diagnosis is started
    MaxPlanEdits,  \* bound: edits of the policy or of a connector
    MaxPlanFaults, \* bound: failed database writes
    MaxAsks        \* bound: capability approvals created

\* what a step of the plan asks for, and the outcomes after which it stops
StepTools == {"metrics", "knowledge", "capability", "logs", "delivery", "command"}
Outcomes  == {"completed", "failed", "denied", "pending_approval"}
PlanSteps == [tool : StepTools, cap : Caps,
              stopOn : SUBSET {"failed", "denied", "pending_approval"}]

ASSUME ToolPlanAssumption ==
    /\ ReadOnly \subseteq Caps /\ Marketplace \subseteq Caps
    /\ \A p \in Plans : p \in Seq(PlanSteps) /\ p # <<>>
    /\ \A r \in Routings : /\ DOMAIN r.groups = 1..4 /\ r.noSelf \in BOOLEAN /\ r.chat \in BOOLEAN
                           /\ \A g \in 1..4 : r.groups[g] \in Seq(ToSet(r.groups[g]))
    /\ MaxPasses \in Nat /\ MaxPlanEdits \in Nat
    /\ MaxPlanFaults \in Nat /\ MaxAsks \in Nat

VARIABLES
    at,        \* where the dispatcher is in dispatchDiagnosis
    pass,      \* how often the event has been claimed
    plan,      \* the plan of this pass
    ran,       \* executedPlan: for each step so far its outcome and approval
    told,      \* targets of the current approval already dealt with
    barred,    \* the hard_deny.mcp_skill list in force
    offline,   \* capabilities whose connector is missing, disabled, incompatible
    routing,   \* the approval routing
    asks,      \* the capability rows of execution_requests
    direct,    \* history: calls made by the plan itself: was the capability barred,
               \* and was an administrator's edit made after the policy check
    raced,     \* history: an edit came between this policy check and its call
    shown,     \* alert_sessions.tool_plan
    hint,      \* the final diagnosis: a command to run on the host, or none
    quashed,   \* was the command of this pass suppressed
    wanted,    \* did this pass hand a command to the authorization policy
    planEdits, planFaults

planVars == <<at, pass, plan, ran, told, barred, offline, routing, asks, direct, raced,
              shown, hint, quashed, wanted, planEdits, planFaults>>
worldVars == <<barred, offline, routing, raced, planEdits>>

AskStatus == {"pending", "executing", "completed", "failed", "rejected"}
RanSteps  == [tool : StepTools, id : Nat, st : Outcomes \cup {"planned"}, ask : 0..MaxAsks]

ToolPlanTypeOK ==
    /\ at \in {"queued", "planning", "step", "call", "ask", "tell", "finalize", "apply",
               "notify", "lost", "done", "dead"}
    /\ pass \in 0..MaxPasses
    /\ plan \in Plans \cup {<<>>}
    /\ ran \in Seq(RanSteps) /\ Len(ran) <= Len(plan)
    /\ told \in Nat
    /\ barred \in SUBSET Caps /\ offline \in SUBSET Caps /\ routing \in Routings
    /\ \A a \in DOMAIN asks :
          /\ asks[a].cap \in Caps \ ReadOnly /\ asks[a].st \in AskStatus
          /\ asks[a].pass \in 1..pass /\ asks[a].step \in Nat \ {0}
          /\ asks[a].calls \in 0..1 /\ asks[a].live \in BOOLEAN
    /\ Len(asks) <= MaxAsks
    /\ direct \in SUBSET [cap : Caps, barred : BOOLEAN, raced : BOOLEAN] /\ raced \in BOOLEAN
    /\ shown \in Seq(RanSteps)
    /\ hint \in BOOLEAN /\ quashed \in BOOLEAN /\ wanted \in BOOLEAN
    /\ planEdits \in 0..MaxPlanEdits /\ planFaults \in 0..MaxPlanFaults

ToolPlanInit ==
    /\ at = "queued" /\ pass = 0 /\ plan = <<>> /\ ran = <<>> /\ told = 0
    /\ barred \in SUBSET Marketplace /\ offline = {} /\ routing \in Routings
    /\ asks = <<>> /\ direct = {} /\ raced = FALSE /\ shown = <<>>
    /\ hint = FALSE /\ quashed = FALSE /\ wanted = FALSE
    /\ planEdits = 0 /\ planFaults = 0

-----------------------------------------------------------------------------
(* Who is asked: service owners, then the on-call groups of the service,   *)
(* of the environment and of everybody, then the fallback target.  What a  *)
(* user asks for in a chat goes to that chat, whoever the approvers are.   *)

\* buildRoute: without the requester when self-approval is prohibited
Askable(g) == {i \in DOMAIN routing.groups[g] : ~(routing.noSelf /\ routing.groups[g][i] = Self)}

GroupTargets(g) == Picked(routing.groups[g], Askable(g))

Resolve ==
    LET usable == {g \in 1..4 : Askable(g) # {}}
    IN  IF usable = {} THEN <<Fallback>>
        ELSE GroupTargets(CHOOSE g \in usable : \A h \in usable : g <= h)

ApprovalRoute == IF routing.chat THEN <<Fallback>> ELSE Resolve

-----------------------------------------------------------------------------
(* Authorization of a capability.                                          *)

EvaluateCapability_Unlisted(c) == IF c \in ReadOnly THEN "direct_execute" ELSE "require_approval"

EvaluateCapability(c) ==
    IF c \in Marketplace /\ c \in barred THEN "deny"
    ELSE IF c \in ReadOnly THEN "direct_execute" ELSE "require_approval"

-----------------------------------------------------------------------------
(* The dispatcher.                                                         *)

Step == plan[Len(ran) + 1]
Stops_Swapped(s, st) == \/ st = "denied" /\ "pending_approval" \in s.stopOn
                        \/ st = "pending_approval" /\ "denied" \in s.stopOn
                        \/ st = "failed" /\ "failed" \in s.stopOn

\* shouldStopToolPlan: does the plan end after step s with outcome st?
Stops(s, st) == st \in s.stopOn

\* the variables of dispatchDiagnosis that are gone when it returns
Forget == plan' = <<>> /\ ran' = <<>> /\ told' = 0 /\ hint' = FALSE /\ quashed' = FALSE
          /\ wanted' = FALSE

\* the step ends with outcome st; ask is its approval row, or 0
EndStep(st, ask, stop) ==
    /\ ran' = Append(ran, [tool |-> Step.tool, id |-> Len(ran) + 1, st |-> st, ask |-> ask])
    /\ at' = IF stop \/ Len(ran) + 1 = Len(plan) THEN "finalize" ELSE "step"

ClaimDiagnosis ==
    /\ at = "queued" /\ pass < MaxPasses
    /\ pass' = pass + 1
    /\ at' = "planning"
    /\ UNCHANGED <<plan, ran, told, worldVars, asks, direct, shown, hint, quashed,
                   wanted, planFaults>>

\* A matching skill forces its plan, otherwise the planner makes one; an error
\* of the planner ends the event (its delivery policy allows one attempt)
PlanDiagnosis ==
    /\ at = "planning"
    /\ \/ \E p \in Plans : plan' = p /\ at' = "step"
       \/ plan' = <<>> /\ at' \in {"finalize", "dead"}
    /\ UNCHANGED <<pass, ran, told, worldVars, asks, direct, shown, hint, quashed, wanted,
                   planFaults>>

\* metrics and knowledge queries succeed or fail
QueryStep(tool) ==
    /\ at = "step" /\ Step.tool = tool
    /\ \E st \in {"completed", "failed"} : EndStep(st, 0, Stops(Step, st))
    /\ UNCHANGED <<pass, plan, told, worldVars, asks, direct, shown, hint, quashed,
                   wanted, planFaults>>

MetricsStep   == QueryStep("metrics")
KnowledgeStep == QueryStep("knowledge")

\* A host command is not run by the plan: the step is kept as planned
CommandStep ==
    /\ at = "step" /\ Step.tool = "command"
    /\ EndStep("planned", 0, FALSE)
    /\ UNCHANGED <<pass, plan, told, worldVars, asks, direct, shown, hint, quashed,
                   wanted, planFaults>>

\* InvokeCapability on behalf of the plan: the connector and the policy are read
InvokeStep(tool) ==
    /\ at = "step" /\ Step.tool = tool
    /\ LET c == Step.cap
           end(st) == EndStep(st, 0, Stops(Step, st))
       IN  \/ /\ c \in offline
              /\ end("failed")
              /\ UNCHANGED raced
           \/ /\ c \notin offline /\ EvaluateCapability(c) = "deny"
              /\ end("denied")
              /\ UNCHANGED raced
           \/ /\ c \notin offline /\ EvaluateCapability(c) = "direct_execute"
              /\ at' = "call" /\ raced' = FALSE
              /\ UNCHANGED ran
           \/ /\ c \notin offline /\ EvaluateCapability(c) = "require_approval"
              /\ at' = "ask"
              /\ UNCHANGED <<ran, raced>>
    /\ UNCHANGED <<pass, plan, told, barred, offline, routing, planEdits, asks, direct, shown,
                   hint, quashed, wanted, planFaults>>

\* the call, with the connector as it was read
CallStep ==
    /\ at = "call"
    /\ \E st \in {"completed", "failed"} : EndStep(st, 0, Stops(Step, st))
    /\ direct' = direct \cup {[cap |-> Step.cap, raced |-> raced,
                              barred |-> Step.cap \in Marketplace \cap barred]}
    /\ UNCHANGED <<pass, plan, told, worldVars, asks, shown, hint, quashed, wanted, planFaults>>

\* connector.invoke_capability, logs.query and observability.query, delivery.query
CapabilityStep == InvokeStep("capability")
LogsStep       == InvokeStep("logs")
DeliveryStep   == InvokeStep("delivery")

\* CreateCapabilityApproval; when it fails the step fails and the plan ends
CreateAsk ==
    /\ at = "ask"
    /\ \/ /\ Len(asks) < MaxAsks
          /\ asks' = Append(asks, [cap |-> Step.cap, step |-> Len(ran) + 1, pass |-> pass,
                                   st |-> "pending", notified |-> {}, live |-> FALSE,
                                   calls |-> 0])
          /\ told' = 0
          /\ at' = "tell"
          /\ UNCHANGED <<ran, planFaults>>
       \/ /\ planFaults < MaxPlanFaults \/ Len(asks) = MaxAsks
          /\ planFaults' = IF Len(asks) = MaxAsks THEN planFaults ELSE planFaults + 1
          /\ EndStep("failed", 0, TRUE)
          /\ UNCHANGED <<asks, told>>
    /\ UNCHANGED <<pass, plan, worldVars, direct, shown, hint, quashed, wanted>>

\* after the last message the step waits for its approval
Told(ask) == EndStep("pending_approval", ask, Stops(Step, "pending_approval"))

\* deliverToolPlanNotifications, one message: sent, else queued in the outbox;
\* when neither works the step fails although its row stays pending
TellNext_FirstOnly ==
    /\ at = "tell"
    /\ asks' = [asks EXCEPT ![Len(asks)].notified = @ \cup {ApprovalRoute[told + 1]}]
    /\ told' = told + 1
    /\ Told(Len(asks))
    /\ UNCHANGED <<pass, plan, worldVars, direct, shown, hint, quashed, wanted, planFaults>>

TellNext_AskAgain ==
    /\ at = "tell"
    /\ \/ /\ asks' = [asks EXCEPT ![Len(asks)].notified = @ \cup {ApprovalRoute[told + 1]}]
          /\ told' = told + 1
          /\ IF told' = Len(ApprovalRoute) THEN Told(Len(asks)) ELSE UNCHANGED <<at, ran>>
          /\ UNCHANGED planFaults
       \/ /\ planFaults < MaxPlanFaults
          /\ planFaults' = planFaults + 1
          /\ at' = "ask"
          /\ UNCHANGED <<asks, told, ran>>
    /\ UNCHANGED <<pass, plan, worldVars, direct, shown, hint, quashed, wanted>>

TellNext ==
    /\ at = "tell"
    /\ \/ /\ asks' = [asks EXCEPT ![Len(asks)].notified = @ \cup {ApprovalRoute[told + 1]}]
          /\ told' = told + 1
          /\ IF told' = Len(ApprovalRoute) THEN Told(Len(asks)) ELSE UNCHANGED <<at, ran>>
          /\ UNCHANGED planFaults
       \/ /\ planFaults < MaxPlanFaults
          /\ planFaults' = planFaults + 1
          /\ EndStep("failed", Len(asks), TRUE)
          /\ UNCHANGED <<asks, told>>
    /\ UNCHANGED <<pass, plan, worldVars, direct, shown, hint, quashed, wanted>>

\* FinalizeDiagnosis, and the command it proposes may be suppressed when the
\* tools already answered the request
FinalizeDiagnosis ==
    /\ at = "finalize"
    /\ \/ at' = "apply" /\ hint' = FALSE /\ UNCHANGED <<plan, ran, told, quashed, wanted>>
       \/ /\ at' = "apply" /\ hint' = TRUE
          /\ quashed' \in IF \E i \in DOMAIN ran : ran[i].tool # "command" THEN BOOLEAN ELSE {FALSE}
          /\ UNCHANGED <<plan, ran, told, wanted>>
       \/ at' = "dead" /\ Forget
    /\ UNCHANGED <<pass, worldVars, asks, direct, shown, planFaults>>

IsCommand(s) == s.tool = "command"
FinalPlan_Kept == ran

\* removeExecutionPlanSteps, appendOrReplaceExecutionPlanStep
FinalPlan ==
    IF quashed THEN Picked(ran, {i \in DOMAIN ran : ~IsCommand(ran[i])})
    ELSE IF hint /\ ~\E i \in DOMAIN ran : IsCommand(ran[i])
         THEN Append(ran, [tool |-> "command", id |-> 0, st |-> "planned", ask |-> 0])
         ELSE ran

\* ApplyDiagnosis: stores the plan, and takes the command of a planned step
\* when the diagnosis itself proposes none
ApplyDiagnosis ==
    /\ at = "apply"
    /\ \/ /\ shown' = FinalPlan
          /\ wanted' = ((hint /\ ~quashed) \/ \E i \in DOMAIN FinalPlan : IsCommand(FinalPlan[i]))
          /\ at' = "notify"
          /\ UNCHANGED <<plan, ran, told, hint, quashed, planFaults>>
       \/ /\ planFaults < MaxPlanFaults
          /\ planFaults' = planFaults + 1
          /\ at' = "dead" /\ Forget
          /\ UNCHANGED shown
    /\ UNCHANGED <<pass, worldVars, asks, direct>>

\* send or queue the notifications, run what the policy lets run, resolve
FinishDiagnosis ==
    /\ at = "notify"
    /\ at' \in {"done", "dead"} /\ Forget
    /\ UNCHANGED <<pass, worldVars, asks, direct, shown, planFaults>>

-----------------------------------------------------------------------------
(* Approvers, the timeout sweep and the handler that runs an approved      *)
(* capability.  The policy is not asked again (SkipAuthorization).         *)

Answer_Any(a, st) ==
    /\ asks[a].st \in {"pending", "executing"}
    /\ asks' = [asks EXCEPT ![a].st = st, ![a].live = (st = "executing")]

\* HandleChannelEvent (approve, reject) or SweepApprovalTimeouts; the request
\* that approves goes on to call the capability
Answer(a, st) ==
    /\ asks[a].st = "pending"
    /\ asks' = [asks EXCEPT ![a].st = st, ![a].live = (st = "executing")]

AnswerAsk(a) ==
    /\ at # "lost"
    /\ \E st \in {"executing", "rejected"} : Answer(a, st)
    /\ UNCHANGED <<at, pass, plan, ran, told, worldVars, direct, shown, hint, quashed,
                   wanted, planFaults>>

InvokeApproved_Retried(a) ==
    /\ asks[a].live /\ asks[a].cap \notin offline
    /\ asks' = [asks EXCEPT ![a].calls = @ + 1]
    /\ UNCHANGED <<at, pass, plan, ran, told, worldVars, direct, shown, hint, quashed,
                   wanted, planFaults>>

InvokeApproved(a) ==
    /\ asks[a].live /\ asks[a].calls = 0 /\ asks[a].cap \notin offline
    /\ asks' = [asks EXCEPT ![a].calls = @ + 1]
    /\ UNCHANGED <<at, pass, plan, ran, told, worldVars, direct, shown, hint, quashed,
                   wanted, planFaults>>

\* updateSessionToolPlanStep finds the step by its id in the stored plan, which
\* may be the plan of another pass
Mark_AllSteps(a, st) == [i \in DOMAIN shown |-> [shown[i] EXCEPT !.st = st]]

Mark(a, st) == [i \in DOMAIN shown |-> IF shown[i].id = asks[a].step
                                       THEN [shown[i] EXCEPT !.st = st] ELSE shown[i]]

\* HandleCapabilityResult; a result without output leaves the stored plan alone
CapabilityResult(a) ==
    /\ asks[a].live
    /\ \E st \in IF asks[a].calls = 1 THEN {"completed", "failed"}
                 ELSE IF asks[a].cap \in offline THEN {"failed"} ELSE {} :
          /\ asks' = [asks EXCEPT ![a].st = st, ![a].live = FALSE]
          /\ shown' \in IF st = "completed" THEN {shown, Mark(a, st)} ELSE {Mark(a, st)}
    /\ UNCHANGED <<at, pass, plan, ran, told, worldVars, direct, hint, quashed, wanted,
                   planFaults>>

-----------------------------------------------------------------------------
(* Administrators, crash and restart.                                      *)

EditPolicy ==
    /\ planEdits < MaxPlanEdits
    /\ planEdits' = planEdits + 1 /\ raced' = (at = "call")
    /\ \/ \E b \in SUBSET Marketplace \ {barred} : barred' = b /\ UNCHANGED offline
       \/ \E c \in Caps : offline' = (offline \cup {c}) \ (offline \cap {c}) /\ UNCHANGED barred
    /\ UNCHANGED <<at, pass, plan, ran, told, routing, asks, direct, shown, hint, quashed,
                   wanted, planFaults>>

\* The process dies.  A capability its request was about to call, or had
\* called, keeps its row "executing"
PlanCrash ==
    /\ at # "lost" /\ pass \in 1 .. MaxPasses - 1
    /\ at' = IF at \in {"queued", "done", "dead"} THEN at ELSE "lost"
    /\ asks' = [a \in DOMAIN asks |-> [asks[a] EXCEPT !.live = FALSE]]
    /\ Forget
    /\ UNCHANGED <<pass, worldVars, direct, shown, planFaults>>

\* RecoverPendingEvents puts the claimed event back
PlanRestart_NoRecovery == FALSE /\ UNCHANGED planVars

PlanRestart ==
    /\ at = "lost"
    /\ at' = "queued"
    /\ UNCHANGED <<pass, plan, ran, told, worldVars, asks, direct, shown, hint, quashed,
                   wanted, planFaults>>

\* An operator replays the event
ReplayDiagnosis ==
    /\ at \in {"done", "dead"} /\ pass < MaxPasses
    /\ at' = "queued"
    /\ UNCHANGED <<pass, plan, ran, told, worldVars, asks, direct, shown, hint, quashed,
                   wanted, planFaults>>

PlanWorker == ClaimDiagnosis \/ PlanDiagnosis \/ MetricsStep \/ KnowledgeStep \/ CommandStep
              \/ CapabilityStep \/ LogsStep \/ DeliveryStep \/ CallStep
              \/ CreateAsk \/ TellNext \/ FinalizeDiagnosis \/ ApplyDiagnosis \/ FinishDiagnosis

ToolPlanNext ==
    \/ PlanWorker
    \/ \E a \in DOMAIN asks : AnswerAsk(a) \/ InvokeApproved(a) \/ CapabilityResult(a)
    \/ EditPolicy \/ PlanCrash \/ PlanRestart \/ ReplayDiagnosis

\* the dispatcher's loop keeps running and a stopped server is started again;
\* every remote call has a timeout
ToolPlanFairness == WF_planVars(PlanWorker) /\ WF_planVars(PlanRestart)

ToolPlanSpec == ToolPlanInit /\ [][ToolPlanNext]_planVars /\ ToolPlanFairness

-----------------------------------------------------------------------------
(* Properties.                                                             *)

\* executeToolPlan: a capability that may change something is never called by the
\* plan itself, nor is one on the hard-deny list, unless it was put there between
\* the policy check and the call; however policy, connectors and passes interleave
PlanCallsAllowed == \A d \in direct : d.cap \in ReadOnly /\ (d.barred => d.raced)

\* InvokeApprovedCapability: a capability is called for a row only after its one
\* approval, and a row that was rejected or timed out is never called
AskedBeforeCalled == \A a \in DOMAIN asks : asks[a].st \in {"pending", "rejected"} => asks[a].calls = 0

\* executeToolPlan: no step runs after one whose outcome ends the plan, nor after
\* an approval request whose approvers could not all be told
StopRespected ==
    \A i \in 1 .. Len(ran) - 1 : /\ ran[i].st \notin plan[i].stopOn
                                 /\ ran[i].st = "failed" => ran[i].ask = 0

\* A step reported as waiting has its own row in execution_requests, and every
\* target of the route was sent the request or has it queued, although sends fail
WaitingStepsAsked ==
    \A i \in DOMAIN ran : ran[i].st = "pending_approval" =>
        /\ ran[i].ask \in DOMAIN asks
        /\ asks[ran[i].ask].step = i
        /\ asks[ran[i].ask].notified = ToSet(ApprovalRoute)

\* One pass asks once per step: a second row for a step comes from another pass
\* (a crash or a replay), never from a failed delivery
AskedOncePerPass ==
    \A a, b \in DOMAIN asks :
        asks[a].pass = asks[b].pass /\ asks[a].step = asks[b].step => a = b

\* shouldSuppressExecutionHint: a suppressed command does not come back through
\* the execution step of the plan (firstPlannedExecutionCommand)
SuppressedStaysOut == at = "notify" /\ quashed => ~wanted

\* The stored plan reports a capability that needs approval as completed only if
\* one was called for that step
ShownIsTrue ==
    \A i \in DOMAIN shown : shown[i].ask # 0 /\ shown[i].st = "completed" =>
        \E a \in DOMAIN asks : asks[a].step = shown[i].id /\ asks[a].calls = 1

\* Every diagnosis that is claimed ends, also when the process dies in the middle
DiagnosisEnds == pass > 0 /\ at \notin {"done", "dead"} ~> at \in {"done", "dead"}

\* No capability is called that policy or an approver had not cleared.
CallsCleared == PlanCallsAllowed /\ AskedBeforeCalled

\* The steps of a plan stop, wait, ask and show what they should, through repeated
\* passes, failed messages and late answers.
StepsSound == /\ ToolPlanTypeOK /\ StopRespected /\ WaitingStepsAsked /\ AskedOncePerPass
              /\ SuppressedStaysOut /\ ShownIsTrue
=============================================================================
