----------------------------- MODULE CommandRun -----------------------------
(***************************************************************************)
(* One host command from the diagnosis that proposes it to its result: the *)
(* authorization policy and the agent role decide, an operator approves,   *)
(* perhaps after changing the command, and the action service runs it      *)
(* through the built-in SSH executor or through the execution connector    *)
(* selected at proposal time (native SSH with a stored credential, or a    *)
(* JumpServer job that lives on its own).  Policy, role and connector may  *)
(* be edited between any two steps.  Patterns are abstracted to the set of *)
(* commands they match; hosts and services match always.                   *)
(***************************************************************************)
EXTENDS Integers, Sequences

CONSTANTS
    Commands,      \* commands
    Channels,      \* where a session comes from
    Policies,      \* the authorization configurations administrators may save
    RunRoles,      \* the settings of the "diagnosis" agent role
    Candidates,    \* number of unit names VerifyExecution tries
    MaxCmdEdits,   \* bound: edits of policy, role or connector
    NoCommand

Actions == {"direct_execute", "require_approval", "suggest_only", "deny"}
Protocols == {"ssh", "ssh_native", "jumpserver_api"}

ASSUME CommandRunAssumption ==
    /\ NoCommand \notin Commands /\ Candidates \in Nat \ {0} /\ MaxCmdEdits \in Nat
    /\ \A p \in Policies :
          /\ {p.hard, p.white, p.black} \subseteq SUBSET Commands
          /\ {p.onWhite, p.onBlack, p.otherwise} \subseteq Actions
          /\ \A i \in DOMAIN p.overrides :
                /\ i \in Nat /\ p.overrides[i].globs \subseteq Commands
                /\ p.overrides[i].channels \subseteq Channels
                /\ p.overrides[i].action \in Actions
    /\ \A r \in RunRoles : r.hard \subseteq Commands /\ r.ask \subseteq Commands

VARIABLES
    policy, role,  \* in force
    connector,     \* protocol of the healthy execution connector, "ssh": none
    usable,        \* is that connector still enabled, with a usable credential
    req,           \* the execution request
    job,           \* the JumpServer job
    ranAs,         \* history: the commands started for it in order, and how
    cmdEdits

cmdVars == <<policy, role, connector, usable, req, job, ranAs, cmdEdits>>

\* status.value and is_success of a task; "ended" stands for is_finished with a
\* status value the code does not know
JobEndings == [status : {"success", "failed", "timeout", "canceled", "ended"}, ok : BOOLEAN]
JobStates == JobEndings \cup [status : {"none", "running"}, ok : {FALSE}]
NoJob == [status |-> "none", ok |-> FALSE]
NoRequest == [st |-> "none", cmd |-> NoCommand, proposed |-> NoCommand, clearedBy |-> "nobody",
              judged |-> "deny", capped |-> "deny", via |-> "ssh", result |-> "none",
              verified |-> "none"]

CmdTypeOK ==
    /\ policy \in Policies /\ role \in RunRoles
    /\ connector \in Protocols /\ usable \in BOOLEAN
    /\ req.st \in {"none", "advised", "pending", "rejected", "executing", "polling",
                   "result", "verifying", "unverified", "finished"}
    /\ req.cmd \in Commands \cup {NoCommand}
    /\ req.clearedBy \in {"nobody", "policy", "operator"}
    /\ req.judged \in Actions
    /\ req.via \in Protocols
    /\ req.result \in {"none", "completed", "failed", "timeout"}
    /\ req.verified \in {"none", "success", "failed", "skipped"}
    /\ job \in JobStates
    /\ ranAs \in Seq([cmd : Commands, via : Protocols, allowed : BOOLEAN])
    /\ cmdEdits \in 0..MaxCmdEdits

CmdInit ==
    /\ policy \in Policies /\ role \in RunRoles
    /\ connector \in Protocols /\ usable = TRUE
    /\ req = NoRequest /\ job = NoJob /\ ranAs = <<>> /\ cmdEdits = 0

-----------------------------------------------------------------------------
(* The authorization policy and the agent role.                            *)

\* an override without channels applies to every channel; the action service
\* asks without a channel, which no listed channel matches
Applies(o, c, ch) == c \in o.globs /\ (o.channels = {} \/ ch \in o.channels)

EvaluateSSHCommand_OverrideFirst(p, c, ch) ==
    LET hits == {i \in DOMAIN p.overrides : Applies(p.overrides[i], c, ch)}
    IN  IF hits # {} THEN p.overrides[CHOOSE i \in hits : \A j \in hits : i <= j].action
        ELSE IF c \in p.hard THEN "deny"
        ELSE IF c \in p.white THEN p.onWhite
        ELSE IF c \in p.black THEN p.onBlack ELSE p.otherwise

EvaluateSSHCommand(p, c, ch) ==
    LET hits == {i \in DOMAIN p.overrides : Applies(p.overrides[i], c, ch)}
    IN  IF c \in p.hard THEN "deny"
        ELSE IF hits # {} THEN p.overrides[CHOOSE i \in hits : \A j \in hits : i <= j].action
        ELSE IF c \in p.white THEN p.onWhite
        ELSE IF c \in p.black THEN p.onBlack ELSE p.otherwise

actionRank(a) == CASE a = "deny" -> 0 [] a = "suggest_only" -> 1
                   [] a = "direct_execute" -> 3 [] OTHER -> 2

EnforcePolicy_Replaced(r, a, c) ==
    IF c \in r.hard THEN "deny" ELSE IF r.maxAction = "" THEN a ELSE r.maxAction

EnforcePolicy(r, a, c) ==
    LET asked == IF c \in r.ask /\ actionRank(a) > actionRank("require_approval")
                 THEN "require_approval" ELSE a
    IN  IF c \in r.hard THEN "deny"
        ELSE IF r.maxAction # "" /\ actionRank(asked) > actionRank(r.maxAction)
             THEN r.maxAction ELSE asked

-----------------------------------------------------------------------------
(* Proposal and verdict.                                                   *)

\* resolveAuthorizationDecision and the branches of ApplyDiagnosis.  An action
\* the switch does not know leaves the session open without a request
Propose(c, ch) ==
    /\ req.st = "none"
    /\ LET judged == EvaluateSSHCommand(policy, c, ch)
           capped == EnforcePolicy(role, judged, c)
           st     == CASE capped = "direct_execute" -> "executing"
                       [] capped = "require_approval" -> "pending"
                       [] OTHER -> "advised"
       IN  req' = [NoRequest EXCEPT
                     !.st = st, !.cmd = c, !.proposed = c, !.via = connector,
                     !.clearedBy = IF st = "executing" THEN "policy" ELSE "nobody",
                     !.judged = judged, !.capped = capped]
    /\ UNCHANGED <<policy, role, connector, usable, job, ranAs, cmdEdits>>

\* approve, modify_approve with another command, reject or timeout
Decide ==
    /\ req.st = "pending"
    /\ \/ \E c \in Commands :
            req' = [req EXCEPT !.st = "executing", !.cmd = c, !.clearedBy = "operator"]
       \/ req' = [req EXCEPT !.st = "rejected"]
    /\ UNCHANGED <<policy, role, connector, usable, job, ranAs, cmdEdits>>

-----------------------------------------------------------------------------
(* Execution.                                                              *)

\* validateRequest: the policy in force now, without channel and without role
ValidateRequest_Trusting(c) == req.clearedBy = "operator" \/ c \notin policy.hard

ValidateRequest(c) ==
    EvaluateSSHCommand(policy, c, "no channel") \in {"direct_execute", "require_approval"}

\* the command on the request when the execution is handed over
Command_AsProposed == req.proposed

Command == req.cmd

Started(via) ==
    Append(ranAs, [cmd |-> Command, via |-> via,
                   allowed |-> EvaluateSSHCommand(policy, Command, "no channel")
                               \notin {"deny", "suggest_only"}])

\* the executor's answer: exit code 0, another one, or 124 and the deadline; a
\* failed connection becomes a failed result
Ended(r) == req' = [req EXCEPT !.st = "result", !.result = r]

\* no connector was selected: the built-in SSH executor
ExecuteBuiltin ==
    /\ req.st = "executing" /\ req.via = "ssh"
    /\ \/ ~ValidateRequest(Command) /\ Ended("failed") /\ UNCHANGED ranAs
       \/ /\ ValidateRequest(Command)
          /\ ranAs' = Started("ssh")
          /\ \E r \in {"completed", "failed", "timeout"} : Ended(r)
    /\ UNCHANGED <<policy, role, connector, usable, job, cmdEdits>>

\* the connector recorded on the request, with the credential it names; when
\* either is gone the request fails, without falling back
ExecuteNative ==
    /\ req.st = "executing" /\ req.via = "ssh_native"
    /\ \/ ~(usable /\ connector = req.via) /\ Ended("failed") /\ UNCHANGED ranAs
       \/ /\ usable /\ connector = req.via
          /\ ranAs' = Started(req.via)
          /\ \E r \in {"completed", "failed", "timeout"} : Ended(r)
    /\ UNCHANGED <<policy, role, connector, usable, job, cmdEdits>>

\* JumpServer: look the asset up and submit the job.  The submission may fail
\* before the job exists, or its answer may be lost after
SubmitJob_Again ==
    /\ req.st = "executing" /\ req.via = "jumpserver_api"
    /\ Len(ranAs) < 2
    /\ \/ Ended("failed") /\ UNCHANGED <<job, ranAs>>
       \/ /\ usable /\ connector = req.via
          /\ job' = [status |-> "running", ok |-> FALSE]
          /\ ranAs' = Started(req.via)
          /\ \/ req' = [req EXCEPT !.st = "polling"]
             \/ UNCHANGED req
    /\ UNCHANGED <<policy, role, connector, usable, cmdEdits>>

SubmitJob ==
    /\ req.st = "executing" /\ req.via = "jumpserver_api"
    /\ \/ Ended("failed") /\ UNCHANGED <<job, ranAs>>
       \/ /\ usable /\ connector = req.via
          /\ job' = [status |-> "running", ok |-> FALSE]
          /\ ranAs' = Started(req.via)
          /\ \/ req' = [req EXCEPT !.st = "polling"]
             \/ Ended("failed")
    /\ UNCHANGED <<policy, role, connector, usable, cmdEdits>>

\* mapJumpServerExecutionStatus
JobResult_Lenient(j) == IF j.status = "timeout" THEN "timeout" ELSE IF j.status = "failed" THEN "failed" ELSE "completed"

JobResult(j) ==
    CASE j.status = "success" -> "completed"
      [] j.status = "timeout" -> "timeout"
      [] j.status = "canceled" -> "failed"
      [] OTHER -> IF j.ok THEN "completed" ELSE "failed"

\* a poll that hears of the job's end, or gives up at its own deadline or on an
\* error although the job goes on
PollTask_Patient ==
    /\ req.st = "polling" /\ job.status # "running"
    /\ Ended(JobResult(job))
    /\ UNCHANGED <<policy, role, connector, usable, job, ranAs, cmdEdits>>

PollTask_Rerun ==
    /\ req.st = "polling"
    /\ \/ job.status # "running" /\ Ended(JobResult(job)) /\ UNCHANGED ranAs
       \/ Ended("completed") /\ ranAs' = Started("ssh")
    /\ UNCHANGED <<policy, role, connector, usable, job, cmdEdits>>

PollTask ==
    /\ req.st = "polling"
    /\ \/ job.status # "running" /\ Ended(JobResult(job))
       \/ Ended("failed")
    /\ UNCHANGED <<policy, role, connector, usable, job, ranAs, cmdEdits>>

\* the job itself, on the JumpServer
JobEnds ==
    /\ job.status = "running"
    /\ job' \in JobEndings
    /\ UNCHANGED <<policy, role, connector, usable, req, ranAs, cmdEdits>>

\* HandleExecutionResult: only a completed command is verified
HandleResult ==
    /\ req.st = "result"
    /\ req' = [req EXCEPT !.st = IF req.result = "completed" THEN "verifying" ELSE "finished"]
    /\ UNCHANGED <<policy, role, connector, usable, job, ranAs, cmdEdits>>

\* verification by the built-in executor: unit names are tried until one is
\* active; a timeout ends it
ProbeResult_Raw(answers) ==
    LET stops == {i \in DOMAIN answers : answers[i] # "inactive"}
    IN  IF stops = {} THEN "failed"
        ELSE answers[CHOOSE i \in stops : \A j \in stops : i <= j]

ProbeResult(answers) ==
    LET stops == {i \in DOMAIN answers : answers[i] # "inactive"}
    IN  IF stops = {} THEN "failed"
        ELSE IF answers[CHOOSE i \in stops : \A j \in stops : i <= j] = "active"
             THEN "success" ELSE "failed"

\* what a verification may answer: nothing when the connector is gone, no more than
\* a failure when the credential of native SSH is
Verdicts ==
    LET probed == {ProbeResult(p) : p \in [1..Candidates -> {"active", "inactive", "timeout"}]}
    IN  IF req.via = "ssh" \/ (usable /\ connector = req.via)
        THEN {"skipped", "failed"} \cup probed
        ELSE IF req.via = "ssh_native" /\ connector = req.via THEN {"skipped", "failed"} ELSE {}

\* the errors of VerifyExecution: no usable connector, or any request to the JumpServer
VerifyErrs == \/ req.via = "jumpserver_api"
              \/ req.via = "ssh_native" /\ ~(usable /\ connector = req.via)

\* an answer is stored.  An error becomes a failed verification in the dispatcher;
\* the handler of an approval returns it, and the session stays verifying
VerifyExecution ==
    /\ req.st = "verifying"
    /\ \/ \E v \in Verdicts : req' = [req EXCEPT !.st = "finished", !.verified = v]
       \/ /\ VerifyErrs
          /\ req' = IF req.clearedBy = "policy"
                    THEN [req EXCEPT !.st = "finished", !.verified = "failed"]
                    ELSE [req EXCEPT !.st = "unverified"]
    /\ UNCHANGED <<policy, role, connector, usable, job, ranAs, cmdEdits>>

-----------------------------------------------------------------------------
(* Administrators.                                                         *)

EditAuthorization ==
    /\ cmdEdits < MaxCmdEdits
    /\ cmdEdits' = cmdEdits + 1
    /\ \/ \E p \in Policies \ {policy} : policy' = p /\ UNCHANGED <<role, connector, usable>>
       \/ \E r \in RunRoles \ {role} : role' = r /\ UNCHANGED <<policy, connector, usable>>
       \/ usable' = ~usable /\ UNCHANGED <<policy, role, connector>>
       \/ \E k \in Protocols \ {connector} : connector' = k /\ UNCHANGED <<policy, role, usable>>
    /\ UNCHANGED <<req, job, ranAs>>

CmdWorker == ExecuteBuiltin \/ ExecuteNative \/ SubmitJob \/ PollTask \/ HandleResult
             \/ VerifyExecution

CmdNext ==
    \/ \E c \in Commands, ch \in Channels : Propose(c, ch)
    \/ Decide \/ CmdWorker \/ JobEnds \/ EditAuthorization

\* the request handler keeps going; nothing is assumed of the JumpServer
CmdFairness == WF_cmdVars(CmdWorker)

CmdSpec == CmdInit /\ [][CmdNext]_cmdVars /\ CmdFairness

-----------------------------------------------------------------------------
(* Properties.                                                             *)

\* ExecuteApproved: what the built-in executor starts is allowed by the policy in
\* force at that moment, whatever was approved, modified or saved before
BuiltinRunsAllowed ==
    \A i \in DOMAIN ranAs : ranAs[i].via = "ssh" => ranAs[i].allowed

\* EvaluateSSHCommand: a command of the hard-deny list of the policy in force is
\* denied for every channel, although an override or the whitelist names it too
HardDenyWins ==
    \A c \in policy.hard, ch \in Channels : EvaluateSSHCommand(policy, c, ch) = "deny"

\* EnforcePolicy: an agent role only tightens what the policy decided
RoleOnlyTightens == req.st # "none" => actionRank(req.capped) <= actionRank(req.judged)

\* A request is started at most once, although a job whose answer was lost or whose
\* poll timed out may still be running: a failed connector is not replaced by SSH
StartedOnce == Len(ranAs) <= 1

\* What runs is the command on the request: the proposed one when the policy cleared
\* it, the operator's when an operator did
RanWhatWasCleared ==
    \A i \in DOMAIN ranAs : /\ req.clearedBy # "nobody" /\ ranAs[i].cmd = req.cmd
                            /\ req.clearedBy = "policy" => ranAs[i].cmd = req.proposed

\* A result of a JumpServer execution that says completed stands for a job that ended,
\* was neither timed out nor canceled, and was reported a success
CompletedIsReal ==
    req.via = "jumpserver_api" /\ req.result = "completed"
        => /\ job \in JobEndings /\ job.status \notin {"timeout", "canceled"}
           /\ job.status = "success" \/ job.ok

\* A command being executed gets a result, although the job may never end, and its
\* session is closed; only a completed command an operator cleared, run by a connector,
\* may be left in verification, when VerifyExecution returns an error
ExecutionEnds ==
    req.st = "executing" ~>
        \/ req.st = "finished"
        \/ /\ req.st = "unverified" /\ req.result = "completed"
           /\ req.clearedBy = "operator" /\ req.via # "ssh"

\* A command runs at most once, as it was cleared by the policy and the role, and
\* what is reported of it did happen.
CommandSound == /\ CmdTypeOK /\ BuiltinRunsAllowed /\ HardDenyWins /\ RoleOnlyTightens
                /\ RanWhatWasCleared /\ StartedOnce /\ CompletedIsReal
=============================================================================
