------------------------------ MODULE Workflow ------------------------------
(***************************************************************************)
(* The session workflow of the PostgreSQL store with everything that runs  *)
(* against it in one server process: the dispatcher that diagnoses a       *)
(* session and may execute at once, the HTTP and Telegram handlers that    *)
(* carry an operator's verdict and then execute inside the request, the    *)
(* approval-timeout sweep, operator replay, and the crash and restart of   *)
(* the process.  Each store method is one transaction, hence one step; the *)
(* calls to remote hosts in between are steps of their own.  The outbox is *)
(* reduced to the session.analyze_requested row of each session (module    *)
(* Outbox has the rest); chat messages are left out.                       *)
(***************************************************************************)
EXTENDS Naturals, FiniteSets

CONSTANTS
    Sessions,     \* identities of alert_sessions rows
    Execs,        \* identities of execution_requests rows
    Handlers,     \* concurrent approval requests (HTTP or Telegram)
    Dispatcher,   \* the dispatcher goroutine
    None,         \* no session, no execution
    FlagSets,     \* the feature-flag settings a start may load
    MaxReplays,   \* bound: operator replays in a behaviour
    MaxCrashes,   \* bound: crashes of the process
    MaxFaults     \* bound: database errors and cancelled requests

Features == {"diagnosis", "approval", "execution"}
Workers  == Handlers \cup {Dispatcher}

ASSUME WorkflowAssumption ==
    /\ None \notin Sessions \cup Execs
    /\ Dispatcher \notin Handlers
    /\ FlagSets \subseteq SUBSET Features
    /\ MaxReplays \in Nat /\ MaxCrashes \in Nat /\ MaxFaults \in Nat

SessionStatus == {"none", "open", "analyzing", "pending_approval", "executing",
                  "verifying", "resolved", "failed"}
ExecStatus    == {"none", "pending", "approved", "executing", "completed",
                  "failed", "timeout", "rejected"}
OutboxStatus  == {"none", "pending", "processing", "done", "failed", "blocked"}
Finished      == {"completed", "failed", "timeout"}
Holding       == {"run", "result", "verify"}
Actions       == {"approve", "modify_approve", "reject", "request_context"}

VARIABLES
    session,     \* Sessions -> alert_sessions.status ("none": no row)
    source,      \* Sessions -> does the session come from an alert or a chat
    analyze,     \* Sessions -> status of its session.analyze_requested row
    closed,      \* sessions whose session.closed row has been inserted
    xstatus,     \* Execs -> execution_requests.status ("none": no row)
    xsession,    \* Execs -> session_id
    xkind,       \* Execs -> request_kind
    approvedBy,  \* Execs -> who cleared it: "none" | "operator" | "policy"
    recorded,    \* Execs -> actions in execution_approvals
    runs,        \* history: Execs -> calls that ran it on its target
    up, flags,   \* is the process running, and with which features
    batch,       \* sessions whose claimed row waits in RunOnce's loop
    current,     \* session the dispatcher is diagnosing, or None
    pc, holds,   \* Workers -> where the goroutine is, the execution it works on
    replays, crashes, faults

sessionVars == <<session, source, analyze, closed>>
execVars    == <<xstatus, xsession, xkind, approvedBy, recorded>>
procVars    == <<up, flags, batch, current, pc, holds>>
bounds      == <<replays, crashes, faults>>
vars        == <<sessionVars, execVars, runs, procVars, bounds>>

TypeOK ==
    /\ session \in [Sessions -> SessionStatus]
    /\ source \in [Sessions -> {"alert", "chat"}]
    /\ analyze \in [Sessions -> OutboxStatus]
    /\ closed \in SUBSET Sessions
    /\ xstatus \in [Execs -> ExecStatus]
    /\ xsession \in [Execs -> Sessions \cup {None}]
    /\ xkind \in [Execs -> {"execution", "capability"}]
    /\ approvedBy \in [Execs -> {"none", "operator", "policy"}]
    /\ recorded \in [Execs -> SUBSET Actions]
    /\ runs \in [Execs -> Nat]
    /\ up \in BOOLEAN
    /\ flags \in SUBSET Features
    /\ batch \in SUBSET Sessions
    /\ current \in Sessions \cup {None}
    /\ pc \in [Workers -> Holding \cup {"idle", "plan", "ack", "fail"}]
    /\ holds \in [Workers -> Execs \cup {None}]
    /\ replays \in Nat /\ crashes \in Nat /\ faults \in Nat

Init ==
    /\ session = [s \in Sessions |-> "none"]
    /\ source = [s \in Sessions |-> "alert"]
    /\ analyze = [s \in Sessions |-> "none"]
    /\ closed = {}
    /\ xstatus = [x \in Execs |-> "none"]
    /\ xsession = [x \in Execs |-> None]
    /\ xkind = [x \in Execs |-> "execution"]
    /\ approvedBy = [x \in Execs |-> "none"]
    /\ recorded = [x \in Execs |-> {}]
    /\ runs = [x \in Execs |-> 0]
    /\ up = TRUE
    /\ flags \in FlagSets
    /\ batch = {}
    /\ current = None
    /\ pc = [w \in Workers |-> "idle"]
    /\ holds = [w \in Workers |-> None]
    /\ replays = 0 /\ crashes = 0 /\ faults = 0

\* worker w moves to label l, working on execution x (None: on no execution)
Goto(w, l, x) ==
    /\ pc' = [pc EXCEPT ![w] = l]
    /\ holds' = [holds EXCEPT ![w] = x]

At(w, labels) == up /\ pc[w] \in labels

\* where a worker goes when its execution is over: the dispatcher still has to
\* resolve its event, a handler answers its request
Done(w) == IF w = Dispatcher THEN "ack" ELSE "idle"

-----------------------------------------------------------------------------
(* Producers and operators.                                                *)

\* A first alert or chat request opens a session and queues its diagnosis.  (A
\* repeated one only appends to the timeline.)
HandleAlertEvent(s, src) ==
    /\ up /\ session[s] = "none"
    /\ source' = [source EXCEPT ![s] = src]
    /\ IF "diagnosis" \in flags
       THEN /\ session' = [session EXCEPT ![s] = "analyzing"]
            /\ analyze' = [analyze EXCEPT ![s] = "pending"]
       ELSE /\ session' = [session EXCEPT ![s] = "open"]
            /\ analyze' = [analyze EXCEPT ![s] = "blocked"]
    /\ UNCHANGED <<closed, execVars, runs, procVars, bounds>>

\* Operator replay: refused only for a blocked row whose feature is off
ReplayOutbox(s) ==
    /\ up /\ analyze[s] # "none"
    /\ analyze[s] = "blocked" => "diagnosis" \in flags
    /\ replays < MaxReplays
    /\ replays' = replays + 1
    /\ analyze' = [analyze EXCEPT ![s] = "pending"]
    /\ UNCHANGED <<session, source, closed, execVars, runs, procVars, crashes, faults>>

-----------------------------------------------------------------------------
(* The dispatcher: claim a batch, diagnose its sessions one after another. *)

ClaimEvents ==
    /\ At(Dispatcher, {"idle"}) /\ batch = {}
    /\ \E B \in SUBSET {s \in Sessions : analyze[s] = "pending"} :
        /\ B # {}
        /\ batch' = B
        /\ analyze' = [s \in Sessions |-> IF s \in B THEN "processing" ELSE analyze[s]]
    /\ UNCHANGED <<session, source, closed, execVars, runs, up, flags, current, pc, holds, bounds>>

BeginDiagnosis(s) ==
    /\ At(Dispatcher, {"idle"}) /\ s \in batch
    /\ batch' = batch \ {s}
    /\ current' = s
    /\ Goto(Dispatcher, "plan", None)
    /\ UNCHANGED <<sessionVars, execVars, runs, up, flags, bounds>>

\* a new execution_requests row for the session under diagnosis
InsertExecution(x, kind, st, by) ==
    /\ xstatus[x] = "none"
    /\ xstatus' = [xstatus EXCEPT ![x] = st]
    /\ xsession' = [xsession EXCEPT ![x] = current]
    /\ xkind' = [xkind EXCEPT ![x] = kind]
    /\ approvedBy' = [approvedBy EXCEPT ![x] = by]

\* executeToolPlan meets a capability that needs approval
CreateCapabilityApproval(x) ==
    /\ At(Dispatcher, {"plan"})
    /\ InsertExecution(x, "capability", "pending", "none")
    /\ session' = [session EXCEPT ![current] = "pending_approval"]
    /\ UNCHANGED <<source, analyze, closed, recorded, runs, procVars, bounds>>

\* PlanDiagnosis, FinalizeDiagnosis or the applying transaction returns an error
DiagnosisFails ==
    /\ At(Dispatcher, {"plan"})
    /\ Goto(Dispatcher, "fail", None)
    /\ UNCHANGED <<sessionVars, execVars, runs, up, flags, batch, current, bounds>>

\* ApplyDiagnosis, command allowed by policy: executed by the dispatcher itself
ApplyDirect(x) ==
    /\ At(Dispatcher, {"plan"})
    /\ {"diagnosis", "execution"} \subseteq flags
    /\ InsertExecution(x, "execution", "executing", "policy")
    /\ session' = [session EXCEPT ![current] = "executing"]
    /\ Goto(Dispatcher, "run", x)
    /\ UNCHANGED <<source, analyze, closed, recorded, runs, up, flags, batch, current, bounds>>

\* ApplyDiagnosis, command needs approval
ApplyApproval(x) ==
    /\ At(Dispatcher, {"plan"})
    /\ {"diagnosis", "approval"} \subseteq flags
    /\ InsertExecution(x, "execution", "pending", "none")
    /\ session' = [session EXCEPT ![current] = "pending_approval"]
    /\ Goto(Dispatcher, "ack", None)
    /\ UNCHANGED <<source, analyze, closed, recorded, runs, up, flags, batch, current, bounds>>

\* ApplyDiagnosis without an execution: no command, or one that policy or a flag
\* withholds; resolveChatWithoutExecution then closes a chat session
ApplyAnswer ==
    /\ At(Dispatcher, {"plan"})
    /\ IF source[current] = "chat"
       THEN /\ session' = [session EXCEPT ![current] = "resolved"]
            /\ closed' = closed \cup {current}
       ELSE /\ session' = [session EXCEPT ![current] = "open"]
            /\ UNCHANGED closed
    /\ Goto(Dispatcher, "ack", None)
    /\ UNCHANGED <<source, analyze, execVars, runs, up, flags, batch, current, bounds>>

\* ApplyDiagnosis with a command while diagnosis is off: only the summary is kept
ApplyDisabled ==
    /\ At(Dispatcher, {"plan"}) /\ "diagnosis" \notin flags
    /\ session' = [session EXCEPT ![current] = "open"]
    /\ Goto(Dispatcher, "ack", None)
    /\ UNCHANGED <<source, analyze, closed, execVars, runs, up, flags, batch, current, bounds>>

\* ResolveEvent, whatever the row's status is by now
ResolveEvent ==
    /\ At(Dispatcher, {"ack", "fail"})
    /\ analyze' = [analyze EXCEPT ![current] = IF pc[Dispatcher] = "ack" THEN "done" ELSE "failed"]
    /\ current' = None
    /\ Goto(Dispatcher, "idle", None)
    /\ UNCHANGED <<session, source, closed, execVars, runs, up, flags, batch, bounds>>

\* ResolveEvent returns an error: logged, the loop continues with the next row
ResolveFails ==
    /\ At(Dispatcher, {"ack", "fail"})
    /\ faults < MaxFaults
    /\ faults' = faults + 1
    /\ current' = None
    /\ Goto(Dispatcher, "idle", None)
    /\ UNCHANGED <<sessionVars, execVars, runs, up, flags, batch, replays, crashes>>

-----------------------------------------------------------------------------
(* An operator's verdict.                                                  *)

\* Mutant of Deciding: a request that already executes can be decided again
Deciding_Unchecked(h, x) == At(h, {"idle"}) /\ xstatus[x] \in {"pending", "executing"}

\* HandleChannelEvent up to its switch: the row is locked and still pending
Deciding(h, x) == At(h, {"idle"}) /\ xstatus[x] = "pending"

\* Mutant of Runnable: the feature flag is not consulted
Runnable_Always(x) == TRUE

\* Without the execution feature a command is only marked approved; a capability
\* is invoked all the same
Runnable(x) == xkind[x] = "capability" \/ "execution" \in flags

\* approve and modify_approve
Approve(h, x, a) ==
    /\ a \in {"approve", "modify_approve"} /\ Deciding(h, x)
    /\ approvedBy' = [approvedBy EXCEPT ![x] = "operator"]
    /\ recorded' = [recorded EXCEPT ![x] = @ \cup {a}]
    /\ IF Runnable(x)
       THEN /\ xstatus' = [xstatus EXCEPT ![x] = "executing"]
            /\ session' = [session EXCEPT ![xsession[x]] = "executing"]
            /\ Goto(h, "run", x)
       ELSE /\ xstatus' = [xstatus EXCEPT ![x] = "approved"]
            /\ session' = [session EXCEPT ![xsession[x]] = "open"]
            /\ UNCHANGED <<pc, holds>>
    /\ UNCHANGED <<source, analyze, closed, xsession, xkind, runs, up, flags, batch, current, bounds>>

\* reject; the handler only has a message left to send
Reject(h, x) ==
    /\ Deciding(h, x)
    /\ xstatus' = [xstatus EXCEPT ![x] = "rejected"]
    /\ recorded' = [recorded EXCEPT ![x] = @ \cup {"reject"}]
    /\ session' = [session EXCEPT ![xsession[x]] = "analyzing"]
    /\ UNCHANGED <<source, analyze, closed, xsession, xkind, approvedBy, runs, procVars, bounds>>

\* request_context: the request stays pending
RequestContext(h, x) ==
    /\ Deciding(h, x)
    /\ recorded' = [recorded EXCEPT ![x] = @ \cup {"request_context"}]
    /\ session' = [session EXCEPT ![xsession[x]] = "analyzing"]
    /\ UNCHANGED <<source, analyze, closed, xstatus, xsession, xkind, approvedBy, runs, procVars, bounds>>

\* Mutants of Expired: executions under way expire too; capabilities never do
Expired_AnyOpen(x)      == xstatus[x] \in {"pending", "executing"}
Expired_CommandsOnly(x) == xstatus[x] = "pending" /\ xkind[x] = "execution"

\* the sweep's WHERE clause; which of the pending requests are old enough, and
\* not locked by somebody else, is left open
Expired(x) == xstatus[x] = "pending"

\* Mutant of SweptSessions: the session is left as it is
SweptSessions_Kept(S) == session

\* updateSessionStatus for the session of every expired request
SweptSessions(S) ==
    [s \in Sessions |-> IF \E x \in S : xsession[x] = s THEN "open" ELSE session[s]]

\* The timeout worker rejects the expired requests it could lock, all in one
\* transaction
SweepApprovalTimeouts(S) ==
    /\ up /\ S # {}
    /\ \A x \in S : Expired(x)
    /\ xstatus' = [x \in Execs |-> IF x \in S THEN "rejected" ELSE xstatus[x]]
    /\ recorded' = [x \in Execs |-> IF x \in S THEN recorded[x] \cup {"reject"} ELSE recorded[x]]
    /\ session' = SweptSessions(S)
    /\ UNCHANGED <<source, analyze, closed, xsession, xkind, approvedBy, runs, procVars, bounds>>

-----------------------------------------------------------------------------
(* Execution, by the dispatcher (runImmediateExecution) or inside the      *)
(* request of an approval (processApprovalDispatch).                       *)

\* ExecuteApproved or InvokeApprovedCapability reaches out to the target
ExecuteApproved(w) ==
    /\ At(w, {"run"})
    /\ runs' = [runs EXCEPT ![holds[w]] = @ + 1]
    /\ pc' = [pc EXCEPT ![w] = "result"]
    /\ UNCHANGED <<sessionVars, execVars, up, flags, batch, current, holds, bounds>>

\* Mutants of RowResult: the session's status is written to the row; a timed-out
\* execution stays open
RowResult_Session(x, result)     == IF result = "completed" THEN "verifying" ELSE result
RowResult_TimeoutOpen(x, result) == IF result = "timeout" THEN xstatus[x] ELSE result

\* the status HandleExecutionResult gives the row: the one the result carries
RowResult(x, result) == result

\* HandleExecutionResult writes the result whatever the row's status is by now;
\* an error of ExecuteApproved arrives as the result "failed"
HandleExecutionResult(w, result) ==
    LET x == holds[w] IN
    /\ At(w, {"result"}) /\ xkind[x] = "execution"
    /\ xstatus' = [xstatus EXCEPT ![x] = RowResult(x, result)]
    /\ IF result = "completed"
       THEN /\ session' = [session EXCEPT ![xsession[x]] = "verifying"]
            /\ Goto(w, "verify", x)
       ELSE /\ session' = [session EXCEPT ![xsession[x]] = "failed"]
            /\ Goto(w, Done(w), None)
    /\ UNCHANGED <<source, analyze, closed, xsession, xkind, approvedBy, recorded, runs, up, flags, batch, current, bounds>>

\* HandleCapabilityResult; a capability is not verified
HandleCapabilityResult(w, result) ==
    LET x == holds[w] IN
    /\ At(w, {"result"}) /\ xkind[x] = "capability"
    /\ xstatus' = [xstatus EXCEPT ![x] = result]
    /\ session' = [session EXCEPT ![xsession[x]] = IF result = "completed" THEN "open" ELSE "failed"]
    /\ Goto(w, Done(w), None)
    /\ UNCHANGED <<source, analyze, closed, xsession, xkind, approvedBy, recorded, runs, up, flags, batch, current, bounds>>

\* HandleVerificationResult after VerifyExecution; for the dispatcher an error of
\* VerifyExecution is a failed verification
HandleVerificationResult(w, success) ==
    LET s == xsession[holds[w]] IN
    /\ At(w, {"verify"})
    /\ session' = [session EXCEPT ![s] = IF success THEN "resolved" ELSE "analyzing"]
    /\ closed' = IF success THEN closed \cup {s} ELSE closed
    /\ Goto(w, Done(w), None)
    /\ UNCHANGED <<source, analyze, execVars, runs, up, flags, batch, current, bounds>>

\* In an approval request an error of VerifyExecution ends the request
VerifyError(h) ==
    /\ At(h, {"verify"})
    /\ Goto(h, "idle", None)
    /\ UNCHANGED <<sessionVars, execVars, runs, up, flags, batch, current, bounds>>

\* A store call on the way fails, or the client of the request disconnects: the
\* request returns an error, the dispatcher gives its event up
GiveUp(w) ==
    /\ At(w, Holding \cup {"ack"})
    /\ faults < MaxFaults
    /\ faults' = faults + 1
    /\ Goto(w, IF w = Dispatcher THEN "fail" ELSE "idle", None)
    /\ UNCHANGED <<sessionVars, execVars, runs, up, flags, batch, current, replays, crashes>>

-----------------------------------------------------------------------------
(* Crash and start.                                                        *)

Crash ==
    /\ up /\ crashes < MaxCrashes
    /\ crashes' = crashes + 1
    /\ up' = FALSE
    /\ batch' = {}
    /\ current' = None
    /\ pc' = [w \in Workers |-> "idle"]
    /\ holds' = [w \in Workers |-> None]
    /\ UNCHANGED <<sessionVars, execVars, runs, flags, replays, faults>>

\* The process loads its flags; Dispatcher.Start requeues the processing rows.
\* Nothing looks at executions that were under way.
Start ==
    /\ ~up
    /\ up' = TRUE
    /\ flags' \in FlagSets
    /\ \/ /\ analyze' = [s \in Sessions |-> IF analyze[s] = "processing" THEN "pending" ELSE analyze[s]]
          /\ UNCHANGED faults
       \/ /\ faults < MaxFaults     \* the recovery fails: logged
          /\ faults' = faults + 1
          /\ UNCHANGED analyze
    /\ UNCHANGED <<session, source, closed, execVars, runs, batch, current, pc, holds, replays, crashes>>

-----------------------------------------------------------------------------
SessionStep(s) ==
    (\E src \in {"alert", "chat"} : HandleAlertEvent(s, src)) \/ ReplayOutbox(s) \/ BeginDiagnosis(s)

DiagnosisStep ==
    \/ ClaimEvents \/ DiagnosisFails \/ ApplyAnswer \/ ApplyDisabled \/ ResolveEvent \/ ResolveFails
    \/ \E x \in Execs : CreateCapabilityApproval(x) \/ ApplyDirect(x) \/ ApplyApproval(x)

VerdictStep(h, x) ==
    (\E a \in Actions : Approve(h, x, a)) \/ Reject(h, x) \/ RequestContext(h, x)

ResultStep(w) ==
    \/ \E r \in Finished : HandleExecutionResult(w, r)
    \/ \E r \in {"completed", "failed"} : HandleCapabilityResult(w, r)

VerifyStep(w) == \E b \in BOOLEAN : HandleVerificationResult(w, b)

Next ==
    \/ \E s \in Sessions : SessionStep(s)
    \/ DiagnosisStep
    \/ \E h \in Handlers, x \in Execs : VerdictStep(h, x)
    \/ \E S \in SUBSET Execs : SweepApprovalTimeouts(S)
    \/ \E w \in Workers : ExecuteApproved(w) \/ ResultStep(w) \/ VerifyStep(w) \/ GiveUp(w)
    \/ \E h \in Handlers : VerifyError(h)
    \/ Crash
    \/ Start

Spec == Init /\ [][Next]_vars

\* The goroutines keep running, the ticker of the timeout worker keeps firing and
\* every request expires, the supervisor restarts the process.  Nothing obliges
\* an operator or an alert source to act.
Fairness ==
    /\ WF_vars(Start)
    /\ WF_vars(ClaimEvents)
    /\ WF_vars(\E s \in Sessions : BeginDiagnosis(s))
    /\ WF_vars(ApplyAnswer)
    /\ WF_vars(ResolveEvent)
    /\ \A x \in Execs : WF_vars(\E S \in SUBSET Execs : x \in S /\ SweepApprovalTimeouts(S))
    /\ \A w \in Workers : WF_vars(ExecuteApproved(w)) /\ WF_vars(ResultStep(w)) /\ WF_vars(VerifyStep(w))

FairSpec == Spec /\ Fairness

-----------------------------------------------------------------------------
(* Properties.                                                             *)

\* No command or capability is ever run twice, whatever verdicts, sweeps,
\* replays, redeliveries, crashes and restarts interleave.
RunAtMostOnce == \A x \in Execs : runs[x] <= 1

\* What was run had been cleared: by the authorization policy or by an approval
\* on record, and it was never rejected, not even by a sweep that came later.
RunAuthorized ==
    \A x \in Execs : runs[x] > 0 =>
        /\ approvedBy[x] = "policy" \/ recorded[x] \cap {"approve", "modify_approve"} # {}
        /\ "reject" \notin recorded[x]

\* The approval record of a request never holds two conflicting verdicts.
VerdictsExclusive ==
    \A x \in Execs : Cardinality(recorded[x] \ {"request_context"}) <= 1

\* HandleExecutionResult does not look at the row it overwrites; it need not: a
\* worker about to write a result, or to start, finds its execution executing and
\* no other worker on it.
ResultExpected ==
    \A w \in Workers : pc[w] \in {"run", "result"} =>
        /\ xstatus[holds[w]] = "executing"
        /\ \A v \in Workers \ {w} : holds[v] # holds[w]

\* A session that waits for approval has a request somebody can decide, and a
\* session that executes has an execution under way (or cut off by a crash).
SessionBacked ==
    \A s \in Sessions :
        /\ session[s] = "pending_approval" => \E x \in Execs : xsession[x] = s /\ xstatus[x] = "pending"
        /\ session[s] = "executing" => \E x \in Execs : xsession[x] = s /\ xstatus[x] = "executing"

\* A command is run only by a process that has the execution feature on, also
\* when the feature was on when the command was approved.
RunNeedsFeature ==
    [][\A x \in Execs : runs'[x] > runs[x] /\ xkind[x] = "execution" => "execution" \in flags]_vars

\* The workflow implements the ApprovalGate: seen through this mapping of the
\* execution_requests rows, every step of every actor is a step of the gate.
gateOf == [x \in Execs |->
    CASE xstatus[x] = "none"     -> "absent"
      [] xstatus[x] = "pending"  -> "waiting"
      [] xstatus[x] = "rejected" -> "refused"
      [] xstatus[x] = "approved" -> "parked"
      [] xstatus[x] \in Finished -> "finished"
      [] OTHER -> IF runs[x] = 0 THEN "cleared" ELSE "started"]

Gate == INSTANCE ApprovalGate WITH Requests <- Execs, gate <- gateOf

GateImplemented == Gate!GateSpec

\* Every request is decided in the end, by an operator or by the timeout.
PendingDecided == \A x \in Execs : xstatus[x] = "pending" ~> xstatus[x] # "pending"

\* Without crashes and database errors, what was started is finished.
ExecutingFinishes == \A x \in Execs : xstatus[x] = "executing" ~> xstatus[x] \in Finished

\* No request is run twice, without a clearance, after a refusal or with
\* conflicting verdicts, and a result meets the status it was made for.
RunsSound == TypeOK /\ RunAtMostOnce /\ RunAuthorized /\ VerdictsExclusive /\ ResultExpected
=============================================================================
