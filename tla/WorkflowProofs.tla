--------------------------- MODULE WorkflowProofs ---------------------------
(***************************************************************************)
(* Proofs about Workflow for any sets of sessions, executions and          *)
(* handlers and any number of replays, crashes and faults.                 *)
(***************************************************************************)
EXTENDS Workflow, FiniteSetTheorems, TLAPS

-----------------------------------------------------------------------------
(* The inductive invariant.                                                *)

\* Who works on a row holds it, a session under diagnosis is known, and a row
\* belongs to a session.
Placed ==
    /\ pc[Dispatcher] # "idle" => current \in Sessions
    /\ \A w \in Workers : pc[w] \in Holding <=> holds[w] # None
    /\ \A x \in Execs : xstatus[x] # "none" => xsession[x] \in Sessions
    /\ ~up => \A w \in Workers : pc[w] = "idle"

\* No two goroutines work on one execution.
OneHolder == \A v, w \in Workers : v # w /\ holds[v] # None => holds[v] # holds[w]

\* Where a goroutine is tells the status of the row it works on.
Staged ==
    \A w \in Workers :
        /\ pc[w] \in {"run", "result"} => xstatus[holds[w]] = "executing"
        /\ pc[w] = "run" => runs[holds[w]] = 0
        /\ pc[w] = "result" => runs[holds[w]] = 1
        /\ pc[w] = "run" /\ xkind[holds[w]] = "execution" => "execution" \in flags
        /\ pc[w] = "verify" => xstatus[holds[w]] = "completed"

\* A row has been cleared: by policy, or by one approval on record.
Cleared(x) ==
    \/ approvedBy[x] = "policy" /\ recorded[x] = {}
    \/ \E a \in {"approve", "modify_approve"} :
        recorded[x] \in {{a}, {a, "request_context"}}

\* What a row's status tells about its runs and its approval record.
Ledger ==
    \A x \in Execs :
        /\ runs[x] \in {0, 1}
        /\ xstatus[x] \in {"none", "pending", "rejected", "approved"} => runs[x] = 0
        /\ xstatus[x] = "none" => recorded[x] = {}
        /\ xstatus[x] = "pending" => recorded[x] \in {{}, {"request_context"}}
        /\ xstatus[x] = "rejected" => recorded[x] \in {{"reject"}, {"reject", "request_context"}}
        /\ xstatus[x] \in {"approved", "executing"} \cup Finished => Cleared(x)

IInv == TypeOK /\ Placed /\ OneHolder /\ Staged /\ Ledger

-----------------------------------------------------------------------------
(* Every step preserves each part of it.                                   *)

\* The types.  A session or an execution a step writes to is one: Placed says so.
LEMMA TypeStep == IInv /\ [Next]_vars => TypeOK'
<1>. SUFFICES ASSUME IInv, [Next]_vars PROVE TypeOK'
  OBVIOUS
<1>. USE WorkflowAssumption DEF IInv, TypeOK, SessionStatus, ExecStatus, OutboxStatus, Finished, Holding, Actions, Features, Workers, Placed, Staged, sessionVars, execVars, procVars, bounds
<1>1. ASSUME NEW s \in Sessions, NEW src \in {"alert", "chat"}, HandleAlertEvent(s, src) PROVE TypeOK'
  BY <1>1 DEF HandleAlertEvent
<1>2. ASSUME NEW s \in Sessions, ReplayOutbox(s) PROVE TypeOK'
  BY <1>2 DEF ReplayOutbox
<1>3. ASSUME NEW s \in Sessions, BeginDiagnosis(s) PROVE TypeOK'
  BY <1>3 DEF BeginDiagnosis, At, Goto
<1>4. ASSUME ClaimEvents PROVE TypeOK'
  BY <1>4 DEF ClaimEvents, At
<1>5. ASSUME DiagnosisFails PROVE TypeOK'
  BY <1>5 DEF DiagnosisFails, At, Goto
<1>6. ASSUME ApplyAnswer PROVE TypeOK'
  BY <1>6 DEF ApplyAnswer, At, Goto
<1>7. ASSUME ApplyDisabled PROVE TypeOK'
  BY <1>7 DEF ApplyDisabled, At, Goto
<1>8. ASSUME ResolveEvent PROVE TypeOK'
  BY <1>8 DEF ResolveEvent, At, Goto
<1>9. ASSUME ResolveFails PROVE TypeOK'
  BY <1>9 DEF ResolveFails, At, Goto
<1>10. ASSUME NEW x \in Execs, CreateCapabilityApproval(x) PROVE TypeOK'
  BY <1>10 DEF CreateCapabilityApproval, At, InsertExecution
<1>11. ASSUME NEW x \in Execs, ApplyDirect(x) PROVE TypeOK'
  BY <1>11 DEF ApplyDirect, At, Goto, InsertExecution
<1>12. ASSUME NEW x \in Execs, ApplyApproval(x) PROVE TypeOK'
  BY <1>12 DEF ApplyApproval, At, Goto, InsertExecution
<1>13. ASSUME NEW h \in Handlers, NEW x \in Execs, NEW a \in Actions, Approve(h, x, a) PROVE TypeOK'
  BY <1>13 DEF Approve, At, Goto, Deciding, Runnable
<1>14. ASSUME NEW h \in Handlers, NEW x \in Execs, Reject(h, x) PROVE TypeOK'
  BY <1>14 DEF Reject, At, Deciding
<1>15. ASSUME NEW h \in Handlers, NEW x \in Execs, RequestContext(h, x) PROVE TypeOK'
  BY <1>15 DEF RequestContext, At, Deciding
<1>16. ASSUME NEW S \in SUBSET Execs, SweepApprovalTimeouts(S) PROVE TypeOK'
  BY <1>16 DEF SweepApprovalTimeouts, Expired, SweptSessions
<1>17. ASSUME NEW w \in Workers, ExecuteApproved(w) PROVE TypeOK'
  BY <1>17 DEF ExecuteApproved, At
<1>18. ASSUME NEW w \in Workers, NEW r \in Finished, HandleExecutionResult(w, r) PROVE TypeOK'
  BY <1>18 DEF HandleExecutionResult, At, Goto, Done, RowResult
<1>19. ASSUME NEW w \in Workers, NEW r \in {"completed", "failed"}, HandleCapabilityResult(w, r) PROVE TypeOK'
  BY <1>19 DEF HandleCapabilityResult, At, Goto, Done
<1>20. ASSUME NEW w \in Workers, NEW b \in BOOLEAN, HandleVerificationResult(w, b) PROVE TypeOK'
  BY <1>20 DEF HandleVerificationResult, At, Goto, Done
<1>21. ASSUME NEW w \in Workers, GiveUp(w) PROVE TypeOK'
  BY <1>21 DEF GiveUp, At, Goto
<1>22. ASSUME NEW h \in Handlers, VerifyError(h) PROVE TypeOK'
  BY <1>22 DEF VerifyError, At, Goto
<1>23. ASSUME Crash PROVE TypeOK'
  <2>1. up' \in BOOLEAN
    BY <1>23, Zenon DEF Crash
  <2>2. QED
    BY <1>23, <2>1 DEF Crash
<1>24. ASSUME Start PROVE TypeOK'
  BY <1>24 DEF Start
<1>25. CASE UNCHANGED vars
  BY <1>25 DEF vars
<1>. HIDE WorkflowAssumption DEF IInv, TypeOK, SessionStatus, ExecStatus, OutboxStatus, Finished, Holding, Actions, Features, Workers, Placed, Staged, sessionVars, execVars, procVars, bounds
<1>26. QED
  BY <1>1, <1>2, <1>3, <1>4, <1>5, <1>6, <1>7, <1>8, <1>9, <1>10, <1>11, <1>12, <1>13, <1>14, <1>15, <1>16, <1>17, <1>18, <1>19, <1>20, <1>21, <1>22, <1>23, <1>24, <1>25 DEF Next, SessionStep, DiagnosisStep, VerdictStep, ResultStep, VerifyStep

\* A goroutine takes up an execution and lets go of it together with its label.
LEMMA PlacedStep == IInv /\ [Next]_vars => Placed'
<1>. SUFFICES ASSUME IInv, [Next]_vars PROVE Placed'
  OBVIOUS
<1>. USE WorkflowAssumption DEF IInv, TypeOK, SessionStatus, ExecStatus, OutboxStatus, Finished, Holding, Actions, Features, Workers, Placed, Staged, sessionVars, execVars, procVars, bounds
<1>1. ASSUME NEW s \in Sessions, NEW src \in {"alert", "chat"}, HandleAlertEvent(s, src) PROVE Placed'
  BY <1>1 DEF HandleAlertEvent
<1>2. ASSUME NEW s \in Sessions, ReplayOutbox(s) PROVE Placed'
  BY <1>2 DEF ReplayOutbox
<1>3. ASSUME NEW s \in Sessions, BeginDiagnosis(s) PROVE Placed'
  BY <1>3 DEF BeginDiagnosis, At, Goto
<1>4. ASSUME ClaimEvents PROVE Placed'
  BY <1>4 DEF ClaimEvents, At
<1>5. ASSUME DiagnosisFails PROVE Placed'
  BY <1>5 DEF DiagnosisFails, At, Goto
<1>6. ASSUME ApplyAnswer PROVE Placed'
  BY <1>6 DEF ApplyAnswer, At, Goto
<1>7. ASSUME ApplyDisabled PROVE Placed'
  BY <1>7 DEF ApplyDisabled, At, Goto
<1>8. ASSUME ResolveEvent PROVE Placed'
  BY <1>8 DEF ResolveEvent, At, Goto
<1>9. ASSUME ResolveFails PROVE Placed'
  BY <1>9 DEF ResolveFails, At, Goto
<1>10. ASSUME NEW x \in Execs, CreateCapabilityApproval(x) PROVE Placed'
  BY <1>10 DEF CreateCapabilityApproval, At, InsertExecution
<1>11. ASSUME NEW x \in Execs, ApplyDirect(x) PROVE Placed'
  BY <1>11 DEF ApplyDirect, At, Goto, InsertExecution
<1>12. ASSUME NEW x \in Execs, ApplyApproval(x) PROVE Placed'
  BY <1>12 DEF ApplyApproval, At, Goto, InsertExecution
<1>13. ASSUME NEW h \in Handlers, NEW x \in Execs, NEW a \in Actions, Approve(h, x, a) PROVE Placed'
  BY <1>13 DEF Approve, At, Goto, Deciding, Runnable
<1>14. ASSUME NEW h \in Handlers, NEW x \in Execs, Reject(h, x) PROVE Placed'
  BY <1>14 DEF Reject, At, Deciding
<1>15. ASSUME NEW h \in Handlers, NEW x \in Execs, RequestContext(h, x) PROVE Placed'
  BY <1>15 DEF RequestContext, At, Deciding
<1>16. ASSUME NEW S \in SUBSET Execs, SweepApprovalTimeouts(S) PROVE Placed'
  BY <1>16 DEF SweepApprovalTimeouts, Expired, SweptSessions
<1>17. ASSUME NEW w \in Workers, ExecuteApproved(w) PROVE Placed'
  BY <1>17 DEF ExecuteApproved, At
<1>18. ASSUME NEW w \in Workers, NEW r \in Finished, HandleExecutionResult(w, r) PROVE Placed'
  BY <1>18 DEF HandleExecutionResult, At, Goto, Done, RowResult
<1>19. ASSUME NEW w \in Workers, NEW r \in {"completed", "failed"}, HandleCapabilityResult(w, r) PROVE Placed'
  BY <1>19 DEF HandleCapabilityResult, At, Goto, Done
<1>20. ASSUME NEW w \in Workers, NEW b \in BOOLEAN, HandleVerificationResult(w, b) PROVE Placed'
  BY <1>20 DEF HandleVerificationResult, At, Goto, Done
<1>21. ASSUME NEW w \in Workers, GiveUp(w) PROVE Placed'
  BY <1>21 DEF GiveUp, At, Goto
<1>22. ASSUME NEW h \in Handlers, VerifyError(h) PROVE Placed'
  BY <1>22 DEF VerifyError, At, Goto
<1>23. ASSUME Crash PROVE Placed'
  BY <1>23 DEF Crash
<1>24. ASSUME Start PROVE Placed'
  BY <1>24 DEF Start
<1>25. CASE UNCHANGED vars
  BY <1>25 DEF vars
<1>. HIDE WorkflowAssumption DEF IInv, TypeOK, SessionStatus, ExecStatus, OutboxStatus, Finished, Holding, Actions, Features, Workers, Placed, Staged, sessionVars, execVars, procVars, bounds
<1>26. QED
  BY <1>1, <1>2, <1>3, <1>4, <1>5, <1>6, <1>7, <1>8, <1>9, <1>10, <1>11, <1>12, <1>13, <1>14, <1>15, <1>16, <1>17, <1>18, <1>19, <1>20, <1>21, <1>22, <1>23, <1>24, <1>25 DEF Next, SessionStep, DiagnosisStep, VerdictStep, ResultStep, VerifyStep

\* A worker takes up only what is new or pending, and nobody holds such a row.
LEMMA HolderStep == IInv /\ [Next]_vars => OneHolder'
<1>. SUFFICES ASSUME IInv, [Next]_vars PROVE OneHolder'
  OBVIOUS
<1>. USE WorkflowAssumption DEF IInv, TypeOK, SessionStatus, ExecStatus, OutboxStatus, Finished, Holding, Actions, Features, Workers, Placed, Staged, OneHolder, sessionVars, execVars, procVars, bounds
<1>1. ASSUME NEW s \in Sessions, NEW src \in {"alert", "chat"}, HandleAlertEvent(s, src) PROVE OneHolder'
  BY <1>1 DEF HandleAlertEvent
<1>2. ASSUME NEW s \in Sessions, ReplayOutbox(s) PROVE OneHolder'
  BY <1>2 DEF ReplayOutbox
<1>3. ASSUME NEW s \in Sessions, BeginDiagnosis(s) PROVE OneHolder'
  BY <1>3 DEF BeginDiagnosis, At, Goto
<1>4. ASSUME ClaimEvents PROVE OneHolder'
  BY <1>4 DEF ClaimEvents, At
<1>5. ASSUME DiagnosisFails PROVE OneHolder'
  BY <1>5 DEF DiagnosisFails, At, Goto
<1>6. ASSUME ApplyAnswer PROVE OneHolder'
  BY <1>6 DEF ApplyAnswer, At, Goto
<1>7. ASSUME ApplyDisabled PROVE OneHolder'
  BY <1>7 DEF ApplyDisabled, At, Goto
<1>8. ASSUME ResolveEvent PROVE OneHolder'
  BY <1>8 DEF ResolveEvent, At, Goto
<1>9. ASSUME ResolveFails PROVE OneHolder'
  BY <1>9 DEF ResolveFails, At, Goto
<1>10. ASSUME NEW x \in Execs, CreateCapabilityApproval(x) PROVE OneHolder'
  BY <1>10 DEF CreateCapabilityApproval, At, InsertExecution
<1>11. ASSUME NEW x \in Execs, ApplyDirect(x) PROVE OneHolder'
  BY <1>11 DEF ApplyDirect, At, Goto, InsertExecution
<1>12. ASSUME NEW x \in Execs, ApplyApproval(x) PROVE OneHolder'
  BY <1>12 DEF ApplyApproval, At, Goto, InsertExecution
<1>13. ASSUME NEW h \in Handlers, NEW x \in Execs, NEW a \in Actions, Approve(h, x, a) PROVE OneHolder'
  BY <1>13 DEF Approve, At, Goto, Deciding, Runnable
<1>14. ASSUME NEW h \in Handlers, NEW x \in Execs, Reject(h, x) PROVE OneHolder'
  BY <1>14 DEF Reject, At, Deciding
<1>15. ASSUME NEW h \in Handlers, NEW x \in Execs, RequestContext(h, x) PROVE OneHolder'
  BY <1>15 DEF RequestContext, At, Deciding
<1>16. ASSUME NEW S \in SUBSET Execs, SweepApprovalTimeouts(S) PROVE OneHolder'
  BY <1>16 DEF SweepApprovalTimeouts, Expired, SweptSessions
<1>17. ASSUME NEW w \in Workers, ExecuteApproved(w) PROVE OneHolder'
  BY <1>17 DEF ExecuteApproved, At
<1>18. ASSUME NEW w \in Workers, NEW r \in Finished, HandleExecutionResult(w, r) PROVE OneHolder'
  BY <1>18 DEF HandleExecutionResult, At, Goto, Done, RowResult
<1>19. ASSUME NEW w \in Workers, NEW r \in {"completed", "failed"}, HandleCapabilityResult(w, r) PROVE OneHolder'
  BY <1>19 DEF HandleCapabilityResult, At, Goto, Done
<1>20. ASSUME NEW w \in Workers, NEW b \in BOOLEAN, HandleVerificationResult(w, b) PROVE OneHolder'
  BY <1>20 DEF HandleVerificationResult, At, Goto, Done
<1>21. ASSUME NEW w \in Workers, GiveUp(w) PROVE OneHolder'
  BY <1>21 DEF GiveUp, At, Goto
<1>22. ASSUME NEW h \in Handlers, VerifyError(h) PROVE OneHolder'
  BY <1>22 DEF VerifyError, At, Goto
<1>23. ASSUME Crash PROVE OneHolder'
  BY <1>23 DEF Crash
<1>24. ASSUME Start PROVE OneHolder'
  BY <1>24 DEF Start
<1>25. CASE UNCHANGED vars
  BY <1>25 DEF vars
<1>. HIDE WorkflowAssumption DEF IInv, TypeOK, SessionStatus, ExecStatus, OutboxStatus, Finished, Holding, Actions, Features, Workers, Placed, Staged, OneHolder, sessionVars, execVars, procVars, bounds
<1>26. QED
  BY <1>1, <1>2, <1>3, <1>4, <1>5, <1>6, <1>7, <1>8, <1>9, <1>10, <1>11, <1>12, <1>13, <1>14, <1>15, <1>16, <1>17, <1>18, <1>19, <1>20, <1>21, <1>22, <1>23, <1>24, <1>25 DEF Next, SessionStep, DiagnosisStep, VerdictStep, ResultStep, VerifyStep

\* Nobody but its holder changes a row that executes; flags change only when
\* nobody holds anything.
LEMMA StagedStep == IInv /\ [Next]_vars => Staged'
<1>. SUFFICES ASSUME IInv, [Next]_vars PROVE Staged'
  OBVIOUS
<1>. USE WorkflowAssumption DEF IInv, TypeOK, SessionStatus, ExecStatus, OutboxStatus, Finished, Holding, Actions, Features, Workers, Placed, Staged, OneHolder, Ledger, sessionVars, execVars, procVars, bounds
<1>1. ASSUME NEW s \in Sessions, NEW src \in {"alert", "chat"}, HandleAlertEvent(s, src) PROVE Staged'
  BY <1>1 DEF HandleAlertEvent
<1>2. ASSUME NEW s \in Sessions, ReplayOutbox(s) PROVE Staged'
  BY <1>2 DEF ReplayOutbox
<1>3. ASSUME NEW s \in Sessions, BeginDiagnosis(s) PROVE Staged'
  BY <1>3 DEF BeginDiagnosis, At, Goto
<1>4. ASSUME ClaimEvents PROVE Staged'
  BY <1>4 DEF ClaimEvents, At
<1>5. ASSUME DiagnosisFails PROVE Staged'
  BY <1>5 DEF DiagnosisFails, At, Goto
<1>6. ASSUME ApplyAnswer PROVE Staged'
  BY <1>6 DEF ApplyAnswer, At, Goto
<1>7. ASSUME ApplyDisabled PROVE Staged'
  BY <1>7 DEF ApplyDisabled, At, Goto
<1>8. ASSUME ResolveEvent PROVE Staged'
  BY <1>8 DEF ResolveEvent, At, Goto
<1>9. ASSUME ResolveFails PROVE Staged'
  BY <1>9 DEF ResolveFails, At, Goto
<1>10. ASSUME NEW x \in Execs, CreateCapabilityApproval(x) PROVE Staged'
  BY <1>10 DEF CreateCapabilityApproval, At, InsertExecution
<1>11. ASSUME NEW x \in Execs, ApplyDirect(x) PROVE Staged'
  BY <1>11 DEF ApplyDirect, At, Goto, InsertExecution
<1>12. ASSUME NEW x \in Execs, ApplyApproval(x) PROVE Staged'
  BY <1>12 DEF ApplyApproval, At, Goto, InsertExecution
<1>13. ASSUME NEW h \in Handlers, NEW x \in Execs, NEW a \in Actions, Approve(h, x, a) PROVE Staged'
  BY <1>13 DEF Approve, At, Goto, Deciding, Runnable
<1>14. ASSUME NEW h \in Handlers, NEW x \in Execs, Reject(h, x) PROVE Staged'
  BY <1>14 DEF Reject, At, Deciding
<1>15. ASSUME NEW h \in Handlers, NEW x \in Execs, RequestContext(h, x) PROVE Staged'
  BY <1>15 DEF RequestContext, At, Deciding
<1>16. ASSUME NEW S \in SUBSET Execs, SweepApprovalTimeouts(S) PROVE Staged'
  BY <1>16 DEF SweepApprovalTimeouts, Expired, SweptSessions
<1>17. ASSUME NEW w \in Workers, ExecuteApproved(w) PROVE Staged'
  BY <1>17 DEF ExecuteApproved, At
<1>18. ASSUME NEW w \in Workers, NEW r \in Finished, HandleExecutionResult(w, r) PROVE Staged'
  BY <1>18 DEF HandleExecutionResult, At, Goto, Done, RowResult
<1>19. ASSUME NEW w \in Workers, NEW r \in {"completed", "failed"}, HandleCapabilityResult(w, r) PROVE Staged'
  BY <1>19 DEF HandleCapabilityResult, At, Goto, Done
<1>20. ASSUME NEW w \in Workers, NEW b \in BOOLEAN, HandleVerificationResult(w, b) PROVE Staged'
  BY <1>20 DEF HandleVerificationResult, At, Goto, Done
<1>21. ASSUME NEW w \in Workers, GiveUp(w) PROVE Staged'
  BY <1>21 DEF GiveUp, At, Goto
<1>22. ASSUME NEW h \in Handlers, VerifyError(h) PROVE Staged'
  BY <1>22 DEF VerifyError, At, Goto
<1>23. ASSUME Crash PROVE Staged'
  BY <1>23 DEF Crash
<1>24. ASSUME Start PROVE Staged'
  BY <1>24 DEF Start
<1>25. CASE UNCHANGED vars
  BY <1>25 DEF vars
<1>. HIDE WorkflowAssumption DEF IInv, TypeOK, SessionStatus, ExecStatus, OutboxStatus, Finished, Holding, Actions, Features, Workers, Placed, Staged, OneHolder, Ledger, sessionVars, execVars, procVars, bounds
<1>26. QED
  BY <1>1, <1>2, <1>3, <1>4, <1>5, <1>6, <1>7, <1>8, <1>9, <1>10, <1>11, <1>12, <1>13, <1>14, <1>15, <1>16, <1>17, <1>18, <1>19, <1>20, <1>21, <1>22, <1>23, <1>24, <1>25 DEF Next, SessionStep, DiagnosisStep, VerdictStep, ResultStep, VerifyStep

\* Each verdict, sweep, run and result keeps status, runs and record in step.
LEMMA LedgerStep == IInv /\ [Next]_vars => Ledger'
<1>. SUFFICES ASSUME IInv, [Next]_vars PROVE Ledger'
  OBVIOUS
<1>. USE WorkflowAssumption DEF IInv, TypeOK, SessionStatus, ExecStatus, OutboxStatus, Finished, Holding, Actions, Features, Workers, Placed, Staged, Ledger, Cleared, sessionVars, execVars, procVars, bounds
<1>1. ASSUME NEW s \in Sessions, NEW src \in {"alert", "chat"}, HandleAlertEvent(s, src) PROVE Ledger'
  BY <1>1 DEF HandleAlertEvent
<1>2. ASSUME NEW s \in Sessions, ReplayOutbox(s) PROVE Ledger'
  BY <1>2 DEF ReplayOutbox
<1>3. ASSUME NEW s \in Sessions, BeginDiagnosis(s) PROVE Ledger'
  BY <1>3 DEF BeginDiagnosis, At, Goto
<1>4. ASSUME ClaimEvents PROVE Ledger'
  BY <1>4 DEF ClaimEvents, At
<1>5. ASSUME DiagnosisFails PROVE Ledger'
  BY <1>5 DEF DiagnosisFails, At, Goto
<1>6. ASSUME ApplyAnswer PROVE Ledger'
  BY <1>6 DEF ApplyAnswer, At, Goto
<1>7. ASSUME ApplyDisabled PROVE Ledger'
  BY <1>7 DEF ApplyDisabled, At, Goto
<1>8. ASSUME ResolveEvent PROVE Ledger'
  BY <1>8 DEF ResolveEvent, At, Goto
<1>9. ASSUME ResolveFails PROVE Ledger'
  BY <1>9 DEF ResolveFails, At, Goto
<1>10. ASSUME NEW x \in Execs, CreateCapabilityApproval(x) PROVE Ledger'
  BY <1>10 DEF CreateCapabilityApproval, At, InsertExecution
<1>11. ASSUME NEW x \in Execs, ApplyDirect(x) PROVE Ledger'
  BY <1>11 DEF ApplyDirect, At, Goto, InsertExecution
<1>12. ASSUME NEW x \in Execs, ApplyApproval(x) PROVE Ledger'
  BY <1>12 DEF ApplyApproval, At, Goto, InsertExecution
<1>13. ASSUME NEW h \in Handlers, NEW x \in Execs, NEW a \in Actions, Approve(h, x, a) PROVE Ledger'
  BY <1>13 DEF Approve, At, Goto, Deciding, Runnable
<1>14. ASSUME NEW h \in Handlers, NEW x \in Execs, Reject(h, x) PROVE Ledger'
  BY <1>14 DEF Reject, At, Deciding
<1>15. ASSUME NEW h \in Handlers, NEW x \in Execs, RequestContext(h, x) PROVE Ledger'
  BY <1>15 DEF RequestContext, At, Deciding
<1>16. ASSUME NEW S \in SUBSET Execs, SweepApprovalTimeouts(S) PROVE Ledger'
  BY <1>16 DEF SweepApprovalTimeouts, Expired, SweptSessions
<1>17. ASSUME NEW w \in Workers, ExecuteApproved(w) PROVE Ledger'
  BY <1>17 DEF ExecuteApproved, At
<1>18. ASSUME NEW w \in Workers, NEW r \in Finished, HandleExecutionResult(w, r) PROVE Ledger'
  BY <1>18 DEF HandleExecutionResult, At, Goto, Done, RowResult
<1>19. ASSUME NEW w \in Workers, NEW r \in {"completed", "failed"}, HandleCapabilityResult(w, r) PROVE Ledger'
  BY <1>19 DEF HandleCapabilityResult, At, Goto, Done
<1>20. ASSUME NEW w \in Workers, NEW b \in BOOLEAN, HandleVerificationResult(w, b) PROVE Ledger'
  BY <1>20 DEF HandleVerificationResult, At, Goto, Done
<1>21. ASSUME NEW w \in Workers, GiveUp(w) PROVE Ledger'
  BY <1>21 DEF GiveUp, At, Goto
<1>22. ASSUME NEW h \in Handlers, VerifyError(h) PROVE Ledger'
  BY <1>22 DEF VerifyError, At, Goto
<1>23. ASSUME Crash PROVE Ledger'
  BY <1>23 DEF Crash
<1>24. ASSUME Start PROVE Ledger'
  BY <1>24 DEF Start
<1>25. CASE UNCHANGED vars
  BY <1>25 DEF vars
<1>. HIDE WorkflowAssumption DEF IInv, TypeOK, SessionStatus, ExecStatus, OutboxStatus, Finished, Holding, Actions, Features, Workers, Placed, Staged, Ledger, Cleared, sessionVars, execVars, procVars, bounds
<1>26. QED
  BY <1>1, <1>2, <1>3, <1>4, <1>5, <1>6, <1>7, <1>8, <1>9, <1>10, <1>11, <1>12, <1>13, <1>14, <1>15, <1>16, <1>17, <1>18, <1>19, <1>20, <1>21, <1>22, <1>23, <1>24, <1>25 DEF Next, SessionStep, DiagnosisStep, VerdictStep, ResultStep, VerifyStep

LEMMA InvInit == Init => IInv
  BY WorkflowAssumption DEF Init, IInv, TypeOK, Placed, OneHolder, Staged, Ledger,
     SessionStatus, ExecStatus, OutboxStatus, Finished, Holding, Actions, Features, Workers

\* The invariant holds in every reachable state.
THEOREM Invariance == Spec => []IInv
<1>1. IInv /\ [Next]_vars => IInv'
  BY TypeStep, PlacedStep, HolderStep, StagedStep, LedgerStep DEF IInv
<1>2. QED
  BY InvInit, <1>1, PTL DEF Spec

-----------------------------------------------------------------------------
(* What follows from it.                                                   *)

\* Every reachable state of the workflow is well typed.
THEOREM TypeCorrect == Spec => []TypeOK
<1>1. IInv => TypeOK
  BY DEF IInv
<1>2. QED
  BY Invariance, <1>1, PTL

\* No command or capability is run twice: a run is counted only at the label
\* "run", where the row executes, has not been run and has a single holder.
THEOREM NoSecondRun == Spec => []RunAtMostOnce
<1>1. IInv => RunAtMostOnce
  BY DEF IInv, Ledger, RunAtMostOnce
<1>2. QED
  BY Invariance, <1>1, PTL

\* What was run had been cleared and is never refused.
THEOREM RunsAuthorized == Spec => []RunAuthorized
<1>1. IInv => RunAuthorized
  <2>. SUFFICES ASSUME IInv, NEW x \in Execs, runs[x] > 0
                PROVE  /\ approvedBy[x] = "policy" \/ recorded[x] \cap {"approve", "modify_approve"} # {}
                       /\ "reject" \notin recorded[x]
    BY DEF RunAuthorized
  <2>1. Cleared(x)
    BY DEF IInv, TypeOK, Ledger, ExecStatus, Finished
  <2>2. QED
    BY <2>1 DEF Cleared
<1>2. QED
  BY Invariance, <1>1, PTL

\* A request never has two conflicting verdicts on record.
THEOREM OneVerdict == Spec => []VerdictsExclusive
<1>1. IInv => VerdictsExclusive
  <2>. SUFFICES ASSUME IInv, NEW x \in Execs
                PROVE  Cardinality(recorded[x] \ {"request_context"}) <= 1
    BY DEF VerdictsExclusive
  <2>1. recorded[x] \ {"request_context"} = {}
            \/ \E v \in Actions : recorded[x] \ {"request_context"} = {v}
    BY DEF IInv, TypeOK, Ledger, Cleared, ExecStatus, Finished, Actions
  <2>2. QED
    BY <2>1, FS_EmptySet, FS_Singleton
<1>2. QED
  BY Invariance, <1>1, PTL

\* Whoever writes a result finds its row executing and is alone with it, although
\* HandleExecutionResult and HandleCapabilityResult do not look.
THEOREM ResultsExpected == Spec => []ResultExpected
<1>1. IInv => ResultExpected
  BY DEF IInv, Placed, OneHolder, Staged, ResultExpected, Holding
<1>2. QED
  BY Invariance, <1>1, PTL

-----------------------------------------------------------------------------
(* Sessions are backed by their requests.                                  *)

\* A request stops waiting, or executing, only together with a write to the
\* status of its session.
LEMMA BackedStep == IInv /\ SessionBacked /\ [Next]_vars => SessionBacked'
<1>. SUFFICES ASSUME IInv /\ SessionBacked, [Next]_vars PROVE SessionBacked'
  OBVIOUS
<1>. USE WorkflowAssumption DEF IInv, TypeOK, SessionStatus, ExecStatus, OutboxStatus, Finished, Holding, Actions, Features, Workers, Placed, Staged, OneHolder, SessionBacked, sessionVars, execVars, procVars, bounds
<1>1. ASSUME NEW s \in Sessions, NEW src \in {"alert", "chat"}, HandleAlertEvent(s, src) PROVE SessionBacked'
  BY <1>1 DEF HandleAlertEvent
<1>2. ASSUME NEW s \in Sessions, ReplayOutbox(s) PROVE SessionBacked'
  BY <1>2 DEF ReplayOutbox
<1>3. ASSUME NEW s \in Sessions, BeginDiagnosis(s) PROVE SessionBacked'
  BY <1>3 DEF BeginDiagnosis, At, Goto
<1>4. ASSUME ClaimEvents PROVE SessionBacked'
  BY <1>4 DEF ClaimEvents, At
<1>5. ASSUME DiagnosisFails PROVE SessionBacked'
  BY <1>5 DEF DiagnosisFails, At, Goto
<1>6. ASSUME ApplyAnswer PROVE SessionBacked'
  BY <1>6 DEF ApplyAnswer, At, Goto
<1>7. ASSUME ApplyDisabled PROVE SessionBacked'
  BY <1>7 DEF ApplyDisabled, At, Goto
<1>8. ASSUME ResolveEvent PROVE SessionBacked'
  BY <1>8 DEF ResolveEvent, At, Goto
<1>9. ASSUME ResolveFails PROVE SessionBacked'
  BY <1>9 DEF ResolveFails, At, Goto
<1>10. ASSUME NEW x \in Execs, CreateCapabilityApproval(x) PROVE SessionBacked'
  BY <1>10 DEF CreateCapabilityApproval, At, InsertExecution
<1>11. ASSUME NEW x \in Execs, ApplyDirect(x) PROVE SessionBacked'
  BY <1>11 DEF ApplyDirect, At, Goto, InsertExecution
<1>12. ASSUME NEW x \in Execs, ApplyApproval(x) PROVE SessionBacked'
  BY <1>12 DEF ApplyApproval, At, Goto, InsertExecution
<1>13. ASSUME NEW h \in Handlers, NEW x \in Execs, NEW a \in Actions, Approve(h, x, a) PROVE SessionBacked'
  BY <1>13 DEF Approve, At, Goto, Deciding, Runnable
<1>14. ASSUME NEW h \in Handlers, NEW x \in Execs, Reject(h, x) PROVE SessionBacked'
  BY <1>14 DEF Reject, At, Deciding
<1>15. ASSUME NEW h \in Handlers, NEW x \in Execs, RequestContext(h, x) PROVE SessionBacked'
  BY <1>15 DEF RequestContext, At, Deciding
<1>16. ASSUME NEW S \in SUBSET Execs, SweepApprovalTimeouts(S) PROVE SessionBacked'
  BY <1>16 DEF SweepApprovalTimeouts, Expired, SweptSessions
<1>17. ASSUME NEW w \in Workers, ExecuteApproved(w) PROVE SessionBacked'
  BY <1>17 DEF ExecuteApproved, At
<1>18. ASSUME NEW w \in Workers, NEW r \in Finished, HandleExecutionResult(w, r) PROVE SessionBacked'
  BY <1>18 DEF HandleExecutionResult, At, Goto, Done, RowResult
<1>19. ASSUME NEW w \in Workers, NEW r \in {"completed", "failed"}, HandleCapabilityResult(w, r) PROVE SessionBacked'
  BY <1>19 DEF HandleCapabilityResult, At, Goto, Done
<1>20. ASSUME NEW w \in Workers, NEW b \in BOOLEAN, HandleVerificationResult(w, b) PROVE SessionBacked'
  BY <1>20 DEF HandleVerificationResult, At, Goto, Done
<1>21. ASSUME NEW w \in Workers, GiveUp(w) PROVE SessionBacked'
  BY <1>21 DEF GiveUp, At, Goto
<1>22. ASSUME NEW h \in Handlers, VerifyError(h) PROVE SessionBacked'
  BY <1>22 DEF VerifyError, At, Goto
<1>23. ASSUME Crash PROVE SessionBacked'
  BY <1>23 DEF Crash
<1>24. ASSUME Start PROVE SessionBacked'
  BY <1>24 DEF Start
<1>25. CASE UNCHANGED vars
  BY <1>25 DEF vars
<1>. HIDE WorkflowAssumption DEF IInv, TypeOK, SessionStatus, ExecStatus, OutboxStatus, Finished, Holding, Actions, Features, Workers, Placed, Staged, OneHolder, SessionBacked, sessionVars, execVars, procVars, bounds
<1>26. QED
  BY <1>1, <1>2, <1>3, <1>4, <1>5, <1>6, <1>7, <1>8, <1>9, <1>10, <1>11, <1>12, <1>13, <1>14, <1>15, <1>16, <1>17, <1>18, <1>19, <1>20, <1>21, <1>22, <1>23, <1>24, <1>25 DEF Next, SessionStep, DiagnosisStep, VerdictStep, ResultStep, VerifyStep

\* A waiting session has a pending request, an executing one an execution.
THEOREM SessionsBacked == Spec => []SessionBacked
<1>1. Init => SessionBacked
  BY DEF Init, SessionBacked
<1>2. IInv /\ SessionBacked /\ [Next]_vars => SessionBacked'
  BY BackedStep
<1>3. QED
  BY Invariance, <1>1, <1>2, PTL DEF Spec

-----------------------------------------------------------------------------
(* Commands run only with the execution feature on.                        *)

\* Only ExecuteApproved raises runs.
LEMMA OnlyExecuteRuns == Next => (\E w \in Workers : ExecuteApproved(w)) \/ UNCHANGED runs
  BY DEF Next, SessionStep, DiagnosisStep, VerdictStep, ResultStep, VerifyStep, HandleAlertEvent,
     ReplayOutbox, BeginDiagnosis, ClaimEvents, DiagnosisFails, ApplyAnswer, ApplyDisabled, ResolveEvent,
     ResolveFails, CreateCapabilityApproval, ApplyDirect, ApplyApproval, Approve, Reject, RequestContext,
     SweepApprovalTimeouts, HandleExecutionResult, HandleCapabilityResult, HandleVerificationResult,
     GiveUp, VerifyError, Crash, Start

\* No command runs in a process whose execution feature is off: Staged ties the
\* label "run" to the flag, which changes only while nobody is at that label.
THEOREM FeatureRespected == Spec => RunNeedsFeature
<1>. DEFINE Feature == \A x \in Execs : runs'[x] > runs[x] /\ xkind[x] = "execution" => "execution" \in flags
<1>1. IInv /\ [Next]_vars => Feature
  <2>. SUFFICES ASSUME IInv, [Next]_vars, NEW x \in Execs, runs'[x] > runs[x], xkind[x] = "execution"
                PROVE  "execution" \in flags
    OBVIOUS
  <2>1. runs' # runs
    BY DEF IInv, TypeOK
  <2>2. PICK w \in Workers : ExecuteApproved(w)
    BY <2>1, OnlyExecuteRuns DEF vars
  <2>3. holds[w] = x /\ pc[w] = "run"
    BY <2>2 DEF ExecuteApproved, At, IInv, TypeOK
  <2>4. QED
    BY <2>3 DEF IInv, Staged
<1>2. IInv /\ [Next]_vars => [Feature]_vars
  BY <1>1
<1>3. QED
  BY Invariance, <1>2, PTL DEF Spec, RunNeedsFeature

-----------------------------------------------------------------------------
(* The workflow implements the approval gate.                              *)

\* Steps that touch neither the status of a request nor its runs.
QuietStep ==
    \/ \E s \in Sessions : SessionStep(s)
    \/ ClaimEvents \/ DiagnosisFails \/ ApplyAnswer \/ ApplyDisabled \/ ResolveEvent \/ ResolveFails
    \/ \E h \in Handlers, x \in Execs : RequestContext(h, x)
    \/ \E w \in Workers : VerifyStep(w) \/ GiveUp(w)
    \/ \E h \in Handlers : VerifyError(h)
    \/ Crash \/ Start \/ UNCHANGED vars

\* Every step of the workflow is a step of the gate or leaves it alone.
LEMMA GateStep == IInv /\ [Next]_vars => [Gate!GateNext]_gateOf
<1>. SUFFICES ASSUME IInv, [Next]_vars PROVE Gate!GateNext \/ gateOf' = gateOf
  OBVIOUS
<1>. USE DEF IInv, TypeOK
<1>1. ASSUME QuietStep PROVE gateOf' = gateOf
  <2>1. UNCHANGED <<xstatus, runs>>
    BY <1>1 DEF QuietStep, SessionStep, VerifyStep, HandleAlertEvent, ReplayOutbox, BeginDiagnosis,
       ClaimEvents, DiagnosisFails, ApplyAnswer, ApplyDisabled, ResolveEvent, ResolveFails, RequestContext,
       HandleVerificationResult, GiveUp, VerifyError, Crash, Start, vars, execVars
  <2>2. QED
    BY <2>1 DEF gateOf
<1>2. ASSUME NEW x \in Execs, CreateCapabilityApproval(x) PROVE Gate!GateNext
  <2>1. gateOf' = [gateOf EXCEPT ![x] = "waiting"] /\ gateOf[x] = "absent" /\ x \in Execs
    BY <1>2 DEF gateOf, CreateCapabilityApproval, InsertExecution, ExecStatus, Finished
  <2>2. QED
    BY <2>1 DEF Gate!GateNext, Gate!Ask, Gate!Move
<1>3. ASSUME NEW x \in Execs, ApplyApproval(x) PROVE Gate!GateNext
  <2>1. gateOf' = [gateOf EXCEPT ![x] = "waiting"] /\ gateOf[x] = "absent" /\ x \in Execs
    BY <1>3 DEF gateOf, ApplyApproval, InsertExecution, ExecStatus, Finished
  <2>2. QED
    BY <2>1 DEF Gate!GateNext, Gate!Ask, Gate!Move
<1>4. ASSUME NEW x \in Execs, ApplyDirect(x) PROVE Gate!GateNext
  <2>1. xstatus[x] = "none" /\ xstatus' = [xstatus EXCEPT ![x] = "executing"] /\ runs' = runs
    BY <1>4 DEF ApplyDirect, InsertExecution
  <2>2. runs[x] = 0
    BY <2>1 DEF Ledger
  <2>3. gateOf' = [gateOf EXCEPT ![x] = "cleared"] /\ gateOf[x] = "absent"
    BY <2>1, <2>2 DEF gateOf, Finished
  <2>4. QED
    BY <2>3 DEF Gate!GateNext, Gate!ClearByRule, Gate!Move
<1>5. ASSUME NEW h \in Handlers, NEW x \in Execs, NEW a \in Actions, Approve(h, x, a) PROVE Gate!GateNext
  <2>1. xstatus[x] = "pending" /\ runs' = runs
    BY <1>5 DEF Approve, Deciding
  <2>2. runs[x] = 0
    BY <2>1 DEF Ledger
  <2>3. CASE xstatus' = [xstatus EXCEPT ![x] = "executing"]
    <3>1. gateOf' = [gateOf EXCEPT ![x] = "cleared"] /\ gateOf[x] = "waiting"
      BY <2>1, <2>2, <2>3 DEF gateOf, Finished
    <3>2. QED
      BY <3>1 DEF Gate!GateNext, Gate!Clear, Gate!Move
  <2>4. CASE xstatus' = [xstatus EXCEPT ![x] = "approved"]
    <3>1. gateOf' = [gateOf EXCEPT ![x] = "parked"] /\ gateOf[x] = "waiting"
      BY <2>1, <2>4 DEF gateOf, Finished
    <3>2. QED
      BY <3>1 DEF Gate!GateNext, Gate!Park, Gate!Move
  <2>5. QED
    BY <1>5, <2>3, <2>4 DEF Approve
<1>6. ASSUME NEW S \in SUBSET Execs, S # {}, \A x \in S : xstatus[x] = "pending", runs' = runs,
             xstatus' = [x \in Execs |-> IF x \in S THEN "rejected" ELSE xstatus[x]]
      PROVE  Gate!GateNext
  <2>1. /\ gateOf' = [x \in Execs |-> IF x \in S THEN "refused" ELSE gateOf[x]]
        /\ \A x \in S : gateOf[x] = "waiting"
    BY <1>6 DEF gateOf, Finished
  <2>2. QED
    BY <1>6, <2>1 DEF Gate!GateNext, Gate!Refuse
<1>7. ASSUME NEW h \in Handlers, NEW x \in Execs, Reject(h, x) PROVE Gate!GateNext
  <2>1. /\ runs' = runs /\ xstatus[x] = "pending"
        /\ xstatus' = [y \in Execs |-> IF y \in {x} THEN "rejected" ELSE xstatus[y]]
    BY <1>7 DEF Reject, Deciding
  <2>2. {x} \in SUBSET Execs /\ {x} # {} /\ \A y \in {x} : xstatus[y] = "pending"
    BY <2>1
  <2>3. QED
    BY <1>6, <2>1, <2>2, Zenon
<1>8. ASSUME NEW S \in SUBSET Execs, SweepApprovalTimeouts(S) PROVE Gate!GateNext
  BY <1>6, <1>8 DEF SweepApprovalTimeouts, Expired
<1>9. ASSUME NEW w \in Workers, ExecuteApproved(w) PROVE Gate!GateNext
  <2>1. holds[w] \in Execs /\ xstatus[holds[w]] = "executing" /\ runs[holds[w]] = 0
    BY <1>9 DEF ExecuteApproved, At, Placed, Staged, Holding
  <2>2. runs' = [runs EXCEPT ![holds[w]] = 1] /\ xstatus' = xstatus
    BY <1>9, <2>1 DEF ExecuteApproved, execVars
  <2>3. gateOf[holds[w]] = "cleared"
    BY <2>1 DEF gateOf, Finished
  <2>4. gateOf'[holds[w]] = "started"
    BY <2>1, <2>2 DEF gateOf, Finished
  <2>5. \A x \in Execs : x # holds[w] => gateOf'[x] = gateOf[x]
    BY <2>1, <2>2 DEF gateOf
  <2>6. gateOf = [x \in Execs |-> gateOf[x]] /\ gateOf' = [x \in Execs |-> gateOf'[x]]
    BY DEF gateOf
  <2>7. gateOf' = [gateOf EXCEPT ![holds[w]] = "started"]
    BY <2>1, <2>4, <2>5, <2>6
  <2>8. QED
    BY <2>1, <2>3, <2>7 DEF Gate!GateNext, Gate!StartRun, Gate!Move
<1>10. ASSUME NEW w \in Workers, ResultStep(w) PROVE Gate!GateNext
  <2>1. pc[w] = "result" /\ holds[w] \in Execs /\ xstatus[holds[w]] = "executing" /\ runs[holds[w]] # 0
    BY <1>10 DEF ResultStep, HandleExecutionResult, HandleCapabilityResult, At, Placed, Staged, Holding
  <2>2. PICK r \in Finished : xstatus' = [xstatus EXCEPT ![holds[w]] = r] /\ runs' = runs
    BY <1>10 DEF ResultStep, HandleExecutionResult, HandleCapabilityResult, RowResult, Finished
  <2>3. gateOf' = [gateOf EXCEPT ![holds[w]] = "finished"] /\ gateOf[holds[w]] = "started"
    BY <2>1, <2>2 DEF gateOf, Finished
  <2>4. QED
    BY <2>1, <2>3 DEF Gate!GateNext, Gate!Finish, Gate!Move
<1>. HIDE DEF IInv, TypeOK
<1>11. QED
  BY <1>1, <1>2, <1>3, <1>4, <1>5, <1>7, <1>8, <1>9, <1>10
     DEF Next, QuietStep, DiagnosisStep, VerdictStep

\* The workflow implements the approval gate.
THEOREM Implementation == Spec => GateImplemented
<1>1. Init => Gate!GateInit
  BY DEF Init, gateOf, Finished, Gate!GateInit
<1>2. QED
  BY Invariance, <1>1, GateStep, PTL DEF Spec, GateImplemented, Gate!GateSpec

(* Everything that is promised of a single request. *)
THEOREM RunsCorrect == Spec => []RunsSound
  BY TypeCorrect, NoSecondRun, RunsAuthorized, OneVerdict, ResultsExpected, PTL DEF RunsSound
=============================================================================
