--------------------------- MODULE MemoryWorkflow ---------------------------
(***************************************************************************)
(* The in-memory workflow service, used when no database is configured:    *)
(* the sessions, the executions and the outbox of one process behind one   *)
(* mutex, so every method is one step and none can fail half-way.  Around  *)
(* it run the dispatcher, the requests that carry an operator's verdict,   *)
(* which may be delivered again, and the approval-timeout sweep.  A crash  *)
(* loses everything, hence begins a new behaviour.                         *)
(***************************************************************************)
EXTENDS Naturals, Sequences, SequencesExt

CONSTANTS
    Sessions,     \* fingerprints: a session is never forgotten, so one session each
    AlertKeys,    \* idempotency keys of alerts
    Execs,        \* 1..n, the executions nextID hands out in this order
    Updates,      \* verdicts given by operators, each delivered any number of times
    Handlers,     \* concurrent HTTP or Telegram requests
    Dispatcher,   \* the dispatcher goroutine
    None,         \* no session, execution or verdict
    FlagSets,     \* the features a process may be started with
    BatchSize,    \* events claimed at once (10 in the code)
    SendAttempts, \* attempts at a telegram.send event
    MaxReplays,   \* bound: operator replays
    MaxLostSends, \* bound: messages the channel refuses
    MaxDeliveries,\* bound: times an update without a key takes effect
    MaxEvents     \* bound: events the other bounds can lead to

Features == {"diagnosis", "approval", "execution", "knowledge"}
Workers  == Handlers \cup {Dispatcher}
Topics   == {"analyze", "closed", "send"}
Actions  == {"approve", "reject", "request_context"}   \* modify_approve approves another command
Verdicts == [x : Execs, act : Actions, key : BOOLEAN]

ASSUME MemoryAssumption ==
    /\ None \notin Sessions \cup Execs \cup Verdicts
    /\ Execs \subseteq Nat \ {0}
    /\ Dispatcher \notin Handlers
    /\ FlagSets \subseteq SUBSET Features
    /\ BatchSize \in Nat \ {0} /\ SendAttempts \in Nat \ {0}
    /\ MaxReplays \in Nat /\ MaxLostSends \in Nat 
    /\ MaxDeliveries \in Nat /\ MaxEvents \in Nat

VARIABLES
    flags,     \* opts
    session,   \* Sessions -> detail.Status ("none": no record)
    chat,      \* sessions that come from a chat
    alertOf,   \* processedAlerts: AlertKeys -> session
    exec,      \* Execs -> [st, ses, kind]
    outbox,    \* the events in outboxOrder, [topic, ses, st, tries, late]
    asked,     \* Updates -> the verdict it carries, [x, act, key], or None
    seen,      \* processedEvents
    doing, holds, \* Workers -> where the goroutine is, the execution it works on
    batch,     \* the envelopes the dispatcher still has to handle, [id, attempt]
    runs,      \* history: Execs -> calls that ran it
    applied,   \* history: Updates -> times its verdict took effect
    replays, lostSends

storeVars == <<session, chat, alertOf, exec, outbox, seen>>
workVars  == <<doing, holds, batch>>
memVars   == <<flags, storeVars, asked, workVars, runs, applied, replays, lostSends>>

ExecStatus == {"none", "pending", "approved", "executing", "completed", "failed", "timeout", "rejected"}
Finished   == {"completed", "failed", "timeout"}
Events     == [topic : Topics, ses : Sessions, tries : Nat, late : BOOLEAN,
               st : {"pending", "processing", "done", "failed", "blocked", "deleted"}]

MemTypeOK ==
    /\ flags \in SUBSET Features
    /\ session \in [Sessions -> {"none", "open", "analyzing", "pending_approval", "executing",
                                 "verifying", "resolved", "failed"}]
    /\ chat \subseteq Sessions
    /\ alertOf \in [AlertKeys -> Sessions \cup {None}]
    /\ exec \in [Execs -> [st : ExecStatus, ses : Sessions \cup {None}, kind : {"execution", "capability"}]]
    /\ outbox \in Seq(Events)
    /\ asked \in [Updates -> Verdicts \cup {None}]
    /\ seen \subseteq Updates
    /\ doing \in [Workers -> {"idle", "plan", "tell_plan", "tell_run", "tell_end", "run",
                           "result", "verify", "ack", "fail"}]
    /\ holds \in [Workers -> Execs \cup {None}]
    /\ batch \in Seq([id : 1 .. Len(outbox), attempt : Nat]) /\ Len(batch) <= BatchSize
    /\ runs \in [Execs -> Nat] /\ applied \in [Updates -> Nat]
    /\ replays \in 0 .. MaxReplays /\ lostSends \in 0 .. MaxLostSends

MemInit ==
    /\ flags \in FlagSets
    /\ session = [s \in Sessions |-> "none"] /\ chat = {}
    /\ alertOf = [k \in AlertKeys |-> None]
    /\ exec = [x \in Execs |-> [st |-> "none", ses |-> None, kind |-> "execution"]]
    /\ outbox = << >>
    /\ asked = [u \in Updates |-> None] /\ seen = {}
    /\ doing = [w \in Workers |-> "idle"] /\ holds = [w \in Workers |-> None]
    /\ batch = << >>
    /\ runs = [x \in Execs |-> 0] /\ applied = [u \in Updates |-> 0]
    /\ replays = 0 /\ lostSends = 0

Goto(w, l, x) ==
    /\ doing' = [doing EXCEPT ![w] = l]
    /\ holds' = [holds EXCEPT ![w] = x]

\* publishEventLocked: a new event goes to the end of outboxOrder
Publish(box, topic, s, st) ==
    Append(box, [topic |-> topic, ses |-> s, st |-> st, tries |-> 0, late |-> FALSE])

TopicEnabled(topic) ==
    /\ topic = "analyze" => "diagnosis" \in flags
    /\ topic = "closed" => "knowledge" \in flags

\* Mutant of EnqueueSessionClosed: nothing is queued while ingestion is off
EnqueueSessionClosed_Dropped(box, s) ==
    IF TopicEnabled("closed") THEN Publish(box, "closed", s, "pending") ELSE box

\* enqueueSessionClosed; an event of a disabled topic is parked as blocked
EnqueueSessionClosed(box, s) ==
    Publish(box, "closed", s, IF TopicEnabled("closed") THEN "pending" ELSE "blocked")

-----------------------------------------------------------------------------
(* Alerts and the operations on the outbox.                                *)

\* A known key changes nothing; a known fingerprint only records the key and a
\* line of the timeline; otherwise a session is opened and its diagnosis queued
HandleAlertEvent(k, s, isChat) ==
    /\ alertOf[k] = None
    /\ alertOf' = [alertOf EXCEPT ![k] = s]
    /\ IF session[s] # "none"
       THEN UNCHANGED <<session, chat, outbox>>
       ELSE LET on == TopicEnabled("analyze") IN
            /\ session' = [session EXCEPT ![s] = IF on THEN "analyzing" ELSE "open"]
            /\ chat' = IF isChat THEN chat \cup {s} ELSE chat
            /\ outbox' = Publish(outbox, "analyze", s, IF on THEN "pending" ELSE "blocked")
    /\ UNCHANGED <<flags, exec, asked, seen, workVars, runs, applied, replays, lostSends>>

\* ReplayOutbox: refused only for a blocked event of a disabled topic
ReplayOutbox(e) ==
    /\ replays < MaxReplays
    /\ outbox[e].st # "deleted"
    /\ outbox[e].st = "blocked" => TopicEnabled(outbox[e].topic)
    /\ replays' = replays + 1
    /\ outbox' = [outbox EXCEPT ![e].st = "pending", ![e].tries = @ + 1]
    /\ UNCHANGED <<flags, session, chat, alertOf, exec, asked, seen, workVars, runs, applied, lostSends>>

\* Mutant of Deletable: any event can be deleted
Deletable_Any(e) == outbox[e].st # "deleted"

Deletable(e) == outbox[e].st \in {"failed", "blocked"}

DeleteOutbox(e) ==
    /\ Deletable(e)
    /\ outbox' = [outbox EXCEPT ![e].st = "deleted"]
    /\ UNCHANGED <<flags, session, chat, alertOf, exec, asked, seen, workVars, runs, applied, replays, lostSends>>

\* the delay of a retry passes
RetryDue(e) ==
    /\ outbox[e].late
    /\ outbox' = [outbox EXCEPT ![e].late = FALSE]
    /\ UNCHANGED <<flags, session, chat, alertOf, exec, asked, seen, workVars, runs, applied, replays, lostSends>>

Claimable(e) == outbox[e].st = "pending" /\ ~outbox[e].late

Ready == {e \in DOMAIN outbox : Claimable(e)}

\* Mutant of Newest: the loop stops above the oldest event
Newest_OffByOne(ids, n) ==
    /\ \A i, j \in DOMAIN ids : i < j => ids[i] > ids[j]
    /\ 1 \notin ToSet(ids)
    /\ \A e \in Ready \ (ToSet(ids) \cup {1}) : Len(ids) = n /\ \A i \in DOMAIN ids : ids[i] > e

\* the events ClaimEvents takes: it walks outboxOrder from its end and stops at
\* the n-th claimable one
Newest(ids, n) ==
    /\ \A i, j \in DOMAIN ids : i < j => ids[i] > ids[j]
    /\ \A e \in Ready \ ToSet(ids) : Len(ids) = n /\ \A i \in DOMAIN ids : ids[i] > e

\* RunOnce claims its next batch
ClaimEvents ==
    /\ doing[Dispatcher] = "idle" /\ batch = << >>
    /\ \E m \in 1 .. BatchSize : \E ids \in [1 .. m -> Ready] :
       /\ Newest(ids, BatchSize)
       /\ batch' = [i \in 1 .. m |-> [id |-> ids[i], attempt |-> outbox[ids[i]].tries + 1]]
       /\ outbox' = [e \in DOMAIN outbox |->
                       IF e \in ToSet(ids) THEN [outbox[e] EXCEPT !.st = "processing"] ELSE outbox[e]]
    /\ UNCHANGED <<flags, session, chat, alertOf, exec, asked, seen, doing, holds, runs, applied, replays, lostSends>>

current == Head(batch).id
subject == outbox[current].ses

\* dispatch by topic: a diagnosis is planned, a message sent again, a closed
\* session handed to the knowledge base
BeginEvent ==
    /\ doing[Dispatcher] = "idle" /\ batch # << >>
    /\ \E l \in IF outbox[current].topic = "analyze" THEN {"plan"} ELSE {"ack", "fail"} :
           Goto(Dispatcher, l, None)
    /\ UNCHANGED <<flags, storeVars, asked, batch, runs, applied, replays, lostSends>>

MaxAttempts(topic) == IF topic = "send" THEN SendAttempts ELSE 1

\* ResolveEvent with the decision of the delivery policy; the attempt is the one
\* the envelope was claimed with, which a replay in between does not change
Resolved(ev, attempt, ok) ==
    IF ok THEN [ev EXCEPT !.st = "done", !.late = FALSE]
    ELSE IF attempt < MaxAttempts(ev.topic)
    THEN [ev EXCEPT !.st = "pending", !.tries = @ + 1, !.late = TRUE]
    ELSE [ev EXCEPT !.st = "failed", !.tries = @ + 1, !.late = FALSE]

ResolveEvent ==
    /\ doing[Dispatcher] \in {"ack", "fail"}
    /\ outbox' = [outbox EXCEPT ![current] = Resolved(@, Head(batch).attempt, doing[Dispatcher] = "ack")]
    /\ batch' = Tail(batch)
    /\ Goto(Dispatcher, "idle", None)
    /\ UNCHANGED <<flags, session, chat, alertOf, exec, asked, seen, runs, applied, replays, lostSends>>

-----------------------------------------------------------------------------
(* The diagnosis of the session of the current event.                      *)

\* nextID
Fresh(x) == exec[x].st = "none" /\ \A y \in Execs : y < x => exec[y].st # "none"

NewExec(x, kind, st) ==
    /\ Fresh(x)
    /\ exec' = [exec EXCEPT ![x] = [st |-> st, ses |-> subject, kind |-> kind]]

\* the tool plan meets a capability that needs approval
CreateCapabilityApproval(x) ==
    /\ doing[Dispatcher] = "plan"
    /\ NewExec(x, "capability", "pending")
    /\ session' = [session EXCEPT ![subject] = "pending_approval"]
    /\ Goto(Dispatcher, "tell_plan", None)
    /\ UNCHANGED <<flags, chat, alertOf, outbox, asked, seen, batch, runs, applied, replays, lostSends>>

\* planning or the final diagnosis returns an error
DiagnosisFails ==
    /\ doing[Dispatcher] = "plan"
    /\ Goto(Dispatcher, "fail", None)
    /\ UNCHANGED <<flags, storeVars, asked, batch, runs, applied, replays, lostSends>>

\* ApplyDiagnosis, the command may run at once: the dispatcher runs it
ApplyDirect(x) ==
    /\ doing[Dispatcher] = "plan" /\ {"diagnosis", "execution"} \subseteq flags
    /\ NewExec(x, "execution", "executing")
    /\ session' = [session EXCEPT ![subject] = "executing"]
    /\ Goto(Dispatcher, "tell_run", x)
    /\ UNCHANGED <<flags, chat, alertOf, outbox, asked, seen, batch, runs, applied, replays, lostSends>>

\* ApplyDiagnosis, the command needs approval
ApplyApproval(x) ==
    /\ doing[Dispatcher] = "plan" /\ {"diagnosis", "approval"} \subseteq flags
    /\ NewExec(x, "execution", "pending")
    /\ session' = [session EXCEPT ![subject] = "pending_approval"]
    /\ Goto(Dispatcher, "tell_end", None)
    /\ UNCHANGED <<flags, chat, alertOf, outbox, asked, seen, batch, runs, applied, replays, lostSends>>

\* ApplyDiagnosis without an execution; resolveChatWithoutExecution closes a chat
ApplyAnswer ==
    /\ doing[Dispatcher] = "plan"
    /\ session' = [session EXCEPT ![subject] = IF subject \in chat THEN "resolved" ELSE "open"]
    /\ outbox' = IF subject \in chat THEN EnqueueSessionClosed(outbox, subject) ELSE outbox
    /\ Goto(Dispatcher, "tell_end", None)
    /\ UNCHANGED <<flags, chat, alertOf, exec, asked, seen, batch, runs, applied, replays, lostSends>>

-----------------------------------------------------------------------------
(* Verdicts.                                                               *)

\* Mutant of Admitted: the processed keys are not consulted
Admitted_KeyIgnored(u, x) == exec[x].st = "pending"

\* HandleChannelEvent up to its switch: a processed key gets an empty answer, a
\* request that is no longer pending an error
Admitted(u, x) == u \notin seen /\ exec[x].st = "pending"

Runnable(x) == exec[x].kind = "capability" \/ "execution" \in flags

\* Mutant of ApprovedAs: an approved command stays decidable
ApprovedAs_Pending(x) == IF exec[x].kind = "execution" THEN "pending" ELSE "executing"

ApprovedAs(x) == IF Runnable(x) THEN "executing" ELSE "approved"

\* One delivery of update u, by the handler that serves it.  What the operator
\* asked for is fixed when the update first takes effect; an HTTP request may come
\* without a key.
HandleChannelEvent(h, u, ask) ==
    /\ doing[h] = "idle" /\ asked[u] \in {None, ask} /\ Admitted(u, ask.x)
    /\ applied[u] < MaxDeliveries
    /\ asked' = [asked EXCEPT ![u] = ask]
    /\ seen' = IF ask.key THEN seen \cup {u} ELSE seen
    /\ applied' = [applied EXCEPT ![u] = @ + 1]
    /\ LET x == ask.x
           s == exec[x].ses
       IN  \/ /\ ask.act = "approve"
              /\ exec' = [exec EXCEPT ![x].st = ApprovedAs(x)]
              /\ session' = [session EXCEPT ![s] = IF Runnable(x) THEN "executing" ELSE "open"]
              /\ Goto(h, IF Runnable(x) THEN "tell_run" ELSE "tell_end", x)
           \/ /\ ask.act = "reject"
              /\ exec' = [exec EXCEPT ![x].st = "rejected"]
              /\ session' = [session EXCEPT ![s] = "analyzing"]
              /\ Goto(h, "tell_end", x)
           \/ /\ ask.act = "request_context"
              /\ session' = [session EXCEPT ![s] = "analyzing"]
              /\ Goto(h, "tell_end", x)
              /\ UNCHANGED exec
    /\ UNCHANGED <<flags, chat, alertOf, outbox, batch, runs, replays, lostSends>>

\* which of the pending requests are old enough is left open
Expired(x) == exec[x].st = "pending"

SweepApprovalTimeouts(X) ==
    /\ X # {} /\ \A x \in X : Expired(x)
    /\ exec' = [x \in Execs |-> IF x \in X THEN [exec[x] EXCEPT !.st = "rejected"] ELSE exec[x]]
    /\ session' = [s \in Sessions |-> IF \E x \in X : exec[x].ses = s THEN "open" ELSE session[s]]
    /\ UNCHANGED <<flags, chat, alertOf, outbox, asked, seen, workVars, runs, applied, replays, lostSends>>

-----------------------------------------------------------------------------
(* An execution under way, in the dispatcher or in a request.              *)

Done(w) == IF w = Dispatcher THEN "ack" ELSE "idle"

\* deliverNotifications and its like: a message the channel refuses is queued by
\* EnqueueNotifications, and the goroutine goes on
Notify(w) ==
    /\ CASE doing[w] = "tell_plan" -> Goto(w, "plan", None)
         [] doing[w] = "tell_run"  -> Goto(w, "run", holds[w])
         [] doing[w] = "tell_end"  -> Goto(w, Done(w), None)
         [] OTHER               -> FALSE
    /\ \/ UNCHANGED <<outbox, lostSends>>
       \/ /\ lostSends < MaxLostSends
          /\ lostSends' = lostSends + 1
          /\ outbox' = Publish(outbox, "send",
                         IF w = Dispatcher THEN subject ELSE exec[holds[w]].ses, "pending")
    /\ UNCHANGED <<flags, session, chat, alertOf, exec, asked, seen, batch, runs, applied, replays>>

ExecuteApproved(w) ==
    /\ doing[w] = "run"
    /\ runs' = [runs EXCEPT ![holds[w]] = @ + 1]
    /\ Goto(w, "result", holds[w])
    /\ UNCHANGED <<flags, storeVars, asked, batch, applied, replays, lostSends>>

\* Mutant of SessionAfter: a timed-out execution leaves its session executing
SessionAfter_Timeout(x, r) ==
    IF r = "timeout" THEN "executing" ELSE IF r = "completed" THEN "verifying" ELSE "failed"

\* the status a result gives the session
SessionAfter(x, r) ==
    IF r # "completed" THEN "failed"
    ELSE IF exec[x].kind = "capability" THEN "open" ELSE "verifying"

\* Mutant of ResultAs: the session's status is written
ResultAs_Session(x, r) == IF r = "completed" THEN "verifying" ELSE r

\* the status a result gives the execution: the one it carries
ResultAs(x, r) == r

\* HandleExecutionResult or HandleCapabilityResult, whatever the status is by now
HandleResult(w, r) ==
    LET x == holds[w] IN
    /\ doing[w] = "result"
    /\ exec[x].kind = "capability" => r # "timeout"
    /\ exec' = [exec EXCEPT ![x].st = ResultAs(x, r)]
    /\ session' = [session EXCEPT ![exec[x].ses] = SessionAfter(x, r)]
    /\ Goto(w, IF SessionAfter(x, r) = "verifying" THEN "verify" ELSE "tell_end", x)
    /\ UNCHANGED <<flags, chat, alertOf, outbox, asked, seen, batch, runs, applied, replays, lostSends>>

\* HandleVerificationResult after VerifyExecution
HandleVerificationResult(w, success) ==
    LET s == exec[holds[w]].ses IN
    /\ doing[w] = "verify"
    /\ session' = [session EXCEPT ![s] = IF success THEN "resolved" ELSE "analyzing"]
    /\ outbox' = IF success THEN EnqueueSessionClosed(outbox, s) ELSE outbox
    /\ Goto(w, "tell_end", holds[w])
    /\ UNCHANGED <<flags, chat, alertOf, exec, asked, seen, batch, runs, applied, replays, lostSends>>

\* in a request an error of VerifyExecution ends the request
VerifyError(h) ==
    /\ doing[h] = "verify"
    /\ Goto(h, "idle", None)
    /\ UNCHANGED <<flags, storeVars, asked, batch, runs, applied, replays, lostSends>>

-----------------------------------------------------------------------------
EventStep(e) == ReplayOutbox(e) \/ DeleteOutbox(e)

DiagnosisStep ==
    \/ DiagnosisFails \/ ApplyAnswer
    \/ \E x \in Execs : CreateCapabilityApproval(x) \/ ApplyDirect(x) \/ ApplyApproval(x)

ResultStep(w) == \E r \in Finished : HandleResult(w, r)

VerifyStep(w) == \E b \in BOOLEAN : HandleVerificationResult(w, b)

MemNext ==
    \/ \E k \in AlertKeys, s \in Sessions, b \in BOOLEAN : HandleAlertEvent(k, s, b)
    \/ \E e \in DOMAIN outbox : EventStep(e) \/ RetryDue(e)
    \/ ClaimEvents \/ BeginEvent \/ ResolveEvent \/ DiagnosisStep
    \/ \E h \in Handlers, u \in Updates, ask \in Verdicts : HandleChannelEvent(h, u, ask)
    \/ \E X \in SUBSET Execs : SweepApprovalTimeouts(X)
    \/ \E w \in Workers : ExecuteApproved(w) \/ ResultStep(w) \/ VerifyStep(w) \/ Notify(w)
    \/ \E h \in Handlers : VerifyError(h)

\* The dispatcher's ticker and the sweep's keep firing, delays pass, remote calls
\* end in a result or an error.  Nothing obliges a source or an operator to act.
MemFairness ==
    /\ \A e \in 1 .. MaxEvents : WF_memVars(e \in DOMAIN outbox /\ RetryDue(e))
    /\ WF_memVars(ClaimEvents \/ BeginEvent \/ ResolveEvent)
    /\ WF_memVars(DiagnosisFails \/ ApplyAnswer)
    /\ \A x \in Execs : WF_memVars(\E X \in SUBSET Execs : x \in X /\ SweepApprovalTimeouts(X))
    /\ \A w \in Workers : WF_memVars(ExecuteApproved(w) \/ ResultStep(w) \/ VerifyStep(w) \/ Notify(w))

MemSpec == MemInit /\ [][MemNext]_memVars /\ MemFairness

-----------------------------------------------------------------------------
(* Properties.                                                             *)

\* A redelivered update with a key takes effect at most once, through whichever
\* handlers, also one that only asks for context and leaves its request pending.
AppliedOnce == \A u \in Updates : asked[u] # None /\ asked[u].key => applied[u] <= 1

\* The events of the dispatcher's batch stay in the store until they are
\* resolved, whatever operators replay or delete meanwhile, so ApplyDiagnosis and
\* ResolveEvent, which fail on an unknown event, never do.
ClaimedPresent == \A i \in DOMAIN batch : outbox[batch[i].id].st \in {"pending", "processing"}

\* A session that was resolved has told the knowledge base, or left an event
\* that will once ingestion is on, unless an operator deleted it.
ResolvedClosed ==
    \A s \in Sessions : session[s] = "resolved" =>
        \E e \in DOMAIN outbox : outbox[e].topic = "closed" /\ outbox[e].ses = s

\* A session that waits for approval has a request that can be decided; one that
\* executes has an execution some goroutine is still working on.
SessionBacked ==
    \A s \in Sessions :
        /\ session[s] = "pending_approval" => \E x \in Execs : exec[x].ses = s /\ exec[x].st = "pending"
        /\ session[s] = "executing" =>
             \E w \in Workers : doing[w] \in {"tell_run", "run", "result"} /\ exec[holds[w]].ses = s

gateOf == [x \in Execs |->
    CASE exec[x].st = "none"     -> "absent"
      [] exec[x].st = "pending"  -> "waiting"
      [] exec[x].st = "rejected" -> "refused"
      [] exec[x].st = "approved" -> "parked"
      [] exec[x].st \in Finished -> "finished"
      [] OTHER -> IF runs[x] = 0 THEN "cleared" ELSE "started"]

Gate == INSTANCE ApprovalGate WITH Requests <- Execs, gate <- gateOf

\* The in-memory service implements the same gate as the PostgreSQL store: one
\* verdict per request, nothing run without it, nothing run twice.
GateImplemented == Gate!GateSpec

Queued(e) == e \in DOMAIN outbox /\ outbox[e].st \in {"pending", "processing"}

\* Claiming from the newest event backwards does not starve the older ones as
\* long as the producers pause: every pending event leaves the queue, and no
\* event lies beyond those MaxEvents stands for.
BacklogDrains == /\ [](Len(outbox) <= MaxEvents)
                 /\ \A e \in 1 .. MaxEvents : Queued(e) ~> ~Queued(e)

\* The in-memory service applies a verdict once, never loses an event it handed
\* out or the closing of a session, and leaves no session waiting for nothing.
MemorySound == MemTypeOK /\ AppliedOnce /\ ClaimedPresent /\ ResolvedClosed /\ SessionBacked
=============================================================================
