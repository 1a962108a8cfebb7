------------------------------- MODULE Outbox -------------------------------
(***************************************************************************)
(* The outbox_events table of the PostgreSQL store and the dispatchers     *)
(* that drain it: publishing, claiming a batch, dispatching its items one  *)
(* by one, resolving each with the topic's delivery policy, operator       *)
(* replay and delete, a dispatcher's crash and its recovery on start.      *)
(* What a dispatch does to sessions and executions is the Workflow module; *)
(* here a dispatch only succeeds or fails.                                 *)
(***************************************************************************)
EXTENDS Naturals, FiniteSets

CONSTANTS
    Events,       \* identities of outbox rows
    Dispatchers,  \* processes that run a dispatcher loop
    ClaimLimit,   \* rows one claim takes at most (10 in the code)
    FlagSets,     \* the feature-flag settings a start may load
    MaxReplays,   \* bound: operator replays in a behaviour
    MaxCrashes,   \* bound: dispatcher crashes in a behaviour
    MaxFaults     \* bound: database errors on resolve or recover

Gated  == {"session.analyze_requested", "session.closed"}
Topics == Gated \cup {"telegram.send"}

ASSUME OutboxAssumption ==
    /\ IsFiniteSet(Events)
    /\ IsFiniteSet(Dispatchers)
    /\ ClaimLimit \in Nat \ {0}
    /\ FlagSets \subseteq SUBSET Gated
    /\ MaxReplays \in Nat /\ MaxCrashes \in Nat /\ MaxFaults \in Nat

Statuses  == {"none", "pending", "processing", "done", "failed", "blocked", "deleted"}
Decisions == {"ack", "retry", "dead_letter"}

VARIABLES
    status,     \* Events -> status column ("none": not inserted, "deleted": row gone)
    topic,      \* Events -> topic column
    retry,      \* Events -> retry_count column
    delayed,    \* Events -> available_at lies in the future
    born,       \* Events -> rank of created_at among the rows
    enabled,    \* gated topics whose feature flag is on
    up,         \* Dispatchers -> is the process running
    verdict,    \* Dispatchers -> Events -> "none" | "claimed" | decision to record
    attempt,    \* Dispatchers -> Events -> EventEnvelope.Attempt of the claim
    clock,      \* number of rows inserted so far
    replays, crashes, faults,  \* how often the bounded events happened
    sent,       \* history: Events -> dispatches that succeeded
    fails,      \* history: Events -> dispatches that failed
    requeued    \* history: Events -> replays and recoveries of the row

rows  == <<status, topic, retry, delayed, born, clock>>
procs == <<enabled, up, verdict, attempt>>
vars  == <<rows, procs, replays, crashes, faults, sent, fails, requeued>>

TypeOK ==
    /\ status \in [Events -> Statuses]
    /\ topic \in [Events -> Topics]
    /\ retry \in [Events -> Nat]
    /\ delayed \in [Events -> BOOLEAN]
    /\ born \in [Events -> Nat]
    /\ enabled \in SUBSET Gated
    /\ up \in [Dispatchers -> BOOLEAN]
    /\ verdict \in [Dispatchers -> [Events -> Decisions \cup {"none", "claimed"}]]
    /\ attempt \in [Dispatchers -> [Events -> Nat]]
    /\ clock \in Nat
    /\ replays \in Nat /\ crashes \in Nat /\ faults \in Nat
    /\ sent \in [Events -> Nat]
    /\ fails \in [Events -> Nat]
    /\ requeued \in [Events -> Nat]

Init ==
    /\ status = [e \in Events |-> "none"]
    /\ topic \in [Events -> Topics]     \* fixed for a row; chosen up front
    /\ retry = [e \in Events |-> 0]
    /\ delayed = [e \in Events |-> FALSE]
    /\ born = [e \in Events |-> 0]
    /\ enabled \in FlagSets
    /\ up = [d \in Dispatchers |-> TRUE]
    /\ verdict = [d \in Dispatchers |-> [e \in Events |-> "none"]]
    /\ attempt = [d \in Dispatchers |-> [e \in Events |-> 0]]
    /\ clock = 0 /\ replays = 0 /\ crashes = 0 /\ faults = 0
    /\ sent = [e \in Events |-> 0]
    /\ fails = [e \in Events |-> 0]
    /\ requeued = [e \in Events |-> 0]

-----------------------------------------------------------------------------
(* The delivery policy.                                                    *)

\* DefaultDeliveryPolicy(topic).MaxAttempts
MaxAttempts(t) == IF t = "telegram.send" THEN 3 ELSE 1

\* Mutants of Decide: the exhausted event acknowledged; one attempt too many; the
\* zero DeliveryResult returned
Decide_AckExhausted(t, n) == IF n < MaxAttempts(t) THEN "retry" ELSE "ack"
Decide_OffByOne(t, n)     == IF n <= MaxAttempts(t) THEN "retry" ELSE "dead_letter"
Decide_ZeroValue(t, n)    == IF n < MaxAttempts(t) THEN "retry" ELSE ""

\* DeliveryPolicy.Decide for a dispatch that failed on its n-th attempt
Decide(t, n) == IF n < MaxAttempts(t) THEN "retry" ELSE "dead_letter"

\* Store.topicEnabled: topics without a feature flag are always enabled
topicEnabled(t) == t \in Gated => t \in enabled

-----------------------------------------------------------------------------
(* Producers and operators.                                                *)

\* publishEventTx, called inside the transaction of the change it reports; the
\* callers insert a gated topic as blocked while its feature is off
PublishEvent(e) ==
    /\ status[e] = "none"
    /\ status' = [status EXCEPT ![e] = IF topicEnabled(topic[e]) THEN "pending" ELSE "blocked"]
    /\ born' = [born EXCEPT ![e] = clock]
    /\ clock' = clock + 1
    /\ UNCHANGED <<topic, retry, delayed, procs, replays, crashes, faults, sent, fails, requeued>>

\* Operator replay.  The only status it refuses is blocked with the flag off.
ReplayOutbox(e) ==
    /\ status[e] \notin {"none", "deleted"}
    /\ status[e] = "blocked" => topicEnabled(topic[e])
    /\ replays < MaxReplays
    /\ status' = [status EXCEPT ![e] = "pending"]
    /\ retry' = [retry EXCEPT ![e] = @ + 1]
    /\ delayed' = [delayed EXCEPT ![e] = FALSE]
    /\ replays' = replays + 1
    /\ requeued' = [requeued EXCEPT ![e] = @ + 1]
    /\ UNCHANGED <<topic, born, clock, procs, crashes, faults, sent, fails>>

\* Operator delete, refused unless the row is failed or blocked
DeleteOutbox(e) ==
    /\ status[e] \in {"failed", "blocked"}
    /\ status' = [status EXCEPT ![e] = "deleted"]
    /\ UNCHANGED <<topic, retry, delayed, born, clock, procs, replays, crashes, faults, sent, fails, requeued>>

\* available_at is reached: time passes
BecomeAvailable(e) ==
    /\ delayed[e]
    /\ delayed' = [delayed EXCEPT ![e] = FALSE]
    /\ UNCHANGED <<status, topic, retry, born, clock, procs, replays, crashes, faults, sent, fails, requeued>>

-----------------------------------------------------------------------------
(* The dispatcher loop.                                                    *)

\* Mutant of Claimable: the status filter of the claim query forgotten
Claimable_AnyStatus == {e \in Events : status[e] \in {"pending", "processing"} /\ ~delayed[e]}

\* the rows the claim query's WHERE clause selects
Claimable == {e \in Events : status[e] = "pending" /\ ~delayed[e]}

\* S is what ORDER BY created_at ASC LIMIT ClaimLimit selects
OldestBatch(S) ==
    /\ S \subseteq Claimable
    /\ Cardinality(S) <= ClaimLimit
    /\ S = Claimable \/ Cardinality(S) = ClaimLimit
    /\ \A e \in S, f \in Claimable \ S : born[e] < born[f]

Idle(d) == up[d] /\ \A e \in Events : verdict[d][e] = "none"

\* RunOnce: claim a batch once the previous one is finished
ClaimEvents(d) ==
    /\ Idle(d)
    /\ \E S \in SUBSET Events :
        /\ S # {} /\ OldestBatch(S)
        /\ status' = [e \in Events |-> IF e \in S THEN "processing" ELSE status[e]]
        /\ verdict' = [verdict EXCEPT ![d] = [e \in Events |-> IF e \in S THEN "claimed" ELSE "none"]]
        /\ attempt' = [attempt EXCEPT ![d] = [e \in Events |-> IF e \in S THEN retry[e] + 1 ELSE 0]]
    /\ UNCHANGED <<topic, retry, delayed, born, clock, enabled, up, replays, crashes, faults, sent, fails, requeued>>

\* The loop over the batch is sequential: an item is dispatched only when no
\* earlier one still waits for its ResolveEvent.  (RETURNING promises no order.)
NothingDecided(d) == \A e \in Events : verdict[d][e] \notin Decisions

\* dispatch returns without error: an acknowledgement
DispatchOk(d, e) ==
    /\ up[d] /\ verdict[d][e] = "claimed" /\ NothingDecided(d)
    /\ verdict' = [verdict EXCEPT ![d][e] = "ack"]
    /\ sent' = [sent EXCEPT ![e] = @ + 1]
    /\ UNCHANGED <<rows, enabled, up, attempt, replays, crashes, faults, fails, requeued>>

\* dispatch returns an error: the policy decides from the claimed attempt
DispatchError(d, e) ==
    /\ up[d] /\ verdict[d][e] = "claimed" /\ NothingDecided(d)
    /\ verdict' = [verdict EXCEPT ![d][e] = Decide(topic[e], attempt[d][e])]
    /\ fails' = [fails EXCEPT ![e] = @ + 1]
    /\ UNCHANGED <<rows, enabled, up, attempt, replays, crashes, faults, sent, requeued>>

\* the loop moves on to the next item of the batch
Release(d, e) ==
    /\ verdict' = [verdict EXCEPT ![d][e] = "none"]
    /\ attempt' = [attempt EXCEPT ![d][e] = 0]

\* the status a decision gives the row
Resolution(decision) ==
    IF decision = "ack" THEN "done" ELSE IF decision = "retry" THEN "pending" ELSE "failed"

\* ResolveEvent records the decision whatever the row's status is by now; a row
\* that is gone makes it fail with ErrNotFound, which is logged
ResolveEvent(d, e) ==
    /\ up[d] /\ verdict[d][e] \in Decisions
    /\ Release(d, e)
    /\ IF status[e] = "deleted"
       THEN UNCHANGED <<status, retry, delayed>>
       ELSE /\ status' = [status EXCEPT ![e] = Resolution(verdict[d][e])]
            /\ retry' = [retry EXCEPT ![e] = IF verdict[d][e] = "ack" THEN @ ELSE @ + 1]
            /\ delayed' = [delayed EXCEPT ![e] = @ \/ verdict[d][e] = "retry"]
    /\ UNCHANGED <<topic, born, clock, enabled, up, replays, crashes, faults, sent, fails, requeued>>

\* The database refuses the resolving transaction: logged, and the loop goes on
ResolveFails(d, e) ==
    /\ up[d] /\ verdict[d][e] \in Decisions
    /\ faults < MaxFaults
    /\ faults' = faults + 1
    /\ Release(d, e)
    /\ UNCHANGED <<rows, enabled, up, replays, crashes, sent, fails, requeued>>

-----------------------------------------------------------------------------
(* Crash and start.                                                        *)

Crash(d) ==
    /\ up[d] /\ crashes < MaxCrashes
    /\ crashes' = crashes + 1
    /\ up' = [up EXCEPT ![d] = FALSE]
    /\ verdict' = [verdict EXCEPT ![d] = [e \in Events |-> "none"]]
    /\ attempt' = [attempt EXCEPT ![d] = [e \in Events |-> 0]]
    /\ UNCHANGED <<rows, enabled, replays, faults, sent, fails, requeued>>

\* Mutant of Start: the recovery forgotten
Start_NoRecovery(d) ==
    /\ ~up[d]
    /\ up' = [up EXCEPT ![d] = TRUE]
    /\ enabled' \in FlagSets
    /\ UNCHANGED <<rows, verdict, attempt, replays, crashes, faults, sent, fails, requeued>>

\* Mutant of Start: the recovery requeues failed rows as well
Start_RequeueFailed(d) ==
    /\ ~up[d]
    /\ up' = [up EXCEPT ![d] = TRUE]
    /\ enabled' \in FlagSets
    /\ status' = [e \in Events |-> IF status[e] \in {"processing", "failed"} THEN "pending" ELSE status[e]]
    /\ requeued' = [e \in Events |-> IF status[e] = "processing" THEN requeued[e] + 1 ELSE requeued[e]]
    /\ UNCHANGED <<topic, retry, delayed, born, clock, verdict, attempt, replays, crashes, faults, sent, fails>>

\* Start: RecoverPendingEvents puts every processing row back to pending, also
\* those another dispatcher still works on; the process has loaded its flags
Start(d) ==
    /\ ~up[d]
    /\ up' = [up EXCEPT ![d] = TRUE]
    /\ enabled' \in FlagSets
    /\ status' = [e \in Events |-> IF status[e] = "processing" THEN "pending" ELSE status[e]]
    /\ requeued' = [e \in Events |-> IF status[e] = "processing" THEN requeued[e] + 1 ELSE requeued[e]]
    /\ UNCHANGED <<topic, retry, delayed, born, clock, verdict, attempt, replays, crashes, faults, sent, fails>>

\* Start when RecoverPendingEvents fails: logged, and the loop begins all the same
StartUnrecovered(d) ==
    /\ ~up[d] /\ faults < MaxFaults
    /\ faults' = faults + 1
    /\ up' = [up EXCEPT ![d] = TRUE]
    /\ enabled' \in FlagSets
    /\ UNCHANGED <<rows, verdict, attempt, replays, crashes, sent, fails, requeued>>

-----------------------------------------------------------------------------
EventStep(e) == PublishEvent(e) \/ ReplayOutbox(e) \/ DeleteOutbox(e) \/ BecomeAvailable(e)

ItemStep(d, e) ==
    DispatchOk(d, e) \/ DispatchError(d, e) \/ ResolveEvent(d, e) \/ ResolveFails(d, e)

ProcessStep(d) == ClaimEvents(d) \/ Crash(d) \/ Start(d) \/ StartUnrecovered(d)

Next ==
    \/ \E e \in Events : EventStep(e)
    \/ \E d \in Dispatchers, e \in Events : ItemStep(d, e)
    \/ \E d \in Dispatchers : ProcessStep(d)

Spec == Init /\ [][Next]_vars

\* The ticker keeps a running dispatcher claiming, its loop is not interrupted,
\* the supervisor restarts a crashed process, and time passes.
Fairness ==
    /\ \A d \in Dispatchers :
        /\ WF_vars(ClaimEvents(d))
        /\ WF_vars(Start(d))
        /\ \A e \in Events :
            /\ WF_vars(DispatchOk(d, e) \/ DispatchError(d, e))
            /\ WF_vars(ResolveEvent(d, e))
    /\ \A e \in Events : WF_vars(BecomeAvailable(e))

FairSpec == Spec /\ Fairness

-----------------------------------------------------------------------------
(* Properties.                                                             *)

\* Nothing is delivered twice without a reason: a row is dispatched successfully
\* at most once per insertion, operator replay and recovery, however many
\* dispatchers, retries and crashes interleave.
DeliveriesExplained == \A e \in Events : sent[e] <= 1 + requeued[e]

\* A row marked done really has been delivered.
DoneMeansSent == \A e \in Events : status[e] = "done" => sent[e] > 0

\* A row is never left in processing with nobody to finish it: somebody holds
\* it, or a dispatcher that will recover it on start is down, or the database
\* refused a resolve or a recovery.
NoStrandedEvent ==
    \A e \in Events :
        status[e] = "processing" =>
            \/ \E d \in Dispatchers : verdict[d][e] # "none"
            \/ \E d \in Dispatchers : ~up[d]
            \/ faults > 0

\* With one dispatcher, a row is attempted no more often than its policy allows
\* plus once for every replay and every recovery.
AttemptsBounded ==
    \A e \in Events : sent[e] + fails[e] <= MaxAttempts(topic[e]) + requeued[e]

\* With one dispatcher, done and failed are final but for the operator: no late
\* resolve overwrites a settled row.
Settled == {"done", "failed"}
SettledIsFinal ==
    [][\A e \in Events : status[e] \in Settled =>
            status'[e] = status[e] \/ ReplayOutbox(e) \/ DeleteOutbox(e)]_vars

\* Every row that is due to be delivered is settled in the end.
EventuallySettled ==
    \A e \in Events :
        status[e] \in {"pending", "processing"} ~> status[e] \in {"done", "failed", "deleted"}

\* Through crashes, restarts, replays and database errors no row is left with
\* nobody to finish it and none is delivered without an explanation.
OutboxSound == TypeOK /\ DeliveriesExplained /\ NoStrandedEvent
=============================================================================
