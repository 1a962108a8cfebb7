---------------------------- MODULE AlertIntake -----------------------------
(***************************************************************************)
(* How alerts become sessions: the webhook handler, which handles the      *)
(* alerts of a payload one after another, and HandleAlertEvent of the      *)
(* PostgreSQL store at the grain of its SQL statements, so that concurrent *)
(* transactions interleave as READ COMMITTED lets them.  The idempotency   *)
(* keys with their unique constraint, their expiry and the garbage         *)
(* collector, database errors, crashes and the retries of the sender are   *)
(* part of it.  What happens to a session afterwards is module Workflow.   *)
(***************************************************************************)
EXTENDS Naturals, Sequences, FiniteSets

CONSTANTS
    Requests,    \* webhook requests, each with the retries of its sender
    Alerts,      \* alerts told apart by labels and annotations, as hashVMAlert does
    Names,       \* values of "<alertname>:<instance>"
    Anonymous,   \* an alert without these two labels
    NameOf,      \* Alerts -> Names or Anonymous
    Payloads,    \* the sequences of alerts a webhook may carry
    MaxLen,      \* the longest of them
    None,        \* no request
    MaxFaults    \* bound: database errors, cancelled requests and crashes

ASSUME IntakeAssumption ==
    /\ Anonymous \notin Names
    /\ NameOf \in [Alerts -> Names \cup {Anonymous}]
    /\ MaxLen \in Nat /\ MaxFaults \in Nat
    /\ Payloads \subseteq Seq(Alerts)
    /\ \A p \in Payloads : Len(p) \in 1..MaxLen
    /\ None \notin Requests

Fingerprints == Names \cup 1..MaxLen

\* IngestVMAlert: an alert without a name is known by its place in the payload
fingerprint(a, i) == IF NameOf[a] = Anonymous THEN i ELSE NameOf[a]

VARIABLES
    key,       \* Alerts -> committed idempotency_keys row: "absent" | "live" | "expired"
    owner,     \* Alerts -> the transaction that has inserted it and not committed
    sessions,  \* Fingerprints -> number of committed sessions
    created,   \* history: Alerts -> sessions this alert has opened
    payload,   \* Requests -> the alerts it carries (<<>>: not sent yet)
    at,        \* Requests -> index of the alert being handled
    pc,        \* Requests -> next statement
    faults

db   == <<key, owner, sessions, created>>
vars == <<db, payload, at, pc, faults>>

InTx == {"insert", "hash", "found", "lookup", "repeat", "create"}

TypeOK ==
    /\ key \in [Alerts -> {"absent", "live", "expired"}]
    /\ owner \in [Alerts -> Requests \cup {None}]
    /\ sessions \in [Fingerprints -> Nat]
    /\ created \in [Alerts -> Nat]
    /\ payload \in [Requests -> Payloads \cup {<<>>}]
    /\ at \in [Requests -> Nat]
    /\ pc \in [Requests -> InTx \cup {"idle", "accepted", "error"}]
    /\ \A r \in Requests : pc[r] # "idle" => payload[r] \in Payloads /\ at[r] \in 1..Len(payload[r])
    /\ faults \in Nat

Init ==
    /\ key = [a \in Alerts |-> "absent"]
    /\ owner = [a \in Alerts |-> None]
    /\ sessions = [f \in Fingerprints |-> 0]
    /\ created = [a \in Alerts |-> 0]
    /\ payload = [r \in Requests |-> <<>>]
    /\ at = [r \in Requests |-> 1]
    /\ pc = [r \in Requests |-> "idle"]
    /\ faults = 0

alert(r) == payload[r][at[r]]
fp(r)    == fingerprint(alert(r), at[r])

-----------------------------------------------------------------------------
(* The webhook.                                                            *)

Receive(r, p) ==
    /\ pc[r] = "idle"
    /\ payload' = [payload EXCEPT ![r] = p]
    /\ at' = [at EXCEPT ![r] = 1]
    /\ pc' = [pc EXCEPT ![r] = "insert"]
    /\ UNCHANGED <<db, faults>>

\* the sender repeats a webhook that was answered with an error
Retry(r) ==
    /\ pc[r] = "error"
    /\ pc' = [pc EXCEPT ![r] = "insert"]
    /\ at' = [at EXCEPT ![r] = 1]
    /\ UNCHANGED <<db, payload, faults>>

\* Mutant of Advance: the loop runs past the last alert
Advance_PastEnd(r) ==
    LET last == at[r] > Len(payload[r]) IN
    /\ pc' = [pc EXCEPT ![r] = IF last THEN "accepted" ELSE "insert"]
    /\ at' = [at EXCEPT ![r] = IF last THEN @ ELSE @ + 1]

\* HandleAlertEvent has committed: on to the next alert, or the answer 200
Advance(r) ==
    LET last == at[r] = Len(payload[r]) IN
    /\ pc' = [pc EXCEPT ![r] = IF last THEN "accepted" ELSE "insert"]
    /\ at' = [at EXCEPT ![r] = IF last THEN @ ELSE @ + 1]

-----------------------------------------------------------------------------
(* HandleAlertEvent.                                                       *)

\* Mutant of InsertKey: the insert does not wait for a concurrent one
InsertKey_NoWait(r) ==
    /\ pc[r] = "insert"
    /\ IF key[alert(r)] = "absent"
       THEN /\ owner' = [owner EXCEPT ![alert(r)] = r]
            /\ pc' = [pc EXCEPT ![r] = "lookup"]
       ELSE /\ pc' = [pc EXCEPT ![r] = "hash"]
            /\ UNCHANGED owner
    /\ UNCHANGED <<key, sessions, created, payload, at, faults>>

\* INSERT ... ON CONFLICT DO NOTHING: waits for the transaction that has inserted
\* the same key, then finds it committed or inserts its own
InsertKey(r) ==
    /\ pc[r] = "insert"
    /\ owner[alert(r)] = None
    /\ IF key[alert(r)] = "absent"
       THEN /\ owner' = [owner EXCEPT ![alert(r)] = r]
            /\ pc' = [pc EXCEPT ![r] = "lookup"]
       ELSE /\ pc' = [pc EXCEPT ![r] = "hash"]
            /\ UNCHANGED owner
    /\ UNCHANGED <<key, sessions, created, payload, at, faults>>

\* SELECT request_hash: the same as ours, or the garbage collector was faster and
\* ErrNoRows ends the request
ReadHash(r) ==
    /\ pc[r] = "hash"
    /\ pc' = [pc EXCEPT ![r] = IF key[alert(r)] = "absent" THEN "error" ELSE "found"]
    /\ UNCHANGED <<db, payload, at, faults>>

\* A duplicate is answered with the session of its fingerprint; without one
\* ErrNoRows ends the request
FindDuplicate(r) ==
    /\ pc[r] = "found"
    /\ IF sessions[fp(r)] > 0
       THEN Advance(r)
       ELSE pc' = [pc EXCEPT ![r] = "error"] /\ UNCHANGED at
    /\ UNCHANGED <<db, payload, faults>>

\* a new key: is there a session with this fingerprint
LookupSession(r) ==
    /\ pc[r] = "lookup"
    /\ pc' = [pc EXCEPT ![r] = IF sessions[fp(r)] > 0 THEN "repeat" ELSE "create"]
    /\ UNCHANGED <<db, payload, at, faults>>

\* Mutant of CommitKey: the key becomes visible, its lock is never released
CommitKey_Locked(r) ==
    /\ key' = [key EXCEPT ![alert(r)] = "live"]
    /\ UNCHANGED owner

\* the key row becomes visible with the rest of its transaction
CommitKey(r) ==
    /\ key' = [key EXCEPT ![alert(r)] = "live"]
    /\ owner' = [owner EXCEPT ![alert(r)] = None]

\* alert_repeated goes to the timeline of the session that was found
CommitRepeat(r) ==
    /\ pc[r] = "repeat"
    /\ CommitKey(r)
    /\ Advance(r)
    /\ UNCHANGED <<sessions, created, payload, faults>>

\* Mutant of CommitCreate: the key is committed, the session is rolled back
CommitCreate_KeyOnly(r) ==
    /\ pc[r] = "create"
    /\ CommitKey(r)
    /\ Advance(r)
    /\ UNCHANGED <<sessions, created, payload, faults>>

\* the event, the session and its session.analyze_requested row
CommitCreate(r) ==
    /\ pc[r] = "create"
    /\ CommitKey(r)
    /\ sessions' = [sessions EXCEPT ![fp(r)] = @ + 1]
    /\ created' = [created EXCEPT ![alert(r)] = @ + 1]
    /\ Advance(r)
    /\ UNCHANGED <<payload, faults>>

-----------------------------------------------------------------------------
(* Failures and time.                                                      *)

\* the keys inserted by the transactions of R are rolled back
Rollback(R) == owner' = [a \in Alerts |-> IF owner[a] \in R THEN None ELSE owner[a]]

\* a statement or the commit fails, or the sender hangs up: the alerts before
\* this one stay committed
Fail(r) ==
    /\ pc[r] \in InTx /\ faults < MaxFaults
    /\ faults' = faults + 1
    /\ Rollback({r})
    /\ pc' = [pc EXCEPT ![r] = "error"]
    /\ UNCHANGED <<key, sessions, created, payload, at>>

\* the server process dies with all its requests
Crash ==
    /\ faults < MaxFaults
    /\ faults' = faults + 1
    /\ Rollback(Requests)
    /\ pc' = [r \in Requests |-> IF pc[r] \in InTx THEN "error" ELSE pc[r]]
    /\ UNCHANGED <<key, sessions, created, payload, at>>

\* expires_at is reached: time passes
Expire(a) ==
    /\ key[a] = "live"
    /\ key' = [key EXCEPT ![a] = "expired"]
    /\ UNCHANGED <<owner, sessions, created, payload, at, pc, faults>>

\* the garbage collector's RunOnce
DeleteExpiredIdempotencyKeys ==
    /\ \E a \in Alerts : key[a] = "expired"
    /\ key' = [a \in Alerts |-> IF key[a] = "expired" THEN "absent" ELSE key[a]]
    /\ UNCHANGED <<owner, sessions, created, payload, at, pc, faults>>

-----------------------------------------------------------------------------
HandleAlertEvent(r) ==
    \/ InsertKey(r) \/ ReadHash(r) \/ FindDuplicate(r)
    \/ LookupSession(r) \/ CommitRepeat(r) \/ CommitCreate(r)

Next ==
    \/ \E r \in Requests : (\E p \in Payloads : Receive(r, p)) \/ Retry(r) \/ HandleAlertEvent(r) \/ Fail(r)
    \/ Crash
    \/ \E a \in Alerts : Expire(a)
    \/ DeleteExpiredIdempotencyKeys

Spec == Init /\ [][Next]_vars

\* the SELECT of the key follows the INSERT that found it, before its time is up
FindsKey(r, a) == pc[r] = "hash" /\ alert(r) = a /\ key[a] # "absent" /\ ReadHash(r)

\* A request's goroutine keeps running and the sender repeats what failed.  A key
\* lives for 24 hours, so the garbage collector does not get between these two
\* statements again and again for ever.
Fairness ==
    \A r \in Requests :
        /\ WF_vars(HandleAlertEvent(r)) /\ WF_vars(Retry(r))
        /\ \A a \in Alerts : SF_vars(FindsKey(r, a))

FairSpec == Spec /\ Fairness

-----------------------------------------------------------------------------
(* Properties.                                                             *)

\* The same alert, sent again, at the same time, after an error, a crash or the
\* expiry of its key, never opens a second session.
OneSessionPerAlert == \A a \in Alerts : NameOf[a] # Anonymous => created[a] <= 1

\* A webhook answered with 200 has a session for each of its alerts, also for the
\* ones it took for duplicates.
AcceptedHasSession ==
    \A r \in Requests : pc[r] = "accepted" =>
        \A i \in 1..Len(payload[r]) : sessions[fingerprint(payload[r][i], i)] > 0

\* An alert has a session as soon as it is accepted, and never two.
IntakeSound == TypeOK /\ OneSessionPerAlert /\ AcceptedHasSession

\* Nobody waits for a key for ever: with a sender that repeats what failed, every
\* webhook is accepted.
EveryWebhookAccepted == \A r \in Requests : pc[r] = "insert" ~> pc[r] = "accepted"
=============================================================================
