------------------------------ MODULE Telegram ------------------------------
(***************************************************************************)
(* Buttons and messages that arrive from Telegram, by long polling or by   *)
(* webhook, and what they do to execution requests and sessions in the     *)
(* PostgreSQL store; and the approval-timeout worker, which answers the    *)
(* same requests.  Telegram repeats an update until it is confirmed: by    *)
(* the offset of the next poll, or by a 200 answer of the webhook.  A      *)
(* fault is a failed database or network call, among them the cancelled    *)
(* context of a webhook request Telegram no longer waits for.              *)
(***************************************************************************)
EXTENDS Integers, Sequences, FiniteSets, SequencesExt, Listing

CONSTANTS
    Approvals,      \* execution requests awaiting approval
    MaxUpdates,    \* bound: updates users send
    Handlers,      \* goroutines that process updates; the poller is one
    Poller,
    Targets,       \* number of chats told of a timeout
    MaxTgFaults,   \* bound: failed calls
    MaxTgCrashes,  \* bound: crashes
    MaxRepeats     \* bound: deliveries of one update by webhook

Updates == 1..MaxUpdates
NoUpdate == 0

ASSUME TelegramAssumption ==
    /\ IsFiniteSet(Approvals) /\ MaxUpdates \in Nat \ {0} /\ Poller \in Handlers /\ Targets \in Nat \ {0}
    /\ MaxTgFaults \in Nat /\ MaxTgCrashes \in Nat /\ MaxRepeats \in Nat \ {0}

VARIABLES
    mode,        \* "poll" or "webhook"
    alive,       \* does the process run
    update,      \* what each update asks for: [act, req]
    held,        \* updates Telegram still holds
    repeats,     \* deliveries of each update
    offset,      \* local variable of StartPolling
    batch,       \* the updates of the last answer that are still to be processed
    hand,        \* what each handler is doing: [u, pc]
    keys,        \* idempotency_keys
    request,     \* execution_requests.status
    opened,      \* history: sessions opened by each update
    started,     \* history: times each request was executed
    taken,       \* history: updates handed to processTelegramUpdate
    broken,      \* history: updates whose processing met a fault or a crash
    sweep,       \* notifications the timeout worker still has to send
    expired,     \* history: requests rejected by timeout
    warned,      \* history: timeout messages sent
    cutShort,    \* history: requests whose sweep was ended by a fault or a crash
    tgFaults, tgCrashes

tgVars == <<mode, alive, update, held, repeats, offset, batch, hand, keys, request, opened,
            started, taken, broken, sweep, expired, warned, cutShort, tgFaults, tgCrashes>>
sweepVars == <<sweep, expired, warned, cutShort>>

NoUpdateAsked == [act |-> "none", req |-> NoUpdate]
Idle == [u |-> NoUpdate, pc |-> "idle"]

TelegramTypeOK ==
    /\ mode \in {"poll", "webhook"} /\ alive \in BOOLEAN
    /\ \A u \in Updates : update[u].act \in {"none", "approve", "reject", "chat"}
    /\ held \subseteq Updates /\ repeats \in [Updates -> 0..MaxRepeats]
    /\ offset \in 0 .. MaxUpdates + 1
    /\ \A i \in DOMAIN batch : batch[i] \in held
    /\ \A h \in Handlers : /\ hand[h].u \in Updates \cup {NoUpdate}
                           /\ hand[h].pc \in {"idle", "begin", "notify", "execute", "finish", "tell",
                                              "ok", "error"}
    /\ keys \subseteq Updates
    /\ request \in [Approvals -> {"pending", "executing", "rejected", "finished"}]
    /\ opened \in [Updates -> Nat] /\ started \in [Approvals -> Nat]
    /\ taken \subseteq Updates /\ broken \subseteq Updates
    /\ sweep \in Seq(Approvals \X (1..Targets)) /\ expired \subseteq Approvals
    /\ warned \subseteq Approvals \X (1..Targets) /\ cutShort \subseteq Approvals
    /\ tgFaults \in 0..MaxTgFaults /\ tgCrashes \in 0..MaxTgCrashes

TelegramInit ==
    /\ mode \in {"poll", "webhook"} /\ alive = TRUE
    /\ update = [u \in Updates |-> NoUpdateAsked] /\ held = {}
    /\ repeats = [u \in Updates |-> 0]
    /\ offset = 0 /\ batch = <<>> /\ hand = [h \in Handlers |-> Idle]
    /\ keys = {} /\ request = [r \in Approvals |-> "pending"]
    /\ opened = [u \in Updates |-> 0] /\ started = [r \in Approvals |-> 0]
    /\ taken = {} /\ broken = {}
    /\ sweep = <<>> /\ expired = {} /\ warned = {} /\ cutShort = {}
    /\ tgFaults = 0 /\ tgCrashes = 0

-----------------------------------------------------------------------------
(* The users, and Telegram.                                                *)

\* a button of an approval message, pressed perhaps twice, or a chat message
SendUpdate(act, r) ==
    /\ \E u \in Updates :
          /\ update[u] = NoUpdateAsked /\ \A v \in 1 .. u - 1 : update[v] # NoUpdateAsked
          /\ update' = [update EXCEPT ![u] = [act |-> act, req |-> r]]
          /\ held' = held \cup {u}
    /\ UNCHANGED <<mode, alive, repeats, offset, batch, hand, keys, request, opened, started,
                   taken, broken, sweepVars, tgFaults, tgCrashes>>

GetUpdates_UntilError ==
    /\ mode = "poll" /\ alive /\ hand[Poller] = Idle /\ batch = <<>> /\ tgFaults = 0
    /\ held' = {u \in held : u >= offset}
    /\ \/ batch' \in Ascending(held') /\ batch' # <<>> /\ UNCHANGED tgFaults
       \/ tgFaults < MaxTgFaults /\ tgFaults' = tgFaults + 1 /\ batch' = <<>>
    /\ UNCHANGED <<mode, alive, update, repeats, offset, hand, keys, request, opened, started,
                   taken, broken, sweepVars, tgCrashes>>

\* getUpdates(offset) confirms everything below the offset and returns the rest,
\* oldest first; the answer may be lost
GetUpdates ==
    /\ mode = "poll" /\ alive /\ hand[Poller] = Idle /\ batch = <<>>
    /\ held' = {u \in held : u >= offset}
    /\ \/ batch' \in Ascending(held') /\ batch' # <<>> /\ UNCHANGED tgFaults
       \/ tgFaults < MaxTgFaults /\ tgFaults' = tgFaults + 1 /\ batch' = <<>>
       \/ held' # held /\ held' = {} /\ batch' = <<>> /\ UNCHANGED tgFaults
    /\ UNCHANGED <<mode, alive, update, repeats, offset, hand, keys, request, opened, started,
                   taken, broken, sweepVars, tgCrashes>>

NextOffset_SkipsOne(u) == IF u >= offset THEN IF u < MaxUpdates THEN u + 2 ELSE u + 1 ELSE offset

\* the offset moves past an update before it is processed
NextOffset(u) == IF u >= offset THEN u + 1 ELSE offset

TakeNext ==
    /\ alive /\ hand[Poller] = Idle /\ batch # <<>>
    /\ offset' = NextOffset(Head(batch))
    /\ batch' = Tail(batch)
    /\ hand' = [hand EXCEPT ![Poller] = [u |-> Head(batch), pc |-> "begin"]]
    /\ taken' = taken \cup {Head(batch)}
    /\ UNCHANGED <<mode, alive, update, held, repeats, keys, request, opened, started, broken,
                   sweepVars, tgFaults, tgCrashes>>

\* an update is posted to the webhook, perhaps while its first delivery still runs
Deliver(h, u) ==
    /\ mode = "webhook" /\ alive /\ u \in held /\ hand[h] = Idle /\ repeats[u] < MaxRepeats
    /\ repeats' = [repeats EXCEPT ![u] = @ + 1]
    /\ hand' = [hand EXCEPT ![h] = [u |-> u, pc |-> "begin"]]
    /\ taken' = taken \cup {u}
    /\ UNCHANGED <<mode, alive, update, held, offset, batch, keys, request, opened, started,
                   broken, sweepVars, tgFaults, tgCrashes>>

-----------------------------------------------------------------------------
(* processTelegramUpdate.                                                  *)

Act(h) == update[hand[h].u].act
Asked(h) == update[hand[h].u].req
Goto(h, pc) == hand' = [hand EXCEPT ![h].pc = pc]

\* ensureIdempotency: was this update already applied
Seen_Never(u) == FALSE

Seen(u) == u \in keys

\* HandleAlertEvent for a chat message: the key and the session in one transaction
HandleMessage(h) ==
    /\ hand[h].pc = "begin" /\ Act(h) = "chat"
    /\ IF Seen(hand[h].u) THEN UNCHANGED <<keys, opened>>
       ELSE /\ keys' = keys \cup {hand[h].u}
            /\ opened' = [opened EXCEPT ![hand[h].u] = @ + 1]
    /\ Goto(h, "tell")
    /\ UNCHANGED <<mode, alive, update, held, repeats, offset, batch, request, started, taken,
                   broken, sweepVars, tgFaults, tgCrashes>>

Verdict_Raw(act) == act

Verdict(act) == IF act = "approve" THEN "executing" ELSE "rejected"

\* HandleChannelEvent, with executions enabled: a repeated update does nothing and is answered with
\* success; an answered request is an error and nothing is stored
HandleCallback(h) ==
    /\ hand[h].pc = "begin" /\ Act(h) \in {"approve", "reject"}
    /\ \/ Seen(hand[h].u) /\ Goto(h, "ok") /\ UNCHANGED <<keys, request>>
       \/ /\ ~Seen(hand[h].u) /\ request[Asked(h)] # "pending"
          /\ Goto(h, "error")
          /\ UNCHANGED <<keys, request>>
       \/ /\ ~Seen(hand[h].u) /\ request[Asked(h)] = "pending"
          /\ keys' = keys \cup {hand[h].u}
          /\ request' = [request EXCEPT ![Asked(h)] = Verdict(Act(h))]
          /\ Goto(h, "notify")
    /\ UNCHANGED <<mode, alive, update, held, repeats, offset, batch, opened, started, taken,
                   broken, sweepVars, tgFaults, tgCrashes>>

\* deliverNotifications: sent, or else queued
Notify(h) ==
    /\ hand[h].pc \in {"notify", "tell"}
    /\ Goto(h, IF hand[h].pc = "notify" /\ Act(h) = "approve" THEN "execute" ELSE "ok")
    /\ UNCHANGED <<mode, alive, update, held, repeats, offset, batch, keys, request, opened,
                   started, taken, broken, sweepVars, tgFaults, tgCrashes>>

ExecuteApproved(h) ==
    /\ hand[h].pc = "execute"
    /\ started' = [started EXCEPT ![Asked(h)] = @ + 1]
    /\ Goto(h, "finish")
    /\ UNCHANGED <<mode, alive, update, held, repeats, offset, batch, keys, request, opened,
                   taken, broken, sweepVars, tgFaults, tgCrashes>>

\* HandleExecutionResult; the verification and the result message follow
StoreResult_Forgotten(h) ==
    /\ hand[h].pc = "finish"
    /\ Goto(h, "tell")
    /\ UNCHANGED <<mode, alive, update, held, repeats, offset, batch, keys, request, opened,
                   started, taken, broken, sweepVars, tgFaults, tgCrashes>>

StoreResult(h) ==
    /\ hand[h].pc = "finish"
    /\ request' = [request EXCEPT ![Asked(h)] = "finished"]
    /\ Goto(h, "tell")
    /\ UNCHANGED <<mode, alive, update, held, repeats, offset, batch, keys, opened,
                   started, taken, broken, sweepVars, tgFaults, tgCrashes>>

\* a call fails: the rest of the processing is abandoned
ProcessingFails(h) ==
    /\ hand[h].pc \in {"begin", "notify", "finish", "tell"} /\ tgFaults < MaxTgFaults
    /\ tgFaults' = tgFaults + 1
    /\ broken' = broken \cup {hand[h].u}
    /\ Goto(h, "error")
    /\ UNCHANGED <<mode, alive, update, held, repeats, offset, batch, keys, request, opened,
                   started, taken, sweepVars, tgCrashes>>

\* the poller goes on, whatever the outcome; the webhook answers 200 or an error,
\* after which Telegram tries again
Answered_Always(h) == mode = "webhook"

Answered(h) == mode = "webhook" /\ hand[h].pc = "ok"

EndUpdate(h) ==
    /\ hand[h].pc \in {"ok", "error"}
    /\ held' = IF Answered(h) THEN held \ {hand[h].u} ELSE held
    /\ hand' = [hand EXCEPT ![h] = Idle]
    /\ UNCHANGED <<mode, alive, update, repeats, offset, batch, keys, request, opened,
                   started, taken, broken, sweepVars, tgFaults, tgCrashes>>

-----------------------------------------------------------------------------
(* ApprovalTimeoutWorker.RunOnce: all expired requests are rejected in one *)
(* transaction, then each of their targets is sent a message.              *)

\* rows another transaction has locked are skipped
SweepApprovalTimeouts ==
    /\ alive /\ sweep = <<>>
    /\ \E due \in SUBSET {r \in Approvals : request[r] = "pending"} :
          /\ due # {}
          /\ request' = [r \in Approvals |-> IF r \in due THEN "rejected" ELSE request[r]]
          /\ expired' = expired \cup due
          /\ sweep' = SetToSeq(due \X (1..Targets))
    /\ UNCHANGED <<mode, alive, update, held, repeats, offset, batch, hand, keys, opened,
                   started, taken, broken, warned, cutShort, tgFaults, tgCrashes>>

Unsent == {sweep[i][1] : i \in DOMAIN sweep}

\* the first message that cannot be sent ends the cycle
SendTimeout_Half ==
    /\ sweep # <<>>
    /\ warned' = warned \cup {Head(sweep)} /\ sweep' = <<>> /\ UNCHANGED <<cutShort, tgFaults>>
    /\ UNCHANGED <<mode, alive, update, held, repeats, offset, batch, hand, keys, request, opened,
                   started, taken, broken, expired, tgCrashes>>

SendTimeout ==
    /\ sweep # <<>>
    /\ \/ /\ warned' = warned \cup {Head(sweep)}
          /\ sweep' = Tail(sweep)
          /\ UNCHANGED <<cutShort, tgFaults>>
       \/ /\ tgFaults < MaxTgFaults
          /\ tgFaults' = tgFaults + 1
          /\ cutShort' = cutShort \cup Unsent
          /\ sweep' = <<>>
          /\ UNCHANGED warned
    /\ UNCHANGED <<mode, alive, update, held, repeats, offset, batch, hand, keys, request, opened,
                   started, taken, broken, expired, tgCrashes>>

-----------------------------------------------------------------------------
(* Crash and restart.                                                      *)

TgCrash ==
    /\ alive /\ tgCrashes < MaxTgCrashes
    /\ tgCrashes' = tgCrashes + 1
    /\ alive' = FALSE
    /\ broken' = broken \cup {hand[h].u : h \in {k \in Handlers : hand[k] # Idle}}
    /\ cutShort' = cutShort \cup Unsent
    /\ hand' = [h \in Handlers |-> Idle] /\ batch' = <<>> /\ sweep' = <<>> /\ offset' = 0
    /\ UNCHANGED <<mode, update, held, repeats, keys, request, opened, started, taken,
                   expired, warned, tgFaults>>

TgRestart ==
    /\ ~alive /\ alive' = TRUE
    /\ UNCHANGED <<mode, update, held, repeats, offset, batch, hand, keys, request, opened,
                   started, taken, broken, sweepVars, tgFaults, tgCrashes>>

Process(h) == HandleMessage(h) \/ HandleCallback(h) \/ Notify(h) \/ ExecuteApproved(h)
              \/ StoreResult(h) \/ EndUpdate(h)

TelegramNext ==
    \/ \E act \in {"approve", "reject"}, r \in Approvals : SendUpdate(act, r)
    \/ SendUpdate("chat", NoUpdate)
    \/ GetUpdates \/ TakeNext
    \/ \E h \in Handlers : \/ \E u \in Updates : Deliver(h, u)
                           \/ Process(h) \/ ProcessingFails(h)
    \/ SweepApprovalTimeouts \/ SendTimeout
    \/ TgCrash \/ TgRestart

\* the poller loops, a handler runs to its end, a stopped server is started again
TelegramFairness == /\ WF_tgVars(GetUpdates) /\ WF_tgVars(TakeNext) /\ WF_tgVars(TgRestart)
                    /\ \A h \in Handlers : WF_tgVars(Process(h))

TelegramSpec == TelegramInit /\ [][TelegramNext]_tgVars /\ TelegramFairness

-----------------------------------------------------------------------------
(* Properties.                                                             *)

\* HandleChannelEvent, HandleAlertEvent: however often Telegram repeats an update,
\* after crashes and beside its first delivery, a request is executed at most once
\* and a message opens at most one session
UpdateAppliedOnce == /\ \A r \in Approvals : started[r] <= 1
                     /\ \A u \in Updates : opened[u] <= 1

\* StartPolling: the offset never confirms an update that was not handed to
\* processTelegramUpdate, whatever is lost between polls and in crashes
ConfirmedWasTaken ==
    \A u \in Updates : mode = "poll" /\ update[u] # NoUpdateAsked /\ u \notin held => u \in taken

\* An update Telegram has let go was applied, or its request was already answered,
\* unless a call of the poller failed: the webhook loses none, the poller only those
LostOnlyToFaults ==
    \A u \in Updates :
        /\ update[u] # NoUpdateAsked /\ u \notin held
        /\ u \notin {hand[h].u : h \in Handlers}
        => \/ u \in keys
           \/ mode = "poll" /\ u \in broken
           \/ mode = "poll" /\ update[u].act # "chat" /\ request[update[u].req] # "pending"

\* An approved request that nobody is executing got its result, unless the handling
\* of an approval failed or died after it was stored: the repeated update is then
\* taken for a duplicate and the request stays executing
StuckOnlyByFault ==
    \A r \in Approvals : request[r] = "executing" =>
        \/ \E h \in Handlers : hand[h].pc \in {"notify", "execute", "finish"} /\ Asked(h) = r
        \/ \E u \in broken : update[u].act = "approve" /\ update[u].req = r

\* RunOnce of the timeout worker: every target of a request it rejected has been told
\* or is about to be, unless a message of that sweep failed or the process died
TimeoutsTold ==
    \A r \in expired \ cutShort, t \in 1..Targets :
        <<r, t>> \in warned \/ <<r, t>> \in ToSet(sweep)

\* StartPolling: every update a user sends is eventually processed
UpdatesTaken == \A u \in Updates : mode = "poll" /\ u \in held ~> u \in taken

\* An update is applied once, and is lost or leaves its request stuck only where a
\* call failed or the process died.
UpdatesSound == /\ TelegramTypeOK /\ UpdateAppliedOnce /\ ConfirmedWasTaken
                /\ LostOnlyToFaults /\ StuckOnlyByFault

\* So it is with updates, and the targets of a request that timed out hear of it.
TelegramSound == UpdatesSound /\ TimeoutsTold
=============================================================================
