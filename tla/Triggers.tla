------------------------------ MODULE Triggers ------------------------------
(***************************************************************************)
(* Trigger policies and the messages they send.  FireEvent is called by    *)
(* the dispatcher and by the automation scheduler, so calls overlap: each  *)
(* reads the matching triggers once, then sends for one after the other    *)
(* and records the time.  Administrators edit triggers and channels, users *)
(* read the inbox, the process restarts.  Triggers and the inbox live in   *)
(* PostgreSQL or, without one, in memory.                                  *)
(***************************************************************************)
EXTENDS Integers, Sequences, FiniteSets, Listing

CONSTANTS
    Trigs,         \* numbers of the triggers, in the order of their ids
    Firers,        \* callers of FireEvent
    Editors,       \* administrators
    Cooldowns,     \* cooldown periods in use
    MaxClock,      \* bound: the time
    MaxFires,      \* bound: events
    MaxTrigEdits   \* bound: edits

Direct == {"in_app_inbox", "telegram"}
\* a trigger names a direct channel or the channel "ops"; either id may be configured
ChannelIds == {"in_app_inbox", "ops"}
Kinds == Direct \cup {"email", "missing"}

ASSUME TriggersAssumption ==
    /\ Trigs \subseteq Nat /\ IsFiniteSet(Trigs)
    /\ Cooldowns \subseteq Nat /\ \E c \in Cooldowns : \A d \in Cooldowns : c >= d
    /\ MaxClock \in Nat \ {0} /\ MaxFires \in Nat /\ MaxTrigEdits \in Nat

VARIABLES
    store,      \* "db" or "memory"
    trg,        \* the triggers
    kinds,      \* the kind of the channel configured under an id
    clock,
    fire,       \* what each call of FireEvent is doing
    edit,       \* what each administrator's enable or disable is doing
    sent,       \* history: messages, with the time they were recorded, 0 if not
    inbox,      \* the inbox: which messages are there, and read or not
    muted,      \* history: disabled and acknowledged, no edit begun since
    saved,      \* history: the last acknowledged settings
    fires, trigEdits

trgVars == <<store, trg, kinds, clock, fire, edit, sent, inbox, muted, saved, fires, trigEdits>>

Settings == [on : BOOLEAN, ch : ChannelIds, cool : Cooldowns]
Default == [on |-> TRUE, ch |-> "in_app_inbox", cool |-> CHOOSE c \in Cooldowns : \A d \in Cooldowns : c >= d]
Config(t) == [on |-> t.on, ch |-> t.ch, cool |-> t.cool]
WithLast(c, last) == [on |-> c.on, ch |-> c.ch, cool |-> c.cool, last |-> last]
NoFire == [pc |-> "idle", now |-> 0, todo |-> <<>>, known |-> {}, off |-> {}, msg |-> 0, at |-> 0]
NoSwitch == [pc |-> "idle", t |-> 0, copy |-> WithLast(Default, 0)]

TriggersTypeOK ==
    /\ store \in {"db", "memory"} /\ kinds \in [ChannelIds -> Kinds] /\ clock \in 1..MaxClock
    /\ \A t \in Trigs : Config(trg[t]) \in Settings /\ trg[t].last \in 0..MaxClock
    /\ \A f \in Firers : /\ fire[f].pc \in {"idle", "next", "record", "save"}
                         /\ fire[f].known \subseteq DOMAIN sent
    /\ \A i \in DOMAIN sent : sent[i].t \in Trigs /\ sent[i].via \in Direct
    /\ DOMAIN inbox \subseteq DOMAIN sent /\ \A i \in DOMAIN inbox : inbox[i] \in BOOLEAN
    /\ muted \subseteq Trigs
    /\ fires \in 0..MaxFires /\ trigEdits \in 0..MaxTrigEdits

TriggersInit ==
    /\ store \in {"db", "memory"}
    /\ trg = [t \in Trigs |-> WithLast(Default, 0)]
    /\ kinds \in [ChannelIds -> Kinds] /\ clock = 1
    /\ fire = [f \in Firers |-> NoFire] /\ edit = [a \in Editors |-> NoSwitch]
    /\ sent = <<>> /\ inbox = <<>> /\ muted = {}
    /\ saved = [t \in Trigs |-> Default]
    /\ fires = 0 /\ trigEdits = 0

-----------------------------------------------------------------------------
(* FireEvent.                                                              *)

\* MatchEnabled: the enabled triggers whose filter and audience fit the event
MatchEnabled_Any(f) ==
    /\ fire[f].pc = "idle" /\ fires < MaxFires
    /\ fires' = fires + 1
    /\ \E m \in SUBSET Trigs : \E ids \in Ascending(m) :
          /\ m # {}
          /\ fire' = [fire EXCEPT ![f] =
                [pc |-> "next", now |-> clock, msg |-> 0, at |-> 0,
                 todo |-> [i \in DOMAIN ids |-> [t |-> ids[i], copy |-> trg[ids[i]]]],
                 known |-> {i \in DOMAIN sent : sent[i].at # 0}, off |-> muted]]
    /\ UNCHANGED <<store, trg, kinds, clock, edit, sent, inbox, muted, saved, trigEdits>>

MatchEnabled(f) ==
    /\ fire[f].pc = "idle" /\ fires < MaxFires
    /\ fires' = fires + 1
    /\ \E m \in SUBSET {t \in Trigs : trg[t].on} : \E ids \in Ascending(m) :
          /\ m # {}
          /\ fire' = [fire EXCEPT ![f] =
                [pc |-> "next", now |-> clock, msg |-> 0, at |-> 0,
                 todo |-> [i \in DOMAIN ids |-> [t |-> ids[i], copy |-> trg[ids[i]]]],
                 known |-> {i \in DOMAIN sent : sent[i].at # 0}, off |-> muted]]
    /\ UNCHANGED <<store, trg, kinds, clock, edit, sent, inbox, muted, saved, trigEdits>>

IsOnCooldown(c, now) == c.cool > 0 /\ c.last # 0 /\ now < c.last + c.cool

\* resolvedTriggerDelivery: a configured channel delivers as its kind, if that is
\* one the worker can deliver to, even under the id of a direct channel
Delivery_Raw(ch) == IF kinds[ch] # "missing" THEN kinds[ch] ELSE IF ch \in Direct THEN ch ELSE ""

Delivery(ch) == IF kinds[ch] \in Direct THEN kinds[ch] ELSE IF ch \in Direct THEN ch ELSE ""

\* CompositeService.SendMessage: the inbox, else Telegram
InboxAfter_Volatile(via) ==
    IF via = "in_app_inbox" THEN [i \in {Len(sent) + 1} |-> FALSE] ELSE inbox

InboxAfter(via) ==
    IF via = "in_app_inbox"
    THEN [i \in DOMAIN inbox \cup {Len(sent) + 1} |-> IF i \in DOMAIN inbox THEN inbox[i] ELSE FALSE]
    ELSE inbox

Rest(f) == IF Len(fire[f].todo) = 1 THEN NoFire ELSE [fire[f] EXCEPT !.todo = Tail(@), !.pc = "next"]

\* on cooldown, undeliverable or the send failed: go on with the next one
SkipTrigger(f) ==
    /\ fire[f].pc = "next"
    /\ fire' = [fire EXCEPT ![f] = Rest(f)]
    /\ UNCHANGED <<store, trg, kinds, clock, edit, sent, inbox, muted, saved, fires, trigEdits>>

SendTrigger(f) ==
    /\ fire[f].pc = "next"
    /\ LET d   == Head(fire[f].todo)
           via == Delivery(d.copy.ch)
       IN  /\ ~IsOnCooldown(d.copy, fire[f].now) /\ via # ""
           /\ sent' = Append(sent, [t |-> d.t, via |-> via, now |-> fire[f].now, at |-> 0,
                                    cool |-> d.copy.cool, known |-> fire[f].known,
                                    off |-> d.t \in fire[f].off])
           /\ inbox' = InboxAfter(via)
           /\ fire' = [fire EXCEPT ![f].pc = "record", ![f].msg = Len(sent) + 1]
    /\ UNCHANGED <<store, trg, kinds, clock, edit, muted, saved, fires, trigEdits>>

\* RecordFired reads the time, then sets it in the row; an error is ignored
RecordFired(f) ==
    /\ fire[f].pc = "record"
    /\ fire' = [fire EXCEPT ![f].pc = "save", ![f].at = clock]
    /\ UNCHANGED <<store, trg, kinds, clock, edit, sent, inbox, muted, saved, fires, trigEdits>>

\* message i of sent once time at is in the row of trigger t for message msg: a
\* call that overlaps may have written a later time, which is gone
Stamped(i, msg, t, at) ==
    IF i = msg \/ (sent[i].t = t /\ sent[i].at > at) THEN [sent[i] EXCEPT !.at = at] ELSE sent[i]

SaveFired(f) ==
    /\ fire[f].pc = "save"
    /\ LET t == Head(fire[f].todo).t
       IN  \/ /\ trg' = [trg EXCEPT ![t].last = fire[f].at]
              /\ sent' = [i \in DOMAIN sent |-> Stamped(i, fire[f].msg, t, fire[f].at)]
           \/ UNCHANGED <<trg, sent>>
    /\ fire' = [fire EXCEPT ![f] = Rest(f)]
    /\ UNCHANGED <<store, kinds, clock, edit, inbox, muted, saved, fires, trigEdits>>

-----------------------------------------------------------------------------
(* Administrators.                                                         *)

\* Upsert: the database keeps its last_fired_at, the memory store takes the copy's
Upserted_WithLast(t, copy) == copy

Upserted(t, copy) == IF store = "db" THEN [copy EXCEPT !.last = trg[t].last] ELSE copy

\* validateTriggerDeliveryChannel: a channel that is not configured passes
Accepts(ch) == ch \in Direct \/ kinds[ch] \in Direct \cup {"missing"}

NoEditOf(t, a) == \A b \in Editors \ {a} : edit[b].t # t

Acked(t, a, copy) ==
    /\ trg' = [trg EXCEPT ![t] = Upserted(t, copy)]
    /\ saved' = [saved EXCEPT ![t] = Config(copy)]
    /\ muted' = IF ~copy.on /\ NoEditOf(t, a) THEN muted \cup {t} ELSE muted \ {t}

\* POST or PUT: the settings of the form, which has no last_fired_at
PutTrigger(a, t, c) ==
    /\ edit[a] = NoSwitch /\ trigEdits < MaxTrigEdits /\ Accepts(c.ch)
    /\ trigEdits' = trigEdits + 1
    /\ Acked(t, a, WithLast(c, 0))
    /\ UNCHANGED <<store, kinds, clock, fire, edit, sent, inbox, fires>>

\* SetEnabled reads the trigger, then saves all of it
BeginSwitch(a, t, on) ==
    /\ edit[a] = NoSwitch /\ trigEdits < MaxTrigEdits
    /\ trigEdits' = trigEdits + 1
    /\ edit' = [edit EXCEPT ![a] = [pc |-> "save", t |-> t, copy |-> [trg[t] EXCEPT !.on = on]]]
    /\ muted' = muted \ {t}
    /\ UNCHANGED <<store, trg, kinds, clock, fire, sent, inbox, saved, fires>>

EndSwitch(a) ==
    /\ edit[a].pc = "save"
    /\ Acked(edit[a].t, a, edit[a].copy)
    /\ edit' = [edit EXCEPT ![a] = NoSwitch]
    /\ UNCHANGED <<store, kinds, clock, fire, sent, inbox, fires, trigEdits>>

EditChannel ==
    /\ trigEdits < MaxTrigEdits
    /\ trigEdits' = trigEdits + 1
    /\ \E c \in ChannelIds : \E k \in Kinds \ {kinds[c]} : kinds' = [kinds EXCEPT ![c] = k]
    /\ UNCHANGED <<store, trg, clock, fire, edit, sent, inbox, muted, saved, fires>>

\* MarkRead, MarkAllRead
MarkRead ==
    /\ \E is \in SUBSET DOMAIN inbox :
          /\ Cardinality(is) = 1 \/ is = DOMAIN inbox
          /\ inbox' = [i \in DOMAIN inbox |-> inbox[i] \/ i \in is]
    /\ UNCHANGED <<store, trg, kinds, clock, fire, edit, sent, muted, saved, fires, trigEdits>>

-----------------------------------------------------------------------------

Tick ==
    /\ clock < MaxClock /\ clock' = clock + 1
    /\ UNCHANGED <<store, trg, kinds, fire, edit, sent, inbox, muted, saved, fires, trigEdits>>

\* seedDefaults: in the database a default that exists is left alone
Seeded_Overwrites(t) == WithLast(Default, 0)

Seeded(t) == IF store = "db" THEN trg[t] ELSE WithLast(Default, 0)

RestartTriggers ==
    /\ trg' = [t \in Trigs |-> Seeded(t)]
    /\ inbox' = IF store = "db" THEN inbox ELSE <<>>
    /\ fire' = [f \in Firers |-> NoFire] /\ edit' = [a \in Editors |-> NoSwitch]
    /\ muted' = IF store = "db" THEN muted ELSE {}
    /\ UNCHANGED <<store, kinds, clock, sent, saved, fires, trigEdits>>

TriggersNext ==
    \/ \E f \in Firers : MatchEnabled(f) \/ SkipTrigger(f) \/ SendTrigger(f)
                         \/ RecordFired(f) \/ SaveFired(f)
    \/ \E a \in Editors :
          \/ \E t \in Trigs : \/ \E c \in Settings : PutTrigger(a, t, c)
                              \/ \E on \in BOOLEAN : BeginSwitch(a, t, on)
          \/ EndSwitch(a)
    \/ EditChannel \/ MarkRead \/ Tick \/ RestartTriggers

TriggersSpec == TriggersInit /\ [][TriggersNext]_trgVars

-----------------------------------------------------------------------------
(* Properties.                                                             *)

\* FireEvent: with PostgreSQL, a call begun after a message of the trigger was
\* recorded does not send another within the cooldown, although the trigger is
\* edited, disabled and enabled in between and the process restarts.  Calls that
\* overlap may both send, and the one that saves last may set the older time: the
\* cooldown then runs from that time
CooldownKept ==
    store = "db" => \A j \in DOMAIN sent : \A i \in sent[j].known :
        sent[i].t = sent[j].t => sent[j].now >= sent[i].at + sent[j].cool

\* SetEnabled, MatchEnabled: once disabling a trigger was acknowledged and nobody
\* edits it, an event that comes later sends nothing for it
DisabledSilent == \A i \in DOMAIN sent : ~sent[i].off

\* seedDefaults, Upsert: with PostgreSQL the settings in force are the ones last
\* acknowledged, across restarts that seed the defaults again
SettingsKept == store = "db" => \A t \in Trigs : Config(trg[t]) = saved[t]

\* With PostgreSQL every message delivered to the inbox stays there
InboxKept == store = "db" =>
    \A i \in DOMAIN sent : sent[i].via = "in_app_inbox" => i \in DOMAIN inbox

\* Triggers respect their cooldown and their switch, and settings and messages
\* stay, while calls, edits and restarts interleave.
TriggersSound == TriggersTypeOK /\ CooldownKept /\ DisabledSilent /\ SettingsKept /\ InboxKept
=============================================================================
