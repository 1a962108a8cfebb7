---------------------------- MODULE MemoryProofs ----------------------------
(***************************************************************************)
(* Proofs about the in-memory workflow service and the knowledge base, for *)
(* any number of sessions, executions, updates, handlers and events.       *)
(***************************************************************************)
EXTENDS MemoryWorkflow, Knowledge, FiniteSetTheorems, WellFoundedInduction, TLAPS

-----------------------------------------------------------------------------
(* The in-memory workflow.  The inductive invariant.                       *)

\* The labels at which a goroutine is carrying an execution out.
Carrying == {"tell_run", "run", "result"}

\* An execution that exists belongs to a session; a goroutine that will need its
\* execution holds one that exists; only the dispatcher diagnoses and resolves,
\* and only with an event in hand.
MemPlaced ==
    /\ \A x \in Execs : exec[x].st # "none" => exec[x].ses \in Sessions
    /\ \A w \in Workers : doing[w] \in Carrying \cup {"verify"} => holds[w] \in Execs /\ exec[holds[w]].st # "none"
    /\ \A h \in Handlers : /\ doing[h] \in Carrying \cup {"idle", "verify", "tell_end"}
                           /\ doing[h] = "tell_end" => holds[h] \in Execs /\ exec[holds[h]].st # "none"
    /\ doing[Dispatcher] # "idle" => batch # << >>

\* An execution under way is carried out by one goroutine, which has called the
\* runtime once when it waits for the result and not at all before.
MemHolding ==
    /\ \A w \in Workers : doing[w] \in Carrying =>
         /\ exec[holds[w]].st = "executing"
         /\ runs[holds[w]] = IF doing[w] = "result" THEN 1 ELSE 0
    /\ \A v, w \in Workers : doing[v] \in Carrying /\ doing[w] \in Carrying /\ holds[v] = holds[w] => v = w
    /\ \A x \in Execs : exec[x].st \in {"none", "pending", "approved", "rejected"} => runs[x] = 0

\* A batch names an event once, and only events that are still due.
MemBatch ==
    /\ \A i, j \in DOMAIN batch : batch[i].id = batch[j].id => i = j
    /\ ClaimedPresent

\* An update has taken effect if and only if it is known what it asked for, and
\* its key was recorded then.
MemVerdicts ==
    \A u \in Updates : /\ asked[u] = None => applied[u] = 0
                       /\ asked[u] # None /\ asked[u].key => u \in seen /\ applied[u] <= 1

MemInv == MemTypeOK /\ MemPlaced /\ MemHolding /\ MemBatch /\ MemVerdicts /\ ResolvedClosed /\ SessionBacked

-----------------------------------------------------------------------------
(* The outbox: events are added at the end and keep topic and session.     *)
OutboxKept == /\ outbox' \in Seq(Events) /\ Len(outbox) <= Len(outbox')
              /\ \A e \in 1 .. Len(outbox) : outbox'[e].topic = outbox[e].topic /\ outbox'[e].ses = outbox[e].ses

LEMMA Published ==
    ASSUME NEW box \in Seq(Events), NEW topic \in Topics, NEW s \in Sessions, NEW st \in {"pending", "blocked"}
    PROVE  /\ Publish(box, topic, s, st) \in Seq(Events)
           /\ Len(Publish(box, topic, s, st)) = Len(box) + 1
           /\ \A e \in 1 .. Len(box) : Publish(box, topic, s, st)[e] = box[e]
           /\ Publish(box, topic, s, st)[Len(box) + 1].topic = topic
           /\ Publish(box, topic, s, st)[Len(box) + 1].ses = s
<1>. DEFINE ev == [topic |-> topic, ses |-> s, st |-> st, tries |-> 0, late |-> FALSE]
<1>1. ev \in Events /\ ev.topic = topic /\ ev.ses = s
  BY DEF Events
<1>2. Publish(box, topic, s, st) = Append(box, ev)
  BY DEF Publish
<1>. HIDE DEF ev
<1>3. QED
  BY <1>1, <1>2

LEMMA EventEdited ==
    ASSUME outbox \in Seq(Events), NEW e \in DOMAIN outbox, NEW ev \in Events,
           ev.topic = outbox[e].topic, ev.ses = outbox[e].ses, outbox' = [outbox EXCEPT ![e] = ev]
    PROVE  OutboxKept /\ Len(outbox') = Len(outbox)
  BY DEF OutboxKept

LEMMA EventMarked ==
    ASSUME NEW ev \in Events, NEW st \in {"pending", "processing", "done", "failed", "blocked", "deleted"}
    PROVE  /\ [ev EXCEPT !.st = st] \in Events
           /\ [ev EXCEPT !.st = st].topic = ev.topic /\ [ev EXCEPT !.st = st].ses = ev.ses
  BY DEF Events

LEMMA EventDue ==
    ASSUME NEW ev \in Events
    PROVE  /\ [ev EXCEPT !.late = FALSE] \in Events /\ [ev EXCEPT !.late = FALSE].st = ev.st
           /\ [ev EXCEPT !.late = FALSE].topic = ev.topic /\ [ev EXCEPT !.late = FALSE].ses = ev.ses
  BY DEF Events

LEMMA EventTried ==
    ASSUME NEW ev \in Events, NEW st \in {"pending", "processing", "done", "failed", "blocked", "deleted"}
    PROVE  /\ [ev EXCEPT !.st = st, !.tries = @ + 1] \in Events
           /\ [ev EXCEPT !.st = st, !.tries = @ + 1].topic = ev.topic
           /\ [ev EXCEPT !.st = st, !.tries = @ + 1].ses = ev.ses
<1>. DEFINE n == ev.tries + 1
<1>1. n \in Nat
  BY DEF Events
<1>2. [ev EXCEPT !.st = st, !.tries = @ + 1] = [ev EXCEPT !.st = st, !.tries = n]
  BY DEF Events
<1>. HIDE DEF n
<1>3. QED
  BY <1>1, <1>2 DEF Events

LEMMA EventDone ==
    ASSUME NEW ev \in Events
    PROVE  /\ [ev EXCEPT !.st = "done", !.late = FALSE] \in Events
           /\ [ev EXCEPT !.st = "done", !.late = FALSE].topic = ev.topic
           /\ [ev EXCEPT !.st = "done", !.late = FALSE].ses = ev.ses
  BY DEF Events

LEMMA EventPutBack ==
    ASSUME NEW ev \in Events, NEW st \in {"pending", "failed"}, NEW b \in BOOLEAN
    PROVE  /\ [ev EXCEPT !.st = st, !.tries = @ + 1, !.late = b] \in Events
           /\ [ev EXCEPT !.st = st, !.tries = @ + 1, !.late = b].topic = ev.topic
           /\ [ev EXCEPT !.st = st, !.tries = @ + 1, !.late = b].ses = ev.ses
<1>. DEFINE n == ev.tries + 1
<1>1. n \in Nat
  BY DEF Events
<1>2. [ev EXCEPT !.st = st, !.tries = @ + 1, !.late = b] = [ev EXCEPT !.st = st, !.tries = n, !.late = b]
  BY DEF Events
<1>. HIDE DEF n
<1>3. QED
  BY <1>1, <1>2 DEF Events

LEMMA EventResolved ==
    ASSUME NEW ev \in Events, NEW attempt \in Nat, NEW ok \in BOOLEAN
    PROVE  /\ Resolved(ev, attempt, ok) \in Events
           /\ Resolved(ev, attempt, ok).topic = ev.topic /\ Resolved(ev, attempt, ok).ses = ev.ses
  BY EventDone, EventPutBack DEF Resolved

LEMMA CurrentEvent ==
    ASSUME MemTypeOK, batch # << >>
    PROVE  /\ current \in 1 .. Len(outbox) /\ current = batch[1].id
           /\ Head(batch).attempt \in Nat
           /\ outbox[current] \in Events /\ subject \in Sessions
<1>. DEFINE Envelope == [id : 1 .. Len(outbox), attempt : Nat]
<1>1. batch \in Seq(Envelope) /\ outbox \in Seq(Events)
  BY DEF MemTypeOK
<1>2. Head(batch) \in Envelope /\ Head(batch) = batch[1]
  <2>. HIDE DEF Envelope
  <2>1. QED
    BY <1>1
<1>3. current \in 1 .. Len(outbox) /\ current = batch[1].id /\ Head(batch).attempt \in Nat
  BY <1>2 DEF current
<1>4. outbox[current] \in Events
  BY <1>1, <1>3
<1>5. QED
  BY <1>3, <1>4 DEF Events, subject

LEMMA ClosingQueued ==
    ASSUME outbox \in Seq(Events), NEW s \in Sessions, outbox' = EnqueueSessionClosed(outbox, s)
    PROVE  /\ OutboxKept /\ Len(outbox') = Len(outbox) + 1
           /\ \A e \in 1 .. Len(outbox) : outbox'[e] = outbox[e]
           /\ outbox'[Len(outbox) + 1].topic = "closed" /\ outbox'[Len(outbox) + 1].ses = s
<1>. DEFINE st == IF TopicEnabled("closed") THEN "pending" ELSE "blocked"
<1>1. outbox' = Publish(outbox, "closed", s, st) /\ st \in {"pending", "blocked"} /\ "closed" \in Topics
  BY DEF EnqueueSessionClosed, Topics
<1>. HIDE DEF st
<1>2. /\ Publish(outbox, "closed", s, st) \in Seq(Events)
      /\ Len(Publish(outbox, "closed", s, st)) = Len(outbox) + 1
      /\ \A e \in 1 .. Len(outbox) : Publish(outbox, "closed", s, st)[e] = outbox[e]
      /\ Publish(outbox, "closed", s, st)[Len(outbox) + 1].topic = "closed"
      /\ Publish(outbox, "closed", s, st)[Len(outbox) + 1].ses = s
  BY <1>1, Published
<1>3. QED
  BY <1>1, <1>2 DEF OutboxKept

(* The steps that leave the outbox alone.                                  *)
OutboxQuiet ==
    \/ BeginEvent \/ DiagnosisFails
    \/ \E x \in Execs : CreateCapabilityApproval(x) \/ ApplyDirect(x) \/ ApplyApproval(x)
    \/ \E h \in Handlers, u \in Updates, ask \in Verdicts : HandleChannelEvent(h, u, ask)
    \/ \E X \in SUBSET Execs : SweepApprovalTimeouts(X)
    \/ \E w \in Workers : ExecuteApproved(w) \/ ResultStep(w)
    \/ \E h \in Handlers : VerifyError(h)

LEMMA OutboxQuietly == OutboxQuiet => UNCHANGED outbox
  BY DEF OutboxQuiet, BeginEvent, DiagnosisFails, CreateCapabilityApproval, ApplyDirect, ApplyApproval,
         HandleChannelEvent, SweepApprovalTimeouts, ExecuteApproved, ResultStep, HandleResult, VerifyError, storeVars

(* Where a notification is queued, its session is one.                     *)
LEMMA NotifyPublishes ==
    ASSUME MemTypeOK, MemPlaced, NEW w \in Workers, Notify(w)
    PROVE  \/ UNCHANGED <<outbox, lostSends>>
           \/ /\ lostSends' \in 0 .. MaxLostSends
              /\ \E s \in Sessions : outbox' = Publish(outbox, "send", s, "pending")
<1>1. CASE UNCHANGED <<outbox, lostSends>>
  BY <1>1
<1>2. CASE /\ lostSends < MaxLostSends /\ lostSends' = lostSends + 1
           /\ outbox' = Publish(outbox, "send", IF w = Dispatcher THEN subject ELSE exec[holds[w]].ses, "pending")
  <2>1. doing[w] \in {"tell_plan", "tell_run", "tell_end"}
    BY DEF Notify
  <2>2. lostSends' \in 0 .. MaxLostSends
    BY <1>2, MemoryAssumption DEF MemTypeOK
  <2>3. CASE w = Dispatcher
    BY <1>2, <2>1, <2>2, <2>3, CurrentEvent DEF MemPlaced
  <2>4. CASE w # Dispatcher
    <3>1. w \in Handlers
      BY <2>4 DEF Workers
    <3>2. exec[holds[w]].ses \in Sessions
      BY <2>1, <3>1 DEF MemPlaced, Carrying, Workers
    <3>3. QED
      BY <1>2, <2>2, <2>4, <3>2
  <2>5. QED
    BY <2>3, <2>4
<1>3. QED
  BY <1>1, <1>2 DEF Notify

LEMMA OutboxStep == MemTypeOK /\ MemPlaced /\ [MemNext]_memVars => OutboxKept
<1>. SUFFICES ASSUME MemTypeOK, MemPlaced, [MemNext]_memVars PROVE OutboxKept
  OBVIOUS
<1>0. outbox \in Seq(Events)
  BY DEF MemTypeOK
<1>a. UNCHANGED outbox => OutboxKept
  BY <1>0 DEF OutboxKept
<1>b. ASSUME NEW topic \in Topics, NEW s \in Sessions, NEW st \in {"pending", "blocked"},
             outbox' = Publish(outbox, topic, s, st)
      PROVE  OutboxKept
  <2>1. /\ Publish(outbox, topic, s, st) \in Seq(Events)
        /\ Len(Publish(outbox, topic, s, st)) = Len(outbox) + 1
        /\ \A e \in 1 .. Len(outbox) : Publish(outbox, topic, s, st)[e] = outbox[e]
    BY <1>0, Published
  <2>2. QED
    BY <1>0, <1>b, <2>1 DEF OutboxKept
<1>1. ASSUME NEW k \in AlertKeys, NEW s \in Sessions, NEW b \in BOOLEAN, HandleAlertEvent(k, s, b) PROVE OutboxKept
  BY <1>1, <1>a, <1>b DEF HandleAlertEvent, Topics
<1>2. ASSUME NEW e \in DOMAIN outbox, ReplayOutbox(e) \/ DeleteOutbox(e) \/ RetryDue(e) PROVE OutboxKept
  <2>1. outbox[e] \in Events
    BY <1>0
  <2>2. PICK ev : ev \in Events /\ ev.topic = outbox[e].topic /\ ev.ses = outbox[e].ses /\ outbox' = [outbox EXCEPT ![e] = ev]
    <3>1. CASE ReplayOutbox(e)
      <4>1. outbox' = [outbox EXCEPT ![e] = [outbox[e] EXCEPT !.st = "pending", !.tries = @ + 1]]
        BY <3>1 DEF ReplayOutbox
      <4>2. QED
        BY <2>1, <4>1, EventTried
    <3>2. CASE DeleteOutbox(e)
      <4>1. outbox' = [outbox EXCEPT ![e] = [outbox[e] EXCEPT !.st = "deleted"]]
        BY <3>2 DEF DeleteOutbox
      <4>2. QED
        BY <2>1, <4>1, EventMarked
    <3>3. CASE RetryDue(e)
      <4>1. outbox' = [outbox EXCEPT ![e] = [outbox[e] EXCEPT !.late = FALSE]]
        BY <3>3 DEF RetryDue
      <4>2. QED
        BY <2>1, <4>1, EventDue
    <3>4. QED
      BY <1>2, <3>1, <3>2, <3>3
  <2>3. QED
    BY <1>0, <2>2, EventEdited
<1>3. CASE ClaimEvents
  <2>1. PICK ids : outbox' = [e \in DOMAIN outbox |->
                       IF e \in ToSet(ids) THEN [outbox[e] EXCEPT !.st = "processing"] ELSE outbox[e]]
    BY <1>3 DEF ClaimEvents
  <2>2. \A e \in DOMAIN outbox :
          /\ outbox[e] \in Events
          /\ [outbox[e] EXCEPT !.st = "processing"] \in Events
          /\ [outbox[e] EXCEPT !.st = "processing"].topic = outbox[e].topic
          /\ [outbox[e] EXCEPT !.st = "processing"].ses = outbox[e].ses
    <3>1. \A e \in DOMAIN outbox : outbox[e] \in Events
      BY <1>0
    <3>2. QED
      BY <3>1, EventMarked
  <2>3. \A e \in DOMAIN outbox :
          outbox'[e] \in Events /\ outbox'[e].topic = outbox[e].topic /\ outbox'[e].ses = outbox[e].ses
    BY <2>1, <2>2
  <2>4. outbox' \in Seq(Events) /\ Len(outbox') = Len(outbox) /\ DOMAIN outbox = 1 .. Len(outbox)
    <3>1. DOMAIN outbox = 1 .. Len(outbox) /\ Len(outbox) \in Nat
      BY <1>0
    <3>2. outbox' \in [1 .. Len(outbox) -> Events]
      BY <2>1, <2>3, <3>1
    <3>3. QED
      BY <3>1, <3>2
  <2>5. QED
    BY <1>0, <2>3, <2>4 DEF OutboxKept
<1>4. CASE ResolveEvent
  <2>1. batch # << >> /\ (doing[Dispatcher] = "ack") \in BOOLEAN
    BY <1>4 DEF ResolveEvent, MemPlaced
  <2>2. current \in DOMAIN outbox /\ outbox[current] \in Events /\ Head(batch).attempt \in Nat
    BY <1>0, <2>1, CurrentEvent
  <2>3. outbox' = [outbox EXCEPT ![current] = Resolved(outbox[current], Head(batch).attempt, doing[Dispatcher] = "ack")]
    BY <1>4 DEF ResolveEvent
  <2>4. QED
    BY <1>0, <2>1, <2>2, <2>3, EventResolved, EventEdited
<1>5. CASE ApplyAnswer
  <2>1. subject \in Sessions
    BY <1>5, CurrentEvent DEF ApplyAnswer, MemPlaced
  <2>2. QED
    BY <1>0, <1>5, <1>a, <2>1, ClosingQueued DEF ApplyAnswer
<1>6. ASSUME NEW w \in Workers, VerifyStep(w) PROVE OutboxKept
  <2>1. exec[holds[w]].ses \in Sessions
    BY <1>6 DEF VerifyStep, HandleVerificationResult, MemPlaced
  <2>2. QED
    BY <1>0, <1>6, <1>a, <2>1, ClosingQueued DEF VerifyStep, HandleVerificationResult
<1>7. ASSUME NEW w \in Workers, Notify(w) PROVE OutboxKept
  BY <1>7, <1>a, <1>b, NotifyPublishes DEF Topics
<1>8. CASE OutboxQuiet
  BY <1>8, <1>a, OutboxQuietly
<1>9. CASE UNCHANGED memVars
  BY <1>9, <1>a DEF memVars, storeVars
<1>10. QED
  BY <1>1, <1>2, <1>3, <1>4, <1>5, <1>6, <1>7, <1>8, <1>9 DEF MemNext, EventStep, DiagnosisStep, OutboxQuiet

-----------------------------------------------------------------------------
(* Every step keeps the types.                                             *)
ExecRecord == [st : ExecStatus, ses : Sessions \cup {None}, kind : {"execution", "capability"}]
Labels == {"idle", "plan", "tell_plan", "tell_run", "tell_end", "run", "result", "verify", "ack", "fail"}
SessionStatus == {"none", "open", "analyzing", "pending_approval", "executing", "verifying", "resolved", "failed"}

LEMMA BatchTyped ==
    ASSUME MemTypeOK, OutboxKept
    PROVE  batch \in Seq([id : 1 .. Len(outbox'), attempt : Nat])
<1>. DEFINE E == [id : 1 .. Len(outbox), attempt : Nat]
            F == [id : 1 .. Len(outbox'), attempt : Nat]
<1>1. batch \in Seq(E) /\ outbox \in Seq(Events)
  BY DEF MemTypeOK
<1>2. E \subseteq F
  BY <1>1 DEF OutboxKept
<1>. HIDE DEF E, F
<1>3. batch \in Seq(F)
  BY <1>1, <1>2
<1>4. QED
  BY <1>3 DEF F

LEMMA LabelPlaced ==
    ASSUME MemTypeOK, NEW w \in Workers, NEW l \in Labels, NEW x \in Execs \cup {None}, Goto(w, l, x)
    PROVE  /\ doing' \in [Workers -> Labels] /\ holds' \in [Workers -> Execs \cup {None}]
           /\ doing'[w] = l /\ holds'[w] = x
           /\ \A v \in Workers : v # w => doing'[v] = doing[v] /\ holds'[v] = holds[v]
  BY DEF MemTypeOK, Goto, Labels

LEMMA ExecMoved ==
    ASSUME MemTypeOK, NEW x \in Execs, NEW st \in ExecStatus, exec' = [exec EXCEPT ![x].st = st]
    PROVE  /\ exec' \in [Execs -> ExecRecord]
           /\ exec'[x].st = st /\ exec'[x].ses = exec[x].ses /\ exec'[x].kind = exec[x].kind
           /\ \A y \in Execs : y # x => exec'[y] = exec[y]
<1>1. exec \in [Execs -> ExecRecord] /\ exec[x] \in ExecRecord
  BY DEF MemTypeOK, ExecRecord
<1>2. exec'[x] = [exec[x] EXCEPT !.st = st] /\ \A y \in Execs : y # x => exec'[y] = exec[y]
  BY <1>1
<1>3. exec'[x] \in ExecRecord /\ exec'[x].st = st /\ exec'[x].ses = exec[x].ses /\ exec'[x].kind = exec[x].kind
  BY <1>1, <1>2 DEF ExecRecord
<1>4. exec' = [exec EXCEPT ![x] = exec'[x]]
  BY <1>1
<1>5. QED
  BY <1>1, <1>2, <1>3, <1>4

LEMMA ExecCreated ==
    ASSUME MemTypeOK, batch # << >>, NEW x \in Execs, NEW kind \in {"execution", "capability"},
           NEW st \in {"pending", "executing"}, NewExec(x, kind, st)
    PROVE  /\ exec[x].st = "none" /\ exec' \in [Execs -> ExecRecord]
           /\ exec'[x].st = st /\ exec'[x].ses = subject /\ exec'[x].kind = kind
           /\ \A y \in Execs : y # x => exec'[y] = exec[y]
<1>. DEFINE rec == [st |-> st, ses |-> subject, kind |-> kind]
<1>1. exec \in [Execs -> ExecRecord]
  BY DEF MemTypeOK, ExecRecord
<1>2. rec \in ExecRecord /\ rec.st = st /\ rec.ses = subject /\ rec.kind = kind
  BY CurrentEvent DEF ExecRecord, ExecStatus
<1>3. exec[x].st = "none" /\ exec' = [exec EXCEPT ![x] = rec]
  BY DEF NewExec, Fresh
<1>. HIDE DEF rec
<1>4. QED
  BY <1>1, <1>2, <1>3

LEMMA MemTypeStep == MemTypeOK /\ MemPlaced /\ [MemNext]_memVars => MemTypeOK'
<1>. SUFFICES ASSUME MemTypeOK, MemPlaced, [MemNext]_memVars PROVE MemTypeOK'
  OBVIOUS
<1>0. outbox' \in Seq(Events) /\ batch \in Seq([id : 1 .. Len(outbox'), attempt : Nat]) /\ Len(batch) <= BatchSize
  BY OutboxStep, BatchTyped DEF OutboxKept, MemTypeOK
<1>. DEFINE Core == /\ flags' \in SUBSET Features
                    /\ session' \in [Sessions -> SessionStatus] /\ chat' \subseteq Sessions
                    /\ alertOf' \in [AlertKeys -> Sessions \cup {None}]
                    /\ exec' \in [Execs -> ExecRecord]
                    /\ asked' \in [Updates -> Verdicts \cup {None}] /\ seen' \subseteq Updates
                    /\ doing' \in [Workers -> Labels] /\ holds' \in [Workers -> Execs \cup {None}]
                    /\ runs' \in [Execs -> Nat] /\ applied' \in [Updates -> Nat]
                    /\ replays' \in 0 .. MaxReplays /\ lostSends' \in 0 .. MaxLostSends
            Typed == /\ flags \in SUBSET Features
                     /\ session \in [Sessions -> SessionStatus] /\ chat \subseteq Sessions
                     /\ alertOf \in [AlertKeys -> Sessions \cup {None}]
                     /\ exec \in [Execs -> ExecRecord]
                     /\ asked \in [Updates -> Verdicts \cup {None}] /\ seen \subseteq Updates
                     /\ doing \in [Workers -> Labels] /\ holds \in [Workers -> Execs \cup {None}]
                     /\ runs \in [Execs -> Nat] /\ applied \in [Updates -> Nat]
                     /\ replays \in 0 .. MaxReplays /\ lostSends \in 0 .. MaxLostSends
<1>a. Core /\ batch' = batch => MemTypeOK'
  BY <1>0 DEF MemTypeOK, SessionStatus, Labels, ExecRecord
<1>b. Core /\ batch' \in Seq([id : 1 .. Len(outbox'), attempt : Nat]) /\ Len(batch') <= BatchSize => MemTypeOK'
  BY <1>0 DEF MemTypeOK, SessionStatus, Labels, ExecRecord
<1>t. Typed
  BY DEF MemTypeOK, SessionStatus, Labels, ExecRecord
<1>d. doing[Dispatcher] # "idle" => subject \in Sessions /\ batch # << >>
  BY CurrentEvent DEF MemPlaced
<1>e. Dispatcher \in Workers /\ Handlers \subseteq Workers
  BY DEF Workers
<1>1. ASSUME NEW k \in AlertKeys, NEW s \in Sessions, NEW b \in BOOLEAN, HandleAlertEvent(k, s, b) PROVE MemTypeOK'
  BY <1>1, <1>a, <1>t DEF HandleAlertEvent, SessionStatus, workVars
<1>2. ASSUME NEW e \in DOMAIN outbox, ReplayOutbox(e) \/ DeleteOutbox(e) \/ RetryDue(e) PROVE MemTypeOK'
  BY <1>2, <1>a, <1>t, MemoryAssumption DEF ReplayOutbox, DeleteOutbox, RetryDue, workVars
<1>3. CASE ClaimEvents
  <2>0. outbox \in Seq(Events) /\ Len(outbox) <= Len(outbox')
    BY OutboxStep DEF MemTypeOK, OutboxKept
  <2>a. PICK m \in 1 .. BatchSize : \E ids \in [1 .. m -> Ready] :
           batch' = [i \in 1 .. m |-> [id |-> ids[i], attempt |-> outbox[ids[i]].tries + 1]]
    BY <1>3 DEF ClaimEvents
  <2>1. PICK ids \in [1 .. m -> Ready] :
           batch' = [i \in 1 .. m |-> [id |-> ids[i], attempt |-> outbox[ids[i]].tries + 1]]
    BY <2>a
  <2>2. \A i \in 1 .. m : ids[i] \in 1 .. Len(outbox') /\ outbox[ids[i]].tries + 1 \in Nat
    <3>1. \A e \in Ready : e \in 1 .. Len(outbox) /\ outbox[e] \in Events
      BY <2>0 DEF Ready
    <3>2. \A e \in Ready : e \in 1 .. Len(outbox') /\ outbox[e].tries \in Nat
      BY <2>0, <1>0, <3>1 DEF Events
    <3>3. QED
      BY <3>2
  <2>3. batch' \in [1 .. m -> [id : 1 .. Len(outbox'), attempt : Nat]]
    BY <2>1, <2>2
  <2>4. batch' \in Seq([id : 1 .. Len(outbox'), attempt : Nat]) /\ Len(batch') = m
    <3>. DEFINE F == [id : 1 .. Len(outbox'), attempt : Nat]
    <3>1. m \in Nat /\ batch' \in [1 .. m -> F]
      BY <2>3
    <3>. HIDE DEF F
    <3>2. batch' \in Seq(F) /\ Len(batch') = m
      BY <3>1
    <3>3. QED
      BY <3>2 DEF F
  <2>5. Core
    BY <1>3, <1>t DEF ClaimEvents
  <2>6. QED
    BY <1>b, <2>4, <2>5, MemoryAssumption
<1>4. CASE ResolveEvent
  <2>1. batch # << >>
    BY <1>4 DEF ResolveEvent, MemPlaced
  <2>2. Tail(batch) \in Seq([id : 1 .. Len(outbox'), attempt : Nat]) /\ Len(Tail(batch)) <= BatchSize
    <3>. DEFINE F == [id : 1 .. Len(outbox'), attempt : Nat]
    <3>1. batch \in Seq(F) /\ Len(batch) <= BatchSize
      BY <1>0
    <3>. HIDE DEF F
    <3>2. Tail(batch) \in Seq(F) /\ Len(Tail(batch)) <= BatchSize
      BY <2>1, <3>1, MemoryAssumption
    <3>3. QED
      BY <3>2 DEF F
  <2>3. doing' \in [Workers -> Labels] /\ holds' \in [Workers -> Execs \cup {None}]
    BY <1>4, <1>e, LabelPlaced DEF ResolveEvent, Labels
  <2>4. QED
    BY <1>4, <1>b, <1>t, <2>2, <2>3 DEF ResolveEvent
<1>5. CASE BeginEvent \/ DiagnosisFails
  <2>1. doing' \in [Workers -> Labels] /\ holds' \in [Workers -> Execs \cup {None}]
    BY <1>5, <1>e, LabelPlaced DEF BeginEvent, DiagnosisFails, Labels
  <2>2. QED
    BY <1>5, <1>a, <1>t, <2>1 DEF BeginEvent, DiagnosisFails, storeVars
<1>6. CASE ApplyAnswer
  <2>1. doing' \in [Workers -> Labels] /\ holds' \in [Workers -> Execs \cup {None}]
    BY <1>6, <1>e, LabelPlaced DEF ApplyAnswer, Labels
  <2>2. QED
    BY <1>6, <1>a, <1>t, <2>1 DEF ApplyAnswer, SessionStatus
<1>7. ASSUME NEW x \in Execs, CreateCapabilityApproval(x) \/ ApplyDirect(x) \/ ApplyApproval(x) PROVE MemTypeOK'
  <2>1. batch # << >>
    BY <1>7, <1>d DEF CreateCapabilityApproval, ApplyDirect, ApplyApproval
  <2>2. doing' \in [Workers -> Labels] /\ holds' \in [Workers -> Execs \cup {None}]
    BY <1>7, <1>e, LabelPlaced DEF CreateCapabilityApproval, ApplyDirect, ApplyApproval, Labels
  <2>3. exec' \in [Execs -> ExecRecord]
    BY <1>7, <2>1, ExecCreated DEF CreateCapabilityApproval, ApplyDirect, ApplyApproval
  <2>4. QED
    BY <1>7, <1>a, <1>t, <2>2, <2>3 DEF CreateCapabilityApproval, ApplyDirect, ApplyApproval, SessionStatus
<1>8. ASSUME NEW h \in Handlers, NEW u \in Updates, NEW ask \in Verdicts, HandleChannelEvent(h, u, ask) PROVE MemTypeOK'
  <2>1. ask.x \in Execs
    BY DEF Verdicts
  <2>2. doing' \in [Workers -> Labels] /\ holds' \in [Workers -> Execs \cup {None}]
    BY <1>8, <1>e, <2>1, LabelPlaced DEF HandleChannelEvent, Labels
  <2>3. exec' \in [Execs -> ExecRecord]
    BY <1>8, <1>t, <2>1, ExecMoved DEF HandleChannelEvent, ApprovedAs, ExecStatus
  <2>4. session' \in [Sessions -> SessionStatus]
    BY <1>8, <1>t, <2>1 DEF HandleChannelEvent, SessionStatus
  <2>5. asked' \in [Updates -> Verdicts \cup {None}] /\ seen' \subseteq Updates /\ applied' \in [Updates -> Nat]
    BY <1>8, <1>t DEF HandleChannelEvent
  <2>6. QED
    BY <1>8, <1>a, <1>t, <2>2, <2>3, <2>4, <2>5 DEF HandleChannelEvent
<1>9. ASSUME NEW X \in SUBSET Execs, SweepApprovalTimeouts(X) PROVE MemTypeOK'
  <2>1. exec' \in [Execs -> ExecRecord] /\ session' \in [Sessions -> SessionStatus]
    BY <1>9, <1>t DEF SweepApprovalTimeouts, ExecRecord, ExecStatus, SessionStatus
  <2>2. QED
    BY <1>9, <1>a, <1>t, <2>1 DEF SweepApprovalTimeouts, workVars
<1>10. ASSUME NEW w \in Workers, ExecuteApproved(w) PROVE MemTypeOK'
  <2>1. doing' \in [Workers -> Labels] /\ holds' \in [Workers -> Execs \cup {None}]
    BY <1>10, <1>t, LabelPlaced DEF ExecuteApproved, Labels
  <2>2. runs' \in [Execs -> Nat]
    BY <1>10, <1>t DEF ExecuteApproved, MemPlaced, Carrying
  <2>3. QED
    BY <1>10, <1>a, <1>t, <2>1, <2>2 DEF ExecuteApproved, storeVars
<1>11. ASSUME NEW w \in Workers, NEW r \in Finished, HandleResult(w, r) PROVE MemTypeOK'
  <2>1. holds[w] \in Execs
    BY <1>11 DEF HandleResult, MemPlaced, Carrying
  <2>2. doing' \in [Workers -> Labels] /\ holds' \in [Workers -> Execs \cup {None}]
    BY <1>11, <2>1, LabelPlaced DEF HandleResult, Labels
  <2>3. exec' \in [Execs -> ExecRecord]
    BY <1>11, <2>1, ExecMoved DEF HandleResult, ResultAs, ExecStatus, Finished
  <2>4. session' \in [Sessions -> SessionStatus]
    BY <1>11, <1>t DEF HandleResult, SessionAfter, SessionStatus
  <2>5. QED
    BY <1>11, <1>a, <1>t, <2>2, <2>3, <2>4 DEF HandleResult
<1>12. ASSUME NEW w \in Workers, VerifyStep(w) PROVE MemTypeOK'
  <2>1. doing' \in [Workers -> Labels] /\ holds' \in [Workers -> Execs \cup {None}]
    BY <1>12, <1>t, LabelPlaced DEF VerifyStep, HandleVerificationResult, Labels
  <2>2. session' \in [Sessions -> SessionStatus]
    BY <1>12, <1>t DEF VerifyStep, HandleVerificationResult, SessionStatus
  <2>3. QED
    BY <1>12, <1>a, <1>t, <2>1, <2>2 DEF VerifyStep, HandleVerificationResult
<1>13. ASSUME NEW w \in Workers, Notify(w) PROVE MemTypeOK'
  <2>1. doing' \in [Workers -> Labels] /\ holds' \in [Workers -> Execs \cup {None}]
    BY <1>13, <1>t, LabelPlaced DEF Notify, Done, Labels
  <2>2. lostSends' \in 0 .. MaxLostSends
    BY <1>13, <1>t, NotifyPublishes
  <2>3. QED
    BY <1>13, <1>a, <1>t, <2>1, <2>2 DEF Notify
<1>14. ASSUME NEW h \in Handlers, VerifyError(h) PROVE MemTypeOK'
  <2>1. doing' \in [Workers -> Labels] /\ holds' \in [Workers -> Execs \cup {None}]
    BY <1>14, <1>e, LabelPlaced DEF VerifyError, Labels
  <2>2. QED
    BY <1>14, <1>a, <1>t, <2>1 DEF VerifyError, storeVars
<1>15. CASE UNCHANGED memVars
  BY <1>15, <1>a, <1>t DEF memVars, storeVars, workVars
<1>16. QED
  BY <1>1, <1>2, <1>3, <1>4, <1>5, <1>6, <1>7, <1>8, <1>9, <1>10, <1>11, <1>12, <1>13, <1>14, <1>15
     DEF MemNext, EventStep, DiagnosisStep, ResultStep

-----------------------------------------------------------------------------
(* Who carries out what.  The steps that change neither the executions nor *)
(* where a goroutine is.                                                   *)
CarryQuiet ==
    \/ \E k \in AlertKeys, s \in Sessions, b \in BOOLEAN : HandleAlertEvent(k, s, b)
    \/ \E e \in DOMAIN outbox : EventStep(e) \/ RetryDue(e)
    \/ ClaimEvents \/ UNCHANGED memVars

LEMMA CarriedOn == CarryQuiet => /\ UNCHANGED <<exec, doing, holds, runs>>
                                 /\ batch' = batch \/ doing[Dispatcher] = "idle"
  BY DEF CarryQuiet, HandleAlertEvent, EventStep, ReplayOutbox, DeleteOutbox, RetryDue, ClaimEvents,
         memVars, storeVars, workVars

LEMMA CarryStep ==
    MemTypeOK /\ MemPlaced /\ MemHolding /\ [MemNext]_memVars => MemPlaced' /\ MemHolding'
<1>. SUFFICES ASSUME MemTypeOK, MemPlaced, MemHolding, [MemNext]_memVars PROVE MemPlaced' /\ MemHolding'
  OBVIOUS
<1>. DEFINE Goal == MemPlaced' /\ MemHolding'
<1>e. Dispatcher \in Workers /\ Handlers \subseteq Workers /\ Dispatcher \notin Handlers /\ None \notin Execs
      /\ \A w \in Workers : w # Dispatcher => w \in Handlers
  BY MemoryAssumption DEF Workers
<1>t. /\ exec \in [Execs -> ExecRecord] /\ runs \in [Execs -> Nat]
      /\ doing \in [Workers -> Labels] /\ holds \in [Workers -> Execs \cup {None}]
  BY DEF MemTypeOK, ExecRecord, Labels
<1>1. CASE CarryQuiet
  BY <1>1, CarriedOn DEF MemPlaced, MemHolding
<1>2. ASSUME NEW l \in {"idle", "plan", "ack", "fail", "tell_end"}, Goto(Dispatcher, l, None),
             exec' = exec, runs' = runs, l = "idle" \/ (batch' = batch /\ batch # << >>)
      PROVE  Goal
  <2>1. /\ doing'[Dispatcher] = l /\ holds'[Dispatcher] = None
        /\ \A v \in Workers : v # Dispatcher => doing'[v] = doing[v] /\ holds'[v] = holds[v]
    BY <1>2, <1>e, LabelPlaced DEF Labels
  <2>2. MemPlaced'
    BY <1>2, <1>e, <2>1 DEF MemPlaced, Carrying
  <2>3. MemHolding'
    BY <1>2, <2>1 DEF MemHolding, Carrying
  <2>4. QED
    BY <2>2, <2>3
<1>11. ASSUME NEW h \in Handlers, Goto(h, "idle", None), exec' = exec, runs' = runs, batch' = batch
      PROVE  Goal
  <2>1. /\ doing'[h] = "idle" /\ holds'[h] = None
        /\ \A v \in Workers : v # h => doing'[v] = doing[v] /\ holds'[v] = holds[v]
    BY <1>11, <1>e, LabelPlaced DEF Labels
  <2>2. MemPlaced'
    BY <1>11, <1>e, <2>1 DEF MemPlaced, Carrying
  <2>3. MemHolding'
    BY <1>11, <2>1 DEF MemHolding, Carrying
  <2>4. QED
    BY <2>2, <2>3
<1>3. CASE BeginEvent \/ ResolveEvent \/ DiagnosisFails \/ ApplyAnswer
  BY <1>2, <1>3 DEF BeginEvent, ResolveEvent, DiagnosisFails, ApplyAnswer, storeVars, MemPlaced
<1>4. ASSUME NEW x \in Execs, CreateCapabilityApproval(x) \/ ApplyDirect(x) \/ ApplyApproval(x) PROVE Goal
  <2>1. doing[Dispatcher] = "plan" /\ batch # << >> /\ batch' = batch /\ runs' = runs /\ subject \in Sessions
    BY <1>4, CurrentEvent DEF CreateCapabilityApproval, ApplyDirect, ApplyApproval, MemPlaced
  <2>2. PICK st \in {"pending", "executing"}, kind \in {"execution", "capability"}, l \in {"tell_plan", "tell_run", "tell_end"} :
          /\ NewExec(x, kind, st) /\ Goto(Dispatcher, l, IF st = "executing" THEN x ELSE None)
          /\ l = "tell_run" <=> st = "executing"
    BY <1>4 DEF CreateCapabilityApproval, ApplyDirect, ApplyApproval
  <2>3. /\ exec[x].st = "none" /\ exec'[x].st = st /\ exec'[x].ses = subject
        /\ \A y \in Execs : y # x => exec'[y] = exec[y]
    BY <2>1, <2>2, ExecCreated
  <2>4. /\ doing'[Dispatcher] = l /\ holds'[Dispatcher] = IF st = "executing" THEN x ELSE None
        /\ \A v \in Workers : v # Dispatcher => doing'[v] = doing[v] /\ holds'[v] = holds[v]
    BY <1>e, <2>2, LabelPlaced DEF Labels
  <2>5. \A v \in Workers : doing[v] \in Carrying \cup {"verify"} => holds[v] # x
    BY <2>3 DEF MemPlaced
  <2>6. MemPlaced'
    BY <1>e, <2>1, <2>2, <2>3, <2>4 DEF MemPlaced, Carrying
  <2>7. MemHolding'
    <3>1. runs[x] = 0
      BY <2>3 DEF MemHolding
    <3>2. \A v \in Workers : doing[v] \in Carrying => holds[v] \in Execs
      BY DEF MemPlaced
    <3>3. \A v \in Workers : v # Dispatcher /\ doing'[v] \in Carrying =>
            holds'[v] = holds[v] /\ doing'[v] = doing[v] /\ holds[v] # x /\ exec'[holds[v]] = exec[holds[v]]
      BY <2>3, <2>4, <2>5, <3>2
    <3>4. doing'[Dispatcher] \in Carrying => holds'[Dispatcher] = x /\ doing'[Dispatcher] = "tell_run" /\ st = "executing"
      BY <2>2, <2>4 DEF Carrying
    <3>5. QED
      BY <2>1, <2>2, <2>3, <3>1, <3>2, <3>3, <3>4 DEF MemHolding
  <2>8. QED
    BY <2>6, <2>7
<1>5. ASSUME NEW h \in Handlers, NEW u \in Updates, NEW ask \in Verdicts, HandleChannelEvent(h, u, ask) PROVE Goal
  <2>. DEFINE x == ask.x
  <2>1. /\ x \in Execs /\ doing[h] = "idle" /\ exec[x].st = "pending" /\ batch' = batch /\ runs' = runs
    BY <1>5 DEF HandleChannelEvent, Verdicts, Admitted
  <2>2. PICK st \in {"pending", "approved", "executing", "rejected"}, l \in {"tell_run", "tell_end"} :
          /\ Goto(h, l, x) /\ (l = "tell_run" <=> st = "executing")
          /\ exec' = [exec EXCEPT ![x].st = st] \/ (exec' = exec /\ st = "pending")
    BY <1>5 DEF HandleChannelEvent, ApprovedAs
  <2>. HIDE DEF x
  <2>3. /\ exec'[x].st = st /\ exec'[x].ses = exec[x].ses
        /\ \A y \in Execs : y # x => exec'[y] = exec[y]
    <3>1. CASE exec' = exec /\ st = "pending"
      BY <2>1, <3>1
    <3>2. CASE exec' = [exec EXCEPT ![x].st = st]
      BY <2>1, <3>2, ExecMoved DEF ExecStatus
    <3>3. QED
      BY <2>2, <3>1, <3>2
  <2>4. /\ doing'[h] = l /\ holds'[h] = x
        /\ \A v \in Workers : v # h => doing'[v] = doing[v] /\ holds'[v] = holds[v]
    BY <1>e, <2>1, <2>2, LabelPlaced DEF Labels
  <2>5. \A v \in Workers : doing[v] \in Carrying => holds[v] \in Execs /\ holds[v] # x
    BY <2>1 DEF MemHolding, MemPlaced
  <2>6. MemPlaced'
    <3>1. \A y \in Execs : exec[y].st # "none" => exec'[y].st # "none" /\ exec'[y].ses = exec[y].ses
      BY <2>1, <2>2, <2>3
    <3>2. \A y \in Execs : exec'[y].st # "none" => exec'[y].ses \in Sessions
      BY <2>1, <2>3 DEF MemPlaced
    <3>3. QED
      BY <1>e, <2>1, <2>2, <2>4, <3>1, <3>2 DEF MemPlaced, Carrying
  <2>7. MemHolding'
    <3>1. runs[x] = 0
      BY <2>1 DEF MemHolding
    <3>2. \A v \in Workers : v # h /\ doing'[v] \in Carrying =>
            holds'[v] = holds[v] /\ doing'[v] = doing[v] /\ holds[v] # x /\ exec'[holds[v]] = exec[holds[v]]
      BY <2>3, <2>4, <2>5
    <3>3. doing'[h] \in Carrying => holds'[h] = x /\ doing'[h] = "tell_run" /\ st = "executing"
      BY <2>2, <2>4 DEF Carrying
    <3>4. QED
      BY <1>e, <2>1, <2>2, <2>3, <3>1, <3>2, <3>3 DEF MemHolding
  <2>8. QED
    BY <2>6, <2>7
<1>6. ASSUME NEW X \in SUBSET Execs, SweepApprovalTimeouts(X) PROVE Goal
  <2>1. /\ UNCHANGED <<doing, holds, runs, batch>> /\ \A x \in X : exec[x].st = "pending"
        /\ \A x \in Execs : exec'[x] = IF x \in X THEN [exec[x] EXCEPT !.st = "rejected"] ELSE exec[x]
    BY <1>6 DEF SweepApprovalTimeouts, Expired, workVars
  <2>2. \A x \in Execs : /\ x \in X => exec[x].st = "pending" /\ exec'[x].st = "rejected"
                         /\ x \notin X => exec'[x].st = exec[x].st
                         /\ exec'[x].ses = exec[x].ses
    BY <1>t, <2>1 DEF ExecRecord
  <2>3. \A v \in Workers : doing[v] \in Carrying => holds[v] \in Execs \ X
    BY <2>1 DEF MemHolding, MemPlaced
  <2>4. MemPlaced'
    BY <2>1, <2>2, <1>e DEF MemPlaced
  <2>5. MemHolding'
    BY <2>1, <2>2, <2>3 DEF MemHolding
  <2>6. QED
    BY <2>4, <2>5
<1>7. ASSUME NEW w \in Workers, ExecuteApproved(w) PROVE Goal
  <2>1. /\ doing[w] = "run" /\ holds[w] \in Execs /\ exec' = exec /\ batch' = batch
        /\ runs' = [runs EXCEPT ![holds[w]] = @ + 1] /\ Goto(w, "result", holds[w])
    BY <1>7 DEF ExecuteApproved, storeVars, MemPlaced, Carrying
  <2>2. /\ doing'[w] = "result" /\ holds'[w] = holds[w]
        /\ \A v \in Workers : v # w => doing'[v] = doing[v] /\ holds'[v] = holds[v]
    BY <2>1, LabelPlaced DEF Labels
  <2>3. runs[holds[w]] = 0 /\ exec[holds[w]].st = "executing"
    BY <2>1 DEF MemHolding, Carrying
  <2>4. runs'[holds[w]] = 1 /\ \A y \in Execs : y # holds[w] => runs'[y] = runs[y]
    BY <1>t, <2>1, <2>3
  <2>5. MemPlaced'
    BY <1>e, <2>1, <2>2 DEF MemPlaced, Carrying
  <2>6. MemHolding'
    <3>1. \A v \in Workers : v # w /\ doing[v] \in Carrying => holds[v] \in Execs /\ holds[v] # holds[w]
      BY <2>1 DEF MemHolding, MemPlaced, Carrying
    <3>2. QED
      BY <2>1, <2>2, <2>3, <2>4, <3>1 DEF MemHolding, Carrying
  <2>7. QED
    BY <2>5, <2>6
<1>8. ASSUME NEW w \in Workers, NEW r \in Finished, HandleResult(w, r) PROVE Goal
  <2>. DEFINE x == holds[w]
  <2>1. /\ doing[w] = "result" /\ x \in Execs /\ batch' = batch /\ runs' = runs
        /\ exec' = [exec EXCEPT ![x].st = r] /\ r \in ExecStatus \ {"none", "pending", "approved", "rejected"}
    BY <1>8 DEF HandleResult, ResultAs, MemPlaced, Carrying, Finished, ExecStatus
  <2>2. PICK l \in {"verify", "tell_end"} : Goto(w, l, x)
    BY <1>8 DEF HandleResult
  <2>. HIDE DEF x
  <2>3. /\ doing'[w] = l /\ holds'[w] = x
        /\ \A v \in Workers : v # w => doing'[v] = doing[v] /\ holds'[v] = holds[v]
    BY <2>1, <2>2, LabelPlaced DEF Labels
  <2>4. /\ exec'[x].st = r /\ exec'[x].ses = exec[x].ses
        /\ \A y \in Execs : y # x => exec'[y] = exec[y]
    BY <2>1, ExecMoved
  <2>5. exec[x].st = "executing" /\ \A v \in Workers : v # w /\ doing[v] \in Carrying => holds[v] \in Execs /\ holds[v] # x
    BY <2>1 DEF MemHolding, MemPlaced, Carrying, x
  <2>6. MemPlaced'
    <3>1. \A y \in Execs : exec[y].st # "none" => exec'[y].st # "none" /\ exec'[y].ses = exec[y].ses
      BY <2>1, <2>4
    <3>2. \A y \in Execs : exec'[y].st # "none" => exec'[y].ses \in Sessions
      BY <2>4, <2>5 DEF MemPlaced
    <3>3. QED
      BY <1>e, <2>1, <2>2, <2>3, <2>5, <3>1, <3>2 DEF MemPlaced, Carrying
  <2>7. MemHolding'
    <3>1. \A v \in Workers : doing'[v] \in Carrying => v # w
      BY <2>2, <2>3 DEF Carrying
    <3>2. QED
      BY <2>1, <2>3, <2>4, <2>5, <3>1 DEF MemHolding
  <2>8. QED
    BY <2>6, <2>7
<1>9. ASSUME NEW w \in Workers, VerifyStep(w) PROVE Goal
  <2>1. doing[w] = "verify" /\ exec' = exec /\ runs' = runs /\ batch' = batch /\ Goto(w, "tell_end", holds[w])
    BY <1>9 DEF VerifyStep, HandleVerificationResult
  <2>2. /\ doing'[w] = "tell_end" /\ holds'[w] = holds[w]
        /\ \A v \in Workers : v # w => doing'[v] = doing[v] /\ holds'[v] = holds[v]
    BY <1>t, <2>1, LabelPlaced DEF Labels
  <2>3. MemPlaced'
    BY <1>e, <2>1, <2>2 DEF MemPlaced, Carrying
  <2>4. MemHolding'
    BY <2>1, <2>2 DEF MemHolding, Carrying
  <2>5. QED
    BY <2>3, <2>4
<1>10. ASSUME NEW w \in Workers, Notify(w) PROVE Goal
  <2>0. exec' = exec /\ runs' = runs /\ batch' = batch
    BY <1>10 DEF Notify
  <2>1. CASE doing[w] = "tell_run" /\ Goto(w, "run", holds[w])
    <3>1. /\ doing'[w] = "run" /\ holds'[w] = holds[w]
          /\ \A v \in Workers : v # w => doing'[v] = doing[v] /\ holds'[v] = holds[v]
      BY <1>t, <2>1, LabelPlaced DEF Labels
    <3>2. MemPlaced'
      BY <1>e, <2>0, <2>1, <3>1 DEF MemPlaced, Carrying
    <3>3. MemHolding'
      BY <2>0, <2>1, <3>1 DEF MemHolding, Carrying
    <3>4. QED
      BY <3>2, <3>3
  <2>2. CASE \/ doing[w] = "tell_plan" /\ Goto(w, "plan", None)
             \/ doing[w] = "tell_end" /\ Goto(w, Done(w), None)
    <3>1. CASE w = Dispatcher
      BY <1>2, <2>0, <2>2, <3>1 DEF Done, MemPlaced
    <3>2. CASE w # Dispatcher
      <4>1. w \in Handlers /\ Goto(w, "idle", None)
        BY <1>e, <2>2, <3>2 DEF Done, MemPlaced, Carrying
      <4>2. QED
        BY <1>11, <2>0, <4>1
    <3>3. QED
      BY <3>1, <3>2
  <2>3. QED
    BY <1>10, <2>1, <2>2 DEF Notify
<1>12. ASSUME NEW h \in Handlers, VerifyError(h) PROVE Goal
  BY <1>11, <1>12 DEF VerifyError, storeVars
<1>13. QED
  BY <1>1, <1>3, <1>4, <1>5, <1>6, <1>7, <1>8, <1>9, <1>10, <1>12
     DEF MemNext, DiagnosisStep, CarryQuiet, ResultStep

-----------------------------------------------------------------------------
(* The batch.  Only resolving takes the event in hand out of the queue: an  *)
(* operator can delete none that is pending or claimed.                     *)
LEMMA BatchStep == MemInv /\ [MemNext]_memVars => MemBatch'
<1>. SUFFICES ASSUME MemInv, [MemNext]_memVars PROVE MemBatch'
  OBVIOUS
<1>. DEFINE Due == {"pending", "processing"}
<1>0. MemTypeOK /\ MemPlaced /\ MemBatch /\ outbox \in Seq(Events) /\ OutboxKept
  BY OutboxStep DEF MemInv, MemTypeOK
<1>d. \A i \in DOMAIN batch : batch[i].id \in 1 .. Len(outbox)
  <2>. DEFINE E == [id : 1 .. Len(outbox), attempt : Nat]
  <2>1. batch \in Seq(E)
    BY <1>0 DEF MemTypeOK
  <2>. HIDE DEF E
  <2>2. \A i \in DOMAIN batch : batch[i] \in E
    BY <2>1
  <2>3. QED
    BY <2>2 DEF E
<1>a. ASSUME batch' = batch, \A e \in 1 .. Len(outbox) : outbox[e].st \in Due => outbox'[e].st \in Due
      PROVE  MemBatch'
  BY <1>0, <1>a, <1>d DEF MemBatch, ClaimedPresent
<1>b. ASSUME NEW topic \in Topics, NEW s \in Sessions, NEW st \in {"pending", "blocked"},
             outbox' = Publish(outbox, topic, s, st), batch' = batch
      PROVE  MemBatch'
  <2>1. \A e \in 1 .. Len(outbox) : Publish(outbox, topic, s, st)[e] = outbox[e]
    BY <1>0, Published
  <2>2. QED
    BY <1>a, <1>b, <2>1
<1>1. ASSUME NEW k \in AlertKeys, NEW s \in Sessions, NEW b \in BOOLEAN, HandleAlertEvent(k, s, b) PROVE MemBatch'
  BY <1>1, <1>a, <1>b DEF HandleAlertEvent, Topics, workVars
<1>2. ASSUME NEW e \in DOMAIN outbox, ReplayOutbox(e) \/ DeleteOutbox(e) \/ RetryDue(e) PROVE MemBatch'
  <2>1. outbox[e] \in Events
    BY <1>0
  <2>2. CASE ReplayOutbox(e)
    <3>1. outbox' = [outbox EXCEPT ![e] = [outbox[e] EXCEPT !.st = "pending", !.tries = @ + 1]] /\ batch' = batch
      BY <2>2 DEF ReplayOutbox, workVars
    <3>2. [outbox[e] EXCEPT !.st = "pending", !.tries = @ + 1].st = "pending"
      BY <2>1 DEF Events
    <3>3. QED
      BY <1>0, <1>a, <3>1, <3>2
  <2>3. CASE DeleteOutbox(e)
    <3>1. outbox' = [outbox EXCEPT ![e] = [outbox[e] EXCEPT !.st = "deleted"]] /\ batch' = batch /\ outbox[e].st \notin Due
      BY <2>3 DEF DeleteOutbox, Deletable, workVars
    <3>2. QED
      BY <1>0, <1>a, <3>1
  <2>4. CASE RetryDue(e)
    <3>1. outbox' = [outbox EXCEPT ![e] = [outbox[e] EXCEPT !.late = FALSE]] /\ batch' = batch
      BY <2>4 DEF RetryDue, workVars
    <3>2. QED
      BY <1>0, <1>a, <2>1, <3>1, EventDue
  <2>5. QED
    BY <1>2, <2>2, <2>3, <2>4
<1>3. CASE ClaimEvents
  <2>1. PICK m \in 1 .. BatchSize : \E ids \in [1 .. m -> Ready] :
          /\ Newest(ids, BatchSize)
          /\ batch' = [i \in 1 .. m |-> [id |-> ids[i], attempt |-> outbox[ids[i]].tries + 1]]
          /\ outbox' = [e \in DOMAIN outbox |->
                          IF e \in ToSet(ids) THEN [outbox[e] EXCEPT !.st = "processing"] ELSE outbox[e]]
    BY <1>3 DEF ClaimEvents
  <2>2. PICK ids \in [1 .. m -> Ready] :
          /\ Newest(ids, BatchSize)
          /\ batch' = [i \in 1 .. m |-> [id |-> ids[i], attempt |-> outbox[ids[i]].tries + 1]]
          /\ outbox' = [e \in DOMAIN outbox |->
                          IF e \in ToSet(ids) THEN [outbox[e] EXCEPT !.st = "processing"] ELSE outbox[e]]
    BY <2>1
  <2>3. DOMAIN batch' = 1 .. m /\ \A i \in 1 .. m : batch'[i].id = ids[i] /\ ids[i] \in DOMAIN outbox /\ ids[i] \in ToSet(ids)
    BY <2>2 DEF Ready, ToSet
  <2>4. \A i \in 1 .. m : outbox'[ids[i]].st = "processing"
    <3>1. ASSUME NEW i \in 1 .. m PROVE outbox'[ids[i]].st = "processing"
      <4>1. outbox'[ids[i]] = [outbox[ids[i]] EXCEPT !.st = "processing"]
        BY <2>2, <2>3
      <4>3. outbox[ids[i]] \in Events
        BY <1>0, <2>3
      <4>2. QED
        BY <4>1, <4>3 DEF Events
    <3>2. QED
      BY <3>1
  <2>5. \A i, j \in 1 .. m : ids[i] = ids[j] => i = j
    <3>1. \A i, j \in 1 .. m : i < j => ids[i] > ids[j]
      BY <2>2 DEF Newest
    <3>2. \A i \in 1 .. m : ids[i] \in Nat
      BY <1>0, <2>3
    <3>3. QED
      BY <3>1, <3>2
  <2>6. QED
    BY <2>3, <2>4, <2>5 DEF MemBatch, ClaimedPresent
<1>4. CASE ResolveEvent
  <2>1. /\ batch # << >> /\ batch' = Tail(batch)
        /\ outbox' = [outbox EXCEPT ![current] = Resolved(outbox[current], Head(batch).attempt, doing[Dispatcher] = "ack")]
    BY <1>0, <1>4 DEF ResolveEvent, MemPlaced
  <2>2. current = batch[1].id
    BY <1>0, <2>1, CurrentEvent
  <2>3. Len(batch) \in Nat /\ DOMAIN batch = 1 .. Len(batch) /\ 1 \in DOMAIN batch
        /\ DOMAIN Tail(batch) = 1 .. Len(batch) - 1 /\ \A i \in 1 .. Len(batch) - 1 : Tail(batch)[i] = batch[i + 1]
    <3>. DEFINE E == [id : 1 .. Len(outbox), attempt : Nat]
    <3>1. batch \in Seq(E)
      BY <1>0 DEF MemTypeOK
    <3>. HIDE DEF E
    <3>2. QED
      BY <2>1, <3>1
  <2>4. \A i \in 1 .. Len(batch) - 1 : /\ i + 1 \in DOMAIN batch /\ batch'[i] = batch[i + 1]
                                       /\ batch[i + 1].id # current
    BY <1>0, <2>1, <2>2, <2>3 DEF MemBatch
  <2>5. \A i \in 1 .. Len(batch) - 1 : outbox'[batch'[i].id] = outbox[batch[i + 1].id]
    <3>1. ASSUME NEW e \in 1 .. Len(outbox), e # current PROVE outbox'[e] = outbox[e]
      BY <1>0, <2>1, <3>1
    <3>2. QED
      BY <1>d, <2>4, <3>1
  <2>6. DOMAIN batch' = 1 .. Len(batch) - 1
    BY <2>1, <2>3
  <2>7. \A i, j \in DOMAIN batch' : batch'[i].id = batch'[j].id => i = j
    <3>1. \A i, j \in 1 .. Len(batch) - 1 : batch[i + 1].id = batch[j + 1].id => i + 1 = j + 1
      BY <1>0, <2>4 DEF MemBatch
    <3>2. \A i, j \in 1 .. Len(batch) - 1 : i + 1 = j + 1 => i = j
      BY <2>3
    <3>3. ASSUME NEW i \in 1 .. Len(batch) - 1, NEW j \in 1 .. Len(batch) - 1, batch'[i].id = batch'[j].id PROVE i = j
      <4>1. batch[i + 1].id = batch[j + 1].id
        BY <2>4, <3>3
      <4>2. QED
        BY <3>1, <3>2, <4>1
    <3>4. QED
      BY <2>6, <3>3
  <2>8. \A i \in DOMAIN batch' : outbox'[batch'[i].id].st \in Due
    BY <1>0, <2>4, <2>5, <2>6 DEF MemBatch, ClaimedPresent
  <2>9. QED
    BY <2>7, <2>8 DEF MemBatch, ClaimedPresent
<1>5. CASE ApplyAnswer
  <2>1. subject \in Sessions
    BY <1>0, <1>5, CurrentEvent DEF ApplyAnswer, MemPlaced
  <2>2. \A e \in 1 .. Len(outbox) : outbox'[e] = outbox[e]
    BY <1>0, <1>5, <2>1, ClosingQueued DEF ApplyAnswer
  <2>3. QED
    BY <1>5, <1>a, <2>2 DEF ApplyAnswer
<1>6. ASSUME NEW w \in Workers, VerifyStep(w) PROVE MemBatch'
  <2>1. exec[holds[w]].ses \in Sessions
    BY <1>0, <1>6 DEF VerifyStep, HandleVerificationResult, MemPlaced
  <2>2. \A e \in 1 .. Len(outbox) : outbox'[e] = outbox[e]
    BY <1>0, <1>6, <2>1, ClosingQueued DEF VerifyStep, HandleVerificationResult
  <2>3. QED
    BY <1>6, <1>a, <2>2 DEF VerifyStep, HandleVerificationResult
<1>7. ASSUME NEW w \in Workers, Notify(w) PROVE MemBatch'
  <2>1. batch' = batch
    BY <1>7 DEF Notify
  <2>2. QED
    BY <1>0, <1>7, <1>a, <1>b, <2>1, NotifyPublishes DEF Topics
<1>8. CASE OutboxQuiet
  <2>1. batch' = batch
    BY <1>8 DEF OutboxQuiet, BeginEvent, DiagnosisFails, CreateCapabilityApproval, ApplyDirect, ApplyApproval,
       HandleChannelEvent, SweepApprovalTimeouts, ExecuteApproved, ResultStep, HandleResult, VerifyError, workVars
  <2>2. QED
    BY <1>8, <1>a, <2>1, OutboxQuietly
<1>9. CASE UNCHANGED memVars
  BY <1>9, <1>a DEF memVars, storeVars, workVars
<1>10. QED
  BY <1>1, <1>2, <1>3, <1>4, <1>5, <1>6, <1>7, <1>8, <1>9 DEF MemNext, EventStep, DiagnosisStep, OutboxQuiet

-----------------------------------------------------------------------------
(* Verdicts.  An update whose key was recorded is turned away, so one with  *)
(* a key can only take effect as long as nothing is known of it.            *)
LEMMA VerdictStep == MemInv /\ [MemNext]_memVars => MemVerdicts'
<1>. SUFFICES ASSUME MemInv, [MemNext]_memVars PROVE MemVerdicts'
  OBVIOUS
<1>0. MemVerdicts /\ asked \in [Updates -> Verdicts \cup {None}] /\ applied \in [Updates -> Nat]
  BY DEF MemInv, MemTypeOK
<1>1. CASE UNCHANGED <<asked, seen, applied>>
  BY <1>0, <1>1 DEF MemVerdicts
<1>2. ASSUME NEW h \in Handlers, NEW u \in Updates, NEW ask \in Verdicts, HandleChannelEvent(h, u, ask)
      PROVE  MemVerdicts'
  <2>1. /\ u \notin seen /\ asked[u] \in {None, ask} /\ ask # None
        /\ asked' = [asked EXCEPT ![u] = ask] /\ applied' = [applied EXCEPT ![u] = @ + 1]
        /\ seen' = IF ask.key THEN seen \cup {u} ELSE seen
    BY <1>2, MemoryAssumption DEF HandleChannelEvent, Admitted
  <2>2. ask.key => applied[u] = 0
    BY <1>0, <2>1 DEF MemVerdicts
  <2>3. ask.key => u \in seen' /\ applied'[u] <= 1
    BY <1>0, <2>1, <2>2
  <2>4. asked'[u] = ask /\ \A v \in Updates : v # u => asked'[v] = asked[v] /\ applied'[v] = applied[v]
    BY <1>0, <2>1
  <2>5. seen \subseteq seen'
    BY <2>1
  <2>6. ASSUME NEW v \in Updates
        PROVE  /\ asked'[v] = None => applied'[v] = 0
               /\ asked'[v] # None /\ asked'[v].key => v \in seen' /\ applied'[v] <= 1
    <3>1. CASE v = u
      BY <2>1, <2>3, <2>4, <3>1
    <3>2. CASE v # u
      BY <1>0, <2>4, <2>5, <3>2 DEF MemVerdicts
    <3>3. QED
      BY <3>1, <3>2
  <2>7. QED
    BY <2>6 DEF MemVerdicts
<1>3. QED
  BY <1>1, <1>2 DEF MemNext, HandleAlertEvent, EventStep, ReplayOutbox, DeleteOutbox, RetryDue, ClaimEvents, BeginEvent,
     ResolveEvent, DiagnosisStep, DiagnosisFails, ApplyAnswer, CreateCapabilityApproval, ApplyDirect, ApplyApproval,
     SweepApprovalTimeouts, ExecuteApproved, ResultStep, HandleResult, VerifyStep, HandleVerificationResult, Notify,
     VerifyError, memVars, storeVars

(* The steps that leave the sessions alone.                                *)
SessionQuiet ==
    \/ \E e \in DOMAIN outbox : EventStep(e) \/ RetryDue(e)
    \/ ClaimEvents \/ BeginEvent \/ ResolveEvent \/ DiagnosisFails
    \/ \E w \in Workers : ExecuteApproved(w) \/ Notify(w)
    \/ \E h \in Handlers : VerifyError(h)
    \/ UNCHANGED memVars

LEMMA SessionQuietly == SessionQuiet => UNCHANGED <<session, exec>>
  BY DEF SessionQuiet, EventStep, ReplayOutbox, DeleteOutbox, RetryDue, ClaimEvents, BeginEvent, ResolveEvent,
         DiagnosisFails, ExecuteApproved, Notify, VerifyError, memVars, storeVars

(* A session is resolved in the step that queues its closing, and events   *)
(* never lose their topic or their session.                                *)
LEMMA ClosedStep == MemInv /\ [MemNext]_memVars => ResolvedClosed'
<1>. SUFFICES ASSUME MemInv, [MemNext]_memVars PROVE ResolvedClosed'
  OBVIOUS
<1>0. /\ MemTypeOK /\ MemPlaced /\ ResolvedClosed /\ OutboxKept /\ outbox \in Seq(Events)
      /\ session \in [Sessions -> SessionStatus]
  BY OutboxStep DEF MemInv, MemTypeOK, SessionStatus
<1>a. ASSUME \A s \in Sessions : session'[s] = "resolved" => session[s] = "resolved" \/ outbox' = EnqueueSessionClosed(outbox, s)
      PROVE  ResolvedClosed'
  <2>1. SUFFICES ASSUME NEW s \in Sessions, session'[s] = "resolved"
                 PROVE  \E e \in DOMAIN outbox' : outbox'[e].topic = "closed" /\ outbox'[e].ses = s
    BY DEF ResolvedClosed
  <2>2. CASE session[s] = "resolved"
    <3>1. PICK e \in DOMAIN outbox : outbox[e].topic = "closed" /\ outbox[e].ses = s
      BY <1>0, <2>2 DEF ResolvedClosed
    <3>2. e \in DOMAIN outbox' /\ outbox'[e].topic = "closed" /\ outbox'[e].ses = s
      BY <1>0, <3>1 DEF OutboxKept
    <3>3. QED
      BY <3>2
  <2>3. CASE outbox' = EnqueueSessionClosed(outbox, s)
    <3>. DEFINE e == Len(outbox) + 1
    <3>1. Len(outbox') = e /\ outbox'[e].topic = "closed" /\ outbox'[e].ses = s
      BY <1>0, <2>3, ClosingQueued
    <3>2. e \in DOMAIN outbox'
      BY <1>0, <3>1 DEF OutboxKept
    <3>3. QED
      BY <3>1, <3>2
  <2>4. QED
    BY <1>a, <2>1, <2>2, <2>3
<1>1. CASE SessionQuiet
  BY <1>1, <1>a, SessionQuietly
<1>2. ASSUME NEW k \in AlertKeys, NEW s \in Sessions, NEW b \in BOOLEAN, HandleAlertEvent(k, s, b) PROVE ResolvedClosed'
  BY <1>0, <1>2, <1>a DEF HandleAlertEvent
<1>3. ASSUME NEW x \in Execs, CreateCapabilityApproval(x) \/ ApplyDirect(x) \/ ApplyApproval(x) PROVE ResolvedClosed'
  BY <1>0, <1>3, <1>a DEF CreateCapabilityApproval, ApplyDirect, ApplyApproval
<1>4. CASE ApplyAnswer
  BY <1>0, <1>4, <1>a DEF ApplyAnswer
<1>5. ASSUME NEW h \in Handlers, NEW u \in Updates, NEW ask \in Verdicts, HandleChannelEvent(h, u, ask) PROVE ResolvedClosed'
  BY <1>0, <1>5, <1>a DEF HandleChannelEvent
<1>6. ASSUME NEW X \in SUBSET Execs, SweepApprovalTimeouts(X) PROVE ResolvedClosed'
  BY <1>0, <1>6, <1>a DEF SweepApprovalTimeouts
<1>7. ASSUME NEW w \in Workers, ResultStep(w) PROVE ResolvedClosed'
  BY <1>0, <1>7, <1>a DEF ResultStep, HandleResult, SessionAfter
<1>8. ASSUME NEW w \in Workers, VerifyStep(w) PROVE ResolvedClosed'
  BY <1>0, <1>8, <1>a DEF VerifyStep, HandleVerificationResult
<1>9. QED
  BY <1>1, <1>2, <1>3, <1>4, <1>5, <1>6, <1>7, <1>8 DEF MemNext, DiagnosisStep, SessionQuiet

(* Whoever takes a session's last backing away changes its status in the   *)
(* same step, and whoever makes it wait provides the backing.              *)
LEMMA BackedStep == MemInv /\ [MemNext]_memVars => SessionBacked'
<1>. SUFFICES ASSUME MemInv, [MemNext]_memVars PROVE SessionBacked'
  OBVIOUS
<1>. DEFINE Decidable(s, x) == exec[x].ses = s /\ exec[x].st = "pending"
            DecidableNext(s, x) == exec'[x].ses = s /\ exec'[x].st = "pending"
            Works(s, w) == doing[w] \in Carrying /\ exec[holds[w]].ses = s
            WorksNext(s, w) == doing'[w] \in Carrying /\ exec'[holds'[w]].ses = s
            Waits(s) == session'[s] = "pending_approval" =>
                          \/ session[s] = "pending_approval" /\ \A x \in Execs : Decidable(s, x) => DecidableNext(s, x)
                          \/ \E x \in Execs : DecidableNext(s, x)
            Runs(s) == session'[s] = "executing" =>
                          \/ session[s] = "executing" /\ \A w \in Workers : Works(s, w) => WorksNext(s, w)
                          \/ \E w \in Workers : WorksNext(s, w)
<1>0. /\ MemTypeOK /\ MemPlaced /\ MemHolding /\ SessionBacked
      /\ session \in [Sessions -> SessionStatus] /\ exec \in [Execs -> ExecRecord]
      /\ doing \in [Workers -> Labels] /\ holds \in [Workers -> Execs \cup {None}]
  BY DEF MemInv, MemTypeOK, SessionStatus, ExecRecord, Labels
<1>e. /\ Dispatcher \in Workers /\ Handlers \subseteq Workers
      /\ \A w \in Workers : doing[w] \in Carrying => holds[w] \in Execs /\ exec[holds[w]].st = "executing"
  BY <1>0 DEF Workers, MemPlaced, MemHolding
<1>a. (\A s \in Sessions : Waits(s) /\ Runs(s)) => SessionBacked'
  <2>1. \A s \in Sessions : /\ session[s] = "pending_approval" => \E x \in Execs : Decidable(s, x)
                            /\ session[s] = "executing" => \E w \in Workers : Works(s, w)
    BY <1>0 DEF SessionBacked, Carrying
  <2>2. (\A s \in Sessions : /\ session'[s] = "pending_approval" => \E x \in Execs : DecidableNext(s, x)
                             /\ session'[s] = "executing" => \E w \in Workers : WorksNext(s, w)) => SessionBacked'
    BY DEF SessionBacked, Carrying
  <2>. HIDE DEF Decidable, DecidableNext, Works, WorksNext
  <2>3. QED
    BY <2>1, <2>2
<1>1. CASE SessionQuiet
  <2>1. UNCHANGED <<session, exec>>
    BY <1>1, SessionQuietly
  <2>2. ASSUME NEW w \in Workers, doing[w] \in Carrying PROVE doing'[w] \in Carrying /\ holds'[w] = holds[w]
    <3>1. CASE UNCHANGED <<doing, holds>>
      BY <2>2, <3>1
    <3>2. CASE BeginEvent \/ ResolveEvent \/ DiagnosisFails
      <4>1. doing[Dispatcher] \notin Carrying /\ w # Dispatcher
        BY <2>2, <3>2 DEF BeginEvent, ResolveEvent, DiagnosisFails, Carrying
      <4>2. doing'[w] = doing[w] /\ holds'[w] = holds[w]
        BY <1>0, <3>2, <4>1 DEF BeginEvent, ResolveEvent, DiagnosisFails, Goto
      <4>3. QED
        BY <2>2, <4>2
    <3>3. ASSUME NEW v \in Workers, ExecuteApproved(v) PROVE doing'[w] \in Carrying /\ holds'[w] = holds[w]
      BY <1>0, <2>2, <3>3 DEF ExecuteApproved, Goto, Carrying
    <3>4. ASSUME NEW v \in Workers, Notify(v) PROVE doing'[w] \in Carrying /\ holds'[w] = holds[w]
      BY <1>0, <2>2, <3>4 DEF Notify, Goto, Carrying
    <3>5. ASSUME NEW h \in Handlers, VerifyError(h) PROVE doing'[w] \in Carrying /\ holds'[w] = holds[w]
      BY <1>0, <1>e, <2>2, <3>5 DEF VerifyError, Goto, Carrying
    <3>6. QED
      BY <1>1, <3>1, <3>2, <3>3, <3>4, <3>5 DEF SessionQuiet, EventStep, ReplayOutbox, DeleteOutbox, RetryDue,
         ClaimEvents, memVars, workVars
  <2>3. QED
    BY <1>a, <2>1, <2>2
<1>2. ASSUME NEW k \in AlertKeys, NEW s \in Sessions, NEW b \in BOOLEAN, HandleAlertEvent(k, s, b) PROVE SessionBacked'
  <2>1. /\ UNCHANGED <<exec, doing, holds>>
        /\ \A q \in Sessions : session'[q] \in {"pending_approval", "executing"} => session'[q] = session[q]
    BY <1>0, <1>2 DEF HandleAlertEvent, workVars
  <2>2. QED
    BY <1>a, <2>1
<1>3. ASSUME NEW x \in Execs, CreateCapabilityApproval(x) \/ ApplyDirect(x) \/ ApplyApproval(x) PROVE SessionBacked'
  <2>1. doing[Dispatcher] = "plan" /\ batch # << >> /\ subject \in Sessions
    BY <1>0, <1>3, CurrentEvent DEF CreateCapabilityApproval, ApplyDirect, ApplyApproval, MemPlaced
  <2>2. PICK st \in {"pending", "executing"}, kind \in {"execution", "capability"}, l \in {"tell_plan", "tell_run", "tell_end"} :
          /\ NewExec(x, kind, st) /\ Goto(Dispatcher, l, IF st = "executing" THEN x ELSE None)
          /\ l = "tell_run" <=> st = "executing"
          /\ session' = [session EXCEPT ![subject] = IF st = "executing" THEN "executing" ELSE "pending_approval"]
    BY <1>3 DEF CreateCapabilityApproval, ApplyDirect, ApplyApproval
  <2>3. /\ exec[x].st = "none" /\ exec'[x].st = st /\ exec'[x].ses = subject
        /\ \A y \in Execs : y # x => exec'[y] = exec[y]
    BY <1>0, <2>1, <2>2, ExecCreated
  <2>4. /\ doing'[Dispatcher] = l /\ holds'[Dispatcher] = IF st = "executing" THEN x ELSE None
        /\ \A v \in Workers : v # Dispatcher => doing'[v] = doing[v] /\ holds'[v] = holds[v]
    BY <1>0, <1>e, <2>2, LabelPlaced DEF Labels
  <2>5. \A s \in Sessions, y \in Execs : Decidable(s, y) => DecidableNext(s, y)
    BY <2>3
  <2>6. \A s \in Sessions, w \in Workers : Works(s, w) => WorksNext(s, w)
    BY <1>e, <2>1, <2>3, <2>4 DEF Carrying
  <2>7. /\ st = "pending" => DecidableNext(subject, x)
        /\ st = "executing" => WorksNext(subject, Dispatcher)
    BY <2>2, <2>3, <2>4 DEF Carrying
  <2>8. \A s \in Sessions : s # subject => session'[s] = session[s]
    BY <1>0, <2>2
  <2>9. session'[subject] = IF st = "executing" THEN "executing" ELSE "pending_approval"
    BY <1>0, <2>1, <2>2
  <2>. HIDE DEF Decidable, DecidableNext, Works, WorksNext
  <2>10. ASSUME NEW s \in Sessions PROVE Waits(s) /\ Runs(s)
    <3>1. CASE s = subject
      BY <1>e, <2>2, <2>7, <2>9, <3>1
    <3>2. CASE s # subject
      BY <2>5, <2>6, <2>8, <3>2
    <3>3. QED
      BY <3>1, <3>2
  <2>. HIDE DEF Waits, Runs
  <2>11. QED
    BY <1>a, <2>10
<1>4. CASE ApplyAnswer
  <2>1. /\ exec' = exec /\ doing[Dispatcher] = "plan" /\ Goto(Dispatcher, "tell_end", None)
        /\ \A q \in Sessions : session'[q] \in {"pending_approval", "executing"} => session'[q] = session[q]
    BY <1>0, <1>4 DEF ApplyAnswer
  <2>2. \A w \in Workers : doing[w] \in Carrying => doing'[w] = doing[w] /\ holds'[w] = holds[w]
    BY <1>0, <2>1 DEF Goto, Carrying
  <2>3. QED
    BY <1>a, <2>1, <2>2
<1>5. ASSUME NEW h \in Handlers, NEW u \in Updates, NEW ask \in Verdicts, HandleChannelEvent(h, u, ask) PROVE SessionBacked'
  <2>. DEFINE x == ask.x
              t == exec[x].ses
  <2>1. x \in Execs /\ doing[h] = "idle" /\ exec[x].st = "pending" /\ t \in Sessions
    BY <1>0, <1>5 DEF HandleChannelEvent, Verdicts, Admitted, MemPlaced
  <2>2. PICK st \in {"pending", "approved", "executing", "rejected"}, l \in {"tell_run", "tell_end"}, a \in {"executing", "open", "analyzing"} :
          /\ Goto(h, l, x) /\ (l = "tell_run" <=> st = "executing") /\ (a = "executing" => st = "executing")
          /\ exec' = [exec EXCEPT ![x].st = st] \/ (exec' = exec /\ st = "pending")
          /\ session' = [session EXCEPT ![t] = a]
    BY <1>5 DEF HandleChannelEvent, ApprovedAs
  <2>. HIDE DEF x, t
  <2>3. /\ exec'[x].st = st /\ exec'[x].ses = t
        /\ \A y \in Execs : y # x => exec'[y] = exec[y]
    <3>1. CASE exec' = exec /\ st = "pending"
      BY <2>1, <3>1 DEF t
    <3>2. CASE exec' = [exec EXCEPT ![x].st = st]
      BY <1>0, <2>1, <3>2, ExecMoved DEF ExecStatus, t
    <3>3. QED
      BY <2>2, <3>1, <3>2
  <2>4. /\ doing'[h] = l /\ holds'[h] = x
        /\ \A v \in Workers : v # h => doing'[v] = doing[v] /\ holds'[v] = holds[v]
    BY <1>0, <1>e, <2>1, <2>2, LabelPlaced DEF Labels
  <2>5. \A s \in Sessions, y \in Execs : s # t /\ Decidable(s, y) => DecidableNext(s, y)
    BY <2>3 DEF t
  <2>6. \A s \in Sessions, w \in Workers : Works(s, w) => WorksNext(s, w)
    BY <1>e, <2>1, <2>3, <2>4 DEF Carrying
  <2>7. st = "executing" => WorksNext(t, h)
    BY <2>2, <2>3, <2>4 DEF Carrying
  <2>8. session'[t] = a /\ \A s \in Sessions : s # t => session'[s] = session[s]
    BY <1>0, <2>1, <2>2
  <2>. HIDE DEF Decidable, DecidableNext, Works, WorksNext
  <2>9. ASSUME NEW s \in Sessions PROVE Waits(s) /\ Runs(s)
    <3>1. CASE s = t
      BY <1>e, <2>2, <2>7, <2>8, <3>1
    <3>2. CASE s # t
      BY <2>5, <2>6, <2>8, <3>2
    <3>3. QED
      BY <3>1, <3>2
  <2>. HIDE DEF Waits, Runs
  <2>10. QED
    BY <1>a, <2>9
<1>6. ASSUME NEW X \in SUBSET Execs, SweepApprovalTimeouts(X) PROVE SessionBacked'
  <2>1. /\ UNCHANGED <<doing, holds>>
        /\ \A y \in Execs : exec'[y] = IF y \in X THEN [exec[y] EXCEPT !.st = "rejected"] ELSE exec[y]
        /\ \A s \in Sessions : session'[s] = IF \E y \in X : exec[y].ses = s THEN "open" ELSE session[s]
    BY <1>6 DEF SweepApprovalTimeouts, workVars
  <2>2. \A y \in Execs : exec'[y].ses = exec[y].ses /\ (y \notin X => exec'[y].st = exec[y].st)
    <3>1. \A y \in Execs : exec[y] \in ExecRecord
      BY <1>0
    <3>2. QED
      BY <2>1, <3>1 DEF ExecRecord
  <2>3. \A s \in Sessions, w \in Workers : Works(s, w) => WorksNext(s, w)
    BY <1>e, <2>1, <2>2
  <2>4. ASSUME NEW s \in Sessions, session'[s] # "open", NEW y \in Execs, Decidable(s, y) PROVE DecidableNext(s, y)
    BY <2>1, <2>2, <2>4
  <2>. HIDE DEF Decidable, DecidableNext, Works, WorksNext
  <2>5. \A s \in Sessions : Waits(s) /\ Runs(s)
    BY <2>1, <2>3, <2>4
  <2>. HIDE DEF Waits, Runs
  <2>6. QED
    BY <1>a, <2>5
<1>7. ASSUME NEW w \in Workers, NEW r \in Finished, HandleResult(w, r) PROVE SessionBacked'
  <2>. DEFINE x == holds[w]
              t == exec[x].ses
              a == SessionAfter(x, r)
  <2>1. /\ doing[w] = "result" /\ x \in Execs /\ t \in Sessions /\ exec[x].st = "executing"
        /\ exec' = [exec EXCEPT ![x].st = r] /\ r \in ExecStatus /\ session' = [session EXCEPT ![t] = a]
    BY <1>0, <1>7, <1>e DEF HandleResult, ResultAs, MemPlaced, Carrying, Finished, ExecStatus
  <2>2. PICK l \in {"verify", "tell_end"} : Goto(w, l, x)
    BY <1>7 DEF HandleResult
  <2>3. a \notin {"executing", "pending_approval"}
    BY DEF SessionAfter
  <2>. HIDE DEF x, t, a
  <2>4. \A v \in Workers : v # w => doing'[v] = doing[v] /\ holds'[v] = holds[v]
    BY <1>0, <2>1, <2>2, LabelPlaced DEF Labels
  <2>5. /\ exec'[x].ses = exec[x].ses /\ \A y \in Execs : y # x => exec'[y] = exec[y]
    BY <1>0, <2>1, ExecMoved
  <2>6. session'[t] = a /\ \A s \in Sessions : s # t => session'[s] = session[s]
    BY <1>0, <2>1
  <2>7. \A s \in Sessions, v \in Workers : s # t /\ Works(s, v) => WorksNext(s, v)
    BY <1>e, <2>4, <2>5 DEF t, x
  <2>8. \A s \in Sessions, y \in Execs : Decidable(s, y) => DecidableNext(s, y)
    BY <2>1, <2>5
  <2>. HIDE DEF Decidable, DecidableNext, Works, WorksNext
  <2>9. \A s \in Sessions : Waits(s) /\ Runs(s)
    BY <2>3, <2>6, <2>7, <2>8
  <2>. HIDE DEF Waits, Runs
  <2>10. QED
    BY <1>a, <2>9
<1>8. ASSUME NEW w \in Workers, VerifyStep(w) PROVE SessionBacked'
  <2>1. /\ exec' = exec /\ doing[w] = "verify" /\ Goto(w, "tell_end", holds[w])
        /\ \A q \in Sessions : session'[q] \in {"pending_approval", "executing"} => session'[q] = session[q]
    BY <1>0, <1>8 DEF VerifyStep, HandleVerificationResult
  <2>2. \A v \in Workers : doing[v] \in Carrying => doing'[v] = doing[v] /\ holds'[v] = holds[v]
    BY <1>0, <2>1 DEF Goto, Carrying
  <2>3. QED
    BY <1>a, <2>1, <2>2
<1>9. QED
  BY <1>1, <1>2, <1>3, <1>4, <1>5, <1>6, <1>7, <1>8 DEF MemNext, DiagnosisStep, SessionQuiet, ResultStep

-----------------------------------------------------------------------------
LEMMA MemInvariance == MemSpec => []MemInv
<1>1. MemInit => MemInv
  <2>. SUFFICES ASSUME MemInit PROVE MemInv
    OBVIOUS
  <2>0. Dispatcher \in Workers /\ Handlers \subseteq Workers
    BY DEF Workers
  <2>1. MemTypeOK
    <3>. DEFINE E == [id : 1 .. Len(outbox), attempt : Nat]
    <3>1. batch \in Seq(E) /\ Len(batch) <= BatchSize
      <4>. HIDE DEF E
      <4>1. QED
        BY MemoryAssumption DEF MemInit
    <3>. DEFINE rec == [st |-> "none", ses |-> None, kind |-> "execution"]
    <3>2. rec \in ExecRecord
      BY DEF ExecRecord, ExecStatus
    <3>3. exec = [x \in Execs |-> rec]
      BY DEF MemInit
    <3>. HIDE DEF rec
    <3>4. exec \in [Execs -> ExecRecord]
      BY <3>2, <3>3
    <3>5. QED
      BY <3>1, <3>4, MemoryAssumption DEF MemInit, MemTypeOK, ExecRecord
  <2>2. MemPlaced /\ MemHolding
    BY <2>0 DEF MemInit, MemPlaced, MemHolding, Carrying
  <2>3. MemBatch /\ MemVerdicts
    BY DEF MemInit, MemBatch, ClaimedPresent, MemVerdicts
  <2>4. ResolvedClosed /\ SessionBacked
    BY DEF MemInit, ResolvedClosed, SessionBacked
  <2>5. QED
    BY <2>1, <2>2, <2>3, <2>4 DEF MemInv
<1>2. MemInv /\ [MemNext]_memVars => MemInv'
  BY MemTypeStep, CarryStep, BatchStep, VerdictStep, ClosedStep, BackedStep DEF MemInv
<1>3. QED
  BY <1>1, <1>2, PTL DEF MemSpec

\* The in-memory service applies an update with a key once however often it is
\* delivered, hands the dispatcher no event that can vanish under it, closes what
\* it resolves, and leaves no session waiting for a verdict nobody can give or for
\* an execution nobody carries out: for any number of sessions, executions,
\* updates, requests and events.
THEOREM MemoryCorrect == MemSpec => []MemorySound
<1>1. MemInv => MemorySound
  BY DEF MemInv, MemorySound, MemVerdicts, MemBatch, AppliedOnce
<1>2. QED
  BY <1>1, MemInvariance, PTL

-----------------------------------------------------------------------------
(* The gate.  A step that changes one execution moves one request.         *)
LEMMA GateAlone ==
    ASSUME NEW x \in Execs, NEW stage,
           \A y \in Execs : y # x => exec'[y].st = exec[y].st /\ runs'[y] = runs[y], gateOf'[x] = stage
    PROVE  gateOf' = [gateOf EXCEPT ![x] = stage]
<1>1. \A y \in Execs : y # x => gateOf'[y] = gateOf[y]
  BY DEF gateOf
<1>2. gateOf = [y \in Execs |-> gateOf[y]] /\ gateOf' = [y \in Execs |-> gateOf'[y]]
  BY DEF gateOf
<1>3. QED
  BY <1>1, <1>2

LEMMA MemGateStep == MemInv /\ [MemNext]_memVars => [Gate!GateNext]_gateOf
<1>. SUFFICES ASSUME MemInv, [MemNext]_memVars PROVE Gate!GateNext \/ gateOf' = gateOf
  OBVIOUS
<1>0. /\ MemTypeOK /\ MemPlaced /\ MemHolding
      /\ exec \in [Execs -> ExecRecord] /\ runs \in [Execs -> Nat]
  BY DEF MemInv, MemTypeOK, ExecRecord
<1>a. UNCHANGED <<exec, runs>> => gateOf' = gateOf
  BY DEF gateOf
<1>1. CASE CarryQuiet
  BY <1>1, <1>a, CarriedOn
<1>2. ASSUME NEW x \in Execs, CreateCapabilityApproval(x) \/ ApplyDirect(x) \/ ApplyApproval(x) PROVE Gate!GateNext
  <2>1. doing[Dispatcher] = "plan" /\ batch # << >> /\ runs' = runs
    BY <1>0, <1>2 DEF CreateCapabilityApproval, ApplyDirect, ApplyApproval, MemPlaced
  <2>2. PICK st \in {"pending", "executing"}, kind \in {"execution", "capability"} : NewExec(x, kind, st)
    BY <1>2 DEF CreateCapabilityApproval, ApplyDirect, ApplyApproval
  <2>3. exec[x].st = "none" /\ exec'[x].st = st /\ \A y \in Execs : y # x => exec'[y] = exec[y]
    BY <1>0, <2>1, <2>2, ExecCreated
  <2>4. runs[x] = 0
    BY <1>0, <2>3 DEF MemHolding
  <2>5. gateOf[x] = "absent" /\ gateOf'[x] = IF st = "pending" THEN "waiting" ELSE "cleared"
    BY <2>1, <2>2, <2>3, <2>4 DEF gateOf, Finished
  <2>6. gateOf' = [gateOf EXCEPT ![x] = IF st = "pending" THEN "waiting" ELSE "cleared"]
    BY <2>1, <2>3, <2>5, GateAlone
  <2>7. QED
    BY <2>5, <2>6 DEF Gate!GateNext, Gate!Ask, Gate!ClearByRule, Gate!Move
<1>3. ASSUME NEW h \in Handlers, NEW u \in Updates, NEW ask \in Verdicts, HandleChannelEvent(h, u, ask)
      PROVE  Gate!GateNext \/ gateOf' = gateOf
  <2>. DEFINE x == ask.x
  <2>1. x \in Execs /\ exec[x].st = "pending" /\ runs' = runs
    BY <1>3 DEF HandleChannelEvent, Verdicts, Admitted
  <2>2. \/ exec' = exec
        \/ \E st \in {"approved", "executing", "rejected"} : exec' = [exec EXCEPT ![x].st = st]
    BY <1>3 DEF HandleChannelEvent, ApprovedAs
  <2>. HIDE DEF x
  <2>3. CASE exec' = exec
    BY <1>a, <2>1, <2>3
  <2>4. ASSUME NEW st \in {"approved", "executing", "rejected"}, exec' = [exec EXCEPT ![x].st = st] PROVE Gate!GateNext
    <3>1. exec'[x].st = st /\ \A y \in Execs : y # x => exec'[y] = exec[y]
      BY <1>0, <2>1, <2>4, ExecMoved DEF ExecStatus
    <3>2. runs[x] = 0
      BY <1>0, <2>1 DEF MemHolding
    <3>. DEFINE stage == CASE st = "approved" -> "parked" [] st = "executing" -> "cleared" [] st = "rejected" -> "refused"
    <3>3. gateOf[x] = "waiting" /\ gateOf'[x] = stage
      BY <2>1, <3>1, <3>2 DEF gateOf, Finished
    <3>4. gateOf' = [gateOf EXCEPT ![x] = stage]
      BY <2>1, <3>1, <3>3, GateAlone
    <3>5. CASE st \in {"approved", "executing"}
      BY <2>1, <3>3, <3>4, <3>5 DEF Gate!GateNext, Gate!Park, Gate!Clear, Gate!Move
    <3>6. CASE st = "rejected"
      <4>1. gateOf = [y \in Execs |-> gateOf[y]]
        BY DEF gateOf
      <4>2. gateOf' = [y \in Execs |-> IF y \in {x} THEN "refused" ELSE gateOf[y]]
        BY <3>4, <3>6, <4>1
      <4>3. {x} \in SUBSET Execs /\ {x} # {} /\ \A y \in {x} : gateOf[y] = "waiting"
        BY <2>1, <3>3
      <4>4. QED
        BY <4>2, <4>3, Zenon DEF Gate!GateNext, Gate!Refuse
    <3>7. QED
      BY <3>5, <3>6
  <2>5. QED
    BY <2>2, <2>3, <2>4
<1>4. ASSUME NEW X \in SUBSET Execs, SweepApprovalTimeouts(X) PROVE Gate!GateNext
  <2>1. /\ X # {} /\ runs' = runs /\ \A x \in X : exec[x].st = "pending"
        /\ \A y \in Execs : exec'[y] = IF y \in X THEN [exec[y] EXCEPT !.st = "rejected"] ELSE exec[y]
    BY <1>4 DEF SweepApprovalTimeouts, Expired
  <2>2. \A y \in Execs : exec'[y].st = IF y \in X THEN "rejected" ELSE exec[y].st
    <3>1. \A y \in Execs : exec[y] \in ExecRecord
      BY <1>0
    <3>2. QED
      BY <2>1, <3>1 DEF ExecRecord
  <2>3. /\ gateOf' = [x \in Execs |-> IF x \in X THEN "refused" ELSE gateOf[x]]
        /\ \A x \in X : gateOf[x] = "waiting"
    BY <2>1, <2>2 DEF gateOf, Finished
  <2>4. QED
    BY <2>1, <2>3 DEF Gate!GateNext, Gate!Refuse
<1>5. ASSUME NEW w \in Workers, ExecuteApproved(w) PROVE Gate!GateNext
  <2>. DEFINE x == holds[w]
  <2>1. /\ x \in Execs /\ exec[x].st = "executing" /\ runs[x] = 0 /\ exec' = exec
        /\ runs' = [runs EXCEPT ![x] = @ + 1]
    BY <1>0, <1>5 DEF ExecuteApproved, storeVars, MemPlaced, MemHolding, Carrying
  <2>. HIDE DEF x
  <2>2. runs'[x] = 1 /\ \A y \in Execs : y # x => runs'[y] = runs[y]
    BY <1>0, <2>1
  <2>3. gateOf[x] = "cleared" /\ gateOf'[x] = "started"
    BY <2>1, <2>2 DEF gateOf, Finished
  <2>4. gateOf' = [gateOf EXCEPT ![x] = "started"]
    BY <2>1, <2>2, <2>3, GateAlone
  <2>5. QED
    BY <2>1, <2>3, <2>4 DEF Gate!GateNext, Gate!StartRun, Gate!Move
<1>6. ASSUME NEW w \in Workers, NEW r \in Finished, HandleResult(w, r) PROVE Gate!GateNext
  <2>. DEFINE x == holds[w]
  <2>1. /\ x \in Execs /\ exec[x].st = "executing" /\ runs[x] = 1 /\ runs' = runs
        /\ exec' = [exec EXCEPT ![x].st = r] /\ r \in ExecStatus
    BY <1>0, <1>6 DEF HandleResult, ResultAs, MemPlaced, MemHolding, Carrying, Finished, ExecStatus
  <2>. HIDE DEF x
  <2>2. exec'[x].st = r /\ \A y \in Execs : y # x => exec'[y] = exec[y]
    BY <1>0, <2>1, ExecMoved
  <2>3. gateOf[x] = "started" /\ gateOf'[x] = "finished"
    BY <2>1, <2>2 DEF gateOf, Finished
  <2>4. gateOf' = [gateOf EXCEPT ![x] = "finished"]
    BY <2>1, <2>2, <2>3, GateAlone
  <2>5. QED
    BY <2>1, <2>3, <2>4 DEF Gate!GateNext, Gate!Finish, Gate!Move
<1>7. ASSUME \/ BeginEvent \/ ResolveEvent \/ DiagnosisFails \/ ApplyAnswer
             \/ \E w \in Workers : VerifyStep(w) \/ Notify(w)
             \/ \E h \in Handlers : VerifyError(h)
      PROVE  gateOf' = gateOf
  <2>1. UNCHANGED <<exec, runs>>
    BY <1>7 DEF BeginEvent, ResolveEvent, DiagnosisFails, ApplyAnswer, VerifyStep, HandleVerificationResult, Notify,
       VerifyError, storeVars
  <2>2. QED
    BY <1>a, <2>1
<1>8. QED
  BY <1>1, <1>2, <1>3, <1>4, <1>5, <1>6, <1>7 DEF MemNext, DiagnosisStep, CarryQuiet, ResultStep

\* The in-memory service implements the approval gate: a request is created
\* waiting or cleared, gets one verdict, is started at most once and only when
\* cleared, and a refusal is final, however verdicts, sweeps and results interleave.
THEOREM MemoryImplementation == MemSpec => GateImplemented
<1>1. MemInit => Gate!GateInit
  BY DEF MemInit, gateOf, Finished, Gate!GateInit
<1>2. QED
  BY MemInvariance, <1>1, MemGateStep, PTL DEF MemSpec, GateImplemented, Gate!GateSpec

-----------------------------------------------------------------------------
(* The knowledge base.  The inductive invariant.                           *)

IngestPcs == {"idle", "read", "find", "doc", "record", "commit", "vectors"}
IngestRecord == [pc : IngestPcs, s : Closed \cup {NoSession}, v : 0 .. MaxVersion, old : 0 .. MaxVersion,
                 todo : SUBSET Closed]

\* ingester a has read session s and not finished with it
Past(a, s) == ingest[a].s = s /\ ingest[a].pc # "read"

\* An ingester works on a session or is idle; an event is waiting or being worked
\* on, and neither events nor readings outnumber the changes of their session.
KnShape ==
    /\ ingest \in [Ingesters -> IngestRecord]
    /\ chunks \in [Closed -> Seq(1 .. MaxVersion)] /\ vectors \in [Closed -> Seq(1 .. MaxVersion)]
    /\ \A a \in Ingesters : ingest[a].pc = "idle" <=> ingest[a].s = NoSession
    /\ ingest["dispatcher"].todo = {}
    /\ \A s \in Closed : /\ closings[s] + failed[s] + (IF ingest["dispatcher"].s = s THEN 1 ELSE 0) <= text[s]
                         /\ doc[s] <= text[s] /\ closedAt[s] <= text[s]
                         /\ \A a \in Ingesters : ingest[a].s = s => ingest[a].v <= text[s]

\* Without a race at most one ingester is past its reading of a session.  It saw
\* the document the row still holds, and what it read is no older.
KnAlone ==
    \A s \in Closed \ raced :
        /\ \A a, b \in Ingesters : Past(a, s) /\ Past(b, s) => a = b
        /\ \A a \in Ingesters : Past(a, s) =>
             /\ ingest[a].v >= doc[s]
             /\ ingest[a].pc \in {"doc", "record", "commit"} => ingest[a].old = doc[s]
             /\ ingest[a].pc = "vectors" => ingest[a].v = doc[s]
        /\ record[s] = doc[s]

\* The last closing waits, or is being ingested from a reading that saw it, or is
\* in the document.
KnLatest ==
    \A s \in Closed \ raced :
        \/ closings[s] > 0 \/ failed[s] > 0
        \/ doc[s] >= closedAt[s]
        \/ ingest["dispatcher"].s = s /\ (ingest["dispatcher"].pc = "read" \/ ingest["dispatcher"].v >= closedAt[s])

\* Vectors differ from the chunks only while somebody is about to replace them.
KnVectors ==
    \A s \in Closed \ (raced \cup missed) :
        vectors[s] = chunks[s] \/ \E a \in Ingesters : ingest[a].s = s /\ ingest[a].pc = "vectors"

KnInv == KnowledgeTypeOK /\ KnShape /\ ChunksOfDocument /\ KnAlone /\ KnLatest /\ KnVectors

(* What the type invariant says, with the ingesters' records.              *)
KnTyped ==
    /\ text \in [Closed -> 0 .. MaxVersion] /\ closings \in [Closed -> 0 .. MaxVersion]
    /\ failed \in [Closed -> 0 .. MaxVersion]
    /\ doc \in [Closed -> 0 .. MaxVersion] /\ record \in [Closed -> 0 .. MaxVersion]
    /\ chunks \in [Closed -> Seq(1 .. MaxVersion)] /\ vectors \in [Closed -> Seq(1 .. MaxVersion)]
    /\ ingest \in [Ingesters -> IngestRecord]
    /\ docLock \in [Closed -> Ingesters \cup {Nobody}] /\ recLock \in [Closed -> Ingesters \cup {Nobody}]
    /\ reindexes \in 0 .. MaxReindexes /\ ingestFaults \in 0 .. MaxIngestFaults
    /\ closedAt \in [Closed -> 0 .. MaxVersion] /\ raced \subseteq Closed /\ missed \subseteq Closed

KnCounts ==
    /\ \A a \in Ingesters : ingest[a].pc = "idle" <=> ingest[a].s = NoSession
    /\ ingest["dispatcher"].todo = {}
    /\ \A s \in Closed : /\ closings[s] + failed[s] + (IF ingest["dispatcher"].s = s THEN 1 ELSE 0) <= text[s]
                         /\ doc[s] <= text[s] /\ closedAt[s] <= text[s]
                         /\ \A a \in Ingesters : ingest[a].s = s => ingest[a].v <= text[s]

LEMMA KnParts == KnowledgeTypeOK /\ KnShape <=> KnTyped /\ KnCounts
<1>1. KnowledgeTypeOK /\ KnShape => KnTyped /\ KnCounts
  BY DEF KnowledgeTypeOK, KnShape, KnTyped, KnCounts
<1>2. KnTyped /\ KnCounts => KnShape
  BY DEF KnShape, KnTyped, KnCounts
<1>3. KnTyped => KnowledgeTypeOK
  <2>1. KnTyped => \A a \in Ingesters : ingest[a].pc \in IngestPcs /\ ingest[a].todo \subseteq Closed
    <3>1. KnTyped => \A a \in Ingesters : ingest[a] \in IngestRecord
      BY DEF KnTyped
    <3>2. QED
      BY <3>1 DEF IngestRecord
  <2>2. QED
    BY <2>1 DEF KnTyped, KnowledgeTypeOK, IngestPcs
<1>4. QED
  BY <1>1, <1>2, <1>3

LEMMA KnPartsNext == KnTyped' /\ KnCounts' => KnowledgeTypeOK' /\ KnShape'
<1>1. KnTyped' /\ KnCounts' => KnShape'
  BY DEF KnShape, KnTyped, KnCounts
<1>2. KnTyped' => \A a \in Ingesters : ingest'[a].pc \in IngestPcs /\ ingest'[a].todo \subseteq Closed
  <2>1. KnTyped' => \A a \in Ingesters : ingest'[a] \in IngestRecord
    BY DEF KnTyped
  <2>2. QED
    BY <2>1 DEF IngestRecord
<1>3. QED
  BY <1>1, <1>2 DEF KnTyped, KnowledgeTypeOK, IngestPcs

LEMMA IngestMoved ==
    ASSUME KnTyped, NEW a \in Ingesters, NEW rec \in IngestRecord, Step(a, rec)
    PROVE  /\ ingest' \in [Ingesters -> IngestRecord] /\ ingest'[a] = rec
           /\ \A b \in Ingesters : b # a => ingest'[b] = ingest[b]
  BY DEF KnTyped, Step

LEMMA IngestFields ==
    ASSUME KnTyped, NEW a \in Ingesters
    PROVE  /\ ingest[a] \in IngestRecord /\ ingest[a].pc \in IngestPcs /\ ingest[a].s \in Closed \cup {NoSession}
           /\ ingest[a].v \in 0 .. MaxVersion /\ ingest[a].old \in 0 .. MaxVersion /\ ingest[a].todo \subseteq Closed
<1>1. ingest[a] \in IngestRecord
  BY DEF KnTyped
<1>2. QED
  BY <1>1 DEF IngestRecord

LEMMA IngestNone == /\ NoIngest \in IngestRecord /\ NoIngest.pc = "idle" /\ NoIngest.s = NoSession /\ NoIngest.v = 0
                    /\ NoIngest.old = 0 /\ NoIngest.todo = {}
  BY KnowledgeAssumption DEF NoIngest, IngestRecord, IngestPcs

LEMMA IngestStarted ==
    ASSUME NEW s \in Closed, NEW T \in SUBSET Closed
    PROVE  LET rec == [NoIngest EXCEPT !.pc = "read", !.s = s, !.todo = T] IN
           rec \in IngestRecord /\ rec.pc = "read" /\ rec.s = s /\ rec.v = 0
<1>1. "read" \in IngestPcs
  BY DEF IngestPcs
<1>2. QED
  BY <1>1, IngestNone DEF IngestRecord

LEMMA IngestNext ==
    ASSUME KnTyped, NEW a \in Ingesters, NEW rec \in NextIngest(a)
    PROVE  /\ rec \in IngestRecord /\ rec.v = 0
           /\ (rec.pc = "idle" /\ rec.s = NoSession) \/ (rec.pc = "read" /\ rec.s \in Closed)
<1>1. ingest[a].todo \subseteq Closed
  BY IngestFields
<1>2. CASE rec = NoIngest
  BY <1>2, IngestNone
<1>3. CASE rec # NoIngest
  <2>1. PICK s \in ingest[a].todo : rec = [NoIngest EXCEPT !.pc = "read", !.s = s, !.todo = ingest[a].todo \ {s}]
    BY <1>3 DEF NextIngest
  <2>2. s \in Closed /\ ingest[a].todo \ {s} \in SUBSET Closed
    BY <1>1
  <2>3. QED
    BY <2>1, <2>2, IngestStarted
<1>4. QED
  BY <1>2, <1>3

LEMMA ChunksTyped == ASSUME NEW v \in 0 .. MaxVersion PROVE ChunksOf(v) \in Seq(1 .. MaxVersion)
<1>. DEFINE V == 1 .. MaxVersion
<1>0. v \in Nat /\ \A i \in 1 .. v : v \in V
  BY KnowledgeAssumption
<1>. HIDE DEF V
<1>1. ChunksOf(v) \in [1 .. v -> V]
  BY <1>0 DEF ChunksOf
<1>2. ChunksOf(v) \in Seq(V)
  BY <1>0, <1>1
<1>3. QED
  BY <1>2 DEF V

(* A step inside the transaction changes where its ingester is, and the    *)
(* rows only when it commits.                                              *)
LEMMA KnInside ==
    ASSUME KnInv, KnTyped, KnCounts, NEW a \in Ingesters, NEW rec \in IngestRecord, Step(a, rec),
           ingest[a].pc \in {"find", "doc", "record"}, rec.pc \in {"doc", "record", "commit"},
           rec.s = ingest[a].s, rec.v = ingest[a].v, rec.todo = ingest[a].todo,
           rec.old = doc[rec.s] \/ (rec.old = ingest[a].old /\ ingest[a].pc # "find"),
           docLock' \in [Closed -> Ingesters \cup {Nobody}], recLock' \in [Closed -> Ingesters \cup {Nobody}],
           UNCHANGED <<text, closings, failed, stored, reindexes, ingestFaults, knHistory>>
    PROVE  KnInv'
<1>1. UNCHANGED <<text, closings, failed, doc, chunks, record, vectors, reindexes, ingestFaults, closedAt, raced, missed>>
  BY DEF stored, knHistory
<1>2. /\ ingest' \in [Ingesters -> IngestRecord] /\ ingest'[a] = rec
      /\ \A b \in Ingesters : b # a => ingest'[b] = ingest[b]
  BY IngestMoved
<1>3. KnTyped'
  BY <1>1, <1>2 DEF KnTyped
<1>4. \A b \in Ingesters : ingest'[b].s = ingest[b].s /\ ingest'[b].v = ingest[b].v
  BY <1>2
<1>5. KnCounts'
  <2>1. ingest'["dispatcher"].s = ingest["dispatcher"].s
    BY <1>4 DEF Ingesters
  <2>2. \A b \in Ingesters : ingest'[b].pc = "idle" <=> ingest'[b].s = NoSession
    BY <1>2 DEF KnCounts
  <2>3. ingest'["dispatcher"].todo = {}
    BY <1>2 DEF KnCounts, Ingesters
  <2>4. QED
    BY <1>1, <1>4, <2>1, <2>2, <2>3 DEF KnCounts
<1>6. KnowledgeTypeOK' /\ KnShape'
  BY <1>3, <1>5, KnPartsNext
<1>7. ChunksOfDocument'
  BY <1>1 DEF KnInv, ChunksOfDocument
<1>8. KnAlone'
  <2>1. \A b \in Ingesters, s \in Closed : Past(b, s)' => Past(b, s)
    BY <1>2 DEF Past
  <2>2. ASSUME NEW s \in Closed \ raced PROVE
          /\ \A b, c \in Ingesters : Past(b, s)' /\ Past(c, s)' => b = c
          /\ \A b \in Ingesters : Past(b, s)' =>
               /\ ingest'[b].v >= doc[s]
               /\ ingest'[b].pc \in {"doc", "record", "commit"} => ingest'[b].old = doc[s]
               /\ ingest'[b].pc = "vectors" => ingest'[b].v = doc[s]
    <3>1. \A b, c \in Ingesters : Past(b, s)' /\ Past(c, s)' => b = c
      BY <2>1 DEF KnInv, KnAlone
    <3>2. \A b \in Ingesters : Past(b, s)' => ingest'[b].v >= doc[s]
      BY <1>4, <2>1 DEF KnInv, KnAlone
    <3>3. ASSUME NEW b \in Ingesters, Past(b, s)'
          PROVE  /\ ingest'[b].pc \in {"doc", "record", "commit"} => ingest'[b].old = doc[s]
                 /\ ingest'[b].pc = "vectors" => ingest'[b].v = doc[s]
      <4>1. Past(b, s)
        BY <2>1, <3>3
      <4>2. CASE b # a
        BY <1>2, <4>1, <4>2 DEF KnInv, KnAlone
      <4>3. CASE b = a
        <5>1. ingest[a].s = s /\ rec.s = s
          BY <4>1, <4>3 DEF Past
        <5>2. ingest[a].pc \in {"doc", "record"} => ingest[a].old = doc[s]
          BY <4>1, <4>3 DEF KnInv, KnAlone
        <5>3. rec.old = doc[s]
          BY <5>1, <5>2
        <5>4. QED
          BY <1>2, <4>3, <5>3
      <4>4. QED
        BY <4>2, <4>3
    <3>4. QED
      BY <3>1, <3>2, <3>3
  <2>3. \A s \in Closed \ raced : record[s] = doc[s]
    BY DEF KnInv, KnAlone
  <2>4. QED
    BY <1>1, <2>2, <2>3 DEF KnAlone
<1>9. KnLatest'
  <2>1. /\ ingest'["dispatcher"].s = ingest["dispatcher"].s /\ ingest'["dispatcher"].v = ingest["dispatcher"].v
        /\ ingest["dispatcher"].pc = "read" => ingest'["dispatcher"].pc = "read"
    BY <1>2, <1>4 DEF Ingesters
  <2>2. QED
    BY <1>1, <2>1 DEF KnInv, KnLatest
<1>10. KnVectors'
  <2>1. \A b \in Ingesters : ingest[b].pc = "vectors" => ingest'[b] = ingest[b]
    BY <1>2
  <2>2. QED
    BY <1>1, <2>1 DEF KnInv, KnVectors
<1>11. QED
  BY <1>6, <1>7, <1>8, <1>9, <1>10 DEF KnInv

(* An ingester that stops, or goes on to another session, leaves the rows  *)
(* to the others; what it had not finished is due again or was missed.     *)
LEMMA KnLeaves ==
    ASSUME KnInv, KnTyped, KnCounts, NEW a \in Ingesters, NEW rec \in IngestRecord, Step(a, rec), Busy(a),
           (rec.pc = "idle" /\ rec.s = NoSession) \/ (rec.pc = "read" /\ rec.s \in Closed), rec.v = 0,
           UNCHANGED <<text, doc, chunks, closedAt, raced>>,
           record' \in [Closed -> 0 .. MaxVersion], \A s \in Closed \ raced : record'[s] = record[s],
           a = "dispatcher" => rec.pc = "idle" /\ rec.todo = {},
           vectors' \in [Closed -> Seq(1 .. MaxVersion)], missed' \subseteq Closed,
           closings' = closings, failed' \in [Closed -> 0 .. MaxVersion],
           reindexes' \in 0 .. MaxReindexes, ingestFaults' \in 0 .. MaxIngestFaults,
           docLock' \in [Closed -> Ingesters \cup {Nobody}], recLock' \in [Closed -> Ingesters \cup {Nobody}],
           \A s \in Closed : /\ failed'[s] <= failed[s] + IF a = "dispatcher" /\ ingest[a].s = s THEN 1 ELSE 0
                             /\ failed[s] <= failed'[s]
                             /\ a = "dispatcher" /\ ingest[a].s = s /\ s \notin raced =>
                                  closings[s] > 0 \/ failed'[s] > 0 \/ doc[s] >= closedAt[s],
           \A s \in Closed \ (raced \cup missed') :
               vectors'[s] = chunks[s] \/ \E b \in Ingesters \ {a} : ingest[b].s = s /\ ingest[b].pc = "vectors"
    PROVE  KnInv'
<1>2. /\ ingest' \in [Ingesters -> IngestRecord] /\ ingest'[a] = rec
      /\ \A b \in Ingesters : b # a => ingest'[b] = ingest[b]
  BY IngestMoved
<1>3. KnTyped'
  BY <1>2 DEF KnTyped
<1>0. \A s \in Closed : /\ text[s] \in Nat /\ closings[s] \in Nat /\ doc[s] \in Nat
                        /\ failed[s] \in Nat /\ failed'[s] \in Nat
  BY <1>3 DEF KnTyped
<1>5. KnCounts'
  <2>1. \A b \in Ingesters : ingest'[b].pc = "idle" <=> ingest'[b].s = NoSession
    <3>1. ASSUME NEW b \in Ingesters PROVE ingest'[b].pc = "idle" <=> ingest'[b].s = NoSession
      <4>1. CASE b = a
        BY <1>2, <4>1, KnowledgeAssumption
      <4>2. CASE b # a
        BY <1>2, <4>2 DEF KnCounts
      <4> QED
        BY <4>1, <4>2
    <3> QED
      BY <3>1
  <2>2. \A s \in Closed, b \in Ingesters : ingest'[b].s = s => ingest'[b].v <= text[s]
    <3>1. ASSUME NEW s \in Closed, NEW b \in Ingesters, ingest'[b].s = s PROVE ingest'[b].v <= text[s]
      <4>1. CASE b = a
        BY <1>0, <1>2, <4>1
      <4>2. CASE b # a
        <5>1. ingest[b].s = s /\ ingest'[b].v = ingest[b].v
          BY <1>2, <3>1, <4>2
        <5>2. QED
          BY <5>1 DEF KnCounts
      <4>3. QED
        BY <4>1, <4>2
    <3>2. QED
      BY <3>1
  <2>3. ASSUME NEW s \in Closed PROVE closings'[s] + failed'[s] + (IF ingest'["dispatcher"].s = s THEN 1 ELSE 0) <= text[s]
    <3>1. closings[s] + failed[s] + (IF ingest["dispatcher"].s = s THEN 1 ELSE 0) <= text[s]
      BY DEF KnCounts
    <3>2. CASE a = "dispatcher"
      <4>1. ingest'["dispatcher"].s # s
        BY <1>2, <3>2, KnowledgeAssumption
      <4>2. QED
        BY <1>0, <3>1, <3>2, <4>1
    <3>3. CASE a # "dispatcher"
      <4>1. ingest'["dispatcher"].s = ingest["dispatcher"].s /\ failed'[s] <= failed[s]
        BY <1>0, <1>2, <3>3 DEF Ingesters
      <4>2. QED
        BY <1>0, <3>1, <4>1
    <3>4. QED
      BY <3>2, <3>3
  <2>4. ingest'["dispatcher"].todo = {}
    BY <1>2 DEF KnCounts, Ingesters
  <2>5. QED
    BY <2>1, <2>2, <2>3, <2>4 DEF KnCounts
<1>6. KnowledgeTypeOK' /\ KnShape'
  BY <1>3, <1>5, KnPartsNext
<1>7. ChunksOfDocument'
  BY DEF KnInv, ChunksOfDocument
<1>8. KnAlone'
  <2>1. \A b \in Ingesters, s \in Closed : Past(b, s)' => b # a /\ Past(b, s) /\ ingest'[b] = ingest[b]
    BY <1>2, KnowledgeAssumption DEF Past
  <2>2. ASSUME NEW s \in Closed \ raced
        PROVE  /\ \A b, c \in Ingesters : Past(b, s)' /\ Past(c, s)' => b = c
               /\ \A b \in Ingesters : Past(b, s)' =>
                    /\ ingest'[b].v >= doc[s]
                    /\ ingest'[b].pc \in {"doc", "record", "commit"} => ingest'[b].old = doc[s]
                    /\ ingest'[b].pc = "vectors" => ingest'[b].v = doc[s]
               /\ record'[s] = doc[s]
    <3>1. /\ \A b, c \in Ingesters : Past(b, s) /\ Past(c, s) => b = c
          /\ \A b \in Ingesters : Past(b, s) =>
               /\ ingest[b].v >= doc[s]
               /\ ingest[b].pc \in {"doc", "record", "commit"} => ingest[b].old = doc[s]
               /\ ingest[b].pc = "vectors" => ingest[b].v = doc[s]
          /\ record[s] = doc[s]
      BY DEF KnInv, KnAlone
    <3>2. record'[s] = doc[s]
      BY <3>1
    <3>3. \A b, c \in Ingesters : Past(b, s)' /\ Past(c, s)' => b = c
      BY <2>1, <3>1
    <3>4. QED
      BY <2>1, <3>1, <3>2, <3>3
  <2>3. QED
    BY <2>2 DEF KnAlone
<1>9. KnLatest'
  <2>1. ASSUME NEW s \in Closed \ raced
        PROVE  \/ closings'[s] > 0 \/ failed'[s] > 0 \/ doc[s] >= closedAt[s]
               \/ ingest'["dispatcher"].s = s /\ (ingest'["dispatcher"].pc = "read" \/ ingest'["dispatcher"].v >= closedAt[s])
    <3>1. \/ closings[s] > 0 \/ failed[s] > 0 \/ doc[s] >= closedAt[s]
          \/ ingest["dispatcher"].s = s /\ (ingest["dispatcher"].pc = "read" \/ ingest["dispatcher"].v >= closedAt[s])
      BY DEF KnInv, KnLatest
    <3>2. (closings[s] > 0 => closings'[s] > 0) /\ (failed[s] > 0 => failed'[s] > 0)
      BY <1>0
    <3>3. CASE a = "dispatcher"
      BY <3>1, <3>2, <3>3
    <3>4. CASE a # "dispatcher"
      <4>1. ingest'["dispatcher"] = ingest["dispatcher"]
        BY <1>2, <3>4 DEF Ingesters
      <4>2. QED
        BY <3>1, <3>2, <4>1
    <3>5. QED
      BY <3>3, <3>4
  <2>2. QED
    BY <2>1 DEF KnLatest
<1>10. KnVectors'
  <2>1. \A b \in Ingesters \ {a} : ingest'[b] = ingest[b]
    BY <1>2
  <2>2. ASSUME NEW s \in Closed \ (raced' \cup missed')
        PROVE  vectors'[s] = chunks'[s] \/ \E b \in Ingesters : ingest'[b].s = s /\ ingest'[b].pc = "vectors"
    <3>1. s \in Closed \ (raced \cup missed') /\ chunks' = chunks
      OBVIOUS
    <3>2. vectors'[s] = chunks[s] \/ \E b \in Ingesters \ {a} : ingest[b].s = s /\ ingest[b].pc = "vectors"
      BY <3>1
    <3>3. CASE \E b \in Ingesters \ {a} : ingest[b].s = s /\ ingest[b].pc = "vectors"
      <4>1. PICK b \in Ingesters \ {a} : ingest[b].s = s /\ ingest[b].pc = "vectors"
        BY <3>3
      <4>2. ingest'[b].s = s /\ ingest'[b].pc = "vectors"
        BY <2>1, <4>1
      <4>3. QED
        BY <4>2
    <3>4. QED
      BY <3>1, <3>2, <3>3
  <2>3. QED
    BY <2>2 DEF KnVectors
<1>11. QED
  BY <1>6, <1>7, <1>8, <1>9, <1>10 DEF KnInv

(* A session that changes or closes.                                       *)
LEMMA KnChanges ==
    ASSUME KnInv, KnTyped, KnCounts, NEW s \in Closed, CloseSession(s) \/ ChangeSession(s)
    PROVE  KnInv'
<1>1. /\ UNCHANGED <<failed, doc, chunks, record, vectors, ingest, docLock, recLock, reindexes, ingestFaults, raced, missed>>
      /\ text' = [text EXCEPT ![s] = @ + 1] /\ text[s] < MaxVersion
      /\ \/ UNCHANGED <<closings, closedAt>>
         \/ closings' = [closings EXCEPT ![s] = @ + 1] /\ closedAt' = [closedAt EXCEPT ![s] = text[s] + 1]
  BY DEF CloseSession, ChangeSession, MayChange, stored, knHistory
<1>0. \A q \in Closed : text[q] \in Nat /\ closings[q] \in Nat /\ failed[q] \in Nat /\ doc[q] \in Nat /\ closedAt[q] \in Nat
  BY DEF KnTyped
<1>2. text' \in [Closed -> 0 .. MaxVersion] /\ text'[s] = text[s] + 1 /\ \A q \in Closed : q # s => text'[q] = text[q]
  BY <1>1, KnowledgeAssumption DEF KnTyped
<1>3. \A q \in Closed : /\ closings[q] <= closings'[q] /\ closings'[q] - closings[q] <= text'[q] - text[q]
                        /\ closedAt'[q] # closedAt[q] => closings'[q] > 0 /\ closedAt'[q] <= text'[q]
                        /\ text[q] <= text'[q]
  <2>1. CASE UNCHANGED <<closings, closedAt>>
    BY <1>0, <1>2, <2>1
  <2>2. CASE closings' = [closings EXCEPT ![s] = @ + 1] /\ closedAt' = [closedAt EXCEPT ![s] = text[s] + 1]
    <3>1. /\ closings'[s] = closings[s] + 1 /\ \A q \in Closed : q # s => closings'[q] = closings[q]
          /\ closedAt'[s] = text[s] + 1 /\ \A q \in Closed : q # s => closedAt'[q] = closedAt[q]
      BY <2>2 DEF KnTyped
    <3>2. QED
      BY <1>0, <1>2, <3>1
  <2>3. QED
    BY <1>1, <2>1, <2>2
<1>4. closings' \in [Closed -> 0 .. MaxVersion] /\ closedAt' \in [Closed -> 0 .. MaxVersion]
  <2>1. CASE UNCHANGED <<closings, closedAt>>
    BY <2>1 DEF KnTyped
  <2>2. CASE closings' = [closings EXCEPT ![s] = @ + 1] /\ closedAt' = [closedAt EXCEPT ![s] = text[s] + 1]
    <3>1. closings[s] <= text[s]
      BY <1>0 DEF KnCounts
    <3>2. closings[s] + 1 \in 0 .. MaxVersion /\ text[s] + 1 \in 0 .. MaxVersion
      BY <1>0, <1>1, <3>1, KnowledgeAssumption
    <3>3. QED
      BY <2>2, <3>2 DEF KnTyped
  <2>3. QED
    BY <1>1, <2>1, <2>2
<1>5. KnTyped'
  BY <1>1, <1>2, <1>4 DEF KnTyped
<1>6. KnCounts'
  <2>0. \A q \in Closed : text'[q] \in Nat /\ closings'[q] \in Nat /\ closedAt'[q] \in Nat
    BY <1>5 DEF KnTyped
  <2>1. ASSUME NEW q \in Closed PROVE
          /\ closings'[q] + failed'[q] + (IF ingest'["dispatcher"].s = q THEN 1 ELSE 0) <= text'[q]
          /\ doc'[q] <= text'[q] /\ closedAt'[q] <= text'[q]
    <3>1. /\ closings[q] + failed[q] + (IF ingest["dispatcher"].s = q THEN 1 ELSE 0) <= text[q]
          /\ doc[q] <= text[q] /\ closedAt[q] <= text[q]
      BY DEF KnCounts
    <3>2. QED
      BY <1>0, <1>1, <1>3, <2>0, <3>1
  <2>2. ASSUME NEW q \in Closed, NEW a \in Ingesters, ingest'[a].s = q PROVE ingest'[a].v <= text'[q]
    <3>1. ingest[a].v <= text[q] /\ ingest[a].v \in 0 .. MaxVersion
      BY <1>1, <2>2, IngestFields DEF KnCounts
    <3>2. QED
      BY <1>0, <1>1, <1>3, <2>0, <3>1, KnowledgeAssumption
  <2>3. QED
    BY <1>1, <2>1, <2>2 DEF KnCounts
<1>7. KnowledgeTypeOK' /\ KnShape'
  BY <1>5, <1>6, KnPartsNext
<1>8. ChunksOfDocument' /\ KnAlone' /\ KnVectors'
  BY <1>1 DEF KnInv, ChunksOfDocument, KnAlone, KnVectors, Past
<1>9. KnLatest'
  <2>1. ASSUME NEW q \in Closed \ raced
        PROVE  \/ closings'[q] > 0 \/ failed'[q] > 0 \/ doc[q] >= closedAt'[q]
               \/ ingest["dispatcher"].s = q /\ (ingest["dispatcher"].pc = "read" \/ ingest["dispatcher"].v >= closedAt'[q])
    <3>1. \/ closings[q] > 0 \/ failed[q] > 0 \/ doc[q] >= closedAt[q]
          \/ ingest["dispatcher"].s = q /\ (ingest["dispatcher"].pc = "read" \/ ingest["dispatcher"].v >= closedAt[q])
      BY DEF KnInv, KnLatest
    <3>2. closings[q] > 0 => closings'[q] > 0
      <4>1. closings'[q] \in Nat
        BY <1>4, KnowledgeAssumption
      <4>2. QED
        BY <1>0, <1>3, <4>1
    <3>3. CASE closedAt'[q] = closedAt[q]
      BY <1>1, <3>1, <3>2, <3>3
    <3>4. CASE closedAt'[q] # closedAt[q]
      BY <1>3, <3>4
    <3>5. QED
      BY <3>3, <3>4
  <2>2. QED
    BY <1>1, <2>1 DEF KnLatest
<1>10. QED
  BY <1>7, <1>8, <1>9 DEF KnInv

(* A replayed event waits again.                                           *)
LEMMA KnReplays ==
    ASSUME KnInv, KnTyped, KnCounts, NEW s \in Closed, ReplayClosed(s)
    PROVE  KnInv'
<1>1. /\ UNCHANGED <<text, doc, chunks, record, vectors, ingest, docLock, recLock, reindexes, ingestFaults,
                     closedAt, raced, missed>>
      /\ failed[s] > 0 /\ failed' = [failed EXCEPT ![s] = @ - 1] /\ closings' = [closings EXCEPT ![s] = @ + 1]
  BY DEF ReplayClosed, stored, knHistory
<1>0. \A q \in Closed : text[q] \in Nat /\ closings[q] \in Nat /\ failed[q] \in Nat
  BY DEF KnTyped
<1>2. /\ failed'[s] = failed[s] - 1 /\ closings'[s] = closings[s] + 1
      /\ \A q \in Closed : q # s => failed'[q] = failed[q] /\ closings'[q] = closings[q]
  BY <1>1 DEF KnTyped
<1>3. failed[s] - 1 \in 0 .. MaxVersion /\ closings[s] + 1 \in 0 .. MaxVersion
  <2>1. closings[s] + failed[s] + (IF ingest["dispatcher"].s = s THEN 1 ELSE 0) <= text[s]
    BY DEF KnCounts
  <2>2. text[s] <= MaxVersion /\ failed[s] <= MaxVersion
    BY KnowledgeAssumption DEF KnTyped
  <2>3. QED
    BY <1>0, <1>1, <2>1, <2>2, KnowledgeAssumption
<1>4. KnTyped'
  BY <1>1, <1>3 DEF KnTyped
<1>5. \A q \in Closed : closings'[q] + failed'[q] = closings[q] + failed[q] /\ closings'[q] \in Nat /\ failed'[q] \in Nat
  BY <1>0, <1>1, <1>2
<1>6. KnCounts'
  <2>1. ASSUME NEW q \in Closed
        PROVE  closings'[q] + failed'[q] + (IF ingest["dispatcher"].s = q THEN 1 ELSE 0) <= text[q]
    <3>1. closings[q] + failed[q] + (IF ingest["dispatcher"].s = q THEN 1 ELSE 0) <= text[q]
      BY DEF KnCounts
    <3>2. QED
      BY <1>0, <1>5, <3>1
  <2>2. QED
    BY <1>1, <2>1 DEF KnCounts
<1>7. KnowledgeTypeOK' /\ KnShape'
  BY <1>4, <1>6, KnPartsNext
<1>8. ChunksOfDocument' /\ KnAlone' /\ KnVectors'
  BY <1>1 DEF KnInv, ChunksOfDocument, KnAlone, KnVectors, Past
<1>9. KnLatest'
  <2>1. \A q \in Closed : closings[q] > 0 \/ failed[q] > 0 => closings'[q] > 0 \/ failed'[q] > 0
    BY <1>0, <1>2
  <2>2. QED
    BY <1>1, <2>1 DEF KnInv, KnLatest
<1>10. QED
  BY <1>7, <1>8, <1>9 DEF KnInv

(* An idle ingester takes a session up.                                    *)
LEMMA KnStarts ==
    ASSUME KnInv, KnTyped, KnCounts, NEW a \in Ingesters, ~Busy(a),
           NEW rec \in IngestRecord, Step(a, rec), rec.pc = "read", rec.s \in Closed, rec.v = 0,
           a = "dispatcher" => rec.todo = {} /\ closings[rec.s] > 0,
           reindexes' \in 0 .. MaxReindexes,
           closings' = IF a = "dispatcher" THEN [closings EXCEPT ![rec.s] = @ - 1] ELSE closings,
           UNCHANGED <<text, failed, stored, docLock, recLock, ingestFaults, knHistory>>
    PROVE  KnInv'
<1>. DEFINE s == rec.s
<1>1. UNCHANGED <<text, failed, doc, chunks, record, vectors, ingestFaults, closedAt, raced, missed, docLock, recLock>>
  BY DEF stored, knHistory
<1>2. /\ ingest' \in [Ingesters -> IngestRecord] /\ ingest'[a] = rec
      /\ \A b \in Ingesters : b # a => ingest'[b] = ingest[b]
  BY IngestMoved
<1>0. \A q \in Closed : text[q] \in Nat /\ closings[q] \in Nat /\ failed[q] \in Nat /\ closings[q] \in 0 .. MaxVersion
  BY KnowledgeAssumption DEF KnTyped
<1>3. ingest[a].pc = "idle" /\ ingest[a].s = NoSession
  BY DEF Busy, KnCounts
<1>4. /\ \A q \in Closed : q # s \/ a # "dispatcher" => closings'[q] = closings[q]
      /\ a = "dispatcher" => closings'[s] = closings[s] - 1 /\ closings[s] > 0
  BY DEF KnTyped
<1>5. closings' \in [Closed -> 0 .. MaxVersion]
  <2>1. CASE a # "dispatcher"
    BY <2>1 DEF KnTyped
  <2>2. CASE a = "dispatcher"
    <3>1. closings[s] - 1 \in 0 .. MaxVersion
      BY <1>0, <1>4, <2>2, KnowledgeAssumption
    <3>2. QED
      BY <2>2, <3>1 DEF KnTyped
  <2>3. QED
    BY <2>1, <2>2
<1>6. KnTyped'
  BY <1>1, <1>2, <1>5 DEF KnTyped
<1>7. KnCounts'
  <2>1. \A b \in Ingesters : ingest'[b].pc = "idle" <=> ingest'[b].s = NoSession
    BY <1>2, KnowledgeAssumption DEF KnCounts
  <2>2. \A q \in Closed, b \in Ingesters : ingest'[b].s = q => ingest'[b].v <= text[q]
    BY <1>0, <1>2 DEF KnCounts
  <2>3. ASSUME NEW q \in Closed PROVE closings'[q] + failed'[q] + (IF ingest'["dispatcher"].s = q THEN 1 ELSE 0) <= text[q]
    <3>1. closings[q] + failed[q] + (IF ingest["dispatcher"].s = q THEN 1 ELSE 0) <= text[q]
      BY DEF KnCounts
    <3>2. CASE a = "dispatcher"
      <4>1. ingest'["dispatcher"].s = s /\ ingest["dispatcher"].s # q
        BY <1>2, <1>3, <3>2, KnowledgeAssumption
      <4>2. CASE q = s
        BY <1>0, <1>4, <3>1, <3>2, <4>1, <4>2
      <4>3. CASE q # s
        BY <1>0, <1>4, <3>1, <4>1, <4>3
      <4>4. QED
        BY <4>2, <4>3
    <3>3. CASE a # "dispatcher"
      <4>1. ingest'["dispatcher"].s = ingest["dispatcher"].s /\ closings'[q] = closings[q]
        BY <1>2, <1>4, <3>3 DEF Ingesters
      <4>2. QED
        BY <3>1, <4>1
    <3>4. QED
      BY <3>2, <3>3
  <2>4. ingest'["dispatcher"].todo = {}
    BY <1>2 DEF KnCounts, Ingesters
  <2>5. QED
    BY <1>1, <2>1, <2>2, <2>3, <2>4 DEF KnCounts
<1>8. KnowledgeTypeOK' /\ KnShape'
  BY <1>6, <1>7, KnPartsNext
<1>9. ChunksOfDocument'
  BY <1>1 DEF KnInv, ChunksOfDocument
<1>10. KnAlone'
  <2>1. \A b \in Ingesters, q \in Closed : Past(b, q)' => b # a /\ Past(b, q) /\ ingest'[b] = ingest[b]
    BY <1>2, KnowledgeAssumption DEF Past
  <2>2. ASSUME NEW q \in Closed \ raced
        PROVE  /\ \A b, c \in Ingesters : Past(b, q)' /\ Past(c, q)' => b = c
               /\ \A b \in Ingesters : Past(b, q)' =>
                    /\ ingest'[b].v >= doc[q]
                    /\ ingest'[b].pc \in {"doc", "record", "commit"} => ingest'[b].old = doc[q]
                    /\ ingest'[b].pc = "vectors" => ingest'[b].v = doc[q]
               /\ record[q] = doc[q]
    BY <2>1 DEF KnInv, KnAlone
  <2>3. QED
    BY <1>1, <2>2 DEF KnAlone
<1>11. KnLatest'
  <2>1. ASSUME NEW q \in Closed \ raced
        PROVE  \/ closings'[q] > 0 \/ failed'[q] > 0 \/ doc[q] >= closedAt[q]
               \/ ingest'["dispatcher"].s = q /\ (ingest'["dispatcher"].pc = "read" \/ ingest'["dispatcher"].v >= closedAt[q])
    <3>1. \/ closings[q] > 0 \/ failed[q] > 0 \/ doc[q] >= closedAt[q]
          \/ ingest["dispatcher"].s = q /\ (ingest["dispatcher"].pc = "read" \/ ingest["dispatcher"].v >= closedAt[q])
      BY DEF KnInv, KnLatest
    <3>2. CASE a = "dispatcher"
      <4>1. ingest["dispatcher"].s # q
        BY <1>3, <3>2, KnowledgeAssumption
      <4>2. CASE q = s
        BY <1>2, <3>2, <4>2
      <4>3. CASE q # s
        BY <1>4, <3>1, <4>1, <4>3
      <4>4. QED
        BY <4>2, <4>3
    <3>3. CASE a # "dispatcher"
      <4>1. ingest'["dispatcher"] = ingest["dispatcher"] /\ closings'[q] = closings[q]
        BY <1>2, <1>4, <3>3 DEF Ingesters
      <4>2. QED
        BY <3>1, <4>1
    <3>4. QED
      BY <3>2, <3>3
  <2>2. QED
    BY <1>1, <2>1 DEF KnLatest
<1>12. KnVectors'
  <2>1. \A b \in Ingesters : ingest[b].pc = "vectors" => ingest'[b] = ingest[b]
    BY <1>2, <1>3
  <2>2. QED
    BY <1>1, <2>1 DEF KnInv, KnVectors
<1>13. QED
  BY <1>8, <1>9, <1>10, <1>11, <1>12 DEF KnInv

LEMMA KnReads ==
    ASSUME KnInv, KnTyped, KnCounts, NEW a \in Ingesters, ReadSession(a)
    PROVE  KnInv'
<1>. DEFINE s == ingest[a].s
            rec == [ingest[a] EXCEPT !.pc = "find", !.v = text[s]]
<1>1. /\ UNCHANGED <<text, closings, failed, doc, chunks, record, vectors, docLock, recLock, reindexes, ingestFaults, closedAt, missed>>
      /\ ingest[a].pc = "read" /\ Step(a, rec)
      /\ raced' = IF \E b \in Ingesters \ {a} : Busy(b) /\ ingest[b].s = s THEN raced \cup {s} ELSE raced
  BY DEF ReadSession, At, stored
<1>2. s \in Closed
  BY <1>1, IngestFields DEF KnCounts
<1>0. \A q \in Closed : text[q] \in Nat /\ text[q] \in 0 .. MaxVersion /\ doc[q] \in Nat /\ closedAt[q] \in Nat
  BY KnowledgeAssumption DEF KnTyped
<1>3. rec \in IngestRecord /\ rec.pc = "find" /\ rec.s = s /\ rec.v = text[s] /\ rec.todo = ingest[a].todo
  <2>1. ingest[a] \in IngestRecord /\ text[s] \in 0 .. MaxVersion /\ "find" \in IngestPcs
    BY <1>0, <1>2, IngestFields DEF IngestPcs
  <2>2. QED
    BY <2>1 DEF IngestRecord
<1>. HIDE DEF rec
<1>4. /\ ingest' \in [Ingesters -> IngestRecord] /\ ingest'[a] = rec
      /\ \A b \in Ingesters : b # a => ingest'[b] = ingest[b]
  BY <1>1, <1>3, IngestMoved
<1>5. \A b \in Ingesters : ingest'[b].s = ingest[b].s /\ ingest'[b].todo = ingest[b].todo
  BY <1>3, <1>4
<1>6. KnTyped'
  BY <1>1, <1>2, <1>4 DEF KnTyped
<1>7. KnCounts'
  <2>1. \A b \in Ingesters : ingest'[b].pc = "idle" <=> ingest'[b].s = NoSession
    BY <1>1, <1>3, <1>4 DEF KnCounts
  <2>2. \A q \in Closed, b \in Ingesters : ingest'[b].s = q => ingest'[b].v <= text[q]
    BY <1>0, <1>3, <1>4 DEF KnCounts
  <2>3. ingest'["dispatcher"].s = ingest["dispatcher"].s /\ ingest'["dispatcher"].todo = ingest["dispatcher"].todo
    BY <1>5 DEF Ingesters
  <2>4. QED
    BY <1>1, <2>1, <2>2, <2>3 DEF KnCounts
<1>8. KnowledgeTypeOK' /\ KnShape'
  BY <1>6, <1>7, KnPartsNext
<1>9. ChunksOfDocument'
  BY <1>1 DEF KnInv, ChunksOfDocument
<1>10. KnAlone'
  <2>1. ASSUME NEW q \in Closed \ raced'
        PROVE  /\ \A b, c \in Ingesters : Past(b, q)' /\ Past(c, q)' => b = c
               /\ \A b \in Ingesters : Past(b, q)' =>
                    /\ ingest'[b].v >= doc[q]
                    /\ ingest'[b].pc \in {"doc", "record", "commit"} => ingest'[b].old = doc[q]
                    /\ ingest'[b].pc = "vectors" => ingest'[b].v = doc[q]
               /\ record[q] = doc[q]
    <3>1. q \in Closed \ raced
      BY <1>1
    <3>2. /\ \A b, c \in Ingesters : Past(b, q) /\ Past(c, q) => b = c
          /\ \A b \in Ingesters : Past(b, q) =>
               /\ ingest[b].v >= doc[q]
               /\ ingest[b].pc \in {"doc", "record", "commit"} => ingest[b].old = doc[q]
               /\ ingest[b].pc = "vectors" => ingest[b].v = doc[q]
          /\ record[q] = doc[q]
      BY <3>1 DEF KnInv, KnAlone
    <3>3. \A b \in Ingesters : b # a => (Past(b, q)' <=> Past(b, q)) /\ ingest'[b] = ingest[b]
      BY <1>4 DEF Past
    <3>4. Past(a, q)' => q = s
      BY <1>3, <1>4 DEF Past
    <3>5. q = s => \A b \in Ingesters : b # a => ~Past(b, q)
      <4>1. ASSUME q = s, NEW b \in Ingesters, b # a, Past(b, q) PROVE FALSE
        <5>1. Busy(b) /\ ingest[b].s = s
          BY <1>2, <4>1, KnowledgeAssumption DEF Past, Busy, KnCounts
        <5>2. s \in raced'
          BY <1>1, <4>1, <5>1
        <5>3. QED
          BY <4>1, <5>2
      <4>2. QED
        BY <4>1
    <3>6. q = s => ingest'[a].v >= doc[q] /\ ingest'[a].pc = "find"
      BY <1>0, <1>2, <1>3, <1>4 DEF KnCounts
    <3>7. \A b, c \in Ingesters : Past(b, q)' /\ Past(c, q)' => b = c
      BY <3>2, <3>3, <3>4, <3>5
    <3>8. ASSUME NEW b \in Ingesters, Past(b, q)'
          PROVE  /\ ingest'[b].v >= doc[q]
                 /\ ingest'[b].pc \in {"doc", "record", "commit"} => ingest'[b].old = doc[q]
                 /\ ingest'[b].pc = "vectors" => ingest'[b].v = doc[q]
      <4>1. CASE b = a
        BY <3>4, <3>6, <3>8, <4>1
      <4>2. CASE b # a
        BY <3>2, <3>3, <3>8, <4>2
      <4>3. QED
        BY <4>1, <4>2
    <3>9. QED
      BY <3>2, <3>7, <3>8
  <2>2. QED
    BY <1>1, <2>1 DEF KnAlone
<1>11. KnLatest'
  <2>1. ASSUME NEW q \in Closed \ raced
        PROVE  \/ closings[q] > 0 \/ failed[q] > 0 \/ doc[q] >= closedAt[q]
               \/ ingest'["dispatcher"].s = q /\ (ingest'["dispatcher"].pc = "read" \/ ingest'["dispatcher"].v >= closedAt[q])
    <3>1. \/ closings[q] > 0 \/ failed[q] > 0 \/ doc[q] >= closedAt[q]
          \/ ingest["dispatcher"].s = q /\ (ingest["dispatcher"].pc = "read" \/ ingest["dispatcher"].v >= closedAt[q])
      BY DEF KnInv, KnLatest
    <3>2. CASE a = "dispatcher"
      <4>1. ingest["dispatcher"].s = q => ingest'["dispatcher"].s = q /\ ingest'["dispatcher"].v >= closedAt[q]
        BY <1>0, <1>2, <1>3, <1>4, <3>2 DEF KnCounts
      <4>2. QED
        BY <3>1, <4>1
    <3>3. CASE a # "dispatcher"
      <4>1. ingest'["dispatcher"] = ingest["dispatcher"]
        BY <1>4, <3>3 DEF Ingesters
      <4>2. QED
        BY <3>1, <4>1
    <3>4. QED
      BY <3>2, <3>3
  <2>2. raced \subseteq raced'
    BY <1>1
  <2>3. QED
    BY <1>1, <2>1, <2>2 DEF KnLatest
<1>12. KnVectors'
  <2>1. \A b \in Ingesters : ingest[b].pc = "vectors" => ingest'[b] = ingest[b]
    BY <1>1, <1>4
  <2>2. raced \subseteq raced'
    BY <1>1
  <2>3. QED
    BY <1>1, <2>1, <2>2 DEF KnInv, KnVectors
<1>13. QED
  BY <1>8, <1>9, <1>10, <1>11, <1>12 DEF KnInv

(* A commit that changes the document.  Without a race the ingester is the *)
(* only one past its reading, so it replaces the version it compared with. *)
LEMMA KnCommits ==
    ASSUME KnInv, KnTyped, KnCounts, NEW a \in Ingesters, Commit(a), ContentChanged(a)
    PROVE  KnInv'
<1>. DEFINE s == ingest[a].s
            v == ingest[a].v
            rec == [ingest[a] EXCEPT !.pc = "vectors"]
<1>1. /\ UNCHANGED <<text, closings, failed, vectors, reindexes, ingestFaults, closedAt, raced, missed>>
      /\ ingest[a].pc = "commit" /\ Step(a, rec)
      /\ doc' = [doc EXCEPT ![s] = v] /\ record' = [record EXCEPT ![s] = v]
      /\ chunks' = [chunks EXCEPT ![s] = ChunksOf(v)]
      /\ docLock' = [docLock EXCEPT ![s] = IF @ = a THEN Nobody ELSE @]
      /\ recLock' = [recLock EXCEPT ![s] = Nobody]
  BY DEF Commit, At, knHistory
<1>2. s \in Closed /\ v \in 0 .. MaxVersion
  BY <1>1, IngestFields DEF KnCounts
<1>3. rec \in IngestRecord /\ rec.pc = "vectors" /\ rec.s = s /\ rec.v = v /\ rec.todo = ingest[a].todo
  <2>1. ingest[a] \in IngestRecord /\ "vectors" \in IngestPcs
    BY IngestFields DEF IngestPcs
  <2>2. QED
    BY <2>1 DEF IngestRecord
<1>. HIDE DEF rec, s, v
<1>4. /\ ingest' \in [Ingesters -> IngestRecord] /\ ingest'[a] = rec
      /\ \A b \in Ingesters : b # a => ingest'[b] = ingest[b]
  BY <1>1, <1>3, IngestMoved
<1>5. \A b \in Ingesters : ingest'[b].s = ingest[b].s /\ ingest'[b].v = ingest[b].v /\ ingest'[b].todo = ingest[b].todo
  BY <1>3, <1>4 DEF s, v
<1>6. /\ doc'[s] = v /\ record'[s] = v /\ chunks'[s] = ChunksOf(v)
      /\ \A q \in Closed : q # s => doc'[q] = doc[q] /\ record'[q] = record[q] /\ chunks'[q] = chunks[q]
  BY <1>1, <1>2 DEF KnTyped
<1>7. KnTyped'
  <2>1. doc' \in [Closed -> 0 .. MaxVersion] /\ record' \in [Closed -> 0 .. MaxVersion]
    BY <1>1, <1>2 DEF KnTyped
  <2>2. chunks' \in [Closed -> Seq(1 .. MaxVersion)]
    BY <1>1, <1>2, ChunksTyped DEF KnTyped
  <2>3. docLock' \in [Closed -> Ingesters \cup {Nobody}] /\ recLock' \in [Closed -> Ingesters \cup {Nobody}]
    BY <1>1 DEF KnTyped
  <2>4. QED
    BY <1>1, <1>4, <2>1, <2>2, <2>3 DEF KnTyped
<1>8. KnCounts'
  <2>1. \A b \in Ingesters : ingest'[b].pc = "idle" <=> ingest'[b].s = NoSession
    BY <1>1, <1>3, <1>4, <1>5 DEF KnCounts
  <2>2. ingest'["dispatcher"].s = ingest["dispatcher"].s /\ ingest'["dispatcher"].todo = ingest["dispatcher"].todo
    BY <1>5 DEF Ingesters
  <2>3. \A q \in Closed : doc'[q] <= text[q]
    BY <1>2, <1>6 DEF KnCounts, s, v
  <2>4. QED
    BY <1>1, <1>5, <2>1, <2>2, <2>3 DEF KnCounts
<1>9. KnowledgeTypeOK' /\ KnShape'
  BY <1>7, <1>8, KnPartsNext
<1>10. ChunksOfDocument'
  BY <1>6 DEF KnInv, ChunksOfDocument
<1>11. \A b \in Ingesters, q \in Closed : Past(b, q)' <=> Past(b, q)
  BY <1>1, <1>3, <1>4 DEF Past, s
<1>12. Past(a, s)
  BY <1>1 DEF Past, s
<1>13. KnAlone'
  <2>1. ASSUME NEW q \in Closed \ raced
        PROVE  /\ \A b, c \in Ingesters : Past(b, q)' /\ Past(c, q)' => b = c
               /\ \A b \in Ingesters : Past(b, q)' =>
                    /\ ingest'[b].v >= doc'[q]
                    /\ ingest'[b].pc \in {"doc", "record", "commit"} => ingest'[b].old = doc'[q]
                    /\ ingest'[b].pc = "vectors" => ingest'[b].v = doc'[q]
               /\ record'[q] = doc'[q]
    <3>2. /\ \A b, c \in Ingesters : Past(b, q) /\ Past(c, q) => b = c
          /\ \A b \in Ingesters : Past(b, q) =>
               /\ ingest[b].v >= doc[q]
               /\ ingest[b].pc \in {"doc", "record", "commit"} => ingest[b].old = doc[q]
               /\ ingest[b].pc = "vectors" => ingest[b].v = doc[q]
          /\ record[q] = doc[q]
      BY DEF KnInv, KnAlone
    <3>3. \A b, c \in Ingesters : Past(b, q)' /\ Past(c, q)' => b = c
      BY <1>11, <3>2
    <3>4. record'[q] = doc'[q]
      BY <1>6, <3>2
    <3>5. ASSUME NEW b \in Ingesters, Past(b, q)'
          PROVE  /\ ingest'[b].v >= doc'[q]
                 /\ ingest'[b].pc \in {"doc", "record", "commit"} => ingest'[b].old = doc'[q]
                 /\ ingest'[b].pc = "vectors" => ingest'[b].v = doc'[q]
      <4>1. Past(b, q)
        BY <1>11, <3>5
      <4>2. CASE b = a
        <5>1. q = s /\ ingest'[b].v = v /\ ingest'[b].pc = "vectors" /\ doc'[q] = v
          BY <1>3, <1>4, <1>6, <4>1, <4>2 DEF Past, s
        <5>2. QED
          BY <1>2, <5>1, KnowledgeAssumption
      <4>3. CASE b # a
        <5>1. q # s
          BY <1>12, <3>2, <4>1, <4>3
        <5>2. QED
          BY <1>4, <1>6, <3>2, <4>1, <4>3, <5>1
      <4>4. QED
        BY <4>2, <4>3
    <3>6. QED
      BY <3>3, <3>4, <3>5
  <2>2. QED
    BY <1>1, <2>1 DEF KnAlone
<1>14. KnLatest'
  <2>1. ASSUME NEW q \in Closed \ raced
        PROVE  \/ closings[q] > 0 \/ failed[q] > 0 \/ doc'[q] >= closedAt[q]
               \/ ingest'["dispatcher"].s = q /\ (ingest'["dispatcher"].pc = "read" \/ ingest'["dispatcher"].v >= closedAt[q])
    <3>1. \/ closings[q] > 0 \/ failed[q] > 0 \/ doc[q] >= closedAt[q]
          \/ ingest["dispatcher"].s = q /\ (ingest["dispatcher"].pc = "read" \/ ingest["dispatcher"].v >= closedAt[q])
      BY DEF KnInv, KnLatest
    <3>2. doc'[q] >= doc[q] /\ doc'[q] \in Int /\ doc[q] \in Int /\ closedAt[q] \in Int
      <4>1. doc'[q] \in Int /\ doc[q] \in Int /\ closedAt[q] \in Int
        BY <1>7, KnowledgeAssumption DEF KnTyped
      <4>2. CASE q = s
        <5>1. v >= doc[q]
          BY <1>12, <4>2 DEF KnInv, KnAlone, v
        <5>2. QED
          BY <1>6, <4>1, <4>2, <5>1
      <4>3. CASE q # s
        BY <1>6, <4>1, <4>3
      <4>4. QED
        BY <4>2, <4>3, <4>1
    <3>3. ingest["dispatcher"].pc = "read" => ingest'["dispatcher"] = ingest["dispatcher"]
      BY <1>1, <1>4 DEF Ingesters
    <3>4. ingest'["dispatcher"].s = ingest["dispatcher"].s /\ ingest'["dispatcher"].v = ingest["dispatcher"].v
      BY <1>5 DEF Ingesters
    <3>5. doc[q] >= closedAt[q] => doc'[q] >= closedAt[q]
      BY <3>2
    <3>6. QED
      BY <3>1, <3>3, <3>4, <3>5
  <2>2. QED
    BY <1>1, <2>1 DEF KnLatest
<1>15. KnVectors'
  <2>1. ASSUME NEW q \in Closed \ (raced \cup missed)
        PROVE  vectors[q] = chunks'[q] \/ \E b \in Ingesters : ingest'[b].s = q /\ ingest'[b].pc = "vectors"
    <3>1. CASE q = s
      BY <1>3, <1>4, <3>1
    <3>2. CASE q # s
      <4>1. vectors[q] = chunks[q] \/ \E b \in Ingesters : ingest[b].s = q /\ ingest[b].pc = "vectors"
        BY DEF KnInv, KnVectors
      <4>2. \A b \in Ingesters : ingest[b].pc = "vectors" => ingest'[b] = ingest[b]
        BY <1>1, <1>4
      <4>3. QED
        BY <1>6, <3>2, <4>1, <4>2
    <3>3. QED
      BY <3>1, <3>2
  <2>2. QED
    BY <1>1, <2>1 DEF KnVectors
<1>16. QED
  BY <1>9, <1>10, <1>13, <1>14, <1>15 DEF KnInv

LEMMA KnCrashes ==
    ASSUME KnInv, KnTyped, KnCounts, IngestCrash
    PROVE  KnInv'
<1>1. /\ UNCHANGED <<text, failed, doc, chunks, record, vectors, reindexes, closedAt, raced>>
      /\ ingestFaults' = ingestFaults + 1 /\ ingestFaults < MaxIngestFaults
      /\ ingest' = [a \in Ingesters |-> NoIngest]
      /\ closings' = [s \in Closed |-> IF ingest["dispatcher"].s = s THEN closings[s] + 1 ELSE closings[s]]
      /\ docLock' = [s \in Closed |-> Nobody] /\ recLock' = [s \in Closed |-> Nobody]
      /\ missed' = missed \cup {ingest[a].s : a \in {b \in Ingesters : At(b, "vectors")}}
  BY DEF IngestCrash, stored
<1>0. \A s \in Closed : text[s] \in 0 .. MaxVersion /\ closings[s] \in Nat /\ failed[s] \in Nat
  BY KnowledgeAssumption DEF KnTyped
<1>2. /\ ingest' \in [Ingesters -> IngestRecord]
      /\ \A a \in Ingesters : ingest'[a].pc = "idle" /\ ingest'[a].s = NoSession /\ ingest'[a].todo = {}
  BY <1>1, IngestNone
<1>3. \A s \in Closed : /\ closings'[s] = closings[s] + (IF ingest["dispatcher"].s = s THEN 1 ELSE 0)
                        /\ closings'[s] + failed[s] <= text[s]
  <2>1. ASSUME NEW s \in Closed PROVE closings'[s] = closings[s] + (IF ingest["dispatcher"].s = s THEN 1 ELSE 0)
    BY <1>0, <1>1
  <2>2. QED
    BY <1>0, <2>1 DEF KnCounts
<1>4. closings' \in [Closed -> 0 .. MaxVersion]
  <2>1. \A s \in Closed : closings'[s] \in 0 .. MaxVersion
    BY <1>0, <1>3, KnowledgeAssumption
  <2>2. closings' = [s \in Closed |-> closings'[s]]
    BY <1>1
  <2>3. QED
    BY <2>1, <2>2
<1>5. missed' \subseteq Closed /\ \A a \in Ingesters : ingest[a].pc = "vectors" => ingest[a].s \in missed'
  <2>1. \A a \in Ingesters : ingest[a].pc = "vectors" => ingest[a].s \in Closed
    BY IngestFields DEF KnCounts
  <2>2. QED
    BY <1>1, <2>1 DEF At, KnTyped
<1>6. KnTyped'
  BY <1>1, <1>2, <1>4, <1>5, KnowledgeAssumption DEF KnTyped
<1>7. KnCounts'
  <2>1. \A s \in Closed : closings'[s] + failed[s] + 0 <= text[s] /\ closings'[s] \in Nat
    BY <1>0, <1>3, <1>4, KnowledgeAssumption
  <2>2. \A a \in Ingesters, s \in Closed : ingest'[a].s # s
    BY <1>2, KnowledgeAssumption
  <2>3. "dispatcher" \in Ingesters
    BY DEF Ingesters
  <2>4. QED
    BY <1>1, <1>2, <2>1, <2>2, <2>3 DEF KnCounts
<1>8. KnowledgeTypeOK' /\ KnShape'
  BY <1>6, <1>7, KnPartsNext
<1>9. ChunksOfDocument'
  BY <1>1 DEF KnInv, ChunksOfDocument
<1>10. KnAlone'
  <2>1. \A a \in Ingesters, s \in Closed : ~Past(a, s)'
    BY <1>2, KnowledgeAssumption DEF Past
  <2>2. \A s \in Closed \ raced : record[s] = doc[s]
    BY DEF KnInv, KnAlone
  <2>3. QED
    BY <1>1, <2>1, <2>2 DEF KnAlone
<1>11. KnLatest'
  <2>1. \A s \in Closed \ raced : closings'[s] > 0 \/ failed[s] > 0 \/ doc[s] >= closedAt[s]
    <3>1. \A s \in Closed \ raced : closings[s] > 0 \/ failed[s] > 0 \/ doc[s] >= closedAt[s] \/ ingest["dispatcher"].s = s
      BY DEF KnInv, KnLatest
    <3>2. \A s \in Closed : closings[s] > 0 \/ ingest["dispatcher"].s = s => closings'[s] > 0
      BY <1>0, <1>3
    <3>3. QED
      BY <3>1, <3>2
  <2>2. QED
    BY <1>1, <2>1 DEF KnLatest
<1>12. KnVectors'
  <2>1. \A s \in Closed \ (raced \cup missed') : vectors[s] = chunks[s]
    <3>1. missed \subseteq missed'
      BY <1>1
    <3>2. QED
      BY <1>5, <3>1 DEF KnInv, KnVectors
  <2>2. QED
    BY <1>1, <2>1 DEF KnVectors
<1>13. QED
  BY <1>8, <1>9, <1>10, <1>11, <1>12 DEF KnInv

(* A failed call rolls the transaction back and makes the event a dead     *)
(* letter.                                                                 *)
LEMMA KnAborts ==
    ASSUME KnInv, KnTyped, KnCounts, NEW a \in Ingesters, Busy(a), Abort(a),
           UNCHANGED <<text, stored, reindexes, closedAt, raced>>, ingestFaults' \in 0 .. MaxIngestFaults,
           missed' = IF At(a, "vectors") THEN missed \cup {ingest[a].s} ELSE missed
    PROVE  KnInv'
<1>1. /\ Step(a, NoIngest) /\ UNCHANGED <<text, doc, chunks, record, vectors, reindexes, closedAt, raced>>
      /\ failed' = IF a = "dispatcher" THEN [failed EXCEPT ![ingest[a].s] = @ + 1] ELSE failed
      /\ closings' = closings
  BY DEF Abort, stored
<1>2. ingest[a].s \in Closed
  BY IngestFields DEF Busy, KnCounts
<1>0. \A s \in Closed : text[s] \in 0 .. MaxVersion /\ closings[s] \in Nat /\ failed[s] \in Nat
  BY KnowledgeAssumption DEF KnTyped
<1>3. docLock' \in [Closed -> Ingesters \cup {Nobody}] /\ recLock' \in [Closed -> Ingesters \cup {Nobody}]
  BY DEF Abort, KnTyped
<1>4. /\ a = "dispatcher" => failed'[ingest[a].s] = failed[ingest[a].s] + 1
      /\ \A s \in Closed : a # "dispatcher" \/ s # ingest[a].s => failed'[s] = failed[s]
  BY <1>1, <1>2 DEF KnTyped
<1>5. failed' \in [Closed -> 0 .. MaxVersion]
  <2>1. CASE a # "dispatcher"
    BY <1>1, <2>1 DEF KnTyped
  <2>2. CASE a = "dispatcher"
    <3>1. closings[ingest[a].s] + failed[ingest[a].s] + 1 <= text[ingest[a].s]
      BY <1>2, <2>2 DEF KnCounts
    <3>2. failed[ingest[a].s] + 1 \in 0 .. MaxVersion
      BY <1>0, <1>2, <3>1, KnowledgeAssumption
    <3>3. QED
      BY <1>1, <2>2, <3>2 DEF KnTyped
  <2>3. QED
    BY <2>1, <2>2
<1>6. \A s \in Closed : /\ failed'[s] <= failed[s] + IF a = "dispatcher" /\ ingest[a].s = s THEN 1 ELSE 0
                        /\ failed[s] <= failed'[s]
                        /\ a = "dispatcher" /\ ingest[a].s = s /\ s \notin raced => closings[s] > 0 \/ failed'[s] > 0 \/ doc[s] >= closedAt[s]
  BY <1>0, <1>2, <1>4
<1>7. missed' \subseteq Closed
  BY <1>2 DEF KnTyped
<1>8. \A s \in Closed \ (raced \cup missed') :
        vectors'[s] = chunks[s] \/ \E b \in Ingesters \ {a} : ingest[b].s = s /\ ingest[b].pc = "vectors"
  <2>1. ASSUME NEW s \in Closed \ (raced \cup missed')
        PROVE  vectors[s] = chunks[s] \/ \E b \in Ingesters \ {a} : ingest[b].s = s /\ ingest[b].pc = "vectors"
    <3>1. vectors[s] = chunks[s] \/ \E b \in Ingesters : ingest[b].s = s /\ ingest[b].pc = "vectors"
      BY DEF KnInv, KnVectors
    <3>2. ~(ingest[a].s = s /\ ingest[a].pc = "vectors")
      BY DEF At
    <3>3. QED
      BY <3>1, <3>2
  <2>2. QED
    BY <1>1, <2>1
<1>9. record' \in [Closed -> 0 .. MaxVersion] /\ \A s \in Closed \ raced : record'[s] = record[s]
  BY <1>1 DEF KnTyped
<1>10. vectors' \in [Closed -> Seq(1 .. MaxVersion)] /\ reindexes' \in 0 .. MaxReindexes
  BY <1>1 DEF KnTyped
<1>11. /\ NoIngest \in IngestRecord /\ NoIngest.v = 0
       /\ NoIngest.pc = "idle" /\ NoIngest.s = NoSession /\ NoIngest.todo = {}
  BY IngestNone
<1>12. QED
  BY <1>1, <1>3, <1>5, <1>6, <1>7, <1>8, <1>9, <1>10, <1>11, KnLeaves

(* An ingester that is done with a session: the hash had not changed, or   *)
(* the vectors are replaced.                                               *)
LEMMA KnFinishes ==
    ASSUME KnInv, KnTyped, KnCounts, NEW a \in Ingesters,
           (Commit(a) /\ ~ContentChanged(a)) \/ ReplaceChunkVectors(a)
    PROVE  KnInv'
<1>. DEFINE s == ingest[a].s
            v == ingest[a].v
<1>1. PICK rec \in NextIngest(a) : Step(a, rec)
  BY DEF Commit, ReplaceChunkVectors
<1>2. /\ UNCHANGED <<text, closings, failed, doc, chunks, reindexes, ingestFaults, closedAt, raced>>
      /\ ingest[a].pc \in {"commit", "vectors"}
  BY DEF Commit, ReplaceChunkVectors, At, knHistory
<1>3. s \in Closed /\ v \in 0 .. MaxVersion /\ Busy(a) /\ Past(a, s)
  BY <1>2, IngestFields DEF KnCounts, Busy, Past
<1>4. /\ rec \in IngestRecord /\ rec.v = 0
      /\ (rec.pc = "idle" /\ rec.s = NoSession) \/ (rec.pc = "read" /\ rec.s \in Closed)
  BY <1>1, IngestNext
<1>5. a = "dispatcher" => rec.pc = "idle" /\ rec.todo = {}
  <2>1. a = "dispatcher" => ingest[a].todo = {}
    BY DEF KnCounts
  <2>2. a = "dispatcher" => rec = NoIngest
    BY <1>1, <2>1 DEF NextIngest
  <2>3. QED
    BY <2>2, IngestNone
<1>6. docLock' \in [Closed -> Ingesters \cup {Nobody}] /\ recLock' \in [Closed -> Ingesters \cup {Nobody}]
  <2>1. \/ UNCHANGED <<docLock, recLock>>
        \/ /\ docLock' = [docLock EXCEPT ![s] = IF @ = a THEN Nobody ELSE @]
           /\ recLock' = [recLock EXCEPT ![s] = Nobody]
    BY DEF Commit, ReplaceChunkVectors
  <2>2. docLock \in [Closed -> Ingesters \cup {Nobody}] /\ recLock \in [Closed -> Ingesters \cup {Nobody}]
    BY DEF KnTyped
  <2>. HIDE DEF s
  <2>3. docLock' \in [Closed -> Ingesters \cup {Nobody}]
    BY <2>1, <2>2
  <2>4. recLock' \in [Closed -> Ingesters \cup {Nobody}]
    BY <2>1, <2>2
  <2>5. QED
    BY <2>3, <2>4
<1>7. s \notin raced => v = doc[s]
  <2>1. CASE Commit(a) /\ ~ContentChanged(a)
    BY <1>3, <2>1 DEF Commit, At, ContentChanged, KnInv, KnAlone
  <2>2. CASE ReplaceChunkVectors(a)
    BY <1>3, <2>2 DEF ReplaceChunkVectors, At, KnInv, KnAlone
  <2>3. QED
    BY <2>1, <2>2
<1>8. \A q \in Closed : text[q] \in Nat /\ failed[q] \in Nat
  BY KnowledgeAssumption DEF KnTyped
<1>9. \A q \in Closed : /\ failed'[q] <= failed[q] + IF a = "dispatcher" /\ ingest[a].s = q THEN 1 ELSE 0
                        /\ failed[q] <= failed'[q]
                        /\ a = "dispatcher" /\ ingest[a].s = q /\ q \notin raced => closings[q] > 0 \/ failed'[q] > 0 \/ doc[q] >= closedAt[q]
  <2>1. \A q \in Closed : /\ failed'[q] <= failed[q] + IF a = "dispatcher" /\ ingest[a].s = q THEN 1 ELSE 0
                          /\ failed[q] <= failed'[q]
    BY <1>2, <1>8
  <2>2. ASSUME a = "dispatcher", s \notin raced PROVE closings[s] > 0 \/ failed[s] > 0 \/ doc[s] >= closedAt[s]
    BY <1>2, <1>3, <1>7, <2>2 DEF KnInv, KnLatest
  <2>3. QED
    BY <1>2, <2>1, <2>2
<1>10. record' \in [Closed -> 0 .. MaxVersion] /\ \A q \in Closed \ raced : record'[q] = record[q]
  <2>1. CASE record' = record
    BY <2>1 DEF KnTyped
  <2>2. CASE record' = [record EXCEPT ![s] = v]
    <3>1. s \notin raced => record[s] = doc[s]
      BY <1>3 DEF KnInv, KnAlone
    <3>2. QED
      BY <1>3, <1>7, <2>2, <3>1 DEF KnTyped
  <2>3. QED
    BY <2>1, <2>2 DEF Commit, ReplaceChunkVectors
<1>11. /\ vectors' \in [Closed -> Seq(1 .. MaxVersion)] /\ missed' \subseteq Closed
       /\ \A q \in Closed \ (raced \cup missed') :
            vectors'[q] = chunks[q] \/ \E b \in Ingesters \ {a} : ingest[b].s = q /\ ingest[b].pc = "vectors"
  <2>0. \A q \in Closed \ (raced \cup missed) :
          vectors[q] = chunks[q] \/ \E b \in Ingesters : ingest[b].s = q /\ ingest[b].pc = "vectors"
    BY DEF KnInv, KnVectors
  <2>1. CASE Commit(a) /\ ~ContentChanged(a)
    <3>1. UNCHANGED <<vectors, missed>> /\ ingest[a].pc = "commit"
      BY <2>1 DEF Commit, At, knHistory
    <3>2. \A b \in Ingesters : ingest[b].pc = "vectors" => b \in Ingesters \ {a}
      BY <3>1
    <3>3. QED
      BY <2>0, <3>1, <3>2 DEF KnTyped
  <2>2. CASE ReplaceChunkVectors(a)
    <3>1. vectors' = [vectors EXCEPT ![s] = ChunksOf(v)] /\ missed' = missed \ {s}
      BY <2>2 DEF ReplaceChunkVectors
    <3>2. ChunksOf(v) \in Seq(1 .. MaxVersion)
      BY <1>3, ChunksTyped
    <3>3. vectors' \in [Closed -> Seq(1 .. MaxVersion)] /\ missed' \subseteq Closed
      BY <1>3, <3>1, <3>2 DEF KnTyped
    <3>4. vectors'[s] = ChunksOf(v) /\ \A q \in Closed : q # s => vectors'[q] = vectors[q]
      BY <1>3, <3>1 DEF KnTyped
    <3>5. s \notin raced => vectors'[s] = chunks[s]
      BY <1>3, <1>7, <3>4 DEF KnInv, ChunksOfDocument
    <3>6. ASSUME NEW q \in Closed \ (raced \cup missed'), q # s
          PROVE  vectors'[q] = chunks[q] \/ \E b \in Ingesters \ {a} : ingest[b].s = q /\ ingest[b].pc = "vectors"
      <4>1. vectors[q] = chunks[q] \/ \E b \in Ingesters : ingest[b].s = q /\ ingest[b].pc = "vectors"
        BY <2>0, <3>1, <3>6
      <4>2. \A b \in Ingesters : ingest[b].s = q => b \in Ingesters \ {a}
        BY <3>6
      <4>3. QED
        BY <3>4, <3>6, <4>1, <4>2
    <3>7. QED
      BY <3>3, <3>5, <3>6
  <2>3. QED
    BY <2>1, <2>2
<1>12. closings' = closings /\ failed' \in [Closed -> 0 .. MaxVersion] /\ reindexes' \in 0 .. MaxReindexes /\ ingestFaults' \in 0 .. MaxIngestFaults
  BY <1>2 DEF KnTyped
<1>13. QED
  BY <1>1, <1>2, <1>3, <1>4, <1>5, <1>6, <1>9, <1>10, <1>11, <1>12, KnLeaves

LEMMA KnStep == KnInv /\ [KnowledgeNext]_knVars => KnInv'
<1>. SUFFICES ASSUME KnInv, [KnowledgeNext]_knVars PROVE KnInv'
  OBVIOUS
<1>0. KnTyped /\ KnCounts
  BY KnParts DEF KnInv
<1>1. ASSUME NEW s \in Closed, CloseSession(s) \/ ChangeSession(s) PROVE KnInv'
  BY <1>0, <1>1, KnChanges
<1>14. ASSUME NEW s \in Closed, ReplayClosed(s) PROVE KnInv'
  BY <1>0, <1>14, KnReplays
<1>2. ASSUME NEW s \in Closed, DispatchClosed(s) PROVE KnInv'
  <2>. DEFINE rec == [NoIngest EXCEPT !.pc = "read", !.s = s]
  <2>1. rec \in IngestRecord /\ rec.pc = "read" /\ rec.s = s /\ rec.v = 0 /\ rec.todo = {}
    <3>1. "read" \in IngestPcs
      BY DEF IngestPcs
    <3>2. QED
      BY <3>1, IngestNone DEF IngestRecord
  <2>2. /\ ~Busy("dispatcher") /\ Step("dispatcher", rec) /\ closings[s] > 0
        /\ closings' = [closings EXCEPT ![s] = @ - 1]
        /\ UNCHANGED <<text, failed, stored, docLock, recLock, reindexes, ingestFaults, knHistory>>
    BY <1>2 DEF DispatchClosed, Step
  <2>. HIDE DEF rec
  <2>3. "dispatcher" \in Ingesters /\ reindexes' \in 0 .. MaxReindexes
    BY <1>0, <2>2 DEF Ingesters, KnTyped
  <2>4. QED
    BY <1>0, <2>1, <2>2, <2>3, KnStarts
<1>3. CASE ReindexDocuments
  <2>. DEFINE known == {s \in Closed : doc[s] > 0 \/ record[s] > 0}
  <2>1. PICK s \in known : Step("reindex", [NoIngest EXCEPT !.pc = "read", !.s = s, !.todo = known \ {s}])
    BY <1>3 DEF ReindexDocuments, Step
  <2>. DEFINE rec == [NoIngest EXCEPT !.pc = "read", !.s = s, !.todo = known \ {s}]
  <2>2. rec \in IngestRecord /\ rec.pc = "read" /\ rec.s \in Closed /\ rec.v = 0 /\ Step("reindex", rec)
    <3>1. s \in Closed /\ known \ {s} \in SUBSET Closed
      OBVIOUS
    <3>2. QED
      BY <2>1, <3>1, IngestStarted
  <2>. HIDE DEF rec
  <2>3. /\ ~Busy("reindex") /\ closings' = closings
        /\ UNCHANGED <<text, failed, stored, docLock, recLock, ingestFaults, knHistory>>
        /\ reindexes' = reindexes + 1 /\ reindexes < MaxReindexes
    BY <1>3 DEF ReindexDocuments
  <2>4. "reindex" \in Ingesters /\ "reindex" # "dispatcher" /\ reindexes' \in 0 .. MaxReindexes
    BY <1>0, <2>3, KnowledgeAssumption DEF Ingesters, KnTyped
  <2>5. QED
    BY <1>0, <2>2, <2>3, <2>4, KnStarts
<1>4. ASSUME NEW a \in Ingesters, ReadSession(a) PROVE KnInv'
  BY <1>0, <1>4, KnReads
<1>5. ASSUME NEW a \in Ingesters, FindDocument(a) PROVE KnInv'
  <2>. DEFINE rec == [ingest[a] EXCEPT !.pc = "doc", !.old = doc[ingest[a].s]]
  <2>1. /\ ingest[a].pc = "find" /\ Step(a, rec)
        /\ UNCHANGED <<text, closings, failed, stored, docLock, recLock, reindexes, ingestFaults, knHistory>>
    BY <1>5 DEF FindDocument, At
  <2>2. /\ rec \in IngestRecord /\ rec.pc = "doc" /\ rec.s = ingest[a].s /\ rec.v = ingest[a].v
        /\ rec.todo = ingest[a].todo /\ rec.old = doc[ingest[a].s]
    <3>1. ingest[a] \in IngestRecord /\ doc[ingest[a].s] \in 0 .. MaxVersion /\ "doc" \in IngestPcs
      BY <1>0, <2>1, IngestFields DEF KnCounts, KnTyped, IngestPcs
    <3>2. QED
      BY <3>1 DEF IngestRecord
  <2>. HIDE DEF rec
  <2>3. docLock' \in [Closed -> Ingesters \cup {Nobody}] /\ recLock' \in [Closed -> Ingesters \cup {Nobody}]
    BY <1>0, <2>1 DEF KnTyped
  <2>4. QED
    BY <1>0, <2>1, <2>2, <2>3, KnInside
<1>6. ASSUME NEW a \in Ingesters, NEW pc \in {"record", "commit"}, Step(a, [ingest[a] EXCEPT !.pc = pc]),
             ingest[a].pc \in {"doc", "record"},
             docLock' \in [Closed -> Ingesters \cup {Nobody}], recLock' \in [Closed -> Ingesters \cup {Nobody}],
             UNCHANGED <<text, closings, failed, stored, reindexes, ingestFaults, knHistory>>
      PROVE  KnInv'
  <2>. DEFINE rec == [ingest[a] EXCEPT !.pc = pc]
  <2>1. /\ rec \in IngestRecord /\ rec.pc = pc /\ rec.s = ingest[a].s /\ rec.v = ingest[a].v
        /\ rec.todo = ingest[a].todo /\ rec.old = ingest[a].old
    <3>1. ingest[a] \in IngestRecord /\ pc \in IngestPcs
      BY <1>0, IngestFields DEF IngestPcs
    <3>2. QED
      BY <3>1 DEF IngestRecord
  <2>. HIDE DEF rec
  <2>2. Step(a, rec) /\ ingest[a].pc # "find"
    BY <1>6 DEF rec
  <2>3. QED
    BY <1>0, <1>6, <2>1, <2>2, KnInside
<1>7. ASSUME NEW a \in Ingesters, UpsertDocument(a) PROVE KnInv'
  <2>1. /\ ingest[a].pc = "doc" /\ Busy(a)
        /\ UNCHANGED <<text, stored, reindexes, ingestFaults, knHistory>>
    BY <1>7 DEF UpsertDocument, At, Busy
  <2>2. CASE Abort(a)
    <3>1. /\ UNCHANGED <<text, stored, reindexes, closedAt, raced>> /\ ingestFaults' \in 0 .. MaxIngestFaults
          /\ missed' = IF At(a, "vectors") THEN missed \cup {ingest[a].s} ELSE missed
      BY <1>0, <2>1 DEF knHistory, At, KnTyped
    <3>2. QED
      BY <1>0, <2>1, <2>2, <3>1, KnAborts
  <2>3. CASE /\ docLock' = IF ContentChanged(a) THEN [docLock EXCEPT ![ingest[a].s] = a] ELSE docLock
             /\ Step(a, [ingest[a] EXCEPT !.pc = "record"]) /\ UNCHANGED <<closings, failed, recLock>>
    <3>1. docLock' \in [Closed -> Ingesters \cup {Nobody}] /\ recLock' \in [Closed -> Ingesters \cup {Nobody}]
      BY <1>0, <2>3 DEF KnTyped
    <3>2. QED
      BY <1>6, <2>1, <2>3, <3>1
  <2>4. QED
    BY <1>7, <2>2, <2>3 DEF UpsertDocument
<1>8. ASSUME NEW a \in Ingesters, UpsertKnowledgeRecord(a) PROVE KnInv'
  <2>1. /\ ingest[a].pc = "record" /\ Step(a, [ingest[a] EXCEPT !.pc = "commit"])
        /\ recLock' = [recLock EXCEPT ![ingest[a].s] = a]
        /\ UNCHANGED <<text, closings, failed, stored, docLock, reindexes, ingestFaults, knHistory>>
    BY <1>8 DEF UpsertKnowledgeRecord, At
  <2>2. docLock' \in [Closed -> Ingesters \cup {Nobody}] /\ recLock' \in [Closed -> Ingesters \cup {Nobody}]
    BY <1>0, <2>1 DEF KnTyped
  <2>3. QED
    BY <1>6, <2>1, <2>2
<1>9. ASSUME NEW a \in Ingesters, Commit(a) \/ ReplaceChunkVectors(a) PROVE KnInv'
  BY <1>0, <1>9, KnCommits, KnFinishes
<1>10. ASSUME NEW a \in Ingesters, IngestFails(a) PROVE KnInv'
  <2>1. /\ Busy(a) /\ Abort(a) /\ UNCHANGED <<text, stored, reindexes, closedAt, raced>>
        /\ missed' = IF At(a, "vectors") THEN missed \cup {ingest[a].s} ELSE missed
        /\ ingestFaults' = ingestFaults + 1 /\ ingestFaults < MaxIngestFaults
    BY <1>10 DEF IngestFails
  <2>2. ingestFaults' \in 0 .. MaxIngestFaults
    BY <1>0, <2>1, KnowledgeAssumption DEF KnTyped
  <2>3. QED
    BY <1>0, <2>1, <2>2, KnAborts
<1>11. CASE IngestCrash
  BY <1>0, <1>11, KnCrashes
<1>12. CASE UNCHANGED knVars
  BY <1>12 DEF knVars, KnInv, KnowledgeTypeOK, KnShape, ChunksOfDocument, KnAlone, KnLatest, KnVectors, Past
<1>13. QED
  BY <1>1, <1>2, <1>3, <1>4, <1>5, <1>7, <1>8, <1>9, <1>10, <1>11, <1>12, <1>14 DEF KnowledgeNext, IngestStep

-----------------------------------------------------------------------------
(* Search.                                                                 *)

\* What is picked are the entries at the given positions, each once.
LEMMA PickedRows ==
    ASSUME NEW S, NEW s \in Seq(S), NEW P \in SUBSET DOMAIN s
    PROVE  /\ Picked(s, P) \in Seq(S)
           /\ \A k \in DOMAIN Picked(s, P) : \E i \in P : Picked(s, P)[k] = s[i]
           /\ \A i \in P : \E k \in DOMAIN Picked(s, P) : Picked(s, P)[k] = s[i]
           /\ IsInjective(s) => IsInjective(Picked(s, P))
           /\ Len(Picked(s, P)) <= Len(s)
<1> DEFINE n == Len(s)
           c == Cardinality(P)
           upTo(i) == {j \in P : j <= i}
           rank == [i \in P |-> Cardinality(upTo(i))]
           place(k) == CHOOSE i \in P : Cardinality(upTo(i)) = k
           q == Picked(s, P)
<1>1. n \in Nat /\ DOMAIN s = 1..n /\ \A i \in DOMAIN s : s[i] \in S
  OBVIOUS
<1>2. IsFiniteSet(1..n) /\ Cardinality(1..n) = n
  <2> HIDE DEF n
  <2> QED
    BY <1>1, FS_Interval
<1>3. IsFiniteSet(P) /\ c \in Nat /\ c <= n /\ P \subseteq Nat /\ P \subseteq 1..n
  <2>1. P \subseteq 1..n
    BY <1>1
  <2> HIDE DEF n
  <2> QED
    BY <1>1, <1>2, <2>1, FS_Subset, FS_CardinalityType
<1>4. q = [k \in 1..c |-> s[place(k)]]
  BY DEF Picked
<1> HIDE DEF n
<1>5. ASSUME NEW i \in P
      PROVE  IsFiniteSet(upTo(i)) /\ Cardinality(upTo(i)) \in 1..c
  <2>1. IsFiniteSet(upTo(i)) /\ Cardinality(upTo(i)) <= c
    BY <1>3, FS_Subset
  <2>2. i \in upTo(i)
    BY <1>3
  <2>3. Cardinality(upTo(i)) \in Nat /\ Cardinality(upTo(i)) # 0
    BY <2>1, <2>2, FS_CardinalityType, FS_EmptySet
  <2> HIDE DEF upTo, c
  <2> QED
    BY <1>3, <2>1, <2>3
<1>6. ASSUME NEW i \in P, NEW j \in P, i < j PROVE Cardinality(upTo(i)) # Cardinality(upTo(j))
  <2>1. upTo(i) \subseteq upTo(j) /\ j \in upTo(j) /\ j \notin upTo(i)
    BY <1>3, <1>6
  <2> HIDE DEF upTo
  <2> QED
    BY <1>5, <2>1, FS_Subset
<1>7. ASSUME NEW i \in P, NEW j \in P, Cardinality(upTo(i)) = Cardinality(upTo(j)) PROVE i = j
  <2>1. i = j \/ i < j \/ j < i
    BY <1>3
  <2> HIDE DEF upTo
  <2> QED
    BY <1>6, <1>7, <2>1
<1> HIDE DEF c
<1>8. rank \in Injection(P, 1..c)
  <2> HIDE DEF upTo
  <2> QED
    BY <1>5, <1>7 DEF Injection, IsInjective
<1>9. rank \in Surjection(P, 1..c)
  <2>1. IsFiniteSet(1..c) /\ Cardinality(1..c) = Cardinality(P)
    BY <1>3, FS_Interval DEF c
  <2> HIDE DEF rank
  <2> QED
    BY <1>8, <2>1, FS_Injection
<1>10. ASSUME NEW k \in 1..c PROVE place(k) \in P /\ Cardinality(upTo(place(k))) = k
  <2>1. PICK i \in P : rank[i] = k
    <3> HIDE DEF rank
    <3> QED
      BY <1>9 DEF Surjection
  <2>2. \E i0 \in P : Cardinality(upTo(i0)) = k
    BY <2>1
  <2> HIDE DEF upTo
  <2> QED
    BY <2>2
<1>11. ASSUME NEW i \in P PROVE place(Cardinality(upTo(i))) = i
  <2> HIDE DEF upTo
  <2> QED
    BY <1>5, <1>7, <1>10
<1> HIDE DEF place, q
<1>12. \A k \in 1..c : place(k) \in P /\ s[place(k)] \in S
  BY <1>1, <1>10
<1>13. q \in Seq(S) /\ DOMAIN q = 1..c /\ Len(q) = c /\ \A k \in 1..c : q[k] = s[place(k)]
  BY <1>3, <1>4, <1>12
<1>14. \A k \in DOMAIN q : \E i \in P : q[k] = s[i]
  BY <1>12, <1>13
<1>15. \A i \in P : \E k \in DOMAIN q : q[k] = s[i]
  <2> SUFFICES ASSUME NEW i \in P PROVE q[Cardinality(upTo(i))] = s[i] /\ Cardinality(upTo(i)) \in DOMAIN q
    OBVIOUS
  <2> HIDE DEF upTo
  <2> QED
    BY <1>5, <1>11, <1>13
<1>16. ASSUME IsInjective(s) PROVE IsInjective(q)
  <2> SUFFICES ASSUME NEW k \in 1..c, NEW l \in 1..c, q[k] = q[l] PROVE k = l
    BY <1>13 DEF IsInjective
  <2>1. place(k) = place(l)
    BY <1>1, <1>12, <1>13, <1>16 DEF IsInjective
  <2> HIDE DEF upTo
  <2> QED
    BY <1>10, <2>1
<1> QED
  BY <1>3, <1>13, <1>14, <1>15, <1>16 DEF q, n

\* What Cut keeps is the beginning, all of it when there is room.
LEMMA CutRows ==
    ASSUME NEW S, NEW s \in Seq(S)
    PROVE  /\ Cut(s) \in Seq(S) /\ Len(Cut(s)) <= HitLimit /\ Len(Cut(s)) <= Len(s)
           /\ \A i \in DOMAIN Cut(s) : i \in DOMAIN s /\ Cut(s)[i] = s[i]
           /\ \A i \in DOMAIN s : i <= HitLimit => i \in DOMAIN Cut(s)
           /\ Len(Cut(s)) < HitLimit => Cut(s) = s
           /\ IsInjective(s) => IsInjective(Cut(s))
<1> DEFINE m == IF Len(s) < HitLimit THEN Len(s) ELSE HitLimit
           q == SubSeq(s, 1, m)
<1>1. Cut(s) = q
  BY DEF Cut
<1>2. Len(s) \in Nat /\ HitLimit \in Nat /\ DOMAIN s = 1..Len(s)
  BY KnowledgeAssumption
<1>3. m \in Nat /\ m <= Len(s) /\ m <= HitLimit
  BY <1>2
<1>4. /\ \A i \in 1..Len(s) : i <= HitLimit => i <= m
      /\ m < HitLimit => m = Len(s)
  <2>1. CASE Len(s) < HitLimit
    <3>1. m = Len(s)
      BY <2>1
    <3> HIDE DEF m
    <3> QED
      BY <1>2, <3>1
  <2>2. CASE ~(Len(s) < HitLimit)
    <3>1. m = HitLimit
      BY <2>2
    <3>2. ~(HitLimit < HitLimit)
      BY <1>2
    <3> HIDE DEF m
    <3> QED
      BY <1>2, <3>1, <3>2
  <2> QED
    BY <2>1, <2>2
<1> HIDE DEF m
<1>5. /\ q \in Seq(S) /\ Len(q) = m /\ DOMAIN q = 1..m
      /\ \A i \in 1..m : q[i] = s[i] /\ i \in DOMAIN s
  BY <1>2, <1>3
<1>6. ASSUME m < HitLimit PROVE q = s
  BY <1>2, <1>4, <1>6
<1> HIDE DEF q
<1>7. ASSUME IsInjective(s) PROVE IsInjective(q)
  BY <1>2, <1>3, <1>5, <1>7 DEF IsInjective
<1>8. \A i \in DOMAIN s : i <= HitLimit => i \in DOMAIN q
  <2> SUFFICES ASSUME NEW i \in 1..Len(s), i <= HitLimit PROVE i \in 1..m
    BY <1>2, <1>5
  <2>1. i <= m
    BY <1>4
  <2> QED
    BY <1>2, <1>3, <2>1
<1>9. Len(q) < HitLimit => q = s
  BY <1>5, <1>6
<1> QED
  BY <1>1, <1>3, <1>5, <1>7, <1>8, <1>9

\* Different rows that are all in another list are not more than that list has.
LEMMA FewerRows ==
    ASSUME NEW S, NEW a \in Seq(S), NEW b \in Seq(S), IsInjective(b), Range(b) \subseteq Range(a)
    PROVE  Len(b) <= Len(a)
<1> DEFINE n == Len(a)
           k == Len(b)
           at == [i \in 1..k |-> CHOOSE j \in 1..n : a[j] = b[i]]
<1>1. n \in Nat /\ k \in Nat /\ DOMAIN a = 1..n /\ DOMAIN b = 1..k
  OBVIOUS
<1> HIDE DEF n, k
<1>2. ASSUME NEW i \in 1..k PROVE at[i] \in 1..n /\ a[at[i]] = b[i]
  <2>1. b[i] \in Range(a)
    BY <1>1 DEF Range
  <2>2. \E j \in 1..n : a[j] = b[i]
    BY <1>1, <2>1 DEF Range
  <2> QED
    BY <2>2
<1>3. at \in [1..k -> 1..n]
  BY <1>2
<1> HIDE DEF at
<1>4. at \in Injection(1..k, 1..n)
  <2>1. \A i, j \in 1..k : at[i] = at[j] => i = j
    BY <1>1, <1>2 DEF IsInjective
  <2> QED
    BY <1>3, <2>1 DEF Injection, IsInjective
<1>5. IsFiniteSet(1..n) /\ Cardinality(1..n) = n /\ Cardinality(1..k) = k
  BY <1>1, FS_Interval
<1>6. Cardinality(1..k) <= Cardinality(1..n)
  BY <1>4, <1>5, FS_Injection
<1> QED
  BY <1>5, <1>6 DEF n, k

\* Two lists of different rows after one another.
LEMMA JoinedRows ==
    ASSUME NEW S, NEW a \in Seq(S), NEW b \in Seq(S), IsInjective(a), IsInjective(b),
           \A i \in DOMAIN a, j \in DOMAIN b : a[i] # b[j]
    PROVE  /\ a \o b \in Seq(S) /\ Len(a \o b) = Len(a) + Len(b)
           /\ \A i \in DOMAIN a : i \in DOMAIN (a \o b) /\ (a \o b)[i] = a[i]
           /\ \A j \in DOMAIN b : Len(a) + j \in DOMAIN (a \o b) /\ (a \o b)[Len(a) + j] = b[j]
           /\ IsInjective(a \o b)
<1> DEFINE ab == a \o b
<1>1. /\ ab \in Seq(S) /\ Len(ab) = Len(a) + Len(b) /\ Len(a) \in Nat /\ Len(b) \in Nat
      /\ DOMAIN a = 1..Len(a) /\ DOMAIN b = 1..Len(b)
  OBVIOUS
<1>2. \A i \in 1..Len(ab) : ab[i] = IF i <= Len(a) THEN a[i] ELSE b[i - Len(a)]
  BY <1>1
<1>3. DOMAIN ab = 1..Len(ab)
  BY <1>1
<1> HIDE DEF ab
<1>4. /\ \A i \in DOMAIN a : i \in DOMAIN ab /\ ab[i] = a[i]
      /\ \A j \in DOMAIN b : Len(a) + j \in DOMAIN ab /\ ab[Len(a) + j] = b[j]
  BY <1>1, <1>2, <1>3
<1>5. IsInjective(ab)
  <2> SUFFICES ASSUME NEW i \in 1..Len(ab), NEW j \in 1..Len(ab), ab[i] = ab[j] PROVE i = j
    BY <1>3 DEF IsInjective
  <2>1. CASE i <= Len(a) /\ j <= Len(a)
    BY <1>1, <1>2, <2>1 DEF IsInjective
  <2>2. CASE i > Len(a) /\ j > Len(a)
    <3>1. b[i - Len(a)] = b[j - Len(a)] /\ i - Len(a) \in DOMAIN b /\ j - Len(a) \in DOMAIN b
      BY <1>1, <1>2, <2>2
    <3>2. i - Len(a) = j - Len(a)
      BY <3>1 DEF IsInjective
    <3> QED
      BY <1>1, <3>2
  <2>3. CASE i <= Len(a) /\ j > Len(a)
    <3>1. a[i] = b[j - Len(a)] /\ i \in DOMAIN a /\ j - Len(a) \in DOMAIN b
      BY <1>1, <1>2, <2>3
    <3> QED
      BY <3>1
  <2>4. CASE i > Len(a) /\ j <= Len(a)
    <3>1. a[j] = b[i - Len(a)] /\ j \in DOMAIN a /\ i - Len(a) \in DOMAIN b
      BY <1>1, <1>2, <2>4
    <3> QED
      BY <3>1
  <2> QED
    BY <1>1, <2>1, <2>2, <2>3, <2>4
<1> QED
  BY <1>1, <1>4, <1>5 DEF ab

\* The merge of two lists of different rows: the first list, then of the second
\* what is new, while there is room.
LEMMA MergedRows ==
    ASSUME NEW S, NEW a \in Seq(S), NEW b \in Seq(S), IsInjective(a), IsInjective(b), Len(a) <= HitLimit
    PROVE  LET hits == MergeKnowledgeHits(a, b) IN
           /\ hits \in Seq(S)
           /\ IsInjective(hits) /\ Range(hits) \subseteq S /\ Len(hits) <= HitLimit
           /\ Range(a) \subseteq Range(hits)
           /\ Len(hits) < HitLimit => Range(b) \subseteq Range(hits)
<1> DEFINE P == {i \in DOMAIN b : b[i] \notin Range(a)}
           new == Picked(b, P)
           all == a \o new
           hits == Cut(all)
<1>1. MergeKnowledgeHits(a, b) = hits
  BY DEF MergeKnowledgeHits
<1>2. P \in SUBSET DOMAIN b
  OBVIOUS
<1>3. /\ new \in Seq(S) /\ IsInjective(new)
      /\ \A k \in DOMAIN new : \E i \in P : new[k] = b[i]
      /\ \A i \in P : \E k \in DOMAIN new : new[k] = b[i]
  <2> HIDE DEF P
  <2> QED
    BY <1>2, PickedRows
<1>4. \A i \in DOMAIN a, j \in DOMAIN new : a[i] # new[j]
  <2> SUFFICES ASSUME NEW i \in DOMAIN a, NEW j \in DOMAIN new PROVE a[i] # new[j]
    OBVIOUS
  <2>1. PICK k \in P : new[j] = b[k]
    BY <1>3
  <2>2. a[i] \in Range(a)
    BY DEF Range
  <2> QED
    BY <2>1, <2>2
<1> HIDE DEF new
<1>5. /\ all \in Seq(S) /\ Len(all) = Len(a) + Len(new)
      /\ \A i \in DOMAIN a : i \in DOMAIN all /\ all[i] = a[i]
      /\ \A j \in DOMAIN new : Len(a) + j \in DOMAIN all /\ all[Len(a) + j] = new[j]
      /\ IsInjective(all)
  BY <1>3, <1>4, JoinedRows
<1> HIDE DEF all
<1>6. Len(a) \in Nat /\ Len(new) \in Nat /\ HitLimit \in Nat /\ DOMAIN a = 1..Len(a)
  BY <1>3, KnowledgeAssumption
<1>7. /\ hits \in Seq(S) /\ Len(hits) <= HitLimit /\ IsInjective(hits)
      /\ \A i \in DOMAIN hits : i \in DOMAIN all /\ hits[i] = all[i]
      /\ \A i \in DOMAIN all : i <= HitLimit => i \in DOMAIN hits
      /\ Len(hits) < HitLimit => hits = all
  BY <1>5, CutRows
<1> HIDE DEF hits
<1>8. Range(hits) \subseteq S
  <2>1. \A i \in DOMAIN hits : hits[i] \in S
    BY <1>7
  <2> QED
    BY <2>1 DEF Range
<1>9. Range(a) \subseteq Range(hits)
  <2> SUFFICES ASSUME NEW i \in DOMAIN a PROVE a[i] \in Range(hits)
    BY DEF Range
  <2>1. i <= HitLimit
    BY <1>6
  <2>2. i \in DOMAIN hits /\ hits[i] = a[i]
    BY <1>5, <1>7, <2>1
  <2> QED
    BY <2>2 DEF Range
<1>10. ASSUME Len(hits) < HitLimit PROVE Range(b) \subseteq Range(hits)
  <2>1. hits = all
    BY <1>7, <1>10
  <2> SUFFICES ASSUME NEW i \in DOMAIN b PROVE b[i] \in Range(hits)
    BY DEF Range
  <2>2. CASE b[i] \in Range(a)
    BY <1>9, <2>2
  <2>3. CASE b[i] \notin Range(a)
    <3>1. PICK k \in DOMAIN new : new[k] = b[i]
      BY <1>3, <2>3
    <3>2. Len(a) + k \in DOMAIN hits /\ hits[Len(a) + k] = b[i]
      BY <1>5, <2>1, <3>1
    <3> QED
      BY <3>2 DEF Range
  <2> QED
    BY <2>2, <2>3
<1> QED
  BY <1>1, <1>7, <1>8, <1>9, <1>10

\* In every state a search gives what it should.
LEMMA SearchHolds == SearchSound
<1> SUFFICES ASSUME NEW ranked \in Rankings, NEW scan \in Scans, NEW named \in SUBSET Closed
             PROVE  LET hits == Search(ranked, scan, named) IN
                    /\ IsInjective(hits) /\ Range(hits) \subseteq ChunkRows /\ Len(hits) <= HitLimit
                    /\ (Range(ranked) \cap ChunkRows) \subseteq Range(hits)
                    /\ Len(hits) < HitLimit => {row \in Range(scan) : row[1] \in named} \subseteq Range(hits)
  BY DEF SearchSound
<1> DEFINE P == {i \in DOMAIN ranked : ranked[i] \in ChunkRows}
           Q == {i \in DOMAIN scan : scan[i][1] \in named}
           a == LoadVectorHits(ranked)
           c == Picked(scan, Q)
           b == SearchLexical(scan, named)
           hits == Search(ranked, scan, named)
<1>1. PICK n \in 0..HitLimit : ranked \in [1..n -> VectorRows]
  BY DEF Rankings
<1>2. IsInjective(ranked)
  BY DEF Rankings
<1>3. ranked \in Seq(VectorRows) /\ Len(ranked) = n /\ n \in Nat /\ n <= HitLimit /\ HitLimit \in Nat
  <2>1. n \in Nat /\ n <= HitLimit /\ HitLimit \in Nat
    BY KnowledgeAssumption
  <2> QED
    BY <1>1, <2>1
<1>4. a = Picked(ranked, P)
  BY DEF LoadVectorHits
<1>5. P \in SUBSET DOMAIN ranked
  OBVIOUS
<1>6. /\ a \in Seq(VectorRows) /\ IsInjective(a) /\ Len(a) <= n
      /\ \A k \in DOMAIN a : \E i \in P : a[k] = ranked[i]
      /\ \A i \in P : \E k \in DOMAIN a : a[k] = ranked[i]
  <2> HIDE DEF P, a
  <2> QED
    BY <1>2, <1>3, <1>4, <1>5, PickedRows
<1> HIDE DEF a
<1>7. a \in Seq(ChunkRows) /\ Len(a) <= HitLimit
  <2>1. \A k \in DOMAIN a : a[k] \in ChunkRows
    BY <1>6
  <2> QED
    BY <1>3, <1>6, <2>1
<1>8. scan \in Seq(ChunkRows) /\ IsInjective(scan)
  <2>1. IsFiniteSet(ChunkRows)
    <3>1. IsFiniteSet(1..MaxVersion)
      BY KnowledgeAssumption, FS_Interval
    <3>2. IsFiniteSet(Closed \X (1..MaxVersion))
      BY <3>1, KnowledgeAssumption, FS_Product
    <3>3. ChunkRows \subseteq Closed \X (1..MaxVersion)
      BY DEF ChunkRows
    <3> QED
      BY <3>2, <3>3, FS_Subset
  <2> DEFINE size == Cardinality(ChunkRows)
             l == IF size < ScanLimit THEN size ELSE ScanLimit
  <2>2. size \in Nat /\ ScanLimit \in Nat
    BY <2>1, FS_CardinalityType, KnowledgeAssumption
  <2>3. l \in Nat
    BY <2>2
  <2>4. scan \in [1..l -> ChunkRows] /\ IsInjective(scan)
    BY DEF Scans
  <2> HIDE DEF l
  <2> QED
    BY <2>3, <2>4
<1>9. Q \in SUBSET DOMAIN scan
  OBVIOUS
<1>10. /\ c \in Seq(ChunkRows) /\ IsInjective(c)
       /\ \A i \in Q : \E k \in DOMAIN c : c[k] = scan[i]
  <2> HIDE DEF Q
  <2> QED
    BY <1>8, <1>9, PickedRows
<1>11. b = Cut(c)
  BY DEF SearchLexical
<1> HIDE DEF c, b
<1>12. /\ b \in Seq(ChunkRows) /\ IsInjective(b)
       /\ Len(b) <= HitLimit
       /\ Len(b) < HitLimit => b = c
  BY <1>10, <1>11, CutRows
<1>13. hits = MergeKnowledgeHits(a, b)
  BY DEF Search, a, b
<1> HIDE DEF hits
<1>14. /\ hits \in Seq(ChunkRows)
       /\ IsInjective(hits) /\ Range(hits) \subseteq ChunkRows /\ Len(hits) <= HitLimit
       /\ Range(a) \subseteq Range(hits)
       /\ Len(hits) < HitLimit => Range(b) \subseteq Range(hits)
  BY <1>6, <1>7, <1>12, <1>13, MergedRows
\* a full list of lexical hits fills the answer, so the cut of searchLexical costs nothing
<1>15. ASSUME Len(hits) < HitLimit PROVE b = c
  <2>1. Len(b) <= Len(hits)
    BY <1>12, <1>14, <1>15, FewerRows
  <2>2. Len(b) \in Nat /\ Len(hits) \in Nat
    BY <1>12, <1>14
  <2>3. Len(b) < HitLimit
    BY <1>3, <1>15, <2>1, <2>2
  <2> QED
    BY <1>12, <2>3
<1>16. {row \in Range(scan) : row[1] \in named} \subseteq Range(c)
  <2> SUFFICES ASSUME NEW i \in DOMAIN scan, scan[i][1] \in named PROVE scan[i] \in Range(c)
    BY DEF Range
  <2> QED
    BY <1>10 DEF Range
<1>17. (Range(ranked) \cap ChunkRows) \subseteq Range(a)
  <2> SUFFICES ASSUME NEW i \in DOMAIN ranked, ranked[i] \in ChunkRows PROVE ranked[i] \in Range(a)
    BY DEF Range
  <2> QED
    BY <1>6 DEF Range
<1>18. Len(hits) < HitLimit => {row \in Range(scan) : row[1] \in named} \subseteq Range(hits)
  BY <1>14, <1>15, <1>16
<1> QED
  BY <1>14, <1>17, <1>18 DEF hits

-----------------------------------------------------------------------------
(* Cutting a text into chunks.                                             *)

\* A set of positions that is not empty has a first and a last one.
LEMMA LeastPosition ==
    ASSUME NEW T, T \subseteq Nat, T # {}
    PROVE  \E x \in T : \A y \in T : x <= y
<1> DEFINE R == OpToRel(<, Nat)
<1>1. \E x \in T : \A y \in T : ~(<<y, x>> \in R)
  BY NatLessThanWellFounded, WFMin
<1>2. \A x, y \in Nat : y < x => <<y, x>> \in R
  BY DEF OpToRel
<1> HIDE DEF R
<1>3. PICK x \in T : \A y \in T : ~(<<y, x>> \in R)
  BY <1>1
<1>4. ASSUME NEW y \in T PROVE x <= y
  <2>1. x \in Nat /\ y \in Nat
    OBVIOUS
  <2>2. ~(y < x)
    BY <1>2, <1>3, <2>1
  <2> QED
    BY <2>1, <2>2
<1> QED
  BY <1>4

LEMMA Ends ==
    ASSUME NEW n \in Nat, NEW P \in SUBSET (1 .. n), P # {}
    PROVE  /\ \E x \in P : \A y \in P : x <= y
           /\ \E x \in P : \A y \in P : x >= y
<1>1. P \subseteq Nat
  OBVIOUS
<1>2. \E x \in P : \A y \in P : x <= y
  BY <1>1, LeastPosition
<1>3. \E x \in P : \A y \in P : x >= y
  <2> DEFINE Q == {n - i : i \in P}
  <2>1. Q \subseteq Nat /\ Q # {}
    <3>1. \A i \in P : n - i \in Nat
      OBVIOUS
    <3> QED
      BY <3>1
  <2>2. \A y \in P : n - y \in Q
    OBVIOUS
  <2>3. \A m \in Q : \E x \in P : m = n - x
    OBVIOUS
  <2> HIDE DEF Q
  <2>4. PICK m \in Q : \A k \in Q : m <= k
    BY <2>1, LeastPosition
  <2>5. PICK x \in P : m = n - x
    BY <2>3
  <2>6. ASSUME NEW y \in P PROVE x >= y
    <3>1. n - x <= n - y
      BY <2>2, <2>4, <2>5
    <3> QED
      BY <1>1, <3>1
  <2> QED
    BY <2>6
<1> QED
  BY <1>2, <1>3

\* Trimming makes nothing longer.
LEMMA TrimFits ==
    ASSUME NEW p \in Seq(Nat)
    PROVE  TrimSpace(p) \in Seq(Nat) /\ Len(TrimSpace(p)) <= Len(p)
<1>1. CASE Inked(p) = {}
  BY <1>1 DEF TrimSpace
<1>2. CASE Inked(p) # {}
  <2> DEFINE f == Min(Inked(p))
             l == Max(Inked(p))
  <2>1. Len(p) \in Nat /\ Inked(p) \in SUBSET (1 .. Len(p))
    BY DEF Inked
  <2>2. f \in Inked(p) /\ l \in Inked(p)
    BY <1>2, <2>1, Ends DEF Min, Max
  <2>3. TrimSpace(p) = SubSeq(p, f, l)
    BY <1>2 DEF TrimSpace
  <2> HIDE DEF f, l
  <2>4. f \in 1 .. Len(p) /\ l \in 1 .. Len(p)
    BY <2>1, <2>2
  <2> QED
    BY <2>3, <2>4
<1> QED
  BY <1>1, <1>2

\* How many full pieces there are before a rest that is not empty.
LEMMA CutOff ==
    ASSUME NEW n \in Nat \ {0}, NEW limit \in Nat \ {0}
    PROVE  /\ (n - 1) \div limit \in Nat
           /\ n - ((n - 1) \div limit) * limit \in 1 .. limit
           /\ n <= limit => (n - 1) \div limit = 0
<1>1. (n - 1) \div limit \in Nat /\ n - 1 = limit * ((n - 1) \div limit) + ((n - 1) % limit)
  BY Z3
<1>2. (n - 1) % limit \in 0 .. limit - 1
  BY Z3
<1>3. n - ((n - 1) \div limit) * limit = ((n - 1) % limit) + 1
  BY <1>1, <1>2, Z3
<1>4. n <= limit => (n - 1) \div limit = 0
  BY Z3
<1> QED
  BY <1>1, <1>2, <1>3, <1>4

LEMMA PieceEnds ==
    ASSUME NEW n \in Nat, NEW limit \in Nat \ {0}, NEW d \in Nat, d * limit <= n, NEW k \in 1 .. d
    PROVE  /\ (k - 1) * limit + 1 \in 1 .. n /\ k * limit \in 1 .. n
           /\ k * limit - ((k - 1) * limit + 1) + 1 = limit
<1>1. k * limit <= d * limit /\ (k - 1) * limit \in Nat /\ k * limit = (k - 1) * limit + limit
  BY Z3
<1> QED
  BY <1>1

\* the chunks a limit allows
ChunkOf(limit) == {c \in Seq(Nat) : Len(c) \in 1 .. limit}

\* A paragraph leaves chunkText with full chunks and an open one that are never
\* too long, the full ones never empty, whatever the limit and the paragraph.
LEMMA AddParagraphFits ==
    ASSUME NEW limit \in Nat \ {0}, NEW paragraph \in Seq(Nat),
           NEW done \in Seq(ChunkOf(limit)), NEW open \in ChunkOf(limit) \cup {<<>>}
    PROVE  LET end == AddParagraph([done |-> done, open |-> open], paragraph, limit) IN
           /\ end.done \in Seq(ChunkOf(limit))
           /\ end.open \in ChunkOf(limit) \cup {<<>>}
<1> DEFINE acc == [done |-> done, open |-> open]
           p == TrimSpace(paragraph)
           n == Len(p)
           d == NumPieces(p, limit)
           closes == open # <<>> /\ Len(open) + 2 + Len(p) > limit
           before == IF closes THEN Append(done, open) ELSE done
           gathered == IF closes THEN <<>> ELSE open
           pieces == Pieces(p, limit)
           rest == Remainder(p, limit)
           end == AddParagraph(acc, paragraph, limit)
<1>0. p \in Seq(Nat) /\ n \in Nat
  BY TrimFits
<1>1. CASE p = <<>>
  <2>1. end = acc
    BY <1>1 DEF AddParagraph
  <2> QED
    BY <2>1
<1>2. CASE p # <<>>
  <2>1. end = [done |-> before \o pieces,
               open |-> IF gathered = <<>> THEN rest ELSE gathered \o <<Blank, Blank>> \o rest]
    BY <1>2 DEF AddParagraph
  <2>2. n \in Nat \ {0}
    BY <1>0, <1>2
  <2>3. d \in Nat /\ n - d * limit \in 1 .. limit /\ (n <= limit => d = 0)
    <3> HIDE DEF n
    <3>1. d = (n - 1) \div limit
      BY DEF NumPieces, n
    <3> HIDE DEF d
    <3> QED
      BY <2>2, <3>1, CutOff
  <2>4. pieces = [k \in 1 .. d |-> SubSeq(p, (k - 1) * limit + 1, k * limit)]
    BY DEF Pieces
  <2>5. rest = TrimSpace(SubSeq(p, d * limit + 1, n))
    BY DEF Remainder
  <2> HIDE DEF p, d, pieces, rest, end
  <2>6. d * limit \in Nat /\ d * limit <= n
    <3>1. d * limit \in Nat
      BY <2>3
    <3> QED
      BY <1>0, <2>3, <3>1
  <2>7. pieces \in Seq(ChunkOf(limit))
    <3>1. ASSUME NEW k \in 1 .. d PROVE SubSeq(p, (k - 1) * limit + 1, k * limit) \in ChunkOf(limit)
      <4> DEFINE a == (k - 1) * limit + 1
                 b == k * limit
      <4>1. a \in 1 .. n /\ b \in 1 .. n /\ b - a + 1 = limit
        <5> HIDE DEF n
        <5> QED
          BY <1>0, <2>3, <2>6, PieceEnds
      <4> HIDE DEF a, b
      <4>2. SubSeq(p, a, b) \in Seq(Nat) /\ Len(SubSeq(p, a, b)) = limit
        BY <1>0, <4>1
      <4>3. SubSeq(p, a, b) \in ChunkOf(limit)
        BY <4>2 DEF ChunkOf
      <4> QED
        BY <4>3 DEF a, b
    <3> DEFINE piece(k) == SubSeq(p, (k - 1) * limit + 1, k * limit)
    <3>2. \A k \in 1 .. d : piece(k) \in ChunkOf(limit)
      BY <3>1
    <3> HIDE DEF piece
    <3>3. pieces = [k \in 1 .. d |-> piece(k)]
      BY <2>4 DEF piece
    <3> QED
      BY <2>3, <3>2, <3>3
  <2>8. before \in Seq(ChunkOf(limit))
    <3>1. closes => open \in ChunkOf(limit)
      OBVIOUS
    <3> QED
      BY <3>1
  <2>9. rest \in Seq(Nat) /\ Len(rest) <= n - d * limit
    <3> DEFINE m == d * limit
               tail == SubSeq(p, m + 1, n)
    <3>1. m \in Nat /\ m <= n /\ n - m \in 1 .. limit
      BY <2>3, <2>6
    <3> HIDE DEF m
    <3>2. tail \in Seq(Nat) /\ Len(tail) = n - m
      BY <1>0, <3>1
    <3>3. rest = TrimSpace(tail)
      BY <2>5 DEF m
    <3> HIDE DEF tail
    <3>4. rest \in Seq(Nat) /\ Len(rest) <= Len(tail)
      BY <3>2, <3>3, TrimFits
    <3> QED
      BY <3>2, <3>4 DEF m
  <2>10. Len(rest) \in 0 .. limit /\ Len(rest) <= n
    <3> DEFINE m == d * limit
    <3>1. m \in Nat /\ n - m \in 1 .. limit /\ Len(rest) <= n - m /\ Len(rest) \in Nat
      BY <2>3, <2>6, <2>9
    <3> HIDE DEF m, n
    <3> QED
      BY <1>0, <3>1
  <2>11. ASSUME gathered # <<>> PROVE gathered \o <<Blank, Blank>> \o rest \in ChunkOf(limit)
    <3>1. gathered = open /\ open \in ChunkOf(limit) /\ ~(Len(open) + 2 + n > limit)
      BY <2>11
    <3>2. open \in Seq(Nat) /\ Len(open) \in 1 .. limit /\ <<Blank, Blank>> \in Seq(Nat) /\ Len(<<Blank, Blank>>) = 2
      BY <3>1 DEF ChunkOf, Blank
    <3> DEFINE all == open \o <<Blank, Blank>> \o rest
    <3>3. all \in Seq(Nat) /\ Len(all) = Len(open) + 2 + Len(rest)
      BY <2>9, <3>2
    <3>4. Len(all) \in 1 .. limit
      <4> HIDE DEF all, n
      <4> QED
        BY <1>0, <2>10, <3>1, <3>2, <3>3
    <3> HIDE DEF all
    <3>5. all \in ChunkOf(limit)
      BY <3>3, <3>4 DEF ChunkOf
    <3> QED
      BY <3>1, <3>5 DEF all
  <2>12. rest \in ChunkOf(limit) \cup {<<>>}
    BY <2>9, <2>10 DEF ChunkOf
  <2>13. end.done = before \o pieces /\ end.open \in {rest, gathered \o <<Blank, Blank>> \o rest}
         /\ (gathered = <<>> => end.open = rest)
    BY <2>1
  <2> HIDE DEF before, gathered
  <2>14. end.done \in Seq(ChunkOf(limit))
    BY <2>7, <2>8, <2>13
  <2>15. end.open \in ChunkOf(limit) \cup {<<>>}
    BY <2>11, <2>12, <2>13
  <2> QED
    BY <2>14, <2>15 DEF end
<1> QED
  BY <1>1, <1>2

-----------------------------------------------------------------------------
(* The knowledge base.                                                     *)

\* What is stored of a closed session tells one story, the latest one, however the
\* dispatcher and reindex requests interleave and whatever calls fail: chunks are
\* those of the document, and where no two ingestions of a session overlapped the
\* record agrees with the document, the document is as recent as the last closing or
\* an event of it is in the dead letters, and the vectors follow the chunks unless the vector store was missed.  A search
\* over it neither repeats nor invents a chunk, keeps to its limit, and leaves out
\* what it found only for lack of room.
THEOREM KnowledgeCorrect == KnowledgeSpec => []KnowledgeSound
<1>1. KnowledgeInit => KnInv
  <2>. SUFFICES ASSUME KnowledgeInit PROVE KnInv
    OBVIOUS
  <2>0. \A a \in Ingesters : ingest[a] = NoIngest
    BY DEF KnowledgeInit
  <2>1. KnTyped
    <3>1. ingest \in [Ingesters -> IngestRecord]
      BY IngestNone DEF KnowledgeInit
    <3>2. chunks \in [Closed -> Seq(1 .. MaxVersion)] /\ vectors \in [Closed -> Seq(1 .. MaxVersion)]
      BY DEF KnowledgeInit
    <3>3. QED
      BY <3>1, <3>2, KnowledgeAssumption DEF KnowledgeInit, KnTyped
  <2>2. KnCounts
    <3>1. "dispatcher" \in Ingesters
      BY DEF Ingesters
    <3>2. \A a \in Ingesters : ingest[a].pc = "idle" /\ ingest[a].s = NoSession /\ ingest[a].todo = {}
      BY <2>0, IngestNone
    <3>3. QED
      BY <3>1, <3>2, KnowledgeAssumption DEF KnowledgeInit, KnCounts
  <2>3. KnowledgeTypeOK /\ KnShape
    BY <2>1, <2>2, KnParts
  <2>4. ChunksOfDocument
    <3>1. ChunksOf(0) = << >>
      BY DEF ChunksOf
    <3>2. QED
      BY <3>1 DEF KnowledgeInit, ChunksOfDocument
  <2>5. KnAlone
    <3>1. \A a \in Ingesters, s \in Closed : ~Past(a, s)
      BY <2>0, IngestNone, KnowledgeAssumption DEF Past
    <3>2. QED
      BY <3>1 DEF KnowledgeInit, KnAlone
  <2>6. KnLatest /\ KnVectors
    BY DEF KnowledgeInit, KnLatest, KnVectors
  <2>7. QED
    BY <2>3, <2>4, <2>5, <2>6 DEF KnInv
<1>2. KnInv => KnowledgeSound
  <2>. SUFFICES ASSUME KnInv PROVE KnowledgeSound
    OBVIOUS
  <2>0. "dispatcher" \in Ingesters
    BY DEF Ingesters
  <2>1. RecordMatchesDocument
    BY DEF KnInv, KnAlone, RecordMatchesDocument
  <2>2. LatestIngested
    <3>1. ASSUME NEW s \in Closed, Settled(s), s \notin raced, doc[s] < closedAt[s] PROVE failed[s] > 0
      <4>1. closings[s] = 0 /\ ingest["dispatcher"].s # s
        BY <2>0, <3>1 DEF Settled
      <4>2. doc[s] \in Int /\ closedAt[s] \in Int
        BY KnParts DEF KnInv, KnTyped
      <4>3. closings[s] > 0 \/ failed[s] > 0 \/ doc[s] >= closedAt[s]
        BY <3>1, <4>1 DEF KnInv, KnLatest
      <4> QED
        BY <3>1, <4>1, <4>2, <4>3
    <3> QED
      BY <3>1 DEF LatestIngested
  <2>3. VectorsFollow
    BY DEF KnInv, KnVectors, VectorsFollow, Settled
  <2>4. QED
    BY <2>1, <2>2, <2>3, SearchHolds DEF KnInv, IngestSound, KnowledgeSound
<1>3. QED
  BY <1>1, <1>2, KnStep, PTL DEF KnowledgeSpec

=============================================================================
