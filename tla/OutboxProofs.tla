---------------------------- MODULE OutboxProofs ----------------------------
(***************************************************************************)
(* Theorems about the outbox, for any number of rows and dispatchers and   *)
(* whatever the bounds: its type invariant, that no row is stranded in     *)
(* processing, and that every duplicate delivery has an explanation.       *)
(***************************************************************************)
EXTENDS Outbox, FiniteSetTheorems, TLAPS

(* Type correctness of every step.                                         *)
LEMMA TypeStep == TypeOK /\ [Next]_vars => TypeOK'
<1> SUFFICES ASSUME TypeOK, [Next]_vars
             PROVE  TypeOK'
  OBVIOUS
<1> USE OutboxAssumption
<1>1. CASE UNCHANGED vars
  BY <1>1 DEF vars, rows, procs, TypeOK
<1>2. ASSUME NEW e \in Events, EventStep(e)
      PROVE  TypeOK'
  <2>1. CASE PublishEvent(e)
    BY <2>1 DEF PublishEvent, procs, TypeOK, Statuses
  <2>2. CASE ReplayOutbox(e)
    BY <2>2 DEF ReplayOutbox, procs, TypeOK, Statuses
  <2>3. CASE DeleteOutbox(e)
    BY <2>3 DEF DeleteOutbox, procs, TypeOK, Statuses
  <2>4. CASE BecomeAvailable(e)
    BY <2>4 DEF BecomeAvailable, procs, TypeOK
  <2> QED
    BY <1>2, <2>1, <2>2, <2>3, <2>4 DEF EventStep
<1>3. ASSUME NEW d \in Dispatchers, NEW e \in Events, ItemStep(d, e)
      PROVE  TypeOK'
  <2>1. CASE DispatchOk(d, e)
    BY <2>1 DEF DispatchOk, rows, TypeOK, Decisions
  <2>2. CASE DispatchError(d, e)
    BY <2>2 DEF DispatchError, rows, TypeOK, Decisions, Decide
  <2>3. CASE ResolveEvent(d, e)
    <3>1. Resolution(verdict[d][e]) \in Statuses
      BY DEF Resolution, Statuses
    <3>2. status' \in [Events -> Statuses] /\ retry' \in [Events -> Nat]
      BY <2>3, <3>1 DEF ResolveEvent, TypeOK
    <3>3. delayed' \in [Events -> BOOLEAN]
      BY <2>3 DEF ResolveEvent, TypeOK
    <3>4. /\ verdict' \in [Dispatchers -> [Events -> Decisions \cup {"none", "claimed"}]]
          /\ attempt' \in [Dispatchers -> [Events -> Nat]]
      BY <2>3 DEF ResolveEvent, Release, TypeOK
    <3> QED
      BY <2>3, <3>2, <3>3, <3>4 DEF ResolveEvent, TypeOK
  <2>4. CASE ResolveFails(d, e)
    BY <2>4 DEF ResolveFails, Release, rows, TypeOK, Decisions
  <2> QED
    BY <1>3, <2>1, <2>2, <2>3, <2>4 DEF ItemStep
<1>4. ASSUME NEW d \in Dispatchers, ProcessStep(d)
      PROVE  TypeOK'
  <2>1. CASE ClaimEvents(d)
    BY <2>1 DEF ClaimEvents, TypeOK, Decisions, Statuses
  <2>2. CASE Crash(d)
    BY <2>2 DEF Crash, rows, TypeOK, Decisions
  <2>3. CASE Start(d)
    BY <2>3 DEF Start, TypeOK, Statuses
  <2>4. CASE StartUnrecovered(d)
    BY <2>4 DEF StartUnrecovered, rows, TypeOK
  <2> QED
    BY <1>4, <2>1, <2>2, <2>3, <2>4 DEF ProcessStep
<1> QED
  BY <1>1, <1>2, <1>3, <1>4 DEF Next

LEMMA TypeInit == Init => TypeOK
  BY OutboxAssumption DEF Init, TypeOK, Statuses

(* The outbox's state is always well typed: no decision outside the three   *)
(* the store understands, no status outside the column's enumeration.      *)
THEOREM TypeCorrect == Spec => []TypeOK
  BY TypeInit, TypeStep, PTL DEF Spec

-----------------------------------------------------------------------------
(* No stranded row.  NoStrandedEvent is inductive as it stands.            *)
LEMMA StrandedStep == TypeOK /\ NoStrandedEvent /\ [Next]_vars => NoStrandedEvent'
<1> SUFFICES ASSUME TypeOK, NoStrandedEvent, [Next]_vars,
                    NEW x \in Events, status'[x] = "processing"
             PROVE  \/ \E d \in Dispatchers : verdict'[d][x] # "none"
                    \/ \E d \in Dispatchers : ~up'[d]
                    \/ faults' > 0
  BY DEF NoStrandedEvent
<1> USE DEF TypeOK, NoStrandedEvent
<1>1. CASE UNCHANGED vars
  BY <1>1 DEF vars, rows, procs
<1>2. ASSUME NEW e \in Events, EventStep(e)
      PROVE  \/ \E d \in Dispatchers : verdict'[d][x] # "none"
             \/ \E d \in Dispatchers : ~up'[d]
             \/ faults' > 0
  <2>1. status[x] = "processing"
    BY <1>2 DEF EventStep, PublishEvent, ReplayOutbox, DeleteOutbox, BecomeAvailable
  <2>2. UNCHANGED <<verdict, up, faults>>
    BY <1>2 DEF EventStep, PublishEvent, ReplayOutbox, DeleteOutbox, BecomeAvailable, procs
  <2> QED
    BY <2>1, <2>2
<1>3. ASSUME NEW d \in Dispatchers, NEW e \in Events, ItemStep(d, e)
      PROVE  \/ \E c \in Dispatchers : verdict'[c][x] # "none"
             \/ \E c \in Dispatchers : ~up'[c]
             \/ faults' > 0
  <2>1. CASE DispatchOk(d, e)
    BY <2>1 DEF DispatchOk, rows
  <2>2. CASE DispatchError(d, e)
    BY <2>2 DEF DispatchError, rows, Decide
  <2>3. CASE ResolveEvent(d, e)
    <3>1. CASE x = e
      BY <2>3, <3>1 DEF ResolveEvent, Resolution
    <3>2. CASE x # e
      <4>1. status[x] = "processing" /\ UNCHANGED <<up, faults>>
        BY <2>3, <3>2 DEF ResolveEvent
      <4>2. \A c \in Dispatchers : verdict'[c][x] = verdict[c][x]
        BY <2>3, <3>2 DEF ResolveEvent, Release
      <4> QED
        BY <4>1, <4>2
    <3> QED
      BY <3>1, <3>2
  <2>4. CASE ResolveFails(d, e)
    BY <2>4 DEF ResolveFails
  <2> QED
    BY <1>3, <2>1, <2>2, <2>3, <2>4 DEF ItemStep
<1>4. ASSUME NEW d \in Dispatchers, ProcessStep(d)
      PROVE  \/ \E c \in Dispatchers : verdict'[c][x] # "none"
             \/ \E c \in Dispatchers : ~up'[c]
             \/ faults' > 0
  <2>1. CASE ClaimEvents(d)
    <3>1. CASE status[x] = "processing"
      <4>1. UNCHANGED <<up, faults>>
        BY <2>1 DEF ClaimEvents
      <4>2. \A c \in Dispatchers : verdict[c][x] # "none" => verdict'[c][x] # "none"
        BY <2>1 DEF ClaimEvents, Idle
      <4> QED
        BY <3>1, <4>1, <4>2
    <3>2. CASE status[x] # "processing"
      BY <2>1, <3>2 DEF ClaimEvents
    <3> QED
      BY <3>1, <3>2
  <2>2. CASE Crash(d)
    BY <2>2 DEF Crash
  <2>3. CASE Start(d)
    BY <2>3 DEF Start
  <2>4. CASE StartUnrecovered(d)
    BY <2>4 DEF StartUnrecovered
  <2> QED
    BY <1>4, <2>1, <2>2, <2>3, <2>4 DEF ProcessStep
<1> QED
  BY <1>1, <1>2, <1>3, <1>4 DEF Next

(* A row in processing is held by a dispatcher, or one is down that will    *)
(* recover it, or the database refused a resolve or a recovery.            *)
THEOREM NothingStranded == Spec => []NoStrandedEvent
<1>1. Init => NoStrandedEvent
  BY DEF Init, NoStrandedEvent
<1> QED
  BY <1>1, StrandedStep, TypeCorrect, PTL DEF Spec

-----------------------------------------------------------------------------
(* Every duplicate delivery is explained.  DeliveriesExplained counts only  *)
(* what already happened; what can still happen is the dispatchers that     *)
(* hold the row and may yet deliver it or put it back, and the row itself   *)
(* while it is pending.  DeliveryInv counts those as well.                 *)

\* the dispatchers that may still deliver e or reschedule it
Open(e) == {d \in Dispatchers : verdict[d][e] \in {"claimed", "retry"}}

\* what has entered the queue: the insertion, the replays and the recoveries
Entries(e) == (IF status[e] = "none" THEN 0 ELSE 1) + requeued[e]

Waiting(e) == IF status[e] = "pending" THEN 1 ELSE 0

DeliveryInv == \A e \in Events : sent[e] + Cardinality(Open(e)) + Waiting(e) <= Entries(e)

LEMMA OpenFinite == \A e \in Events : IsFiniteSet(Open(e)) /\ Cardinality(Open(e)) \in Nat
  BY OutboxAssumption, FS_Subset, FS_CardinalityType DEF Open

(* How an action that leaves the row's counters alone, or moves one unit    *)
(* from one to another, changes the sum for one row x.                     *)
LEMMA DeliveryStep == TypeOK /\ DeliveryInv /\ [Next]_vars => DeliveryInv'
<1> SUFFICES ASSUME TypeOK, DeliveryInv, [Next]_vars, NEW x \in Events
             PROVE  (sent[x] + Cardinality(Open(x)) + Waiting(x) <= Entries(x))'
  BY DEF DeliveryInv
<1> DEFINE n == Cardinality(Open(x))
           m == Cardinality(Open(x)')
<1>1. n \in Nat /\ IsFiniteSet(Open(x))
  BY OpenFinite
<1>2. m \in Nat /\ IsFiniteSet(Open(x)')
  BY OutboxAssumption, FS_Subset, FS_CardinalityType DEF Open
<1>3. sent[x] + n + Waiting(x) <= Entries(x)
  BY DEF DeliveryInv
<1>4. Cardinality(Open(x))' = m
  BY DEF Open
<1>5. SUFFICES sent'[x] + m + Waiting(x)' <= Entries(x)'
  BY <1>4
<1> HIDE DEF n, m
<1>a. ASSUME UNCHANGED verdict
      PROVE  m = n
  BY <1>a DEF n, m, Open
<1>6. CASE UNCHANGED vars
  <2>1. m = n
    BY <1>6, <1>a DEF vars, procs
  <2> QED
    BY <1>6, <1>3, <2>1 DEF vars, rows, Waiting, Entries
<1>7. ASSUME NEW e \in Events, EventStep(e)
      PROVE  sent'[x] + m + Waiting(x)' <= Entries(x)'
  <2>1. m = n /\ sent' = sent
    BY <1>7, <1>a DEF EventStep, PublishEvent, ReplayOutbox, DeleteOutbox, BecomeAvailable, procs
  <2> USE <1>1, <1>3, <2>1 DEF TypeOK, Waiting, Entries
  <2>2. CASE PublishEvent(e)
    BY <2>2 DEF PublishEvent
  <2>3. CASE ReplayOutbox(e)
    BY <2>3 DEF ReplayOutbox
  <2>4. CASE DeleteOutbox(e)
    BY <2>4 DEF DeleteOutbox
  <2>5. CASE BecomeAvailable(e)
    BY <2>5 DEF BecomeAvailable
  <2> QED
    BY <1>7, <2>2, <2>3, <2>4, <2>5 DEF EventStep
<1>8. ASSUME NEW d \in Dispatchers, NEW e \in Events, ItemStep(d, e)
      PROVE  sent'[x] + m + Waiting(x)' <= Entries(x)'
  <2>1. CASE x # e
    <3>1. \A c \in Dispatchers : verdict'[c][x] = verdict[c][x]
      BY <1>8, <2>1 DEF ItemStep, DispatchOk, DispatchError, ResolveEvent, ResolveFails, Release, TypeOK
    <3>2. m = n
      BY <3>1 DEF n, m, Open
    <3>3. sent'[x] = sent[x] /\ status'[x] = status[x] /\ requeued'[x] = requeued[x]
      BY <1>8, <2>1 DEF ItemStep, DispatchOk, DispatchError, ResolveEvent, ResolveFails, TypeOK, rows
    <3> QED
      BY <1>3, <3>2, <3>3 DEF Waiting, Entries
  <2>2. CASE x = e
    <3>1. CASE DispatchOk(d, e)
      <4>1. d \in Open(x) /\ Open(x)' = Open(x) \ {d}
        BY <2>2, <3>1 DEF DispatchOk, Open, TypeOK
      <4>2. m = n - 1
        BY <1>1, <4>1, FS_RemoveElement DEF n, m
      <4> QED
        BY <1>1, <1>3, <2>2, <3>1, <4>2 DEF DispatchOk, rows, TypeOK, Waiting, Entries
    <3>2. CASE DispatchError(d, e)
      <4>1. Open(x)' \subseteq Open(x)
        BY <2>2, <3>2 DEF DispatchError, Open, TypeOK
      <4>2. m <= n
        BY <1>1, <4>1, FS_Subset DEF n, m
      <4> QED
        BY <1>1, <1>2, <1>3, <2>2, <3>2, <4>2 DEF DispatchError, rows, TypeOK, Waiting, Entries
    <3>3. CASE ResolveEvent(d, e) /\ verdict[d][e] = "retry"
      <4>1. d \in Open(x) /\ Open(x)' = Open(x) \ {d}
        BY <2>2, <3>3 DEF ResolveEvent, Release, Open, TypeOK
      <4>2. m = n - 1
        BY <1>1, <4>1, FS_RemoveElement DEF n, m
      <4> QED
        BY <1>1, <1>3, <2>2, <3>3, <4>2 DEF ResolveEvent, Resolution, TypeOK, Waiting, Entries
    <3>4. CASE ResolveEvent(d, e) /\ verdict[d][e] # "retry"
      <4>1. Open(x)' \subseteq Open(x)
        BY <2>2, <3>4 DEF ResolveEvent, Release, Open, TypeOK
      <4>2. m <= n
        BY <1>1, <4>1, FS_Subset DEF n, m
      <4> QED
        BY <1>1, <1>2, <1>3, <2>2, <3>4, <4>2 DEF ResolveEvent, Resolution, TypeOK, Waiting, Entries
    <3>5. CASE ResolveFails(d, e)
      <4>1. Open(x)' \subseteq Open(x)
        BY <2>2, <3>5 DEF ResolveFails, Release, Open, TypeOK
      <4>2. m <= n
        BY <1>1, <4>1, FS_Subset DEF n, m
      <4> QED
        BY <1>1, <1>2, <1>3, <2>2, <3>5, <4>2 DEF ResolveFails, rows, TypeOK, Waiting, Entries
    <3> QED
      BY <1>8, <3>1, <3>2, <3>3, <3>4, <3>5 DEF ItemStep
  <2> QED
    BY <2>1, <2>2
<1>9. ASSUME NEW d \in Dispatchers, ProcessStep(d)
      PROVE  sent'[x] + m + Waiting(x)' <= Entries(x)'
  <2>1. CASE ClaimEvents(d)
    <3>1. PICK S \in SUBSET Events :
             /\ S \subseteq Claimable
             /\ status' = [e \in Events |-> IF e \in S THEN "processing" ELSE status[e]]
             /\ verdict' = [verdict EXCEPT ![d] = [e \in Events |-> IF e \in S THEN "claimed" ELSE "none"]]
      BY <2>1 DEF ClaimEvents, OldestBatch
    <3>2. sent' = sent /\ requeued' = requeued
      BY <2>1 DEF ClaimEvents
    <3>3. d \notin Open(x)
      BY <2>1 DEF ClaimEvents, Idle, Open
    <3>4. CASE x \in S
      <4>1. Open(x)' = Open(x) \cup {d}
        BY <3>1, <3>3, <3>4 DEF Open, TypeOK
      <4>2. m = n + 1
        BY <1>1, <3>3, <4>1, FS_AddElement DEF n, m
      <4>3. status[x] = "pending" /\ status'[x] = "processing"
        BY <3>1, <3>4 DEF Claimable
      <4> QED
        BY <1>1, <1>3, <3>2, <4>2, <4>3 DEF TypeOK, Waiting, Entries
    <3>5. CASE x \notin S
      <4>1. Open(x)' = Open(x)
        BY <3>1, <3>3, <3>5 DEF Open, TypeOK
      <4>2. m = n /\ status'[x] = status[x]
        BY <3>1, <3>5, <4>1 DEF n, m
      <4> QED
        BY <1>3, <3>2, <4>2 DEF Waiting, Entries
    <3> QED
      BY <3>4, <3>5
  <2>2. CASE Crash(d)
    <3>1. Open(x)' \subseteq Open(x)
      BY <2>2 DEF Crash, Open, TypeOK
    <3>2. m <= n
      BY <1>1, <3>1, FS_Subset DEF n, m
    <3> QED
      BY <1>1, <1>2, <1>3, <2>2, <3>2 DEF Crash, rows, TypeOK, Waiting, Entries
  <2>3. CASE Start(d)
    <3>1. m = n
      BY <2>3, <1>a DEF Start
    <3> QED
      BY <1>1, <1>3, <2>3, <3>1 DEF Start, TypeOK, Waiting, Entries
  <2>4. CASE StartUnrecovered(d)
    <3>1. m = n
      BY <2>4, <1>a DEF StartUnrecovered
    <3> QED
      BY <1>3, <2>4, <3>1 DEF StartUnrecovered, rows, Waiting, Entries
  <2> QED
    BY <1>9, <2>1, <2>2, <2>3, <2>4 DEF ProcessStep
<1> QED
  BY <1>6, <1>7, <1>8, <1>9 DEF Next

LEMMA DeliveryInit == Init => DeliveryInv
<1> SUFFICES ASSUME Init, NEW e \in Events
             PROVE  sent[e] + Cardinality(Open(e)) + Waiting(e) <= Entries(e)
  BY DEF DeliveryInv
<1>1. Open(e) = {}
  BY DEF Init, Open
<1>2. Cardinality(Open(e)) = 0
  BY <1>1, FS_EmptySet
<1> QED
  BY <1>2 DEF Init, Waiting, Entries

(* A row is delivered at most once per insertion, replay and recovery,      *)
(* whatever the dispatchers, the retries and the crashes do.               *)
THEOREM DuplicatesExplained == Spec => []DeliveriesExplained
<1>1. TypeOK /\ DeliveryInv => DeliveriesExplained
  <2> SUFFICES ASSUME TypeOK, DeliveryInv, NEW e \in Events
               PROVE  sent[e] <= 1 + requeued[e]
    BY DEF DeliveriesExplained
  <2>1. Cardinality(Open(e)) \in Nat
    BY OpenFinite
  <2> QED
    BY <2>1 DEF DeliveryInv, TypeOK, Waiting, Entries
<1>2. Spec => []DeliveryInv
  BY DeliveryInit, DeliveryStep, TypeCorrect, PTL DEF Spec
<1> QED
  BY <1>1, <1>2, TypeCorrect, PTL

(* Both guarantees of the outbox together: nothing is lost, nothing is
   delivered twice without a recovery or a replay. *)
THEOREM OutboxCorrect == Spec => []OutboxSound
  BY TypeCorrect, NothingStranded, DuplicatesExplained, PTL DEF OutboxSound
-----------------------------------------------------------------------------
(* A row marked done has been delivered: whoever records done holds an      *)
(* acknowledgement, and an acknowledgement is only given for a delivery.   *)
AckMeansSent == \A d \in Dispatchers, e \in Events : verdict[d][e] = "ack" => sent[e] > 0

LEMMA DoneStep ==
    TypeOK /\ DoneMeansSent /\ AckMeansSent /\ [Next]_vars => DoneMeansSent' /\ AckMeansSent'
<1> SUFFICES ASSUME TypeOK, DoneMeansSent, AckMeansSent, [Next]_vars
             PROVE  DoneMeansSent' /\ AckMeansSent'
  OBVIOUS
<1> USE DEF TypeOK, DoneMeansSent, AckMeansSent
<1>1. CASE UNCHANGED vars
  BY <1>1 DEF vars, rows, procs
<1>2. ASSUME NEW e \in Events, EventStep(e)
      PROVE  DoneMeansSent' /\ AckMeansSent'
  BY <1>2 DEF EventStep, PublishEvent, ReplayOutbox, DeleteOutbox, BecomeAvailable, procs
<1>3. ASSUME NEW d \in Dispatchers, NEW e \in Events, ItemStep(d, e)
      PROVE  DoneMeansSent' /\ AckMeansSent'
  <2>1. CASE DispatchOk(d, e)
    BY <2>1 DEF DispatchOk, rows
  <2>2. CASE DispatchError(d, e)
    BY <2>2 DEF DispatchError, rows, Decide
  <2>3. CASE ResolveEvent(d, e)
    <3>1. sent' = sent
      BY <2>3 DEF ResolveEvent
    <3>2. \A x \in Events : status'[x] = "done" => status[x] = "done" \/ verdict[d][x] = "ack"
      BY <2>3 DEF ResolveEvent, Resolution
    <3>3. \A c \in Dispatchers, x \in Events : verdict'[c][x] \in {verdict[c][x], "none"}
      BY <2>3 DEF ResolveEvent, Release
    <3> QED
      BY <3>1, <3>2, <3>3
  <2>4. CASE ResolveFails(d, e)
    BY <2>4 DEF ResolveFails, Release, rows
  <2> QED
    BY <1>3, <2>1, <2>2, <2>3, <2>4 DEF ItemStep
<1>4. ASSUME NEW d \in Dispatchers, ProcessStep(d)
      PROVE  DoneMeansSent' /\ AckMeansSent'
  <2>1. CASE ClaimEvents(d)
    BY <2>1 DEF ClaimEvents
  <2>2. CASE Crash(d)
    BY <2>2 DEF Crash, rows
  <2>3. CASE Start(d)
    BY <2>3 DEF Start
  <2>4. CASE StartUnrecovered(d)
    BY <2>4 DEF StartUnrecovered, rows
  <2> QED
    BY <1>4, <2>1, <2>2, <2>3, <2>4 DEF ProcessStep
<1> QED
  BY <1>1, <1>2, <1>3, <1>4 DEF Next

(* ResolveEvent writes done only over a delivery, whatever other            *)
(* dispatchers, replays and recoveries did to the row in between.          *)
THEOREM DoneCorrect == Spec => []DoneMeansSent
<1>1. Init => DoneMeansSent /\ AckMeansSent
  BY DEF Init, DoneMeansSent, AckMeansSent
<1> QED
  BY <1>1, DoneStep, TypeCorrect, PTL DEF Spec

-----------------------------------------------------------------------------
(* One dispatcher.  Deployments run one; then only its own steps, the       *)
(* operator and its restarts touch a row, and the policy's bound holds.    *)
SingleDispatcher == \E d : Dispatchers = {d}

\* a held row is still queued, and a process that is down holds nothing
HeldIsQueued ==
    \A d \in Dispatchers, e \in Events :
        verdict[d][e] # "none" => up[d] /\ status[e] \in {"processing", "pending"}

\* what the row's holder may still add: the attempt of a claimed row
Due(v) == IF v = "claimed" THEN 1 ELSE 0

\* and the attempt that a decision to retry will queue
Coming(v) == IF v \in {"claimed", "retry"} THEN 1 ELSE 0

Attempts(e) == sent[e] + fails[e]

(* The attempts made, the one the row is queued for and the one its holder  *)
(* will make stay within the policy, because the attempt number of a claim  *)
(* keeps up with them and Decide compares that number with the policy.      *)
WithinPolicy(d, e) ==
    /\ status[e] = "none" => Attempts(e) = 0
    /\ Attempts(e) + Waiting(e) + Coming(verdict[d][e]) <= MaxAttempts(topic[e]) + requeued[e]
    /\ verdict[d][e] = "none" => Attempts(e) + Waiting(e) <= retry[e] + requeued[e] + 1
    /\ verdict[d][e] # "none" =>
           /\ attempt[d][e] <= retry[e] + 1
           /\ Attempts(e) + Waiting(e) + Due(verdict[d][e]) <= attempt[d][e] + requeued[e]

AttemptInv == \A d \in Dispatchers, e \in Events : WithinPolicy(d, e)

LEMMA HeldStep ==
    ASSUME SingleDispatcher
    PROVE  TypeOK /\ HeldIsQueued /\ [Next]_vars => HeldIsQueued'
<1> SUFFICES ASSUME TypeOK, HeldIsQueued, [Next]_vars
             PROVE  HeldIsQueued'
  OBVIOUS
<1> USE DEF TypeOK, HeldIsQueued
<1>1. CASE UNCHANGED vars
  BY <1>1 DEF vars, rows, procs
<1>2. ASSUME NEW e \in Events, EventStep(e)
      PROVE  HeldIsQueued'
  BY <1>2 DEF EventStep, PublishEvent, ReplayOutbox, DeleteOutbox, BecomeAvailable, procs
<1>3. ASSUME NEW d \in Dispatchers, NEW e \in Events, ItemStep(d, e)
      PROVE  HeldIsQueued'
  <2>1. CASE DispatchOk(d, e)
    BY <2>1 DEF DispatchOk, rows
  <2>2. CASE DispatchError(d, e)
    BY <2>2 DEF DispatchError, rows
  <2>3. CASE ResolveEvent(d, e)
    <3>1. up' = up /\ \A x \in Events \ {e} : status'[x] = status[x]
      BY <2>3 DEF ResolveEvent
    <3>2. \A c \in Dispatchers : verdict'[c][e] = "none"
      BY <2>3 DEF ResolveEvent, Release, SingleDispatcher
    <3>3. \A c \in Dispatchers, x \in Events \ {e} : verdict'[c][x] = verdict[c][x]
      BY <2>3 DEF ResolveEvent, Release
    <3> QED
      BY <3>1, <3>2, <3>3
  <2>4. CASE ResolveFails(d, e)
    BY <2>4 DEF ResolveFails, Release, rows
  <2> QED
    BY <1>3, <2>1, <2>2, <2>3, <2>4 DEF ItemStep
<1>4. ASSUME NEW d \in Dispatchers, ProcessStep(d)
      PROVE  HeldIsQueued'
  <2>1. CASE ClaimEvents(d)
    <3>1. up' = up /\ up[d]
      BY <2>1 DEF ClaimEvents, Idle
    <3>2. \A c \in Dispatchers, x \in Events : verdict'[c][x] # "none" => c = d /\ status'[x] = "processing"
      BY <2>1 DEF ClaimEvents, SingleDispatcher
    <3> QED
      BY <3>1, <3>2
  <2>2. CASE Crash(d)
    BY <2>2 DEF Crash, rows, SingleDispatcher
  <2>3. CASE Start(d)
    BY <2>3 DEF Start
  <2>4. CASE StartUnrecovered(d)
    BY <2>4 DEF StartUnrecovered, rows
  <2> QED
    BY <1>4, <2>1, <2>2, <2>3, <2>4 DEF ProcessStep
<1> QED
  BY <1>1, <1>2, <1>3, <1>4 DEF Next

LEMMA AttemptStep ==
    ASSUME SingleDispatcher
    PROVE  TypeOK /\ HeldIsQueued /\ AttemptInv /\ [Next]_vars => AttemptInv'
<1> SUFFICES ASSUME TypeOK, HeldIsQueued, AttemptInv, [Next]_vars,
                    NEW d \in Dispatchers, NEW x \in Events
             PROVE  WithinPolicy(d, x)'
  BY DEF AttemptInv
<1>1. /\ WithinPolicy(d, x)
      /\ verdict[d][x] # "none" => up[d] /\ status[x] \in {"processing", "pending"}
  BY DEF AttemptInv, HeldIsQueued
<1>2. /\ retry[x] \in Nat /\ attempt[d][x] \in Nat /\ sent[x] \in Nat /\ fails[x] \in Nat
      /\ requeued[x] \in Nat /\ MaxAttempts(topic[x]) \in Nat \ {0}
      /\ verdict[d][x] \in Decisions \cup {"none", "claimed"} /\ status[x] \in Statuses
  BY DEF TypeOK, MaxAttempts
<1>3. \A c \in Dispatchers : c = d
  BY DEF SingleDispatcher
<1>4. topic' = topic
  BY DEF Next, EventStep, ItemStep, ProcessStep, PublishEvent, ReplayOutbox, DeleteOutbox,
         BecomeAvailable, DispatchOk, DispatchError, ResolveEvent, ResolveFails, ClaimEvents,
         Crash, Start, StartUnrecovered, vars, rows
<1> USE <1>1, <1>2, <1>4 DEF WithinPolicy, Attempts, Waiting, Coming, Due
\* a step that leaves the row and its holder alone
<1>5. ASSUME /\ status'[x] = status[x] /\ retry'[x] = retry[x] /\ requeued'[x] = requeued[x]
             /\ sent'[x] = sent[x] /\ fails'[x] = fails[x]
             /\ verdict'[d][x] = verdict[d][x] /\ attempt'[d][x] = attempt[d][x]
      PROVE  WithinPolicy(d, x)'
  BY <1>5
<1>6. CASE UNCHANGED vars
  BY <1>6, <1>5 DEF vars, rows, procs
<1>7. ASSUME NEW e \in Events, EventStep(e)
      PROVE  WithinPolicy(d, x)'
  <2>1. CASE x # e
    BY <1>7, <2>1, <1>5 DEF EventStep, PublishEvent, ReplayOutbox, DeleteOutbox, BecomeAvailable, procs, TypeOK
  <2>2. CASE x = e /\ PublishEvent(e)
    BY <2>2 DEF PublishEvent, procs, TypeOK
  <2>3. CASE x = e /\ ReplayOutbox(e)
    BY <2>3 DEF ReplayOutbox, procs, TypeOK
  <2>4. CASE x = e /\ DeleteOutbox(e)
    BY <2>4 DEF DeleteOutbox, procs, TypeOK
  <2>5. CASE x = e /\ BecomeAvailable(e)
    BY <2>5, <1>5 DEF BecomeAvailable, procs
  <2> QED
    BY <1>7, <2>1, <2>2, <2>3, <2>4, <2>5 DEF EventStep
<1>8. ASSUME NEW c \in Dispatchers, NEW e \in Events, ItemStep(c, e)
      PROVE  WithinPolicy(d, x)'
  <2>0. c = d
    BY <1>3
  <2>1. CASE x # e
    <3>1. status'[x] = status[x] /\ retry'[x] = retry[x] /\ requeued'[x] = requeued[x]
      BY <1>8, <2>1 DEF ItemStep, DispatchOk, DispatchError, ResolveEvent, ResolveFails, rows, TypeOK
    <3>2. sent'[x] = sent[x] /\ fails'[x] = fails[x]
      BY <1>8, <2>1 DEF ItemStep, DispatchOk, DispatchError, ResolveEvent, ResolveFails, TypeOK
    <3>3. verdict'[d][x] = verdict[d][x] /\ attempt'[d][x] = attempt[d][x]
      BY <1>8, <2>1 DEF ItemStep, DispatchOk, DispatchError, ResolveEvent, ResolveFails, Release, TypeOK
    <3> QED
      BY <1>5, <3>1, <3>2, <3>3
  <2>2. CASE x = e /\ DispatchOk(c, e)
    <3>1. verdict[d][x] = "claimed" /\ verdict'[d][x] = "ack" /\ sent'[x] = sent[x] + 1
      BY <2>0, <2>2 DEF DispatchOk, TypeOK
    <3>2. /\ status' = status /\ retry' = retry /\ requeued' = requeued
          /\ fails' = fails /\ attempt' = attempt
      BY <2>2 DEF DispatchOk, rows
    <3> QED
      BY <3>1, <3>2
  <2>3. CASE x = e /\ DispatchError(c, e)
    <3>1. /\ verdict[d][x] = "claimed" /\ fails'[x] = fails[x] + 1
          /\ verdict'[d][x] = Decide(topic[x], attempt[d][x])
      BY <2>0, <2>3 DEF DispatchError, TypeOK
    <3>2. /\ status' = status /\ retry' = retry /\ requeued' = requeued
          /\ sent' = sent /\ attempt' = attempt
      BY <2>3 DEF DispatchError, rows
    <3> QED
      BY <3>1, <3>2 DEF Decide
  <2>4. CASE x = e /\ ResolveEvent(c, e)
    <3>1. verdict[d][x] \in Decisions /\ verdict'[d][x] = "none"
      BY <2>0, <2>4 DEF ResolveEvent, Release, TypeOK
    <3>2. /\ status'[x] = Resolution(verdict[d][x])
          /\ retry'[x] = IF verdict[d][x] = "ack" THEN retry[x] ELSE retry[x] + 1
      BY <2>0, <2>4, <3>1 DEF ResolveEvent, Decisions, TypeOK
    <3>3. requeued' = requeued /\ sent' = sent /\ fails' = fails
      BY <2>4 DEF ResolveEvent
    <3> QED
      BY <3>1, <3>2, <3>3 DEF Resolution, Decisions
  <2>5. CASE x = e /\ ResolveFails(c, e)
    <3>1. verdict[d][x] \in Decisions /\ verdict'[d][x] = "none"
      BY <2>0, <2>5 DEF ResolveFails, Release, TypeOK
    <3>2. /\ status' = status /\ retry' = retry /\ requeued' = requeued
          /\ sent' = sent /\ fails' = fails
      BY <2>5 DEF ResolveFails, rows
    <3> QED
      BY <3>1, <3>2 DEF Decisions
  <2> QED
    BY <1>8, <2>1, <2>2, <2>3, <2>4, <2>5 DEF ItemStep
<1>9. ASSUME NEW c \in Dispatchers, ProcessStep(c)
      PROVE  WithinPolicy(d, x)'
  <2>0. c = d
    BY <1>3
  <2>1. CASE ClaimEvents(c)
    <3>1. verdict[d][x] = "none"
      BY <2>0, <2>1 DEF ClaimEvents, Idle
    <3>2. retry' = retry /\ requeued' = requeued /\ sent' = sent /\ fails' = fails
      BY <2>1 DEF ClaimEvents
    <3>3. \/ status[x] = "pending" /\ status'[x] = "processing" /\ verdict'[d][x] = "claimed"
             /\ attempt'[d][x] = retry[x] + 1
          \/ status'[x] = status[x] /\ verdict'[d][x] = "none" /\ attempt'[d][x] = 0
      BY <2>0, <2>1 DEF ClaimEvents, OldestBatch, Claimable, TypeOK
    <3> QED
      BY <3>1, <3>2, <3>3
  <2>2. CASE Crash(c)
    <3>1. verdict'[d][x] = "none"
      BY <2>0, <2>2 DEF Crash, TypeOK
    <3>2. /\ status' = status /\ retry' = retry /\ requeued' = requeued
          /\ sent' = sent /\ fails' = fails
      BY <2>2 DEF Crash, rows
    <3> QED
      BY <3>1, <3>2 DEF Decisions
  <2>3. CASE Start(c)
    <3>1. verdict[d][x] = "none" /\ verdict' = verdict
      BY <2>0, <2>3 DEF Start
    <3>2. retry' = retry /\ sent' = sent /\ fails' = fails
      BY <2>3 DEF Start
    <3>3. \/ /\ status[x] = "processing" /\ status'[x] = "pending"
             /\ requeued'[x] = requeued[x] + 1
          \/ status'[x] = status[x] /\ requeued'[x] = requeued[x]
      BY <2>3 DEF Start
    <3> QED
      BY <3>1, <3>2, <3>3
  <2>4. CASE StartUnrecovered(c)
    BY <2>4, <1>5 DEF StartUnrecovered, rows
  <2> QED
    BY <1>9, <2>1, <2>2, <2>3, <2>4 DEF ProcessStep
<1> QED
  BY <1>6, <1>7, <1>8, <1>9 DEF Next

LEMMA SingleInit == Init => HeldIsQueued /\ AttemptInv
  BY DEF Init, HeldIsQueued, AttemptInv, WithinPolicy, Attempts, Waiting, Coming, Due, MaxAttempts

(* With one dispatcher a row is attempted no more often than its policy     *)
(* allows plus once per replay and recovery: crashes and refused resolves   *)
(* cannot make ClaimEvents count an attempt short.                         *)
THEOREM AttemptsCorrect ==
    ASSUME SingleDispatcher
    PROVE  Spec => []AttemptsBounded
<1>1. TypeOK /\ AttemptInv => AttemptsBounded
  <2> SUFFICES ASSUME TypeOK, AttemptInv, NEW e \in Events
               PROVE  sent[e] + fails[e] <= MaxAttempts(topic[e]) + requeued[e]
    BY DEF AttemptsBounded
  <2> PICK d \in Dispatchers : TRUE
    BY DEF SingleDispatcher
  <2> QED
    BY DEF AttemptInv, WithinPolicy, Attempts, Waiting, Coming, MaxAttempts, TypeOK
<1>2. TypeOK /\ HeldIsQueued /\ AttemptInv /\ [Next]_vars => HeldIsQueued' /\ AttemptInv'
  BY HeldStep, AttemptStep
<1> QED
  BY <1>1, <1>2, SingleInit, TypeCorrect, PTL DEF Spec

(* With one dispatcher done and failed are final but for the operator: the  *)
(* only writer that ignores the row's status is ResolveEvent, and it holds  *)
(* nothing but rows that are still queued.                                 *)
THEOREM SettledCorrect ==
    ASSUME SingleDispatcher
    PROVE  Spec => SettledIsFinal
<1>1. TypeOK /\ HeldIsQueued /\ [Next]_vars =>
        \A e \in Events : status[e] \in Settled =>
            status'[e] = status[e] \/ ReplayOutbox(e) \/ DeleteOutbox(e)
  <2> SUFFICES ASSUME TypeOK, HeldIsQueued, [Next]_vars, NEW x \in Events, status[x] \in Settled
               PROVE  status'[x] = status[x] \/ ReplayOutbox(x) \/ DeleteOutbox(x)
    OBVIOUS
  <2> USE DEF TypeOK, Settled
  <2>1. CASE UNCHANGED vars
    BY <2>1 DEF vars, rows
  <2>2. ASSUME NEW e \in Events, EventStep(e)
        PROVE  status'[x] = status[x] \/ ReplayOutbox(x) \/ DeleteOutbox(x)
    <3>1. CASE x = e
      BY <2>2, <3>1 DEF EventStep, PublishEvent, BecomeAvailable
    <3>2. CASE x # e
      BY <2>2, <3>2 DEF EventStep, PublishEvent, ReplayOutbox, DeleteOutbox, BecomeAvailable
    <3> QED
      BY <3>1, <3>2
  <2>3. ASSUME NEW d \in Dispatchers, NEW e \in Events, ItemStep(d, e)
        PROVE  status'[x] = status[x]
    <3>1. verdict[d][x] = "none"
      BY DEF HeldIsQueued
    <3> QED
      BY <2>3, <3>1 DEF ItemStep, DispatchOk, DispatchError, ResolveEvent, ResolveFails, rows, Decisions
  <2>4. ASSUME NEW d \in Dispatchers, ProcessStep(d)
        PROVE  status'[x] = status[x]
    BY <2>4 DEF ProcessStep, ClaimEvents, OldestBatch, Claimable, Crash, Start, StartUnrecovered, rows
  <2> QED
    BY <2>1, <2>2, <2>3, <2>4 DEF Next
<1> QED
  BY <1>1, HeldStep, SingleInit, TypeCorrect, PTL DEF Spec, SettledIsFinal

=============================================================================
