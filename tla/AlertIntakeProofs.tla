------------------------- MODULE AlertIntakeProofs --------------------------
(***************************************************************************)
(* Proofs about AlertIntake for any alerts, payloads and number of         *)
(* concurrent requests, faults and expiries.                               *)
(***************************************************************************)
EXTENDS AlertIntake, TLAPS

-----------------------------------------------------------------------------
(* The inductive invariant.                                                *)

\* The transaction that writes an alert's session owns the alert's key.
Owned ==
    \A r \in Requests : pc[r] \in {"lookup", "repeat", "create"} => owner[alert(r)] = r

\* An alert that has a key or has opened a session is known by its fingerprint.
Known ==
    \A a \in Alerts : NameOf[a] # Anonymous /\ (key[a] # "absent" \/ created[a] > 0)
        => sessions[NameOf[a]] > 0

\* Who is about to open a session is the first to do so for its alert.
First ==
    /\ \A r \in Requests : pc[r] = "create" /\ NameOf[alert(r)] # Anonymous => created[alert(r)] = 0
    /\ \A r \in Requests : pc[r] = "repeat" => sessions[fp(r)] > 0

\* The alerts a request has dealt with have their sessions.
Handled ==
    \A r \in Requests : pc[r] # "idle" =>
        \A i \in 1..Len(payload[r]) :
            i < at[r] \/ pc[r] = "accepted" => sessions[fingerprint(payload[r][i], i)] > 0

IInv == TypeOK /\ Owned /\ Known /\ First /\ Handled /\ OneSessionPerAlert

-----------------------------------------------------------------------------
(* What the names stand for is well typed.                                 *)
LEMMA AlertType ==
    ASSUME TypeOK, NEW r \in Requests, pc[r] # "idle"
    PROVE  /\ alert(r) \in Alerts
           /\ fp(r) \in Fingerprints
           /\ \A i \in 1..Len(payload[r]) : /\ payload[r][i] \in Alerts
                                            /\ fingerprint(payload[r][i], i) \in Fingerprints
           /\ payload[r] \in Seq(Alerts) /\ Len(payload[r]) \in 1..MaxLen /\ at[r] \in 1..Len(payload[r])
<1>1. payload[r] \in Seq(Alerts) /\ Len(payload[r]) \in 1..MaxLen /\ at[r] \in 1..Len(payload[r])
  BY IntakeAssumption DEF TypeOK
<1>2. \A i \in 1..Len(payload[r]) : payload[r][i] \in Alerts /\ i \in 1..MaxLen
  BY <1>1, IntakeAssumption
<1>3. \A i \in 1..Len(payload[r]) : fingerprint(payload[r][i], i) \in Fingerprints
  BY <1>2, IntakeAssumption DEF fingerprint, Fingerprints
<1>4. QED
  BY <1>1, <1>2, <1>3 DEF alert, fp

(* Every step keeps the types.                                             *)
LEMMA TypeStep == TypeOK /\ [Next]_vars => TypeOK'
<1>. SUFFICES ASSUME TypeOK, [Next]_vars PROVE TypeOK'
  OBVIOUS
<1>. USE IntakeAssumption DEF TypeOK, InTx, db
<1>1. ASSUME NEW r \in Requests, NEW p \in Payloads, Receive(r, p) PROVE TypeOK'
  BY <1>1 DEF Receive
<1>2. ASSUME NEW r \in Requests, Retry(r) PROVE TypeOK'
  BY <1>2 DEF Retry
<1>3. ASSUME NEW r \in Requests, HandleAlertEvent(r) PROVE TypeOK'
  <2>0. pc[r] \in InTx
    BY <1>3 DEF HandleAlertEvent, InsertKey, ReadHash, FindDuplicate, LookupSession, CommitRepeat, CommitCreate
  <2>1. /\ alert(r) \in Alerts /\ fp(r) \in Fingerprints
        /\ Len(payload[r]) \in Nat /\ at[r] \in 1..Len(payload[r])
    BY <2>0, AlertType
  <2>2. CASE InsertKey(r)
    BY <2>1, <2>2 DEF InsertKey
  <2>3. CASE ReadHash(r)
    BY <2>1, <2>3 DEF ReadHash
  <2>4. CASE FindDuplicate(r)
    <3>1. CASE sessions[fp(r)] > 0
      <4>1. Advance(r) /\ UNCHANGED <<db, payload, faults>>
        BY <2>4, <3>1 DEF FindDuplicate
      <4>2. QED
        BY <2>1, <4>1 DEF Advance
    <3>2. CASE ~(sessions[fp(r)] > 0)
      BY <2>1, <2>4, <3>2 DEF FindDuplicate
    <3>3. QED
      BY <3>1, <3>2
  <2>5. CASE LookupSession(r)
    BY <2>1, <2>5 DEF LookupSession
  <2>6. CASE CommitRepeat(r)
    BY <2>1, <2>6 DEF CommitRepeat, CommitKey, Advance
  <2>7. CASE CommitCreate(r)
    BY <2>1, <2>7 DEF CommitCreate, CommitKey, Advance
  <2>8. QED
    BY <1>3, <2>2, <2>3, <2>4, <2>5, <2>6, <2>7 DEF HandleAlertEvent
<1>4. ASSUME NEW r \in Requests, Fail(r) PROVE TypeOK'
  BY <1>4 DEF Fail, Rollback
<1>5. CASE Crash
  BY <1>5 DEF Crash, Rollback
<1>6. ASSUME NEW a \in Alerts, Expire(a) PROVE TypeOK'
  BY <1>6 DEF Expire
<1>7. CASE DeleteExpiredIdempotencyKeys
  BY <1>7 DEF DeleteExpiredIdempotencyKeys
<1>8. CASE UNCHANGED vars
  BY <1>8 DEF vars
<1>9. QED
  BY <1>1, <1>2, <1>3, <1>4, <1>5, <1>6, <1>7, <1>8 DEF Next

-----------------------------------------------------------------------------
(* The five parts, step by step.                                           *)
LEMMA InvStep == IInv /\ [Next]_vars => IInv'
<1>. SUFFICES ASSUME IInv, [Next]_vars PROVE IInv'
  OBVIOUS
<1>0. TypeOK /\ TypeOK'
  BY TypeStep DEF IInv
<1>. DEFINE Rest == Owned /\ Known /\ First /\ Handled /\ OneSessionPerAlert
<1>. USE DEF IInv, Owned, Known, First, Handled, OneSessionPerAlert, alert, fp
<1>1. ASSUME NEW r \in Requests, NEW p \in Payloads, Receive(r, p) PROVE Rest'
  BY <1>0, <1>1, IntakeAssumption DEF Receive, db, TypeOK
<1>2. ASSUME NEW r \in Requests, Retry(r) PROVE Rest'
  BY <1>0, <1>2, IntakeAssumption DEF Retry, db, TypeOK
<1>3. ASSUME NEW r \in Requests, HandleAlertEvent(r) PROVE Rest'
  <2>. DEFINE a == payload[r][at[r]]
              f == fingerprint(a, at[r])
  <2>0. pc[r] \in InTx
    BY <1>3 DEF HandleAlertEvent, InsertKey, ReadHash, FindDuplicate, LookupSession, CommitRepeat, CommitCreate, InTx
  <2>1. /\ a \in Alerts /\ f \in Fingerprints
        /\ Len(payload[r]) \in Nat /\ at[r] \in 1..Len(payload[r])
    BY <1>0, <2>0, AlertType DEF InTx
  <2>2. \A q \in Requests : pc[q] # "idle" => payload[q][at[q]] \in Alerts
    BY <1>0, AlertType
  <2>3. CASE InsertKey(r)
    <3>1. \A q \in Requests : pc[q] \in {"lookup", "repeat", "create"} => q # r /\ payload[q][at[q]] # a
      BY <2>3, IntakeAssumption DEF InsertKey
    <3>2. pc'[r] \in {"lookup", "hash"} /\ (pc'[r] = "lookup" => owner' = [owner EXCEPT ![a] = r])
          /\ (pc'[r] = "hash" => owner' = owner)
      BY <1>0, <2>3 DEF InsertKey, TypeOK
    <3>3. UNCHANGED <<key, sessions, created, payload, at>>
          /\ \A q \in Requests : q # r => pc'[q] = pc[q]
      BY <1>0, <2>3 DEF InsertKey, TypeOK
    <3>4. Owned'
      BY <1>0, <2>1, <2>2, <3>1, <3>2, <3>3 DEF TypeOK
    <3>5. Known' /\ First' /\ OneSessionPerAlert'
      BY <3>2, <3>3
    <3>6. Handled'
      BY <2>0, <3>2, <3>3 DEF InTx
    <3>7. QED
      BY <3>4, <3>5, <3>6
  <2>4. CASE ReadHash(r)
    BY <1>0, <2>1, <2>4 DEF ReadHash, db, TypeOK
  <2>5. CASE FindDuplicate(r)
    <3>1. CASE f \in Fingerprints /\ ~(sessions[f] > 0)
      BY <1>0, <2>1, <2>5, <3>1 DEF FindDuplicate, db, TypeOK
    <3>2. CASE sessions[f] > 0
      <4>1. Advance(r) /\ UNCHANGED <<db, payload>>
        BY <2>5, <3>2 DEF FindDuplicate
      <4>2. Owned' /\ Known' /\ First' /\ OneSessionPerAlert'
        BY <1>0, <2>1, <4>1 DEF Advance, db, TypeOK
      <4>3. Handled'
        <5>. SUFFICES ASSUME NEW q \in Requests, pc'[q] # "idle", NEW i \in 1..Len(payload'[q]),
                             i < at'[q] \/ pc'[q] = "accepted"
                      PROVE  sessions'[fingerprint(payload'[q][i], i)] > 0
          OBVIOUS
        <5>1. payload' = payload /\ sessions' = sessions
          BY <4>1 DEF db
        <5>2. CASE q = r
          <6>1. i < at[r] \/ i = at[r]
            BY <1>0, <2>1, <4>1, <5>1, <5>2 DEF Advance, TypeOK
          <6>2. pc[r] # "idle"
            BY <2>0 DEF InTx
          <6>3. QED
            BY <3>2, <5>1, <5>2, <6>1, <6>2
        <5>3. CASE q # r
          BY <1>0, <4>1, <5>1, <5>3 DEF Advance, TypeOK
        <5>4. QED
          BY <5>2, <5>3
      <4>4. QED
        BY <4>2, <4>3
    <3>3. QED
      BY <2>1, <3>1, <3>2
  <2>6. CASE LookupSession(r)
    <3>1. NameOf[a] # Anonymous => f = NameOf[a]
      BY DEF fingerprint
    <3>2. created[a] \in Nat
      BY <1>0, <2>1 DEF TypeOK
    <3>3. First'
      BY <1>0, <2>1, <2>6, <3>1, <3>2 DEF LookupSession, db, TypeOK
    <3>4. QED
      BY <1>0, <2>1, <2>6, <3>3 DEF LookupSession, db, TypeOK
  <2>7. CASE CommitRepeat(r)
    <3>1. NameOf[a] # Anonymous => sessions[NameOf[a]] > 0
      BY <2>7 DEF CommitRepeat, fingerprint
    <3>2. Owned'
      BY <1>0, <2>1, <2>2, <2>7 DEF CommitRepeat, CommitKey, Advance, TypeOK
    <3>3. Known'
      BY <1>0, <2>1, <2>7, <3>1 DEF CommitRepeat, CommitKey, TypeOK
    <3>4. First' /\ OneSessionPerAlert'
      BY <1>0, <2>1, <2>7 DEF CommitRepeat, Advance, TypeOK
    <3>5. Handled'
      <4>. SUFFICES ASSUME NEW q \in Requests, pc'[q] # "idle", NEW i \in 1..Len(payload'[q]),
                           i < at'[q] \/ pc'[q] = "accepted"
                    PROVE  sessions'[fingerprint(payload'[q][i], i)] > 0
        OBVIOUS
      <4>1. payload' = payload /\ sessions' = sessions /\ pc[q] # "idle"
        BY <1>0, <2>7 DEF CommitRepeat, Advance, db, TypeOK
      <4>2. CASE q = r /\ i = at[r]
        BY <2>7, <4>1, <4>2 DEF CommitRepeat
      <4>3. CASE ~(q = r /\ i = at[r])
        <5>1. i < at[q] \/ pc[q] = "accepted"
          BY <1>0, <2>1, <2>7, <4>1, <4>3 DEF CommitRepeat, Advance, TypeOK
        <5>2. QED
          BY <4>1, <5>1
      <4>4. QED
        BY <4>2, <4>3
    <3>6. QED
      BY <3>2, <3>3, <3>4, <3>5
  <2>8. CASE CommitCreate(r)
    <3>1. \A g \in Fingerprints : sessions'[g] \in Nat /\ sessions'[g] >= sessions[g] /\ sessions[g] \in Nat
      BY <1>0, <2>1, <2>8 DEF CommitCreate, TypeOK
    <3>2. sessions'[f] > 0 /\ created' = [created EXCEPT ![a] = @ + 1]
      BY <1>0, <2>1, <2>8 DEF CommitCreate, TypeOK
    <3>3. \A q \in Requests : q # r /\ pc[q] \in {"lookup", "repeat", "create"} => payload[q][at[q]] # a
      BY <2>8 DEF CommitCreate
    <3>4. Owned'
      BY <1>0, <2>1, <2>2, <2>8 DEF CommitCreate, CommitKey, Advance, TypeOK
    <3>5. Known'
      <4>. SUFFICES ASSUME NEW b \in Alerts, NameOf[b] # Anonymous, key'[b] # "absent" \/ created'[b] > 0
                    PROVE  sessions'[NameOf[b]] > 0
        OBVIOUS
      <4>1. CASE b = a
        BY <3>2, <4>1 DEF fingerprint
      <4>2. CASE b # a
        <5>1. key[b] # "absent" \/ created[b] > 0
          BY <1>0, <2>1, <2>8, <3>2, <4>2 DEF CommitCreate, CommitKey, TypeOK
        <5>2. sessions[NameOf[b]] > 0 /\ NameOf[b] \in Fingerprints
          BY <5>1, IntakeAssumption DEF Fingerprints
        <5>3. QED
          BY <3>1, <5>2
      <4>3. QED
        BY <4>1, <4>2
    <3>6. First'
      <4>1. \A q \in Requests : q # r => pc'[q] = pc[q] /\ payload'[q] = payload[q] /\ at'[q] = at[q]
        BY <1>0, <2>8 DEF CommitCreate, Advance, TypeOK
      <4>2. pc'[r] \notin {"create", "repeat"}
        BY <1>0, <2>8 DEF CommitCreate, Advance, TypeOK
      <4>3. \A q \in Requests : q # r /\ pc[q] = "create" => created'[payload[q][at[q]]] = created[payload[q][at[q]]]
        BY <1>0, <2>1, <2>2, <3>2, <3>3 DEF TypeOK
      <4>4. \A q \in Requests : pc[q] # "idle" => fingerprint(payload[q][at[q]], at[q]) \in Fingerprints
        BY <1>0, AlertType
      <4>5. QED
        BY <3>1, <4>1, <4>2, <4>3, <4>4
    <3>7. OneSessionPerAlert'
      BY <1>0, <2>1, <2>8, <3>2 DEF CommitCreate, TypeOK
    <3>8. Handled'
      <4>. SUFFICES ASSUME NEW q \in Requests, pc'[q] # "idle", NEW i \in 1..Len(payload'[q]),
                           i < at'[q] \/ pc'[q] = "accepted"
                    PROVE  sessions'[fingerprint(payload'[q][i], i)] > 0
        OBVIOUS
      <4>1. payload' = payload /\ pc[q] # "idle"
        BY <1>0, <2>8 DEF CommitCreate, Advance, TypeOK
      <4>2. fingerprint(payload[q][i], i) \in Fingerprints
        BY <1>0, <4>1, AlertType
      <4>3. CASE q = r /\ i = at[r]
        BY <3>2, <4>1, <4>3
      <4>4. CASE ~(q = r /\ i = at[r])
        <5>1. i < at[q] \/ pc[q] = "accepted"
          BY <1>0, <2>1, <2>8, <4>1, <4>4 DEF CommitCreate, Advance, TypeOK
        <5>2. QED
          BY <3>1, <4>1, <4>2, <5>1
      <4>5. QED
        BY <4>3, <4>4
    <3>9. QED
      BY <3>4, <3>5, <3>6, <3>7, <3>8
  <2>9. QED
    BY <1>3, <2>3, <2>4, <2>5, <2>6, <2>7, <2>8 DEF HandleAlertEvent
<1>4. ASSUME NEW r \in Requests, Fail(r) PROVE Rest'
  BY <1>0, <1>4, IntakeAssumption DEF Fail, Rollback, InTx, TypeOK
<1>5. ASSUME Crash PROVE Rest'
  BY <1>0, <1>5, IntakeAssumption DEF Crash, Rollback, InTx, TypeOK
<1>6. ASSUME NEW a \in Alerts, Expire(a) PROVE Rest'
  BY <1>0, <1>6, IntakeAssumption DEF Expire, TypeOK
<1>7. ASSUME DeleteExpiredIdempotencyKeys PROVE Rest'
  BY <1>0, <1>7, IntakeAssumption DEF DeleteExpiredIdempotencyKeys, TypeOK
<1>8. ASSUME UNCHANGED vars PROVE Rest'
  BY <1>8 DEF vars, db
<1>. HIDE DEF Rest, IInv
<1>9. Rest'
  BY <1>1, <1>2, <1>3, <1>4, <1>5, <1>6, <1>7, <1>8 DEF Next
<1>10. QED
  BY <1>0, <1>9 DEF IInv, Rest

LEMMA InvInit == Init => IInv
<1>. SUFFICES ASSUME Init PROVE IInv
  OBVIOUS
<1>1. TypeOK
  BY IntakeAssumption DEF Init, TypeOK, InTx
<1>2. QED
  BY <1>1, IntakeAssumption DEF Init, IInv, Owned, Known, First, Handled, OneSessionPerAlert

(* The invariant holds in every reachable state.                           *)
THEOREM Invariance == Spec => []IInv
  BY InvInit, InvStep, PTL DEF Spec

(* Every reachable state is well typed, and a request that is not idle is at *)
(* one of its payload's alerts.                                              *)
THEOREM TypeCorrect == Spec => []TypeOK
<1>1. IInv => TypeOK
  BY DEF IInv
<1>2. QED
  BY Invariance, <1>1, PTL

(* An alert never opens two sessions, however often and however concurrently *)
(* the webhook delivers it.                                                  *)
THEOREM NoSecondSession == Spec => []OneSessionPerAlert
<1>1. IInv => OneSessionPerAlert
  BY DEF IInv
<1>2. QED
  BY Invariance, <1>1, PTL

(* A webhook answered with 200 has a session for each of its alerts.       *)
THEOREM AcceptedKept == Spec => []AcceptedHasSession
<1>1. IInv => AcceptedHasSession
  BY DEF IInv, Handled, AcceptedHasSession
<1>2. QED
  BY Invariance, <1>1, PTL

(* Exactly one session for every named alert that was accepted. *)
THEOREM IntakeCorrect == Spec => []IntakeSound
  BY TypeCorrect, NoSecondSession, AcceptedKept, PTL DEF IntakeSound
=============================================================================
