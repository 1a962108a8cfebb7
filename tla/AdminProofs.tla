---------------------------- MODULE AdminProofs ----------------------------
(***************************************************************************)
(* Proofs about what administrators keep: logins, the directory, the       *)
(* configuration stores, the first-run wizard, the skill registry and its  *)
(* extension candidates, and the connectors, for any number of users,      *)
(* requests, tokens, editors, operators, edits, calls and crashes.         *)
(***************************************************************************)
EXTENDS Login, AccessRoles, ConfigStores, Extensions, Setup, Connectors,
        FiniteSetTheorems, NaturalsInduction, WellFoundedInduction, TLAPS

-----------------------------------------------------------------------------
(* Logins.  The inductive invariant.                                       *)

\* A flow with an owner is the one that was opened under its token, and what it
\* says was verified was shown.
Tracked(t, f) == /\ t \in drawn
                 /\ f.user # None => f.user = owner[t] /\ f.done \subseteq proved[t]

FlowsTracked == \A t \in Ids : pendingAuth[t] # None => Tracked(t, pendingAuth[t])

\* The copies requests work on are tracked as well, and a request that is about
\* to issue a session has every factor of its copy.
RequestOK(r) ==
    /\ r.pc \in {"challenge", "consume", "store", "issue", "finish"} => r.token \in drawn
    /\ r.pc \in {"consume", "store", "issue"} => r.flow.user # None /\ Tracked(r.token, r.flow)
    /\ r.pc = "open" => r.user # None /\ r.flow.user = r.user /\ r.flow.done = {}
    /\ r.pc = "create" => r.user # None
    /\ r.pc = "consume" => r.chal # None
    /\ r.pc = "store" /\ "challenge" \in r.flow.need => "challenge" \in r.flow.done
    /\ r.pc = "issue" => r.flow.need \subseteq r.flow.done

RequestsTracked == \A c \in Clients : RequestOK(req[c])

\* A session names a token that was drawn, so that no later flow gets it, and
\* was earned under that token.
SessionOK(s) == s.flow # None => /\ s.flow \in drawn
                                 /\ s.need \subseteq proved[s.flow]
                                 /\ s.user = owner[s.flow] /\ s.user # None

SessionsTracked == \A i \in Ids : sessions[i] # None => SessionOK(sessions[i])

\* A one-time value that was accepted is in neither map any more, and can not
\* come back, since it was drawn.
OneTime == \A i \in Ids :
    /\ accepted[i] = 0 \/ (accepted[i] = 1 /\ i \in drawn /\ challenges[i] = None /\ i \notin oauthStates)
    /\ challenges[i] # None => i \in drawn /\ i \notin oauthStates
    /\ i \in oauthStates => i \in drawn

LoginInv == TypeOK /\ FlowsTracked /\ RequestsTracked /\ SessionsTracked /\ OneTime

-----------------------------------------------------------------------------
(* The clean-up of a lock region only takes flows and challenges away.     *)
LEMMA LiveFlowsKept ==
    ASSUME TypeOK
    PROVE  /\ LiveFlows \in [Ids -> Flow \cup {None}]
           /\ \A t \in Ids : LiveFlows[t] # None =>
                /\ LiveFlows[t] = pendingAuth[t] /\ LiveFlows[t] \in Flow /\ LiveFlows[t].user \in Users
  BY LoginAssumption DEF TypeOK, LiveFlows, Flow

LEMMA LiveChallengesKept ==
    ASSUME TypeOK
    PROVE  /\ LiveChallenges \in [Ids -> Challenge \cup {None}]
           /\ \A i \in Ids : LiveChallenges[i] # None =>
                LiveChallenges[i] = challenges[i] /\ LiveChallenges[i] \in Challenge
  BY DEF TypeOK, LiveChallenges

LEMMA PendingFlowKept ==
    ASSUME TypeOK, NEW t \in Ids, PendingFlow(t) # None
    PROVE  /\ PendingFlow(t) = pendingAuth[t] /\ pendingAuth[t] # None
           /\ PendingFlow(t) \in Flow /\ PendingFlow(t).user \in Users
  BY LiveFlowsKept DEF PendingFlow

LEMMA FactorSets ==
    /\ Idle \in Request /\ ZeroFlow \in Flow
    /\ \A u \in Users : Required(u) \in SUBSET Factors
  BY DEF Idle, ZeroFlow, Request, Flow, Factors, Pcs, Statuses, Required

(* What a request holds, read off the invariant.                           *)
LEMMA RequestHolds ==
    ASSUME TypeOK, RequestsTracked, NEW c \in Clients
    PROVE  /\ req[c] \in Request /\ req[c].flow \in Flow /\ req[c].flow.done \in SUBSET Factors
           /\ req[c].flow.need \in SUBSET Factors /\ req[c].flow.user \in Users \cup {None}
           /\ req[c].flow.chal \in Ids \cup {None}
           /\ req[c].user \in Users \cup {None} /\ req[c].status \in Statuses
           /\ req[c].pc \in {"challenge", "consume", "store", "issue", "finish"} => req[c].token \in Ids
           /\ req[c].pc = "consume" => req[c].chal \in Ids
<1>1. req[c] \in Request
  BY DEF TypeOK
<1>2. req[c].flow \in Flow /\ req[c].chal \in Ids \cup {None}
      /\ req[c].user \in Users \cup {None} /\ req[c].status \in Statuses
  BY <1>1 DEF Request
<1>3. QED
  BY <1>1, <1>2 DEF RequestsTracked, RequestOK, TypeOK, Flow, Request

(* What a step makes of a request is a request.                            *)
LEMMA RequestResolved ==
    ASSUME NEW r \in Request, NEW p \in Pcs, NEW u \in Users, NEW s \in Statuses
    PROVE  /\ [r EXCEPT !.user = u, !.pc = p] \in Request
           /\ [r EXCEPT !.user = u, !.status = s, !.pc = p] \in Request
  BY DEF Request

LEMMA RequestConsumed ==
    ASSUME NEW r \in Request, NEW p \in Pcs, NEW i \in Ids
    PROVE  /\ [r EXCEPT !.pc = p, !.flow.done = @ \cup {"challenge"}, !.flow.chal = i] \in Request
<1>1. r.flow \in Flow
  BY DEF Request
<1>2. [r.flow EXCEPT !.done = @ \cup {"challenge"}, !.chal = i] \in Flow
  BY <1>1 DEF Flow, Factors
<1>3. [r EXCEPT !.pc = p, !.flow = [r.flow EXCEPT !.done = @ \cup {"challenge"}, !.chal = i]] \in Request
  BY <1>2 DEF Request
<1>4. [r EXCEPT !.pc = p, !.flow.done = @ \cup {"challenge"}, !.flow.chal = i]
        = [r EXCEPT !.pc = p, !.flow = [r.flow EXCEPT !.done = @ \cup {"challenge"}, !.chal = i]]
  BY DEF Request, Flow
<1>5. QED
  BY <1>3, <1>4

(* A request moves on, or is answered.                                     *)
LEMMA RequestMoves ==
    ASSUME TypeOK, NEW c \in Clients
    PROVE  /\ \A pc \in Pcs : [req EXCEPT ![c].pc = pc] \in [Clients -> Request]
           /\ \A r \in Request : [req EXCEPT ![c] = r] \in [Clients -> Request]
  BY DEF TypeOK, Request

(* Every step keeps the types.                                             *)
LEMMA LoginTypeStep == LoginInv /\ [Next]_vars => TypeOK'
<1>. SUFFICES ASSUME LoginInv, [Next]_vars PROVE TypeOK'
  OBVIOUS
<1>0. TypeOK /\ RequestsTracked
  BY DEF LoginInv
<1>. USE LoginAssumption, <1>0, LiveFlowsKept, LiveChallengesKept, FactorSets DEF TypeOK, config, store, history
<1>1. ASSUME NEW c \in Clients, NEW u \in Users, LoginWithLocalPassword(c, u) PROVE TypeOK'
  BY <1>1 DEF LoginWithLocalPassword, Flow, Request, Pcs, Idle, Statuses
<1>2. ASSUME NEW c \in Clients, LoginWithLocalToken(c) PROVE TypeOK'
  <2>1. \E u \in Users, pc \in {"create", "direct"} :
            req' = [req EXCEPT ![c] = [Idle EXCEPT !.user = u, !.pc = pc]]
    BY <1>2 DEF LoginWithLocalToken
  <2>2. UNCHANGED <<config, store, drawn, expired, edits, history>>
    BY <1>2 DEF LoginWithLocalToken
  <2>3. \A u \in Users, pc \in {"create", "direct"} : [Idle EXCEPT !.user = u, !.pc = pc] \in Request
    BY DEF Flow, Request, Pcs, Idle, ZeroFlow, Statuses
  <2>4. \E r \in Request : req' = [req EXCEPT ![c] = r]
    BY <2>1, <2>3 DEF Idle
  <2>5. req' \in [Clients -> Request]
    BY <2>4
  <2>6. QED
    BY <2>2, <2>5
<1>3. ASSUME NEW c \in Clients, StartOAuthLogin(c) PROVE TypeOK'
  BY <1>3 DEF StartOAuthLogin
<1>4. ASSUME NEW c \in Clients, NEW t \in Ids, StartChallenge(c, t) PROVE TypeOK'
  BY <1>4 DEF StartChallenge, Request, Pcs, Idle, Statuses
<1>5. ASSUME NEW c \in Clients, NEW t \in Ids, VerifyMFA(c, t) PROVE TypeOK'
  <2>1. PendingFlow(t) \in Flow
    BY <1>5, PendingFlowKept DEF VerifyMFA
  <2>2. [PendingFlow(t) EXCEPT !.done = @ \cup {"mfa"}] \in Flow
    BY <2>1 DEF Flow, Factors
  <2>3. QED
    BY <1>5, <2>2 DEF VerifyMFA, Request, Pcs, Idle, Statuses, Factors
<1>6. ASSUME NEW c \in Clients, NEW t \in Ids, NEW i \in Ids, VerifyChallenge(c, t, i) PROVE TypeOK'
  <2>1. PendingFlow(t) \in Flow
    BY <1>6, PendingFlowKept DEF VerifyChallenge
  <2>2. QED
    BY <1>6, <2>1 DEF VerifyChallenge, Request, Pcs, Idle, Statuses
<1>7. ASSUME NEW c \in Clients, NEW i \in Ids, NEW padded \in BOOLEAN, CompleteOAuthCallback(c, i, padded)
      PROVE TypeOK'
  BY <1>7 DEF CompleteOAuthCallback, Request, Pcs, Idle, Statuses
<1>8. ASSUME NEW c \in Clients, NEW right \in BOOLEAN, ConsumeChallenge(c, right) PROVE TypeOK'
  <2>. DEFINE t == req[c].token
              i == req[c].chal
              ch == LiveChallenges[i]
  <2>1. req[c].pc = "consume" /\ t \in Ids /\ i \in Ids
    BY <1>8, RequestHolds DEF ConsumeChallenge
  <2>2. LiveFlows \in [Ids -> Flow \cup {None}] /\ [LiveFlows EXCEPT ![t] = None] \in [Ids -> Flow \cup {None}]
    BY <2>1
  <2>3. [LiveChallenges EXCEPT ![i] = None] \in [Ids -> Challenge \cup {None}]
    BY <2>1
  <2>4. ch # None /\ ch.attempts < MaxAttempts =>
            [LiveChallenges EXCEPT ![i].attempts = @ + 1] \in [Ids -> Challenge \cup {None}]
    BY <2>1 DEF Challenge
  <2>5. [req EXCEPT ![c] = Idle] \in [Clients -> Request]
    BY RequestMoves
  <2>6. [req[c] EXCEPT !.pc = "store", !.flow.done = @ \cup {"challenge"}, !.flow.chal = i] \in Request
    <3>1. req[c] \in Request /\ "store" \in Pcs
      BY RequestHolds DEF Pcs
    <3>2. QED
      BY ONLY <2>1, <3>1, RequestConsumed
  <2>7. [req EXCEPT ![c].pc = "store", ![c].flow.done = @ \cup {"challenge"}, ![c].flow.chal = i]
            \in [Clients -> Request]
    BY <2>6
  <2>8. /\ [proved EXCEPT ![t] = @ \cup {"challenge"}] \in [Ids -> SUBSET Factors]
        /\ [accepted EXCEPT ![i] = @ + 1] \in [Ids -> Nat]
    BY <2>1 DEF Factors
  <2>9. QED
    BY <1>8, <2>1, <2>2, <2>3, <2>4, <2>5, <2>7, <2>8 DEF ConsumeChallenge, Done
<1>9. ASSUME NEW c \in Clients, NEW saved \in BOOLEAN, CreateUser(c, saved) PROVE TypeOK'
  BY <1>9 DEF CreateUser, RequestsTracked, RequestOK, Request, Pcs, Idle, Statuses, Done, Goto
<1>10. ASSUME NEW c \in Clients, OpenFlow(c) PROVE TypeOK'
  <2>1. PICK i \in Ids \ drawn :
          /\ drawn' = drawn \cup {i}
          /\ pendingAuth' = [LiveFlows EXCEPT ![i] = req[c].flow]
          /\ challenges' = LiveChallenges
          /\ owner' = [owner EXCEPT ![i] = req[c].user]
          /\ req' = [req EXCEPT ![c] = IF "challenge" \in req[c].flow.need
                                       THEN [Idle EXCEPT !.pc = "challenge", !.token = i]
                                       ELSE Idle]
    BY <1>10 DEF OpenFlow
  <2>2. req[c].flow \in Flow /\ req[c].user \in Users \cup {None}
    BY RequestHolds
  <2>3. [Idle EXCEPT !.pc = "challenge", !.token = i] \in Request
    BY DEF Request, Pcs, Idle, Flow
  <2>4. req' \in [Clients -> Request]
    BY <2>1, <2>3, RequestMoves
  <2>5. QED
    BY <1>10, <2>1, <2>2, <2>4 DEF OpenFlow
<1>11. ASSUME NEW c \in Clients, IssueChallenge(c) PROVE TypeOK'
  <2>. DEFINE t == req[c].token
              found == IF LiveFlows[t] = None THEN ZeroFlow ELSE LiveFlows[t]
  <2>1. t \in Ids
    BY <1>11, RequestHolds DEF IssueChallenge
  <2>2. PICK i \in Ids \ drawn :
          /\ drawn' = drawn \cup {i}
          /\ pendingAuth' = [LiveFlows EXCEPT ![t] = [found EXCEPT !.chal = i]]
          /\ challenges' = [LiveChallenges EXCEPT ![i] = [flow |-> t, attempts |-> 0]]
    BY <1>11 DEF IssueChallenge
  <2>3. found \in Flow
    BY <2>1
  <2>4. [found EXCEPT !.chal = i] \in Flow
    BY <2>3 DEF Flow
  <2>5. [flow |-> t, attempts |-> 0] \in Challenge
    BY <2>1 DEF Challenge
  <2>6. req' \in [Clients -> Request]
    BY <1>11, RequestMoves DEF IssueChallenge, Done
  <2>7. QED
    BY <1>11, <2>1, <2>2, <2>4, <2>5, <2>6 DEF IssueChallenge
<1>12. ASSUME NEW c \in Clients, StorePendingFlow(c) PROVE TypeOK'
  <2>1. req[c].token \in Ids /\ req[c].flow \in Flow
    BY <1>12, RequestHolds DEF StorePendingFlow
  <2>2. req' \in [Clients -> Request]
    <3>1. [req[c] EXCEPT !.pc = "issue"] \in Request
      BY RequestHolds DEF Request, Pcs
    <3>2. req' = [req EXCEPT ![c] = Idle] \/ req' = [req EXCEPT ![c].pc = "issue"]
      BY <1>12 DEF StorePendingFlow, Done, Goto
    <3>3. QED
      BY <3>1, <3>2
  <2>3. QED
    BY <1>12, <2>1, <2>2 DEF StorePendingFlow
<1>13. ASSUME NEW c \in Clients, IssueFlowSession(c) PROVE TypeOK'
  <2>1. [user |-> req[c].flow.user, flow |-> req[c].token, need |-> req[c].flow.need] \in Session
    BY <1>13, RequestHolds DEF IssueFlowSession, Session
  <2>2. req' \in [Clients -> Request]
    BY <1>13, RequestMoves DEF IssueFlowSession, Goto, Pcs
  <2>3. QED
    BY <1>13, <2>1, <2>2 DEF IssueFlowSession, IssueSession
<1>14. ASSUME NEW c \in Clients, FinishFlow(c) PROVE TypeOK'
  BY <1>14 DEF FinishFlow, Done
<1>15. ASSUME NEW c \in Clients, IssueDirect(c) PROVE TypeOK'
  <2>1. [user |-> req[c].user, flow |-> None, need |-> {}] \in Session
    BY RequestHolds DEF Session
  <2>2. req' \in [Clients -> Request]
    BY <1>15, RequestMoves DEF IssueDirect, Done
  <2>3. QED
    BY <1>15, <2>1, <2>2 DEF IssueDirect, IssueSession
<1>16. ASSUME NEW c \in Clients, ResolveOAuthUser(c) PROVE TypeOK'
  <2>1. CASE Done(c)
    BY <1>16, <2>1, RequestMoves DEF ResolveOAuthUser, Done
  <2>2. ASSUME NEW u \in linked, NEW pc \in {"direct", "create"},
               req' = [req EXCEPT ![c].user = u, ![c].status = users[u], ![c].pc = pc]
        PROVE  TypeOK'
    <3>1. [req[c] EXCEPT !.user = u, !.status = users[u], !.pc = pc] \in Request
      <4>1. req[c] \in Request /\ pc \in Pcs /\ u \in Users /\ users[u] \in Statuses
        BY <2>2, RequestHolds DEF Pcs
      <4>2. QED
        BY ONLY <4>1, RequestResolved
    <3>2. QED
      BY <1>16, <2>2, <3>1 DEF ResolveOAuthUser
  <2>3. ASSUME NEW u \in Users \ linked, req' = [req EXCEPT ![c].user = u, ![c].pc = "create"]
        PROVE  TypeOK'
    <3>1. [req[c] EXCEPT !.user = u, !.pc = "create"] \in Request
      <4>1. req[c] \in Request /\ "create" \in Pcs /\ u \in Users /\ users[u] \in Statuses
        BY <2>3, RequestHolds DEF Pcs
      <4>2. QED
        BY ONLY <4>1, RequestResolved
    <3>2. QED
      BY <1>16, <2>3, <3>1 DEF ResolveOAuthUser
  <2>4. QED
    BY <1>16, <2>1, <2>2, <2>3 DEF ResolveOAuthUser
<1>17. ASSUME NEW i \in Ids, AuthenticateSession(i) \/ Logout(i) \/ Expire(i) PROVE TypeOK'
  BY <1>17 DEF AuthenticateSession, Logout, Expire
<1>18. ASSUME NEW u \in Users, NEW s \in {"active", "disabled"}, SetUserStatus(u, s) PROVE TypeOK'
  BY <1>18 DEF SetUserStatus, Statuses
<1>19. CASE EditAuthProvider
  BY <1>19 DEF EditAuthProvider
<1>20. CASE Restart
  BY <1>20 DEF Restart
<1>21. CASE UNCHANGED vars
  BY <1>21 DEF vars
<1>22. QED
  BY <1>1, <1>2, <1>3, <1>4, <1>5, <1>6, <1>7, <1>8, <1>9, <1>10, <1>11, <1>12, <1>13, <1>14, <1>15, <1>16,
     <1>17, <1>18, <1>19, <1>20, <1>21 DEF Next, ClientStep, AuthLogin

(* Tokens are drawn once, an owner is never replaced and what was shown     *)
(* stays shown: under these three, what a step leaves alone stays tracked.  *)
LEMMA Frame ==
    ASSUME LoginInv, drawn \subseteq drawn',
           \A t \in drawn : owner'[t] = owner[t] /\ proved[t] \subseteq proved'[t],
           \A t \in Ids : pendingAuth'[t] # None => pendingAuth'[t] = pendingAuth[t] \/ Tracked(t, pendingAuth[t])',
           \A c \in Clients : req'[c] = req[c] \/ RequestOK(req[c])',
           \A i \in Ids : sessions'[i] # None => sessions'[i] = sessions[i] \/ SessionOK(sessions[i])'
    PROVE  FlowsTracked' /\ RequestsTracked' /\ SessionsTracked'
<1>1. FlowsTracked'
  BY DEF LoginInv, FlowsTracked, Tracked
<1>2. RequestsTracked'
  <2>. SUFFICES ASSUME NEW c \in Clients, req'[c] = req[c] PROVE RequestOK(req[c])'
    BY DEF RequestsTracked
  <2>1. RequestOK(req[c])
    BY DEF LoginInv, RequestsTracked
  <2>2. QED
    BY <2>1 DEF RequestOK, Tracked
<1>3. SessionsTracked'
  BY DEF LoginInv, SessionsTracked, SessionOK
<1>4. QED
  BY <1>1, <1>2, <1>3

(* Every step keeps flows, requests and sessions tracked.                  *)
LEMMA LoginTrackStep == LoginInv /\ [Next]_vars => FlowsTracked' /\ RequestsTracked' /\ SessionsTracked'
<1>. SUFFICES ASSUME LoginInv, [Next]_vars PROVE FlowsTracked' /\ RequestsTracked' /\ SessionsTracked'
  OBVIOUS
<1>. DEFINE Goal == FlowsTracked' /\ RequestsTracked' /\ SessionsTracked'
<1>0. TypeOK /\ TypeOK' /\ RequestsTracked
  BY LoginTypeStep DEF LoginInv
<1>a. ASSUME UNCHANGED <<pendingAuth, drawn, sessions, proved, owner>>, NEW c \in Clients, NEW r,
             req' = [req EXCEPT ![c] = r], RequestOK(r)
      PROVE  Goal
  <2>1. \A d \in Clients : req'[d] = req[d] \/ RequestOK(req[d])'
    BY <1>0, <1>a DEF TypeOK, RequestOK, Tracked
  <2>2. QED
    BY <1>a, <2>1, Frame
<1>b. ASSUME UNCHANGED <<drawn, sessions, proved, owner>>, NEW c \in Clients, NEW r,
             pendingAuth' = LiveFlows, req' = [req EXCEPT ![c] = r], RequestOK(r)
      PROVE  Goal
  <2>1. \A d \in Clients : req'[d] = req[d] \/ RequestOK(req[d])'
    BY <1>0, <1>b DEF TypeOK, RequestOK, Tracked
  <2>2. \A t \in Ids : pendingAuth'[t] # None => pendingAuth'[t] = pendingAuth[t]
    BY <1>0, <1>b, LiveFlowsKept
  <2>3. QED
    BY <1>b, <2>1, <2>2, Frame
<1>c. RequestOK(Idle)
  BY DEF RequestOK, Idle
<1>1. ASSUME NEW c \in Clients, NEW u \in Users, LoginWithLocalPassword(c, u) PROVE Goal
  <2>. DEFINE r == [Idle EXCEPT !.pc = IF Required(u) = {} THEN "direct" ELSE "open",
                                !.flow = [user |-> u, need |-> Required(u), done |-> {}, chal |-> None],
                                !.user = u]
  <2>1. RequestOK(r)
    BY LoginAssumption DEF RequestOK, Idle
  <2>2. QED
    BY <1>1, <2>1, <1>a DEF LoginWithLocalPassword, store, history
<1>2. ASSUME NEW c \in Clients, LoginWithLocalToken(c) PROVE Goal
  <2>. DEFINE r == [Idle EXCEPT !.user = TokenUser,
                                !.pc = IF users[TokenUser] = "absent" THEN "create" ELSE "direct"]
  <2>. DEFINE s == [Idle EXCEPT !.user = OpsUser, !.pc = "direct"]
  <2>1. RequestOK(r) /\ RequestOK(s)
    BY LoginAssumption DEF RequestOK, Idle
  <2>2. req' = [req EXCEPT ![c] = r] \/ req' = [req EXCEPT ![c] = s]
    BY <1>2 DEF LoginWithLocalToken
  <2>3. UNCHANGED <<pendingAuth, sessions, drawn, proved, owner>>
    BY <1>2 DEF LoginWithLocalToken, store, history
  <2>4. QED
    BY <2>1, <2>2, <2>3, <1>a
<1>3. ASSUME NEW c \in Clients, StartOAuthLogin(c) PROVE Goal
  BY <1>3, Frame DEF StartOAuthLogin, history
<1>4. ASSUME NEW c \in Clients, NEW t \in Ids, StartChallenge(c, t) PROVE Goal
  <2>1. t \in drawn
    BY <1>0, <1>4, PendingFlowKept DEF StartChallenge, LoginInv, FlowsTracked, Tracked
  <2>2. RequestOK([Idle EXCEPT !.pc = "challenge", !.token = t])
    BY <2>1 DEF RequestOK, Idle
  <2>3. QED
    BY <1>4, <2>2, <1>b DEF StartChallenge, history
<1>5. ASSUME NEW c \in Clients, NEW t \in Ids, VerifyMFA(c, t) PROVE Goal
  <2>. DEFINE f == PendingFlow(t)
              g == [f EXCEPT !.done = @ \cup {"mfa"}]
  <2>1. f = pendingAuth[t] /\ f # None /\ f \in Flow /\ f.user \in Users
    BY <1>0, <1>5, PendingFlowKept DEF VerifyMFA
  <2>2. Tracked(t, f) /\ f.user # None /\ proved \in [Ids -> SUBSET Factors]
    BY <1>0, <2>1, LoginAssumption DEF LoginInv, FlowsTracked, TypeOK
  <2>3. /\ drawn' = drawn /\ owner' = owner /\ sessions' = sessions /\ pendingAuth' = LiveFlows
        /\ proved' = [proved EXCEPT ![t] = @ \cup {"mfa"}]
        /\ "challenge" \in f.need => "challenge" \in f.done
        /\ req' = [req EXCEPT ![c] = [Idle EXCEPT !.pc = "store", !.token = t, !.flow = g]]
    BY <1>5 DEF VerifyMFA, history
  <2>4. g.user = f.user /\ g.need = f.need /\ g.done = f.done \cup {"mfa"}
    BY <2>1 DEF Flow
  <2>5. req'[c] = [Idle EXCEPT !.pc = "store", !.token = t, !.flow = g]
    BY <1>0, <2>3 DEF TypeOK
  <2>6. req'[c].pc = "store" /\ req'[c].token = t /\ req'[c].flow = g
    BY <2>5 DEF Idle
  <2>7. RequestOK(req[c])'
    <3>. HIDE DEF f, g
    <3>1. proved'[t] = proved[t] \cup {"mfa"}
      BY <2>2, <2>3
    <3>2. QED
      BY <2>2, <2>3, <2>4, <2>6, <3>1 DEF RequestOK, Tracked
  <2>8. \A d \in Clients : req'[d] = req[d] \/ RequestOK(req[d])'
    BY <1>0, <2>3, <2>7 DEF TypeOK
  <2>9. \A s \in Ids : pendingAuth'[s] # None => pendingAuth'[s] = pendingAuth[s]
    BY <1>0, <2>3, LiveFlowsKept
  <2>10. \A s \in drawn : owner'[s] = owner[s] /\ proved[s] \subseteq proved'[s]
    BY <1>0, <2>2, <2>3 DEF TypeOK
  <2>11. QED
    BY <2>3, <2>8, <2>9, <2>10, Frame
<1>6. ASSUME NEW c \in Clients, NEW t \in Ids, NEW i \in Ids, VerifyChallenge(c, t, i) PROVE Goal
  <2>. DEFINE f == PendingFlow(t)
  <2>1. f = pendingAuth[t] /\ f # None /\ f \in Flow /\ f.user \in Users
    BY <1>0, <1>6, PendingFlowKept DEF VerifyChallenge
  <2>2. Tracked(t, f) /\ f.user # None
    BY <1>0, <2>1, LoginAssumption DEF LoginInv, FlowsTracked
  <2>3. RequestOK([Idle EXCEPT !.pc = "consume", !.token = t, !.chal = i, !.flow = f])
    BY <2>2, LoginAssumption DEF RequestOK, Idle, Tracked
  <2>4. QED
    BY <1>6, <2>3, <1>b DEF VerifyChallenge, history
<1>7. ASSUME NEW c \in Clients, NEW i \in Ids, NEW padded \in BOOLEAN, CompleteOAuthCallback(c, i, padded)
      PROVE Goal
  <2>1. RequestOK([Idle EXCEPT !.pc = "exchange"])
    BY DEF RequestOK, Idle
  <2>2. QED
    BY <1>7, <2>1, <1>a DEF CompleteOAuthCallback
<1>8. ASSUME NEW c \in Clients, NEW right \in BOOLEAN, ConsumeChallenge(c, right) PROVE Goal
  <2>. DEFINE t == req[c].token
              i == req[c].chal
              r == [req[c] EXCEPT !.pc = "store", !.flow.done = @ \cup {"challenge"}, !.flow.chal = i]
  <2>1. /\ req[c].pc = "consume" /\ t \in Ids /\ i \in Ids /\ req[c] \in Request /\ req[c].flow \in Flow
        /\ RequestOK(req[c]) /\ drawn' = drawn /\ owner' = owner /\ sessions' = sessions
    BY <1>0, <1>8, RequestHolds DEF ConsumeChallenge, RequestsTracked
  <2>2. CASE Done(c) /\ UNCHANGED proved /\ (pendingAuth' = LiveFlows \/ pendingAuth' = [LiveFlows EXCEPT ![t] = None])
    <3>1. \A d \in Clients : req'[d] = req[d] \/ RequestOK(req[d])'
      BY <1>0, <2>1, <2>2 DEF TypeOK, Done, RequestOK, Idle
    <3>2. \A s \in Ids : pendingAuth'[s] # None => pendingAuth'[s] = pendingAuth[s]
      BY <1>0, <2>1, <2>2, LiveFlowsKept
    <3>3. QED
      BY <2>1, <2>2, <3>1, <3>2, Frame
  <2>3. CASE /\ pendingAuth' = LiveFlows
             /\ proved' = [proved EXCEPT ![t] = @ \cup {"challenge"}]
             /\ req' = [req EXCEPT ![c] = r]
    <3>1. /\ r.pc = "store" /\ r.token = t /\ r.flow.user = req[c].flow.user
          /\ r.flow.done = req[c].flow.done \cup {"challenge"} /\ r.flow.need = req[c].flow.need
      BY ONLY <2>1 DEF Request, Flow
    <3>2. req'[c] = r
      BY <1>0, <2>3 DEF TypeOK
    <3>3. RequestOK(req[c])'
      <4>. HIDE DEF r
      <4>1. Tracked(t, req[c].flow) /\ req[c].flow.user # None
        BY <2>1 DEF RequestOK
      <4>2. proved'[t] = proved[t] \cup {"challenge"}
        BY <1>0, <2>1, <2>3 DEF TypeOK
      <4>3. QED
        BY <2>1, <3>1, <3>2, <4>1, <4>2 DEF RequestOK, Tracked
    <3>4. \A d \in Clients : req'[d] = req[d] \/ RequestOK(req[d])'
      BY <1>0, <2>3, <3>3 DEF TypeOK
    <3>5. \A s \in Ids : pendingAuth'[s] # None => pendingAuth'[s] = pendingAuth[s]
      BY <1>0, <2>3, LiveFlowsKept
    <3>6. \A s \in drawn : owner'[s] = owner[s] /\ proved[s] \subseteq proved'[s]
      BY <1>0, <2>1, <2>3 DEF TypeOK
    <3>7. QED
      BY <2>1, <3>4, <3>5, <3>6, Frame
  <2>4. QED
    BY <1>8, <2>2, <2>3 DEF ConsumeChallenge
<1>9. ASSUME NEW c \in Clients, NEW saved \in BOOLEAN, CreateUser(c, saved) PROVE Goal
  <2>1. CASE Done(c)
    BY <1>9, <2>1, <1>a, <1>c DEF CreateUser, Done, store, history
  <2>2. CASE Goto(c, "direct")
    <3>1. RequestOK([req[c] EXCEPT !.pc = "direct"])
      BY <1>0, RequestHolds DEF RequestOK, Request
    <3>2. QED
      BY <1>9, <2>2, <3>1, <1>a DEF CreateUser, Goto, store, history
  <2>3. QED
    BY <1>9, <2>1, <2>2 DEF CreateUser
<1>10. ASSUME NEW c \in Clients, OpenFlow(c) PROVE Goal
  <2>1. PICK i \in Ids \ drawn :
          /\ drawn' = drawn \cup {i}
          /\ pendingAuth' = [LiveFlows EXCEPT ![i] = req[c].flow]
          /\ owner' = [owner EXCEPT ![i] = req[c].user]
          /\ req' = [req EXCEPT ![c] = IF "challenge" \in req[c].flow.need
                                       THEN [Idle EXCEPT !.pc = "challenge", !.token = i]
                                       ELSE Idle]
    BY <1>10 DEF OpenFlow
  <2>2. req[c].pc = "open" /\ sessions' = sessions /\ proved' = proved
    BY <1>10 DEF OpenFlow
  <2>3. req[c].flow.user = req[c].user /\ req[c].flow.done = {}
    BY <1>0, <2>2 DEF RequestsTracked, RequestOK
  <2>4. \A s \in drawn : owner'[s] = owner[s]
    BY <1>0, <2>1 DEF TypeOK
  <2>5. \A s \in Ids : pendingAuth'[s] # None => pendingAuth'[s] = pendingAuth[s] \/ Tracked(s, pendingAuth[s])'
    <3>1. Tracked(i, pendingAuth[i])'
      BY <1>0, <2>1, <2>2, <2>3, LiveFlowsKept DEF TypeOK, Tracked
    <3>2. QED
      BY <1>0, <2>1, <3>1, LiveFlowsKept
  <2>6. RequestOK(req[c])'
    BY <1>0, <2>1 DEF TypeOK, RequestOK, Idle
  <2>7. \A d \in Clients : req'[d] = req[d] \/ RequestOK(req[d])'
    BY <1>0, <2>1, <2>6 DEF TypeOK
  <2>8. drawn \subseteq drawn' /\ \A s \in drawn : owner'[s] = owner[s] /\ proved[s] \subseteq proved'[s]
    BY <2>1, <2>2, <2>4
  <2>9. \A s \in Ids : sessions'[s] # None => sessions'[s] = sessions[s] \/ SessionOK(sessions[s])'
    BY <2>2
  <2>10. QED
    BY <2>5, <2>7, <2>8, <2>9, Frame
<1>11. ASSUME NEW c \in Clients, IssueChallenge(c) PROVE Goal
  <2>. DEFINE t == req[c].token
              found == IF LiveFlows[t] = None THEN ZeroFlow ELSE LiveFlows[t]
  <2>1. req[c].pc = "challenge" /\ t \in Ids /\ t \in drawn
    BY <1>0, <1>11, RequestHolds DEF IssueChallenge, RequestsTracked, RequestOK
  <2>2. PICK i \in Ids \ drawn :
          /\ drawn' = drawn \cup {i}
          /\ pendingAuth' = [LiveFlows EXCEPT ![t] = [found EXCEPT !.chal = i]]
    BY <1>11 DEF IssueChallenge
  <2>3. sessions' = sessions /\ proved' = proved /\ owner' = owner /\ Done(c)
    BY <1>11 DEF IssueChallenge, history
  <2>4. found \in Flow /\ (found.user # None => Tracked(t, found))
    BY <1>0, <2>1, LiveFlowsKept, FactorSets DEF ZeroFlow, LoginInv, FlowsTracked
  <2>5. ASSUME NEW s \in Ids, s = t PROVE Tracked(s, pendingAuth[s])'
    <3>. HIDE DEF found, t
    <3>1. pendingAuth'[s] = [found EXCEPT !.chal = i]
      BY <1>0, <2>1, <2>2, <2>5, LiveFlowsKept
    <3>2. pendingAuth'[s].user = found.user /\ pendingAuth'[s].done = found.done
      BY <2>4, <3>1 DEF Flow
    <3>3. QED
      BY <2>1, <2>2, <2>3, <2>4, <2>5, <3>2 DEF Tracked
  <2>6. \A s \in Ids : pendingAuth'[s] # None => pendingAuth'[s] = pendingAuth[s] \/ Tracked(s, pendingAuth[s])'
    <3>. HIDE DEF found, t
    <3>1. QED
      BY <1>0, <2>1, <2>2, <2>5, LiveFlowsKept
  <2>7. \A d \in Clients : req'[d] = req[d] \/ RequestOK(req[d])'
    BY <1>0, <2>3 DEF TypeOK, Done, RequestOK, Idle
  <2>8. QED
    BY <2>2, <2>3, <2>6, <2>7, Frame
<1>12. ASSUME NEW c \in Clients, StorePendingFlow(c) PROVE Goal
  <2>1. /\ req[c].pc = "store" /\ req[c].token \in Ids /\ req[c].flow \in Flow
        /\ req[c] \in Request /\ RequestOK(req[c]) /\ req[c].flow.need \in SUBSET Factors
    BY <1>0, <1>12, RequestHolds DEF StorePendingFlow, RequestsTracked
  <2>2. /\ drawn' = drawn /\ owner' = owner /\ proved' = proved /\ sessions' = sessions
        /\ pendingAuth' = [LiveFlows EXCEPT ![req[c].token] = req[c].flow]
    BY <1>12 DEF StorePendingFlow, history
  <2>3. \A s \in Ids : pendingAuth'[s] # None => pendingAuth'[s] = pendingAuth[s] \/ Tracked(s, pendingAuth[s])'
    <3>1. ASSUME NEW s \in Ids, s = req[c].token PROVE Tracked(s, pendingAuth[s])'
      BY <1>0, <2>1, <2>2, <3>1, LiveFlowsKept DEF RequestOK, Tracked
    <3>2. QED
      BY <1>0, <2>1, <2>2, <3>1, LiveFlowsKept
  <2>4. RequestOK(req[c])'
    <3>1. CASE Done(c)
      BY <1>0, <3>1 DEF TypeOK, Done, RequestOK, Idle
    <3>2. CASE "mfa" \notin req[c].flow.need \ req[c].flow.done /\ Goto(c, "issue")
      <4>1. req'[c] = [req[c] EXCEPT !.pc = "issue"]
        BY <1>0, <3>2 DEF Goto, TypeOK
      <4>2. req'[c].pc = "issue" /\ req'[c].flow = req[c].flow /\ req'[c].token = req[c].token
        BY <2>1, <4>1 DEF Request
      <4>3. req[c].flow.need \subseteq req[c].flow.done
        BY <2>1, <3>2 DEF RequestOK, Factors
      <4>4. QED
        BY <2>1, <2>2, <4>2, <4>3 DEF RequestOK, Tracked
    <3>3. QED
      BY <1>12, <3>1, <3>2 DEF StorePendingFlow
  <2>5. \A d \in Clients : req'[d] = req[d] \/ RequestOK(req[d])'
    BY <1>0, <1>12, <2>4 DEF TypeOK, StorePendingFlow, Done, Goto
  <2>6. QED
    BY <2>2, <2>3, <2>5, Frame
<1>13. ASSUME NEW c \in Clients, IssueFlowSession(c) PROVE Goal
  <2>. DEFINE s == [user |-> req[c].flow.user, flow |-> req[c].token, need |-> req[c].flow.need]
  <2>1. PICK i \in Ids : IssueSession(i, s)
    BY <1>13 DEF IssueFlowSession
  <2>2. /\ req[c].pc = "issue" /\ RequestOK(req[c]) /\ req[c] \in Request /\ Goto(c, "finish")
        /\ pendingAuth' = pendingAuth /\ proved' = proved /\ owner' = owner
    BY <1>0, <1>13, RequestHolds DEF IssueFlowSession, RequestsTracked, history
  <2>3. sessions' = [sessions EXCEPT ![i] = s] /\ drawn' = drawn \cup {i}
    BY <2>1 DEF IssueSession
  <2>4. SessionOK(sessions[i])'
    <3>1. sessions'[i] = s
      BY <1>0, <2>3 DEF TypeOK
    <3>2. QED
      BY <2>2, <2>3, <3>1 DEF SessionOK, RequestOK, Tracked
  <2>5. \A k \in Ids : sessions'[k] # None => sessions'[k] = sessions[k] \/ SessionOK(sessions[k])'
    BY <1>0, <2>3, <2>4 DEF TypeOK
  <2>6. RequestOK(req[c])'
    <3>1. req'[c] = [req[c] EXCEPT !.pc = "finish"]
      BY <1>0, <2>2 DEF Goto, TypeOK
    <3>2. req'[c].pc = "finish" /\ req'[c].token = req[c].token
      BY <2>2, <3>1 DEF Request
    <3>3. QED
      BY <2>2, <2>3, <3>2 DEF RequestOK
  <2>7. \A d \in Clients : req'[d] = req[d] \/ RequestOK(req[d])'
    BY <1>0, <2>2, <2>6 DEF TypeOK, Goto
  <2>8. QED
    BY <2>2, <2>3, <2>5, <2>7, Frame
<1>14. ASSUME NEW c \in Clients, FinishFlow(c) PROVE Goal
  <2>1. \A t \in Ids : pendingAuth'[t] # None => pendingAuth'[t] = pendingAuth[t]
    BY <1>0, <1>14 DEF FinishFlow, TypeOK
  <2>2. \A d \in Clients : req'[d] = req[d] \/ RequestOK(req[d])'
    BY <1>0, <1>14 DEF FinishFlow, TypeOK, Done, RequestOK, Idle
  <2>3. QED
    BY <1>14, <2>1, <2>2, Frame DEF FinishFlow, history
<1>15. ASSUME NEW c \in Clients, IssueDirect(c) PROVE Goal
  <2>. DEFINE s == [user |-> req[c].user, flow |-> None, need |-> {}]
  <2>1. PICK i \in Ids : IssueSession(i, s)
    BY <1>15 DEF IssueDirect
  <2>2. Done(c) /\ pendingAuth' = pendingAuth /\ proved' = proved /\ owner' = owner
    BY <1>15 DEF IssueDirect, history
  <2>3. \A k \in Ids : sessions'[k] # None => sessions'[k] = sessions[k] \/ SessionOK(sessions[k])'
    BY <1>0, <2>1 DEF TypeOK, IssueSession, SessionOK
  <2>4. \A d \in Clients : req'[d] = req[d] \/ RequestOK(req[d])'
    BY <1>0, <2>2 DEF TypeOK, Done, RequestOK, Idle
  <2>5. QED
    BY <2>1, <2>2, <2>3, <2>4, Frame DEF IssueSession
<1>16. ASSUME NEW c \in Clients, ResolveOAuthUser(c) PROVE Goal
  <2>1. req[c] \in Request
    BY <1>0, RequestHolds
  <2>2. CASE Done(c)
    BY <1>16, <2>2, <1>a, <1>c DEF ResolveOAuthUser, Done, store, history
  <2>3. ASSUME NEW u \in linked, NEW pc \in {"direct", "create"},
               req' = [req EXCEPT ![c].user = u, ![c].status = users[u], ![c].pc = pc]
        PROVE  Goal
    <3>1. u # None
      BY <1>0, LoginAssumption DEF TypeOK
    <3>2. RequestOK([req[c] EXCEPT !.user = u, !.status = users[u], !.pc = pc])
      BY <2>1, <3>1 DEF RequestOK, Request
    <3>3. req' = [req EXCEPT ![c] = [req[c] EXCEPT !.user = u, !.status = users[u], !.pc = pc]]
      BY <2>3
    <3>4. UNCHANGED <<pendingAuth, drawn, sessions, proved, owner>>
      BY <1>16 DEF ResolveOAuthUser, store, history
    <3>5. QED
      BY <3>2, <3>3, <3>4, <1>a
  <2>4. ASSUME NEW u \in Users \ linked, req' = [req EXCEPT ![c].user = u, ![c].pc = "create"]
        PROVE  Goal
    <3>1. RequestOK([req[c] EXCEPT !.user = u, !.pc = "create"])
      BY <2>1, LoginAssumption DEF RequestOK, Request
    <3>2. req' = [req EXCEPT ![c] = [req[c] EXCEPT !.user = u, !.pc = "create"]]
      BY <2>4
    <3>3. UNCHANGED <<pendingAuth, drawn, sessions, proved, owner>>
      BY <1>16 DEF ResolveOAuthUser, store, history
    <3>4. QED
      BY <3>1, <3>2, <3>3, <1>a
  <2>5. QED
    BY <1>16, <2>2, <2>3, <2>4 DEF ResolveOAuthUser
<1>17. ASSUME NEW i \in Ids, AuthenticateSession(i) \/ Logout(i) \/ Expire(i) PROVE Goal
  <2>1. \A k \in Ids : sessions'[k] # None => sessions'[k] = sessions[k]
    BY <1>0, <1>17 DEF TypeOK, AuthenticateSession, Logout, Expire, store
  <2>2. UNCHANGED <<pendingAuth, drawn, req, proved, owner>>
    BY <1>17 DEF AuthenticateSession, Logout, Expire, store, history
  <2>3. QED
    BY <2>1, <2>2, Frame
<1>18. ASSUME NEW u \in Users, NEW s \in {"active", "disabled"}, SetUserStatus(u, s) PROVE Goal
  BY <1>18, Frame DEF SetUserStatus, store, history
<1>19. CASE EditAuthProvider
  BY <1>19, Frame DEF EditAuthProvider, store, history
<1>20. CASE Restart
  <2>1. \A d \in Clients : RequestOK(req[d])'
    BY <1>20 DEF Restart, RequestOK, Idle
  <2>2. QED
    BY <1>20, <2>1, Frame DEF Restart, history
<1>21. CASE UNCHANGED vars
  BY <1>21, Frame DEF vars, store, history
<1>22. QED
  BY <1>1, <1>2, <1>3, <1>4, <1>5, <1>6, <1>7, <1>8, <1>9, <1>10, <1>11, <1>12, <1>13, <1>14, <1>15, <1>16,
     <1>17, <1>18, <1>19, <1>20, <1>21 DEF Next, ClientStep, AuthLogin

(* A one-time value leaves its map in the step that accepts it.            *)
LEMMA OneTimeStep == LoginInv /\ [Next]_vars => OneTime'
<1>. SUFFICES ASSUME LoginInv, [Next]_vars PROVE OneTime'
  OBVIOUS
<1>0. TypeOK /\ RequestsTracked /\ OneTime
  BY DEF LoginInv
<1>a. \A i \in Ids : LiveChallenges[i] # None => LiveChallenges[i] = challenges[i]
  BY <1>0, LiveChallengesKept
<1>b. ASSUME drawn \subseteq drawn', UNCHANGED <<accepted>>, oauthStates' \subseteq oauthStates,
             \A i \in Ids : challenges'[i] # None => challenges[i] # None
      PROVE  OneTime'
  BY <1>0, <1>b DEF OneTime, TypeOK
<1>1. ASSUME NEW c \in Clients, StartOAuthLogin(c) PROVE OneTime'
  BY <1>0, <1>1 DEF StartOAuthLogin, history, OneTime, TypeOK
<1>2. ASSUME NEW c \in Clients, NEW i \in Ids, NEW padded \in BOOLEAN, CompleteOAuthCallback(c, i, padded)
      PROVE OneTime'
  BY <1>0, <1>2 DEF CompleteOAuthCallback, OneTime, TypeOK
<1>3. ASSUME NEW c \in Clients, NEW right \in BOOLEAN, ConsumeChallenge(c, right) PROVE OneTime'
  <2>. DEFINE i == req[c].chal
  <2>1. /\ i \in Ids /\ drawn' = drawn /\ oauthStates' = oauthStates
        /\ LiveChallenges \in [Ids -> Challenge \cup {None}]
    BY <1>0, <1>3, RequestHolds, LiveChallengesKept DEF ConsumeChallenge
  <2>2. CASE accepted' = accepted /\ challenges' \in {LiveChallenges, [LiveChallenges EXCEPT ![i] = None]}
    BY <1>a, <1>b, <2>1, <2>2
  <2>3. CASE /\ accepted' = accepted /\ LiveChallenges[i] # None
             /\ challenges' = [LiveChallenges EXCEPT ![i].attempts = @ + 1]
    BY <1>a, <1>b, <2>1, <2>3
  <2>4. CASE /\ accepted' = [accepted EXCEPT ![i] = @ + 1] /\ LiveChallenges[i] # None
             /\ challenges' = [LiveChallenges EXCEPT ![i] = None]
    BY <1>0, <1>a, <2>1, <2>4 DEF OneTime, TypeOK
  <2>5. QED
    BY <1>3, <2>2, <2>3, <2>4 DEF ConsumeChallenge
<1>4. ASSUME NEW c \in Clients, IssueChallenge(c) PROVE OneTime'
  <2>1. PICK i \in Ids \ drawn :
          /\ drawn' = drawn \cup {i}
          /\ challenges' = [LiveChallenges EXCEPT ![i] = [flow |-> req[c].token, attempts |-> 0]]
    BY <1>4 DEF IssueChallenge
  <2>2. /\ oauthStates' = oauthStates /\ accepted' = accepted
        /\ LiveChallenges \in [Ids -> Challenge \cup {None}]
    BY <1>0, <1>4, LiveChallengesKept DEF IssueChallenge, history
  <2>3. QED
    BY <1>0, <1>a, <2>1, <2>2 DEF OneTime, TypeOK
<1>5. ASSUME NEW c \in Clients,
             \/ OpenFlow(c) \/ StorePendingFlow(c)
             \/ \E t \in Ids : StartChallenge(c, t) \/ VerifyMFA(c, t)
             \/ \E t, i \in Ids : VerifyChallenge(c, t, i)
      PROVE  OneTime'
  <2>1. drawn \subseteq drawn' /\ accepted' = accepted /\ oauthStates' = oauthStates /\ challenges' = LiveChallenges
    BY <1>5 DEF OpenFlow, StorePendingFlow, StartChallenge, VerifyMFA, VerifyChallenge, history
  <2>2. QED
    BY <1>a, <1>b, <2>1
<1>6. ASSUME NEW c \in Clients,
             \/ \E u \in Users : LoginWithLocalPassword(c, u)
             \/ LoginWithLocalToken(c) \/ ResolveOAuthUser(c)
             \/ \E saved \in BOOLEAN : CreateUser(c, saved)
             \/ IssueFlowSession(c) \/ IssueDirect(c)
      PROVE  OneTime'
  <2>1. drawn \subseteq drawn' /\ accepted' = accepted /\ oauthStates' = oauthStates /\ challenges' = challenges
    BY <1>6 DEF LoginWithLocalPassword, LoginWithLocalToken, ResolveOAuthUser, CreateUser, IssueFlowSession,
                IssueDirect, IssueSession, store, history
  <2>2. QED
    BY <1>b, <2>1
<1>7. ASSUME NEW c \in Clients, FinishFlow(c) PROVE OneTime'
  <2>1. \A i \in Ids : challenges'[i] # None => challenges[i] # None
    BY <1>0, <1>7 DEF FinishFlow, TypeOK
  <2>2. QED
    BY <1>7, <1>b, <2>1 DEF FinishFlow, history
<1>8. ASSUME NEW i \in Ids, AuthenticateSession(i) \/ Logout(i) \/ Expire(i) PROVE OneTime'
  BY <1>8, <1>b DEF AuthenticateSession, Logout, Expire, store, history
<1>9. ASSUME NEW u \in Users, NEW s \in {"active", "disabled"}, SetUserStatus(u, s) PROVE OneTime'
  BY <1>9, <1>b DEF SetUserStatus, store, history
<1>10. CASE EditAuthProvider \/ Restart \/ UNCHANGED vars
  BY <1>10, <1>b DEF EditAuthProvider, Restart, vars, store, history
<1>11. QED
  BY <1>1, <1>2, <1>3, <1>4, <1>5, <1>6, <1>7, <1>8, <1>9, <1>10 DEF Next, ClientStep, AuthLogin

\* However requests interleave, whatever expires, is edited or restarted: a
\* session of a pending flow was earned by the user whose password opened it,
\* with every factor required, and no one-time value that was presented as it was
\* issued is accepted again (VerifyChallenge, VerifyMFA, consumeChallenge,
\* completePendingFlow, CompleteOAuthCallback).
THEOREM LoginCorrect == Spec => []LoginSafe
<1>1. Init => LoginInv
  <2>. SUFFICES ASSUME Init PROVE LoginInv
    OBVIOUS
  <2>1. TypeOK
    BY LoginAssumption, FactorSets DEF Init, TypeOK, Statuses
  <2>2. RequestsTracked
    BY DEF Init, RequestsTracked, RequestOK, Idle
  <2>3. QED
    BY <2>1, <2>2 DEF Init, LoginInv, FlowsTracked, SessionsTracked, OneTime
<1>2. LoginInv /\ [Next]_vars => LoginInv'
  BY LoginTypeStep, LoginTrackStep, OneTimeStep DEF LoginInv
<1>3. LoginInv => LoginSafe
  <2>1. LoginInv => SessionEarned
    BY DEF LoginInv, SessionsTracked, SessionOK, SessionEarned
  <2>2. LoginInv => AcceptedOnce
    BY DEF LoginInv, OneTime, AcceptedOnce
  <2>3. QED
    BY <2>1, <2>2 DEF LoginInv, LoginSafe
<1>4. QED
  BY <1>1, <1>2, <1>3, PTL DEF Spec

-----------------------------------------------------------------------------
(* Configuration stores.  The inductive invariant.                         *)

\* The edits are told apart by the last acknowledged content and what was begun
\* since; those explain every entry of cf.
KeptBy(past, merges, cf) == \A k \in Keys : Explains(past[k], merges, cf[k])
Kept(cf) == KeptBy(last, mgr = "providers", cf)

\* A locking manager has what a boot would put back.
HasBuiltins(cf) ==
    /\ mgr = "agent_roles" => \A k \in Builtin : cf[k] # Missing
    /\ mgr = "org" => Builtin = {} \/ \E k \in Keys : cf[k] # Missing

\* No two edits of a copying manager overlapped, no boot of a locking one had
\* nothing but a cut-off file.
Calm == (mgr \in Copying /\ ~raced) \/ (mgr \in Locking /\ torn # "lost")

\* Which steps an edit goes through, and which copies exist.
StoresShape ==
    /\ hasFile \/ hasDB
    /\ hasFile <=> file # Missing
    /\ mgr \in Copying => torn = "whole"
    /\ torn = "whole" => file # Torn
    /\ \A e \in Editors :
         /\ mgr \in Copying => ed[e].pc \in {"idle", "file", "swap", "persist"}
         /\ mgr \in Locking => ed[e].pc \in {"idle", "truncate", "write", "persist_locked"}
         /\ ed[e].pc \in {"file", "truncate", "write"} => hasFile
         /\ ed[e].pc # "idle" => mem # Missing
         /\ ed[e].pc = "write" => torn # "whole"

\* Nothing stored or about to be stored lacks a built-in entry.
StoresComplete ==
    /\ mem # Missing => HasBuiltins(mem)
    /\ doc # Missing => HasBuiltins(doc)
    /\ torn = "whole" /\ file # Missing => HasBuiltins(file)
    /\ \A e \in Editors : HasBuiltins(ed[e].new)

\* One edit at a time, whose new configuration is already in the copies it has
\* been written to; and every copy is kept.
StoresKept == Calm =>
    /\ \A d, e \in Editors : ed[d].pc # "idle" /\ ed[e].pc # "idle" => d = e
    /\ mem # Missing => Kept(mem)
    /\ doc # Missing => Kept(doc)
    /\ torn = "whole" /\ file # Missing => Kept(file)
    /\ file = Missing /\ doc = Missing => Kept(DefaultConfig)
    /\ \A e \in Editors :
         /\ ed[e].pc # "idle" => Kept(ed[e].new)
         /\ ed[e].pc \in {"swap", "persist", "persist_locked"} /\ hasFile => file = ed[e].new
         /\ ed[e].pc \in {"persist", "truncate", "write", "persist_locked"} => mem = ed[e].new

StoresInv == StoresTypeOK /\ StoresShape /\ StoresComplete /\ StoresKept

-----------------------------------------------------------------------------
(* What the pieces of an edit are.                                         *)
EditRecord == [pc: {"idle", "file", "swap", "persist", "truncate", "write", "persist_locked"}, k: Keys, new: Config]

LEMMA ConfigEdited ==
    ASSUME NEW cf \in Config, NEW k \in Keys, NEW entry \in Entry \cup {Missing}
    PROVE  /\ [cf EXCEPT ![k] = entry] \in Config
           /\ [cf EXCEPT ![k] = entry][k] = entry
           /\ \A j \in Keys : j # k => [cf EXCEPT ![k] = entry][j] = cf[j]
  BY DEF Config

LEMMA DefaultShape ==
    /\ DefaultConfig \in Config /\ HasBuiltins(DefaultConfig)
    /\ NoEdit \in EditRecord /\ NoEdit.pc = "idle" /\ NoEdit.new = DefaultConfig
<1>1. Shipped \in Entry
  BY ConfigAssumption DEF Shipped, Entry
<1>2. DefaultConfig \in Config
  BY <1>1 DEF DefaultConfig, Config
<1>3. \A k \in Builtin : DefaultConfig[k] = Shipped
  BY ConfigAssumption DEF DefaultConfig
<1>4. HasBuiltins(DefaultConfig)
  BY <1>1, <1>3, ConfigAssumption DEF HasBuiltins
<1>5. (CHOOSE k \in Keys : TRUE) \in Keys
  BY ConfigAssumption
<1>6. QED
  BY <1>2, <1>4, <1>5 DEF NoEdit, EditRecord

LEMMA EditMoved ==
    ASSUME ed \in [Editors -> EditRecord], NEW e \in Editors,
           NEW pc \in {"idle", "file", "swap", "persist", "truncate", "write", "persist_locked"},
           ed' = [ed EXCEPT ![e].pc = pc]
    PROVE  /\ ed' \in [Editors -> EditRecord]
           /\ ed'[e].pc = pc /\ ed'[e].k = ed[e].k /\ ed'[e].new = ed[e].new
           /\ \A d \in Editors : d # e => ed'[d] = ed[d]
  BY DEF EditRecord

LEMMA EditPlaced ==
    ASSUME ed \in [Editors -> EditRecord], NEW e \in Editors, NEW r \in EditRecord, ed' = [ed EXCEPT ![e] = r]
    PROVE  /\ ed' \in [Editors -> EditRecord] /\ ed'[e] = r
           /\ \A d \in Editors : d # e => ed'[d] = ed[d]
  OBVIOUS

(* The handlers reduce to one edit of a copying or of a locking manager,   *)
(* and no handler of a locking manager takes a built-in entry away.        *)
LEMMA EditForm ==
    ASSUME StoresTypeOK, NEW e \in Editors, Edit(e)
    PROVE  \E k \in Keys, entry \in Entry \cup {Missing} :
             \/ mgr \in Copying /\ BeginCopy(e, k, entry)
             \/ /\ mgr \in Locking /\ BeginLocked(e, k, entry)
                /\ k \in Builtin \/ mgr = "org" => entry # Missing
<1>1. PICK k \in Keys, v \in Vals :
        \/ PeopleRequest(e, k, v) \/ PutAuthConfig(e, k, v)
        \/ \E key \in BOOLEAN : UpsertAuthProvider(e, k, v, key) \/ ProviderRequest(e, k, v, key)
        \/ PutAuthorization(e, k, v) \/ PutApprovalRouting(e, k, v)
        \/ PutPrompts(e, k, v) \/ PutDesensitization(e, k, v)
        \/ AgentRoleRequest(e, k, v)
        \/ OrganizationRequest(e, k, v) \/ TenantRequest(e, k, v) \/ WorkspaceRequest(e, k, v)
  BY DEF Edit
<1>2. \A key \in BOOLEAN : [val |-> v, key |-> key] \in Entry /\ [val |-> v, key |-> key] # Missing
  BY ConfigAssumption DEF Entry
<1>3. mem # Missing => (mem[k] # Missing => mem[k].key \in BOOLEAN)
  BY DEF StoresTypeOK, Config, Entry
<1>4. CASE \E key \in BOOLEAN : UpsertAuthProvider(e, k, v, key) \/ ProviderRequest(e, k, v, key)
  <2>1. PICK key \in BOOLEAN : mgr \in Copying /\ BeginCopy(e, k, [val |-> v, key |-> key])
    <3>1. CASE \E key \in BOOLEAN : UpsertAuthProvider(e, k, v, key)
      BY <1>3, <3>1 DEF UpsertAuthProvider, Copying
    <3>2. ASSUME NEW key \in BOOLEAN, mem # Missing
          PROVE  \E kept \in BOOLEAN :
                    MergeProviderSecrets(mem, [mem EXCEPT ![k] = [val |-> v, key |-> key]])[k] = [val |-> v, key |-> kept]
      <4>. DEFINE in == [mem EXCEPT ![k] = [val |-> v, key |-> key]]
      <4>1. in[k] = [val |-> v, key |-> key]
        BY <3>2 DEF StoresTypeOK, Config
      <4>2. MergeProviderSecrets(mem, in)[k] = IF hasFile /\ mem[k] # Missing /\ in[k] # Missing
                                               THEN [in[k] EXCEPT !.key = @ \/ mem[k].key] ELSE in[k]
        BY DEF MergeProviderSecrets
      <4>. HIDE DEF in
      <4>3. QED
        BY <1>3, <3>2, <4>1, <4>2 DEF in
    <3>3. CASE \E key \in BOOLEAN : ProviderRequest(e, k, v, key)
      <4>1. PICK key \in BOOLEAN : mem # Missing /\ mgr = "providers" /\ PutProviders(e, k, v, key)
        BY <1>3, <3>3 DEF ProviderRequest, PutProviders
      <4>2. QED
        BY <3>2, <4>1 DEF PutProviders, Copying
    <3>4. QED
      BY <1>4, <3>1, <3>3
  <2>2. QED
    BY <1>2, <2>1
<1>5. CASE \/ PeopleRequest(e, k, v) \/ PutAuthConfig(e, k, v)
           \/ PutAuthorization(e, k, v) \/ PutApprovalRouting(e, k, v)
           \/ PutPrompts(e, k, v) \/ PutDesensitization(e, k, v)
  <2>1. mgr \in Copying /\ BeginCopy(e, k, [val |-> v, key |-> FALSE])
    BY <1>5 DEF PeopleRequest, AccessUpsert, AccessSwitch, PutAuthConfig, PutAuthorization, PutApprovalRouting,
                PutPrompts, PutDesensitization, Copying
  <2>2. QED
    BY <1>2, <2>1
<1>6. CASE \/ AgentRoleRequest(e, k, v)
           \/ OrganizationRequest(e, k, v) \/ TenantRequest(e, k, v) \/ WorkspaceRequest(e, k, v)
  <2>1. /\ mgr \in Locking
        /\ \/ BeginLocked(e, k, [val |-> v, key |-> FALSE])
           \/ BeginLocked(e, k, Missing) /\ k \notin Builtin /\ mgr # "org"
    BY <1>6 DEF AgentRoleRequest, CreateRole, UpdateRole, SetRoleEnabled, DeleteRole, OrganizationRequest,
                TenantRequest, WorkspaceRequest, CreateOrgEntry, UpdateOrgEntry, Locking
  <2>2. QED
    BY <1>2, <2>1
<1>7. QED
  BY <1>1, <1>4, <1>5, <1>6

(* A boot adds nothing to a configuration that has its built-in entries.   *)
LEMMA EnsureKept ==
    ASSUME mgr \in Managers, NEW cf \in Config, HasBuiltins(cf)
    PROVE  EnsureBuiltin(cf) = cf
<1>1. CASE mgr = "agent_roles"
  <2>1. [k \in Keys |-> IF k \in Builtin /\ cf[k] = Missing THEN Shipped ELSE cf[k]] = cf
    BY <1>1 DEF HasBuiltins, Config
  <2>2. QED
    BY <1>1, <2>1 DEF EnsureBuiltin
<1>2. CASE mgr = "org"
  <2>1. (\A k \in Keys : cf[k] = Missing) => DefaultConfig = cf
    BY <1>2, ConfigAssumption DEF HasBuiltins, Config, DefaultConfig
  <2>2. QED
    BY <1>2, <2>1 DEF EnsureBuiltin
<1>3. CASE mgr \notin {"agent_roles", "org"}
  BY <1>3 DEF EnsureBuiltin
<1>4. QED
  BY <1>1, <1>2, <1>3

(* And what it comes up with has them.                                     *)
LEMMA EnsureGives ==
    ASSUME mgr \in Managers, NEW cf \in Config
    PROVE  EnsureBuiltin(cf) \in Config /\ HasBuiltins(EnsureBuiltin(cf))
<1>0. Shipped \in Entry /\ Shipped # Missing
  <2>1. Shipped \in Entry
    BY ConfigAssumption DEF Shipped, Entry
  <2>2. QED
    BY <2>1, ConfigAssumption
<1>1. CASE mgr = "agent_roles"
  <2>. DEFINE filled == [k \in Keys |-> IF k \in Builtin /\ cf[k] = Missing THEN Shipped ELSE cf[k]]
  <2>1. filled \in Config /\ \A k \in Builtin : filled[k] # Missing
    BY <1>0, ConfigAssumption DEF Config
  <2>2. EnsureBuiltin(cf) = filled
    BY <1>1 DEF EnsureBuiltin
  <2>3. QED
    BY <1>1, <2>1, <2>2 DEF HasBuiltins
<1>2. CASE mgr = "org"
  <2>1. CASE \A k \in Keys : cf[k] = Missing
    BY <1>2, <2>1, DefaultShape DEF EnsureBuiltin
  <2>2. CASE \E k \in Keys : cf[k] # Missing
    BY <1>2, <2>2 DEF EnsureBuiltin, HasBuiltins
  <2>3. QED
    BY <2>1, <2>2
<1>3. CASE mgr \notin {"agent_roles", "org"}
  BY <1>3 DEF EnsureBuiltin, HasBuiltins
<1>4. QED
  BY <1>1, <1>2, <1>3

(* What explained an entry still does when more was begun.                 *)
LEMMA KeptGrows ==
    ASSUME NEW past, NEW later, NEW merges, NEW cf, \A k \in Keys : past[k] \subseteq later[k],
           KeptBy(past, merges, cf)
    PROVE  KeptBy(later, merges, cf)
  BY DEF KeptBy, Explains

(* Two explained configurations merge into one.                            *)
LEMMA MergeKept ==
    ASSUME NEW existing \in Config, NEW incoming \in Config,
           NEW past \in [Keys -> SUBSET (Entry \cup {Missing})]
    PROVE  LET merged == MergeProviderSecrets(existing, incoming) IN
           /\ merged \in Config
           /\ ~hasFile => merged = incoming
           /\ KeptBy(past, TRUE, existing) /\ KeptBy(past, TRUE, incoming) => KeptBy(past, TRUE, merged)
<1>. DEFINE merged == MergeProviderSecrets(existing, incoming)
            both(k) == hasFile /\ existing[k] # Missing /\ incoming[k] # Missing
<1>1. \A k \in Keys : merged[k] = IF both(k) THEN [incoming[k] EXCEPT !.key = @ \/ existing[k].key] ELSE incoming[k]
  BY DEF MergeProviderSecrets
<1>2. \A k \in Keys : both(k) => /\ incoming[k] \in Entry /\ existing[k] \in Entry
                                  /\ merged[k] = [val |-> incoming[k].val, key |-> incoming[k].key \/ existing[k].key]
  BY <1>1 DEF Config, Entry
<1>3. \A k \in Keys : merged[k] \in Entry \cup {Missing}
  BY <1>1, <1>2 DEF Config, Entry
<1>4. merged \in Config
  BY <1>3 DEF MergeProviderSecrets, Config
<1>5. ~hasFile => merged = incoming
  BY DEF MergeProviderSecrets, Config
<1>6. ASSUME KeptBy(past, TRUE, existing), KeptBy(past, TRUE, incoming), NEW k \in Keys
      PROVE  Explains(past[k], TRUE, merged[k])
  <2>1. Explains(past[k], TRUE, existing[k]) /\ Explains(past[k], TRUE, incoming[k])
    BY <1>6 DEF KeptBy
  <2>2. CASE ~both(k)
    BY <1>1, <2>1, <2>2
  <2>3. CASE both(k)
    <3>0. ASSUME NEW x \in Entry, Explains(past[k], TRUE, x), x # Missing
          PROVE  /\ \E a \in past[k] \ {Missing} : a.val = x.val
                 /\ \E b \in past[k] \ {Missing} : b.key = x.key
      <4>1. CASE x \in past[k]
        BY <3>0, <4>1
      <4>2. CASE \E content, keyed \in past[k] \ {Missing} : x = [val |-> content.val, key |-> keyed.key]
        <5>1. PICK content \in past[k] \ {Missing}, keyed \in past[k] \ {Missing} :
                      x = [val |-> content.val, key |-> keyed.key]
          BY <4>2
        <5>2. x.val = content.val /\ x.key = keyed.key
          BY <5>1
        <5>3. QED
          BY <5>2
      <4>3. QED
        BY <3>0, <4>1, <4>2 DEF Explains
    <3>1. PICK a \in past[k] \ {Missing} : a.val = incoming[k].val
      BY <1>2, <2>1, <2>3, <3>0
    <3>2. PICK b \in past[k] \ {Missing} : b.key = incoming[k].key
      BY <1>2, <2>1, <2>3, <3>0
    <3>3. PICK c \in past[k] \ {Missing} : c.key = existing[k].key
      BY <1>2, <2>1, <2>3, <3>0
    <3>4. incoming[k].key \in BOOLEAN /\ existing[k].key \in BOOLEAN
      BY <1>2, <2>3 DEF Entry
    <3>5. (incoming[k].key \/ existing[k].key) \in {b.key, c.key}
      BY <3>2, <3>3, <3>4
    <3>6. \E d \in past[k] \ {Missing} : merged[k] = [val |-> a.val, key |-> d.key]
      BY <1>2, <2>3, <3>1, <3>2, <3>3, <3>5
    <3>7. QED
      BY <3>1, <3>6 DEF Explains
  <2>4. QED
    BY <2>2, <2>3
<1>7. QED
  BY <1>4, <1>5, <1>6 DEF KeptBy

(* What a boot comes up with.                                              *)
LEMMA RestoredIs ==
    ASSUME StoresInv, file # Torn \/ doc # Missing
    PROVE  /\ Restored \in Config /\ HasBuiltins(Restored)
           /\ doc # Missing /\ mgr # "providers" => Restored = doc
           /\ Calm /\ (doc # Missing \/ torn = "whole") => Kept(Restored)
<1>1. mgr \in Managers /\ mgr \in Copying \cup Locking /\ StoresTypeOK
  BY DEF StoresInv, StoresTypeOK, Managers
<1>2. CASE doc # Missing /\ mgr # "providers"
  <2>1. doc \in Config /\ HasBuiltins(doc)
    BY <1>2 DEF StoresInv, StoresTypeOK, StoresComplete
  <2>2. Restored = doc
    BY <1>1, <1>2, <2>1, EnsureKept DEF Restored
  <2>3. QED
    BY <1>2, <2>1, <2>2 DEF StoresInv, StoresKept
<1>3. CASE doc = Missing /\ file = Missing
  <2>1. Restored = DefaultConfig
    BY <1>3 DEF Restored, Reloaded
  <2>2. QED
    BY <1>3, <2>1, DefaultShape DEF StoresInv, StoresKept
<1>4. CASE doc = Missing /\ file # Missing
  <2>1. file \in Config
    BY <1>4 DEF StoresInv, StoresTypeOK
  <2>2. Restored = EnsureBuiltin(file)
    BY <1>4 DEF Restored, Reloaded
  <2>3. torn = "whole" => Restored = file
    BY <1>1, <1>4, <2>1, <2>2, EnsureKept DEF StoresInv, StoresComplete
  <2>4. QED
    BY <1>1, <1>4, <2>1, <2>2, <2>3, EnsureGives DEF StoresInv, StoresKept
<1>5. CASE doc # Missing /\ mgr = "providers"
  <2>1. /\ doc \in Config /\ mgr \in Copying /\ file # Torn /\ torn = "whole"
        /\ last \in [Keys -> SUBSET (Entry \cup {Missing})]
    BY <1>1, <1>5 DEF Copying, StoresInv, StoresShape, StoresTypeOK
  <2>2. Restored = MergeProviderSecrets(Reloaded, doc)
    BY <1>5 DEF Restored
  <2>3. Reloaded \in Config /\ (file # Missing => Reloaded = file)
    BY <1>1, <1>5, <2>1, DefaultShape DEF Reloaded, EnsureBuiltin, StoresTypeOK
  <2>4. HasBuiltins(Restored)
    BY <1>5 DEF HasBuiltins
  <2>5. Restored \in Config /\ (~hasFile => Restored = doc)
    BY <2>1, <2>2, <2>3, MergeKept
  <2>6. ASSUME Calm PROVE Kept(Restored)
    <3>1. Kept(doc) /\ (hasFile => Kept(Reloaded))
      BY <1>5, <2>1, <2>3, <2>6 DEF StoresInv, StoresKept, StoresShape
    <3>2. mgr = "providers" <=> TRUE
      BY <1>5
    <3>3. KeptBy(last, TRUE, doc) /\ (hasFile => KeptBy(last, TRUE, Reloaded))
      BY <1>5, <3>1 DEF Kept
    <3>4. KeptBy(last, TRUE, Restored)
      BY <2>1, <2>2, <2>3, <2>5, <3>3, MergeKept
    <3>5. QED
      BY <1>5, <3>4 DEF Kept
  <2>7. QED
    BY <1>5, <2>4, <2>5, <2>6
<1>6. QED
  BY <1>2, <1>3, <1>4, <1>5

(* Every step keeps the invariant.                                         *)
LEMMA StoresStep == StoresInv /\ [StoresNext]_storeVars => StoresInv'
<1>. SUFFICES ASSUME StoresInv, [StoresNext]_storeVars PROVE StoresInv'
  OBVIOUS
<1>0. /\ StoresTypeOK /\ StoresShape /\ StoresComplete /\ StoresKept
      /\ mgr \in Copying \cup Locking /\ ed \in [Editors -> EditRecord]
  BY DEF StoresInv, StoresTypeOK, Managers, EditRecord
<1>a. Copying \cap Locking = {}
  BY DEF Copying, Locking
<1>c. ASSUME NEW e \in Editors, ed' = [ed EXCEPT ![e] = NoEdit],
             UNCHANGED <<mgr, hasFile, hasDB, mem, file, doc, last, begun, torn, raced>>
      PROVE  StoresInv'
  <2>1. /\ ed' \in [Editors -> EditRecord] /\ ed'[e].pc = "idle" /\ ed'[e].new = DefaultConfig
        /\ \A d \in Editors : d # e => ed'[d] = ed[d]
    BY <1>0, <1>c, DefaultShape, EditPlaced
  <2>2. StoresTypeOK'
    BY <1>0, <1>c, <2>1 DEF StoresTypeOK, EditRecord
  <2>3. StoresShape'
    BY <1>0, <1>c, <2>1 DEF StoresShape
  <2>4. StoresComplete'
    BY <1>0, <1>c, <2>1, DefaultShape DEF StoresComplete, HasBuiltins
  <2>5. StoresKept'
    BY <1>0, <1>c, <2>1 DEF StoresKept, Kept, Calm
  <2>6. QED
    BY <2>2, <2>3, <2>4, <2>5 DEF StoresInv
<1>1. ASSUME NEW e \in Editors, NEW k \in Keys, NEW entry \in Entry \cup {Missing},
             mgr \in Copying, BeginCopy(e, k, entry)
      PROVE  StoresInv'
  <2>. DEFINE new == [mem EXCEPT ![k] = entry]
              r == [pc |-> IF hasFile THEN "file" ELSE "swap", k |-> k, new |-> new]
  <2>1. /\ mem # Missing /\ mem \in Config /\ ed[e].pc = "idle" /\ begun < MaxBegun
        /\ raced' = (raced \/ \E other \in Editors : ed[other].pc # "idle")
        /\ ed' = [ed EXCEPT ![e] = r] /\ last' = [last EXCEPT ![k] = @ \cup {entry}] /\ begun' = begun + 1
        /\ UNCHANGED <<mgr, hasFile, hasDB, mem, file, doc, torn>>
    BY <1>0, <1>1 DEF BeginCopy, BeginEdit, StoresTypeOK
  <2>2. new \in Config /\ new[k] = entry /\ \A j \in Keys : j # k => new[j] = mem[j]
    BY <2>1, ConfigEdited
  <2>. HIDE DEF new
  <2>3. r \in EditRecord /\ r.new = new /\ r.k = k /\ r.pc = IF hasFile THEN "file" ELSE "swap"
    BY <2>2 DEF EditRecord
  <2>. HIDE DEF r
  <2>4. ed' \in [Editors -> EditRecord] /\ ed'[e] = r /\ \A d \in Editors : d # e => ed'[d] = ed[d]
    BY <1>0, <2>1, <2>3, EditPlaced
  <2>5. last' \in [Keys -> SUBSET (Entry \cup {Missing})] /\ last'[k] = last[k] \cup {entry}
        /\ \A j \in Keys : last[j] \subseteq last'[j]
    BY <1>0, <2>1 DEF StoresTypeOK
  <2>6. StoresTypeOK'
    BY <1>0, <2>1, <2>4, <2>5, ConfigAssumption DEF StoresTypeOK, EditRecord
  <2>7. StoresShape'
    BY <1>0, <1>1, <1>a, <2>1, <2>3, <2>4 DEF StoresShape
  <2>8. StoresComplete'
    <3>1. mgr # "agent_roles" /\ mgr # "org"
      BY <1>1 DEF Copying
    <3>2. QED
      BY <2>1, <3>1 DEF StoresComplete, HasBuiltins
  <2>9. StoresKept'
    <3>. SUFFICES ASSUME Calm' PROVE StoresKept'
      BY DEF StoresKept
    <3>1. Calm /\ \A d \in Editors : ed[d].pc = "idle"
      BY <1>1, <1>a, <2>1 DEF Calm
    <3>. DEFINE stays(cf) == KeptBy(last', mgr = "providers", cf)
    <3>2. \A cf : Kept(cf) => stays(cf)
      BY <2>5, KeptGrows DEF Kept
    <3>3. stays(new)
      <4>1. stays(mem)
        BY <1>0, <2>1, <3>1, <3>2 DEF StoresKept
      <4>2. QED
        BY <2>2, <2>5, <4>1 DEF KeptBy, Explains
    <3>4. /\ mem # Missing => stays(mem)
          /\ doc # Missing => stays(doc)
          /\ torn = "whole" /\ file # Missing => stays(file)
          /\ file = Missing /\ doc = Missing => stays(DefaultConfig)
      BY <1>0, <3>1, <3>2 DEF StoresKept
    <3>5. file # Missing <=> hasFile
      BY <1>0 DEF StoresShape
    <3>6. QED
      BY <2>1, <2>3, <2>4, <3>1, <3>3, <3>4, <3>5 DEF StoresKept, Kept
  <2>10. QED
    BY <2>6, <2>7, <2>8, <2>9 DEF StoresInv
<1>2. ASSUME NEW e \in Editors, NEW k \in Keys, NEW entry \in Entry \cup {Missing},
             mgr \in Locking, BeginLocked(e, k, entry), k \in Builtin \/ mgr = "org" => entry # Missing
      PROVE  StoresInv'
  <2>. DEFINE new == [mem EXCEPT ![k] = entry]
              r == [pc |-> IF hasFile THEN "truncate" ELSE "persist_locked", k |-> k, new |-> new]
  <2>1. /\ mem # Missing /\ mem \in Config /\ ed[e].pc = "idle" /\ begun < MaxBegun /\ Holder = {}
        /\ ed' = [ed EXCEPT ![e] = r] /\ last' = [last EXCEPT ![k] = @ \cup {entry}] /\ begun' = begun + 1
        /\ mem' = new
        /\ UNCHANGED <<mgr, hasFile, hasDB, file, doc, torn, raced>>
    BY <1>0, <1>2 DEF BeginLocked, BeginEdit, StoresTypeOK
  <2>2. new \in Config /\ new[k] = entry /\ \A j \in Keys : j # k => new[j] = mem[j]
    <3>1. mem \in Config
      BY <2>1
    <3>2. QED
      BY <3>1, ConfigEdited
  <2>. HIDE DEF new
  <2>3. r \in EditRecord /\ r.new = new /\ r.k = k /\ r.pc = IF hasFile THEN "truncate" ELSE "persist_locked"
    BY <2>2 DEF EditRecord
  <2>. HIDE DEF r
  <2>4. ed' \in [Editors -> EditRecord] /\ ed'[e] = r /\ \A d \in Editors : d # e => ed'[d] = ed[d]
    BY <1>0, <2>1, <2>3, EditPlaced
  <2>5. last' \in [Keys -> SUBSET (Entry \cup {Missing})] /\ last'[k] = last[k] \cup {entry}
        /\ \A j \in Keys : last[j] \subseteq last'[j]
    BY <1>0, <2>1 DEF StoresTypeOK
  <2>6. StoresTypeOK'
    BY <1>0, <2>1, <2>2, <2>4, <2>5, ConfigAssumption DEF StoresTypeOK, EditRecord
  <2>7. new # Missing /\ \A d \in Editors : ed[d].pc = "idle"
    BY <1>0, <1>2, <1>a, <2>1, <2>2, ConfigAssumption DEF StoresShape, Holder
  <2>8. StoresShape'
    BY <1>0, <1>2, <1>a, <2>1, <2>3, <2>4, <2>7 DEF StoresShape
  <2>9. StoresComplete'
    <3>1. HasBuiltins(new)
      BY <1>0, <1>2, <2>1, <2>2, ConfigAssumption DEF StoresComplete, HasBuiltins
    <3>2. QED
      BY <1>0, <1>2, <2>1, <2>3, <2>4, <3>1 DEF StoresComplete, HasBuiltins
  <2>10. StoresKept'
    <3>. SUFFICES ASSUME Calm' PROVE StoresKept'
      BY DEF StoresKept
    <3>1. Calm
      BY <2>1 DEF Calm
    <3>. DEFINE stays(cf) == KeptBy(last', mgr = "providers", cf)
    <3>2. \A cf : Kept(cf) => stays(cf)
      BY <2>5, KeptGrows DEF Kept
    <3>3. stays(new)
      <4>1. stays(mem)
        BY <1>0, <2>1, <3>1, <3>2 DEF StoresKept
      <4>2. QED
        BY <2>2, <2>5, <4>1 DEF KeptBy, Explains
    <3>4. /\ doc # Missing => stays(doc)
          /\ torn = "whole" /\ file # Missing => stays(file)
          /\ file = Missing /\ doc = Missing => stays(DefaultConfig)
      BY <1>0, <3>1, <3>2 DEF StoresKept
    <3>5. QED
      BY <2>1, <2>3, <2>4, <2>7, <3>1, <3>3, <3>4 DEF StoresKept, Kept
  <2>11. QED
    BY <2>6, <2>8, <2>9, <2>10 DEF StoresInv
<1>3. ASSUME NEW e \in Editors, WriteFileAtomically(e), mgr \in Copying PROVE StoresInv'
  <2>1. /\ ed[e].pc = "file" /\ ed[e].new \in Config /\ hasFile
        /\ last' = last /\ UNCHANGED <<mgr, hasFile, hasDB, mem, doc, begun, torn, raced>>
    BY <1>0, <1>3 DEF WriteFileAtomically, Move, Refuse, StoresShape, EditRecord
  <2>2. CASE file' = ed[e].new /\ ed' = [ed EXCEPT ![e].pc = "swap"]
    <3>1. /\ ed' \in [Editors -> EditRecord]
          /\ ed'[e].pc = "swap" /\ ed'[e].k = ed[e].k /\ ed'[e].new = ed[e].new
          /\ \A d \in Editors : d # e => ed'[d] = ed[d]
      BY <1>0, <2>2, EditMoved
    <3>2. StoresTypeOK'
      BY <1>0, <2>1, <2>2, <3>1 DEF StoresTypeOK, EditRecord
    <3>3. StoresShape'
      BY <1>0, <1>3, <1>a, <2>1, <2>2, <3>1, ConfigAssumption DEF StoresShape
    <3>4. StoresComplete'
      BY <1>0, <2>1, <2>2, <3>1 DEF StoresComplete, HasBuiltins
    <3>5. StoresKept'
      BY <1>0, <2>1, <2>2, <3>1, ConfigAssumption DEF StoresKept, StoresShape, Kept, Calm
    <3>6. QED
      BY <3>2, <3>3, <3>4, <3>5 DEF StoresInv
  <2>3. CASE file' = file /\ ed' = [ed EXCEPT ![e] = NoEdit]
    BY <1>c, <2>1, <2>3
  <2>4. QED
    BY <1>3, <2>2, <2>3 DEF WriteFileAtomically, Move, Refuse
<1>4. ASSUME NEW e \in Editors, SwapConfig(e), mgr \in Copying PROVE StoresInv'
  <2>1. /\ ed[e].pc = "swap" /\ ed[e].new \in Config /\ mem' = ed[e].new /\ ed' = [ed EXCEPT ![e].pc = "persist"]
        /\ last' = last /\ UNCHANGED <<mgr, hasFile, hasDB, file, doc, begun, torn, raced>>
    BY <1>0, <1>4 DEF SwapConfig, Move, EditRecord
  <2>2. /\ ed' \in [Editors -> EditRecord]
        /\ ed'[e].pc = "persist" /\ ed'[e].k = ed[e].k /\ ed'[e].new = ed[e].new
        /\ \A d \in Editors : d # e => ed'[d] = ed[d]
    BY <1>0, <2>1, EditMoved
  <2>3. StoresTypeOK'
    BY <1>0, <2>1, <2>2 DEF StoresTypeOK, EditRecord
  <2>4. StoresShape'
    BY <1>0, <1>4, <1>a, <2>1, <2>2, ConfigAssumption DEF StoresShape
  <2>5. StoresComplete'
    BY <1>0, <2>1, <2>2 DEF StoresComplete, HasBuiltins
  <2>6. StoresKept'
    BY <1>0, <2>1, <2>2 DEF StoresKept, Kept, Calm
  <2>7. QED
    BY <2>3, <2>4, <2>5, <2>6 DEF StoresInv
<1>5. ASSUME NEW e \in Editors, NEW pc \in {"persist", "persist_locked"}, SaveDocument(e, pc) PROVE StoresInv'
  <2>1. /\ ed[e].pc = pc /\ ed[e].new \in Config /\ ed[e].k \in Keys
        /\ UNCHANGED <<mgr, hasFile, hasDB, mem, file, begun, torn, raced>>
    BY <1>0, <1>5 DEF SaveDocument, EditRecord
  <2>2. CASE doc' = ed[e].new /\ Ack(e)
    <3>. DEFINE k == ed[e].k
                new == ed[e].new
    <3>1. ed' = [ed EXCEPT ![e] = NoEdit] /\ last' = [last EXCEPT ![k] = {new[k]}]
      BY <2>2 DEF Ack
    <3>2. ed' \in [Editors -> EditRecord] /\ ed'[e] = NoEdit /\ \A d \in Editors : d # e => ed'[d] = ed[d]
      BY <1>0, <3>1, DefaultShape, EditPlaced
    <3>3. /\ last' \in [Keys -> SUBSET (Entry \cup {Missing})] /\ last'[k] = {new[k]}
          /\ \A j \in Keys : j # k => last'[j] = last[j]
      BY <1>0, <2>1, <3>1 DEF StoresTypeOK, Config
    <3>. HIDE DEF k, new
    <3>4. StoresTypeOK'
      BY <1>0, <2>1, <2>2, <3>2, <3>3 DEF StoresTypeOK, EditRecord
    <3>5. StoresShape'
      BY <1>0, <2>1, <3>2, DefaultShape DEF StoresShape
    <3>6. StoresComplete'
      BY <1>0, <2>1, <2>2, <3>2, DefaultShape DEF StoresComplete, HasBuiltins
    <3>7. StoresKept'
      <4>. SUFFICES ASSUME Calm' PROVE StoresKept'
        BY DEF StoresKept
      <4>1. Calm /\ doc' # Missing
        BY <2>1, <2>2, ConfigAssumption DEF Calm
      <4>2. mem = new /\ (hasFile => file = new) /\ Kept(new)
        BY <1>0, <2>1, <4>1 DEF StoresKept, new
      <4>3. KeptBy(last', mgr = "providers", new)
        BY <3>3, <4>2 DEF Kept, KeptBy, Explains
      <4>4. \A d \in Editors : ed'[d].pc = "idle"
        BY <1>0, <2>1, <3>2, <4>1, DefaultShape DEF StoresKept
      <4>5. hasFile <=> file # Missing
        BY <1>0 DEF StoresShape
      <4>6. QED
        BY <2>1, <2>2, <4>1, <4>2, <4>3, <4>4, <4>5 DEF StoresKept, Kept, new
    <3>8. QED
      BY <3>4, <3>5, <3>6, <3>7 DEF StoresInv
  <2>3. CASE doc' = doc /\ Refuse(e)
    BY <1>c, <2>1, <2>3 DEF Refuse
  <2>4. QED
    BY <1>5, <2>2, <2>3 DEF SaveDocument
<1>6. ASSUME NEW e \in Editors, TruncateFile(e), mgr \in Locking PROVE StoresInv'
  <2>1. /\ ed[e].pc = "truncate" /\ hasFile
        /\ last' = last /\ UNCHANGED <<mgr, hasFile, hasDB, mem, doc, begun, raced>>
    BY <1>0, <1>6 DEF TruncateFile, Move, Refuse, StoresShape
  <2>2. CASE file' \in CutOff(ed[e].new) \cup {Torn} /\ FileIs("cut") /\ ed' = [ed EXCEPT ![e].pc = "write"]
    <3>0. /\ file' \in Config \cup {Torn} /\ file' # Missing
          /\ torn' \in {"cut", "lost"} /\ (torn' = "lost" <=> torn = "lost")
      BY <1>0, <2>2, ConfigAssumption DEF CutOff, FileIs, Config, EditRecord, StoresTypeOK
    <3>1. /\ ed' \in [Editors -> EditRecord]
          /\ ed'[e].pc = "write" /\ ed'[e].k = ed[e].k /\ ed'[e].new = ed[e].new
          /\ \A d \in Editors : d # e => ed'[d] = ed[d]
      BY <1>0, <2>2, EditMoved
    <3>2. StoresTypeOK'
      BY <1>0, <2>1, <3>0, <3>1 DEF StoresTypeOK, EditRecord
    <3>3. StoresShape'
      BY <1>0, <1>6, <1>a, <2>1, <3>0, <3>1 DEF StoresShape
    <3>4. StoresComplete'
      BY <1>0, <2>1, <3>0, <3>1 DEF StoresComplete, HasBuiltins
    <3>5. StoresKept'
      BY <1>0, <1>6, <1>a, <2>1, <3>0, <3>1 DEF StoresKept, Kept, Calm
    <3>6. QED
      BY <3>2, <3>3, <3>4, <3>5 DEF StoresInv
  <2>3. CASE file' = file /\ torn' = torn /\ ed' = [ed EXCEPT ![e] = NoEdit]
    BY <1>c, <2>1, <2>3
  <2>4. QED
    BY <1>6, <2>2, <2>3 DEF TruncateFile, Move, Refuse
<1>7. ASSUME NEW e \in Editors, WriteFile(e), mgr \in Locking PROVE StoresInv'
  <2>1. /\ ed[e].pc = "write" /\ hasFile /\ ed[e].new \in Config
        /\ last' = last /\ UNCHANGED <<mgr, hasFile, hasDB, mem, doc, begun, raced>>
    BY <1>0, <1>7 DEF WriteFile, Move, Refuse, StoresShape, EditRecord
  <2>2. CASE file' = ed[e].new /\ FileIs("whole") /\ ed' = [ed EXCEPT ![e].pc = "persist_locked"]
    <3>0. torn' \in {"whole", "lost"} /\ (torn' = "lost" <=> torn = "lost")
      BY <2>2 DEF FileIs
    <3>1. /\ ed' \in [Editors -> EditRecord]
          /\ ed'[e].pc = "persist_locked" /\ ed'[e].k = ed[e].k /\ ed'[e].new = ed[e].new
          /\ \A d \in Editors : d # e => ed'[d] = ed[d]
      BY <1>0, <2>2, EditMoved
    <3>a. \A d \in Editors : d # e /\ ed[d].pc = "write" => torn' = "lost"
      BY <1>0, <1>7, <1>a, <2>1, <3>0 DEF StoresKept, Calm
    <3>2. StoresTypeOK'
      BY <1>0, <2>1, <2>2, <3>0, <3>1 DEF StoresTypeOK, EditRecord
    <3>3. StoresShape'
      BY <1>0, <1>7, <1>a, <2>1, <2>2, <3>0, <3>1, <3>a, ConfigAssumption DEF StoresShape
    <3>4. StoresComplete'
      BY <1>0, <2>1, <2>2, <3>0, <3>1 DEF StoresComplete, HasBuiltins
    <3>5. StoresKept'
      BY <1>0, <1>7, <1>a, <2>1, <2>2, <3>0, <3>1, ConfigAssumption DEF StoresKept, Kept, Calm
    <3>6. QED
      BY <3>2, <3>3, <3>4, <3>5 DEF StoresInv
  <2>3. CASE file' = file /\ torn' = torn /\ ed' = [ed EXCEPT ![e] = NoEdit]
    BY <1>c, <2>1, <2>3
  <2>4. QED
    BY <1>7, <2>2, <2>3 DEF WriteFile, Move, Refuse
<1>8. CASE StoresCrash
  <2>1. /\ mem' = Missing /\ doc' = (IF hasDB THEN doc ELSE Missing) /\ ed' = [d \in Editors |-> NoEdit]
        /\ UNCHANGED <<mgr, hasFile, hasDB, file, last, begun, torn, raced>>
    BY <1>8 DEF StoresCrash
  <2>2. ed' \in [Editors -> EditRecord] /\ \A d \in Editors : ed'[d].pc = "idle" /\ ed'[d].new = DefaultConfig
    BY <2>1, DefaultShape
  <2>3. StoresTypeOK'
    BY <1>0, <2>1, <2>2 DEF StoresTypeOK, EditRecord
  <2>4. StoresShape'
    BY <1>0, <2>1, <2>2 DEF StoresShape
  <2>5. StoresComplete'
    BY <1>0, <2>1, <2>2, DefaultShape DEF StoresComplete, HasBuiltins
  <2>6. StoresKept'
    BY <1>0, <2>1, <2>2 DEF StoresKept, StoresShape, Kept, Calm
  <2>7. QED
    BY <2>3, <2>4, <2>5, <2>6 DEF StoresInv
<1>9. CASE StoresBoot
  <2>1. /\ mem = Missing /\ file # Torn
        /\ torn' = IF torn = "cut" /\ doc = Missing THEN "lost" ELSE torn
        /\ UNCHANGED <<mgr, hasFile, hasDB, ed, last, begun, raced>>
        /\ \/ /\ mem' = Restored /\ file' = file /\ doc' = doc
           \/ /\ doc # Missing /\ mgr \in Copying /\ file' = IF hasFile THEN Restored ELSE file
              /\ (mem' = Restored /\ doc' = Restored) \/ (mem' = mem /\ doc' = doc)
    BY <1>9 DEF StoresBoot, Copying
  <2>2. /\ Restored \in Config /\ HasBuiltins(Restored) /\ Restored \notin {Missing, Torn}
        /\ Calm /\ (doc # Missing \/ torn = "whole") => Kept(Restored)
    BY <2>1, RestoredIs, ConfigAssumption
  <2>. HIDE DEF Restored
  <2>3. StoresTypeOK'
    BY <1>0, <2>1, <2>2 DEF StoresTypeOK, EditRecord
  <2>4. StoresShape'
    BY <1>0, <2>1, <2>2 DEF StoresShape
  <2>5. StoresComplete'
    BY <1>0, <2>1, <2>2 DEF StoresComplete, HasBuiltins
  <2>6. StoresKept'
    <3>. SUFFICES ASSUME Calm' PROVE StoresKept'
      BY DEF StoresKept
    <3>1. \A d \in Editors : ed[d].pc = "idle"
      BY <1>0, <2>1 DEF StoresShape
    <3>2. Calm /\ (doc # Missing \/ torn = "whole") /\ (torn' = "whole" => torn = "whole")
      BY <1>0, <1>a, <2>1 DEF Calm, StoresTypeOK, StoresShape
    <3>3. \A cf : Kept(cf) => KeptBy(last', mgr' = "providers", cf)
      BY <2>1 DEF Kept
    <3>4. QED
      BY <1>0, <2>1, <2>2, <3>1, <3>2, <3>3 DEF StoresKept, StoresShape, Kept
  <2>7. QED
    BY <2>3, <2>4, <2>5, <2>6 DEF StoresInv
<1>10. CASE UNCHANGED storeVars
  BY <1>0, <1>10 DEF storeVars, StoresInv, StoresTypeOK, StoresShape, StoresComplete, StoresKept, HasBuiltins, Kept, Calm
<1>11. ASSUME NEW e \in Editors, Edit(e) PROVE StoresInv'
  BY <1>0, <1>1, <1>2, <1>11, EditForm
<1>12. ASSUME NEW e \in Editors, SaveStep(e) PROVE StoresInv'
  <2>1. \/ mgr \in Copying /\ (WriteFileAtomically(e) \/ SwapConfig(e) \/ SaveDocument(e, "persist"))
        \/ mgr \in Locking /\ (TruncateFile(e) \/ WriteFile(e) \/ SaveDocument(e, "persist_locked"))
    BY <1>12 DEF SaveStep, AccessSave, ProvidersSave, AuthorizationSave, ApprovalRoutingSave, PromptsSave,
                 DesensitizationSave, AgentRolesSave, OrgSave, CopySave, LockedSave, Copying, Locking
  <2>2. QED
    BY <1>3, <1>4, <1>5, <1>6, <1>7, <2>1
<1>13. QED
  BY <1>8, <1>9, <1>10, <1>11, <1>12 DEF StoresNext

\* Through concurrent edits, failed writes, crashes and boots, a server runs with,
\* and would come up with, the last acknowledged content of every entry or that of
\* an edit begun since, and never without its built-in agent roles (Save of the
\* eight managers, restoreRuntimeConfig, ensureBuiltinRoles).
THEOREM StoresCorrect == StoresSpec => []StoresSound
<1>1. StoresInit => StoresInv
  <2>. SUFFICES ASSUME StoresInit PROVE StoresInv
    OBVIOUS
  <2>1. /\ DefaultConfig \in Config /\ DefaultConfig # Missing /\ DefaultConfig # Torn
        /\ ed \in [Editors -> EditRecord] /\ \A e \in Editors : ed[e].pc = "idle" /\ ed[e].new = DefaultConfig
    BY DefaultShape, ConfigAssumption DEF StoresInit
  <2>2. last \in [Keys -> SUBSET (Entry \cup {Missing})] /\ Kept(DefaultConfig)
    BY <2>1 DEF StoresInit, Kept, KeptBy, Explains, Config
  <2>3. StoresTypeOK
    <3>1. mem \in Config \cup {Missing} /\ file \in Config \cup {Missing, Torn} /\ doc \in Config \cup {Missing}
      BY <2>1 DEF StoresInit
    <3>2. mgr \in Managers /\ begun \in 0 .. MaxBegun
      BY ConfigAssumption DEF StoresInit
    <3>3. hasFile \in BOOLEAN /\ hasDB \in BOOLEAN /\ torn = "whole" /\ raced \in BOOLEAN
      BY DEF StoresInit
    <3>4. QED
      BY <2>1, <2>2, <3>1, <3>2, <3>3 DEF StoresTypeOK, EditRecord
  <2>4. StoresShape
    BY <2>1, ConfigAssumption DEF StoresInit, StoresShape
  <2>5. StoresComplete
    BY <2>1, DefaultShape DEF StoresInit, StoresComplete
  <2>6. StoresKept
    BY <2>1, <2>2 DEF StoresInit, StoresKept
  <2>7. QED
    BY <2>3, <2>4, <2>5, <2>6 DEF StoresInv
<1>2. StoresInv => StoresSound
  <2>. SUFFICES ASSUME StoresInv PROVE StoresSound
    OBVIOUS
  <2>1. BuiltinRolesPresent
    BY DEF StoresInv, StoresComplete, HasBuiltins, BuiltinRolesPresent
  <2>2. AckedEditsKept
    <3>. SUFFICES ASSUME ~(mgr \in Copying /\ raced),
                         ~(mgr \in Locking /\ (torn = "lost" \/ (torn = "cut" /\ mem = Missing /\ doc = Missing)))
                  PROVE  Kept(IF mem = Missing THEN Restored ELSE mem)
      BY DEF AckedEditsKept, Kept, KeptBy
    <3>1. Calm /\ mgr \in Copying \cup Locking
      BY DEF Calm, StoresInv, StoresTypeOK, Managers
    <3>2. CASE mem # Missing
      BY <3>1, <3>2 DEF StoresInv, StoresKept
    <3>3. CASE mem = Missing
      <4>1. doc # Missing \/ torn = "whole"
        BY <3>1, <3>3 DEF StoresInv, StoresShape, StoresTypeOK
      <4>2. file # Torn \/ doc # Missing
        BY <4>1 DEF StoresInv, StoresShape
      <4>3. QED
        BY <3>1, <3>3, <4>1, <4>2, RestoredIs
    <3>4. QED
      BY <3>2, <3>3
  <2>3. QED
    BY <2>1, <2>2 DEF StoresInv, StoresSound
<1>3. QED
  BY <1>1, <1>2, StoresStep, PTL DEF StoresSpec

-----------------------------------------------------------------------------
(* The directory.  What a configuration is after normalizeConfig.          *)
Directory == [users: [People -> UserRecord], groups: [Groups -> GroupRecord]]

Agreed(c) == \A u \in People : /\ c.users[u].roles # {}
                               /\ \A g \in Groups : g \in c.users[u].groups <=> u \in c.groups[g].members

LEMMA NormalizeConfigAgrees ==
    ASSUME NEW us \in [People -> UserRecord], NEW gs \in [Groups -> GroupRecord]
    PROVE  NormalizeConfig(us, gs) \in Directory /\ Agreed(NormalizeConfig(us, gs))
<1>. DEFINE ns == [u \in People |-> NormalizeUser(us[u])]
            member(u, g) == g \in ns[u].groups \/ u \in gs[g].members
            nu == [u \in People |-> [ns[u] EXCEPT !.groups = {g \in Groups : member(u, g)}]]
            ng == [g \in Groups |-> [gs[g] EXCEPT !.members = {u \in People : member(u, g)}]]
<1>1. NormalizeConfig(us, gs) = [users |-> nu, groups |-> ng]
  BY DEF NormalizeConfig, SyncGroupMemberships
<1>2. \A u \in People : ns[u] \in UserRecord /\ ns[u].roles # {}
  BY DEF NormalizeUser, UserRecord, AllRoles
<1>. HIDE DEF ns
<1>3. \A u \in People : /\ nu[u] \in UserRecord /\ nu[u].roles = ns[u].roles
                        /\ nu[u].groups = {g \in Groups : member(u, g)}
  BY <1>2 DEF UserRecord
<1>4. \A g \in Groups : ng[g] \in GroupRecord /\ ng[g].members = {u \in People : member(u, g)}
  BY DEF GroupRecord
<1>5. nu \in [People -> UserRecord] /\ ng \in [Groups -> GroupRecord]
  BY <1>3, <1>4
<1>. HIDE DEF nu, ng
<1>6. QED
  BY <1>1, <1>2, <1>3, <1>4, <1>5 DEF Directory, Agreed

(* The patterns that match a permission are the permission, "*", the proper *)
(* prefixes with ".*" that the prefix search looks up, and some that are    *)
(* not plain.                                                               *)
LEMMA MatchForm ==
    ASSUME NEW perm \in Seq(STRING), NEW pattern \in Seq(STRING)
    PROVE  Matches(perm, pattern) <=>
             \/ ~Plain(pattern) /\ <<perm, pattern>> \in RegexMatches
             \/ pattern = perm \/ pattern = <<"*">>
             \/ \E i \in 1 .. Len(perm) - 1 : pattern = Append(SubSeq(perm, 1, i), "*")
<1>. DEFINE n == Len(pattern)
<1>0. n \in Nat /\ Len(perm) \in Nat
  OBVIOUS
<1>1. ASSUME n > 1, pattern[n] = "*", Len(perm) >= n, SubSeq(perm, 1, n - 1) = SubSeq(pattern, 1, n - 1)
      PROVE  n - 1 \in 1 .. Len(perm) - 1 /\ pattern = Append(SubSeq(perm, 1, n - 1), "*")
  <2>1. pattern = Append(SubSeq(pattern, 1, n - 1), pattern[n])
    BY <1>1
  <2>2. QED
    BY <1>0, <1>1, <2>1
<1>2. ASSUME n = 1, pattern[n] = "*" PROVE pattern = <<"*">>
  BY <1>2
<1>3. ASSUME NEW i \in 1 .. Len(perm) - 1, pattern = Append(SubSeq(perm, 1, i), "*")
      PROVE  /\ n = i + 1 /\ n > 1 /\ pattern[n] = "*" /\ Len(perm) >= n
             /\ SubSeq(perm, 1, n - 1) = SubSeq(pattern, 1, n - 1)
  <2>1. SubSeq(perm, 1, i) \in Seq(STRING) /\ Len(SubSeq(perm, 1, i)) = i
    BY <1>0, <1>3
  <2>2. n = i + 1 /\ pattern[n] = "*"
    BY <1>3, <2>1
  <2>3. SubSeq(pattern, 1, i) = SubSeq(perm, 1, i)
    BY <1>0, <1>3, <2>1, <2>2
  <2>4. QED
    BY <1>0, <2>2, <2>3
<1>4. pattern = <<"*">> => n = 1 /\ pattern[n] = "*"
  OBVIOUS
<1>5. Matches(perm, pattern) <=>
        \/ ~Plain(pattern) /\ <<perm, pattern>> \in RegexMatches
        \/ pattern = perm
        \/ n = 1 /\ pattern[n] = "*"
        \/ n > 1 /\ pattern[n] = "*" /\ Len(perm) >= n /\ SubSeq(perm, 1, n - 1) = SubSeq(pattern, 1, n - 1)
  <2>1. CASE n = 0
    BY <2>1 DEF Matches
  <2>2. CASE n = 1
    BY <2>2 DEF Matches
  <2>3. CASE n > 1
    BY <2>3 DEF Matches
  <2>. HIDE DEF n
  <2>4. n = 0 \/ n = 1 \/ n > 1
    BY <1>0
  <2>5. QED
    BY <2>1, <2>2, <2>3, <2>4
<1>6. QED
  BY <1>1, <1>2, <1>3, <1>4, <1>5

(* The enforcer allows what the prefix search does, and more only through   *)
(* a pattern that is not plain.                                             *)
LEMMA DecisionForm ==
    ASSUME NEW c \in Directory, NEW u \in People, NEW perm \in Permissions
    PROVE  /\ EvaluatePrefixes(PrincipalPermission(c, u), perm) => Evaluate(c, u, perm)
           /\ Evaluate(c, u, perm) => \/ EvaluatePrefixes(PrincipalPermission(c, u), perm)
                                      \/ \E pattern \in PrincipalPermission(c, u) : ~Plain(pattern)
<1>. DEFINE roles == EffectiveRoleIDs(c, u)
            grants == PrincipalPermission(c, u)
<1>1. roles \subseteq AllRoles
  BY DEF EffectiveRoleIDs, Directory, UserRecord, GroupRecord
<1>2. \A role \in AllRoles : NoGrant[role] \subseteq Seq(STRING)
  BY AccessAssumption DEF NoGrant
<1>3. \A p : p \in grants <=> \E role \in roles : p \in NoGrant[role]
  BY DEF PrincipalPermission
<1>4. perm \in Seq(STRING)
  BY AccessAssumption
<1>. HIDE DEF roles, grants
<1>5. Enforce(roles, perm) <=> \E p \in grants : Matches(perm, p)
  BY <1>3 DEF Enforce
<1>6. \A p \in grants : p \in Seq(STRING)
  BY <1>1, <1>2, <1>3
<1>. DEFINE regex(p) == ~Plain(p) /\ <<perm, p>> \in RegexMatches
<1>7. \A p \in grants : Matches(perm, p) <=>
             \/ regex(p)
             \/ p = perm \/ p = <<"*">>
             \/ \E i \in 1 .. Len(perm) - 1 : p = Append(SubSeq(perm, 1, i), "*")
  BY <1>4, <1>6, MatchForm
<1>a. \A p \in grants : regex(p) => ~Plain(p)
  OBVIOUS
<1>. HIDE DEF regex
<1>8. /\ EvaluatePrefixes(grants, perm) => \E p \in grants : Matches(perm, p)
      /\ (\E p \in grants : Matches(perm, p)) => EvaluatePrefixes(grants, perm) \/ \E p \in grants : ~Plain(p)
  BY <1>7, <1>a DEF EvaluatePrefixes
<1>9. Evaluate(c, u, perm) <=> \E p \in grants : Matches(perm, p)
  BY <1>5, <1>7 DEF Evaluate, roles, grants
<1>10. QED
  BY <1>8, <1>9 DEF grants

\* No sequence of edits takes the two sides of a membership apart or leaves a user
\* without a role; the casbin enforcer allows every permission the prefix search on
\* the principal's own permissions would, and no other to a principal whose patterns
\* are plain (normalizeConfig, Evaluate).
THEOREM DirectoryCorrect == AccessSpec => []DirectorySound
<1>. DEFINE AInv == /\ cfg \in Directory /\ Agreed(cfg)
                    /\ asked = Nothing \/ \E u \in People, perm \in Permissions :
                         asked = [op |-> "decide", user |-> u, perm |-> perm, allowed |-> Evaluate(cfg, u, perm)]
<1>0. ASSUME NEW us \in [People -> UserRecord], NEW gs \in [Groups -> GroupRecord],
             cfg' = NormalizeConfig(us, gs), asked' = Nothing
      PROVE  AInv'
  <2>1. NormalizeConfig(us, gs) \in Directory /\ Agreed(NormalizeConfig(us, gs))
    BY NormalizeConfigAgrees
  <2>2. cfg' \in Directory /\ Agreed(cfg)'
    BY <1>0, <2>1 DEF Agreed
  <2>3. QED
    BY <1>0, <2>2 DEF Nothing
<1>1. AccessInit => AInv
  <2>. SUFFICES ASSUME AccessInit PROVE AInv
    OBVIOUS
  <2>1. /\ [u \in People |-> [roles |-> {}, groups |-> {}]] \in [People -> UserRecord]
        /\ [g \in Groups |-> [roles |-> {}, members |-> {}, active |-> TRUE]] \in [Groups -> GroupRecord]
    BY DEF UserRecord, GroupRecord
  <2>2. cfg \in Directory /\ Agreed(cfg)
    BY <2>1, NormalizeConfigAgrees DEF AccessInit
  <2>3. QED
    BY <2>2 DEF AccessInit
<1>2. AInv /\ [AccessNext]_accessVars => AInv'
  <2>. SUFFICES ASSUME AInv, [AccessNext]_accessVars PROVE AInv'
    OBVIOUS
  <2>0. cfg.users \in [People -> UserRecord] /\ cfg.groups \in [Groups -> GroupRecord]
    BY DEF Directory
  <2>1. ASSUME NEW u \in People, NEW rec \in UserRecord, UpsertUser(u, rec) PROVE AInv'
    <3>1. [cfg.users EXCEPT ![u] = rec] \in [People -> UserRecord]
      BY <2>0
    <3>2. QED
      BY <1>0, <2>0, <2>1, <3>1 DEF UpsertUser, Saved
  <2>2. ASSUME NEW g \in Groups, NEW rec \in GroupRecord, UpsertGroup(g, rec) PROVE AInv'
    <3>1. [cfg.groups EXCEPT ![g] = rec] \in [Groups -> GroupRecord]
      BY <2>0
    <3>2. QED
      BY <1>0, <2>0, <2>2, <3>1 DEF UpsertGroup, Saved
  <2>3. ASSUME NEW role \in AllRoles, NEW us \in SUBSET People, NEW gs \in SUBSET Groups,
               BindRole(role, us, gs) \/ UnbindRole(role, us, gs) \/ SetRoleBindings(role, us, gs)
        PROVE  AInv'
    <3>1. \A rec \in UserRecord : /\ [rec EXCEPT !.roles = @ \cup {role}] \in UserRecord
                                  /\ [rec EXCEPT !.roles = @ \ {role}] \in UserRecord
      BY DEF UserRecord
    <3>2. \A rec \in GroupRecord : /\ [rec EXCEPT !.roles = @ \cup {role}] \in GroupRecord
                                   /\ [rec EXCEPT !.roles = @ \ {role}] \in GroupRecord
      BY DEF GroupRecord
    <3>3. CASE BindRole(role, us, gs)
      <4>. DEFINE nu == [u \in People |-> IF u \in us THEN [cfg.users[u] EXCEPT !.roles = @ \cup {role}] ELSE cfg.users[u]]
                  ng == [g \in Groups |-> IF g \in gs THEN [cfg.groups[g] EXCEPT !.roles = @ \cup {role}] ELSE cfg.groups[g]]
      <4>1. nu \in [People -> UserRecord] /\ ng \in [Groups -> GroupRecord]
        BY <2>0, <3>1, <3>2
      <4>2. cfg' = NormalizeConfig(nu, ng) /\ asked' = Nothing
        BY <3>3 DEF BindRole, Saved
      <4>3. QED
        BY <1>0, <4>1, <4>2
    <3>4. CASE UnbindRole(role, us, gs)
      <4>. DEFINE nu == [u \in People |-> IF u \in us THEN [cfg.users[u] EXCEPT !.roles = @ \ {role}] ELSE cfg.users[u]]
                  ng == [g \in Groups |-> IF g \in gs THEN [cfg.groups[g] EXCEPT !.roles = @ \ {role}] ELSE cfg.groups[g]]
      <4>1. nu \in [People -> UserRecord] /\ ng \in [Groups -> GroupRecord]
        BY <2>0, <3>1, <3>2
      <4>2. cfg' = NormalizeConfig(nu, ng) /\ asked' = Nothing
        BY <3>4 DEF UnbindRole, Saved
      <4>3. QED
        BY <1>0, <4>1, <4>2
    <3>5. CASE SetRoleBindings(role, us, gs)
      <4>. DEFINE bound(want, rec) == [rec EXCEPT !.roles = IF want THEN @ \cup {role} ELSE @ \ {role}]
                  nu == [u \in People |-> bound(u \in us, cfg.users[u])]
                  ng == [g \in Groups |-> bound(g \in gs, cfg.groups[g])]
      <4>1. /\ \A u \in People : bound(u \in us, cfg.users[u]) \in UserRecord
            /\ \A g \in Groups : bound(g \in gs, cfg.groups[g]) \in GroupRecord
        BY <2>0 DEF UserRecord, GroupRecord
      <4>2. nu \in [People -> UserRecord] /\ ng \in [Groups -> GroupRecord]
        BY <4>1
      <4>3. cfg' = NormalizeConfig(nu, ng) /\ asked' = Nothing
        BY <3>5 DEF SetRoleBindings, Saved
      <4>4. QED
        BY <1>0, <4>2, <4>3
    <3>6. QED
      BY <2>3, <3>3, <3>4, <3>5
  <2>4. ASSUME NEW u \in People, NEW perm \in Permissions, Decide(u, perm) PROVE AInv'
    <3>1. cfg' = cfg /\ asked' = [op |-> "decide", user |-> u, perm |-> perm, allowed |-> Evaluate(cfg, u, perm)]
      BY <2>4 DEF Decide
    <3>2. Evaluate(cfg, u, perm)' = Evaluate(cfg, u, perm)
      BY <3>1 DEF Evaluate, PrincipalPermission, EffectiveRoleIDs, Enforce
    <3>3. Agreed(cfg)'
      BY <3>1 DEF Agreed
    <3>4. QED
      BY <3>1, <3>2, <3>3
  <2>5. CASE UNCHANGED accessVars
    BY <2>5 DEF accessVars, Agreed, Evaluate, PrincipalPermission, EffectiveRoleIDs, Enforce, Nothing
  <2>6. QED
    BY <2>1, <2>2, <2>3, <2>4, <2>5 DEF AccessNext
<1>3. AInv => DirectorySound
  <2>. SUFFICES ASSUME AInv PROVE DirectorySound
    OBVIOUS
  <2>1. MembershipAgrees
    BY DEF MembershipAgrees, Agreed
  <2>2. DecisionsAgree
    <3>. SUFFICES ASSUME asked.op = "decide"
                  PROVE  DecisionsAgree
      BY DEF DecisionsAgree
    <3>1. PICK u \in People, perm \in Permissions :
            asked = [op |-> "decide", user |-> u, perm |-> perm, allowed |-> Evaluate(cfg, u, perm)]
      BY DEF Nothing
    <3>2. /\ EvaluatePrefixes(PrincipalPermission(cfg, u), perm) => Evaluate(cfg, u, perm)
          /\ Evaluate(cfg, u, perm) => \/ EvaluatePrefixes(PrincipalPermission(cfg, u), perm)
                                       \/ \E pattern \in PrincipalPermission(cfg, u) : ~Plain(pattern)
      BY DecisionForm
    <3>3. asked.user = u /\ asked.perm = perm /\ asked.allowed = Evaluate(cfg, u, perm)
      BY <3>1
    <3>4. QED
      BY <3>2, <3>3, Zenon DEF DecisionsAgree
  <2>3. QED
    BY <2>1, <2>2 DEF DirectorySound
<1>4. QED
  BY <1>1, <1>2, <1>3, PTL DEF AccessSpec

-----------------------------------------------------------------------------
(* The first-run wizard.  The inductive invariant: what holds of every      *)
(* request, however many overlap, and what holds as long as none do.       *)

Quiet == "overlap" \notin blame
SavingPcs == {"snapshot", "persist", "save"}

\* What a request knows at each place: its kind, that the provider it binds or
\* saves answered a check, and that the row it keeps was open and truthful.
WizardRequestOK(q) ==
    /\ q.pc = "user" => q.kind = "admin"
    /\ q.pc = "auth" => q.kind \in {"admin", "auth"}
    /\ q.pc = "channel" => q.kind = "channel"
    /\ q.pc \in {"key", "try"} => q.kind \in {"check", "provider"} /\ q.p \in Models
    /\ q.pc = "bind" => q.kind = "provider" /\ q.p \in passed
    /\ q.pc = "complete" => q.kind = "complete"
    /\ q.pc \in {"snapshot", "persist"} => q.kind \in {"admin", "auth", "channel", "complete"}
    /\ q.pc = "save" => q.kind # "check" /\ (q.kind = "provider" => q.p \in passed /\ prvDoc # Unset)
    /\ q.pc \in SavingPcs /\ q.kind = "complete" => q.row.checked
    /\ ~q.row.initialized
    /\ q.row.checked => q.row.provider \in passed /\ (q.pc # "idle" => prvDoc # Unset)
    /\ q.pc # "idle" => online

WizardRequests == \A r \in Requests : WizardRequestOK(rq[r])

\* A checked provider is bound, and the keys that answered are stored.
WizardStores ==
    /\ row.checked => row.provider \in passed /\ prvDoc # Unset
    /\ row.initialized => row.checked
    /\ prvDoc # Unset => prvDoc.primary \in prvDoc.entries \cap passed
    /\ blame \subseteq {"overlap"} => keys = keyFile /\ \A p \in passed : keys[p] = "good"

\* The only request at work holds the row as it is, and memory and the document
\* already have what it is about to record in the row.
AloneOK(q) ==
    /\ ~row.initialized
    /\ q.kind # "check" => q.row = row
    /\ q.pc = "auth" /\ q.kind = "admin" => acc.admin
    /\ q.pc \in SavingPcs => /\ q.kind \in {"admin", "complete"} => acc.admin
                             /\ q.kind \in {"admin", "auth", "complete"} => acc.auth
                             /\ q.kind \in {"channel", "complete"} => acc.channel
    /\ q.pc = "persist" => q.snap = acc
    /\ q.pc = "save" /\ q.kind # "provider" => accDoc = acc

\* What the first configuration has the second has.
Covered(a, b) == (a.admin => b.admin) /\ (a.auth => b.auth) /\ (a.channel => b.channel)

WizardAlone == Quiet =>
    /\ \A r, s \in Requests : rq[r].pc # "idle" /\ rq[s].pc # "idle" => r = s
    /\ \A r \in Requests : rq[r].pc # "idle" => AloneOK(rq[r])
    /\ completed => row.initialized
    /\ online => Covered(RestoredAccess, acc)
    /\ Covered(row, RestoredAccess)
    /\ row.initialized => RestoredAccess.admin /\ RestoredAccess.auth /\ RestoredAccess.channel

SetupInv == SetupTypeOK /\ WizardRequests /\ WizardStores /\ WizardAlone

WizardRecord ==
    [pc: {"idle", "user", "auth", "channel", "key", "try", "bind", "complete", "snapshot", "persist", "save"},
     kind: Kinds, p: Models \cup {Unset}, key: Key, row: Row, snap: Access]

LEMMA WizardTypes ==
    ASSUME SetupTypeOK
    PROVE  /\ rq \in [Requests -> WizardRecord]
           /\ \A r \in Requests : /\ rq[r].row \in Row /\ rq[r].snap \in Access /\ rq[r].kind \in Kinds
                                  /\ rq[r].p \in Models \cup {Unset} /\ rq[r].key \in Key
                                  /\ rq[r] \in WizardRecord
<1>1. rq \in [Requests -> WizardRecord]
  BY DEF SetupTypeOK, WizardRecord
<1>2. \A q \in WizardRecord : /\ q.row \in Row /\ q.snap \in Access /\ q.kind \in Kinds
                              /\ q.p \in Models \cup {Unset} /\ q.key \in Key
  BY DEF WizardRecord
<1> QED
  BY <1>1, <1>2

LEMMA WizardConstants ==
    /\ NewRow \in Row /\ NoAccess \in Access /\ NoRegistry \in Registry /\ NoSubmission \in WizardRecord
    /\ NoSubmission.pc = "idle" /\ NoSubmission.row = NewRow
    /\ ~NewRow.initialized /\ ~NewRow.checked
<1>1. NewRow \in Row /\ ~NewRow.initialized /\ ~NewRow.checked
  BY DEF NewRow, Row
<1>2. NoAccess \in Access
  BY DEF NoAccess, Access
<1>3. NoRegistry \in Registry
  BY DEF NoRegistry, Registry
<1>4. NoSubmission \in WizardRecord /\ NoSubmission.pc = "idle" /\ NoSubmission.row = NewRow
  <2> HIDE DEF NewRow, NoAccess
  <2> QED
    BY <1>1, <1>2 DEF NoSubmission, WizardRecord, Kinds, Key
<1> QED
  BY <1>1, <1>2, <1>3, <1>4

(* A request that replies or goes on: the other requests stay, and of its   *)
(* own record only the place changes.                                      *)
LEMMA WizardMoves ==
    ASSUME SetupTypeOK, NEW r \in Requests
    PROVE  /\ Reply(r) => /\ rq' \in [Requests -> WizardRecord] /\ rq'[r] = NoSubmission
                          /\ \A s \in Requests \ {r} : rq'[s] = rq[s]
           /\ \A pc \in {"auth", "snapshot", "try", "bind", "save", "persist"} :
                Go(r, pc) => /\ rq' \in [Requests -> WizardRecord]
                             /\ rq'[r].pc = pc /\ rq'[r].kind = rq[r].kind /\ rq'[r].p = rq[r].p
                             /\ rq'[r].key = rq[r].key /\ rq'[r].row = rq[r].row /\ rq'[r].snap = rq[r].snap
                             /\ \A s \in Requests \ {r} : rq'[s] = rq[s]
<1>1. rq \in [Requests -> WizardRecord]
  BY WizardTypes
<1>2. ASSUME Reply(r)
      PROVE  /\ rq' \in [Requests -> WizardRecord] /\ rq'[r] = NoSubmission
             /\ \A s \in Requests \ {r} : rq'[s] = rq[s]
  BY <1>1, <1>2, WizardConstants DEF Reply
<1>3. ASSUME NEW pc \in {"auth", "snapshot", "try", "bind", "save", "persist"}, Go(r, pc)
      PROVE  /\ rq' \in [Requests -> WizardRecord]
             /\ rq'[r].pc = pc /\ rq'[r].kind = rq[r].kind /\ rq'[r].p = rq[r].p
             /\ rq'[r].key = rq[r].key /\ rq'[r].row = rq[r].row /\ rq'[r].snap = rq[r].snap
             /\ \A s \in Requests \ {r} : rq'[s] = rq[s]
  <2>1. rq[r] \in WizardRecord
    BY <1>1
  <2>2. [rq[r] EXCEPT !.pc = pc] \in WizardRecord
    BY <2>1 DEF WizardRecord
  <2>3. rq'[r] = [rq[r] EXCEPT !.pc = pc] /\ \A s \in Requests \ {r} : rq'[s] = rq[s]
    BY <1>1, <1>3 DEF Go
  <2>4. rq' \in [Requests -> WizardRecord]
    BY <1>1, <1>3, <2>2, <2>3 DEF Go
  <2> QED
    BY <2>1, <2>3, <2>4 DEF WizardRecord
<1> QED
  BY <1>2, <1>3

(* The parts of the invariant about the requests, for a step of request r   *)
(* that takes nothing back: what is left to show is about r alone.         *)
LEMMA WizardRest ==
    ASSUME SetupInv, NEW r \in Requests, rq[r].pc # "idle",
           \A s \in Requests \ {r} : rq'[s] = rq[s],
           online' = online, blame \subseteq blame', passed \subseteq passed',
           prvDoc # Unset => prvDoc' # Unset,
           WizardRequestOK(rq[r])',
           Quiet' /\ rq'[r].pc # "idle" => AloneOK(rq[r])'
    PROVE  /\ WizardRequests'
           /\ Quiet' => /\ Quiet
                        /\ \A s, t \in Requests : rq'[s].pc # "idle" /\ rq'[t].pc # "idle" => s = t
                        /\ \A s \in Requests : rq'[s].pc # "idle" => AloneOK(rq[s])'
<1>1. WizardRequests'
  <2> SUFFICES ASSUME NEW s \in Requests PROVE WizardRequestOK(rq[s])'
    BY DEF WizardRequests
  <2>1. CASE s = r
    BY <2>1
  <2>2. CASE s # r
    <3>1. WizardRequestOK(rq[s]) /\ rq'[s] = rq[s]
      BY <2>2 DEF SetupInv, WizardRequests
    <3> QED
      BY <3>1 DEF WizardRequestOK
  <2> QED
    BY <2>1, <2>2
<1>2. ASSUME Quiet'
      PROVE  /\ Quiet
             /\ \A s \in Requests : rq'[s].pc # "idle" => s = r
  <2>1. Quiet
    BY <1>2 DEF Quiet
  <2>2. \A s \in Requests \ {r} : rq[s].pc = "idle"
    BY <2>1 DEF SetupInv, WizardAlone
  <2> QED
    BY <2>1, <2>2
<1> QED
  BY <1>1, <1>2

\* What the restored access configuration is.
LEMMA RestoredAccessType ==
    ASSUME SetupTypeOK
    PROVE  RestoredAccess \in Access
  BY DEF SetupTypeOK, RestoredAccess

LEMMA AccessFields ==
    ASSUME NEW a \in Access
    PROVE  /\ a.admin \in BOOLEAN /\ a.auth \in BOOLEAN /\ a.channel \in BOOLEAN /\ a # Unset
           /\ \A f \in {"admin", "auth", "channel"} :
                LET b == [a EXCEPT ![f] = TRUE] IN
                /\ b \in Access
                /\ b.admin = IF f = "admin" THEN TRUE ELSE a.admin
                /\ b.auth = IF f = "auth" THEN TRUE ELSE a.auth
                /\ b.channel = IF f = "channel" THEN TRUE ELSE a.channel
<1>1. a.admin \in BOOLEAN /\ a.auth \in BOOLEAN /\ a.channel \in BOOLEAN /\ a # Unset
  BY SetupAssumption DEF Access
<1>2. LET b == [a EXCEPT !["admin"] = TRUE] IN
      b \in Access /\ b.admin = TRUE /\ b.auth = a.auth /\ b.channel = a.channel
  BY DEF Access
<1>3. LET b == [a EXCEPT !["auth"] = TRUE] IN
      b \in Access /\ b.admin = a.admin /\ b.auth = TRUE /\ b.channel = a.channel
  BY DEF Access
<1>4. LET b == [a EXCEPT !["channel"] = TRUE] IN
      b \in Access /\ b.admin = a.admin /\ b.auth = a.auth /\ b.channel = TRUE
  BY DEF Access
<1>5. ASSUME NEW f \in {"admin", "auth", "channel"}
      PROVE  LET b == [a EXCEPT ![f] = TRUE] IN
             /\ b \in Access
             /\ b.admin = IF f = "admin" THEN TRUE ELSE a.admin
             /\ b.auth = IF f = "auth" THEN TRUE ELSE a.auth
             /\ b.channel = IF f = "channel" THEN TRUE ELSE a.channel
  <2>1. CASE f = "admin"
    BY <1>1, <1>2, <2>1
  <2>2. CASE f = "auth"
    BY <1>1, <1>3, <2>2
  <2>3. CASE f = "channel"
    BY <1>1, <1>4, <2>3
  <2> QED
    BY <2>1, <2>2, <2>3
<1> QED
  BY <1>1, <1>5

\* UpsertUser, UpsertAuthProvider and UpsertChannel.
LEMMA UpsertStep ==
    ASSUME SetupInv, NEW r \in Requests, NEW at, NEW field, NEW next, Upsert(r, at, field, next),
           \/ at = "user" /\ field = "admin" /\ next = "auth"
           \/ at = "auth" /\ field = "auth" /\ next = "snapshot"
           \/ at = "channel" /\ field = "channel" /\ next = "snapshot"
    PROVE  SetupInv'
<1>0. /\ SetupTypeOK /\ WizardRequests /\ WizardStores /\ WizardAlone
      /\ rq[r].pc = at /\ at # "idle" /\ acc \in Access
      /\ next \in {"auth", "snapshot", "try", "bind", "save", "persist"} /\ field \in {"admin", "auth", "channel"}
  BY DEF SetupInv, SetupTypeOK, Upsert
<1>1. /\ acc' = [acc EXCEPT ![field] = TRUE]
      /\ \/ accDoc' = acc' /\ Go(r, next) /\ failures' = failures
         \/ failures < MaxFailures /\ failures' = failures + 1 /\ Reply(r) /\ accDoc' = accDoc
      /\ UNCHANGED <<online, shipped, database, row, prv, prvDoc, keys, keyFile, sent, passed, completed, blame>>
  BY DEF Upsert, StoreFails, Fails
<1>2. /\ acc' \in Access /\ acc' # Unset
      /\ acc'.admin = IF field = "admin" THEN TRUE ELSE acc.admin
      /\ acc'.auth = IF field = "auth" THEN TRUE ELSE acc.auth
      /\ acc'.channel = IF field = "channel" THEN TRUE ELSE acc.channel
  BY <1>0, <1>1, AccessFields
<1>3. /\ rq' \in [Requests -> WizardRecord] /\ \A s \in Requests \ {r} : rq'[s] = rq[s]
      /\ \/ rq'[r] = NoSubmission
         \/ /\ rq'[r].pc = next /\ rq'[r].kind = rq[r].kind /\ rq'[r].p = rq[r].p
            /\ rq'[r].row = rq[r].row /\ accDoc' = acc'
  BY <1>0, <1>1, WizardMoves
<1>4. SetupTypeOK'
  <2>1. failures' \in 0 .. MaxFailures
    BY <1>0, <1>1, SetupAssumption DEF SetupTypeOK
  <2>2. accDoc' \in Access \cup {Unset}
    BY <1>0, <1>1, <1>2 DEF SetupTypeOK
  <2> QED
    BY <1>0, <1>1, <1>2, <1>3, <2>1, <2>2 DEF SetupTypeOK, WizardRecord
<1>5. WizardStores'
  BY <1>0, <1>1 DEF WizardStores
<1>6. WizardRequestOK(rq[r])
  BY <1>0 DEF WizardRequests
<1>7. WizardRequestOK(rq[r])'
  BY <1>0, <1>1, <1>3, <1>6, WizardConstants DEF WizardRequestOK, SavingPcs
<1>8. ASSUME Quiet', rq'[r].pc # "idle" PROVE AloneOK(rq[r])'
  <2>1. AloneOK(rq[r])
    BY <1>0, <1>1, <1>8 DEF WizardAlone, Quiet
  <2>2. rq'[r].pc = next /\ rq'[r].kind = rq[r].kind /\ rq'[r].row = rq[r].row
    BY <1>3, <1>8, WizardConstants
  <2> QED
    BY <1>0, <1>1, <1>2, <1>6, <2>1, <2>2 DEF AloneOK, WizardRequestOK, SavingPcs
<1>9. /\ WizardRequests'
      /\ Quiet' => /\ Quiet
                   /\ \A s, t \in Requests : rq'[s].pc # "idle" /\ rq'[t].pc # "idle" => s = t
                   /\ \A s \in Requests : rq'[s].pc # "idle" => AloneOK(rq[s])'
  BY <1>0, <1>1, <1>3, <1>7, <1>8, WizardRest
<1>10. WizardAlone'
  <2> SUFFICES ASSUME Quiet'
               PROVE  /\ completed' => row'.initialized
                      /\ online' => Covered(RestoredAccess, acc)'
                      /\ Covered(row, RestoredAccess)'
                      /\ row'.initialized => RestoredAccess'.admin /\ RestoredAccess'.auth /\ RestoredAccess'.channel
    BY <1>9 DEF WizardAlone
  <2>1. /\ completed => row.initialized
        /\ online => Covered(RestoredAccess, acc)
        /\ Covered(row, RestoredAccess)
        /\ ~row.initialized /\ online
    BY <1>0, <1>6, <1>9 DEF WizardAlone, AloneOK, WizardRequestOK
  <2>2. RestoredAccess' \in {RestoredAccess, acc'}
    BY <1>1, <1>2 DEF RestoredAccess
  <2> QED
    BY <1>1, <1>2, <2>1, <2>2 DEF Covered
<1> QED
  BY <1>4, <1>5, <1>9, <1>10 DEF SetupInv

(* The part about the stores of a wizard nobody else uses, for a step that  *)
(* leaves the row and the access configuration alone.                      *)
LEMMA AloneRest ==
    ASSUME SetupInv, UNCHANGED <<online, shipped, database, row, acc, accDoc, completed>>,
           Quiet' => /\ Quiet
                     /\ \A s, t \in Requests : rq'[s].pc # "idle" /\ rq'[t].pc # "idle" => s = t
                     /\ \A s \in Requests : rq'[s].pc # "idle" => AloneOK(rq[s])'
    PROVE  WizardAlone'
<1> SUFFICES ASSUME Quiet'
             PROVE  /\ completed' => row'.initialized
                    /\ online' => Covered(RestoredAccess, acc)'
                    /\ Covered(row, RestoredAccess)'
                    /\ row'.initialized => RestoredAccess'.admin /\ RestoredAccess'.auth /\ RestoredAccess'.channel
  BY DEF WizardAlone
<1>1. RestoredAccess' = RestoredAccess
  BY DEF RestoredAccess
<1> QED
  BY <1>1 DEF SetupInv, WizardAlone, Covered

\* resolveSetupWizardProviderSecretRef.
LEMMA StoreKeyStep ==
    ASSUME SetupInv, NEW r \in Requests, StoreKey(r)
    PROVE  SetupInv'
<1> DEFINE p == rq[r].p
           k == rq[r].key
<1>0. SetupTypeOK /\ WizardRequests /\ WizardStores /\ WizardAlone /\ rq[r].pc = "key"
  BY DEF SetupInv, StoreKey
<1>1. /\ WizardRequestOK(rq[r]) /\ p \in Models /\ k \in Key
      /\ rq \in [Requests -> WizardRecord] /\ rq[r] \in WizardRecord
  BY <1>0, WizardTypes DEF WizardRequests, WizardRequestOK
<1>2. UNCHANGED <<online, shipped, database, row, acc, accDoc, prv, prvDoc, sent, passed, completed>>
  BY DEF StoreKey
<1>3. \/ Go(r, "try") /\ UNCHANGED <<keys, keyFile, blame, failures>>
      \/ /\ k # Unset /\ keys' = [keys EXCEPT ![p] = k] /\ keyFile' = keys' /\ failures' = failures
         /\ rq' = [rq EXCEPT ![r].pc = "try", ![r].key = Unset]
         /\ blame' = blame \cup IF keys[p] = "good" /\ k = "bad" THEN {"rekey"} ELSE {}
      \/ /\ k # Unset /\ keys' = [keys EXCEPT ![p] = k] /\ keyFile' = keyFile
         /\ failures < MaxFailures /\ failures' = failures + 1
         /\ Reply(r) /\ blame' = blame \cup {"unsaved"}
  BY DEF StoreKey, Fails
<1> HIDE DEF p, k
<1>4. /\ rq' \in [Requests -> WizardRecord] /\ \A s \in Requests \ {r} : rq'[s] = rq[s]
      /\ \/ rq'[r] = NoSubmission
         \/ rq'[r].pc = "try" /\ rq'[r].kind = rq[r].kind /\ rq'[r].p = rq[r].p /\ rq'[r].row = rq[r].row
  <2>1. CASE Go(r, "try") \/ Reply(r)
    BY <1>0, <2>1, WizardMoves
  <2>2. CASE rq' = [rq EXCEPT ![r].pc = "try", ![r].key = Unset]
    <3> DEFINE q == [[rq[r] EXCEPT !.pc = "try"] EXCEPT !.key = Unset]
    <3>1. q \in WizardRecord
      BY <1>1 DEF WizardRecord, Key
    <3>2. q.pc = "try" /\ q.kind = rq[r].kind /\ q.p = rq[r].p /\ q.row = rq[r].row
      BY <1>1 DEF WizardRecord
    <3>3. rq' = [rq EXCEPT ![r] = q]
      BY <1>1, <2>2
    <3> HIDE DEF q
    <3> QED
      BY <1>1, <3>1, <3>2, <3>3
  <2> QED
    BY <1>3, <2>1, <2>2
<1>5. SetupTypeOK'
  <2>1. failures' \in 0 .. MaxFailures
    BY <1>0, <1>3, SetupAssumption DEF SetupTypeOK
  <2>2. keys' \in [Models -> Key] /\ keyFile' \in [Models -> Key]
    BY <1>0, <1>1, <1>3 DEF SetupTypeOK
  <2>3. blame' \subseteq {"overlap", "rekey", "unsaved"}
    BY <1>0, <1>3 DEF SetupTypeOK
  <2> QED
    BY <1>0, <1>2, <1>4, <2>1, <2>2, <2>3 DEF SetupTypeOK, WizardRecord
<1>6. WizardStores'
  <2>1. ASSUME blame' \subseteq {"overlap"}
        PROVE  keys' = keyFile' /\ \A m \in passed' : keys'[m] = "good"
    <3>1. blame \subseteq {"overlap"}
      BY <1>3, <2>1
    <3>2. keys = keyFile /\ \A m \in passed : keys[m] = "good"
      BY <1>0, <3>1 DEF WizardStores
    <3>3. keys \in [Models -> Key] /\ passed \subseteq Models
      BY <1>0 DEF SetupTypeOK
    <3>4. CASE UNCHANGED <<keys, keyFile>>
      BY <1>2, <3>2, <3>4
    <3>5. CASE /\ k # Unset /\ keys' = [keys EXCEPT ![p] = k] /\ keyFile' = keys'
               /\ blame' = blame \cup IF keys[p] = "good" /\ k = "bad" THEN {"rekey"} ELSE {}
      <4>1. ~(keys[p] = "good" /\ k = "bad")
        BY <2>1, <3>5
      <4> QED
        BY <1>1, <1>2, <3>2, <3>3, <3>5, <4>1 DEF Key
    <3> QED
      BY <1>3, <2>1, <3>4, <3>5
  <2> QED
    BY <1>0, <1>2, <2>1 DEF WizardStores
<1>7. blame \subseteq blame'
  BY <1>3
<1>8. WizardRequestOK(rq[r])'
  BY <1>0, <1>1, <1>2, <1>4, WizardConstants DEF WizardRequestOK, SavingPcs
<1>9. ASSUME Quiet', rq'[r].pc # "idle" PROVE AloneOK(rq[r])'
  <2>1. AloneOK(rq[r])
    BY <1>0, <1>7, <1>9 DEF WizardAlone, Quiet
  <2> QED
    BY <1>2, <1>4, <1>9, <2>1, WizardConstants DEF AloneOK, SavingPcs
<1>10. /\ WizardRequests'
       /\ Quiet' => /\ Quiet
                    /\ \A s, t \in Requests : rq'[s].pc # "idle" /\ rq'[t].pc # "idle" => s = t
                    /\ \A s \in Requests : rq'[s].pc # "idle" => AloneOK(rq[s])'
  BY <1>0, <1>2, <1>4, <1>7, <1>8, <1>9, WizardRest
<1>11. WizardAlone'
  BY <1>2, <1>10, AloneRest
<1> QED
  BY <1>5, <1>6, <1>10, <1>11 DEF SetupInv

\* lookupRequiredSecret and executeSetupWizardProviderCheck.
LEMMA CheckProviderStep ==
    ASSUME SetupInv, NEW r \in Requests, CheckProvider(r)
    PROVE  SetupInv'
<1>0. SetupTypeOK /\ WizardRequests /\ WizardStores /\ WizardAlone /\ rq[r].pc = "try"
  BY DEF SetupInv, CheckProvider
<1>1. WizardRequestOK(rq[r]) /\ rq[r].p \in Models
  BY <1>0 DEF WizardRequests, WizardRequestOK
<1>2. UNCHANGED <<online, shipped, database, row, acc, accDoc, prv, prvDoc, keys, keyFile, sent, failures, completed, blame>>
  BY DEF CheckProvider
<1>3. \/ /\ keys[rq[r].p] = "good" /\ passed' = passed \cup {rq[r].p}
         /\ Reply(r) \/ (rq[r].kind # "check" /\ Go(r, "bind"))
      \/ Reply(r) /\ passed' = passed
  BY DEF CheckProvider, Available
<1>4. /\ rq' \in [Requests -> WizardRecord] /\ \A s \in Requests \ {r} : rq'[s] = rq[s]
      /\ \/ rq'[r] = NoSubmission
         \/ /\ rq'[r].pc = "bind" /\ rq'[r].kind = rq[r].kind /\ rq'[r].p = rq[r].p /\ rq'[r].row = rq[r].row
            /\ rq[r].kind # "check" /\ rq[r].p \in passed'
  BY <1>0, <1>3, WizardMoves
<1>5. SetupTypeOK'
  BY <1>0, <1>1, <1>2, <1>3, <1>4 DEF SetupTypeOK, WizardRecord
<1>6. WizardStores'
  BY <1>0, <1>2, <1>3 DEF WizardStores
<1>7. WizardRequestOK(rq[r])'
  BY <1>0, <1>1, <1>2, <1>3, <1>4, WizardConstants DEF WizardRequestOK, SavingPcs
<1>8. ASSUME Quiet', rq'[r].pc # "idle" PROVE AloneOK(rq[r])'
  <2>1. AloneOK(rq[r])
    BY <1>0, <1>2, <1>8 DEF WizardAlone, Quiet
  <2> QED
    BY <1>2, <1>4, <1>8, <2>1, WizardConstants DEF AloneOK, SavingPcs
<1>9. /\ WizardRequests'
      /\ Quiet' => /\ Quiet
                   /\ \A s, t \in Requests : rq'[s].pc # "idle" /\ rq'[t].pc # "idle" => s = t
                   /\ \A s \in Requests : rq'[s].pc # "idle" => AloneOK(rq[s])'
  BY <1>0, <1>2, <1>3, <1>4, <1>7, <1>8, WizardRest
<1>10. WizardAlone'
  BY <1>2, <1>9, AloneRest
<1> QED
  BY <1>5, <1>6, <1>9, <1>10 DEF SetupInv

\* The entry joins the registry and becomes its primary.
LEMMA BindProviderStep ==
    ASSUME SetupInv, NEW r \in Requests, BindProvider(r)
    PROVE  SetupInv'
<1>0. SetupTypeOK /\ WizardRequests /\ WizardStores /\ WizardAlone /\ rq[r].pc = "bind"
  BY DEF SetupInv, BindProvider
<1>1. WizardRequestOK(rq[r]) /\ rq[r].p \in passed /\ rq[r].p \in Models /\ rq[r].kind = "provider"
  BY <1>0 DEF WizardRequests, WizardRequestOK, SetupTypeOK
<1>2. UNCHANGED <<online, shipped, database, row, acc, accDoc, keys, keyFile, sent, passed, completed, blame>>
  BY DEF BindProvider
<1>3. /\ prv' = [entries |-> prv.entries \cup {rq[r].p}, primary |-> rq[r].p]
      /\ \/ prvDoc' = prv' /\ Go(r, "save") /\ failures' = failures
         \/ failures < MaxFailures /\ failures' = failures + 1 /\ Reply(r) /\ prvDoc' = prvDoc
  BY DEF BindProvider, StoreFails, Fails
<1>4. /\ prv' \in Registry /\ prv' # Unset /\ prv'.primary \in prv'.entries \cap passed
      /\ prvDoc' \in {prvDoc, prv'}
  <2>1. prv.entries \in SUBSET Models
    BY <1>0 DEF SetupTypeOK, Registry
  <2>2. prv' \in Registry
    BY <1>1, <1>3, <2>1 DEF Registry
  <2> QED
    BY <1>1, <1>3, <2>2, SetupAssumption
<1>5. /\ rq' \in [Requests -> WizardRecord] /\ \A s \in Requests \ {r} : rq'[s] = rq[s]
      /\ \/ rq'[r] = NoSubmission
         \/ /\ rq'[r].pc = "save" /\ rq'[r].kind = rq[r].kind /\ rq'[r].p = rq[r].p /\ rq'[r].row = rq[r].row
            /\ prvDoc' # Unset
  BY <1>0, <1>3, <1>4, WizardMoves
<1>6. SetupTypeOK'
  <2>1. failures' \in 0 .. MaxFailures
    BY <1>0, <1>3, SetupAssumption DEF SetupTypeOK
  <2> QED
    BY <1>0, <1>2, <1>4, <1>5, <2>1 DEF SetupTypeOK, WizardRecord
<1>7. WizardStores'
  BY <1>0, <1>2, <1>4 DEF WizardStores
<1>8. WizardRequestOK(rq[r])'
  BY <1>0, <1>1, <1>2, <1>4, <1>5, WizardConstants DEF WizardRequestOK, SavingPcs
<1>9. ASSUME Quiet', rq'[r].pc # "idle" PROVE AloneOK(rq[r])'
  <2>1. AloneOK(rq[r])
    BY <1>0, <1>2, <1>9 DEF WizardAlone, Quiet
  <2> QED
    BY <1>1, <1>2, <1>5, <1>9, <2>1, WizardConstants DEF AloneOK, SavingPcs
<1>10. /\ WizardRequests'
       /\ Quiet' => /\ Quiet
                    /\ \A s, t \in Requests : rq'[s].pc # "idle" /\ rq'[t].pc # "idle" => s = t
                    /\ \A s \in Requests : rq'[s].pc # "idle" => AloneOK(rq[s])'
  BY <1>0, <1>2, <1>4, <1>5, <1>8, <1>9, WizardRest
<1>11. WizardAlone'
  BY <1>2, <1>10, AloneRest
<1> QED
  BY <1>6, <1>7, <1>10, <1>11 DEF SetupInv

\* setupWizardCompleteHandler: judged complete, memory has what the row claims.
LEMMA CompleteStep ==
    ASSUME SetupInv, NEW r \in Requests, Complete(r)
    PROVE  SetupInv'
<1>0. SetupTypeOK /\ WizardRequests /\ WizardStores /\ WizardAlone /\ rq[r].pc = "complete"
  BY DEF SetupInv, Complete
<1>1. WizardRequestOK(rq[r]) /\ rq[r].kind = "complete" /\ online
  BY <1>0 DEF WizardRequests, WizardRequestOK
<1>2. UNCHANGED <<online, shipped, database, row, acc, accDoc, prv, prvDoc, keys, keyFile, sent, failures,
                  passed, completed, blame>>
  BY DEF Complete
<1>3. (MayComplete(rq[r].row) /\ Go(r, "snapshot")) \/ Reply(r)
  BY DEF Complete, AfterComplete
<1>4. /\ rq' \in [Requests -> WizardRecord] /\ \A s \in Requests \ {r} : rq'[s] = rq[s]
      /\ \/ rq'[r] = NoSubmission
         \/ /\ rq'[r].pc = "snapshot" /\ rq'[r].kind = rq[r].kind /\ rq'[r].p = rq[r].p
            /\ rq'[r].row = rq[r].row /\ MayComplete(rq[r].row)
  BY <1>0, <1>3, WizardMoves
<1>5. SetupTypeOK'
  BY <1>0, <1>2, <1>4 DEF SetupTypeOK, WizardRecord
<1>6. WizardStores'
  BY <1>0, <1>2 DEF WizardStores
<1>7. WizardRequestOK(rq[r])'
  BY <1>0, <1>1, <1>2, <1>4, WizardConstants DEF WizardRequestOK, SavingPcs, MayComplete
<1>8. ASSUME Quiet', rq'[r].pc # "idle" PROVE AloneOK(rq[r])'
  <2>1. /\ AloneOK(rq[r]) /\ Covered(RestoredAccess, acc) /\ Covered(row, RestoredAccess)
    BY <1>0, <1>1, <1>2, <1>8 DEF WizardAlone, Quiet
  <2>2. /\ rq'[r].pc = "snapshot" /\ rq'[r].kind = "complete" /\ rq'[r].row = rq[r].row
        /\ Ready(rq[r].row)
    BY <1>1, <1>4, <1>8, WizardConstants DEF MayComplete
  <2>3. rq[r].row = row
    BY <1>1, <2>1 DEF AloneOK
  <2>4. acc.admin /\ acc.auth /\ acc.channel
    BY <2>1, <2>2, <2>3 DEF Ready, Covered
  <2> QED
    BY <1>2, <2>1, <2>2, <2>3, <2>4 DEF AloneOK, SavingPcs
<1>9. /\ WizardRequests'
      /\ Quiet' => /\ Quiet
                   /\ \A s, t \in Requests : rq'[s].pc # "idle" /\ rq'[t].pc # "idle" => s = t
                   /\ \A s \in Requests : rq'[s].pc # "idle" => AloneOK(rq[s])'
  BY <1>0, <1>2, <1>4, <1>7, <1>8, WizardRest
<1>10. WizardAlone'
  BY <1>2, <1>9, AloneRest
<1> QED
  BY <1>5, <1>6, <1>9, <1>10 DEF SetupInv

\* persistAccessConfig takes its snapshot.
LEMMA SnapshotStep ==
    ASSUME SetupInv, NEW r \in Requests, Snapshot(r)
    PROVE  SetupInv'
<1>0. SetupTypeOK /\ WizardRequests /\ WizardStores /\ WizardAlone /\ rq[r].pc = "snapshot"
  BY DEF SetupInv, Snapshot
<1>1. /\ WizardRequestOK(rq[r]) /\ acc \in Access
      /\ rq \in [Requests -> WizardRecord] /\ rq[r] \in WizardRecord
  BY <1>0, WizardTypes DEF WizardRequests, SetupTypeOK
<1>2. UNCHANGED <<online, shipped, database, row, acc, accDoc, prv, prvDoc, keys, keyFile, sent, failures,
                  passed, completed, blame>>
  BY DEF Snapshot
<1>3. rq' = [rq EXCEPT ![r].snap = acc, ![r].pc = "persist"]
  BY DEF Snapshot
<1>4. /\ rq' \in [Requests -> WizardRecord] /\ \A s \in Requests \ {r} : rq'[s] = rq[s]
      /\ rq'[r].pc = "persist" /\ rq'[r].kind = rq[r].kind /\ rq'[r].p = rq[r].p
      /\ rq'[r].row = rq[r].row /\ rq'[r].snap = acc
  <2> DEFINE q == [[rq[r] EXCEPT !.snap = acc] EXCEPT !.pc = "persist"]
  <2>1. q \in WizardRecord
    BY <1>1 DEF WizardRecord
  <2>2. q.pc = "persist" /\ q.kind = rq[r].kind /\ q.p = rq[r].p /\ q.row = rq[r].row /\ q.snap = acc
    BY <1>1 DEF WizardRecord
  <2>3. rq' = [rq EXCEPT ![r] = q]
    BY <1>1, <1>3
  <2> HIDE DEF q
  <2> QED
    BY <1>1, <2>1, <2>2, <2>3
<1>5. SetupTypeOK'
  BY <1>0, <1>2, <1>4 DEF SetupTypeOK, WizardRecord
<1>6. WizardStores'
  BY <1>0, <1>2 DEF WizardStores
<1>7. WizardRequestOK(rq[r])'
  BY <1>0, <1>1, <1>2, <1>4 DEF WizardRequestOK, SavingPcs
<1>8. ASSUME Quiet' PROVE AloneOK(rq[r])'
  <2>1. AloneOK(rq[r])
    BY <1>0, <1>2, <1>8 DEF WizardAlone, Quiet
  <2> QED
    BY <1>0, <1>2, <1>4, <2>1 DEF AloneOK, SavingPcs
<1>9. /\ WizardRequests'
      /\ Quiet' => /\ Quiet
                   /\ \A s, t \in Requests : rq'[s].pc # "idle" /\ rq'[t].pc # "idle" => s = t
                   /\ \A s \in Requests : rq'[s].pc # "idle" => AloneOK(rq[s])'
  BY <1>0, <1>2, <1>4, <1>7, <1>8, WizardRest
<1>10. WizardAlone'
  BY <1>2, <1>9, AloneRest
<1> QED
  BY <1>5, <1>6, <1>9, <1>10 DEF SetupInv

\* persistAccessConfig writes it.
LEMMA PersistAccessStep ==
    ASSUME SetupInv, NEW r \in Requests, PersistAccess(r)
    PROVE  SetupInv'
<1>0. SetupTypeOK /\ WizardRequests /\ WizardStores /\ WizardAlone /\ rq[r].pc = "persist"
  BY DEF SetupInv, PersistAccess
<1>1. WizardRequestOK(rq[r]) /\ rq[r].snap \in Access /\ online /\ rq[r].snap # Unset
  BY <1>0, WizardTypes, SetupAssumption DEF WizardRequests, WizardRequestOK
<1>2. UNCHANGED <<online, shipped, database, row, acc, prv, prvDoc, keys, keyFile, sent, passed, completed, blame>>
  BY DEF PersistAccess
<1>3. \/ accDoc' = rq[r].snap /\ Go(r, "save") /\ failures' = failures
      \/ failures < MaxFailures /\ failures' = failures + 1 /\ Reply(r) /\ accDoc' = accDoc
  BY DEF PersistAccess, StoreFails, Fails
<1>4. /\ rq' \in [Requests -> WizardRecord] /\ \A s \in Requests \ {r} : rq'[s] = rq[s]
      /\ \/ rq'[r] = NoSubmission
         \/ /\ rq'[r].pc = "save" /\ rq'[r].kind = rq[r].kind /\ rq'[r].p = rq[r].p
            /\ rq'[r].row = rq[r].row /\ accDoc' = rq[r].snap
  BY <1>0, <1>3, WizardMoves
<1>5. SetupTypeOK'
  <2>1. failures' \in 0 .. MaxFailures
    BY <1>0, <1>3, SetupAssumption DEF SetupTypeOK
  <2>2. accDoc' \in Access \cup {Unset}
    BY <1>0, <1>1, <1>3 DEF SetupTypeOK
  <2> QED
    BY <1>0, <1>2, <1>4, <2>1, <2>2 DEF SetupTypeOK, WizardRecord
<1>6. WizardStores'
  BY <1>0, <1>2 DEF WizardStores
<1>7. WizardRequestOK(rq[r])'
  BY <1>0, <1>1, <1>2, <1>4, WizardConstants DEF WizardRequestOK, SavingPcs
<1>8. ASSUME Quiet', rq'[r].pc # "idle" PROVE AloneOK(rq[r])'
  <2>1. AloneOK(rq[r])
    BY <1>0, <1>2, <1>8 DEF WizardAlone, Quiet
  <2>2. rq'[r].pc = "save" /\ rq'[r].kind = rq[r].kind /\ rq'[r].row = rq[r].row /\ accDoc' = rq[r].snap
    BY <1>4, <1>8, WizardConstants
  <2> QED
    BY <1>0, <1>2, <2>1, <2>2 DEF AloneOK, SavingPcs
<1>9. /\ WizardRequests'
      /\ Quiet' => /\ Quiet
                   /\ \A s, t \in Requests : rq'[s].pc # "idle" /\ rq'[t].pc # "idle" => s = t
                   /\ \A s \in Requests : rq'[s].pc # "idle" => AloneOK(rq[s])'
  BY <1>0, <1>2, <1>4, <1>7, <1>8, WizardRest
<1>10. WizardAlone'
  <2> SUFFICES ASSUME Quiet'
               PROVE  /\ completed' => row'.initialized
                      /\ online' => Covered(RestoredAccess, acc)'
                      /\ Covered(row, RestoredAccess)'
                      /\ row'.initialized => RestoredAccess'.admin /\ RestoredAccess'.auth /\ RestoredAccess'.channel
    BY <1>9 DEF WizardAlone
  <2>1. /\ completed => row.initialized
        /\ Covered(RestoredAccess, acc) /\ Covered(row, RestoredAccess)
        /\ ~row.initialized /\ rq[r].snap = acc
    BY <1>0, <1>1, <1>9 DEF WizardAlone, AloneOK
  <2>2. RestoredAccess' \in {RestoredAccess, acc}
    BY <1>1, <1>2, <1>3, <2>1 DEF RestoredAccess
  <2> QED
    BY <1>2, <2>1, <2>2 DEF Covered
<1> QED
  BY <1>5, <1>6, <1>9, <1>10 DEF SetupInv

\* What a handler makes of its copy of the row.
LEMMA NewStateFields ==
    ASSUME NEW q \in WizardRecord, q.kind # "check"
    PROVE  /\ NewState(q) \in Row
           /\ NewState(q).admin => q.row.admin \/ q.kind = "admin"
           /\ NewState(q).auth => q.row.auth \/ q.kind \in {"admin", "auth"}
           /\ NewState(q).channel => q.row.channel \/ q.kind = "channel"
           /\ NewState(q).initialized => q.row.initialized \/ q.kind = "complete"
           /\ q.kind = "complete" => NewState(q).initialized /\ (q.row.checked => NewState(q).checked)
           /\ NewState(q).checked => \/ q.kind = "provider" /\ NewState(q).provider = q.p
                                     \/ q.row.checked /\ NewState(q).provider = q.row.provider
<1>1. q.row \in Row /\ q.p \in Models \cup {Unset} /\ q.kind \in Kinds
  BY DEF WizardRecord
<1> DEFINE s == q.row
<1>2. /\ s.initialized \in BOOLEAN /\ s.admin \in BOOLEAN /\ s.auth \in BOOLEAN /\ s.channel \in BOOLEAN
      /\ s.checked \in BOOLEAN /\ s \in Row
  BY <1>1 DEF Row
<1> HIDE DEF s
<1>3. CASE q.kind = "admin"
  <2>1. NewState(q) = [s EXCEPT !.admin = TRUE, !.auth = TRUE]
    BY <1>3 DEF NewState, s
  <2> DEFINE n == [[s EXCEPT !.admin = TRUE] EXCEPT !.auth = TRUE]
  <2>2. /\ n \in Row /\ n.channel = s.channel /\ n.initialized = s.initialized
        /\ n.checked = s.checked /\ n.provider = s.provider
    BY <1>2 DEF Row
  <2>3. NewState(q) = n
    BY <2>1
  <2> HIDE DEF n
  <2> QED
    BY <1>2, <1>3, <2>2, <2>3 DEF s
<1>4. CASE q.kind = "auth"
  <2> DEFINE n == [s EXCEPT !.auth = TRUE]
  <2>1. NewState(q) = n
    BY <1>4 DEF NewState, s
  <2>2. /\ n \in Row /\ n.channel = s.channel /\ n.initialized = s.initialized /\ n.admin = s.admin
        /\ n.checked = s.checked /\ n.provider = s.provider
    BY <1>2 DEF Row
  <2> HIDE DEF n
  <2> QED
    BY <1>2, <1>4, <2>1, <2>2 DEF s
<1>5. CASE q.kind = "provider"
  <2> DEFINE n == [[s EXCEPT !.provider = q.p] EXCEPT !.checked = TRUE]
  <2>1. NewState(q) = n
    BY <1>5 DEF NewState, s
  <2>2. /\ n \in Row /\ n.channel = s.channel /\ n.initialized = s.initialized /\ n.admin = s.admin
        /\ n.auth = s.auth /\ n.provider = q.p
    BY <1>1, <1>2 DEF Row
  <2> HIDE DEF n
  <2> QED
    BY <1>2, <1>5, <2>1, <2>2 DEF s
<1>6. CASE q.kind = "channel"
  <2> DEFINE n == [s EXCEPT !.channel = TRUE]
  <2>1. NewState(q) = n
    BY <1>6 DEF NewState, s
  <2>2. /\ n \in Row /\ n.initialized = s.initialized /\ n.admin = s.admin /\ n.auth = s.auth
        /\ n.checked = s.checked /\ n.provider = s.provider
    BY <1>2 DEF Row
  <2> HIDE DEF n
  <2> QED
    BY <1>2, <1>6, <2>1, <2>2 DEF s
<1>7. CASE q.kind = "complete"
  <2> DEFINE n == [s EXCEPT !.initialized = TRUE]
  <2>1. NewState(q) = n
    BY <1>7 DEF NewState, s
  <2>2. /\ n \in Row /\ n.initialized = TRUE /\ n.admin = s.admin /\ n.auth = s.auth /\ n.channel = s.channel
        /\ n.checked = s.checked /\ n.provider = s.provider
    BY <1>2 DEF Row
  <2> HIDE DEF n
  <2> QED
    BY <1>2, <1>7, <2>1, <2>2 DEF s
<1> QED
  BY <1>1, <1>3, <1>4, <1>5, <1>6, <1>7 DEF Kinds

\* SaveSetupState: the row gets what memory and the document already have.
LEMMA SaveSetupStep ==
    ASSUME SetupInv, NEW r \in Requests, SaveSetupState(r)
    PROVE  SetupInv'
<1> DEFINE q == rq[r]
<1>0. SetupTypeOK /\ WizardRequests /\ WizardStores /\ WizardAlone /\ q.pc = "save"
  BY DEF SetupInv, SaveSetupState
<1>1. /\ WizardRequestOK(q) /\ q \in WizardRecord /\ q.kind # "check" /\ online
      /\ ~q.row.initialized
      /\ q.kind = "provider" => q.p \in passed /\ prvDoc # Unset
      /\ q.kind = "complete" => q.row.checked
      /\ q.row.checked => q.row.provider \in passed /\ prvDoc # Unset
  BY <1>0, WizardTypes DEF WizardRequests, WizardRequestOK, SavingPcs
<1>2. UNCHANGED <<online, shipped, database, acc, accDoc, prv, prvDoc, keys, keyFile, sent, passed, blame>>
  BY DEF SaveSetupState
<1>3. /\ Reply(r)
      /\ \/ row' = NewState(q) /\ completed' = (completed \/ q.kind = "complete") /\ failures' = failures
         \/ failures < MaxFailures /\ failures' = failures + 1 /\ row' = row /\ completed' = completed
  BY DEF SaveSetupState, StoreFails, Fails
<1>4. /\ rq' \in [Requests -> WizardRecord] /\ rq'[r] = NoSubmission
      /\ \A s \in Requests \ {r} : rq'[s] = rq[s]
  BY <1>0, <1>3, WizardMoves
<1> HIDE DEF q
<1>5. /\ NewState(q) \in Row
      /\ NewState(q).admin => q.row.admin \/ q.kind = "admin"
      /\ NewState(q).auth => q.row.auth \/ q.kind \in {"admin", "auth"}
      /\ NewState(q).channel => q.row.channel \/ q.kind = "channel"
      /\ NewState(q).initialized => q.row.initialized \/ q.kind = "complete"
      /\ q.kind = "complete" => NewState(q).initialized /\ (q.row.checked => NewState(q).checked)
      /\ NewState(q).checked => \/ q.kind = "provider" /\ NewState(q).provider = q.p
                                \/ q.row.checked /\ NewState(q).provider = q.row.provider
  BY <1>1, NewStateFields
<1>6. SetupTypeOK'
  <2>1. failures' \in 0 .. MaxFailures
    BY <1>0, <1>3, SetupAssumption DEF SetupTypeOK
  <2>2. row' \in Row /\ completed' \in BOOLEAN
    BY <1>0, <1>3, <1>5 DEF SetupTypeOK
  <2> QED
    BY <1>0, <1>2, <1>4, <2>1, <2>2 DEF SetupTypeOK, WizardRecord
<1>7. WizardStores'
  <2>1. /\ row'.checked => row'.provider \in passed /\ prvDoc # Unset
        /\ row'.initialized => row'.checked
    BY <1>0, <1>1, <1>3, <1>5 DEF WizardStores
  <2> QED
    BY <1>0, <1>2, <2>1 DEF WizardStores
<1>8. WizardRequestOK(rq[r])'
  BY <1>4, WizardConstants DEF WizardRequestOK, SavingPcs
<1>9. rq'[r].pc = "idle"
  BY <1>4, WizardConstants
<1>10. /\ WizardRequests'
       /\ Quiet' => /\ Quiet
                    /\ \A s, t \in Requests : rq'[s].pc # "idle" /\ rq'[t].pc # "idle" => s = t
                    /\ \A s \in Requests : rq'[s].pc # "idle" => AloneOK(rq[s])'
  BY <1>0, <1>2, <1>4, <1>8, <1>9, WizardRest DEF q
<1>11. WizardAlone'
  <2> SUFFICES ASSUME Quiet'
               PROVE  /\ completed' => row'.initialized
                      /\ online' => Covered(RestoredAccess, acc)'
                      /\ Covered(row, RestoredAccess)'
                      /\ row'.initialized => RestoredAccess'.admin /\ RestoredAccess'.auth /\ RestoredAccess'.channel
    BY <1>10 DEF WizardAlone
  <2>1. /\ completed => row.initialized
        /\ Covered(RestoredAccess, acc) /\ Covered(row, RestoredAccess) /\ AloneOK(q)
    BY <1>0, <1>1, <1>10 DEF WizardAlone, q
  <2>2. /\ ~row.initialized /\ ~completed /\ q.row = row
        /\ q.kind \in {"admin", "complete"} => acc.admin
        /\ q.kind \in {"admin", "auth", "complete"} => acc.auth
        /\ q.kind \in {"channel", "complete"} => acc.channel
        /\ q.kind # "provider" => accDoc = acc
    BY <1>0, <1>1, <2>1 DEF AloneOK, SavingPcs
  <2>3. RestoredAccess' = RestoredAccess
    BY <1>2 DEF RestoredAccess
  <2>4. q.kind # "provider" => RestoredAccess = acc
    BY <1>0, <2>2, SetupAssumption DEF RestoredAccess, SetupTypeOK
  <2>5. completed' => row'.initialized
    BY <1>3, <1>5, <2>2
  <2>6. Covered(row', RestoredAccess)
    BY <1>3, <1>5, <2>1, <2>2, <2>4 DEF Covered
  <2>7. row'.initialized => RestoredAccess.admin /\ RestoredAccess.auth /\ RestoredAccess.channel
    BY <1>3, <1>5, <2>2, <2>4
  <2> QED
    BY <1>2, <2>1, <2>3, <2>5, <2>6, <2>7 DEF Covered
<1> QED
  BY <1>6, <1>7, <1>10, <1>11 DEF SetupInv

\* A request passes requireSetupWizardWrite.
LEMMA SubmitStep ==
    ASSUME SetupInv, NEW r \in Requests, NEW kind \in Kinds, NEW p \in Models \cup {Unset}, NEW key \in Key,
           SubmitRequest(r, kind, p, key), kind \in {"check", "provider"} => p \in Models
    PROVE  SetupInv'
<1> PICK q : q = [pc |-> FirstStep(kind), kind |-> kind, p |-> p, key |-> key,
                  row |-> IF kind = "check" THEN NewRow ELSE row, snap |-> NoAccess]
  OBVIOUS
<1>0. SetupTypeOK /\ WizardRequests /\ WizardStores /\ WizardAlone /\ row \in Row
  BY DEF SetupInv, SetupTypeOK
<1>1. /\ online /\ ~row.initialized /\ rq[r].pc = "idle"
      /\ sent < MaxSubmitted /\ sent' = sent + 1
      /\ blame' = blame \cup IF \E s \in Requests : rq[s].pc # "idle" THEN {"overlap"} ELSE {}
      /\ rq' = [rq EXCEPT ![r] = q]
      /\ UNCHANGED <<online, shipped, database, row, acc, accDoc, prv, prvDoc, keys, keyFile, failures, passed, completed>>
  BY DEF SubmitRequest, RequireWrite
<1>2. FirstStep(kind) \in {"user", "auth", "key", "channel", "complete"}
  BY DEF FirstStep, Kinds
<1>3. q \in WizardRecord
  BY <1>0, <1>2, WizardConstants DEF WizardRecord
<1>4. /\ q.pc = FirstStep(kind) /\ q.kind = kind /\ q.p = p
      /\ q.row = IF kind = "check" THEN NewRow ELSE row
  OBVIOUS
<1>5. rq' \in [Requests -> WizardRecord] /\ rq'[r] = q /\ \A s \in Requests \ {r} : rq'[s] = rq[s]
  BY <1>0, <1>1, <1>3, WizardTypes
<1>6. SetupTypeOK'
  <2>1. sent' \in 0 .. MaxSubmitted
    BY <1>0, <1>1, SetupAssumption DEF SetupTypeOK
  <2>2. blame' \subseteq {"overlap", "rekey", "unsaved"}
    BY <1>0, <1>1 DEF SetupTypeOK
  <2> QED
    BY <1>0, <1>1, <1>5, <2>1, <2>2 DEF SetupTypeOK, WizardRecord
<1>7. WizardStores'
  <2>1. blame' \subseteq {"overlap"} => blame \subseteq {"overlap"}
    BY <1>1
  <2> QED
    BY <1>0, <1>1, <2>1 DEF WizardStores
<1>8. WizardRequestOK(q)'
  <2>1. /\ q.row.checked => q.row.provider \in passed /\ prvDoc # Unset
        /\ ~q.row.initialized
    BY <1>0, <1>1, <1>4, WizardConstants DEF WizardStores
  <2>2. /\ q.pc = "auth" => kind = "auth"
        /\ q.pc = "user" => kind = "admin" /\ q.pc # "save"
        /\ q.pc = "channel" => kind = "channel"
        /\ q.pc \in {"key", "try"} => kind \in {"check", "provider"}
        /\ q.pc = "complete" => kind = "complete"
        /\ q.pc \notin {"bind", "snapshot", "persist", "save"}
    BY <1>4 DEF FirstStep, Kinds
  <2> QED
    BY <1>1, <1>4, <2>1, <2>2 DEF WizardRequestOK, SavingPcs
<1>9. WizardRequests'
  <2> SUFFICES ASSUME NEW s \in Requests PROVE WizardRequestOK(rq[s])'
    BY DEF WizardRequests
  <2>1. CASE s = r
    BY <1>5, <1>8, <2>1 DEF WizardRequestOK
  <2>2. CASE s # r
    <3>1. WizardRequestOK(rq[s]) /\ rq'[s] = rq[s]
      BY <1>0, <1>5, <2>2 DEF WizardRequests
    <3> QED
      BY <1>1, <3>1 DEF WizardRequestOK
  <2> QED
    BY <2>1, <2>2
<1>10. WizardAlone'
  <2>1. ASSUME Quiet'
        PROVE  /\ Quiet
               /\ \A s, t \in Requests : rq'[s].pc # "idle" /\ rq'[t].pc # "idle" => s = t
               /\ \A s \in Requests : rq'[s].pc # "idle" => AloneOK(rq[s])'
    <3>1. \A s \in Requests : rq[s].pc = "idle"
      BY <1>1, <2>1 DEF Quiet
    <3>2. Quiet /\ \A s \in Requests : rq'[s].pc # "idle" => s = r
      BY <1>1, <1>5, <2>1, <3>1 DEF Quiet
    <3>3. q.pc \notin SavingPcs /\ (q.pc = "auth" => kind = "auth")
      BY <1>4 DEF FirstStep, Kinds, SavingPcs
    <3>4. AloneOK(rq[r])'
      BY <1>1, <1>4, <1>5, <3>3 DEF AloneOK, SavingPcs
    <3> QED
      BY <3>2, <3>4
  <2> QED
    BY <1>1, <2>1, AloneRest
<1> QED
  BY <1>6, <1>7, <1>9, <1>10 DEF SetupInv

LEMMA SetupCrashStep ==
    ASSUME SetupInv, SetupCrash
    PROVE  SetupInv'
<1>0. SetupTypeOK /\ WizardRequests /\ WizardStores /\ WizardAlone
  BY DEF SetupInv
<1>1. /\ failures < MaxFailures /\ failures' = failures + 1 /\ online' = FALSE
      /\ rq' = [r \in Requests |-> NoSubmission]
      /\ UNCHANGED <<shipped, database, row, acc, accDoc, prv, prvDoc, keys, keyFile, sent, passed, completed, blame>>
  BY DEF SetupCrash, Fails
<1>2. rq' \in [Requests -> WizardRecord] /\ \A r \in Requests : rq'[r] = NoSubmission
  BY <1>1, WizardConstants
<1>3. SetupTypeOK'
  <2>1. failures' \in 0 .. MaxFailures
    BY <1>0, <1>1, SetupAssumption DEF SetupTypeOK
  <2> QED
    BY <1>0, <1>1, <1>2, <2>1 DEF SetupTypeOK, WizardRecord
<1>4. WizardStores'
  BY <1>0, <1>1 DEF WizardStores
<1>5. WizardRequests'
  BY <1>2, WizardConstants DEF WizardRequests, WizardRequestOK, SavingPcs
<1>6. WizardAlone'
  <2>1. RestoredAccess' = RestoredAccess
    BY <1>1 DEF RestoredAccess
  <2> QED
    BY <1>0, <1>1, <1>2, <2>1, WizardConstants DEF WizardAlone, Quiet, Covered
<1> QED
  BY <1>3, <1>4, <1>5, <1>6 DEF SetupInv

LEMMA SetupBootStep ==
    ASSUME SetupInv, SetupBoot
    PROVE  SetupInv'
<1>0. SetupTypeOK /\ WizardRequests /\ WizardStores /\ WizardAlone
  BY DEF SetupInv
<1>1. /\ ~online /\ online' = TRUE
      /\ acc' = RestoredAccess' /\ prv' = RestoredRegistry' /\ keys' = keyFile
      /\ UNCHANGED <<shipped, database, keyFile, rq, sent, failures, passed, blame>>
      /\ \/ UNCHANGED <<row, accDoc, prvDoc, completed>>
         \/ row' = NewRow /\ accDoc' = Unset /\ prvDoc' = Unset /\ completed' = FALSE
  BY DEF SetupBoot
<1>2. \A r \in Requests : rq[r].pc = "idle"
  BY <1>0, <1>1 DEF WizardRequests, WizardRequestOK
<1>3. RestoredAccess' \in Access /\ RestoredRegistry' \in Registry
  BY <1>0, <1>1, WizardConstants DEF SetupTypeOK, RestoredAccess, RestoredRegistry
<1>4. SetupTypeOK'
  <2>1. row' \in Row /\ accDoc' \in Access \cup {Unset} /\ prvDoc' \in Registry \cup {Unset} /\ completed' \in BOOLEAN
    BY <1>0, <1>1, WizardConstants DEF SetupTypeOK
  <2> QED
    BY <1>0, <1>1, <1>3, <2>1 DEF SetupTypeOK
<1>5. WizardStores'
  BY <1>0, <1>1, WizardConstants DEF WizardStores
<1>6. WizardRequests'
  BY <1>0, <1>1, <1>2 DEF WizardRequests, WizardRequestOK, SavingPcs
<1>7. WizardAlone'
  <2>1. CASE UNCHANGED <<row, accDoc, prvDoc, completed>>
    <3>1. RestoredAccess' = RestoredAccess
      BY <1>1, <2>1 DEF RestoredAccess
    <3> QED
      BY <1>0, <1>1, <1>2, <2>1, <3>1 DEF WizardAlone, Quiet, Covered
  <2>2. CASE row' = NewRow /\ completed' = FALSE
    <3>1. ~row'.admin /\ ~row'.auth /\ ~row'.channel /\ ~row'.initialized
      BY <2>2 DEF NewRow
    <3> QED
      BY <1>0, <1>1, <1>2, <2>2, <3>1 DEF WizardAlone, Quiet, Covered
  <2> QED
    BY <1>1, <2>1, <2>2
<1> QED
  BY <1>4, <1>5, <1>6, <1>7 DEF SetupInv

LEMMA SetupStep == SetupInv /\ [SetupNext]_setupVars => SetupInv'
<1> SUFFICES ASSUME SetupInv, [SetupNext]_setupVars PROVE SetupInv'
  OBVIOUS
<1>1. ASSUME NEW r \in Requests, Submit(r) PROVE SetupInv'
  <2>1. Unset \in Key
    BY DEF Key
  <2>2. CASE \E kind \in Kinds \ {"check", "provider"} : SubmitRequest(r, kind, Unset, Unset)
    BY <2>1, <2>2, SubmitStep
  <2>3. CASE \E kind \in {"check", "provider"}, p \in Models, key \in Key : SubmitRequest(r, kind, p, key)
    <3>1. {"check", "provider"} \subseteq Kinds
      BY DEF Kinds
    <3> QED
      BY <2>3, <3>1, SubmitStep
  <2> QED
    BY <1>1, <2>2, <2>3 DEF Submit
<1>2. ASSUME NEW r \in Requests, Handle(r) PROVE SetupInv'
  <2>1. CASE SetupAdmin(r) \/ SetupAdminAuth(r) \/ SetupAuth(r) \/ SetupChannel(r)
    BY <2>1, UpsertStep DEF SetupAdmin, SetupAdminAuth, SetupAuth, SetupChannel, EnsureSetupAuthProvider
  <2> QED
    BY <1>2, <2>1, StoreKeyStep, CheckProviderStep, BindProviderStep, CompleteStep, SnapshotStep,
       PersistAccessStep, SaveSetupStep DEF Handle
<1>3. CASE UNCHANGED setupVars
  <2>1. RestoredAccess' = RestoredAccess
    BY <1>3 DEF setupVars, RestoredAccess
  <2> QED
    BY <1>3, <2>1 DEF setupVars, SetupInv, SetupTypeOK, WizardRequests, WizardRequestOK, WizardStores,
                      WizardAlone, AloneOK, Quiet, Covered
<1> QED
  BY <1>1, <1>2, <1>3, SetupCrashStep, SetupBootStep DEF SetupNext

LEMMA SetupInitInv == SetupInit => SetupInv
<1> SUFFICES ASSUME SetupInit PROVE SetupInv
  OBVIOUS
<1> USE DEF SetupInit
<1>1. rq \in [Requests -> WizardRecord] /\ \A r \in Requests : rq[r] = NoSubmission
  BY WizardConstants
<1>2. SetupTypeOK
  <2>1. row \in Row /\ prv \in Registry /\ keys \in [Models -> Key] /\ keyFile \in [Models -> Key]
    BY WizardConstants DEF Key
  <2>2. sent \in 0 .. MaxSubmitted /\ failures \in 0 .. MaxFailures
    BY SetupAssumption
  <2> QED
    BY <1>1, <2>1, <2>2 DEF SetupTypeOK, WizardRecord
<1>3. WizardRequests
  BY <1>1, WizardConstants DEF WizardRequests, WizardRequestOK, SavingPcs
<1>4. WizardStores
  BY WizardConstants DEF WizardStores
<1>5. WizardAlone
  <2>1. RestoredAccess = acc
    BY DEF RestoredAccess
  <2>2. ~row.admin /\ ~row.auth /\ ~row.channel /\ ~row.initialized
    BY DEF NewRow
  <2> QED
    BY <1>1, <2>1, <2>2, WizardConstants DEF WizardAlone, Covered
<1> QED
  BY <1>2, <1>3, <1>4, <1>5 DEF SetupInv

(* The first-run wizard of any number of overlapping requests: a checked     *)
(* provider answered; a wizard that nobody else used while it ran ends in a  *)
(* server whose stored configuration can be used, and stays closed, although *)
(* any of the writes on the way may have failed and the server crashed.      *)
THEOREM SetupCorrect == SetupSpec => []SetupSound
<1>1. SetupInv => SetupSound
  <2> SUFFICES ASSUME SetupInv PROVE CheckedIsBound /\ CompletedUsable /\ StaysCompleted
    BY DEF SetupInv, SetupSound
  <2>0. SetupTypeOK /\ WizardRequests /\ WizardStores /\ WizardAlone
    BY DEF SetupInv
  <2>1. CheckedIsBound
    BY <2>0 DEF WizardStores, CheckedIsBound
  <2>2. ASSUME row.initialized, Quiet
        PROVE  /\ RestoredAccess = [admin |-> TRUE, auth |-> TRUE, channel |-> TRUE]
               /\ RestoredRegistry.primary \in RestoredRegistry.entries \cap passed
               /\ (blame = {} => keyFile[RestoredRegistry.primary] = "good")
               /\ \A r \in Requests : rq[r].pc = "idle"
    <3>1. RestoredAccess \in Access /\ RestoredAccess.admin /\ RestoredAccess.auth /\ RestoredAccess.channel
      BY <2>0, <2>2, RestoredAccessType DEF WizardAlone
    <3>2. RestoredAccess = [admin |-> TRUE, auth |-> TRUE, channel |-> TRUE]
      BY <3>1 DEF Access
    <3>3. prvDoc # Unset /\ prvDoc.primary \in prvDoc.entries \cap passed
      BY <2>0, <2>2 DEF WizardStores
    <3>4. RestoredRegistry = prvDoc
      BY <3>3 DEF RestoredRegistry
    <3>5. \A r \in Requests : rq[r].pc = "idle"
      BY <2>0, <2>2 DEF WizardAlone, AloneOK
    <3> QED
      BY <2>0, <3>2, <3>3, <3>4, <3>5 DEF WizardStores
  <2>3. CompletedUsable
    BY <2>2 DEF CompletedUsable, Quiet
  <2>4. StaysCompleted
    BY <2>0, <2>2 DEF StaysCompleted, WizardAlone, Quiet
  <2> QED
    BY <2>1, <2>3, <2>4
<1> QED
  BY <1>1, SetupInitInv, SetupStep, PTL DEF SetupSpec


-----------------------------------------------------------------------------
(* Extension candidates: the review that an import relies on.              *)

ExtPcs == {"idle", "persist", "upsert", "wait"}
Operation == [pc: ExtPcs, op: {"validate", "import"} \cup Reviews,
              c: Candidates \cup {NoCandidate}, copy: Candidate \cup {NoCandidate}]

ExtTypes == /\ cands \in [Candidates -> Candidate \cup {NoCandidate}]
            /\ candFile \in [Candidates -> Candidate \cup {NoCandidate}]
            /\ creq \in [Operators -> Operation]
            /\ verdict \in [Candidates -> {"pending"} \cup Reviews]
            /\ cstale \in BOOLEAN
            /\ ~hasPath => \A c \in Candidates : candFile[c] = NoCandidate
            /\ \A o \in Operators : creq[o].pc # "idle" => creq[o].c \in Candidates /\ creq[o].copy \in Candidate

\* A record that says approved was approved by the last review in force.
Backed(record, c) == (record # NoCandidate /\ record.review = "approved") => verdict[c] = "approved"

\* Without overlapping operations every copy of a candidate, in memory, in the
\* file and in the hands of an operator, is backed; operators hold different
\* candidates.
ExtBacked ==
    ~cstale =>
        /\ \A c \in Candidates : Backed(cands[c], c) /\ Backed(candFile[c], c)
        /\ \A o \in Operators : creq[o].pc = "persist" => Backed(creq[o].copy, creq[o].c)
        /\ \A o, p \in Operators : (o # p /\ creq[o].pc # "idle" /\ creq[p].pc # "idle") => creq[o].c # creq[p].c

ExtInv == ExtTypes /\ ExtBacked /\ ImportsApproved

LEMMA ExtConstants == NoOperation \in Operation /\ NoOperation.pc = "idle"
  BY DEF NoOperation, Operation, ExtPcs

\* An operation whose record is stored: the maps keep their type, and differ
\* from the maps in memory and in the file at this candidate alone or are what
\* was in memory.
LEMMA PersistMaps ==
    ASSUME ExtTypes, NEW c \in Candidates, NEW record \in Candidate, NEW ok, PersistCandidate(c, record, ok)
    PROVE  /\ cands' \in [Candidates -> Candidate \cup {NoCandidate}]
           /\ candFile' \in [Candidates -> Candidate \cup {NoCandidate}]
           /\ cands'[c] = record /\ \A d \in Candidates \ {c} : cands'[d] = cands[d]
           /\ IF hasPath /\ ok THEN candFile' = cands' ELSE candFile' = candFile
  BY DEF ExtTypes, PersistCandidate

\* The store that comes with a new verdict or none: all copies stay backed.
LEMMA PersistBacked ==
    ASSUME ExtTypes, ExtBacked, ~cstale, NEW c \in Candidates, NEW record \in Candidate, NEW ok,
           PersistCandidate(c, record, ok),
           record.review = "approved" => verdict'[c] = "approved",
           verdict'[c] \in {verdict[c], "approved"} \/ ok,
           \A d \in Candidates \ {c} : verdict'[d] = verdict[d]
    PROVE  \A d \in Candidates : Backed(cands[d], d)' /\ Backed(candFile[d], d)'
<1>1. /\ cands'[c] = record /\ \A d \in Candidates \ {c} : cands'[d] = cands[d]
      /\ IF hasPath /\ ok THEN candFile' = cands' ELSE candFile' = candFile
  BY PersistMaps
<1>2. ASSUME NEW d \in Candidates PROVE Backed(cands[d], d)'
  BY <1>1 DEF ExtBacked, Backed
<1>3. ASSUME NEW d \in Candidates PROVE Backed(candFile[d], d)'
  <2>1. CASE hasPath /\ ok
    BY <1>1, <1>2, <2>1 DEF Backed
  <2>2. CASE ~(hasPath /\ ok)
    <3>1. candFile' = candFile
      BY <1>1, <2>2
    <3>2. CASE hasPath
      BY <2>2, <3>1, <3>2 DEF ExtBacked, Backed
    <3>3. CASE ~hasPath
      BY <3>1, <3>3 DEF ExtTypes, Backed
    <3> QED
      BY <3>2, <3>3
  <2> QED
    BY <2>1, <2>2
<1> QED
  BY <1>2, <1>3

LEMMA ExtInitInv == ExtInit => ExtInv
<1> SUFFICES ASSUME ExtInit PROVE ExtInv
  OBVIOUS
<1>1. /\ \A o \in Operators : creq[o] = NoOperation
      /\ creq \in [Operators -> Operation]
  BY ExtConstants DEF ExtInit
<1>2. ExtTypes
  BY <1>1, ExtConstants DEF ExtInit, ExtTypes
<1>3. ExtBacked /\ ImportsApproved
  BY <1>1, ExtConstants DEF ExtInit, ExtBacked, Backed, ImportsApproved
<1> QED
  BY <1>2, <1>3 DEF ExtInv

\* Generate: a new candidate waits for its review.
LEMMA GenerateStep ==
    ASSUME ExtInv, NEW o \in Operators, NEW c \in Candidates, Generate(o, c)
    PROVE  ExtInv'
<1> DEFINE record == [status |-> "validated", review |-> "pending"]
<1>1. record \in Candidate /\ record.review # "approved"
  BY DEF Candidate
<1>2. PICK ok \in BOOLEAN : PersistCandidate(c, record, ok)
  BY DEF Generate
<1>3. UNCHANGED <<creq, verdict, cstale, hasPath>>
  BY DEF Generate, Others, skillStores
<1> HIDE DEF record
<1>4. ExtTypes'
  <2>1. /\ cands' \in [Candidates -> Candidate \cup {NoCandidate}]
        /\ candFile' \in [Candidates -> Candidate \cup {NoCandidate}]
        /\ IF hasPath /\ ok THEN candFile' = cands' ELSE candFile' = candFile
    BY <1>1, <1>2, PersistMaps DEF ExtInv
  <2> QED
    BY <1>3, <2>1 DEF ExtInv, ExtTypes
<1>5. ExtBacked'
  <2> SUFFICES ASSUME ~cstale PROVE ExtBacked'
    BY <1>3 DEF ExtBacked
  <2>1. \A d \in Candidates : Backed(cands[d], d)' /\ Backed(candFile[d], d)'
    BY <1>1, <1>2, <1>3, PersistBacked DEF ExtInv
  <2> QED
    BY <1>3, <2>1 DEF ExtInv, ExtBacked, Backed
<1> QED
  BY <1>3, <1>4, <1>5 DEF ExtInv, ImportsApproved

\* An operation begins with a copy of the candidate.
LEMMA CopyStep ==
    ASSUME ExtInv, NEW o \in Operators, NEW c \in Candidates, NEW op \in {"validate", "import"} \cup Reviews,
           CopyCandidate(o, c, op)
    PROVE  ExtInv'
<1> PICK q : q = [pc |-> "persist", op |-> op, c |-> c, copy |-> cands[c]]
  OBVIOUS
<1>1. /\ creq' = [creq EXCEPT ![o] = q] /\ creq[o].pc = "idle" /\ cands[c] # NoCandidate
      /\ cstale' = (cstale \/ \E p \in Operators \ {o} : creq[p].c = c)
      /\ UNCHANGED <<cands, candFile, verdict, hasPath>>
  BY DEF CopyCandidate, Begin, Others, skillStores
<1>2. cands[c] \in Candidate
  BY <1>1 DEF ExtInv, ExtTypes
<1>3. q \in Operation /\ q.pc = "persist" /\ q.c = c /\ q.copy = cands[c]
  BY <1>2 DEF Operation, ExtPcs
<1>4. /\ creq' \in [Operators -> Operation] /\ creq'[o] = q
      /\ \A p \in Operators \ {o} : creq'[p] = creq[p]
  BY <1>1, <1>3 DEF ExtInv, ExtTypes
<1>5. ExtTypes'
  BY <1>1, <1>2, <1>3, <1>4 DEF ExtInv, ExtTypes
<1>6. ~cstale' => ~cstale /\ \A p \in Operators \ {o} : creq[p].c # c
  BY <1>1 DEF ExtInv, ExtTypes
<1>7. ExtBacked'
  BY <1>1, <1>3, <1>4, <1>6 DEF ExtInv, ExtBacked, Backed
<1>8. ImportsApproved'
  BY <1>1, <1>3, <1>4, <1>6 DEF ExtInv, ImportsApproved
<1> QED
  BY <1>5, <1>7, <1>8 DEF ExtInv

\* The copy is stored, with its new review or without.
LEMMA StoreCopyStep ==
    ASSUME ExtInv, NEW o \in Operators, StoreCopy(o)
    PROVE  ExtInv'
<1> PICK r : r = creq[o]
  OBVIOUS
<1> PICK record : record = IF r.op \in Reviews THEN [r.copy EXCEPT !.review = r.op] ELSE r.copy
  OBVIOUS
<1>0. r \in Operation /\ r.pc = "persist" /\ r.c \in Candidates /\ r.copy \in Candidate
  BY DEF ExtInv, ExtTypes, StoreCopy
<1>1. PICK ok \in BOOLEAN :
         /\ PersistCandidate(r.c, record, ok)
         /\ creq' = [creq EXCEPT ![o] = IF ok /\ r.op = "import" /\ record.review = "approved"
                                        THEN [r EXCEPT !.pc = "upsert"] ELSE NoOperation]
         /\ verdict' = IF r.op \in Reviews /\ (ok \/ r.op = "approved")
                       THEN [verdict EXCEPT ![r.c] = r.op] ELSE verdict
  BY DEF StoreCopy
<1>2. cstale' = cstale /\ hasPath' = hasPath
  BY DEF StoreCopy, skillVars
<1>3. record \in Candidate /\ (r.op \in Reviews => record.review = r.op) /\ (r.op \notin Reviews => record = r.copy)
  BY <1>0 DEF Candidate, Reviews
<1> PICK next : next = IF ok /\ r.op = "import" /\ record.review = "approved"
                       THEN [r EXCEPT !.pc = "upsert"] ELSE NoOperation
  OBVIOUS
<1>4. /\ next \in Operation
      /\ \/ next.pc = "idle"
         \/ next.pc = "upsert" /\ next.c = r.c /\ next.copy = r.copy /\ r.op = "import" /\ record.review = "approved"
  BY <1>0, ExtConstants DEF Operation, ExtPcs
<1>5. creq' = [creq EXCEPT ![o] = next]
  BY <1>1
<1>6. /\ creq' \in [Operators -> Operation] /\ creq'[o] = next
      /\ \A p \in Operators \ {o} : creq'[p] = creq[p]
  BY <1>4, <1>5 DEF ExtInv, ExtTypes
<1>7. /\ verdict' \in [Candidates -> {"pending"} \cup Reviews]
      /\ \A d \in Candidates \ {r.c} : verdict'[d] = verdict[d]
      /\ r.op \notin Reviews => verdict' = verdict
      /\ (r.op \in Reviews /\ (ok \/ r.op = "approved")) => verdict'[r.c] = r.op
      /\ ~(r.op \in Reviews /\ (ok \/ r.op = "approved")) => verdict' = verdict
  BY <1>0, <1>1 DEF ExtInv, ExtTypes
<1>8. ExtTypes'
  <2>1. /\ cands' \in [Candidates -> Candidate \cup {NoCandidate}]
        /\ candFile' \in [Candidates -> Candidate \cup {NoCandidate}]
        /\ ~hasPath' => \A c \in Candidates : candFile'[c] = NoCandidate
    <3>1. ExtTypes
      BY DEF ExtInv
    <3> QED
      BY <1>0, <1>1, <1>2, <1>3, <3>1, PersistMaps DEF ExtTypes
  <2> QED
    BY <1>0, <1>2, <1>4, <1>6, <1>7, <2>1 DEF ExtInv, ExtTypes
<1>9. CASE cstale
  BY <1>2, <1>8, <1>9 DEF ExtInv, ExtBacked, ImportsApproved
<1>10. CASE ~cstale
  <2>1. record.review = "approved" => verdict'[r.c] = "approved"
    <3>1. CASE r.op \in Reviews
      BY <1>3, <1>7, <3>1
    <3>2. CASE r.op \notin Reviews
      <4>1. Backed(r.copy, r.c) /\ r.copy = record /\ verdict' = verdict
        BY <1>0, <1>3, <1>7, <1>10, <3>2 DEF ExtInv, ExtBacked
      <4> QED
        BY <1>0, <4>1, ExtensionsAssumption DEF Backed
    <3> QED
      BY <3>1, <3>2
  <2>2. verdict'[r.c] \in {verdict[r.c], "approved"} \/ ok
    BY <1>7
  <2>3. \A d \in Candidates : Backed(cands[d], d)' /\ Backed(candFile[d], d)'
    BY <1>0, <1>1, <1>3, <1>7, <1>10, <2>1, <2>2, PersistBacked DEF ExtInv
  <2>4. \A p \in Operators \ {o} : creq[p].pc # "idle" => creq[p].c \in Candidates \ {r.c}
    BY <1>0, <1>10 DEF ExtInv, ExtTypes, ExtBacked
  <2>5. ExtBacked'
    <3>1. ASSUME NEW p \in Operators, creq'[p].pc = "persist" PROVE Backed(creq[p].copy, creq[p].c)'
      <4>1. p # o
        BY <1>4, <1>6, <3>1
      <4>2. creq'[p] = creq[p] /\ creq[p].c \in Candidates \ {r.c}
        BY <1>6, <2>4, <3>1, <4>1
      <4>3. verdict'[creq[p].c] = verdict[creq[p].c] /\ Backed(creq[p].copy, creq[p].c)
        BY <1>7, <1>10, <3>1, <4>2 DEF ExtInv, ExtBacked
      <4> QED
        BY <4>2, <4>3 DEF Backed
    <3>2. ASSUME NEW p \in Operators, NEW s \in Operators, p # s, creq'[p].pc # "idle", creq'[s].pc # "idle"
          PROVE  creq'[p].c # creq'[s].c
      <4>1. CASE p = o \/ s = o
        BY <1>4, <1>6, <2>4, <3>2, <4>1
      <4>2. CASE p # o /\ s # o
        BY <1>6, <1>10, <3>2, <4>2 DEF ExtInv, ExtBacked
      <4> QED
        BY <4>1, <4>2
    <3> QED
      BY <2>3, <3>1, <3>2 DEF ExtBacked
  <2>6. ImportsApproved'
    <3> SUFFICES ASSUME NEW p \in Operators, creq'[p].pc \in {"upsert", "wait"}
                 PROVE  verdict'[creq'[p].c] = "approved"
      BY DEF ImportsApproved
    <3>1. CASE p = o
      BY <1>4, <1>6, <2>1, <3>1
    <3>2. CASE p # o
      BY <1>6, <1>7, <1>10, <2>4, <3>2 DEF ExtInv, ImportsApproved
    <3> QED
      BY <3>1, <3>2
  <2> QED
    BY <1>8, <2>5, <2>6 DEF ExtInv
<1> QED
  BY <1>9, <1>10

\* The import goes on to the skill registry and comes back: of the operation
\* only the place changes, or it ends.
LEMMA OperationMoves ==
    ASSUME ExtInv, NEW o \in Operators, NEW next \in Operation, creq' = [creq EXCEPT ![o] = next],
           \/ next.pc = "idle"
           \/ creq[o].pc \in {"upsert", "wait"} /\ next.pc = "wait" /\ next.c = creq[o].c /\ next.copy = creq[o].copy,
           cstale' = cstale, verdict' = verdict,
           cands' \in [Candidates -> Candidate \cup {NoCandidate}],
           candFile' \in [Candidates -> Candidate \cup {NoCandidate}],
           ~hasPath' => \A c \in Candidates : candFile'[c] = NoCandidate,
           ~cstale => \A c \in Candidates : Backed(cands[c], c)' /\ Backed(candFile[c], c)'
    PROVE  ExtInv'
<1>1. /\ creq' \in [Operators -> Operation] /\ creq'[o] = next
      /\ \A p \in Operators \ {o} : creq'[p] = creq[p]
  BY DEF ExtInv, ExtTypes
<1>2. ExtTypes'
  BY <1>1 DEF ExtInv, ExtTypes
<1>3. ExtBacked'
  BY <1>1 DEF ExtInv, ExtBacked, Backed
<1>4. ImportsApproved'
  BY <1>1 DEF ExtInv, ImportsApproved
<1> QED
  BY <1>2, <1>3, <1>4 DEF ExtInv

LEMMA ImportUpsertStep ==
    ASSUME ExtInv, NEW o \in Operators, ImportUpsert(o)
    PROVE  ExtInv'
<1> PICK next : next = [creq[o] EXCEPT !.pc = "wait"]
  OBVIOUS
<1>1. creq[o] \in Operation
  BY DEF ExtInv, ExtTypes
<1>2. next \in Operation /\ next.pc = "wait" /\ next.c = creq[o].c /\ next.copy = creq[o].copy
  BY <1>1 DEF Operation, ExtPcs
<1>3. creq' = [creq EXCEPT ![o] = next] /\ creq[o].pc = "upsert" /\ UNCHANGED <<cands, candFile, verdict, cstale, hasPath>>
  BY DEF ImportUpsert, skillStores
<1>4. ~cstale => \A c \in Candidates : Backed(cands[c], c)' /\ Backed(candFile[c], c)'
  BY <1>3 DEF ExtInv, ExtBacked, Backed
<1>5. ExtTypes
  BY DEF ExtInv
<1> QED
  BY <1>2, <1>3, <1>4, <1>5, OperationMoves DEF ExtTypes

LEMMA ImportFinishStep ==
    ASSUME ExtInv, NEW o \in Operators, ImportFinish(o)
    PROVE  ExtInv'
<1> PICK record : record = [status |-> "imported", review |-> "imported"]
  OBVIOUS
<1>0. ExtTypes /\ ExtBacked /\ creq[o].c \in Candidates
  BY DEF ExtInv, ExtTypes, ImportFinish
<1>1. record \in Candidate /\ record.review # "approved"
  BY DEF Candidate
<1>2. creq' = [creq EXCEPT ![o] = NoOperation] /\ UNCHANGED <<verdict, cstale, hasPath>>
  BY DEF ImportFinish, skillStores
<1>3. CASE \E ok \in BOOLEAN : PersistCandidate(creq[o].c, record, ok)
  <2>1. PICK ok \in BOOLEAN : PersistCandidate(creq[o].c, record, ok)
    BY <1>3
  <2>2. /\ cands' \in [Candidates -> Candidate \cup {NoCandidate}]
        /\ candFile' \in [Candidates -> Candidate \cup {NoCandidate}]
        /\ IF hasPath /\ ok THEN candFile' = cands' ELSE candFile' = candFile
    BY <1>0, <1>1, <2>1, PersistMaps
  <2>3. ~cstale => \A c \in Candidates : Backed(cands[c], c)' /\ Backed(candFile[c], c)'
    BY <1>0, <1>1, <1>2, <2>1, PersistBacked
  <2>4. ~hasPath' => \A c \in Candidates : candFile'[c] = NoCandidate
    BY <1>0, <1>2, <2>2 DEF ExtTypes
  <2> QED
    BY <1>2, <2>2, <2>3, <2>4, OperationMoves, ExtConstants
<1>4. CASE UNCHANGED <<cands, candFile>>
  <2>1. ~cstale => \A c \in Candidates : Backed(cands[c], c)' /\ Backed(candFile[c], c)'
    BY <1>0, <1>2, <1>4 DEF ExtBacked, Backed
  <2> QED
    BY <1>0, <1>2, <1>4, <2>1, OperationMoves, ExtConstants DEF ExtTypes
<1> QED
  BY <1>3, <1>4 DEF ImportFinish

\* The process stops, and starts with what the file says.
LEMMA ExtRestartStep ==
    ASSUME ExtInv, ExtCrash \/ ExtBoot
    PROVE  ExtInv'
<1>1. hasPath' = hasPath /\ UNCHANGED <<candFile, verdict, cstale>> /\ cands' \in {cands, candFile}
  BY DEF ExtCrash, ExtBoot, SkillsCrash, SkillsBoot
<1>2. creq' = creq \/ (creq' \in [Operators -> Operation] /\ \A o \in Operators : creq'[o].pc = "idle")
  BY ExtConstants DEF ExtCrash, ExtBoot
<1>3. ExtTypes'
  BY <1>1, <1>2 DEF ExtInv, ExtTypes
<1>4. ExtBacked'
  BY <1>1, <1>2 DEF ExtInv, ExtBacked, Backed
<1>5. ImportsApproved'
  BY <1>1, <1>2 DEF ExtInv, ImportsApproved
<1> QED
  BY <1>3, <1>4, <1>5 DEF ExtInv

LEMMA ExtStutter ==
    ASSUME ExtInv, UNCHANGED extVars, hasPath' = hasPath
    PROVE  ExtInv'
<1>1. UNCHANGED <<cands, candFile, creq, verdict, cstale, hasPath>>
  BY DEF extVars
<1> QED
  BY <1>1 DEF ExtInv, ExtTypes, ExtBacked, Backed, ImportsApproved

LEMMA ExtStep == ExtInv /\ [ExtNext]_<<skillVars, extVars>> => ExtInv'
<1> SUFFICES ASSUME ExtInv, [ExtNext]_<<skillVars, extVars>> PROVE ExtInv'
  OBVIOUS
<1>1. ASSUME NEW o \in Operators, ExtOperation(o) PROVE ExtInv'
  <2>1. ASSUME NEW c \in Candidates, ValidateCandidate(o, c) \/ ImportCandidate(o, c) PROVE ExtInv'
    BY <2>1, CopyStep DEF ValidateCandidate, ImportCandidate
  <2>2. ASSUME NEW c \in Candidates, NEW review \in Reviews, ReviewCandidate(o, c, review) PROVE ExtInv'
    BY <2>2, CopyStep DEF ReviewCandidate
  <2> QED
    BY <1>1, <2>1, <2>2, GenerateStep, StoreCopyStep, ImportUpsertStep, ImportFinishStep DEF ExtOperation
<1>2. ASSUME NEW o \in Operators, SkillStep(o), UNCHANGED extVars PROVE ExtInv'
  <2>1. hasPath' = hasPath
    BY <1>2 DEF SkillStep, UpsertTarget, SyncRequest, WriteSkillFile, WriteSkillState, SwapSkills, GetSkillLife, PutSkillLife,
                skillStores
  <2> QED
    BY <1>2, <2>1, ExtStutter
<1>3. CASE UNCHANGED <<skillVars, extVars>>
  BY <1>3, ExtStutter DEF skillVars
<1> QED
  BY <1>1, <1>2, <1>3, ExtRestartStep DEF ExtNext

(* Extension candidates of any number and any number of operators: a skill is *)
(* imported only while the last review of its candidate that took effect is   *)
(* an approval, through failed writes of the state file, crashes and          *)
(* restarts, unless two operations on the candidate overlapped.               *)
THEOREM ImportsCorrect == ExtSpec => []ImportsSound
<1>1. ExtInv => ImportsSound
  BY DEF ExtInv, ExtTypes, ImportsSound, ExtTypeOK
<1> QED
  BY <1>1, ExtInitInv, ExtStep, PTL DEF ExtSpec


-----------------------------------------------------------------------------
(* The skill registry: what an acknowledged request left is kept, and a     *)
(* disabled skill is not offered.                                           *)

KeptLives == {l \in SkillLifecycle : Len(l.revs) \in 1 .. MaxSkillRevs}
SkillMap == [SkillIds -> Manifest \cup {NoSkill}]
LifeMap == [SkillIds -> KeptLives \cup {NoSkill}]

PhasePcs == {"target", "sync", "file", "state", "swap", "get", "put"}
SkillRecord == [pc: SkillPcs, op: {"upsert", "enable", "delete", "promote", "rollback", "publish", "import"},
                id: SkillIds \cup {NoRequest.id}, cfg: SkillMap, life: LifeMap,
                one: KeptLives \cup {NoSkill}, status: SkillStatuses \cup {"keep"}]

RegistryTypes == /\ skills \in SkillMap /\ skillFile \in SkillMap
                 /\ slife \in LifeMap /\ slifeFile \in LifeMap
                 /\ hasPath \in BOOLEAN /\ sup \in BOOLEAN /\ sraced \in BOOLEAN /\ wiped \in BOOLEAN
                 /\ slegit \in [SkillIds -> SUBSET (Manifest \cup {NoSkill})]
                 /\ off \subseteq SkillIds

RequestTypeOK(r) == /\ r \in SkillRecord
                    /\ r.pc # "idle" => sup /\ r.id \in SkillIds
                    /\ r.op = "enable" => r.status \in {"active", "disabled"}
                    /\ r.pc = "put" => r.one \in KeptLives

\* What the files and the memory hold while no request is under way, or one.
RegistryKept ==
    /\ \A s \in SkillIds : skills[s] \in slegit[s] /\ (skills[s] # NoSkill => slife[s] # NoSkill)
    /\ (hasPath /\ ~wiped) => \A s \in SkillIds : skillFile[s] \in slegit[s]
    /\ \A s \in off : /\ skills[s] # NoSkill => ~skills[s].on /\ (slife[s] # NoSkill => ~slife[s].on)
                      /\ (hasPath /\ skillFile[s] # NoSkill) => ~skillFile[s].on

\* A request before it swaps the configuration in.
SavingOK(r) ==
    r.pc \in {"sync", "file", "state", "swap"} =>
        /\ r.op \notin {"promote", "publish"}
        /\ \A s \in SkillIds \ {r.id} : r.cfg[s] = skills[s]
        /\ r.cfg[r.id] \in slegit[r.id]
        /\ (r.id \in off /\ r.cfg[r.id] # NoSkill) => ~r.cfg[r.id].on
        /\ r.op = "delete" => hasPath /\ r.cfg[r.id] = NoSkill
        /\ r.op = "enable" => /\ skills[r.id] # NoSkill /\ r.cfg[r.id] # NoSkill
                              /\ r.cfg[r.id].on = (r.status = "active")

\* The lifecycle it derived, and the file it wrote.
DerivedOK(r) ==
    /\ (r.pc \in {"file", "state", "swap"} /\ ~(r.op = "enable" /\ ~hasPath)) =>
           \A s \in SkillIds : r.cfg[s] # NoSkill => r.life[s] # NoSkill /\ r.life[s].on = r.cfg[s].on
    /\ r.pc \in {"file", "state"} => hasPath
    /\ (r.pc \in {"state", "swap"} /\ hasPath) =>
           IF r.op = "delete" THEN wiped ELSE ~wiped /\ skillFile = r.cfg

\* A request after that, which corrects the lifecycle of its skill.
SettlingOK(r) ==
    r.pc \in {"get", "put"} =>
        /\ r.op # "delete"
        /\ r.op \notin {"promote", "publish"} => skills = r.cfg /\ (hasPath => ~wiped /\ skillFile = r.cfg)
        /\ r.op = "promote" => r.id \notin off
        /\ r.op = "enable" => r.cfg[r.id] # NoSkill /\ r.cfg[r.id].on = (r.status = "active")
        /\ (r.pc = "put" /\ r.id \in off /\ skills[r.id] # NoSkill) => ~r.one.on
        /\ (r.pc = "put" /\ r.op = "enable" /\ r.status = "disabled") => ~r.one.on

RequestsKept == \A o \in Operators : SavingOK(sreq[o]) /\ DerivedOK(sreq[o]) /\ SettlingOK(sreq[o])
OneAtATime == \A o, p \in Operators : (o # p /\ sreq[o].pc \in PhasePcs) => sreq[p].pc \notin PhasePcs

SkillsInv == /\ RegistryTypes
             /\ sreq \in [Operators -> SkillRecord]
             /\ \A o \in Operators : RequestTypeOK(sreq[o])
             /\ ~sraced => RegistryKept /\ RequestsKept /\ OneAtATime

LEMMA AppendedRevision ==
    ASSUME NEW revs \in Seq(Manifest), Len(revs) <= MaxSkillRevs, NEW m \in Manifest
    PROVE  /\ AppendSkillRevision(revs, m) \in Seq(Manifest)
           /\ Len(AppendSkillRevision(revs, m)) \in 1 .. MaxSkillRevs
<1> DEFINE all == Append(revs, m)
<1>1. all \in Seq(Manifest) /\ Len(all) = Len(revs) + 1 /\ Len(revs) \in Nat
  OBVIOUS
<1> HIDE DEF all
<1>2. CASE Len(all) > MaxSkillRevs
  <2>1. Len(all) = MaxSkillRevs + 1 /\ all # <<>>
    BY <1>1, <1>2, SkillsAssumption
  <2>2. Tail(all) \in Seq(Manifest) /\ Len(Tail(all)) = Len(all) - 1
    BY <1>1, <2>1
  <2>3. AppendSkillRevision(revs, m) = Tail(all)
    BY <1>2 DEF AppendSkillRevision, all
  <2> QED
    BY <2>1, <2>2, <2>3, SkillsAssumption
<1>3. CASE ~(Len(all) > MaxSkillRevs)
  <2>1. AppendSkillRevision(revs, m) = all
    BY <1>3 DEF AppendSkillRevision, all
  <2> QED
    BY <1>1, <1>3, <2>1, SkillsAssumption
<1> QED
  BY <1>2, <1>3

LEMMA SyncedSkill ==
    ASSUME NEW old \in KeptLives \cup {NoSkill}, NEW prev \in Manifest \cup {NoSkill}, NEW m \in Manifest
    PROVE  SyncSkill(old, prev, m) \in KeptLives /\ SyncSkill(old, prev, m).on = m.on
<1>1. CASE old = NoSkill
  <2> DEFINE q == AppendSkillRevision(<<>>, m)
             st == IF m.on THEN "active" ELSE "disabled"
             l == [on |-> m.on, status |-> st, review |-> "pending", revs |-> q]
  <2>0. <<>> \in Seq(Manifest) /\ Len(<<>>) <= MaxSkillRevs
    BY SkillsAssumption
  <2>1. q \in Seq(Manifest) /\ Len(q) \in 1 .. MaxSkillRevs
    BY <2>0, AppendedRevision
  <2>2. SyncSkill(old, prev, m) = l
    BY <1>1 DEF SyncSkill
  <2>4. st \in SkillStatuses /\ m.on \in BOOLEAN
    BY DEF SkillStatuses, Manifest
  <2> HIDE DEF q, st
  <2>3. l \in SkillLifecycle /\ l.revs = q /\ l.on = m.on
    BY <2>1, <2>4 DEF SkillLifecycle
  <2> QED
    BY <2>1, <2>2, <2>3 DEF KeptLives
<1>2. CASE old # NoSkill
  <2>1. old \in SkillLifecycle /\ Len(old.revs) \in 1 .. MaxSkillRevs /\ old.revs \in Seq(Manifest)
    BY <1>2 DEF KeptLives, SkillLifecycle
  <2> DEFINE q == IF prev # NoSkill /\ ~SameSignature(prev, m) THEN AppendSkillRevision(old.revs, m) ELSE old.revs
             l == [old EXCEPT !.on = m.on, !.revs = q]
  <2>2. q \in Seq(Manifest) /\ Len(q) \in 1 .. MaxSkillRevs
    <3>1. Len(old.revs) <= MaxSkillRevs
      BY <2>1, SkillsAssumption
    <3>2. /\ AppendSkillRevision(old.revs, m) \in Seq(Manifest)
          /\ Len(AppendSkillRevision(old.revs, m)) \in 1 .. MaxSkillRevs
      BY <2>1, <3>1, AppendedRevision
    <3> QED
      BY <2>1, <3>2
  <2>3. SyncSkill(old, prev, m) = l
    BY <1>2 DEF SyncSkill
  <2>5. m.on \in BOOLEAN
    BY DEF Manifest
  <2> HIDE DEF q
  <2>4. l \in SkillLifecycle /\ l.revs = q /\ l.on = m.on
    BY <2>1, <2>2, <2>5 DEF SkillLifecycle
  <2> QED
    BY <2>2, <2>3, <2>4 DEF KeptLives
<1> QED
  BY <1>1, <1>2

LEMMA SyncedSkills ==
    ASSUME NEW state \in LifeMap, NEW prev \in SkillMap, NEW wanted \in SkillMap
    PROVE  /\ SyncSkills(state, prev, wanted) \in LifeMap
           /\ \A s \in SkillIds : wanted[s] # NoSkill => /\ SyncSkills(state, prev, wanted)[s] # NoSkill
                                                      /\ SyncSkills(state, prev, wanted)[s].on = wanted[s].on
<1> DEFINE l == SyncSkills(state, prev, wanted)
<1>1. ASSUME NEW s \in SkillIds
      PROVE  /\ l[s] \in KeptLives \cup {NoSkill}
             /\ wanted[s] # NoSkill => l[s] \in KeptLives /\ l[s].on = wanted[s].on
  <2>1. state[s] \in KeptLives \cup {NoSkill} /\ prev[s] \in Manifest \cup {NoSkill} /\ wanted[s] \in Manifest \cup {NoSkill}
    BY DEF LifeMap, SkillMap
  <2>2. l[s] = IF wanted[s] = NoSkill THEN state[s] ELSE SyncSkill(state[s], prev[s], wanted[s])
    BY DEF SyncSkills
  <2> HIDE DEF l
  <2>3. wanted[s] # NoSkill => /\ SyncSkill(state[s], prev[s], wanted[s]) \in KeptLives
                            /\ SyncSkill(state[s], prev[s], wanted[s]).on = wanted[s].on
    BY <2>1, SyncedSkill
  <2> QED
    BY <2>1, <2>2, <2>3
<1>2. l = [s \in SkillIds |-> l[s]]
  BY DEF SyncSkills
<1>3. NoSkill \notin KeptLives
  BY SkillsAssumption DEF KeptLives
<1> HIDE DEF l
<1>4. l \in LifeMap
  BY <1>1, <1>2 DEF LifeMap
<1> QED
  BY <1>1, <1>3, <1>4 DEF l

\* The revision a rollback goes to is a manifest.
LEMMA RollbackManifest ==
    ASSUME NEW id \in SkillIds, slife \in LifeMap, slife[id] # NoSkill, SkillRollbackTarget(id) # NoSkill
    PROVE  SkillRollbackTarget(id) \in Manifest
<1> DEFINE revs == slife[id].revs
           hits == {i \in 1 .. Len(revs) - 1 : ~SameSignature(revs[i], skills[id])}
           top == CHOOSE i \in hits : \A j \in hits : j <= i
<1>1. slife[id] \in KeptLives
  BY DEF LifeMap
<1>2. revs \in Seq(Manifest) /\ Len(revs) \in Nat
  BY <1>1 DEF KeptLives, SkillLifecycle
<1>3. hits = 1 .. Len(revs) - 1
  BY DEF SameSignature
<1>4. SkillRollbackTarget(id) = IF hits = {} THEN NoSkill ELSE revs[top]
  BY DEF SkillRollbackTarget
<1> HIDE DEF revs, hits
<1>5. hits # {} => \E i \in hits : \A j \in hits : j <= i
  <2> SUFFICES ASSUME hits # {} PROVE Len(revs) - 1 \in hits /\ \A j \in hits : j <= Len(revs) - 1
    OBVIOUS
  <2> QED
    BY <1>2, <1>3
<1>6. hits # {} => top \in hits
  BY <1>5
<1> HIDE DEF top
<1>7. hits # {} => top \in 1 .. Len(revs)
  BY <1>2, <1>3, <1>6
<1> QED
  BY <1>2, <1>4, <1>7

LEMMA SkillConstants ==
    /\ NoSkills \in SkillMap /\ NoSkills \in LifeMap
    /\ \A s \in SkillIds : NoSkills[s] = NoSkill
    /\ NoRequest \in SkillRecord /\ NoRequest.pc = "idle" /\ NoRequest.op # "enable"
    /\ NoSkill \notin Manifest /\ NoSkill \notin KeptLives
<1>1. NoSkills \in SkillMap /\ NoSkills \in LifeMap /\ \A s \in SkillIds : NoSkills[s] = NoSkill
  BY DEF NoSkills, SkillMap, LifeMap
<1> HIDE DEF NoSkills
<1>2. NoRequest \in SkillRecord /\ NoRequest.pc = "idle" /\ NoRequest.op # "enable"
  BY <1>1 DEF NoRequest, SkillRecord, SkillPcs, SkillStatuses
<1>3. NoSkill \notin Manifest /\ NoSkill \notin KeptLives
  BY SkillsAssumption DEF KeptLives
<1> QED
  BY <1>1, <1>2, <1>3

LEMMA SkillsInitInv == SkillsInit => SkillsInv
<1> SUFFICES ASSUME SkillsInit PROVE SkillsInv
  OBVIOUS
<1>1. sreq \in [Operators -> SkillRecord] /\ \A o \in Operators : sreq[o] = NoRequest
  BY SkillConstants DEF SkillsInit
<1>2. RegistryTypes
  BY SkillConstants DEF SkillsInit, RegistryTypes
<1>3. \A o \in Operators : RequestTypeOK(sreq[o])
  BY <1>1, SkillConstants DEF RequestTypeOK
<1>4. RegistryKept
  BY SkillConstants DEF SkillsInit, RegistryKept
<1>5. RequestsKept /\ OneAtATime
  BY <1>1, SkillConstants DEF RequestsKept, SavingOK, DerivedOK, SettlingOK, OneAtATime, PhasePcs
<1> QED
  BY <1>1, <1>2, <1>3, <1>4, <1>5 DEF SkillsInv

\* A step of the operator o: what has to be shown of it and of its request.
LEMMA SkillMove ==
    ASSUME SkillsInv, NEW o \in Operators, NEW q, sreq' = [sreq EXCEPT ![o] = q],
           RegistryTypes', RequestTypeOK(q)', sup' = sup,
           ~sraced' => /\ ~sraced
                       /\ \A p \in Operators \ {o} : sreq[p].pc \notin PhasePcs
                       /\ RegistryKept'
                       /\ SavingOK(q)' /\ DerivedOK(q)' /\ SettlingOK(q)'
    PROVE  SkillsInv'
<1>1. q \in SkillRecord
  BY DEF RequestTypeOK
<1>2. /\ sreq' \in [Operators -> SkillRecord] /\ sreq'[o] = q
      /\ \A p \in Operators \ {o} : sreq'[p] = sreq[p]
  BY <1>1 DEF SkillsInv
<1>3. \A p \in Operators : RequestTypeOK(sreq[p])'
  BY <1>2 DEF SkillsInv, RequestTypeOK
<1>4. ASSUME ~sraced' PROVE RegistryKept' /\ RequestsKept' /\ OneAtATime'
  <2>1. ASSUME NEW p \in Operators PROVE (SavingOK(sreq[p]) /\ DerivedOK(sreq[p]) /\ SettlingOK(sreq[p]))'
    <3>1. CASE p = o
      BY <1>2, <1>4, <3>1 DEF SavingOK, DerivedOK, SettlingOK
    <3>2. CASE p # o
      <4>1. sreq'[p].pc \notin PhasePcs
        BY <1>2, <1>4, <3>2
      <4> QED
        BY <4>1 DEF SavingOK, DerivedOK, SettlingOK, PhasePcs
    <3> QED
      BY <3>1, <3>2
  <2>2. OneAtATime'
    BY <1>2, <1>4 DEF OneAtATime
  <2> QED
    BY <1>4, <2>1, <2>2 DEF RequestsKept
<1> QED
  BY <1>2, <1>3, <1>4 DEF SkillsInv


\* A request begins: the configuration it will save differs from the one in
\* memory at its own skill alone.
LEMMA BeginSaveStep ==
    ASSUME SkillsInv, NEW o \in Operators, NEW id \in SkillIds, NEW wanted \in SkillMap,
           NEW op \in {"upsert", "enable", "delete", "rollback", "import"},
           NEW status \in SkillStatuses \cup {"keep"},
           BeginSave(o, op, id, wanted, status), sup, UNCHANGED skillStores,
           \A s \in SkillIds \ {id} : wanted[s] = skills[s],
           op = "delete" => hasPath /\ wanted[id] = NoSkill,
           op = "enable" => /\ skills[id] # NoSkill /\ wanted[id] # NoSkill
                            /\ wanted[id].on = (status = "active")
                            /\ status \in {"active", "disabled"}
    PROVE  SkillsInv'
<1> PICK q : q = [NoRequest EXCEPT !.pc = "sync", !.op = op, !.id = id, !.cfg = wanted,
                                   !.life = slife, !.status = status]
  OBVIOUS
<1>0. RegistryTypes /\ sreq \in [Operators -> SkillRecord]
  BY DEF SkillsInv
<1>1. /\ sreq' = [sreq EXCEPT ![o] = q]
      /\ slegit' = [slegit EXCEPT ![id] = slegit[id] \cup {wanted[id]}]
      /\ off' = IF wanted[id] # NoSkill /\ wanted[id].on THEN off \ {id} ELSE off
      /\ UNCHANGED <<skills, slife, skillFile, slifeFile, hasPath, sup, wiped>>
  BY <1>0 DEF BeginSave, skillStores, RegistryTypes
<1>2. sraced' = (sraced \/ \E p \in Operators \ {o} : sreq[p].pc \in PhasePcs)
  BY DEF BeginSave, Overlapped, SkillPhase, PhasePcs
<1>3. /\ q \in SkillRecord /\ q.pc = "sync" /\ q.op = op /\ q.id = id /\ q.cfg = wanted /\ q.status = status
  BY <1>0, SkillConstants DEF SkillRecord, SkillPcs, RegistryTypes
<1>4. sraced' \in BOOLEAN /\ (~sraced' => ~sraced /\ \A p \in Operators \ {o} : sreq[p].pc \notin PhasePcs)
  BY <1>0, <1>2 DEF RegistryTypes
<1>5. /\ slegit' \in [SkillIds -> SUBSET (Manifest \cup {NoSkill})]
      /\ \A s \in SkillIds : slegit[s] \subseteq slegit'[s]
      /\ wanted[id] \in slegit'[id]
  BY <1>0, <1>1 DEF RegistryTypes, SkillMap
<1>6. RegistryTypes'
  BY <1>0, <1>1, <1>4, <1>5 DEF RegistryTypes
<1>7. RequestTypeOK(q)'
  BY <1>1, <1>3 DEF RequestTypeOK
<1>8. ASSUME ~sraced' PROVE RegistryKept' /\ SavingOK(q)' /\ DerivedOK(q)' /\ SettlingOK(q)'
  <2>1. RegistryKept
    BY <1>4, <1>8 DEF SkillsInv
  <2>2. off' \subseteq off /\ ((id \in off' /\ wanted[id] # NoSkill) => ~wanted[id].on)
    BY <1>1
  <2>3. RegistryKept'
    BY <1>1, <1>5, <2>1, <2>2 DEF RegistryKept
  <2>4. SavingOK(q)'
    BY <1>1, <1>3, <1>5, <2>2 DEF SavingOK
  <2>5. DerivedOK(q)' /\ SettlingOK(q)'
    BY <1>3 DEF DerivedOK, SettlingOK
  <2> QED
    BY <2>3, <2>4, <2>5
<1> QED
  BY <1>1, <1>4, <1>6, <1>7, <1>8, SkillMove

LEMMA PromoteStep ==
    ASSUME SkillsInv, NEW o \in Operators, NEW id \in SkillIds, PromoteSkill(o, id)
    PROVE  SkillsInv'
<1> PICK q : q = [NoRequest EXCEPT !.pc = "get", !.op = "promote", !.id = id, !.status = "active"]
  OBVIOUS
<1>0. RegistryTypes /\ sreq \in [Operators -> SkillRecord]
  BY DEF SkillsInv
<1>1. /\ sreq' = [sreq EXCEPT ![o] = q] /\ off' = off \ {id} /\ sup
      /\ UNCHANGED <<skills, slife, skillFile, slifeFile, hasPath, sup, wiped, slegit>>
  BY DEF PromoteSkill, skillStores, Requesting
<1>2. sraced' = (sraced \/ \E p \in Operators \ {o} : sreq[p].pc \in PhasePcs)
  BY DEF PromoteSkill, Overlapped, SkillPhase, PhasePcs
<1>3. q \in SkillRecord /\ q.pc = "get" /\ q.op = "promote" /\ q.id = id
  BY SkillConstants DEF SkillRecord, SkillPcs, SkillStatuses
<1>4. sraced' \in BOOLEAN /\ (~sraced' => ~sraced /\ \A p \in Operators \ {o} : sreq[p].pc \notin PhasePcs)
  BY <1>0, <1>2 DEF RegistryTypes
<1>5. RegistryTypes'
  BY <1>0, <1>1, <1>4 DEF RegistryTypes
<1>6. RequestTypeOK(q)'
  BY <1>1, <1>3 DEF RequestTypeOK
<1>7. ASSUME ~sraced' PROVE RegistryKept' /\ SavingOK(q)' /\ DerivedOK(q)' /\ SettlingOK(q)'
  <2>1. RegistryKept
    BY <1>4, <1>7 DEF SkillsInv
  <2>2. RegistryKept'
    BY <1>1, <2>1 DEF RegistryKept
  <2>3. SavingOK(q)' /\ DerivedOK(q)' /\ SettlingOK(q)'
    BY <1>1, <1>3 DEF SavingOK, DerivedOK, SettlingOK
  <2> QED
    BY <2>2, <2>3
<1> QED
  BY <1>1, <1>4, <1>5, <1>6, <1>7, SkillMove

\* Rollback picks its target; nothing else changes.
LEMMA RollbackStep ==
    ASSUME SkillsInv, NEW o \in Operators, NEW id \in SkillIds, RollbackSkill(o, id)
    PROVE  SkillsInv'
<1> PICK aimed : aimed = [NoSkills EXCEPT ![id] = SkillRollbackTarget(id)]
  OBVIOUS
<1> PICK status : status = slife[id].status
  OBVIOUS
<1> PICK q : q = [NoRequest EXCEPT !.pc = "target", !.op = "rollback", !.id = id, !.cfg = aimed, !.status = status]
  OBVIOUS
<1>0. RegistryTypes /\ sreq \in [Operators -> SkillRecord] /\ skills \in SkillMap /\ slife \in LifeMap
  BY DEF SkillsInv, RegistryTypes
<1>1. /\ sreq' = [sreq EXCEPT ![o] = q] /\ sup
      /\ UNCHANGED <<skills, slife, skillFile, slifeFile, hasPath, sup, wiped, slegit, off>>
  BY DEF RollbackSkill, skillStores, Requesting
<1>2. sraced' = (sraced \/ \E p \in Operators \ {o} : sreq[p].pc \in PhasePcs)
  BY DEF RollbackSkill, Overlapped, SkillPhase, PhasePcs
<1>3. aimed \in SkillMap /\ status \in SkillStatuses \cup {"keep"}
  <2>1. SkillRollbackTarget(id) \in Manifest \cup {NoSkill}
    BY <1>0, RollbackManifest DEF RollbackSkill
  <2>2. slife[id] \in KeptLives
    BY <1>0 DEF RollbackSkill, LifeMap
  <2> QED
    BY <2>1, <2>2 DEF KeptLives, SkillLifecycle, SkillMap, NoSkills
<1>4. q \in SkillRecord /\ q.pc = "target" /\ q.op = "rollback" /\ q.id = id
  BY <1>3, SkillConstants DEF SkillRecord, SkillPcs
<1>5. sraced' \in BOOLEAN /\ (~sraced' => ~sraced /\ \A p \in Operators \ {o} : sreq[p].pc \notin PhasePcs)
  BY <1>0, <1>2 DEF RegistryTypes
<1>6. RegistryTypes'
  BY <1>0, <1>1, <1>5 DEF RegistryTypes
<1>7. RequestTypeOK(q)'
  BY <1>1, <1>4 DEF RequestTypeOK
<1>8. ASSUME ~sraced' PROVE RegistryKept' /\ SavingOK(q)' /\ DerivedOK(q)' /\ SettlingOK(q)'
  <2>1. RegistryKept
    BY <1>5, <1>8 DEF SkillsInv
  <2>2. RegistryKept'
    BY <1>1, <2>1 DEF RegistryKept
  <2>3. SavingOK(q)' /\ DerivedOK(q)' /\ SettlingOK(q)'
    BY <1>4 DEF SavingOK, DerivedOK, SettlingOK
  <2> QED
    BY <2>2, <2>3
<1> QED
  BY <1>1, <1>5, <1>6, <1>7, <1>8, SkillMove

\* The Upsert of a rollback.
LEMMA UpsertTargetStep ==
    ASSUME SkillsInv, NEW o \in Operators, UpsertTarget(o)
    PROVE  SkillsInv'
<1> PICK r : r = sreq[o]
  OBVIOUS
<1> PICK wanted : wanted = [skills EXCEPT ![r.id] = r.cfg[r.id]]
  OBVIOUS
<1>1. r.pc = "target" /\ BeginSave(o, "rollback", r.id, wanted, r.status) /\ UNCHANGED skillStores
  BY DEF UpsertTarget
<1>2. RequestTypeOK(r) /\ skills \in SkillMap
  BY DEF SkillsInv, RegistryTypes
<1>3. sup /\ r.id \in SkillIds /\ r.cfg \in SkillMap /\ r.status \in SkillStatuses \cup {"keep"}
  BY <1>1, <1>2 DEF RequestTypeOK, SkillRecord
<1>4. wanted \in SkillMap /\ \A s \in SkillIds \ {r.id} : wanted[s] = skills[s]
  BY <1>2, <1>3 DEF SkillMap
<1> QED
  BY <1>1, <1>3, <1>4, BeginSaveStep

LEMMA SkillRequestStep ==
    ASSUME SkillsInv, NEW o \in Operators, SkillRequest(o)
    PROVE  SkillsInv'
<1>0. RegistryTypes /\ skills \in SkillMap /\ slife \in LifeMap
  BY DEF SkillsInv, RegistryTypes
<1>1. ASSUME NEW id \in SkillIds, NEW m \in Uploads, NEW status \in {"keep", "draft"}, UpsertSkill(o, id, m, status)
      PROVE  SkillsInv'
  <2>1. m \in Manifest \cup {NoSkill} /\ status \in SkillStatuses \cup {"keep"}
    BY SkillsAssumption DEF SkillStatuses
  <2>2. BeginSave(o, "upsert", id, [skills EXCEPT ![id] = m], status) /\ sup /\ UNCHANGED skillStores
    BY <1>1 DEF UpsertSkill, Requesting
  <2> PICK wanted : wanted = [skills EXCEPT ![id] = m]
    OBVIOUS
  <2>3. wanted \in SkillMap /\ \A s \in SkillIds \ {id} : wanted[s] = skills[s]
    BY <1>0, <2>1 DEF SkillMap
  <2>4. BeginSave(o, "upsert", id, wanted, status)
    BY <2>2
  <2> QED
    BY <2>1, <2>2, <2>3, <2>4, BeginSaveStep
<1>2. ASSUME NEW id \in SkillIds, NEW on \in BOOLEAN, SetSkillEnabled(o, id, on)
      PROVE  SkillsInv'
  <2> DEFINE m == [skills[id] EXCEPT !.on = on]
             status == IF on THEN "active" ELSE "disabled"
  <2>1. skills[id] # NoSkill /\ skills[id] \in Manifest
    BY <1>0, <1>2 DEF SetSkillEnabled, SkillMap
  <2>2. m \in Manifest /\ m.on = on
    BY <2>1 DEF Manifest
  <2>3. m # NoSkill /\ m \in Manifest \cup {NoSkill}
    BY <2>2, SkillConstants
  <2>4. status \in SkillStatuses \cup {"keep"} /\ status \in {"active", "disabled"} /\ on = (status = "active")
    BY DEF SkillStatuses
  <2>5. BeginSave(o, "enable", id, [skills EXCEPT ![id] = m], status) /\ sup /\ UNCHANGED skillStores
    BY <1>2 DEF SetSkillEnabled, Requesting
  <2> HIDE DEF m, status
  <2> PICK wanted : wanted = [skills EXCEPT ![id] = m]
    OBVIOUS
  <2>6. wanted \in SkillMap /\ wanted[id] = m /\ \A s \in SkillIds \ {id} : wanted[s] = skills[s]
    BY <1>0, <2>3 DEF SkillMap
  <2>7. BeginSave(o, "enable", id, wanted, status)
    BY <2>5
  <2>8. wanted[id] # NoSkill /\ wanted[id].on = (status = "active")
    BY <2>2, <2>3, <2>4, <2>6
  <2> QED
    BY <2>1, <2>4, <2>5, <2>6, <2>7, <2>8, BeginSaveStep
<1>3. ASSUME NEW id \in SkillIds, DeleteSkill(o, id)
      PROVE  SkillsInv'
  <2>1. BeginSave(o, "delete", id, [skills EXCEPT ![id] = NoSkill], "keep") /\ sup /\ hasPath /\ UNCHANGED skillStores
    BY <1>3 DEF DeleteSkill, Requesting
  <2> PICK wanted : wanted = [skills EXCEPT ![id] = NoSkill]
    OBVIOUS
  <2>2. wanted \in SkillMap /\ wanted[id] = NoSkill /\ \A s \in SkillIds \ {id} : wanted[s] = skills[s]
    BY <1>0 DEF SkillMap
  <2>3. BeginSave(o, "delete", id, wanted, "keep")
    BY <2>1
  <2> QED
    BY <2>1, <2>2, <2>3, BeginSaveStep
<1> QED
  BY <1>1, <1>2, <1>3, PromoteStep, RollbackStep DEF SkillRequest


\* What a request that is under way knows of the registry.
LEMMA UnderWay ==
    ASSUME SkillsInv, NEW o \in Operators, sreq[o].pc \in PhasePcs
    PROVE  /\ RegistryTypes /\ sreq[o] \in SkillRecord /\ sup /\ sreq[o].id \in SkillIds /\ RequestTypeOK(sreq[o])
           /\ ~sraced => /\ RegistryKept
                         /\ SavingOK(sreq[o]) /\ DerivedOK(sreq[o]) /\ SettlingOK(sreq[o])
                         /\ \A p \in Operators \ {o} : sreq[p].pc \notin PhasePcs
  BY DEF SkillsInv, RequestTypeOK, RequestsKept, OneAtATime, PhasePcs

\* The request of a step that ends it.
LEMMA EndedRequest ==
    /\ RequestTypeOK(NoRequest)' /\ SavingOK(NoRequest)' /\ DerivedOK(NoRequest)' /\ SettlingOK(NoRequest)'
<1>1. NoRequest' = NoRequest
  BY DEF NoRequest, NoSkills
<1> QED
  BY <1>1, SkillConstants DEF RequestTypeOK, SavingOK, DerivedOK, SettlingOK

LEMMA SyncRequestStep ==
    ASSUME SkillsInv, NEW o \in Operators, SyncRequest(o)
    PROVE  SkillsInv'
<1> PICK r : r = sreq[o]
  OBVIOUS
<1> PICK pc : pc = IF hasPath THEN "file" ELSE "swap"
  OBVIOUS
<1> PICK derived : derived = IF hasPath THEN SyncSkills(slife, skills, r.cfg)
                       ELSE IF r.op = "enable" THEN slife ELSE SyncSkills(r.life, skills, r.cfg)
  OBVIOUS
<1> PICK q : q = [r EXCEPT !.pc = pc, !.life = derived]
  OBVIOUS
<1>0. r.pc = "sync" /\ sreq[o].pc \in PhasePcs
  BY DEF SyncRequest, PhasePcs
<1>1. /\ RegistryTypes /\ r \in SkillRecord /\ sup /\ r.id \in SkillIds /\ RequestTypeOK(r)
      /\ ~sraced => /\ RegistryKept /\ SavingOK(r)
                    /\ \A p \in Operators \ {o} : sreq[p].pc \notin PhasePcs
  BY <1>0, UnderWay
<1>2. /\ sreq' = [sreq EXCEPT ![o] = q]
      /\ UNCHANGED <<skills, slife, skillFile, slifeFile, hasPath, sup, wiped, slegit, sraced, off>>
  <2>1. sreq' = [sreq EXCEPT ![o].pc = pc, ![o].life = derived]
    BY DEF SyncRequest
  <2>2. [sreq EXCEPT ![o].pc = pc, ![o].life = derived] = [sreq EXCEPT ![o] = q]
    BY DEF SkillsInv
  <2> QED
    BY <2>1, <2>2 DEF SyncRequest, skillStores
<1>3. /\ derived \in LifeMap
      /\ ~(r.op = "enable" /\ ~hasPath) =>
             \A s \in SkillIds : r.cfg[s] # NoSkill => derived[s] # NoSkill /\ derived[s].on = r.cfg[s].on
  <2>1. slife \in LifeMap /\ skills \in SkillMap /\ r.cfg \in SkillMap /\ r.life \in LifeMap
    BY <1>1 DEF RegistryTypes, SkillRecord
  <2> QED
    BY <2>1, SyncedSkills
<1>4. /\ q \in SkillRecord /\ q.pc = pc /\ q.life = derived /\ q.op = r.op /\ q.id = r.id /\ q.cfg = r.cfg
      /\ q.status = r.status /\ q.one = r.one /\ pc \in {"file", "swap"} /\ (pc = "file" <=> hasPath)
  <2>1. pc \in {"file", "swap"} /\ (pc = "file" <=> hasPath)
    OBVIOUS
  <2>2. pc \in SkillPcs
    BY <2>1 DEF SkillPcs
  <2>3. /\ q \in SkillRecord /\ q.pc = pc /\ q.life = derived /\ q.op = r.op /\ q.id = r.id /\ q.cfg = r.cfg
        /\ q.status = r.status /\ q.one = r.one
    BY <1>1, <1>3, <2>2 DEF SkillRecord
  <2> QED
    BY <2>1, <2>3
<1>5. RegistryTypes'
  BY <1>1, <1>2 DEF RegistryTypes
<1>6. RequestTypeOK(q)'
  BY <1>1, <1>2, <1>4 DEF RequestTypeOK
<1>7. ASSUME ~sraced PROVE RegistryKept' /\ SavingOK(q)' /\ DerivedOK(q)' /\ SettlingOK(q)'
  <2>1. RegistryKept'
    BY <1>1, <1>2, <1>7 DEF RegistryKept
  <2>2. SavingOK(q)'
    BY <1>0, <1>1, <1>2, <1>4, <1>7 DEF SavingOK
  <2>3. DerivedOK(q)' /\ SettlingOK(q)'
    BY <1>2, <1>3, <1>4 DEF DerivedOK, SettlingOK
  <2> QED
    BY <2>1, <2>2, <2>3
<1> QED
  BY <1>1, <1>2, <1>5, <1>6, <1>7, SkillMove

LEMMA WriteSkillFileStep ==
    ASSUME SkillsInv, NEW o \in Operators, WriteSkillFile(o)
    PROVE  SkillsInv'
<1> PICK r : r = sreq[o]
  OBVIOUS
<1> PICK q : q = [r EXCEPT !.pc = "state"]
  OBVIOUS
<1>0. r.pc = "file" /\ sreq[o].pc \in PhasePcs
  BY DEF WriteSkillFile, PhasePcs
<1>1. /\ RegistryTypes /\ r \in SkillRecord /\ sup /\ r.id \in SkillIds /\ RequestTypeOK(r)
      /\ ~sraced => /\ RegistryKept /\ SavingOK(r) /\ DerivedOK(r)
                    /\ \A p \in Operators \ {o} : sreq[p].pc \notin PhasePcs
  BY <1>0, UnderWay
<1>2. UNCHANGED <<skills, slife, slifeFile, hasPath, sup, slegit, sraced, off>>
  BY DEF WriteSkillFile
<1>3. CASE GiveUp(o) /\ UNCHANGED <<skillFile, wiped>>
  <2>1. RegistryTypes' /\ (~sraced => RegistryKept')
    BY <1>1, <1>2, <1>3 DEF RegistryTypes, RegistryKept
  <2>2. sreq' = [sreq EXCEPT ![o] = NoRequest]
    BY <1>3 DEF GiveUp
  <2> QED
    BY <1>1, <1>2, <2>1, <2>2, EndedRequest, SkillMove
<1>4. CASE /\ skillFile' = IF r.op = "delete" THEN NoSkills ELSE r.cfg
           /\ wiped' = (r.op = "delete") /\ sreq' = [sreq EXCEPT ![o] = q]
  <2>1. /\ q \in SkillRecord /\ q.pc = "state" /\ q.life = r.life /\ q.op = r.op /\ q.id = r.id /\ q.cfg = r.cfg
        /\ q.status = r.status /\ q.one = r.one /\ r.cfg \in SkillMap
    BY <1>1 DEF SkillRecord, SkillPcs
  <2>2. skillFile' \in SkillMap /\ wiped' \in BOOLEAN
    BY <1>4, <2>1, SkillConstants
  <2>3. RegistryTypes'
    BY <1>1, <1>2, <2>2 DEF RegistryTypes
  <2>4. RequestTypeOK(q)'
    BY <1>1, <1>2, <2>1 DEF RequestTypeOK
  <2>5. ASSUME ~sraced PROVE RegistryKept' /\ SavingOK(q)' /\ DerivedOK(q)' /\ SettlingOK(q)'
    <3>1. /\ RegistryKept /\ SavingOK(r) /\ DerivedOK(r) /\ off \subseteq SkillIds
      BY <1>1, <2>5 DEF RegistryTypes
    <3>2. CASE r.op = "delete"
      <4>1. skillFile' = NoSkills /\ wiped'
        BY <1>4, <3>2
      <4>2. RegistryKept'
        BY <1>2, <3>1, <4>1, SkillConstants DEF RegistryKept
      <4>3. DerivedOK(q)'
        BY <1>0, <1>2, <2>1, <3>1, <3>2, <4>1 DEF DerivedOK
      <4> QED
        BY <1>0, <1>2, <2>1, <3>1, <4>2, <4>3 DEF SavingOK, SettlingOK
    <3>3. CASE r.op # "delete"
      <4>1. skillFile' = r.cfg /\ ~wiped'
        BY <1>4, <3>3
      <4>2. \A s \in SkillIds : r.cfg[s] \in slegit[s]
        BY <1>0, <3>1 DEF SavingOK, RegistryKept
      <4>3. \A s \in off : r.cfg[s] # NoSkill => ~r.cfg[s].on
        BY <1>0, <3>1 DEF SavingOK, RegistryKept
      <4>4. RegistryKept'
        BY <1>2, <3>1, <4>1, <4>2, <4>3 DEF RegistryKept
      <4>5. DerivedOK(q)'
        BY <1>0, <1>2, <2>1, <3>1, <3>3, <4>1 DEF DerivedOK
      <4> QED
        BY <1>0, <1>2, <2>1, <3>1, <4>4, <4>5 DEF SavingOK, SettlingOK
    <3> QED
      BY <3>2, <3>3
  <2> QED
    BY <1>1, <1>2, <1>4, <2>3, <2>4, <2>5, SkillMove
<1> QED
  BY <1>3, <1>4 DEF WriteSkillFile, NextPc

LEMMA WriteSkillStateStep ==
    ASSUME SkillsInv, NEW o \in Operators, WriteSkillState(o)
    PROVE  SkillsInv'
<1> PICK r : r = sreq[o]
  OBVIOUS
<1> PICK q : q = [r EXCEPT !.pc = "swap"]
  OBVIOUS
<1>0. r.pc = "state" /\ sreq[o].pc \in PhasePcs
  BY DEF WriteSkillState, PhasePcs
<1>1. /\ RegistryTypes /\ r \in SkillRecord /\ sup /\ r.id \in SkillIds /\ RequestTypeOK(r)
      /\ ~sraced => /\ RegistryKept /\ SavingOK(r) /\ DerivedOK(r)
                    /\ \A p \in Operators \ {o} : sreq[p].pc \notin PhasePcs
  BY <1>0, UnderWay
<1>2. /\ UNCHANGED <<skills, slife, skillFile, hasPath, sup, slegit, sraced, wiped, off>>
      /\ slifeFile' \in {slifeFile, r.life}
      /\ sreq' = [sreq EXCEPT ![o] = q] \/ sreq' = [sreq EXCEPT ![o] = NoRequest]
  BY DEF WriteSkillState, NextPc, GiveUp
<1>3. /\ q \in SkillRecord /\ q.pc = "swap" /\ q.life = r.life /\ q.op = r.op /\ q.id = r.id /\ q.cfg = r.cfg
      /\ q.status = r.status /\ q.one = r.one /\ r.life \in LifeMap
  BY <1>1 DEF SkillRecord, SkillPcs
<1>4. RegistryTypes' /\ (~sraced => RegistryKept')
  BY <1>1, <1>2, <1>3 DEF RegistryTypes, RegistryKept
<1>5. RequestTypeOK(q)'
  BY <1>1, <1>2, <1>3 DEF RequestTypeOK
<1>6. ASSUME ~sraced PROVE SavingOK(q)' /\ DerivedOK(q)' /\ SettlingOK(q)'
  BY <1>0, <1>1, <1>2, <1>3, <1>6 DEF SavingOK, DerivedOK, SettlingOK
<1>7. CASE sreq' = [sreq EXCEPT ![o] = q]
  BY <1>1, <1>2, <1>4, <1>5, <1>6, <1>7, SkillMove
<1>8. CASE sreq' = [sreq EXCEPT ![o] = NoRequest]
  BY <1>1, <1>2, <1>4, <1>8, EndedRequest, SkillMove
<1> QED
  BY <1>2, <1>7, <1>8


LEMMA SwapSkillsStep ==
    ASSUME SkillsInv, NEW o \in Operators, SwapSkills(o)
    PROVE  SkillsInv'
<1> PICK r : r = sreq[o]
  OBVIOUS
<1> PICK q : q = [r EXCEPT !.pc = "get"]
  OBVIOUS
<1>0. r.pc = "swap" /\ sreq[o].pc \in PhasePcs
  BY DEF SwapSkills, PhasePcs
<1>1. /\ RegistryTypes /\ r \in SkillRecord /\ sup /\ r.id \in SkillIds /\ RequestTypeOK(r)
      /\ ~sraced => /\ RegistryKept /\ SavingOK(r) /\ DerivedOK(r)
                    /\ \A p \in Operators \ {o} : sreq[p].pc \notin PhasePcs
  BY <1>0, UnderWay
<1>2. /\ UNCHANGED <<skillFile, slifeFile, hasPath, sup, sraced, wiped, off>>
      /\ skills' = r.cfg
      /\ slife' = IF r.op = "enable" /\ ~hasPath THEN slife ELSE r.life
  BY DEF SwapSkills
<1>3. /\ q \in SkillRecord /\ q.pc = "get" /\ q.life = r.life /\ q.op = r.op /\ q.id = r.id /\ q.cfg = r.cfg
      /\ q.status = r.status /\ q.one = r.one /\ r.cfg \in SkillMap /\ r.life \in LifeMap
  BY <1>1 DEF SkillRecord, SkillPcs
<1>4. skills' \in SkillMap /\ slife' \in LifeMap
  BY <1>1, <1>2, <1>3 DEF RegistryTypes
\* What the swap leaves in memory.
<1>5. ASSUME ~sraced
      PROVE  /\ \A s \in SkillIds : r.cfg[s] \in slegit[s] /\ (r.cfg[s] # NoSkill => slife'[s] # NoSkill)
             /\ \A s \in off : r.cfg[s] # NoSkill => ~r.cfg[s].on /\ (slife'[s] # NoSkill => ~slife'[s].on)
             /\ \A s \in off : (hasPath /\ skillFile[s] # NoSkill) => ~skillFile[s].on
  <2>1. RegistryKept /\ SavingOK(r) /\ DerivedOK(r) /\ off \subseteq SkillIds
    BY <1>1, <1>5 DEF RegistryTypes
  <2>2. \A s \in SkillIds : r.cfg[s] \in slegit[s]
    BY <1>0, <2>1 DEF SavingOK, RegistryKept
  <2>3. \A s \in off : r.cfg[s] # NoSkill => ~r.cfg[s].on
    BY <1>0, <2>1 DEF SavingOK, RegistryKept
  <2>4. CASE r.op = "enable" /\ ~hasPath
    <3>1. slife' = slife
      BY <1>2, <2>4
    <3>2. \A s \in SkillIds : r.cfg[s] # NoSkill => skills[s] # NoSkill
      BY <1>0, <2>1, <2>4 DEF SavingOK
    <3> QED
      BY <2>1, <2>2, <2>3, <3>1, <3>2 DEF RegistryKept
  <2>5. CASE ~(r.op = "enable" /\ ~hasPath)
    <3>1. slife' = r.life
      BY <1>2, <2>5
    <3>2. \A s \in SkillIds : r.cfg[s] # NoSkill => r.life[s] # NoSkill /\ r.life[s].on = r.cfg[s].on
      BY <1>0, <2>1, <2>5 DEF DerivedOK
    <3>3. \A s \in off : (hasPath /\ skillFile[s] # NoSkill) => ~skillFile[s].on
      BY <2>1 DEF RegistryKept
    <3>4. \A s \in off : r.cfg[s] # NoSkill => ~r.life[s].on
      BY <2>1, <2>3, <3>2
    <3> QED
      BY <2>1, <2>2, <2>3, <3>1, <3>2, <3>3, <3>4
  <2> QED
    BY <2>4, <2>5
<1>6. CASE r.op = "delete" /\ sreq' = [sreq EXCEPT ![o] = NoRequest] /\ slegit' = [slegit EXCEPT ![r.id] = {NoSkill}]
  <2>1. /\ slegit' \in [SkillIds -> SUBSET (Manifest \cup {NoSkill})]
        /\ slegit'[r.id] = {NoSkill} /\ \A s \in SkillIds \ {r.id} : slegit'[s] = slegit[s]
    BY <1>1, <1>6 DEF RegistryTypes
  <2>2. RegistryTypes'
    BY <1>1, <1>2, <1>4, <2>1 DEF RegistryTypes
  <2>3. ASSUME ~sraced PROVE RegistryKept'
    <3>1. hasPath /\ wiped /\ r.cfg[r.id] = NoSkill
      BY <1>0, <1>1, <1>6, <2>3 DEF SavingOK, DerivedOK
    <3>2. \A s \in SkillIds : r.cfg[s] \in slegit'[s]
      BY <1>5, <2>1, <2>3, <3>1
    <3> QED
      BY <1>2, <1>5, <2>3, <3>1, <3>2 DEF RegistryKept
  <2> QED
    BY <1>1, <1>2, <1>6, <2>2, <2>3, EndedRequest, SkillMove
<1>7. CASE r.op # "delete" /\ sreq' = [sreq EXCEPT ![o] = q] /\ UNCHANGED slegit
  <2>1. RegistryTypes'
    BY <1>1, <1>2, <1>4, <1>7 DEF RegistryTypes
  <2>2. RequestTypeOK(q)'
    BY <1>1, <1>2, <1>3 DEF RequestTypeOK
  <2>3. ASSUME ~sraced PROVE RegistryKept' /\ SavingOK(q)' /\ DerivedOK(q)' /\ SettlingOK(q)'
    <3>1. RegistryKept /\ SavingOK(r) /\ DerivedOK(r)
      BY <1>1, <2>3
    <3>2. (hasPath /\ ~wiped) => \A s \in SkillIds : skillFile[s] \in slegit[s]
      BY <3>1 DEF RegistryKept
    <3>3. RegistryKept'
      BY <1>2, <1>5, <1>7, <2>3, <3>2 DEF RegistryKept
    <3>4. SavingOK(q)' /\ DerivedOK(q)'
      BY <1>3 DEF SavingOK, DerivedOK
    <3>5. SettlingOK(q)'
      BY <1>0, <1>2, <1>3, <1>7, <3>1 DEF SavingOK, DerivedOK, SettlingOK
    <3> QED
      BY <3>3, <3>4, <3>5
  <2> QED
    BY <1>1, <1>2, <1>7, <2>1, <2>2, <2>3, SkillMove
<1> QED
  BY <1>6, <1>7 DEF SwapSkills, GiveUp, NextPc

LEMMA GetSkillLifeStep ==
    ASSUME SkillsInv, NEW o \in Operators, GetSkillLife(o)
    PROVE  SkillsInv'
<1> PICK r : r = sreq[o]
  OBVIOUS
<1> PICK found : found = slife[r.id]
  OBVIOUS
<1> PICK status : status = IF r.status = "keep" THEN found.status ELSE r.status
  OBVIOUS
<1> PICK one : one = CASE r.op = "publish" -> found
                [] r.op = "promote" -> [found EXCEPT !.status = "active", !.on = TRUE, !.review = "approved"]
                [] r.op = "enable"  -> [found EXCEPT !.status = status, !.on = (status = "active")]
                [] OTHER            -> [found EXCEPT !.status = status]
  OBVIOUS
<1> PICK q : q = [r EXCEPT !.pc = "put", !.one = one]
  OBVIOUS
<1>0. r.pc = "get" /\ sreq[o].pc \in PhasePcs
  BY DEF GetSkillLife, PhasePcs
<1>1. /\ RegistryTypes /\ r \in SkillRecord /\ sup /\ r.id \in SkillIds /\ RequestTypeOK(r)
      /\ ~sraced => /\ RegistryKept /\ SettlingOK(r)
                    /\ \A p \in Operators \ {o} : sreq[p].pc \notin PhasePcs
  BY <1>0, UnderWay
<1>2. UNCHANGED <<skills, slife, skillFile, slifeFile, hasPath, sup, wiped, slegit, sraced, off>>
  BY DEF GetSkillLife, skillStores
<1>3. RegistryTypes' /\ (~sraced => RegistryKept')
  BY <1>1, <1>2 DEF RegistryTypes, RegistryKept
<1>4. CASE sreq' = [sreq EXCEPT ![o] = NoRequest]
  BY <1>1, <1>2, <1>3, <1>4, EndedRequest, SkillMove
<1>5. CASE found # NoSkill /\ sreq' = [sreq EXCEPT ![o].pc = "put", ![o].one = one]
  <2>1. sreq' = [sreq EXCEPT ![o] = q]
    <3>1. [sreq EXCEPT ![o].pc = "put", ![o].one = one] = [sreq EXCEPT ![o] = q]
      BY DEF SkillsInv
    <3> QED
      BY <1>5, <3>1
  <2>2. found \in SkillLifecycle /\ Len(found.revs) \in 1 .. MaxSkillRevs
    BY <1>1, <1>5 DEF RegistryTypes, LifeMap, KeptLives
  <2>3. status \in SkillStatuses /\ (r.op = "enable" => status = r.status)
    BY <1>1, <2>2 DEF SkillLifecycle, SkillRecord, RequestTypeOK
  <2>4. /\ one \in SkillLifecycle /\ one.revs = found.revs
        /\ r.op = "enable" => one.on = (status = "active")
        /\ r.op \notin {"enable", "promote"} => one.on = found.on
    <3>1. CASE r.op = "publish"
      BY <2>2, <3>1
    <3>2. CASE r.op = "promote"
      <4>1. one = [found EXCEPT !.status = "active", !.on = TRUE, !.review = "approved"]
        BY <3>2
      <4> QED
        BY <2>2, <3>2, <4>1 DEF SkillLifecycle, SkillStatuses
    <3>3. CASE r.op = "enable"
      <4>1. one = [found EXCEPT !.status = status, !.on = (status = "active")]
        BY <3>3
      <4> QED
        BY <2>2, <2>3, <3>3, <4>1 DEF SkillLifecycle
    <3>4. CASE r.op \notin {"publish", "promote", "enable"}
      <4>1. one = [found EXCEPT !.status = status]
        BY <3>4
      <4> QED
        BY <2>2, <2>3, <3>4, <4>1 DEF SkillLifecycle
    <3> QED
      BY <3>1, <3>2, <3>3, <3>4
  <2>5. one \in KeptLives
    BY <2>2, <2>4 DEF KeptLives
  <2>6. /\ q \in SkillRecord /\ q.pc = "put" /\ q.op = r.op /\ q.id = r.id /\ q.cfg = r.cfg
        /\ q.status = r.status /\ q.one = one
    BY <1>1, <2>5 DEF SkillRecord, SkillPcs
  <2>7. RequestTypeOK(q)'
    BY <1>1, <1>2, <2>5, <2>6 DEF RequestTypeOK
  <2>8. ASSUME ~sraced PROVE SavingOK(q)' /\ DerivedOK(q)' /\ SettlingOK(q)'
    <3>1. RegistryKept /\ SettlingOK(r)
      BY <1>1, <2>8
    <3>2. (r.id \in off /\ skills[r.id] # NoSkill) => ~skills[r.id].on /\ ~found.on
      BY <1>5, <3>1 DEF RegistryKept
    <3>3. (r.id \in off /\ skills[r.id] # NoSkill) => ~one.on
      <4>1. CASE r.op = "enable"
        <5>1. skills = r.cfg /\ r.cfg[r.id].on = (r.status = "active")
          BY <1>0, <3>1, <4>1 DEF SettlingOK
        <5> QED
          BY <2>3, <2>4, <3>2, <4>1, <5>1
      <4>2. CASE r.op = "promote"
        BY <1>0, <3>1, <4>2 DEF SettlingOK
      <4>3. CASE r.op \notin {"enable", "promote"}
        BY <2>4, <3>2, <4>3
      <4> QED
        BY <4>1, <4>2, <4>3
    <3>4. (r.op = "enable" /\ r.status = "disabled") => ~one.on
      BY <2>3, <2>4
    <3>5. SavingOK(q)' /\ DerivedOK(q)'
      BY <2>6 DEF SavingOK, DerivedOK
    <3>6. SettlingOK(q)'
      BY <1>0, <1>2, <2>6, <3>1, <3>3, <3>4 DEF SettlingOK
    <3> QED
      BY <3>5, <3>6
  <2> QED
    BY <1>1, <1>2, <1>3, <2>1, <2>7, <2>8, SkillMove
<1> QED
  BY <1>4, <1>5 DEF GetSkillLife, GiveUp


LEMMA PutSkillLifeStep ==
    ASSUME SkillsInv, NEW o \in Operators, PutSkillLife(o)
    PROVE  SkillsInv'
<1> PICK r : r = sreq[o]
  OBVIOUS
<1> PICK q : q = AfterPut(r)
  OBVIOUS
<1>0. r.pc = "put" /\ sreq[o].pc \in PhasePcs
  BY DEF PutSkillLife, PhasePcs
<1>1. /\ RegistryTypes /\ r \in SkillRecord /\ sup /\ r.id \in SkillIds /\ RequestTypeOK(r)
      /\ ~sraced => /\ RegistryKept /\ SettlingOK(r)
                    /\ \A p \in Operators \ {o} : sreq[p].pc \notin PhasePcs
  BY <1>0, UnderWay
<1>2. /\ UNCHANGED <<skills, skillFile, hasPath, sup, sraced, wiped>>
      /\ slife' = [slife EXCEPT ![r.id] = r.one]
  BY DEF PutSkillLife
<1>3. r.one \in KeptLives
  BY <1>0, <1>1 DEF RequestTypeOK
<1>4. /\ slife' \in LifeMap /\ slife'[r.id] = r.one /\ r.one # NoSkill
      /\ \A s \in SkillIds \ {r.id} : slife'[s] = slife[s]
  BY <1>1, <1>2, <1>3, SkillConstants DEF RegistryTypes, LifeMap
\* The corrected lifecycle alone keeps the registry.
<1>5. ASSUME ~sraced
      PROVE  /\ \A s \in SkillIds : skills[s] \in slegit[s] /\ (skills[s] # NoSkill => slife'[s] # NoSkill)
             /\ (hasPath /\ ~wiped) => \A s \in SkillIds : skillFile[s] \in slegit[s]
             /\ \A s \in off : /\ skills[s] # NoSkill => ~skills[s].on /\ (slife'[s] # NoSkill => ~slife'[s].on)
                               /\ (hasPath /\ skillFile[s] # NoSkill) => ~skillFile[s].on
  <2>1. RegistryKept /\ SettlingOK(r) /\ off \subseteq SkillIds
    BY <1>1, <1>5 DEF RegistryTypes
  <2>2. (r.id \in off /\ skills[r.id] # NoSkill) => ~r.one.on
    BY <1>0, <2>1 DEF SettlingOK
  <2> QED
    BY <1>4, <2>1, <2>2 DEF RegistryKept
<1>6. CASE hasPath /\ GiveUp(o) /\ UNCHANGED <<slifeFile, slegit, off>>
  <2>1. RegistryTypes'
    BY <1>1, <1>2, <1>4, <1>6 DEF RegistryTypes
  <2>2. ~sraced => RegistryKept'
    BY <1>2, <1>5, <1>6 DEF RegistryKept
  <2>3. sreq' = [sreq EXCEPT ![o] = NoRequest]
    BY <1>6 DEF GiveUp
  <2> QED
    BY <1>1, <1>2, <2>1, <2>2, <2>3, EndedRequest, SkillMove
<1>7. CASE /\ slifeFile' = IF hasPath THEN slife' ELSE slifeFile
           /\ sreq' = [sreq EXCEPT ![o] = q]
           /\ slegit' = IF r.op \in {"promote", "publish"} THEN slegit ELSE [slegit EXCEPT ![r.id] = {r.cfg[r.id]}]
           /\ off' = IF r.op = "enable" /\ r.status = "disabled" THEN off \cup {r.id} ELSE off
  <2>1. r.cfg[r.id] \in Manifest \cup {NoSkill}
    BY <1>1 DEF SkillRecord, SkillMap
  <2>2. /\ slegit' \in [SkillIds -> SUBSET (Manifest \cup {NoSkill})]
        /\ \A s \in SkillIds \ {r.id} : slegit'[s] = slegit[s]
        /\ r.op \in {"promote", "publish"} => slegit' = slegit
        /\ r.op \notin {"promote", "publish"} => slegit'[r.id] = {r.cfg[r.id]}
    BY <1>1, <1>7, <2>1 DEF RegistryTypes
  <2>3. slifeFile' \in LifeMap /\ off' \subseteq SkillIds
    BY <1>1, <1>4, <1>7 DEF RegistryTypes
  <2>4. RegistryTypes'
    BY <1>1, <1>2, <1>4, <2>2, <2>3 DEF RegistryTypes
  <2>5. \/ q = NoRequest
        \/ q \in SkillRecord /\ q.pc = "get" /\ q.op = "publish" /\ q.id = r.id
        \/ q \in SkillRecord /\ q.pc = "imported" /\ q.op = "import" /\ q.id = r.id
    <3>1. CASE r.op = "rollback"
      <4>1. q = [r EXCEPT !.pc = "get", !.op = "publish"]
        BY <3>1 DEF AfterPut
      <4> QED
        BY <1>1, <4>1 DEF SkillRecord, SkillPcs
    <3>2. CASE r.op = "import"
      <4>1. q = [r EXCEPT !.pc = "imported"]
        BY <3>2 DEF AfterPut
      <4> QED
        BY <1>1, <3>2, <4>1 DEF SkillRecord, SkillPcs
    <3>3. CASE r.op \notin {"rollback", "import"}
      BY <3>3 DEF AfterPut
    <3> QED
      BY <3>1, <3>2, <3>3
  <2>6. RequestTypeOK(q)' /\ SavingOK(q)' /\ DerivedOK(q)' /\ SettlingOK(q)'
    <3>1. CASE q = NoRequest
      BY <3>1, EndedRequest
    <3>2. CASE q # NoRequest
      BY <1>1, <1>2, <2>5, <3>2 DEF RequestTypeOK, SavingOK, DerivedOK, SettlingOK
    <3> QED
      BY <3>1, <3>2
  <2>7. ASSUME ~sraced PROVE RegistryKept'
    <3>1. SettlingOK(r)
      BY <1>1, <2>7
    <3>2. r.op \notin {"promote", "publish"} => skills = r.cfg /\ (hasPath => ~wiped /\ skillFile = r.cfg)
      BY <1>0, <3>1 DEF SettlingOK
    <3>3. \A s \in SkillIds : skills[s] \in slegit'[s] /\ ((hasPath /\ ~wiped) => skillFile[s] \in slegit'[s])
      BY <1>5, <2>2, <2>7, <3>2
    <3>4. ASSUME NEW s \in off'
          PROVE  /\ skills[s] # NoSkill => ~skills[s].on /\ (slife'[s] # NoSkill => ~slife'[s].on)
                 /\ (hasPath /\ skillFile[s] # NoSkill) => ~skillFile[s].on
      <4>1. CASE s \in off
        BY <1>5, <2>7, <4>1
      <4>2. CASE s \notin off
        <5>1. s = r.id /\ r.op = "enable" /\ r.status = "disabled"
          BY <1>7, <3>4, <4>2
        <5>2. ~r.cfg[s].on /\ ~r.one.on
          BY <1>0, <3>1, <5>1 DEF SettlingOK
        <5> QED
          BY <1>4, <3>2, <5>1, <5>2
      <4> QED
        BY <4>1, <4>2
    <3> QED
      BY <1>2, <1>5, <2>7, <3>3, <3>4 DEF RegistryKept
  <2> QED
    BY <1>1, <1>2, <1>7, <2>4, <2>6, <2>7, SkillMove
<1> QED
  BY <1>6, <1>7 DEF PutSkillLife

LEMMA SkillsCrashStep ==
    ASSUME SkillsInv, SkillsCrash
    PROVE  SkillsInv'
<1>1. /\ sreq' \in [Operators -> SkillRecord] /\ \A o \in Operators : sreq'[o] = NoRequest
      /\ sup' = FALSE
      /\ UNCHANGED <<skills, slife, skillFile, slifeFile, hasPath, slegit, sraced, wiped, off>>
  BY SkillConstants DEF SkillsCrash
<1>2. RegistryTypes'
  BY <1>1 DEF SkillsInv, RegistryTypes
<1>3. \A o \in Operators : RequestTypeOK(sreq[o])'
  BY <1>1, SkillConstants DEF RequestTypeOK
<1>4. ~sraced => RegistryKept'
  BY <1>1 DEF SkillsInv, RegistryKept
<1>5. RequestsKept' /\ OneAtATime'
  BY <1>1, SkillConstants DEF RequestsKept, SavingOK, DerivedOK, SettlingOK, OneAtATime, PhasePcs
<1> QED
  BY <1>1, <1>2, <1>3, <1>4, <1>5 DEF SkillsInv

LEMMA ReloadedMaps ==
    ASSUME RegistryTypes
    PROVE  /\ ReloadedSkills \in SkillMap /\ ReloadedLife \in LifeMap
           /\ \A s \in SkillIds : ReloadedSkills[s] # NoSkill =>
                  ReloadedLife[s] # NoSkill /\ ReloadedLife[s].on = ReloadedSkills[s].on
           /\ IF hasPath THEN ReloadedSkills = skillFile ELSE ReloadedSkills = NoSkills
<1> DEFINE state == IF hasPath THEN slifeFile ELSE NoSkills
<1>1. ReloadedSkills \in SkillMap /\ IF hasPath THEN ReloadedSkills = skillFile ELSE ReloadedSkills = NoSkills
  BY SkillConstants DEF RegistryTypes, ReloadedSkills
<1>2. state \in LifeMap /\ NoSkills \in SkillMap
  BY SkillConstants DEF RegistryTypes
<1>3. ReloadedLife = SyncSkills(state, NoSkills, ReloadedSkills)
  BY DEF ReloadedLife
<1> HIDE DEF state
<1> QED
  BY <1>1, <1>2, <1>3, SyncedSkills

LEMMA SkillsBootStep ==
    ASSUME SkillsInv, SkillsBoot
    PROVE  SkillsInv'
<1>0. RegistryTypes /\ ~sup
  BY DEF SkillsInv, SkillsBoot
<1>1. /\ sup' = TRUE /\ skills' = ReloadedSkills /\ slife' = ReloadedLife
      /\ slegit' = IF hasPath /\ ~wiped THEN slegit ELSE [s \in SkillIds |-> {skills'[s]}]
      /\ UNCHANGED <<skillFile, slifeFile, hasPath, sreq, sraced, wiped, off>>
  BY DEF SkillsBoot
<1>2. /\ skills' \in SkillMap /\ slife' \in LifeMap
      /\ \A s \in SkillIds : skills'[s] # NoSkill => slife'[s] # NoSkill /\ slife'[s].on = skills'[s].on
      /\ IF hasPath THEN skills' = skillFile ELSE skills' = NoSkills
  BY <1>0, <1>1, ReloadedMaps
<1>3. /\ slegit' \in [SkillIds -> SUBSET (Manifest \cup {NoSkill})]
      /\ ~(hasPath /\ ~wiped) => \A s \in SkillIds : slegit'[s] = {skills'[s]}
      /\ (hasPath /\ ~wiped) => slegit' = slegit
  BY <1>0, <1>1, <1>2 DEF RegistryTypes, SkillMap
<1>4. RegistryTypes'
  BY <1>0, <1>1, <1>2, <1>3 DEF RegistryTypes
<1>5. \A o \in Operators : sreq[o].pc = "idle"
  BY <1>0 DEF SkillsInv, RequestTypeOK
<1>6. sreq' \in [Operators -> SkillRecord] /\ \A o \in Operators : RequestTypeOK(sreq[o])'
  BY <1>1, <1>5 DEF SkillsInv, RequestTypeOK
<1>7. RequestsKept' /\ OneAtATime'
  BY <1>1, <1>5 DEF RequestsKept, SavingOK, DerivedOK, SettlingOK, OneAtATime, PhasePcs
<1>8. ASSUME ~sraced PROVE RegistryKept'
  <2>1. RegistryKept /\ off \subseteq SkillIds
    BY <1>0, <1>8 DEF SkillsInv, RegistryTypes
  <2>2. \A s \in SkillIds : skills'[s] \in slegit'[s] /\ (skills'[s] # NoSkill => slife'[s] # NoSkill)
    BY <1>2, <1>3, <2>1 DEF RegistryKept
  <2>3. \A s \in off : skills'[s] # NoSkill => ~skills'[s].on /\ (slife'[s] # NoSkill => ~slife'[s].on)
    BY <1>2, <2>1, SkillConstants DEF RegistryKept
  <2>4. (hasPath /\ ~wiped) => \A s \in SkillIds : skillFile[s] \in slegit'[s]
    BY <1>3, <2>1 DEF RegistryKept
  <2>5. \A s \in off : (hasPath /\ skillFile[s] # NoSkill) => ~skillFile[s].on
    BY <2>1 DEF RegistryKept
  <2> QED
    BY <1>1, <2>2, <2>3, <2>4, <2>5 DEF RegistryKept
<1> QED
  BY <1>1, <1>4, <1>6, <1>7, <1>8 DEF SkillsInv

LEMMA SkillsStep == SkillsInv /\ [SkillsNext]_skillVars => SkillsInv'
<1> SUFFICES ASSUME SkillsInv, [SkillsNext]_skillVars PROVE SkillsInv'
  OBVIOUS
<1>1. ASSUME NEW o \in Operators, SkillStep(o) PROVE SkillsInv'
  BY <1>1, UpsertTargetStep, SyncRequestStep, WriteSkillFileStep, WriteSkillStateStep, SwapSkillsStep, GetSkillLifeStep,
     PutSkillLifeStep DEF SkillStep
<1>2. CASE UNCHANGED skillVars
  <2>1. UNCHANGED <<skills, slife, skillFile, slifeFile, hasPath, sup, sreq, requests, slegit, sraced, wiped, off>>
    BY <1>2 DEF skillVars
  <2>2. RegistryTypes' /\ (~sraced => RegistryKept' /\ RequestsKept' /\ OneAtATime')
    BY <2>1 DEF SkillsInv, RegistryTypes, RegistryKept, RequestsKept, SavingOK, DerivedOK, SettlingOK, OneAtATime
  <2> QED
    BY <2>1, <2>2 DEF SkillsInv, RequestTypeOK
<1> QED
  BY <1>1, <1>2, SkillRequestStep, SkillsCrashStep, SkillsBootStep DEF SkillsNext

(* The skill registry of any number of skills, operators and revisions kept: *)
(* unless requests overlap, a skill in use is what the last acknowledged      *)
(* request left or a later one asked for, through failed writes of either     *)
(* file and crashes between them, has a lifecycle within the limit, and is    *)
(* not offered to the planner once it was disabled.                           *)
THEOREM SkillsCorrect == SkillsSpec => []SkillsSound
<1>1. SkillsInv => SkillsSound
  <2> SUFFICES ASSUME SkillsInv PROVE SkillsTypeOK /\ SkillsKept /\ DisabledNotOffered
    BY DEF SkillsSound
  <2>0. RegistryTypes /\ sreq \in [Operators -> SkillRecord]
    BY DEF SkillsInv
  <2>1. SkillsTypeOK
    <3>1. \A map \in {slife, slifeFile} \cup {sreq[o].life : o \in Operators} : map \in LifeMap
      BY <2>0 DEF RegistryTypes, SkillRecord
    <3>2. \A map \in LifeMap : \A s \in SkillIds :
              map[s] # NoSkill => map[s] \in SkillLifecycle /\ Len(map[s].revs) \in 1 .. MaxSkillRevs
      BY DEF LifeMap, KeptLives
    <3> QED
      BY <2>0, <3>1, <3>2 DEF SkillsTypeOK, RegistryTypes, SkillMap, SkillRecord
  <2>2. SkillsKept
    <3> SUFFICES ASSUME ~sraced, sup \/ (hasPath /\ ~wiped), NEW s \in SkillIds
                 PROVE  /\ (IF sup THEN skills ELSE ReloadedSkills)[s] \in slegit[s]
                        /\ (IF sup THEN skills ELSE ReloadedSkills)[s] # NoSkill =>
                               (IF sup THEN slife ELSE ReloadedLife)[s] # NoSkill
      BY DEF SkillsKept
    <3>1. RegistryKept
      BY DEF SkillsInv
    <3>2. CASE sup
      BY <3>1, <3>2 DEF RegistryKept
    <3>3. CASE ~sup
      BY <2>0, <3>1, <3>3, ReloadedMaps DEF RegistryKept
    <3> QED
      BY <3>2, <3>3
  <2>3. DisabledNotOffered
    BY DEF SkillsInv, RegistryKept, DisabledNotOffered, PlannerDescriptors, SkillsIn
  <2> QED
    BY <2>1, <2>2, <2>3
<1> QED
  BY <1>1, SkillsInitInv, SkillsStep, PTL DEF SkillsSpec

-----------------------------------------------------------------------------
(* The connector registry.  The inductive invariant.                       *)

\* The content m is that of the newest revision.
NewestIs(revs, m) ==
    \E i \in DOMAIN revs : /\ revs[i].m.ver = m.ver /\ revs[i].m.body = m.body
                           /\ \A j \in DOMAIN revs : revs[j].at <= revs[i].at

\* Revisions and lifecycles of the first requests, and maps of them.
KnownRevision(now) == {r \in Revision : r.at <= now}
KnownLife(now) == {l \in Lifecycle : l.revs \in Seq(KnownRevision(now)) /\ Len(l.revs) \in 1..MaxRevs}
KnownLives(now) == [Connectors -> KnownLife(now) \cup {Absent}]

AdminRecord(now) ==
    [pc: {"idle", "sync", "file", "state", "swap", "persist", "read", "put", "put_file", "put_doc"},
     op: {"save", "upgrade", "rollback"}, id: Connectors \cup {Absent}, cfg: Conf,
     life: KnownLives(now), one: KnownLife(now) \cup {Absent}]
CallRecord(now) ==
    [pc: {"idle", "run", "copy", "store"}, id: Connectors \cup {Absent}, life: KnownLives(now), cfg: Conf]

\* What is stored, and the shape of a request and of the calls.
StoreTypes ==
    /\ saves \in 0..MaxSaves
    /\ conn \in Conf /\ connFile \in Conf
    /\ life \in KnownLives(saves) /\ lifeFile \in KnownLives(saves)
    /\ connDoc = Absent \/ connDoc \in [cfg: Conf, life: KnownLives(saves)]
    /\ legit \in [Connectors -> SUBSET (ConnManifest \cup {Absent})]
AdminTypes ==
    /\ adm \in AdminRecord(saves)
    /\ adm.pc # "idle" => adm.id \in Connectors
    /\ (adm.op # "save" /\ adm.pc \notin {"put_file", "put_doc"}) => adm.cfg[adm.id] # Absent
    /\ adm.pc = "put" => adm.one # Absent
    /\ adm.pc = "read" => adm.op # "save"
CallTypes ==
    /\ call \in [Calls -> CallRecord(saves)]
    /\ \A k \in Calls : call[k].pc # "idle" => call[k].id \in Connectors
ConnTypes == StoreTypes /\ AdminTypes /\ CallTypes

\* The lifecycles l are those of the configuration c.
Tracks(c, l) == \A id \in Connectors :
    IF c[id] = Absent THEN l[id] = Absent
    ELSE /\ l[id] # Absent /\ l[id].fp \in {c[id], Absent}
         /\ l[id].ver = c[id].ver /\ l[id].on = c[id].on

\* The newest revision of a connector has the content of its manifest, but for
\* the connectors that changed unrecorded.
Newest(c, l, un) == \A id \in Connectors \ un :
    c[id] # Absent /\ l[id] # Absent => NewestIs(l[id].revs, c[id])

\* The same for the lifecycle file and the manifest each was derived from.
FileNewest(l, un) == \A id \in Connectors \ un :
    l[id] # Absent /\ l[id].fp # Absent => NewestIs(l[id].revs, l[id].fp)

\* Deriving a lifecycle from old keeps the newest revision that of the manifest.
KeepsRecord(old, prev, m) ==
    \/ old.fp = m /\ NewestIs(old.revs, m)
    \/ /\ prev # Absent /\ old.fp \in {prev, Absent} /\ NewestIs(old.revs, prev)
       /\ ~(prev.ver = m.ver /\ prev.body # m.body /\ (prev.on # m.on \/ old.fp = Absent))

\* Every connector of c is what it may be.
Allowed(c, lg) == \A id \in Connectors : c[id] \in lg[id]

\* What a boot finds is a configuration with its lifecycles, like the memory.
ConnStoresKept ==
    /\ Tracks(conn, life) /\ Newest(conn, life, untracked) /\ Allowed(conn, legit)
    /\ FileNewest(lifeFile, untracked)
    /\ connDoc = Absent => Allowed(connFile, legit)
    /\ connDoc # Absent => /\ Tracks(connDoc.cfg, connDoc.life)
                           /\ Newest(connDoc.cfg, connDoc.life, untracked)
                           /\ Allowed(connDoc.cfg, legit)

\* The request: its configuration is allowed, is the one in memory once it was
\* swapped in, and the lifecycles it carries are those of its configuration.
AdminKept(a, c, un, lg) ==
    /\ a.pc # "idle" => Allowed(a.cfg, lg)
    /\ a.pc \in {"file", "state", "swap", "persist", "put_file", "put_doc"} => Tracks(a.cfg, a.life) /\ Newest(a.cfg, a.life, un)
    /\ a.pc \in {"persist", "read", "put", "put_file", "put_doc"} => a.cfg = c
    /\ a.pc = "put" => /\ c[a.id] # Absent
                       /\ a.one.fp \in {c[a.id], Absent} /\ a.one.ver = c[a.id].ver /\ a.one.on = c[a.id].on
                       /\ a.id \in un \/ NewestIs(a.one.revs, c[a.id])

\* The lifecycles a call copied are those of the configuration in memory.
CallKept(r, c, un) ==
    /\ r.pc \in {"copy", "store"} => Tracks(c, r.life) /\ Newest(c, r.life, un)
    /\ r.pc = "store" => r.cfg = c

KeptNow == /\ ConnStoresKept
           /\ AdminKept(adm, conn, untracked, legit)
           /\ \A k \in Calls : CallKept(call[k], conn, untracked)

\* A process that is down has neither a request nor calls.
DownIdle == ~up => adm.pc = "idle" /\ \A k \in Calls : call[k].pc = "idle"

ConnInv == ConnTypes /\ DownIdle /\ (~mixed => KeptNow)

-----------------------------------------------------------------------------
\* Sorting by time gives the same revisions, the newest last where it was last.
LEMMA ByTimeFacts ==
    ASSUME NEW S, \A r \in S : r.at \in Nat, NEW s \in Seq(S)
    PROVE  /\ ByTime(s) \in Seq(S) /\ Len(ByTime(s)) = Len(s)
           /\ (s # <<>> /\ \A i \in DOMAIN s : s[i].at <= s[Len(s)].at) => ByTime(s)[Len(s)] = s[Len(s)]
<1> DEFINE n == Len(s)
           D == DOMAIN s
           upTo(i) == {j \in D : s[j].at < s[i].at \/ (s[j].at = s[i].at /\ j <= i)}
           rank == [i \in D |-> Cardinality(upTo(i))]
           place(k) == CHOOSE i \in D : Cardinality(upTo(i)) = k
<1>1. n \in Nat /\ D = 1..n /\ \A i \in D : s[i] \in S /\ s[i].at \in Nat
  OBVIOUS
<1>2. ByTime(s) = [k \in D |-> s[place(k)]]
  BY DEF ByTime
<1>3. IsFiniteSet(D) /\ Cardinality(D) = n
  <2>1. IsFiniteSet(1..n) /\ Cardinality(1..n) = n
    <3> HIDE DEF n
    <3> QED
      BY <1>1, FS_Interval
  <2> HIDE DEF n, D
  <2> QED
    BY <1>1, <2>1
<1>4. ASSUME NEW i \in D
      PROVE  IsFiniteSet(upTo(i)) /\ Cardinality(upTo(i)) \in D
  <2>1. IsFiniteSet(upTo(i)) /\ Cardinality(upTo(i)) <= n
    BY <1>3, FS_Subset
  <2>2. i \in upTo(i)
    BY <1>1
  <2>3. Cardinality(upTo(i)) \in Nat /\ Cardinality(upTo(i)) # 0
    BY <2>1, <2>2, FS_CardinalityType, FS_EmptySet
  <2> QED
    BY <1>1, <2>1, <2>3
<1>5. ASSUME NEW i \in D, NEW j \in D, i # j PROVE Cardinality(upTo(i)) # Cardinality(upTo(j))
  <2>1. ASSUME NEW a \in D, NEW b \in D, a \in upTo(b), a # b
        PROVE  Cardinality(upTo(a)) # Cardinality(upTo(b))
    <3>1. upTo(a) \subseteq upTo(b)
      <4> SUFFICES ASSUME NEW x \in upTo(a) PROVE x \in upTo(b)
        OBVIOUS
      <4>1. s[x].at \in Nat /\ s[a].at \in Nat /\ s[b].at \in Nat /\ x \in Nat /\ a \in Nat /\ b \in Nat /\ x \in D
        BY <1>1
      <4> QED
        BY <2>1, <4>1
    <3>2. b \in upTo(b) /\ b \notin upTo(a)
      BY <1>1, <2>1
    <3> HIDE DEF upTo
    <3>3. IsFiniteSet(upTo(b)) /\ (Cardinality(upTo(b)) = Cardinality(upTo(a)) => upTo(a) = upTo(b))
      BY <1>4, <3>1, FS_Subset
    <3> QED
      BY <3>2, <3>3
  <2>2. i \in upTo(j) \/ j \in upTo(i)
    BY <1>1
  <2> HIDE DEF upTo
  <2> QED
    BY <1>5, <2>1, <2>2
<1>6. rank \in Injection(D, D)
  <2> HIDE DEF upTo, D
  <2> QED
    BY <1>4, <1>5 DEF Injection, IsInjective
<1>7. rank \in Surjection(D, D)
  <2> HIDE DEF rank
  <2> QED
    BY <1>3, <1>6, FS_Injection
<1>8. ASSUME NEW k \in D PROVE \E i \in D : Cardinality(upTo(i)) = k
  <2>1. PICK i \in D : rank[i] = k
    <3> HIDE DEF rank, D
    <3> QED
      BY <1>7 DEF Surjection
  <2> QED
    BY <2>1
<1>9. ASSUME NEW k \in D PROVE place(k) \in D /\ Cardinality(upTo(place(k))) = k
  <2> HIDE DEF upTo, D
  <2> QED
    BY <1>8
<1>10. ByTime(s) \in Seq(S) /\ Len(ByTime(s)) = n
  <2>1. \A k \in D : s[place(k)] \in S
    <3> HIDE DEF place
    <3> QED
      BY <1>1, <1>9
  <2> HIDE DEF place
  <2> QED
    BY <1>1, <1>2, <2>1
<1>11. ASSUME s # <<>>, \A i \in DOMAIN s : s[i].at <= s[Len(s)].at PROVE ByTime(s)[n] = s[n]
  <2>1. n \in D
    BY <1>1, <1>11
  <2>2. place(n) \in D /\ Cardinality(upTo(place(n))) = n
    BY <1>9, <2>1
  <2> DEFINE p == place(n)
  <2> HIDE DEF place
  <2>3. upTo(p) = D
    <3> HIDE DEF D
    <3>1. upTo(p) \subseteq D
      OBVIOUS
    <3> HIDE DEF upTo
    <3> QED
      BY <1>3, <2>2, <3>1, FS_Subset
  <2>4. n \in upTo(p)
    BY <2>1, <2>3
  <2>5. p = n
    BY <1>1, <1>11, <2>2, <2>4
  <2> QED
    BY <1>2, <2>1, <2>5
<1> QED
  BY <1>10, <1>11
\* A set of positions has a first and a last one.
LEMMA FirstAndLast ==
    ASSUME NEW n \in Nat, NEW T, T \subseteq 1..n, T # {}
    PROVE  /\ \E i \in T : \A j \in T : i <= j
           /\ \E i \in T : \A j \in T : j <= i
<1> DEFINE R == OpToRel(<, Nat)
<1>0. \A x, y \in Nat : y < x => <<y, x>> \in R
  BY DEF OpToRel
<1>1. ASSUME NEW U, U \subseteq Nat, U # {} PROVE \E x \in U : \A y \in U : x <= y
  <2>1. \E x \in U : \A y \in U : ~(<<y, x>> \in R)
    BY <1>1, NatLessThanWellFounded, WFMin
  <2> HIDE DEF R
  <2>2. PICK x \in U : \A y \in U : ~(<<y, x>> \in R)
    BY <2>1
  <2>3. ASSUME NEW y \in U PROVE x <= y
    <3>1. x \in Nat /\ y \in Nat /\ ~(<<y, x>> \in R)
      BY <1>1, <2>2
    <3>2. ~(y < x)
      BY <1>0, <3>1
    <3> QED
      BY <3>1, <3>2
  <2> QED
    BY <2>3
<1> HIDE DEF R
<1>2. \E i \in T : \A j \in T : i <= j
  <2>1. T \subseteq Nat
    OBVIOUS
  <2> QED
    BY <1>1, <2>1
<1>3. \E i \in T : \A j \in T : j <= i
  <2> DEFINE U == {n - i : i \in T}
  <2>1. U \subseteq Nat /\ U # {}
    <3>1. \A i \in T : n - i \in Nat
      OBVIOUS
    <3> QED
      BY <3>1
  <2>2. PICK x \in U : \A y \in U : x <= y
    <3> HIDE DEF U
    <3> QED
      BY <1>1, <2>1
  <2>3. PICK i \in T : x = n - i
    BY <2>2
  <2>4. ASSUME NEW j \in T PROVE j <= i
    <3>1. n - i <= n - j
      BY <2>2, <2>3
    <3> QED
      BY <3>1
  <2> QED
    BY <2>4
<1> QED
  BY <1>2, <1>3

\* Recording content makes it that of the newest revision, within the limit.
LEMMA RecordedRevision ==
    ASSUME NEW now \in 0..MaxSaves, NEW revs \in Seq(KnownRevision(now)), Len(revs) <= MaxRevs,
           NEW m \in ConnManifest, NEW why \in {"install", "upgrade", "update", "rollback"}
    PROVE  /\ AppendRevision(revs, m, why, now) \in Seq(KnownRevision(now))
           /\ Len(AppendRevision(revs, m, why, now)) \in 1..MaxRevs
           /\ NewestIs(AppendRevision(revs, m, why, now), m)
<1> DEFINE K == KnownRevision(now)
           q == AppendRevision(revs, m, why, now)
           same == {i \in DOMAIN revs : revs[i].m = m /\ revs[i].why = why}
           first == CHOOSE i \in same : \A j \in same : i <= j
           r == [m |-> m, why |-> why, at |-> now]
           long == Append(revs, r)
           all == ByTime(long)
           from == IF Len(all) > MaxRevs THEN Len(all) - MaxRevs + 1 ELSE 1
<1>1. q = IF same # {} THEN [revs EXCEPT ![first].at = now] ELSE SubSeq(all, from, Len(all))
  BY DEF AppendRevision
<1>2. /\ r \in K /\ r.m = m /\ r.at = now /\ now \in Nat /\ MaxRevs \in Nat \ {0}
      /\ \A x \in K : x \in Revision /\ x.at \in Nat /\ x.at <= now
  BY ConnectorsAssumption DEF KnownRevision, Revision
<1>3. Len(revs) \in Nat /\ DOMAIN revs = 1..Len(revs) /\ \A i \in DOMAIN revs : revs[i] \in K
  OBVIOUS
<1>4. CASE same # {}
  <2>1. first \in same
    <3>1. same \subseteq 1..Len(revs)
      BY <1>3
    <3> HIDE DEF same
    <3>2. \E i \in same : \A j \in same : i <= j
      BY <1>3, <1>4, <3>1, FirstAndLast
    <3> QED
      BY <3>2
  <2> HIDE DEF first
  <2>2. first \in DOMAIN revs /\ revs[first].m = m /\ revs[first] \in K
    BY <1>3, <2>1
  <2> DEFINE z == [revs[first] EXCEPT !.at = now]
  <2>3. q = [revs EXCEPT ![first] = z]
    BY <1>1, <1>4
  <2>4. z \in K /\ z.m = m /\ z.at = now
    BY <1>2, <2>2 DEF KnownRevision, Revision
  <2> HIDE DEF z, K, q, same
  <2>5. q \in Seq(K) /\ Len(q) = Len(revs) /\ DOMAIN q = DOMAIN revs /\ q[first] = z
        /\ \A i \in DOMAIN q : q[i] \in K
    BY <1>3, <2>2, <2>3, <2>4 DEF K
  <2>6. Len(q) \in 1..MaxRevs
    BY <1>2, <1>3, <2>2, <2>5
  <2>7. NewestIs(q, m)
    BY <1>2, <2>2, <2>4, <2>5 DEF NewestIs
  <2> QED
    BY <2>5, <2>6, <2>7 DEF q, K
<1>5. CASE same = {}
  <2>1. long \in Seq(K) /\ Len(long) = Len(revs) + 1 /\ long # <<>> /\ long[Len(long)] = r
        /\ \A i \in DOMAIN long : long[i] \in K
    <3> HIDE DEF r, K
    <3> QED
      BY <1>2, <1>3 DEF K
  <2>2. \A i \in DOMAIN long : long[i].at <= long[Len(long)].at
    <3> HIDE DEF long, r, K
    <3> QED
      BY <1>2, <2>1
  <2>3. all \in Seq(K) /\ Len(all) = Len(revs) + 1 /\ all[Len(all)] = r
    <3> HIDE DEF long, r, K
    <3> QED
      BY <1>2, <2>1, <2>2, ByTimeFacts
  <2> DEFINE n == Len(all)
  <2>4. n \in Nat /\ n >= 1 /\ n <= MaxRevs + 1 /\ from \in 1..n /\ n - from + 1 \in 1..MaxRevs
    <3> HIDE DEF all
    <3> QED
      BY <1>2, <1>3, <2>3
  <2>5. q = SubSeq(all, from, n)
    BY <1>1, <1>5
  <2> HIDE DEF q, all, r, K, from, same
  <2>6. /\ q \in Seq(K) /\ Len(q) = n - from + 1
        /\ \A i \in 1..(n - from + 1) : q[i] = all[from + i - 1]
    BY <1>2, <2>3, <2>4, <2>5
  <2>7. q[Len(q)] = r /\ Len(q) \in DOMAIN q /\ \A i \in DOMAIN q : q[i] \in K
    BY <2>3, <2>4, <2>6
  <2>8. NewestIs(q, m)
    BY <1>2, <2>7 DEF NewestIs
  <2> QED
    BY <2>4, <2>6, <2>8 DEF q, K
<1> QED
  BY <1>4, <1>5

\* Taking the automatic revision of a rollback away leaves known revisions.
LEMMA PrunedRevisions ==
    ASSUME NEW S, NEW revs \in Seq(S), NEW m, Len(revs) <= MaxRevs
    PROVE  PruneRevision(revs, m) \in Seq(S) /\ Len(PruneRevision(revs, m)) <= MaxRevs
<1> DEFINE auto == {i \in DOMAIN revs : revs[i].m = m /\ revs[i].why = "upgrade"}
           final == CHOOSE i \in auto : \A j \in auto : j <= i
           a == SubSeq(revs, 1, final - 1)
           b == SubSeq(revs, final + 1, Len(revs))
<1>1. PruneRevision(revs, m) = IF auto = {} THEN revs ELSE a \o b
  BY DEF PruneRevision, RemoveAt
<1>2. Len(revs) \in Nat /\ DOMAIN revs = 1..Len(revs)
  OBVIOUS
<1>3. ASSUME auto # {} PROVE final \in 1..Len(revs)
  <2>1. auto \subseteq 1..Len(revs)
    BY <1>2
  <2> HIDE DEF auto
  <2>2. \E i \in auto : \A j \in auto : j <= i
    BY <1>2, <1>3, <2>1, FirstAndLast
  <2> QED
    BY <2>1, <2>2
<1> HIDE DEF auto, final
<1>4. CASE auto = {}
  BY <1>1, <1>4
<1>5. CASE auto # {}
  <2>1. a \in Seq(S) /\ Len(a) = final - 1
    BY <1>2, <1>3, <1>5
  <2>2. b \in Seq(S) /\ Len(b) = Len(revs) - final
    BY <1>2, <1>3, <1>5
  <2> HIDE DEF a, b
  <2>3. a \o b \in Seq(S) /\ Len(a \o b) = Len(a) + Len(b)
    BY <2>1, <2>2
  <2> QED
    BY <1>1, <1>2, <1>3, <1>5, <2>1, <2>2, <2>3, ConnectorsAssumption
<1> QED
  BY <1>4, <1>5

\* A rollback goes to a recorded manifest.
LEMMA RollbackToManifest ==
    ASSUME NEW now, life \in KnownLives(now), NEW id \in Connectors, life[id] # Absent, NEW ver,
           RollbackTarget(id, ver) # Absent
    PROVE  RollbackTarget(id, ver) \in ConnManifest
<1> DEFINE revs == life[id].revs
           hits == {i \in DOMAIN revs : revs[i].m.ver = ver}
           final == CHOOSE i \in hits : \A j \in hits : j <= i
<1>1. revs \in Seq(KnownRevision(now))
  BY DEF KnownLives, KnownLife
<1>2. RollbackTarget(id, ver) = IF hits = {} THEN Absent ELSE revs[final].m
  BY DEF RollbackTarget
<1> HIDE DEF revs
<1>3. Len(revs) \in Nat /\ DOMAIN revs = 1..Len(revs) /\ \A i \in DOMAIN revs : revs[i].m \in ConnManifest
  <2>1. \A i \in DOMAIN revs : revs[i] \in KnownRevision(now)
    BY <1>1
  <2> QED
    BY <1>1, <2>1 DEF KnownRevision, Revision
<1>4. hits # {}
  BY <1>2
<1>5. final \in DOMAIN revs
  <2>1. hits \subseteq 1..Len(revs) /\ hits \subseteq DOMAIN revs
    BY <1>3
  <2> HIDE DEF hits
  <2>2. \E i \in hits : \A j \in hits : j <= i
    BY <1>3, <1>4, <2>1, FirstAndLast
  <2> QED
    BY <2>1, <2>2
<1> HIDE DEF final, hits
<1> QED
  BY <1>2, <1>3, <1>4, <1>5

\* What a lifecycle record consists of.
LEMMA LifeFields ==
    ASSUME NEW now, NEW l \in KnownLife(now)
    PROVE  /\ l \in Lifecycle /\ l # Absent
           /\ l.ver \in Versions /\ l.on \in BOOLEAN /\ l.health \in Health
           /\ l.fp \in ConnManifest \cup {Absent}
           /\ l.revs \in Seq(KnownRevision(now)) /\ Len(l.revs) \in 1..MaxRevs
  BY ConnectorsAssumption DEF KnownLife, Lifecycle

\* A record with known revisions is a known lifecycle.
LEMMA LifeMade ==
    ASSUME NEW now, NEW ver \in Versions, NEW on \in BOOLEAN, NEW h \in Health, NEW m \in ConnManifest,
           NEW revs \in Seq(KnownRevision(now)), Len(revs) \in 1..MaxRevs
    PROVE  [ver |-> ver, on |-> on, health |-> h, fp |-> m, revs |-> revs] \in KnownLife(now)
<1> DEFINE l == [ver |-> ver, on |-> on, health |-> h, fp |-> m, revs |-> revs]
<1>1. revs \in Seq(Revision)
  <2>1. KnownRevision(now) \subseteq Revision
    BY DEF KnownRevision
  <2> QED
    BY <2>1
<1>2. l \in Lifecycle /\ l.revs = revs
  BY <1>1 DEF Lifecycle
<1> HIDE DEF l
<1>3. l \in KnownLife(now)
  BY <1>2 DEF KnownLife
<1> QED
  BY <1>3 DEF l

\* Both health summaries a manifest can give.
LEMMA HealthOfManifest ==
    ASSUME NEW m \in ConnManifest
    PROVE  ManifestHealth(m) \in Health /\ PendingProbe(m) \in Health
  BY DEF ManifestHealth, PendingProbe, Health, Healths, ConnManifest

\* The derived lifecycle of a connector is of its manifest; the manifest has the
\* content of the newest revision when it had before, and the change is recorded.
LEMMA DerivedLife ==
    ASSUME NEW now \in 0..MaxSaves, NEW old \in KnownLife(now) \cup {Absent},
           NEW prev \in ConnManifest \cup {Absent}, NEW m \in ConnManifest
    PROVE  /\ SyncOne(old, prev, m, now) \in KnownLife(now)
           /\ SyncOne(old, prev, m, now).fp = m
           /\ SyncOne(old, prev, m, now).ver = m.ver /\ SyncOne(old, prev, m, now).on = m.on
           /\ old = Absent => NewestIs(SyncOne(old, prev, m, now).revs, m)
           /\ old # Absent /\ KeepsRecord(old, prev, m) => NewestIs(SyncOne(old, prev, m, now).revs, m)
<1> DEFINE revs ==
             IF old = Absent THEN AppendRevision(<<>>, m, "install", now)
             ELSE IF prev = Absent THEN old.revs
             ELSE IF prev.ver # m.ver THEN AppendRevision(old.revs, m, "upgrade", now)
             ELSE IF prev.on # m.on THEN old.revs
             ELSE IF old.fp \notin {Absent, m} THEN AppendRevision(old.revs, m, "update", now)
             ELSE old.revs
           health == IF old # Absent /\ PreserveHealth(old.health, m, old.fp)
                     THEN old.health ELSE ManifestHealth(m)
           l == [ver |-> m.ver, on |-> m.on, health |-> health, fp |-> m, revs |-> revs]
           K == KnownRevision(now)
<1>1. SyncOne(old, prev, m, now) = l
  BY DEF SyncOne
<1>2. old # Absent => old \in KnownLife(now) /\ old.health \in Health /\ old.fp \in ConnManifest \cup {Absent}
                      /\ old.revs \in Seq(K) /\ Len(old.revs) \in 1..MaxRevs /\ Len(old.revs) <= MaxRevs
  BY LifeFields, ConnectorsAssumption
<1>3. health \in Health
  BY <1>2, HealthOfManifest
<1>4. <<>> \in Seq(K) /\ Len(<<>>) <= MaxRevs
  BY ConnectorsAssumption
<1>5. /\ AppendRevision(<<>>, m, "install", now) \in Seq(K)
      /\ Len(AppendRevision(<<>>, m, "install", now)) \in 1..MaxRevs
      /\ NewestIs(AppendRevision(<<>>, m, "install", now), m)
  BY <1>4, RecordedRevision
<1>6. ASSUME old # Absent, NEW why \in {"upgrade", "update"}
      PROVE  /\ AppendRevision(old.revs, m, why, now) \in Seq(K)
             /\ Len(AppendRevision(old.revs, m, why, now)) \in 1..MaxRevs
             /\ NewestIs(AppendRevision(old.revs, m, why, now), m)
  BY <1>2, <1>6, RecordedRevision
<1>7. revs \in Seq(K) /\ Len(revs) \in 1..MaxRevs
  BY <1>2, <1>5, <1>6
<1>8. m.ver \in Versions /\ m.on \in BOOLEAN
  BY DEF ConnManifest
<1>9. ASSUME old # Absent, KeepsRecord(old, prev, m)
      PROVE  NewestIs(revs, m)
  <2>1. CASE revs = AppendRevision(old.revs, m, "upgrade", now) \/ revs = AppendRevision(old.revs, m, "update", now)
    <3> HIDE DEF revs
    <3> QED
      BY <1>6, <1>9, <2>1
  <2>2. CASE revs = old.revs /\ NewestIs(old.revs, m)
    <3> HIDE DEF revs
    <3> QED
      BY <2>2
  <2>3. NewestIs(old.revs, prev) /\ prev.ver = m.ver /\ prev.body = m.body => NewestIs(old.revs, m)
    BY DEF NewestIs
  <2>4. \/ revs = AppendRevision(old.revs, m, "upgrade", now) \/ revs = AppendRevision(old.revs, m, "update", now)
        \/ revs = old.revs /\ NewestIs(old.revs, m)
    <3>1. m # Absent
      BY ConnectorsAssumption
    <3>2. CASE old.fp = m /\ NewestIs(old.revs, m)
      BY <1>9, <3>2
    <3>3. CASE /\ prev # Absent /\ old.fp \in {prev, Absent} /\ NewestIs(old.revs, prev)
               /\ ~(prev.ver = m.ver /\ prev.body # m.body /\ (prev.on # m.on \/ old.fp = Absent))
      <4>1. prev \in ConnManifest
        BY <3>3
      <4>2. prev.ver = m.ver /\ prev.body = m.body /\ prev.on = m.on => prev = m
        BY <4>1 DEF ConnManifest
      <4> QED
        BY <1>9, <2>3, <3>1, <3>3, <4>2
    <3> QED
      BY <1>9, <3>2, <3>3 DEF KeepsRecord
  <2> QED
    BY <2>1, <2>2, <2>4
<1>10. old = Absent => NewestIs(revs, m)
  BY <1>5
<1> HIDE DEF revs, health, K
<1>11. l \in KnownLife(now)
  BY <1>3, <1>7, <1>8, LifeMade DEF K
<1>12. l.fp = m /\ l.ver = m.ver /\ l.on = m.on /\ l.revs = revs
  OBVIOUS
<1> HIDE DEF l
<1> QED
  BY <1>1, <1>9, <1>10, <1>11, <1>12

\* What is known stays known.
LEMMA KnownLater ==
    ASSUME NEW now \in Nat
    PROVE  /\ KnownLife(now) \subseteq KnownLife(now + 1)
           /\ KnownLives(now) \subseteq KnownLives(now + 1)
           /\ AdminRecord(now) \subseteq AdminRecord(now + 1)
           /\ CallRecord(now) \subseteq CallRecord(now + 1)
<1>1. KnownRevision(now) \subseteq KnownRevision(now + 1)
  <2> SUFFICES ASSUME NEW r \in Revision, r.at <= now PROVE r.at <= now + 1
    BY DEF KnownRevision
  <2>1. r.at \in Nat
    BY ConnectorsAssumption DEF Revision
  <2> QED
    BY <2>1
<1>2. Seq(KnownRevision(now)) \subseteq Seq(KnownRevision(now + 1))
  BY <1>1
<1>3. KnownLife(now) \subseteq KnownLife(now + 1)
  BY <1>2 DEF KnownLife
<1>4. KnownLives(now) \subseteq KnownLives(now + 1)
  BY <1>3 DEF KnownLives
<1> QED
  BY <1>3, <1>4 DEF AdminRecord, CallRecord

\* The empty registry, the idle request and the idle call.
LEMMA ConnConstants ==
    ASSUME NEW now \in Nat
    PROVE  /\ NoConnectors \in Conf /\ NoConnectors \in KnownLives(now)
           /\ IdleAdmin \in AdminRecord(now) /\ IdleAdmin.pc = "idle" /\ IdleAdmin.op = "save"
           /\ IdleCall \in CallRecord(now) /\ IdleCall.pc = "idle"
<1>1. NoConnectors \in Conf /\ NoConnectors \in KnownLives(now)
  BY DEF NoConnectors, Conf, KnownLives
<1> QED
  BY <1>1 DEF IdleAdmin, IdleCall, AdminRecord, CallRecord

\* Derived lifecycles are those of the configuration.
LEMMA DerivedLives ==
    ASSUME NEW now \in 0..MaxSaves, NEW old \in KnownLives(now), NEW prev \in Conf, NEW c \in Conf
    PROVE  /\ SyncLifecycle(old, prev, c, now) \in KnownLives(now)
           /\ Tracks(c, SyncLifecycle(old, prev, c, now))
           /\ \A id \in Connectors :
                (/\ c[id] # Absent
                 /\ old[id] = Absent \/ KeepsRecord(old[id], prev[id], c[id]))
                => NewestIs(SyncLifecycle(old, prev, c, now)[id].revs, c[id])
<1> DEFINE l == SyncLifecycle(old, prev, c, now)
<1>1. \A id \in Connectors : l[id] = IF c[id] = Absent THEN Absent ELSE SyncOne(old[id], prev[id], c[id], now)
  BY DEF SyncLifecycle
<1>2. l = [id \in Connectors |-> l[id]]
  BY DEF SyncLifecycle
<1> HIDE DEF l
<1>3. ASSUME NEW id \in Connectors, c[id] # Absent
      PROVE  /\ l[id] \in KnownLife(now) /\ l[id].fp = c[id]
             /\ l[id].ver = c[id].ver /\ l[id].on = c[id].on
             /\ old[id] = Absent => NewestIs(l[id].revs, c[id])
             /\ old[id] # Absent /\ KeepsRecord(old[id], prev[id], c[id]) => NewestIs(l[id].revs, c[id])
  <2>1. old[id] \in KnownLife(now) \cup {Absent}
    BY DEF KnownLives
  <2>2. prev[id] \in ConnManifest \cup {Absent} /\ c[id] \in ConnManifest
    BY <1>3 DEF Conf
  <2>3. l[id] = SyncOne(old[id], prev[id], c[id], now)
    BY <1>1, <1>3
  <2> DEFINE o == old[id]
             p == prev[id]
             m == c[id]
             z == SyncOne(o, p, m, now)
  <2> HIDE DEF o, p, m
  <2>4. o \in KnownLife(now) \cup {Absent} /\ p \in ConnManifest \cup {Absent} /\ m \in ConnManifest
    BY <2>1, <2>2 DEF o, p, m
  <2>5. /\ z \in KnownLife(now) /\ z.fp = m /\ z.ver = m.ver /\ z.on = m.on
        /\ o = Absent => NewestIs(z.revs, m)
        /\ o # Absent /\ KeepsRecord(o, p, m) => NewestIs(z.revs, m)
    BY <2>4, DerivedLife
  <2>6. z = l[id]
    BY <2>3 DEF o, p, m
  <2> HIDE DEF z
  <2> QED
    BY <2>5, <2>6 DEF o, p, m
<1>4. l \in KnownLives(now)
  <2>1. \A id \in Connectors : l[id] \in KnownLife(now) \cup {Absent}
    BY <1>1, <1>3
  <2> QED
    BY <1>2, <2>1 DEF KnownLives
<1>5. Tracks(c, l)
  <2>1. \A id \in Connectors : c[id] # Absent => l[id] # Absent
    BY <1>3, LifeFields
  <2> QED
    BY <1>1, <1>3, <2>1 DEF Tracks
<1> QED
  BY <1>3, <1>4, <1>5 DEF l

\* A record of a connector's health leaves the rest of its lifecycle as it was.
LEMMA HealthRecorded ==
    ASSUME NEW now, NEW l \in KnownLives(now), NEW id \in Connectors, l[id] # Absent, NEW h \in Health
    PROVE  LET n == [l EXCEPT ![id].health = h] IN
           /\ n \in KnownLives(now)
           /\ \A c : Tracks(c, l) => Tracks(c, n)
           /\ \A c, un : Newest(c, l, un) => Newest(c, n, un)
<1> DEFINE n == [l EXCEPT ![id].health = h]
           z == [l[id] EXCEPT !.health = h]
<1>1. l[id] \in KnownLife(now) /\ l[id] \in Lifecycle /\ l[id].revs \in Seq(KnownRevision(now)) /\ Len(l[id].revs) \in 1..MaxRevs
  <2>1. l[id] \in KnownLife(now)
    BY DEF KnownLives
  <2> QED
    BY <2>1, LifeFields
<1>2. z \in KnownLife(now) /\ z.fp = l[id].fp /\ z.ver = l[id].ver /\ z.on = l[id].on /\ z.revs = l[id].revs
  <2>1. /\ z \in Lifecycle /\ z.fp = l[id].fp /\ z.ver = l[id].ver /\ z.on = l[id].on
        /\ z.revs = l[id].revs
    BY <1>1 DEF Lifecycle
  <2> HIDE DEF z
  <2> QED
    BY <1>1, <2>1 DEF KnownLife
<1>4. n = [l EXCEPT ![id] = z]
  OBVIOUS
<1>5. z # Absent
  BY <1>2, LifeFields
<1> HIDE DEF z, n
<1>6. /\ n \in KnownLives(now) /\ n[id] = z
      /\ \A i \in Connectors : i # id => n[i] = l[i]
  BY <1>2, <1>4 DEF KnownLives
<1>7. \A c : Tracks(c, l) => Tracks(c, n)
  BY <1>2, <1>5, <1>6 DEF Tracks
<1>8. \A c, un : Newest(c, l, un) => Newest(c, n, un)
  BY <1>2, <1>5, <1>6 DEF Newest
<1> QED
  BY <1>6, <1>7, <1>8 DEF n

\* What holds but for some connectors holds but for more of them.
LEMMA NewestButMore ==
    ASSUME NEW c, NEW l, NEW un, NEW more, un \subseteq more, Newest(c, l, un)
    PROVE  Newest(c, l, more)
  BY DEF Newest

LEMMA FileNewestButMore ==
    ASSUME NEW l, NEW un, NEW more, un \subseteq more, FileNewest(l, un)
    PROVE  FileNewest(l, more)
  BY DEF FileNewest

\* Lifecycles of a configuration whose newest revisions are its content are so
\* in the file too.
LEMMA NewestInFile ==
    ASSUME NEW c, NEW l, NEW un, Tracks(c, l), Newest(c, l, un)
    PROVE  FileNewest(l, un)
  BY DEF FileNewest, Newest, Tracks

\* The document drops the fingerprints and nothing else.
LEMMA DocumentFacts ==
    ASSUME NEW now, NEW c \in Conf, NEW l \in KnownLives(now)
    PROVE  /\ Document(c, l) \in [cfg: Conf, life: KnownLives(now)]
           /\ Document(c, l) # Absent /\ Document(c, l).cfg = c
           /\ Tracks(c, l) => Tracks(c, Document(c, l).life)
           /\ \A un : Newest(c, l, un) => Newest(c, Document(c, l).life, un)
<1> DEFINE n == [id \in Connectors |-> IF l[id] = Absent THEN Absent ELSE [l[id] EXCEPT !.fp = Absent]]
<1>1. ASSUME NEW id \in Connectors, l[id] # Absent
      PROVE  /\ n[id] \in KnownLife(now) /\ n[id].fp = Absent /\ n[id].ver = l[id].ver
             /\ n[id].on = l[id].on /\ n[id].revs = l[id].revs
  <2> DEFINE z == [l[id] EXCEPT !.fp = Absent]
  <2>1. l[id] \in KnownLife(now)
    BY <1>1 DEF KnownLives
  <2>2. l[id] \in Lifecycle /\ l[id].revs \in Seq(KnownRevision(now)) /\ Len(l[id].revs) \in 1..MaxRevs
    BY <2>1, LifeFields
  <2>3. /\ z \in Lifecycle /\ z.fp = Absent /\ z.ver = l[id].ver /\ z.on = l[id].on
        /\ z.revs = l[id].revs
    BY <2>2 DEF Lifecycle
  <2>4. n[id] = z
    BY <1>1
  <2> HIDE DEF z, n
  <2> QED
    BY <2>2, <2>3, <2>4 DEF KnownLife
<1>2. \A id \in Connectors : l[id] = Absent => n[id] = Absent
  OBVIOUS
<1>3. n = [id \in Connectors |-> n[id]]
  OBVIOUS
<1>4. Document(c, l) = [cfg |-> c, life |-> n]
  BY DEF Document
<1> HIDE DEF n
<1>5. n \in KnownLives(now)
  <2>1. \A id \in Connectors : n[id] \in KnownLife(now) \cup {Absent}
    BY <1>1, <1>2
  <2> QED
    BY <1>3, <2>1 DEF KnownLives
<1>6. n \in Lives
  BY <1>5 DEF KnownLives, KnownLife, Lives
<1>7. Document(c, l) \in [cfg: Conf, life: Lives]
  BY <1>4, <1>6
<1>8. Document(c, l) # Absent
  BY <1>7, ConnectorsAssumption
<1>9. \A id \in Connectors : l[id] # Absent => n[id] # Absent
  BY <1>1, LifeFields
<1>10. Tracks(c, l) => Tracks(c, n)
  BY <1>1, <1>2, <1>9 DEF Tracks
<1>11. \A un : Newest(c, l, un) => Newest(c, n, un)
  BY <1>1, <1>2 DEF Newest
<1> QED
  BY <1>4, <1>5, <1>8, <1>10, <1>11

\* The manifests of a request: what an administrator's request may begin with.
LEMMA ConnRequests ==
    ASSUME ConnTypes, AdminRequest
    PROVE  \E op \in {"save", "upgrade", "rollback"}, id \in Connectors, c \in Conf :
              /\ BeginRequest(op, id, c)
              /\ op # "save" => c[id] # Absent
              /\ \A i \in Connectors : i # id => c[i] = conn[i]
<1> USE DEF ConnTypes
<1>0. conn \in Conf /\ life \in KnownLives(saves)
  BY DEF StoreTypes
<1>1. ASSUME NEW id \in Connectors, NEW m \in ConnManifest \cup {Absent}
      PROVE  /\ [conn EXCEPT ![id] = m] \in Conf /\ [conn EXCEPT ![id] = m][id] = m
             /\ \A i \in Connectors : i # id => [conn EXCEPT ![id] = m][i] = conn[i]
  BY <1>0, <1>1 DEF Conf
<1>2. CASE SaveConfig
  <2>1. PICK id \in Connectors : BeginRequest("save", id, [conn EXCEPT ![id] = Absent])
    BY <1>2 DEF SaveConfig
  <2> DEFINE c == [conn EXCEPT ![id] = Absent]
  <2>2. c \in Conf /\ BeginRequest("save", id, c) /\ \A i \in Connectors : i # id => c[i] = conn[i]
    BY <1>1, <2>1
  <2> HIDE DEF c
  <2> QED
    BY <2>2
<1>3. ASSUME NEW id \in Connectors, NEW m \in Offered, UpsertConnector(id, m) \/ Upgrade(id, m)
      PROVE  \E op \in {"save", "upgrade"} : BeginRequest(op, id, [conn EXCEPT ![id] = m])
  BY <1>3 DEF UpsertConnector, Upgrade
<1>4. ASSUME NEW id \in Connectors, NEW on \in BOOLEAN, SetConnectorEnabled(id, on)
      PROVE  \E m \in ConnManifest : BeginRequest("save", id, [conn EXCEPT ![id] = m])
  <2> DEFINE m == [conn[id] EXCEPT !.on = on]
  <2>1. conn[id] \in ConnManifest
    BY <1>0, <1>4 DEF SetConnectorEnabled, Conf
  <2>2. m \in ConnManifest
    BY <2>1 DEF ConnManifest
  <2>3. BeginRequest("save", id, [conn EXCEPT ![id] = m])
    BY <1>4 DEF SetConnectorEnabled
  <2> HIDE DEF m
  <2> QED
    BY <2>2, <2>3
<1>5. ASSUME NEW id \in Connectors, NEW ver \in Versions, Rollback(id, ver)
      PROVE  \E m \in ConnManifest : BeginRequest("rollback", id, [conn EXCEPT ![id] = m])
  <2>1. RollbackTarget(id, ver) \in ConnManifest
    BY <1>0, <1>5, RollbackToManifest DEF Rollback
  <2>2. BeginRequest("rollback", id, [conn EXCEPT ![id] = RollbackTarget(id, ver)])
    BY <1>5 DEF Rollback
  <2> QED
    BY <2>1, <2>2
<1>6. Absent \notin ConnManifest /\ Offered \subseteq ConnManifest
  BY ConnectorsAssumption
<1>7. ASSUME NEW op \in {"save", "upgrade", "rollback"}, NEW id \in Connectors, NEW m \in ConnManifest,
             BeginRequest(op, id, [conn EXCEPT ![id] = m])
      PROVE  \E o \in {"save", "upgrade", "rollback"}, j \in Connectors, c \in Conf :
                /\ BeginRequest(o, j, c)
                /\ o # "save" => c[j] # Absent
                /\ \A i \in Connectors : i # j => c[i] = conn[i]
  <2> DEFINE c == [conn EXCEPT ![id] = m]
  <2>1. c \in Conf /\ c[id] # Absent /\ \A i \in Connectors : i # id => c[i] = conn[i]
    BY <1>1, <1>6
  <2>2. BeginRequest(op, id, c)
    BY <1>7
  <2> HIDE DEF c
  <2> QED
    BY <2>1, <2>2
<1>8. CASE \E id \in Connectors, m \in Offered : UpsertConnector(id, m) \/ Upgrade(id, m)
  <2>1. PICK id \in Connectors, m \in Offered : UpsertConnector(id, m) \/ Upgrade(id, m)
    BY <1>8
  <2>2. PICK op \in {"save", "upgrade"} : BeginRequest(op, id, [conn EXCEPT ![id] = m])
    BY <1>3, <2>1
  <2>3. m \in ConnManifest /\ op \in {"save", "upgrade", "rollback"}
    BY <1>6, <2>2
  <2> QED
    BY <1>7, <2>2, <2>3
<1>9. CASE \E id \in Connectors, on \in BOOLEAN : SetConnectorEnabled(id, on)
  <2>1. PICK id \in Connectors, on \in BOOLEAN : SetConnectorEnabled(id, on)
    BY <1>9
  <2>2. PICK m \in ConnManifest : BeginRequest("save", id, [conn EXCEPT ![id] = m])
    BY <1>4, <2>1
  <2> QED
    BY <1>7, <2>2
<1>10. CASE \E id \in Connectors, ver \in Versions : Rollback(id, ver)
  <2>1. PICK id \in Connectors, ver \in Versions : Rollback(id, ver)
    BY <1>10
  <2>2. PICK m \in ConnManifest : BeginRequest("rollback", id, [conn EXCEPT ![id] = m])
    BY <1>5, <2>1
  <2> QED
    BY <1>7, <2>2
<1> QED
  BY <1>2, <1>8, <1>9, <1>10 DEF AdminRequest

LEMMA ConnRequestTypes ==
    ASSUME ConnTypes, NEW op \in {"save", "upgrade", "rollback"}, NEW id \in Connectors, NEW c \in Conf,
           BeginRequest(op, id, c), op # "save" => c[id] # Absent
    PROVE  ConnTypes'
<1> USE DEF ConnTypes, BeginRequest
<1>1. saves \in Nat /\ saves' = saves + 1 /\ saves' \in 0..MaxSaves
  BY ConnectorsAssumption DEF StoreTypes
<1>2. /\ KnownLives(saves) \subseteq KnownLives(saves')
      /\ AdminRecord(saves) \subseteq AdminRecord(saves') /\ CallRecord(saves) \subseteq CallRecord(saves')
  BY <1>1, KnownLater
<1>3. StoreTypes'
  <2>1. c[id] \in ConnManifest \cup {Absent}
    BY DEF Conf
  <2>2. legit' \in [Connectors -> SUBSET (ConnManifest \cup {Absent})]
    BY <2>1 DEF StoreTypes
  <2> QED
    BY <1>1, <1>2, <2>2 DEF StoreTypes
<1>4. AdminTypes'
  <2>1. IdleAdmin \in AdminRecord(saves')
    BY <1>1, ConnConstants
  <2>2. adm' \in AdminRecord(saves') /\ adm'.pc = "sync" /\ adm'.op = op /\ adm'.id = id /\ adm'.cfg = c
    BY <2>1 DEF AdminRecord
  <2> QED
    BY <2>2 DEF AdminTypes
<1>5. CallTypes'
  BY <1>2 DEF CallTypes
<1> QED
  BY <1>3, <1>4, <1>5

\* The lifecycle an upgrade or a rollback will put is the one it read, with the
\* pending probe and the revision of a rollback.
LEMMA LifecycleRead ==
    ASSUME ConnTypes, ReadLifecycle
    PROVE  LET m == adm.cfg[adm.id] found == life[adm.id] IN
           /\ adm' = [adm EXCEPT !.pc = "put", !.one = adm'.one]
           /\ adm.pc = "read" /\ adm.id \in Connectors /\ found # Absent
           /\ adm'.one \in KnownLife(saves)
           /\ adm'.one.fp = found.fp /\ adm'.one.ver = found.ver /\ adm'.one.on = found.on
           /\ NewestIs(found.revs, m) => NewestIs(adm'.one.revs, m)
<1> DEFINE m == adm.cfg[adm.id]
           found == life[adm.id]
           pruned == PruneRevision(found.revs, m)
           revs == IF adm.op = "upgrade" THEN found.revs ELSE AppendRevision(pruned, m, "rollback", saves)
           one == [found EXCEPT !.health = PendingProbe(m), !.revs = revs]
<1>1. adm.pc = "read" /\ adm.id \in Connectors /\ found # Absent /\ adm \in AdminRecord(saves)
  BY DEF ConnTypes, ReadLifecycle, AdminTypes
<1>2. found \in KnownLife(saves) /\ saves \in 0..MaxSaves
  BY <1>1 DEF ConnTypes, StoreTypes, KnownLives
<1>3. adm' = [adm EXCEPT !.pc = "put", !.one = one]
  <2>1. [found EXCEPT !.health = PendingProbe(m),
           !.revs = IF adm.op = "upgrade" THEN @ ELSE AppendRevision(PruneRevision(@, m), m, "rollback", saves)] = one
    OBVIOUS
  <2> QED
    BY <2>1 DEF ReadLifecycle
<1>4. m \in ConnManifest
  BY <1>1 DEF ConnTypes, AdminTypes, AdminRecord, Conf
<1>5. found.revs \in Seq(KnownRevision(saves)) /\ Len(found.revs) \in 1..MaxRevs /\ Len(found.revs) <= MaxRevs
  BY <1>2, LifeFields, ConnectorsAssumption
<1> HIDE DEF m, found
<1>6. pruned \in Seq(KnownRevision(saves)) /\ Len(pruned) <= MaxRevs
  BY <1>5, PrunedRevisions
<1> HIDE DEF pruned
<1>7. /\ AppendRevision(pruned, m, "rollback", saves) \in Seq(KnownRevision(saves))
      /\ Len(AppendRevision(pruned, m, "rollback", saves)) \in 1..MaxRevs
      /\ NewestIs(AppendRevision(pruned, m, "rollback", saves), m)
  BY <1>2, <1>4, <1>6, RecordedRevision
<1>8. /\ revs \in Seq(KnownRevision(saves)) /\ Len(revs) \in 1..MaxRevs
      /\ NewestIs(found.revs, m) => NewestIs(revs, m)
  BY <1>5, <1>7
<1> HIDE DEF revs
<1>9. PendingProbe(m) \in Health
  BY <1>4, HealthOfManifest
<1>10. one \in KnownLife(saves) /\ one.fp = found.fp /\ one.ver = found.ver /\ one.on = found.on /\ one.revs = revs
  <2>1. found \in Lifecycle
    BY <1>2, LifeFields
  <2>2. revs \in Seq(Revision)
    <3>1. KnownRevision(saves) \subseteq Revision
      BY DEF KnownRevision
    <3> QED
      BY <1>8, <3>1
  <2>3. one \in Lifecycle /\ one.fp = found.fp /\ one.ver = found.ver /\ one.on = found.on /\ one.revs = revs
    BY <1>9, <2>1, <2>2 DEF Lifecycle
  <2> HIDE DEF one
  <2> QED
    BY <1>8, <2>3 DEF KnownLife
<1> HIDE DEF one
<1>11. adm'.one = one
  BY <1>1, <1>3 DEF AdminRecord
<1> QED
  BY <1>1, <1>3, <1>8, <1>10, <1>11 DEF m, found

LEMMA AdminStepTypes ==
    ASSUME ConnTypes, AdminStep
    PROVE  ConnTypes'
<1> USE DEF ConnTypes
<1>0. saves \in Nat /\ saves \in 0..MaxSaves /\ adm \in AdminRecord(saves)
  BY ConnectorsAssumption DEF StoreTypes, AdminTypes
<1>f. IdleAdmin \in AdminRecord(saves) /\ IdleAdmin.pc = "idle" /\ IdleAdmin.op = "save"
  BY <1>0, ConnConstants
<1>a. /\ adm.pc \in {"idle", "sync", "file", "state", "swap", "persist", "read", "put", "put_file", "put_doc"}
      /\ adm.op \in {"save", "upgrade", "rollback"}
      /\ adm.cfg \in Conf /\ adm.life \in KnownLives(saves) /\ adm.one \in KnownLife(saves) \cup {Absent}
  BY <1>0 DEF AdminRecord
<1>m. ASSUME saves' = saves, NEW pc \in {"file", "state", "swap", "persist", "read", "put_file", "put_doc"}, Step(pc),
             pc \in {"put_file", "put_doc"} => adm.pc \in {"put", "put_file"},
             pc = "read" => adm.op # "save", adm.pc # "idle", pc \notin {"put_file", "put_doc"} => adm.pc \notin {"put_file", "put_doc"}
      PROVE  AdminTypes'
  <2>1. adm' \in AdminRecord(saves') /\ adm'.pc = pc /\ adm'.op = adm.op /\ adm'.id = adm.id /\ adm'.cfg = adm.cfg
    BY <1>0, <1>m DEF AdminRecord, Step
  <2> QED
    BY <1>m, <2>1 DEF AdminTypes
<1>e. ASSUME saves' = saves, Fail PROVE AdminTypes'
  BY <1>e, <1>f DEF AdminTypes, Fail
<1>1. CASE SyncState
  <2> DEFINE l == SyncLifecycle(life, conn, adm.cfg, saves)
  <2>1. l \in KnownLives(saves)
    BY <1>0, <1>a, DerivedLives DEF StoreTypes
  <2>2. adm' \in AdminRecord(saves) /\ adm'.pc \in {"file", "swap"} /\ adm'.op = adm.op /\ adm'.id = adm.id /\ adm'.cfg = adm.cfg
    <3> HIDE DEF l
    <3>1. adm' = [adm EXCEPT !.pc = IF useFile THEN "file" ELSE "swap", !.life = l]
      BY <1>1 DEF SyncState, l
    <3> QED
      BY <1>0, <2>1, <3>1 DEF AdminRecord
  <2>3. AdminTypes'
    BY <1>1, <2>2 DEF SyncState, AdminTypes
  <2> QED
    BY <1>1, <2>3 DEF SyncState, StoreTypes, CallTypes
<1>2. CASE WriteConnFile
  <2>1. StoreTypes' /\ CallTypes'
    BY <1>2, <1>a DEF WriteConnFile, StoreTypes, CallTypes
  <2>2. AdminTypes'
    BY <1>2, <1>m, <1>e DEF WriteConnFile
  <2> QED
    BY <2>1, <2>2
<1>3. CASE WriteLifeFile
  <2>1. StoreTypes' /\ CallTypes'
    BY <1>3, <1>a DEF WriteLifeFile, StoreTypes, CallTypes
  <2>2. AdminTypes'
    BY <1>3, <1>m, <1>e DEF WriteLifeFile
  <2> QED
    BY <2>1, <2>2
<1>4. CASE SwapBoth
  <2>1. StoreTypes' /\ CallTypes'
    BY <1>4, <1>a DEF SwapBoth, StoreTypes, CallTypes
  <2>2. AdminTypes'
    BY <1>4, <1>m DEF SwapBoth
  <2> QED
    BY <2>1, <2>2
<1>k. ASSUME Acked, adm.pc # "idle" PROVE legit' \in [Connectors -> SUBSET (ConnManifest \cup {Absent})]
  BY <1>k DEF Acked, StoreTypes, AdminTypes, Conf
<1>5. CASE PersistBoth
  <2>1. StoreTypes'
    <3>1. legit' \in [Connectors -> SUBSET (ConnManifest \cup {Absent})]
      <4>1. Acked \/ legit' = legit
        BY <1>5 DEF PersistBoth
      <4> QED
        BY <1>5, <1>k, <4>1 DEF PersistBoth, StoreTypes
    <3>2. connDoc' \in {connDoc, Document(adm.cfg, adm.life)}
      BY <1>5 DEF PersistBoth
    <3>3. Document(adm.cfg, adm.life) \in [cfg: Conf, life: KnownLives(saves)]
      BY <1>a, DocumentFacts
    <3> QED
      BY <1>5, <1>a, <3>1, <3>2, <3>3 DEF PersistBoth, StoreTypes
  <2>2. AdminTypes'
    <3>1. Fail \/ (Step("read") /\ adm.op # "save")
      BY <1>5 DEF PersistBoth, Fail
    <3> QED
      BY <1>5, <1>m, <1>e, <3>1 DEF PersistBoth
  <2>3. CallTypes'
    BY <1>5 DEF PersistBoth, CallTypes
  <2> QED
    BY <2>1, <2>2, <2>3
<1>6. CASE ReadLifecycle
  <2>1. /\ adm' = [adm EXCEPT !.pc = "put", !.one = adm'.one] /\ adm.pc = "read"
        /\ adm'.one \in KnownLife(saves) /\ adm'.one # Absent
    BY <1>6, LifecycleRead, LifeFields
  <2>5. adm' \in AdminRecord(saves) /\ adm'.pc = "put" /\ adm'.op = adm.op /\ adm'.id = adm.id /\ adm'.cfg = adm.cfg
    BY <1>0, <2>1 DEF AdminRecord
  <2>6. AdminTypes'
    BY <1>6, <2>1, <2>5 DEF ReadLifecycle, AdminTypes
  <2> QED
    BY <1>6, <2>6 DEF ReadLifecycle, StoreTypes, CallTypes
<1>7. CASE PutLifecycle
  <2>1. life' = [life EXCEPT ![adm.id] = adm.one] /\ adm.pc = "put" /\ adm.id \in Connectors
    BY <1>7 DEF PutLifecycle, AdminTypes
  <2>2. life' \in KnownLives(saves) /\ conn \in Conf
    BY <1>a, <2>1 DEF StoreTypes, KnownLives
  <2>3. adm' \in AdminRecord(saves) /\ adm'.pc = "put_file" /\ adm'.id = adm.id
    BY <1>0, <1>7, <2>2 DEF PutLifecycle, AdminRecord
  <2> QED
    BY <1>7, <2>1, <2>2, <2>3 DEF PutLifecycle, StoreTypes, AdminTypes, CallTypes
<1>8. CASE PutLifeFile
  <2>1. StoreTypes' /\ CallTypes'
    BY <1>8, <1>a DEF PutLifeFile, StoreTypes, CallTypes
  <2>2. AdminTypes'
    BY <1>8, <1>m, <1>e DEF PutLifeFile
  <2> QED
    BY <2>1, <2>2
<1>9. CASE PutDocument
  <2>1. StoreTypes'
    <3>1. legit' \in [Connectors -> SUBSET (ConnManifest \cup {Absent})]
      <4>1. Acked \/ legit' = legit
        BY <1>9 DEF PutDocument
      <4> QED
        BY <1>9, <1>k, <4>1 DEF PutDocument, StoreTypes
    <3>2. connDoc' \in {connDoc, Document(adm.cfg, adm.life)}
      BY <1>9 DEF PutDocument
    <3>3. Document(adm.cfg, adm.life) \in [cfg: Conf, life: KnownLives(saves)]
      BY <1>a, DocumentFacts
    <3> QED
      BY <1>9, <1>a, <3>1, <3>2, <3>3 DEF PutDocument, StoreTypes
  <2>2. AdminTypes'
    BY <1>9, <1>e DEF PutDocument
  <2>3. CallTypes'
    BY <1>9 DEF PutDocument, CallTypes
  <2> QED
    BY <2>1, <2>2, <2>3
<1> QED
  BY <1>1, <1>2, <1>3, <1>4, <1>5, <1>6, <1>7, <1>8, <1>9 DEF AdminStep

LEMMA CallStepTypes ==
    ASSUME ConnTypes, NEW k \in Calls, CallStep(k)
    PROVE  ConnTypes'
<1> USE DEF ConnTypes
<1>0. /\ saves \in Nat /\ call[k] \in CallRecord(saves) /\ IdleCall \in CallRecord(saves) /\ IdleCall.pc = "idle"
      /\ call[k].life \in KnownLives(saves) /\ call[k].cfg \in Conf /\ conn \in Conf
  <2>1. saves \in Nat /\ call[k] \in CallRecord(saves) /\ conn \in Conf
    BY ConnectorsAssumption DEF StoreTypes, CallTypes
  <2> QED
    BY <2>1, ConnConstants DEF CallRecord
<1>1. ASSUME saves' = saves, NEW r \in CallRecord(saves), r.pc # "idle" => r.id \in Connectors,
             call' = [call EXCEPT ![k] = r]
      PROVE  CallTypes'
  BY <1>1 DEF CallTypes
<1>2. ASSUME NEW id \in Connectors, Start(k, id) PROVE ConnTypes'
  <2> DEFINE r == [IdleCall EXCEPT !.pc = "run", !.id = id]
  <2>1. r \in CallRecord(saves) /\ r.id = id
    BY <1>0 DEF CallRecord
  <2>2. CallTypes'
    <3> HIDE DEF r
    <3>1. call' = [call EXCEPT ![k] = r] /\ saves' = saves
      BY <1>2 DEF Start, r
    <3> QED
      BY <1>1, <2>1, <3>1
  <2> QED
    BY <1>2, <2>2 DEF Start, StoreTypes, AdminTypes
<1>3. ASSUME NEW status \in {"healthy", "unhealthy"}, RecordHealth(k, status) PROVE ConnTypes'
  <2> DEFINE id == call[k].id
             h == [status |-> status, live |-> TRUE]
  <2>1. id \in Connectors /\ call[k].pc = "run"
    BY <1>3 DEF RecordHealth, CallTypes
  <2>2. CASE life[id] = Absent
    <3>1. CallTypes'
      BY <1>0, <1>1, <1>3, <2>2 DEF RecordHealth
    <3> QED
      BY <1>3, <2>2, <3>1 DEF RecordHealth, StoreTypes, AdminTypes
  <2>3. CASE life[id] # Absent
    <3>1. h \in Health /\ life' = [life EXCEPT ![id].health = h]
      BY <1>3, <2>3 DEF RecordHealth, Health, Healths
    <3> HIDE DEF h, id
    <3>2. life' \in KnownLives(saves)
      BY <2>1, <2>3, <3>1, HealthRecorded DEF StoreTypes
    <3> DEFINE r == [call[k] EXCEPT !.pc = "copy", !.life = life']
    <3>3. r \in CallRecord(saves) /\ r.id = id
      BY <1>0, <3>2 DEF CallRecord, id
    <3>4. call' = [call EXCEPT ![k] = r] /\ saves' = saves
      <4>1. call' = [call EXCEPT ![k].pc = "copy", ![k].life = life'] /\ saves' = saves
        BY <1>3, <2>3 DEF RecordHealth, id
      <4> QED
        BY <4>1 DEF CallTypes
    <3> HIDE DEF r
    <3>5. CallTypes'
      BY <1>1, <2>1, <3>3, <3>4
    <3> QED
      BY <1>3, <3>2, <3>5 DEF RecordHealth, StoreTypes, AdminTypes
  <2> QED
    BY <2>2, <2>3
<1>4. CASE HealthFile(k)
  <2>1. StoreTypes' /\ AdminTypes'
    BY <1>0, <1>4 DEF HealthFile, StoreTypes, AdminTypes
  <2> DEFINE r == [call[k] EXCEPT !.pc = "store", !.cfg = conn]
  <2>2. r \in CallRecord(saves) /\ r.id = call[k].id
    BY <1>0 DEF CallRecord
  <2>3. saves' = saves /\ call[k].pc = "copy" /\ (call' = [call EXCEPT ![k] = r] \/ call' = [call EXCEPT ![k] = IdleCall])
    <3>1. saves' = saves /\ call[k].pc = "copy"
          /\ (call' = [call EXCEPT ![k].pc = "store", ![k].cfg = conn] \/ call' = [call EXCEPT ![k] = IdleCall])
      BY <1>4 DEF HealthFile
    <3> QED
      BY <3>1 DEF CallTypes
  <2>4. r.pc # "idle" => r.id \in Connectors
    BY <2>2, <2>3 DEF CallTypes
  <2> HIDE DEF r
  <2>5. CallTypes'
    BY <1>0, <1>1, <2>2, <2>3, <2>4
  <2> QED
    BY <2>1, <2>5
<1>5. CASE HealthDocument(k)
  <2>1. StoreTypes' /\ AdminTypes'
    <3>1. Document(call[k].cfg, call[k].life) \in [cfg: Conf, life: KnownLives(saves)]
      BY <1>0, DocumentFacts
    <3> QED
      BY <1>0, <1>5, <3>1 DEF HealthDocument, StoreTypes, AdminTypes
  <2>2. CallTypes'
    BY <1>0, <1>1, <1>5 DEF HealthDocument
  <2> QED
    BY <2>1, <2>2
<1> QED
  BY <1>2, <1>3, <1>4, <1>5 DEF CallStep, CheckConnectorHealth, UseSelected

\* What a boot puts into memory is a configuration with its lifecycles.
LEMMA BootedFacts ==
    ASSUME ConnTypes
    PROVE  /\ Booted.cfg \in Conf /\ Booted.life \in KnownLives(saves)
           /\ Booted.cfg = IF connDoc = Absent THEN connFile ELSE connDoc.cfg
           /\ IF connDoc = Absent THEN Booted.life = SyncLifecycle(lifeFile, NoConnectors, connFile, saves)
              ELSE \/ Booted.life = connDoc.life
                   \/ /\ \A id \in Connectors : connDoc.life[id] = Absent
                      /\ Booted.life = SyncLifecycle(connDoc.life, NoConnectors, connDoc.cfg, saves)
<1>0. /\ saves \in 0..MaxSaves /\ saves \in Nat /\ connFile \in Conf /\ lifeFile \in KnownLives(saves)
      /\ connDoc # Absent => connDoc.cfg \in Conf /\ connDoc.life \in KnownLives(saves)
  BY ConnectorsAssumption DEF ConnTypes, StoreTypes
<1>1. NoConnectors \in Conf
  BY <1>0, ConnConstants
<1> DEFINE fl == SyncLifecycle(lifeFile, NoConnectors, connFile, saves)
           dl == SyncLifecycle(connDoc.life, NoConnectors, connDoc.cfg, saves)
<1>2. fl \in KnownLives(saves) /\ (connDoc # Absent => dl \in KnownLives(saves))
  BY <1>0, <1>1, DerivedLives
<1>3. Booted = IF connDoc = Absent THEN [cfg |-> connFile, life |-> fl]
               ELSE IF Installed(connDoc.life) = {} THEN [cfg |-> connDoc.cfg, life |-> dl] ELSE connDoc
  BY DEF Booted
<1>4. Installed(connDoc.life) = {} => \A id \in Connectors : connDoc.life[id] = Absent
  BY DEF Installed
<1> HIDE DEF fl, dl
<1>5. /\ Booted.cfg \in Conf /\ Booted.life \in KnownLives(saves)
      /\ Booted.cfg = IF connDoc = Absent THEN connFile ELSE connDoc.cfg
      /\ IF connDoc = Absent THEN Booted.life = fl
         ELSE Booted.life = connDoc.life \/ ((\A id \in Connectors : connDoc.life[id] = Absent) /\ Booted.life = dl)
  BY <1>0, <1>2, <1>3, <1>4
<1> QED
  BY <1>5 DEF fl, dl

LEMMA ConnTypesStep == ConnTypes /\ [ConnNext]_connVars => ConnTypes'
<1> SUFFICES ASSUME ConnTypes, [ConnNext]_connVars PROVE ConnTypes'
  OBVIOUS
<1>0. saves \in Nat /\ IdleCall \in CallRecord(saves) /\ IdleCall.pc = "idle"
      /\ IdleAdmin \in AdminRecord(saves) /\ IdleAdmin.pc = "idle" /\ IdleAdmin.op = "save"
  <2>1. saves \in Nat
    BY ConnectorsAssumption DEF ConnTypes, StoreTypes
  <2> QED
    BY <2>1, ConnConstants
<1>1. CASE AdminRequest
  <2>1. PICK op \in {"save", "upgrade", "rollback"}, id \in Connectors, c \in Conf :
           BeginRequest(op, id, c) /\ (op # "save" => c[id] # Absent)
    BY <1>1, ConnRequests
  <2> QED
    BY <2>1, ConnRequestTypes
<1>2. CASE AdminStep
  BY <1>2, AdminStepTypes
<1>3. CASE \E k \in Calls : CallStep(k)
  BY <1>3, CallStepTypes
<1>4. CASE ConnCrash
  BY <1>0, <1>4 DEF ConnCrash, ConnTypes, StoreTypes, AdminTypes, CallTypes
<1>5. CASE ConnBoot
  BY <1>5, BootedFacts DEF ConnBoot, ConnTypes, StoreTypes, AdminTypes, CallTypes
<1>6. CASE UNCHANGED connVars
  BY <1>6 DEF connVars, ConnTypes, StoreTypes, AdminTypes, CallTypes
<1> QED
  BY <1>1, <1>2, <1>3, <1>4, <1>5, <1>6 DEF ConnNext

-----------------------------------------------------------------------------
(* The configurations, lifecycles and revisions agree.                     *)

\* A request adds what it asks for to what its connector may be.
LEMMA ConnRequestKept ==
    ASSUME ConnTypes, KeptNow, AdminRequest
    PROVE  KeptNow'
<1>1. PICK op \in {"save", "upgrade", "rollback"}, id \in Connectors, c \in Conf :
         /\ BeginRequest(op, id, c)
         /\ \A i \in Connectors : i # id => c[i] = conn[i]
  BY ConnRequests
<1>2. /\ UNCHANGED <<conn, life, connFile, lifeFile, connDoc, call, untracked>>
      /\ legit' = [legit EXCEPT ![id] = @ \cup {c[id]}]
      /\ adm' = [IdleAdmin EXCEPT !.pc = "sync", !.op = op, !.id = id, !.cfg = c]
  BY <1>1 DEF BeginRequest
<1>3. adm'.pc = "sync" /\ adm'.cfg = c
  BY <1>2 DEF IdleAdmin
<1>4. \A i \in Connectors : legit[i] \subseteq legit'[i] /\ c[id] \in legit'[id]
  BY <1>2 DEF ConnTypes, StoreTypes
<1>5. \A d : Allowed(d, legit) => Allowed(d, legit')
  BY <1>4 DEF Allowed
<1>6. Allowed(c, legit')
  BY <1>1, <1>4 DEF KeptNow, ConnStoresKept, Allowed
<1>7. ConnStoresKept'
  BY <1>2, <1>5 DEF KeptNow, ConnStoresKept
<1>8. AdminKept(adm', conn', untracked', legit')
  BY <1>3, <1>6 DEF AdminKept
<1> QED
  BY <1>2, <1>7, <1>8 DEF KeptNow

\* Deriving the lifecycles: a change that is not recorded is untracked from then on.
LEMMA SyncStateKept ==
    ASSUME ConnTypes, KeptNow, SyncState
    PROVE  KeptNow'
<1> DEFINE l == SyncLifecycle(life, conn, adm.cfg, saves)
           c == adm.cfg
           lost == {id \in Installed(adm.cfg) \cap Installed(conn) :
                       /\ conn[id].ver = adm.cfg[id].ver
                       /\ conn[id].body # adm.cfg[id].body
                       /\ \/ conn[id].on # adm.cfg[id].on
                          \/ life[id] # Absent /\ life[id].fp = Absent}
<1>1. /\ UNCHANGED <<conn, life, connFile, lifeFile, connDoc, call, legit>>
      /\ adm.pc = "sync" /\ untracked' = untracked \cup lost
      /\ adm' = [adm EXCEPT !.pc = IF useFile THEN "file" ELSE "swap", !.life = l]
  BY DEF SyncState
<1>2. saves \in 0..MaxSaves /\ conn \in Conf /\ c \in Conf /\ life \in KnownLives(saves)
  BY DEF ConnTypes, StoreTypes, AdminTypes, AdminRecord
<1>3. adm'.pc \in {"file", "swap"} /\ adm'.cfg = c /\ adm'.life = l
  <2> HIDE DEF l
  <2> QED
    BY <1>1 DEF ConnTypes, AdminTypes, AdminRecord
<1>4. Tracks(c, l)
  BY <1>2, DerivedLives
<1>5. Newest(c, l, untracked')
  <2> SUFFICES ASSUME NEW id \in Connectors, id \notin untracked', c[id] # Absent
               PROVE  NewestIs(l[id].revs, c[id])
    BY DEF Newest
  <2>2. id \notin untracked /\ id \notin lost
    BY <1>1
  <2>3. life[id] # Absent => /\ NewestIs(life[id].revs, conn[id])
                             /\ life[id].fp \in {conn[id], Absent} /\ conn[id] # Absent
    BY <2>2 DEF KeptNow, ConnStoresKept, Newest, Tracks
  <2>4. conn[id] # Absent /\ life[id] # Absent =>
           ~(/\ conn[id].ver = c[id].ver /\ conn[id].body # c[id].body
             /\ (conn[id].on # c[id].on \/ life[id].fp = Absent))
    BY <2>2 DEF Installed
  <2>5. life[id] # Absent => KeepsRecord(life[id], conn[id], c[id])
    <3> HIDE DEF c, lost
    <3> QED
      BY <2>3, <2>4 DEF KeepsRecord
  <2>6. c[id] # Absent /\ (life[id] = Absent \/ KeepsRecord(life[id], conn[id], c[id]))
        => NewestIs(l[id].revs, c[id])
    <3> HIDE DEF lost
    <3> QED
      BY <1>2, DerivedLives
  <2> HIDE DEF l, c, lost
  <2> QED
    BY <2>5, <2>6
<1> HIDE DEF l, c, lost
<1>6. /\ \A x, y : Newest(x, y, untracked) => Newest(x, y, untracked')
      /\ \A x : FileNewest(x, untracked) => FileNewest(x, untracked')
  BY <1>1, NewestButMore, FileNewestButMore
<1>7. ConnStoresKept'
  BY <1>1, <1>6 DEF KeptNow, ConnStoresKept
<1>8. AdminKept(adm', conn', untracked', legit')
  <2>1. Allowed(c, legit')
    BY <1>1 DEF KeptNow, AdminKept, c
  <2> QED
    BY <1>3, <1>4, <1>5, <2>1 DEF AdminKept
<1>9. ASSUME NEW k \in Calls PROVE CallKept(call'[k], conn', untracked')
  BY <1>1, <1>6 DEF KeptNow, CallKept
<1> QED
  BY <1>7, <1>8, <1>9 DEF KeptNow

\* A request that ends or goes on keeps what its stores and the calls rest on.
LEMMA AdminEnds ==
    ASSUME Fail
    PROVE  AdminKept(adm', conn', untracked', legit')
  BY DEF Fail, IdleAdmin, AdminKept

LEMMA AdminMoves ==
    ASSUME ConnTypes, NEW pc, Step(pc)
    PROVE  adm'.pc = pc /\ adm'.cfg = adm.cfg /\ adm'.life = adm.life /\ adm'.id = adm.id /\ adm'.one = adm.one
  BY DEF ConnTypes, AdminTypes, AdminRecord, Step

LEMMA WriteFilesKept ==
    ASSUME ConnTypes, KeptNow, WriteConnFile \/ WriteLifeFile
    PROVE  KeptNow'
<1>1. UNCHANGED <<conn, life, connDoc, untracked, legit, call>>
  BY DEF WriteConnFile, WriteLifeFile
<1>2. AdminKept(adm', conn', untracked', legit')
  <2>1. Fail \/ (adm.pc = "file" /\ Step("state")) \/ (adm.pc = "state" /\ Step("swap"))
    BY DEF WriteConnFile, WriteLifeFile
  <2> QED
    BY <1>1, <2>1, AdminEnds, AdminMoves DEF KeptNow, AdminKept
<1>3. ConnStoresKept'
  <2>1. /\ connFile' = connFile \/ (connFile' = adm.cfg /\ adm.pc = "file")
        /\ lifeFile' = lifeFile \/ (lifeFile' = adm.life /\ adm.pc = "state")
    BY DEF WriteConnFile, WriteLifeFile
  <2>2. Allowed(connFile, legit) => Allowed(connFile', legit')
    BY <1>1, <2>1 DEF KeptNow, AdminKept
  <2>3. FileNewest(lifeFile', untracked')
    BY <1>1, <2>1, NewestInFile DEF KeptNow, AdminKept, ConnStoresKept
  <2> QED
    BY <1>1, <2>2, <2>3 DEF KeptNow, ConnStoresKept
<1> QED
  BY <1>1, <1>2, <1>3 DEF KeptNow

\* The swap: no call may hold a copy of before.
LEMMA SwapBothKept ==
    ASSUME ConnTypes, KeptNow, SwapBoth, ~mixed'
    PROVE  KeptNow'
<1>1. /\ UNCHANGED <<connFile, lifeFile, connDoc, untracked, legit, call>>
      /\ conn' = adm.cfg /\ life' = adm.life /\ adm.pc = "swap" /\ Step("persist")
      /\ \A k \in Calls : call[k].pc \notin {"copy", "store"}
  BY DEF SwapBoth
<1>2. ConnStoresKept'
  BY <1>1 DEF KeptNow, ConnStoresKept, AdminKept
<1>3. AdminKept(adm', conn', untracked', legit')
  BY <1>1, AdminMoves DEF KeptNow, AdminKept
<1>4. \A k \in Calls : CallKept(call'[k], conn', untracked')
  BY <1>1 DEF CallKept
<1> QED
  BY <1>2, <1>3, <1>4 DEF KeptNow

\* An acknowledgement leaves a connector what it is, and the document says so.
LEMMA StoredKept ==
    ASSUME ConnTypes, KeptNow, UNCHANGED <<conn, life, connFile, lifeFile, untracked>>,
           adm.pc \in {"persist", "put_doc"},
           \/ connDoc' = Document(adm.cfg, adm.life) /\ (Acked \/ UNCHANGED legit)
           \/ UNCHANGED <<connDoc, legit>>
    PROVE  ConnStoresKept'
<1>1. CASE connDoc' = Document(adm.cfg, adm.life) /\ (Acked \/ UNCHANGED legit)
  <2>1. adm.cfg = conn /\ Tracks(adm.cfg, adm.life) /\ Newest(adm.cfg, adm.life, untracked) /\ adm.id \in Connectors
    BY DEF ConnTypes, AdminTypes, KeptNow, AdminKept
  <2>2. Allowed(conn, legit)
    BY DEF KeptNow, ConnStoresKept
  <2>3. Allowed(conn, legit')
    <3>1. CASE UNCHANGED legit
      BY <2>2, <3>1
    <3>2. CASE Acked
      BY <2>1, <2>2, <3>2 DEF Acked, Allowed, ConnTypes, StoreTypes
    <3> QED
      BY <1>1, <3>1, <3>2
  <2>4. /\ connDoc' # Absent /\ connDoc'.cfg = adm.cfg
        /\ Tracks(adm.cfg, connDoc'.life) /\ Newest(adm.cfg, connDoc'.life, untracked)
    <3>1. adm.cfg \in Conf /\ adm.life \in KnownLives(saves)
      BY DEF ConnTypes, AdminTypes, AdminRecord
    <3> DEFINE d == Document(adm.cfg, adm.life)
    <3>2. /\ d # Absent /\ d.cfg = adm.cfg
          /\ Tracks(adm.cfg, d.life) /\ Newest(adm.cfg, d.life, untracked)
      BY <2>1, <3>1, DocumentFacts
    <3>3. connDoc' = d
      BY <1>1
    <3> HIDE DEF d
    <3> QED
      BY <3>2, <3>3
  <2> QED
    BY <2>1, <2>3, <2>4 DEF KeptNow, ConnStoresKept
<1>2. CASE UNCHANGED <<connDoc, legit>>
  BY <1>2 DEF KeptNow, ConnStoresKept
<1> QED
  BY <1>1, <1>2

LEMMA PersistBothKept ==
    ASSUME ConnTypes, KeptNow, PersistBoth
    PROVE  KeptNow'
<1>1. UNCHANGED <<conn, life, connFile, lifeFile, untracked, call>> /\ adm.pc = "persist"
  BY DEF PersistBoth
<1>2. ConnStoresKept'
  <2>1. \/ connDoc' = Document(adm.cfg, adm.life) /\ (Acked \/ UNCHANGED legit)
        \/ UNCHANGED <<connDoc, legit>>
    BY DEF PersistBoth
  <2> QED
    BY <1>1, <2>1, StoredKept
<1>3. AdminKept(adm', conn', untracked', legit')
  <2>1. Fail \/ (Step("read") /\ UNCHANGED legit)
    BY DEF PersistBoth, Fail
  <2> QED
    BY <1>1, <2>1, AdminEnds, AdminMoves DEF KeptNow, AdminKept
<1> QED
  BY <1>1, <1>2, <1>3 DEF KeptNow

\* The second round of an upgrade or a rollback.
LEMMA ReadLifecycleKept ==
    ASSUME ConnTypes, KeptNow, ReadLifecycle
    PROVE  KeptNow'
<1> DEFINE id == adm.id
           one == adm'.one
<1>1. UNCHANGED <<conn, life, connFile, lifeFile, connDoc, untracked, legit, call>>
  BY DEF ReadLifecycle
<1>2. /\ adm' = [adm EXCEPT !.pc = "put", !.one = one]
      /\ adm.pc = "read" /\ id \in Connectors /\ life[id] # Absent
      /\ one.fp = life[id].fp /\ one.ver = life[id].ver /\ one.on = life[id].on
      /\ NewestIs(life[id].revs, adm.cfg[id]) => NewestIs(one.revs, adm.cfg[id])
  BY LifecycleRead
<1> HIDE DEF one
<1>3. adm'.pc = "put" /\ adm'.one = one /\ adm'.id = adm.id /\ adm'.cfg = adm.cfg
  BY <1>2 DEF ConnTypes, AdminTypes, AdminRecord
<1>4. adm.cfg = conn /\ Allowed(adm.cfg, legit)
  BY <1>2 DEF KeptNow, AdminKept
<1>5. conn[id] # Absent /\ life[id].fp \in {conn[id], Absent} /\ life[id].ver = conn[id].ver /\ life[id].on = conn[id].on
  BY <1>2 DEF KeptNow, ConnStoresKept, Tracks
<1>6. id \notin untracked => NewestIs(life[id].revs, conn[id])
  BY <1>2, <1>5 DEF KeptNow, ConnStoresKept, Newest
<1>7. AdminKept(adm', conn', untracked', legit')
  BY <1>1, <1>2, <1>3, <1>4, <1>5, <1>6 DEF AdminKept
<1>8. ConnStoresKept'
  BY <1>1 DEF KeptNow, ConnStoresKept
<1> QED
  BY <1>1, <1>7, <1>8 DEF KeptNow

LEMMA PutLifecycleKept ==
    ASSUME ConnTypes, KeptNow, PutLifecycle
    PROVE  KeptNow'
<1>1. /\ UNCHANGED <<conn, connFile, lifeFile, connDoc, untracked, legit, call>>
      /\ adm.pc = "put" /\ life' = [life EXCEPT ![adm.id] = adm.one]
      /\ adm' = [adm EXCEPT !.pc = "put_file", !.life = life', !.cfg = conn]
  BY DEF PutLifecycle
<1>2. adm.id \in Connectors /\ adm.one # Absent
  BY <1>1 DEF ConnTypes, AdminTypes
<1>3. conn[adm.id] # Absent
  BY <1>1 DEF KeptNow, AdminKept
<1>4. life'[adm.id] = adm.one /\ \A i \in Connectors : i # adm.id => life'[i] = life[i]
  BY <1>1, <1>2 DEF ConnTypes, StoreTypes, KnownLives
<1>5. Tracks(conn, life')
  BY <1>1, <1>2, <1>3, <1>4 DEF KeptNow, ConnStoresKept, AdminKept, Tracks
<1>6. Newest(conn, life', untracked)
  BY <1>1, <1>2, <1>4 DEF KeptNow, ConnStoresKept, AdminKept, Newest
<1>7. adm'.pc = "put_file" /\ adm'.life = life' /\ adm'.cfg = conn
  BY <1>1 DEF ConnTypes, AdminTypes, AdminRecord
<1>8. ConnStoresKept'
  BY <1>1, <1>5, <1>6 DEF KeptNow, ConnStoresKept
<1>9. AdminKept(adm', conn', untracked', legit')
  <2>1. Allowed(conn, legit)
    BY DEF KeptNow, ConnStoresKept
  <2> QED
    BY <1>1, <1>5, <1>6, <1>7, <2>1 DEF AdminKept
<1> QED
  BY <1>1, <1>8, <1>9 DEF KeptNow

LEMMA PutFilesKept ==
    ASSUME ConnTypes, KeptNow, PutLifeFile \/ PutDocument
    PROVE  KeptNow'
<1>1. CASE PutLifeFile
  <2>1. /\ UNCHANGED <<conn, life, connFile, connDoc, untracked, legit, call>> /\ adm.pc = "put_file"
        /\ lifeFile' \in {lifeFile, adm.life} /\ (Step("put_doc") \/ Fail)
    BY <1>1 DEF PutLifeFile
  <2>2. FileNewest(lifeFile', untracked)
    BY <2>1, NewestInFile DEF KeptNow, ConnStoresKept, AdminKept
  <2>3. ConnStoresKept'
    BY <2>1, <2>2 DEF KeptNow, ConnStoresKept
  <2>4. AdminKept(adm', conn', untracked', legit')
    BY <2>1, AdminEnds, AdminMoves DEF KeptNow, AdminKept
  <2> QED
    BY <2>1, <2>3, <2>4 DEF KeptNow
<1>2. CASE PutDocument
  <2>1. /\ UNCHANGED <<conn, life, connFile, lifeFile, untracked, call>> /\ adm.pc = "put_doc" /\ Fail
        /\ \/ connDoc' = Document(adm.cfg, adm.life) /\ (Acked \/ UNCHANGED legit)
           \/ UNCHANGED <<connDoc, legit>>
    BY <1>2 DEF PutDocument
  <2>2. ConnStoresKept'
    BY <2>1, StoredKept
  <2> QED
    BY <2>1, <2>2, AdminEnds DEF KeptNow
<1> QED
  BY <1>1, <1>2

\* Recording health beside the requests.
LEMMA CallStepKept ==
    ASSUME ConnTypes, KeptNow, NEW k \in Calls, CallStep(k), ~mixed'
    PROVE  KeptNow'
<1>0. /\ call \in [Calls -> CallRecord(saves)] /\ call[k] \in CallRecord(saves)
      /\ conn \in Conf /\ life \in KnownLives(saves)
      /\ Tracks(conn, life) /\ Newest(conn, life, untracked) /\ Allowed(conn, legit)
      /\ \A x \in Calls : CallKept(call[x], conn, untracked)
      /\ AdminKept(adm, conn, untracked, legit)
  BY DEF ConnTypes, StoreTypes, CallTypes, KeptNow, ConnStoresKept
<1>1. ASSUME NEW r, CallKept(r, conn, untracked), call' = [call EXCEPT ![k] = r]
      PROVE  \A x \in Calls : CallKept(call'[x], conn, untracked)
  BY <1>0, <1>1
<1>2. CallKept(IdleCall, conn, untracked)
  BY DEF IdleCall, CallKept
<1>3. ASSUME NEW id \in Connectors, Start(k, id) PROVE KeptNow'
  <2> DEFINE r == [IdleCall EXCEPT !.pc = "run", !.id = id]
  <2>1. CallKept(r, conn, untracked)
    BY DEF IdleCall, CallKept
  <2> HIDE DEF r
  <2>2. call' = [call EXCEPT ![k] = r]
    BY <1>3 DEF Start, r
  <2>3. \A x \in Calls : CallKept(call'[x], conn, untracked)
    BY <1>1, <2>1, <2>2
  <2> QED
    BY <1>3, <2>3 DEF Start, KeptNow, ConnStoresKept
<1>4. ASSUME NEW status \in {"healthy", "unhealthy"}, RecordHealth(k, status) PROVE KeptNow'
  <2> DEFINE id == call[k].id
             h == [status |-> status, live |-> TRUE]
  <2>0. /\ id \in Connectors /\ call[k].pc = "run"
        /\ UNCHANGED <<conn, connFile, lifeFile, connDoc, adm, legit, untracked>>
    BY <1>4 DEF RecordHealth, ConnTypes, CallTypes
  <2>1. CASE life[id] = Absent
    <3>1. call' = [call EXCEPT ![k] = IdleCall] /\ life' = life
      BY <1>4, <2>1 DEF RecordHealth
    <3>2. \A x \in Calls : CallKept(call'[x], conn, untracked)
      BY <1>1, <1>2, <3>1
    <3> QED
      BY <2>0, <3>1, <3>2 DEF KeptNow, ConnStoresKept
  <2>2. CASE life[id] # Absent
    <3>1. h \in Health /\ life' = [life EXCEPT ![id].health = h]
      BY <1>4, <2>2 DEF RecordHealth, Health, Healths
    <3>2. call' = [call EXCEPT ![k].pc = "copy", ![k].life = life']
      BY <1>4, <2>2 DEF RecordHealth
    <3> HIDE DEF h, id
    <3>3. Tracks(conn, life') /\ Newest(conn, life', untracked)
      BY <1>0, <2>0, <2>2, <3>1, HealthRecorded
    <3>4. CallKept([call[k] EXCEPT !.pc = "copy", !.life = life'], conn, untracked)
      BY <1>0, <3>3 DEF CallKept, CallRecord
    <3>5. call' = [call EXCEPT ![k] = [call[k] EXCEPT !.pc = "copy", !.life = life']]
      BY <1>0, <3>2
    <3>6. \A x \in Calls : CallKept(call'[x], conn, untracked)
      BY <1>1, <3>4, <3>5
    <3> QED
      BY <2>0, <3>3, <3>6 DEF KeptNow, ConnStoresKept
  <2> QED
    BY <2>1, <2>2
<1>5. CASE HealthFile(k)
  <2>1. /\ call[k].pc = "copy" /\ lifeFile' \in {lifeFile, call[k].life}
        /\ UNCHANGED <<conn, life, connFile, connDoc, adm, legit, untracked>>
        /\ \/ call' = [call EXCEPT ![k].pc = "store", ![k].cfg = conn]
           \/ call' = [call EXCEPT ![k] = IdleCall]
    BY <1>5 DEF HealthFile
  <2>2. /\ Newest(conn, call[k].life, untracked) /\ Tracks(conn, call[k].life)
        /\ FileNewest(call[k].life, untracked)
    BY <1>0, <2>1, NewestInFile DEF CallKept
  <2>3. ConnStoresKept'
    BY <2>1, <2>2 DEF KeptNow, ConnStoresKept
  <2>4. CallKept([call[k] EXCEPT !.pc = "store", !.cfg = conn], conn, untracked)
    BY <1>0, <2>2 DEF CallKept, CallRecord
  <2>5. \/ call' = [call EXCEPT ![k] = [call[k] EXCEPT !.pc = "store", !.cfg = conn]]
        \/ call' = [call EXCEPT ![k] = IdleCall]
    BY <1>0, <2>1
  <2>6. \A x \in Calls : CallKept(call'[x], conn, untracked)
    BY <1>1, <1>2, <2>4, <2>5
  <2> QED
    BY <2>1, <2>3, <2>6 DEF KeptNow
<1>6. CASE HealthDocument(k)
  <2>1. /\ call[k].pc = "store" /\ call' = [call EXCEPT ![k] = IdleCall]
        /\ connDoc' \in {connDoc, Document(call[k].cfg, call[k].life)}
        /\ UNCHANGED <<conn, life, connFile, lifeFile, adm, legit, untracked>>
    BY <1>6 DEF HealthDocument
  <2>2. call[k].cfg = conn /\ Tracks(conn, call[k].life) /\ Newest(conn, call[k].life, untracked)
    BY <1>0, <2>1 DEF CallKept
  <2> DEFINE d == Document(call[k].cfg, call[k].life)
  <2>3. d # Absent /\ d.cfg = conn /\ Tracks(conn, d.life) /\ Newest(conn, d.life, untracked)
    <3>1. call[k].life \in KnownLives(saves)
      BY <1>0 DEF CallRecord
    <3> QED
      BY <1>0, <2>2, <3>1, DocumentFacts
  <2> HIDE DEF d
  <2>4. connDoc' = connDoc \/ connDoc' = d
    BY <2>1 DEF d
  <2>5. ConnStoresKept'
    BY <1>0, <2>1, <2>2, <2>3, <2>4 DEF KeptNow, ConnStoresKept
  <2>6. \A x \in Calls : CallKept(call'[x], conn, untracked)
    BY <1>1, <1>2, <2>1
  <2> QED
    BY <1>0, <2>1, <2>5, <2>6 DEF KeptNow
<1> QED
  BY <1>3, <1>4, <1>5, <1>6 DEF CallStep, CheckConnectorHealth, UseSelected

\* A crash takes the request and the calls; a boot finds the document, or files
\* whose lifecycle is of the configuration or untracked.
LEMMA CrashKept ==
    ASSUME ConnTypes, KeptNow, ConnCrash
    PROVE  KeptNow'
<1>1. UNCHANGED <<conn, life, connFile, lifeFile, connDoc, legit, untracked>>
      /\ adm' = IdleAdmin /\ call' = [k \in Calls |-> IdleCall]
  BY DEF ConnCrash
<1>2. ConnStoresKept'
  BY <1>1 DEF KeptNow, ConnStoresKept
<1>3. AdminKept(adm', conn', untracked', legit')
  BY <1>1, AdminEnds DEF Fail
<1>4. \A k \in Calls : CallKept(call'[k], conn', untracked')
  BY <1>1 DEF CallKept, IdleCall
<1> QED
  BY <1>2, <1>3, <1>4 DEF KeptNow

LEMMA BootKept ==
    ASSUME ConnTypes, KeptNow, DownIdle, ConnBoot
    PROVE  KeptNow'
<1>1. /\ UNCHANGED <<connFile, lifeFile, connDoc, adm, call, legit>>
      /\ conn' = Booted.cfg /\ life' = Booted.life
      /\ untracked' = untracked \cup {id \in Installed(lifeFile) :
                         connDoc = Absent /\ connFile[id] # Absent /\ connFile[id] # lifeFile[id].fp}
      /\ adm.pc = "idle" /\ \A k \in Calls : call[k].pc = "idle"
  BY DEF ConnBoot, DownIdle
<1>2. /\ \A x, y : Newest(x, y, untracked) => Newest(x, y, untracked')
      /\ \A x : FileNewest(x, untracked) => FileNewest(x, untracked')
  BY <1>1, NewestButMore, FileNewestButMore
<1>3. /\ saves \in 0..MaxSaves /\ saves \in Nat /\ connFile \in Conf /\ lifeFile \in KnownLives(saves)
      /\ connDoc # Absent => connDoc.cfg \in Conf /\ connDoc.life \in KnownLives(saves)
      /\ NoConnectors \in Conf
  <2>1. saves \in Nat
    BY ConnectorsAssumption DEF ConnTypes, StoreTypes
  <2> QED
    BY <2>1, ConnConstants DEF ConnTypes, StoreTypes
<1>4. Allowed(conn', legit)
  BY <1>1, BootedFacts DEF KeptNow, ConnStoresKept
<1>5. Tracks(conn', life') /\ Newest(conn', life', untracked')
  <2>1. CASE connDoc = Absent
    <3> DEFINE l == SyncLifecycle(lifeFile, NoConnectors, connFile, saves)
    <3>1. conn' = connFile /\ life' = l
      BY <1>1, <2>1, BootedFacts
    <3>2. Tracks(connFile, l)
      BY <1>3, DerivedLives
    <3>3. Newest(connFile, l, untracked')
      <4> SUFFICES ASSUME NEW id \in Connectors, id \notin untracked', connFile[id] # Absent
                   PROVE  NewestIs(l[id].revs, connFile[id])
        BY DEF Newest
      <4>1. lifeFile[id] # Absent => /\ NewestIs(lifeFile[id].revs, lifeFile[id].fp)
                                     /\ lifeFile[id].fp = connFile[id]
        BY <1>1, <2>1 DEF KeptNow, ConnStoresKept, FileNewest, Installed
      <4>2. lifeFile[id] # Absent => KeepsRecord(lifeFile[id], NoConnectors[id], connFile[id])
        BY <4>1 DEF KeepsRecord
      <4>3. connFile[id] # Absent /\ (lifeFile[id] = Absent \/ KeepsRecord(lifeFile[id], NoConnectors[id], connFile[id]))
            => NewestIs(l[id].revs, connFile[id])
        BY <1>3, DerivedLives
      <4> HIDE DEF l
      <4> QED
        BY <4>2, <4>3
    <3> QED
      BY <3>1, <3>2, <3>3
  <2>2. CASE connDoc # Absent /\ life' = connDoc.life
    <3>1. conn' = connDoc.cfg
      BY <1>1, <2>2, BootedFacts
    <3> QED
      BY <1>2, <2>2, <3>1 DEF KeptNow, ConnStoresKept
  <2>3. CASE connDoc # Absent /\ life' # connDoc.life
    <3> DEFINE old == connDoc.life
               c == connDoc.cfg
               l == SyncLifecycle(old, NoConnectors, c, saves)
    <3>1. conn' = c /\ life' = l /\ \A id \in Connectors : old[id] = Absent
      BY <1>1, <2>3, BootedFacts
    <3>2. Tracks(c, l) /\ \A id \in Connectors : c[id] # Absent => NewestIs(l[id].revs, c[id])
      BY <1>3, <2>3, <3>1, DerivedLives
    <3> HIDE DEF l, c, old
    <3>3. Newest(c, l, untracked')
      BY <3>2 DEF Newest
    <3> QED
      BY <3>1, <3>2, <3>3
  <2> QED
    BY <2>1, <2>2, <2>3
<1>6. ConnStoresKept'
  BY <1>1, <1>2, <1>4, <1>5 DEF KeptNow, ConnStoresKept
<1>7. AdminKept(adm', conn', untracked', legit')
  BY <1>1 DEF AdminKept
<1>8. \A k \in Calls : CallKept(call'[k], conn', untracked')
  BY <1>1 DEF CallKept
<1> QED
  BY <1>6, <1>7, <1>8 DEF KeptNow

LEMMA DownIdleStep == ConnTypes /\ DownIdle /\ [ConnNext]_connVars => DownIdle'
<1> SUFFICES ASSUME ConnTypes, DownIdle, [ConnNext]_connVars PROVE DownIdle'
  OBVIOUS
<1>0. call \in [Calls -> CallRecord(saves)]
  BY DEF ConnTypes, CallTypes
<1>1. CASE AdminRequest
  BY <1>1 DEF AdminRequest, SaveConfig, UpsertConnector, Upgrade, SetConnectorEnabled, Rollback, BeginRequest, DownIdle
<1>2. CASE AdminStep
  BY <1>2 DEF AdminStep, SyncState, WriteConnFile, WriteLifeFile, SwapBoth, PersistBoth, ReadLifecycle,
              PutLifecycle, PutLifeFile, PutDocument, DownIdle
<1>3. ASSUME NEW k \in Calls, CallStep(k) PROVE DownIdle'
  <2>1. up' = up /\ up
    BY <1>3 DEF CallStep, CheckConnectorHealth, UseSelected, Start, RecordHealth, HealthFile, HealthDocument, DownIdle
  <2> QED
    BY <2>1 DEF DownIdle
<1>4. CASE ConnCrash
  BY <1>4 DEF ConnCrash, DownIdle, IdleAdmin, IdleCall
<1>5. CASE ConnBoot
  BY <1>5 DEF ConnBoot, DownIdle
<1>6. CASE UNCHANGED connVars
  BY <1>6 DEF connVars, DownIdle
<1> QED
  BY <1>1, <1>2, <1>3, <1>4, <1>5, <1>6 DEF ConnNext

\* A mixed record stays on record.
LEMMA MixedStays == [ConnNext]_connVars /\ ~mixed' => ~mixed
  BY DEF ConnNext, AdminRequest, SaveConfig, UpsertConnector, Upgrade, SetConnectorEnabled, Rollback, BeginRequest,
         AdminStep, SyncState, WriteConnFile, WriteLifeFile, SwapBoth, PersistBoth, ReadLifecycle,
         PutLifecycle, PutLifeFile, PutDocument, CallStep, CheckConnectorHealth, UseSelected, Start,
         RecordHealth, HealthFile, HealthDocument, ConnCrash, ConnBoot, connVars

LEMMA ConnStep == ConnInv /\ [ConnNext]_connVars => ConnInv'
<1> SUFFICES ASSUME ConnInv, [ConnNext]_connVars PROVE ConnInv'
  OBVIOUS
<1> USE DEF ConnInv
<1>1. ConnTypes' /\ DownIdle'
  BY ConnTypesStep, DownIdleStep
<1>2. ASSUME ~mixed' PROVE KeptNow'
  <2>0. KeptNow
    BY <1>2, MixedStays
  <2>1. CASE AdminRequest
    BY <2>0, <2>1, ConnRequestKept
  <2>2. CASE AdminStep
    BY <1>2, <2>0, <2>2, SyncStateKept, WriteFilesKept, SwapBothKept, PersistBothKept, ReadLifecycleKept,
       PutLifecycleKept, PutFilesKept DEF AdminStep
  <2>3. CASE \E k \in Calls : CallStep(k)
    BY <1>2, <2>0, <2>3, CallStepKept
  <2>4. CASE ConnCrash
    BY <2>0, <2>4, CrashKept
  <2>5. CASE ConnBoot
    BY <2>0, <2>5, BootKept
  <2>6. CASE UNCHANGED connVars
    BY <2>0, <2>6 DEF connVars, KeptNow, ConnStoresKept
  <2> QED
    BY <2>1, <2>2, <2>3, <2>4, <2>5, <2>6 DEF ConnNext
<1> QED
  BY <1>1, <1>2

LEMMA ConnInitInv == ConnInit => ConnInv
<1> SUFFICES ASSUME ConnInit PROVE ConnInv
  OBVIOUS
<1>0. saves = 0 /\ 0 \in 0..MaxSaves /\ 0 \in Nat
  BY ConnectorsAssumption DEF ConnInit
<1>1. /\ NoConnectors \in Conf /\ NoConnectors \in KnownLives(0)
      /\ IdleAdmin \in AdminRecord(0) /\ IdleAdmin.pc = "idle" /\ IdleAdmin.op = "save"
      /\ IdleCall \in CallRecord(0) /\ IdleCall.pc = "idle"
  BY <1>0, ConnConstants
<1>2. ConnTypes
  BY <1>0, <1>1 DEF ConnInit, ConnTypes, StoreTypes, AdminTypes, CallTypes
<1>3. DownIdle
  BY DEF ConnInit, DownIdle
<1>4. ConnStoresKept
  BY DEF ConnInit, ConnStoresKept, Tracks, Newest, FileNewest, Allowed, NoConnectors
<1>5. AdminKept(adm, conn, untracked, legit) /\ \A k \in Calls : CallKept(call[k], conn, untracked)
  BY <1>1 DEF ConnInit, AdminKept, CallKept
<1> QED
  BY <1>2, <1>3, <1>4, <1>5 DEF ConnInv, KeptNow

\* The connector registry keeps what was acknowledged, with the lifecycle of it
\* and its content as the newest revision, for any number of connectors, requests
\* and calls, but for health stored around a swap and for the changes the code
\* records no revision of.
THEOREM ConnectorsCorrect == ConnSpec => []ConnectorsSound
<1>1. ConnInv => ConnectorsSound
  <2> SUFFICES ASSUME ConnInv PROVE ConnectorsSound
    OBVIOUS
  <2> USE DEF ConnInv
  <2>0. conn \in Conf /\ connFile \in Conf /\ life \in KnownLives(saves) /\ lifeFile \in KnownLives(saves)
    BY DEF ConnTypes, StoreTypes
  <2>1. ConnTypeOK
    <3>1. ASSUME NEW map \in {life, lifeFile}, NEW id \in Connectors, map[id] # Absent
          PROVE  /\ map[id].ver \in Versions /\ map[id].on \in BOOLEAN
                 /\ map[id].health \in Health /\ map[id].fp \in ConnManifest \cup {Absent}
                 /\ Len(map[id].revs) \in 1..MaxRevs
                 /\ \A i \in DOMAIN map[id].revs : map[id].revs[i] \in Revision
      <4>1. map[id] \in KnownLife(saves)
        BY <2>0, <3>1 DEF KnownLives
      <4>2. map[id].revs \in Seq(KnownRevision(saves)) /\ KnownRevision(saves) \subseteq Revision
        BY <4>1, LifeFields DEF KnownRevision
      <4>3. \A i \in DOMAIN map[id].revs : map[id].revs[i] \in Revision
        BY <4>2
      <4> QED
        BY <4>1, <4>3, LifeFields
    <3> QED
      BY <2>0, <3>1 DEF ConnTypeOK
  <2>2. ConnectorsKept
    BY BootedFacts DEF ConnectorsKept, KeptNow, ConnStoresKept, Allowed
  <2>3. LifecycleMatches
    BY DEF LifecycleMatches, KeptNow, ConnStoresKept, Tracks
  <2>4. RevisionOfCurrent
    <3> SUFFICES ASSUME ~mixed, NEW id \in Installed(conn) \ untracked
                 PROVE  \E i \in DOMAIN life[id].revs :
                           /\ life[id].revs[i].m.ver = conn[id].ver
                           /\ life[id].revs[i].m.body = conn[id].body
                           /\ \A j \in DOMAIN life[id].revs :
                                life[id].revs[j].m.ver = conn[id].ver => life[id].revs[j].at <= life[id].revs[i].at
      BY DEF RevisionOfCurrent
    <3>1. id \in Connectors /\ conn[id] # Absent
      BY DEF Installed
    <3>2. life[id] # Absent
      BY <3>1 DEF KeptNow, ConnStoresKept, Tracks
    <3>3. NewestIs(life[id].revs, conn[id])
      BY <3>1, <3>2 DEF KeptNow, ConnStoresKept, Newest
    <3> QED
      BY <3>3 DEF NewestIs
  <2> QED
    BY <2>1, <2>2, <2>3, <2>4 DEF ConnectorsSound
<1> QED
  BY <1>1, ConnInitInv, ConnStep, PTL DEF ConnSpec

=============================================================================
