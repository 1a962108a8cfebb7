------------------------------- MODULE Login -------------------------------
(***************************************************************************)
(* The login half of the access manager (internal/modules/access) and the  *)
(* HTTP handlers that drive it.  A password login that needs a challenge   *)
(* or a TOTP code is a pending flow; the flow, its challenges, the OAuth   *)
(* states and the sessions live in maps guarded by one RWMutex, and a      *)
(* request takes that lock several times: it copies a flow, decides, and   *)
(* writes the copy back later.  Each step below is one lock region.        *)
(* Random tokens are members of Ids that were not drawn before; a token    *)
(* expires when the environment says so.  The configuration (who is        *)
(* active, which provider is enabled) is edited concurrently.              *)
(***************************************************************************)
EXTENDS Naturals, FiniteSets

CONSTANTS Users,        \* user ids
          TotpUsers,    \* users with a TOTP secret
          ChallengeUsers, \* users with ChallengeRequired
          TokenUser,    \* the user a local token resolves to
          OpsUser,      \* "ops-admin", the user of the configured ops token
          AllowJIT,     \* the OAuth provider creates unknown users
          Clients,      \* concurrent HTTP requests
          Ids,          \* values randomToken may return
          MaxAttempts,  \* wrong codes a challenge survives, 5 in the code
          MaxEdits,     \* bound on configuration edits
          None

ASSUME LoginAssumption == /\ TotpUsers \subseteq Users
                          /\ ChallengeUsers \subseteq Users
                          /\ TokenUser \in Users /\ OpsUser \in Users
                          /\ AllowJIT \in BOOLEAN
                          /\ MaxAttempts \in Nat
                          /\ MaxEdits \in Nat
                          /\ None \notin Users \cup Ids

VARIABLES users,        \* status of every user in the configuration
          linked,       \* users with an identity of the OAuth provider
          enabled,      \* enabled authentication providers
          flags,        \* RequireChallenge / RequireMFA of local_password
          pendingAuth,  \* Manager.pendingAuth
          challenges,   \* Manager.challenges
          oauthStates,  \* Manager.oauthStates
          sessions,     \* Manager.sessions
          drawn,        \* tokens handed out so far
          expired,      \* tokens whose ExpiresAt has passed
          req,          \* the request every client has in the server
          edits,        \* configuration edits made (bound)
          proved,       \* history: factors really shown for a flow
          owner,        \* history: the user whose password opened a flow
          accepted      \* history: how often a one-time token was accepted, counted
                        \* from the first request that presented it as it was issued

config == <<users, linked, enabled, flags>>
history == <<proved, owner, accepted>>
store == <<pendingAuth, challenges, oauthStates, sessions>>
vars == <<config, store, drawn, expired, req, edits, history>>

Factors == {"challenge", "mfa"}
Providers == {"local_password", "local_token", "oauth"}

\* PendingAuthFlow: who logs in, what is required and what was verified.
Flow == [user: Users \cup {None}, need: SUBSET Factors, done: SUBSET Factors,
         chal: Ids \cup {None}]

\* ChallengeState: the flow it belongs to and the wrong codes so far.
Challenge == [flow: Ids, attempts: 0..MaxAttempts]

\* Session, with the flow (or None) that earned it.
Session == [user: Users \cup {None}, flow: Ids \cup {None}, need: SUBSET Factors]

\* The local state of a request: the step it is at and what it has copied.
Pcs == {"idle", "open", "challenge", "consume", "store", "issue",
        "finish", "exchange", "create", "direct"}
Statuses == {"absent", "active", "disabled"}
Request == [pc: Pcs, token: Ids \cup {None}, flow: Flow, chal: Ids \cup {None},
            user: Users \cup {None}, status: Statuses]

ZeroFlow == [user |-> None, need |-> {}, done |-> {}, chal |-> None]
Idle == [pc |-> "idle", token |-> None, flow |-> ZeroFlow, chal |-> None,
         user |-> None, status |-> "active"]

Init == /\ users \in [Users -> {"active", "absent"}]
        /\ linked = {}
        /\ enabled = Providers
        /\ flags = {}
        /\ pendingAuth = [i \in Ids |-> None]
        /\ challenges = [i \in Ids |-> None]
        /\ oauthStates = {}
        /\ sessions = [i \in Ids |-> None]
        /\ drawn = {} /\ expired = {}
        /\ req = [c \in Clients |-> Idle]
        /\ edits = 0
        /\ proved = [i \in Ids |-> {}]
        /\ owner = [i \in Ids |-> None]
        /\ accepted = [i \in Ids |-> 0]

-----------------------------------------------------------------------------
(* What the lock regions do to the maps. *)

\* cleanupExpiredAuthState: expired flows go, and with them the zero flow a
\* late issueChallenge left behind (its ExpiresAt is the zero time).
LiveFlows == [i \in Ids |-> IF pendingAuth[i] = None \/ i \in expired THEN None
                            ELSE IF pendingAuth[i].user = None THEN None ELSE pendingAuth[i]]

LiveChallenges == [i \in Ids |-> IF i \in expired THEN None ELSE challenges[i]]

\* issueSession: a fresh token for the user; the account is not looked up again.
IssueSession(i, s) == /\ i \in Ids \ drawn
                      /\ drawn' = drawn \cup {i}
                      /\ sessions' = [sessions EXCEPT ![i] = s]

Goto(c, pc) == req' = [req EXCEPT ![c].pc = pc]
Done(c) == req' = [req EXCEPT ![c] = Idle]

-----------------------------------------------------------------------------
(* Password login. *)

\* What LoginWithLocalPassword requires of the user beyond the password.
Required(u) == (IF "challenge" \in flags \/ u \in ChallengeUsers THEN {"challenge"} ELSE {})
               \cup (IF "mfa" \in flags \/ u \in TotpUsers THEN {"mfa"} ELSE {})

\* LoginWithLocalPassword up to its decision: an enabled provider, an active
\* user, the right password.  Every refusal leaves the state as it was.
LoginWithLocalPassword(c, u) ==
    /\ req[c].pc = "idle"
    /\ "local_password" \in enabled
    /\ users[u] = "active"
    /\ LET need == Required(u)
           flow == [user |-> u, need |-> need, done |-> {}, chal |-> None] IN
       req' = [req EXCEPT ![c] = [Idle EXCEPT !.pc = IF need = {} THEN "direct" ELSE "open",
                                              !.flow = flow, !.user = u]]
    /\ UNCHANGED <<config, store, drawn, expired, edits, history>>

\* storePendingFlow of a new flow: it gets its token and ten minutes.
OpenFlow(c) ==
    /\ req[c].pc = "open"
    /\ \E i \in Ids \ drawn :
         /\ drawn' = drawn \cup {i}
         /\ pendingAuth' = [LiveFlows EXCEPT ![i] = req[c].flow]
         /\ challenges' = LiveChallenges
         /\ owner' = [owner EXCEPT ![i] = req[c].user]
         /\ req' = [req EXCEPT ![c] = IF "challenge" \in req[c].flow.need
                                      THEN [Idle EXCEPT !.pc = "challenge", !.token = i]
                                      ELSE Idle]
    /\ UNCHANGED <<config, oauthStates, sessions, expired, edits, proved, accepted>>

\* issueChallenge writes the challenge's id into the flow it finds under the
\* token: a zero flow when the flow is gone.  Older challenges stay valid.
IssueChallenge(c) ==
    /\ req[c].pc = "challenge"
    /\ \E i \in Ids \ drawn :
         LET t == req[c].token
             found == IF LiveFlows[t] = None THEN ZeroFlow ELSE LiveFlows[t] IN
         /\ drawn' = drawn \cup {i}
         /\ pendingAuth' = [LiveFlows EXCEPT ![t] = [found EXCEPT !.chal = i]]
         /\ challenges' = [LiveChallenges EXCEPT ![i] = [flow |-> t, attempts |-> 0]]
    /\ Done(c)
    /\ UNCHANGED <<config, oauthStates, sessions, expired, edits, history>>

\* pendingFlowContext: the flow under the token is copied if it is live and
\* its user is still in the configuration, whatever the user's status.
PendingFlow(t) == IF LiveFlows[t] # None /\ users[LiveFlows[t].user] # "absent"
                  THEN LiveFlows[t] ELSE None

\* authChallengeHandler, StartChallenge: another challenge for the same flow.
StartChallenge(c, t) ==
    /\ req[c].pc = "idle"
    /\ PendingFlow(t) # None
    /\ "challenge" \in PendingFlow(t).need
    /\ req' = [req EXCEPT ![c] = [Idle EXCEPT !.pc = "challenge", !.token = t]]
    /\ pendingAuth' = LiveFlows
    /\ challenges' = LiveChallenges
    /\ UNCHANGED <<config, oauthStates, sessions, drawn, expired, edits, history>>

\* authVerifyHandler, VerifyChallenge: the flow is copied before the
\* challenge is looked at.
VerifyChallenge(c, t, i) ==
    /\ req[c].pc = "idle"
    /\ PendingFlow(t) # None
    /\ "challenge" \in PendingFlow(t).need
    /\ req' = [req EXCEPT ![c] = [Idle EXCEPT !.pc = "consume", !.token = t, !.chal = i,
                                              !.flow = PendingFlow(t)]]
    /\ pendingAuth' = LiveFlows
    /\ challenges' = LiveChallenges
    /\ UNCHANGED <<config, oauthStates, sessions, drawn, expired, edits, history>>

\* Mutant: wrong codes are counted but never refused.
ConsumeChallengeNoLimit(c, right) ==
    LET i == req[c].chal IN
    /\ req[c].pc = "consume"
    /\ LiveChallenges[i] # None /\ LiveChallenges[i].flow = req[c].token /\ ~right
    /\ challenges' = [LiveChallenges EXCEPT ![i].attempts = @ + 1]
    /\ Done(c)
    /\ UNCHANGED <<config, pendingAuth, oauthStates, sessions, drawn, expired, edits, history>>

\* Mutant: the right code leaves the challenge in place.
ConsumeChallengeKept(c, right) ==
    LET i == req[c].chal IN
    /\ req[c].pc = "consume"
    /\ LiveChallenges[i] # None /\ LiveChallenges[i].flow = req[c].token /\ right
    /\ proved' = [proved EXCEPT ![req[c].token] = @ \cup {"challenge"}]
    /\ accepted' = [accepted EXCEPT ![i] = @ + 1]
    /\ req' = [req EXCEPT ![c].pc = "store", ![c].flow.done = @ \cup {"challenge"}, ![c].flow.chal = i]
    /\ UNCHANGED <<config, store, drawn, expired, edits, owner>>

\* consumeChallenge.  A challenge that is gone or of another flow is refused;
\* one out of attempts is deleted with its flow; a wrong code is counted; the
\* right code deletes the challenge.
ConsumeChallenge(c, right) ==
    LET t == req[c].token
        i == req[c].chal
        ch == LiveChallenges[i]
        valid == ch # None /\ ch.flow = t IN
    /\ req[c].pc = "consume"
    /\ UNCHANGED <<config, oauthStates, sessions, drawn, expired, edits, owner>>
    /\ \/ /\ ~valid
          /\ Done(c)
          /\ pendingAuth' = LiveFlows
          /\ challenges' = LiveChallenges
          /\ UNCHANGED <<proved, accepted>>
       \/ /\ valid /\ ch.attempts >= MaxAttempts
          /\ Done(c)
          /\ pendingAuth' = [LiveFlows EXCEPT ![t] = None]
          /\ challenges' = [LiveChallenges EXCEPT ![i] = None]
          /\ UNCHANGED <<proved, accepted>>
       \/ /\ valid /\ ch.attempts < MaxAttempts /\ ~right
          /\ Done(c)
          /\ pendingAuth' = LiveFlows
          /\ challenges' = [LiveChallenges EXCEPT ![i].attempts = @ + 1]
          /\ UNCHANGED <<proved, accepted>>
       \/ /\ valid /\ ch.attempts < MaxAttempts /\ right
          /\ pendingAuth' = LiveFlows
          /\ challenges' = [LiveChallenges EXCEPT ![i] = None]
          /\ proved' = [proved EXCEPT ![t] = @ \cup {"challenge"}]
          /\ accepted' = [accepted EXCEPT ![i] = @ + 1]
          /\ req' = [req EXCEPT ![c].pc = "store",
                                ![c].flow.done = @ \cup {"challenge"},
                                ![c].flow.chal = i]

\* Mutant: the second factor is accepted before the challenge.
VerifyMFAUnordered(c, t) ==
    /\ req[c].pc = "idle"
    /\ PendingFlow(t) # None
    /\ "mfa" \in PendingFlow(t).need /\ PendingFlow(t).user \in TotpUsers
    /\ req' = [req EXCEPT ![c] = [Idle EXCEPT !.pc = "store", !.token = t,
                                    !.flow = [PendingFlow(t) EXCEPT !.done = @ \cup {"mfa"}]]]
    /\ proved' = [proved EXCEPT ![t] = @ \cup {"mfa"}]
    /\ UNCHANGED <<config, store, drawn, expired, edits, owner, accepted>>

\* authMFAVerifyHandler, VerifyMFA: only after the challenge, only for a user
\* with a TOTP secret, only with a valid code; all judged on the copy.
VerifyMFA(c, t) ==
    /\ req[c].pc = "idle"
    /\ PendingFlow(t) # None
    /\ LET flow == PendingFlow(t) IN
       /\ "challenge" \in flow.need => "challenge" \in flow.done
       /\ "mfa" \in flow.need
       /\ flow.user \in TotpUsers
       /\ req' = [req EXCEPT ![c] = [Idle EXCEPT !.pc = "store", !.token = t,
                                       !.flow = [flow EXCEPT !.done = @ \cup {"mfa"}]]]
    /\ proved' = [proved EXCEPT ![t] = @ \cup {"mfa"}]
    /\ pendingAuth' = LiveFlows
    /\ challenges' = LiveChallenges
    /\ UNCHANGED <<config, oauthStates, sessions, drawn, expired, edits, owner, accepted>>

\* storePendingFlow of the copy: what other requests did to the flow in the
\* meantime is overwritten, and a flow that was deleted is back.
StorePendingFlow(c) ==
    LET flow == req[c].flow IN
    /\ req[c].pc = "store"
    /\ pendingAuth' = [LiveFlows EXCEPT ![req[c].token] = flow]
    /\ challenges' = LiveChallenges
    /\ IF "mfa" \in flow.need \ flow.done THEN Done(c) ELSE Goto(c, "issue")
    /\ UNCHANGED <<config, oauthStates, sessions, drawn, expired, edits, history>>

\* completePendingFlow, first half: the session.
IssueFlowSession(c) ==
    LET flow == req[c].flow IN
    /\ req[c].pc = "issue"
    /\ \E i \in Ids : IssueSession(i, [user |-> flow.user, flow |-> req[c].token, need |-> flow.need])
    /\ Goto(c, "finish")
    /\ UNCHANGED <<config, pendingAuth, challenges, oauthStates, expired, edits, history>>

\* completePendingFlow, second half: the flow and its last challenge go.
FinishFlow(c) ==
    LET t == req[c].token  i == req[c].flow.chal IN
    /\ req[c].pc = "finish"
    /\ pendingAuth' = [pendingAuth EXCEPT ![t] = None]
    /\ challenges' = IF i = None THEN challenges ELSE [challenges EXCEPT ![i] = None]
    /\ Done(c)
    /\ UNCHANGED <<config, oauthStates, sessions, drawn, expired, edits, history>>

\* A login that needs nothing more, or a token or OAuth login: the session.
IssueDirect(c) ==
    /\ req[c].pc = "direct"
    /\ \E i \in Ids : IssueSession(i, [user |-> req[c].user, flow |-> None, need |-> {}])
    /\ Done(c)
    /\ UNCHANGED <<config, pendingAuth, challenges, oauthStates, expired, edits, history>>

-----------------------------------------------------------------------------
(* Local token and OAuth. *)

\* LoginWithLocalToken: the user a provider's token stands for is created if
\* missing (CreateUser) and gets a session; the ops token gets one for its user
\* whatever is configured.  Nobody's status is looked at.
LoginWithLocalToken(c) ==
    /\ req[c].pc = "idle"
    /\ \/ /\ "local_token" \in enabled
          /\ req' = [req EXCEPT ![c] = [Idle EXCEPT !.user = TokenUser,
                                         !.pc = IF users[TokenUser] = "absent" THEN "create" ELSE "direct"]]
       \/ req' = [req EXCEPT ![c] = [Idle EXCEPT !.user = OpsUser, !.pc = "direct"]]
    /\ UNCHANGED <<config, store, drawn, expired, edits, history>>

\* UpsertUser of the user of this login, with the status it was built or
\* copied with: it replaces the user of that id.  A failing save ends the login.
CreateUser(c, saved) ==
    /\ req[c].pc = "create"
    /\ IF saved THEN /\ users' = [users EXCEPT ![req[c].user] = req[c].status]
                     /\ linked' = linked \cup {req[c].user}
                     /\ Goto(c, "direct")
                ELSE /\ Done(c)
                     /\ UNCHANGED <<users, linked>>
    /\ UNCHANGED <<enabled, flags, store, drawn, expired, edits, history>>

\* StartOAuthLogin: an enabled provider, a new state valid for ten minutes.
StartOAuthLogin(c) ==
    /\ req[c].pc = "idle"
    /\ "oauth" \in enabled
    /\ \E i \in Ids \ drawn : /\ drawn' = drawn \cup {i}
                              /\ oauthStates' = oauthStates \cup {i}
    /\ UNCHANGED <<config, pendingAuth, challenges, sessions, expired, req, edits, history>>

\* Mutant: the state stays until it expires.
CompleteOAuthCallbackKept(c, i, padded) ==
    /\ req[c].pc = "idle"
    /\ i \in oauthStates \ expired
    /\ accepted' = [accepted EXCEPT ![i] = IF padded /\ @ = 0 THEN @ ELSE @ + 1]
    /\ req' = [req EXCEPT ![c] = [Idle EXCEPT !.pc = "exchange"]]
    /\ UNCHANGED <<config, store, drawn, expired, edits, proved, owner>>

\* authCallbackHandler, CompleteOAuthCallback: the state is redeemed under
\* the lock, before the code exchange; whether the provider is still enabled
\* is not asked.  The state is looked up trimmed and deleted as it came, so
\* one that came padded with blanks is accepted and stays.
CompleteOAuthCallback(c, i, padded) ==
    /\ req[c].pc = "idle"
    /\ i \in oauthStates \ expired
    /\ oauthStates' = IF padded THEN oauthStates ELSE oauthStates \ {i}
    /\ accepted' = [accepted EXCEPT ![i] = IF padded /\ @ = 0 THEN @ ELSE @ + 1]
    /\ req' = [req EXCEPT ![c] = [Idle EXCEPT !.pc = "exchange"]]
    /\ UNCHANGED <<config, pendingAuth, challenges, sessions, drawn, expired, edits, proved, owner>>

\* conf.Exchange, fetchOAuthProfile and resolveOAuthUser: any error ends the
\* login; a linked identity is its user, saved again when the profile changed;
\* otherwise an active user is created if the provider may.
ResolveOAuthUser(c) ==
    /\ req[c].pc = "exchange"
    /\ \/ Done(c)
       \/ \E u \in linked, pc \in {"direct", "create"} :
            req' = [req EXCEPT ![c].user = u, ![c].status = users[u], ![c].pc = pc]
       \/ /\ AllowJIT
          /\ \E u \in Users \ linked : req' = [req EXCEPT ![c].user = u, ![c].pc = "create"]
    /\ UNCHANGED <<config, store, drawn, expired, edits, history>>

-----------------------------------------------------------------------------
(* Sessions, time, administration, restart. *)

\* AuthenticateSession drops an expired session.  A session whose user is
\* missing or not active is refused and kept.
AuthenticateSession(i) ==
    /\ sessions[i] # None
    /\ i \in expired
    /\ sessions' = [sessions EXCEPT ![i] = None]
    /\ UNCHANGED <<config, pendingAuth, challenges, oauthStates, drawn, expired, req, edits, history>>

\* The principal a session token stands for: the user as configured now.
Authenticates(i, u) == /\ sessions[i] # None
                       /\ i \notin expired
                       /\ sessions[i].user = u
                       /\ users[u] = "active"

\* authLogoutHandler, Logout: only an authenticated request gets there.
Logout(i) ==
    /\ \E u \in Users : Authenticates(i, u)
    /\ sessions' = [sessions EXCEPT ![i] = None]
    /\ UNCHANGED <<config, pendingAuth, challenges, oauthStates, drawn, expired, req, edits, history>>

\* Time passes a token's ExpiresAt.
Expire(i) == /\ i \in drawn \ expired
             /\ expired' = expired \cup {i}
             /\ UNCHANGED <<config, store, drawn, req, edits, history>>

\* SetUserStatus by an administrator.
SetUserStatus(u, status) ==
    /\ edits < MaxEdits /\ edits' = edits + 1
    /\ users[u] # "absent"
    /\ users' = [users EXCEPT ![u] = status]
    /\ UNCHANGED <<linked, enabled, flags, store, drawn, expired, req, history>>

\* SetAuthProviderEnabled and UpsertAuthProvider: a provider is switched, or
\* what local_password requires is changed for the logins that follow.
EditAuthProvider ==
    /\ edits < MaxEdits /\ edits' = edits + 1
    /\ \/ \E p \in Providers : enabled' \in {enabled \cup {p}, enabled \ {p}} /\ UNCHANGED flags
       \/ flags' \in SUBSET Factors /\ UNCHANGED enabled
    /\ UNCHANGED <<users, linked, store, drawn, expired, req, history>>

\* A new process: the maps are empty and the session key is another one.
Restart ==
    /\ pendingAuth' = [i \in Ids |-> None]
    /\ challenges' = [i \in Ids |-> None]
    /\ oauthStates' = {}
    /\ sessions' = [i \in Ids |-> None]
    /\ req' = [c \in Clients |-> Idle]
    /\ UNCHANGED <<config, drawn, expired, edits, history>>

\* authLoginHandler: which of the three logins a request asks for.
AuthLogin(c) == \/ \E u \in Users : LoginWithLocalPassword(c, u)
                \/ LoginWithLocalToken(c)
                \/ StartOAuthLogin(c)

ClientStep(c) ==
    \/ AuthLogin(c)
    \/ \E t \in Ids : StartChallenge(c, t) \/ VerifyMFA(c, t)
    \/ \E t, i \in Ids : VerifyChallenge(c, t, i)
    \/ \E i \in Ids, padded \in BOOLEAN : CompleteOAuthCallback(c, i, padded)
    \/ \E ok \in BOOLEAN : ConsumeChallenge(c, ok) \/ CreateUser(c, ok)
    \/ OpenFlow(c) \/ IssueChallenge(c) \/ StorePendingFlow(c)
    \/ IssueFlowSession(c) \/ FinishFlow(c) \/ IssueDirect(c) \/ ResolveOAuthUser(c)

Next == \/ \E c \in Clients : ClientStep(c)
        \/ \E i \in Ids : AuthenticateSession(i) \/ Logout(i) \/ Expire(i)
        \/ \E u \in Users, s \in {"active", "disabled"} : SetUserStatus(u, s)
        \/ EditAuthProvider
        \/ Restart

Spec == Init /\ [][Next]_vars

-----------------------------------------------------------------------------
(* Properties. *)

\* Every map and every request holds what its Go type allows.
TypeOK == /\ users \in [Users -> Statuses]
          /\ linked \subseteq Users
          /\ enabled \subseteq Providers
          /\ flags \subseteq Factors
          /\ pendingAuth \in [Ids -> Flow \cup {None}]
          /\ challenges \in [Ids -> Challenge \cup {None}]
          /\ oauthStates \subseteq Ids
          /\ sessions \in [Ids -> Session \cup {None}]
          /\ drawn \subseteq Ids
          /\ expired \subseteq Ids
          /\ req \in [Clients -> Request]
          /\ edits \in 0..MaxEdits
          /\ proved \in [Ids -> SUBSET Factors]
          /\ owner \in [Ids -> Users \cup {None}]
          /\ accepted \in [Ids -> Nat]

\* A session of a pending flow belongs to the user whose password opened the
\* flow, and every factor the login required was really shown for that flow:
\* neither a stale copy written back, a flow deleted and re-created, nor the
\* zero flow of a late issueChallenge earns a session (VerifyChallenge,
\* VerifyMFA, storePendingFlow, completePendingFlow).
SessionEarned == \A i \in Ids :
    (sessions[i] # None /\ sessions[i].flow # None)
        => /\ sessions[i].need \subseteq proved[sessions[i].flow]
           /\ sessions[i].user = owner[sessions[i].flow]
           /\ sessions[i].user # None

\* A challenge code and an OAuth state that was presented as it was issued is
\* accepted that once and in no form again, however many requests present it at
\* the same time and whatever is deleted, re-stored or restarted in between
\* (consumeChallenge, CompleteOAuthCallback).  A state that only ever came padded
\* with blanks is accepted until it expires.
AcceptedOnce == \A i \in Ids : accepted[i] <= 1

\* No session is handed out that its login did not earn, and no one-time value,
\* once presented as issued, is taken again, whatever requests, edits and expiries
\* interleave.
LoginSafe == TypeOK /\ SessionEarned /\ AcceptedOnce
=============================================================================
