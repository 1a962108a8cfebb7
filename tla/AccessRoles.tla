---------------------------- MODULE AccessRoles ----------------------------
(***************************************************************************)
(* Users, groups and roles of the access manager: how an edit of one of    *)
(* them is normalised, which roles a principal holds, and how a permission *)
(* is decided.  Edits are whole operations here (ConfigStores has their    *)
(* steps); a group membership is recorded on both sides, and every edit    *)
(* ends in normalizeConfig, which makes the two sides agree again.         *)
(***************************************************************************)
EXTENDS Sequences, Naturals, FiniteSets

CONSTANTS People,      \* user ids
          Groups,      \* group ids
          Roles,       \* role ids besides "viewer"
          Permissions, \* permissions, as sequences of their dotted parts
          Grants,      \* what every role grants: a set of patterns
          Segments,    \* parts such as ":id", which stand for any one part
          RegexMatches \* pairs of a permission and a pattern that is not plain: what
                       \* casbin's keyMatch2 makes of it as a regular expression

ASSUME AccessAssumption == /\ Permissions \subseteq Seq(STRING) \ {<<>>}
                           /\ \A role \in DOMAIN Grants : Grants[role] \subseteq Seq(STRING)

VARIABLES cfg,         \* users and groups of the configuration
          asked        \* the last decision

accessVars == <<cfg, asked>>

AllRoles == Roles \cup {"viewer"}
NoGrant == [role \in AllRoles |-> IF role \in DOMAIN Grants THEN Grants[role] ELSE {}]

UserRecord == [roles: SUBSET AllRoles, groups: SUBSET Groups]
GroupRecord == [roles: SUBSET AllRoles, members: SUBSET People, active: BOOLEAN]

\* normalizeUser: a user without a role becomes a viewer.
NormalizeUser(u) == IF u.roles = {} THEN [u EXCEPT !.roles = {"viewer"}] ELSE u

\* Mutant: only the groups are told.
SyncGroupMembershipsOneWay(users, groups) ==
    [users  |-> users,
     groups |-> [g \in Groups |-> [groups[g] EXCEPT !.members = @ \cup {u \in People : g \in users[u].groups}]]]

\* syncGroupMemberships: each side gets what the other side says.
SyncGroupMemberships(users, groups) ==
    LET member(u, g) == g \in users[u].groups \/ u \in groups[g].members IN
    [users  |-> [u \in People |-> [users[u] EXCEPT !.groups = {g \in Groups : member(u, g)}]],
     groups |-> [g \in Groups |-> [groups[g] EXCEPT !.members = {u \in People : member(u, g)}]]]

\* normalizeConfig, as far as users and groups go.
NormalizeConfig(users, groups) ==
    SyncGroupMemberships([u \in People |-> NormalizeUser(users[u])], groups)

\* effectiveRoleIDs: the user's own roles and those of its active groups.
EffectiveRoleIDs(c, u) ==
    c.users[u].roles \cup
    UNION {c.groups[g].roles : g \in {h \in Groups :
             c.groups[h].active /\ (h \in c.users[u].groups \/ u \in c.groups[h].members)}}

\* Mutant: "a.*" also grants "a" itself.
MatchesLoose(perm, pattern) ==
    LET n == Len(pattern) IN
    pattern = perm \/ (n > 0 /\ pattern[n] = "*" /\ Len(perm) >= n - 1
                       /\ SubSeq(perm, 1, n - 1) = SubSeq(pattern, 1, n - 1))

\* A pattern without a wildcard, "*", or "a.*", as the shipped roles have them.  In
\* others a star or a ":segment" in the middle is a wildcard too, and before a last
\* ".*" normalizePermissionPattern leaves dots, which match any character.
Plain(pattern) == \A i \in DOMAIN pattern :
    pattern[i] \notin Segments /\ (pattern[i] = "*" => i = Len(pattern) /\ i <= 2)

\* keyMatch2 of a pattern: "*" is <<"*">>, "a.b.*" is <<"a", "b", "*">>.
Matches(perm, pattern) ==
    LET n == Len(pattern) IN
    \/ pattern = perm
    \/ ~Plain(pattern) /\ <<perm, pattern>> \in RegexMatches
    \/ /\ n > 0 /\ pattern[n] = "*"
       /\ IF n = 1 THEN TRUE ELSE Len(perm) >= n /\ SubSeq(perm, 1, n - 1) = SubSeq(pattern, 1, n - 1)

\* buildPermissionEnforcer and Enforce: some role of the principal grants it.
Enforce(roles, perm) == \E role \in roles : \E pattern \in NoGrant[role] : Matches(perm, pattern)

\* Evaluate without an enforcer: every proper prefix with ".*" is looked up.
EvaluatePrefixes(permission, perm) ==
    \/ <<"*">> \in permission \/ perm \in permission
    \/ \E i \in 1 .. Len(perm) - 1 : Append(SubSeq(perm, 1, i), "*") \in permission

\* buildPrincipal: the union of what the effective roles grant.
PrincipalPermission(c, u) == UNION {NoGrant[role] : role \in EffectiveRoleIDs(c, u)}

\* Evaluate: the principal's permissions first, then the enforcer.
Evaluate(c, u, perm) == \/ <<"*">> \in PrincipalPermission(c, u)
                        \/ perm \in PrincipalPermission(c, u)
                        \/ Enforce(EffectiveRoleIDs(c, u), perm)

Nothing == [op |-> "none"]

AccessInit == /\ cfg = NormalizeConfig([u \in People |-> [roles |-> {}, groups |-> {}]],
                                       [g \in Groups |-> [roles |-> {}, members |-> {}, active |-> TRUE]])
              /\ asked = Nothing

Saved(users, groups) == cfg' = NormalizeConfig(users, groups)

\* usersHandler, userDetailHandler: UpsertUser.
UpsertUser(u, rec) == /\ Saved([cfg.users EXCEPT ![u] = rec], cfg.groups)
                      /\ asked' = Nothing

\* groupsHandler, groupDetailHandler: UpsertGroup, SetGroupStatus.
UpsertGroup(g, rec) == /\ Saved(cfg.users, [cfg.groups EXCEPT ![g] = rec])
                       /\ asked' = Nothing

\* BindRole: the role is added to the users and groups named.
BindRole(role, us, gs) ==
    /\ Saved([u \in People |-> IF u \in us THEN [cfg.users[u] EXCEPT !.roles = @ \cup {role}] ELSE cfg.users[u]],
             [g \in Groups |-> IF g \in gs THEN [cfg.groups[g] EXCEPT !.roles = @ \cup {role}] ELSE cfg.groups[g]])
    /\ asked' = Nothing

\* UnbindRole: it is removed from the users and groups named.
UnbindRole(role, us, gs) ==
    /\ Saved([u \in People |-> IF u \in us THEN [cfg.users[u] EXCEPT !.roles = @ \ {role}] ELSE cfg.users[u]],
             [g \in Groups |-> IF g \in gs THEN [cfg.groups[g] EXCEPT !.roles = @ \ {role}] ELSE cfg.groups[g]])
    /\ asked' = Nothing

\* SetRoleBindings: added where wanted, removed elsewhere; a user left without
\* a role is made a viewer again, also when the role was "viewer".
SetRoleBindings(role, us, gs) ==
    LET bound(want, rec) == [rec EXCEPT !.roles = IF want THEN @ \cup {role} ELSE @ \ {role}] IN
    /\ Saved([u \in People |-> bound(u \in us, cfg.users[u])],
             [g \in Groups |-> bound(g \in gs, cfg.groups[g])])
    /\ asked' = Nothing

\* requireAuthenticatedPrincipal: one decision of the running server.
Decide(u, perm) == /\ asked' = [op |-> "decide", user |-> u, perm |-> perm,
                               allowed |-> Evaluate(cfg, u, perm)]
                   /\ UNCHANGED cfg

AccessNext ==
    \/ \E u \in People, rec \in UserRecord : UpsertUser(u, rec)
    \/ \E g \in Groups, rec \in GroupRecord : UpsertGroup(g, rec)
    \/ \E role \in AllRoles, us \in SUBSET People, gs \in SUBSET Groups :
          BindRole(role, us, gs) \/ UnbindRole(role, us, gs) \/ SetRoleBindings(role, us, gs)
    \/ \E u \in People, perm \in Permissions : Decide(u, perm)

AccessSpec == AccessInit /\ [][AccessNext]_accessVars

-----------------------------------------------------------------------------
(* Properties. *)

\* After any sequence of edits the two sides of every membership agree, every
\* user has a role, and what a user's effective roles are does not depend on
\* which side is read.
MembershipAgrees ==
    \A u \in People : /\ cfg.users[u].roles # {}
                      /\ \A g \in Groups : g \in cfg.users[u].groups <=> u \in cfg.groups[g].members

\* The decision through the casbin enforcer allows all that the prefix search of
\* Evaluate would on the principal's own permissions, and nothing else unless the
\* principal holds a pattern that is not plain: of such a pattern only the enforcer
\* sees every wildcard.
DecisionsAgree ==
    asked.op = "decide" =>
        LET held == PrincipalPermission(cfg, asked.user)
            found == EvaluatePrefixes(held, asked.perm)
        IN  /\ found => asked.allowed
            /\ asked.allowed => found \/ \E pattern \in held : ~Plain(pattern)

\* No sequence of edits takes the two sides of a membership apart or makes the
\* two ways of deciding a permission disagree on plain patterns.
DirectorySound == MembershipAgrees /\ DecisionsAgree
=============================================================================
