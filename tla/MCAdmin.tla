------------------------------ MODULE MCAdmin ------------------------------
(***************************************************************************)
(* What administrators and users do to the server, for TLC.  The logins    *)
(* (Login), the directory of users, groups and roles (AccessRoles) and the *)
(* saving of configuration (ConfigStores) touch different state, so a      *)
(* behaviour moves one of them, part, and the others stay where they began.*)
(***************************************************************************)
EXTENDS Login, AccessRoles, ConfigStores, TLC

VARIABLE part

MCPermissions == {<<"auth">>, <<"auth", "read">>, <<"auth", "keys", "read">>, <<"org", "read">>}
MCGrants == [viewer  |-> {<<"org", "read">>, <<"org", "read", "*">>, <<"auth", "*", "read">>},
             auditor |-> {<<"auth", "*">>},
             admin   |-> {<<"*">>}]
MCRegexMatches == {<<<<"auth", "keys", "read">>, <<"auth", "*", "read">>>>}

MCInit == /\ part \in {"login", "roles", "stores"}
          /\ Init /\ AccessInit /\ StoresInit
          /\ part # "login" => \A u \in Users : users[u] = "active"
          /\ part # "stores" => mgr = "org" /\ hasFile /\ hasDB

MCNext == /\ part' = part
          /\ \/ part = "login" /\ Next /\ UNCHANGED <<accessVars, storeVars>>
             \/ part = "roles" /\ AccessNext /\ UNCHANGED <<vars, storeVars>>
             \/ part = "stores" /\ StoresNext /\ UNCHANGED <<vars, accessVars>>

MCSpec == MCInit /\ [][MCNext]_<<part, vars, accessVars, storeVars>>

Symmetry == Permutations(Ids) \cup Permutations(Clients) \cup Permutations(Editors)
=============================================================================
