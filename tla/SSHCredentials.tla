--------------------------- MODULE SSHCredentials ---------------------------
(***************************************************************************)
(* One SSH credential under custody: its row in ssh_credentials, its key   *)
(* and passphrase in the encrypted vault, administrators who create,       *)
(* update, switch and delete it, and executions that resolve it.  Every    *)
(* operation reads the row, works on its copy and saves the copy; nothing  *)
(* locks the row in between.  Material is a version number.                *)
(***************************************************************************)
EXTENDS Integers

CONSTANTS
    Admins,        \* administrators, one request each at a time
    Resolvers,     \* executions and probes that need the material
    Hosts,
    MaxPuts,       \* bound: keys stored
    MaxAdminOps,   \* bound: administrator requests
    MaxResolves,   \* bound: resolutions
    MaxVaultFaults \* bound: failed vault or database calls

ASSUME CredAssumption ==
    MaxPuts \in Nat /\ MaxAdminOps \in Nat /\ MaxResolves \in Nat /\ MaxVaultFaults \in Nat

VARIABLES
    row,        \* the stored row
    vault,      \* key and passphrase: [v, id], v = 0 when absent
    custody,    \* the key id of the running configuration
    admin,      \* what each administrator's request is doing
    resolve,    \* what each resolution is doing
    puts, adminOps, resolves, vaultFaults,
    gone,       \* history: newest version when the last acknowledged deletion emptied the vault
    leftover,   \* history: did deleting from the vault fail
    blocked,    \* history: acknowledged as switched off, no request since
    mustRotate, \* history: marked rotation_required, no key stored since
    used        \* history: material handed out

credVars == <<row, vault, custody, admin, resolve, puts, adminOps, resolves, vaultFaults,
              gone, leftover, blocked, mustRotate, used>>
credHistory == <<gone, leftover, blocked, mustRotate, used>>

NoSecret == [v |-> 0, id |-> 0]
NoRow == [st |-> "none", scope |-> {}, exp |-> "never", phrase |-> FALSE]
Quiet == [pc |-> "idle", copy |-> NoRow, phrase |-> FALSE, upto |-> 0]
NoResolve == [pc |-> "idle", copy |-> NoRow, host |-> "none", key |-> 0, base |-> 0, off |-> FALSE]

Rows == [st : {"none", "active", "disabled", "rotation_required", "deleted"},
         scope : SUBSET Hosts, exp : {"never", "later", "past"}, phrase : BOOLEAN]
Secrets == [v : 0..MaxPuts, id : 0..1]

CredTypeOK ==
    /\ row \in Rows /\ vault \in [key : Secrets, phrase : Secrets] /\ custody \in {0, 1}
    /\ \A a \in Admins : /\ admin[a].pc \in {"idle", "key", "phrase", "drop", "save"}
                         /\ admin[a].copy \in Rows
    /\ \A k \in Resolvers : /\ resolve[k].pc \in {"idle", "expire", "key", "phrase"}
                            /\ resolve[k].copy \in Rows
    /\ puts \in 0..MaxPuts /\ adminOps \in 0..MaxAdminOps /\ resolves \in 0..MaxResolves
    /\ vaultFaults \in 0..MaxVaultFaults
    /\ gone \in 0..MaxPuts
    /\ leftover \in BOOLEAN /\ blocked \in BOOLEAN /\ mustRotate \in BOOLEAN
    /\ used \in SUBSET [key : 1..MaxPuts, base : 0..MaxPuts, off : BOOLEAN]

CredInit ==
    /\ row = NoRow /\ vault = [key |-> NoSecret, phrase |-> NoSecret] /\ custody = 0
    /\ admin = [a \in Admins |-> Quiet] /\ resolve = [k \in Resolvers |-> NoResolve]
    /\ puts = 0 /\ adminOps = 0 /\ resolves = 0 /\ vaultFaults = 0
    /\ gone = 0 /\ leftover = FALSE /\ blocked = FALSE /\ mustRotate = FALSE /\ used = {}

Exists == row.st \notin {"none", "deleted"}

-----------------------------------------------------------------------------
(* Administrators: read and check.                                         *)

Request(a, pc, copy, phrase) ==
    /\ admin[a].pc = "idle" /\ adminOps < MaxAdminOps
    /\ adminOps' = adminOps + 1
    /\ admin' = [admin EXCEPT ![a] = [pc |-> pc, copy |-> copy, phrase |-> phrase, upto |-> 0]]
    /\ blocked' = FALSE
    /\ UNCHANGED <<row, vault, custody, resolve, puts, resolves, vaultFaults,
                   gone, leftover, mustRotate, used>>

\* Create, of a new credential or in place of a deleted one
Create(a) ==
    /\ ~Exists
    /\ \E s \in SUBSET Hosts, e \in {"never", "later"}, p \in BOOLEAN :
          Request(a, "key", [st |-> "active", scope |-> s, exp |-> e, phrase |-> p], p)

\* Update replaces scope and expiry; with a key it also rotates
UpdateFields(a) ==
    /\ Exists
    /\ \E s \in SUBSET Hosts, e \in {"never", "later"} :
          Request(a, "save", [row EXCEPT !.scope = s, !.exp = e], FALSE)

Rotate(a) ==
    /\ Exists
    /\ \E e \in {"never", "later"}, p \in BOOLEAN :
          Request(a, "key", [row EXCEPT !.exp = e, !.st = "active"], p)

\* SetStatus: enable, disable, rotation-required
SetStatus(a, st) ==
    /\ Exists
    /\ ~(row.st = "rotation_required" /\ st = "active")
    /\ Request(a, "save", [row EXCEPT !.st = st], FALSE)

Delete(a) == Exists /\ Request(a, "drop", [row EXCEPT !.st = "deleted"], FALSE)

-----------------------------------------------------------------------------
(* Administrators: the vault, then the row.                                *)

GoOn(a, pc) == admin' = [admin EXCEPT ![a].pc = pc]

\* vault.Put of the key, sealed with the key in custody
StoreKey(a) ==
    /\ admin[a].pc = "key" /\ puts < MaxPuts
    /\ puts' = puts + 1
    /\ vault' = [vault EXCEPT !.key = [v |-> puts + 1, id |-> custody]]
    /\ mustRotate' = FALSE
    /\ GoOn(a, IF admin[a].phrase THEN "phrase" ELSE "save")
    /\ UNCHANGED <<row, custody, resolve, adminOps, resolves, vaultFaults, gone, leftover,
                   blocked, used>>

\* vault.Put of the passphrase.  A row created without one has no reference to
\* store it under: the request fails, although the key has been replaced
StorePhrase(a) ==
    /\ admin[a].pc = "phrase"
    /\ IF admin[a].copy.phrase
       THEN vault' = [vault EXCEPT !.phrase = [v |-> vault.key.v, id |-> custody]] /\ GoOn(a, "save")
       ELSE UNCHANGED vault /\ GoOn(a, "idle")
    /\ UNCHANGED <<row, custody, resolve, puts, adminOps, resolves, vaultFaults, credHistory>>

\* Delete empties the vault first and ignores errors of the vault
DropSecrets_RowOnly(a) ==
    /\ admin[a].pc = "drop"
    /\ admin' = [admin EXCEPT ![a].pc = "save", ![a].upto = puts]
    /\ UNCHANGED <<row, vault, custody, resolve, puts, adminOps, resolves, vaultFaults, credHistory>>

DropSecrets(a) ==
    /\ admin[a].pc = "drop"
    /\ \/ /\ vault' = [key |-> NoSecret,
                       phrase |-> IF admin[a].copy.phrase THEN NoSecret ELSE vault.phrase]
          /\ UNCHANGED <<vaultFaults, leftover>>
       \/ /\ vaultFaults < MaxVaultFaults
          /\ vaultFaults' = vaultFaults + 1 /\ leftover' = TRUE
          /\ UNCHANGED vault
    /\ admin' = [admin EXCEPT ![a].pc = "save", ![a].upto = puts]
    /\ UNCHANGED <<row, custody, resolve, puts, adminOps, resolves, gone, blocked, mustRotate, used>>

Alone(a) == \A b \in Admins \ {a} : admin[b].pc = "idle"

\* repo.Save of the whole copy
SaveRow_KeepsStatus(a) ==
    /\ admin[a].pc = "save"
    /\ row' = [admin[a].copy EXCEPT !.st = IF row.st = "none" THEN @ ELSE row.st]
    /\ blocked' = (admin[a].copy.st # "active" /\ Alone(a))
    /\ gone' = IF admin[a].copy.st = "deleted" THEN admin[a].upto ELSE gone
    /\ mustRotate' = (mustRotate \/ admin[a].copy.st = "rotation_required")
    /\ admin' = [admin EXCEPT ![a] = Quiet]
    /\ UNCHANGED <<vault, custody, resolve, puts, adminOps, resolves, vaultFaults, leftover, used>>

SaveRow(a) ==
    /\ admin[a].pc = "save"
    /\ row' = admin[a].copy
    /\ blocked' = (admin[a].copy.st # "active" /\ Alone(a))
    /\ gone' = IF admin[a].copy.st = "deleted" THEN admin[a].upto ELSE gone
    /\ mustRotate' = (mustRotate \/ admin[a].copy.st = "rotation_required")
    /\ admin' = [admin EXCEPT ![a] = Quiet]
    /\ UNCHANGED <<vault, custody, resolve, puts, adminOps, resolves, vaultFaults, leftover, used>>

\* a vault or database call fails and the request with it
AdminFails(a) ==
    /\ admin[a].pc \in {"key", "phrase", "save"} /\ vaultFaults < MaxVaultFaults
    /\ vaultFaults' = vaultFaults + 1
    /\ admin' = [admin EXCEPT ![a] = Quiet]
    /\ UNCHANGED <<row, vault, custody, resolve, puts, adminOps, resolves, credHistory>>

-----------------------------------------------------------------------------
(* ResolveWithOptions.  The checks before the vault are on one copy of the *)
(* row; without any of them the call returns an error.                     *)

Allowed(r, h) == r.st = "active" /\ h \in r.scope

BeginResolve(k, h) ==
    /\ resolve[k].pc = "idle" /\ resolves < MaxResolves /\ Exists
    /\ resolves' = resolves + 1
    /\ row.exp = "past" \/ Allowed(row, h)
    /\ resolve' = [resolve EXCEPT ![k] = [NoResolve EXCEPT
                      !.pc = IF row.exp = "past" THEN "expire" ELSE "key",
                      !.copy = row, !.host = h, !.base = gone, !.off = blocked]]
    /\ UNCHANGED <<row, vault, custody, admin, puts, adminOps, vaultFaults, credHistory>>

\* an expired credential is marked, with the copy read before, and refused
MarkExpired_Named(k) ==
    /\ resolve[k].pc = "expire"
    /\ row' = [resolve[k].copy EXCEPT !.st = "expired"]
    /\ mustRotate' = TRUE
    /\ resolve' = [resolve EXCEPT ![k] = NoResolve]
    /\ UNCHANGED <<vault, custody, admin, puts, adminOps, resolves, vaultFaults, gone, leftover,
                   blocked, used>>

MarkExpired(k) ==
    /\ resolve[k].pc = "expire"
    /\ row' = [resolve[k].copy EXCEPT !.st = "rotation_required"]
    /\ mustRotate' = TRUE
    /\ resolve' = [resolve EXCEPT ![k] = NoResolve]
    /\ UNCHANGED <<vault, custody, admin, puts, adminOps, resolves, vaultFaults, gone, leftover,
                   blocked, used>>

HandOut(k, key) ==
    used' = used \cup {[key |-> key, base |-> resolve[k].base, off |-> resolve[k].off]}

\* Metadata and Get of the key: present, and sealed under the key in custody
Sealed_AnyId(s) == s.v # 0

Sealed(s) == s.v # 0 /\ s.id = custody

ReadKey(k) ==
    /\ resolve[k].pc = "key"
    /\ IF ~Sealed(vault.key) THEN resolve' = [resolve EXCEPT ![k] = NoResolve] /\ UNCHANGED used
       ELSE IF resolve[k].copy.phrase
            THEN resolve' = [resolve EXCEPT ![k].pc = "phrase", ![k].key = vault.key.v]
                 /\ UNCHANGED used
            ELSE resolve' = [resolve EXCEPT ![k] = NoResolve] /\ HandOut(k, vault.key.v)
    /\ UNCHANGED <<row, vault, custody, admin, puts, adminOps, resolves, vaultFaults,
                   gone, leftover, blocked, mustRotate>>

ReadPhrase(k) ==
    /\ resolve[k].pc = "phrase"
    /\ IF Sealed(vault.phrase) THEN HandOut(k, resolve[k].key) ELSE UNCHANGED used
    /\ resolve' = [resolve EXCEPT ![k] = NoResolve]
    /\ UNCHANGED <<row, vault, custody, admin, puts, adminOps, resolves, vaultFaults,
                   gone, leftover, blocked, mustRotate>>

-----------------------------------------------------------------------------
(* Time, and a restart with another custody key.                           *)

TimePasses ==
    /\ row.exp = "later"
    /\ row' = [row EXCEPT !.exp = "past"]
    /\ UNCHANGED <<vault, custody, admin, resolve, puts, adminOps, resolves, vaultFaults, credHistory>>

Rekey ==
    /\ custody = 0 /\ custody' = 1
    /\ admin' = [a \in Admins |-> Quiet] /\ resolve' = [k \in Resolvers |-> NoResolve]
    /\ UNCHANGED <<row, vault, puts, adminOps, resolves, vaultFaults, credHistory>>

CredNext ==
    \/ \E a \in Admins :
          \/ Create(a) \/ UpdateFields(a) \/ Rotate(a) \/ Delete(a)
          \/ \E st \in {"active", "disabled", "rotation_required"} : SetStatus(a, st)
          \/ StoreKey(a) \/ StorePhrase(a) \/ DropSecrets(a) \/ SaveRow(a) \/ AdminFails(a)
    \/ \E k \in Resolvers : \/ \E h \in Hosts : BeginResolve(k, h)
                            \/ MarkExpired(k) \/ ReadKey(k) \/ ReadPhrase(k)
    \/ TimePasses \/ Rekey

CredSpec == CredInit /\ [][CredNext]_credVars

-----------------------------------------------------------------------------
(* What the two readers of a credential say of the state as it is.         *)

\* ResolveWithOptions for host h, undisturbed
Resolvable(h) ==
    /\ Exists /\ row.exp # "past" /\ Allowed(row, h)
    /\ Sealed(vault.key) /\ (row.phrase => Sealed(vault.phrase))

\* Inventory: expiry, then the key's presence and custody override the status
InventoryStatus ==
    IF vault.key.v = 0 THEN "missing"
    ELSE IF vault.key.id # custody THEN "invalid_secret_ref"
    ELSE IF row.exp = "past" THEN "rotation_required" ELSE row.st

\* Delete: a resolution begun after a deletion was acknowledged never returns
\* material stored before it emptied the vault, although an overlapping request may
\* save the row again; only an ignored failure of the vault may leave the material there
DeletedNotResolved == leftover \/ \A x \in used : x.key > x.base

\* SetStatus: once switching a credential off was acknowledged and nobody asked for
\* anything since, no resolution returns material, whatever copies were being saved
BlockedNotResolved == \A x \in used : ~x.off

\* Inventory never reports a credential as unusable that resolves for some host
InventoryAgrees == (\E h \in Hosts : Resolvable(h)) => InventoryStatus = "active"

\* SetStatus: a credential marked rotation_required is not active again before new
\* material was stored
RotationCleared == row.st = "active" => ~mustRotate

\* A deleted or blocked credential hands out no material, and the inventory
\* condemns none that still does.
CredentialsSound == CredTypeOK /\ DeletedNotResolved /\ BlockedNotResolved /\ InventoryAgrees
=============================================================================
