--------------------------- MODULE ChannelProofs ---------------------------
(***************************************************************************)
(* Proofs about the Telegram channel, the triggers and the custody of SSH  *)
(* credentials, for any number of updates, handlers, triggers,             *)
(* administrators and resolutions.                                         *)
(***************************************************************************)
EXTENDS Telegram, Triggers, SSHCredentials, FiniteSetTheorems, TLAPS

-----------------------------------------------------------------------------
(* SSH credentials.  The inductive invariant.                              *)

AdminRecord == [pc : {"idle", "key", "phrase", "drop", "save"}, copy : Rows, phrase : BOOLEAN, upto : 0 .. MaxPuts]
ResolveRecord == [pc : {"idle", "expire", "key", "phrase"}, copy : Rows, host : Hosts \cup {"none"},
                  key : 0 .. MaxPuts, base : 0 .. MaxPuts, off : BOOLEAN]

CredShape ==
    /\ admin \in [Admins -> AdminRecord] /\ resolve \in [Resolvers -> ResolveRecord]
    /\ \A k \in Resolvers : resolve[k].pc = "phrase" => resolve[k].key # 0

\* The vault holds no key of version n or older, unless deleting one failed.
Emptied(n) == n <= puts /\ (leftover \/ vault.key.v = 0 \/ vault.key.v > n)

\* So it is up to the version of the last acknowledged deletion, of one under way,
\* and of the one a resolution began after; a key already read is newer.
CredEmptied ==
    /\ Emptied(gone)
    /\ \A a \in Admins : Emptied(admin[a].upto)
    /\ \A k \in Resolvers : /\ Emptied(resolve[k].base)
                            /\ resolve[k].pc = "phrase" => leftover \/ resolve[k].key > resolve[k].base

\* A credential is not active while it counts as switched off, so no resolution
\* begun then gets as far as the vault.
CredBlocked ==
    /\ blocked => row.st # "active"
    /\ \A k \in Resolvers : resolve[k].pc \in {"key", "phrase"} => ~resolve[k].off

CredInv == CredTypeOK /\ CredShape /\ CredEmptied /\ CredBlocked /\ DeletedNotResolved /\ BlockedNotResolved

-----------------------------------------------------------------------------
(* SSH credentials.  Every action keeps the invariant.                     *)

\* Edits of a row's fields give a row.
LEMMA RowEdits ==
    ASSUME NEW r \in Rows, NEW s \in SUBSET Hosts, NEW e \in {"never", "later", "past"},
           NEW st \in {"none", "active", "disabled", "rotation_required", "deleted"}, NEW p \in BOOLEAN
    PROVE  /\ [r EXCEPT !.scope = s, !.exp = e] \in Rows
           /\ [r EXCEPT !.exp = e, !.st = st] \in Rows
           /\ [r EXCEPT !.st = st] \in Rows /\ [r EXCEPT !.st = st].st = st
           /\ [r EXCEPT !.exp = e] \in Rows /\ [r EXCEPT !.exp = e].st = r.st
           /\ [st |-> st, scope |-> s, exp |-> e, phrase |-> p] \in Rows
    BY DEF Rows

\* What stands for no request and no resolution is well formed.
LEMMA RestingRecords ==
    /\ NoRow \in Rows
    /\ Quiet \in AdminRecord /\ Quiet.pc = "idle" /\ Quiet.upto = 0
    /\ NoResolve \in ResolveRecord /\ NoResolve.pc = "idle" /\ NoResolve.base = 0
<1>1. NoRow \in Rows
    BY DEF NoRow, Rows
<1>2. 0 \in 0 .. MaxPuts
    BY CredAssumption
<1>3. Quiet \in AdminRecord /\ Quiet.pc = "idle" /\ Quiet.upto = 0
    BY <1>1, <1>2 DEF Quiet, AdminRecord
<1>4. NoResolve \in ResolveRecord /\ NoResolve.pc = "idle" /\ NoResolve.base = 0
    BY <1>1, <1>2 DEF NoResolve, ResolveRecord
<1> QED
    BY <1>1, <1>3, <1>4

\* The type invariant asks no more of the requests than their shape does.
LEMMA CredTyped ==
    ASSUME CredShape
    PROVE  /\ \A a \in Admins : /\ admin[a].pc \in {"idle", "key", "phrase", "drop", "save"}
                                /\ admin[a].copy \in Rows /\ admin[a].phrase \in BOOLEAN
                                /\ admin[a].upto \in 0 .. MaxPuts
           /\ \A k \in Resolvers : /\ resolve[k].pc \in {"idle", "expire", "key", "phrase"}
                                   /\ resolve[k].copy \in Rows
                                   /\ resolve[k].key \in 0 .. MaxPuts /\ resolve[k].base \in 0 .. MaxPuts
                                   /\ resolve[k].off \in BOOLEAN
<1>1. \A r \in AdminRecord : /\ r.pc \in {"idle", "key", "phrase", "drop", "save"} /\ r.copy \in Rows
                             /\ r.phrase \in BOOLEAN /\ r.upto \in 0 .. MaxPuts
    BY DEF AdminRecord
<1>2. \A r \in ResolveRecord : /\ r.pc \in {"idle", "expire", "key", "phrase"} /\ r.copy \in Rows
                               /\ r.key \in 0 .. MaxPuts /\ r.base \in 0 .. MaxPuts /\ r.off \in BOOLEAN
    BY DEF ResolveRecord
<1>3. /\ \A a \in Admins : admin[a] \in AdminRecord
      /\ \A k \in Resolvers : resolve[k] \in ResolveRecord
    BY DEF CredShape
<1> QED
    BY <1>1, <1>2, <1>3

\* The credential starts out absent and nothing is under way.
LEMMA CredInitial == CredInit => CredInv
<1> SUFFICES ASSUME CredInit PROVE CredInv
    OBVIOUS
<1>1. CredShape
  <2>1. \A k \in Resolvers : resolve[k].pc = "idle"
    BY RestingRecords DEF CredInit
  <2> QED
    BY <2>1, RestingRecords DEF CredInit, CredShape
<1>2. vault \in [key : Secrets, phrase : Secrets] /\ vault.key.v = 0
    BY CredAssumption DEF CredInit, NoSecret, Secrets
<1>3. CredTypeOK
  <2>1. puts \in 0..MaxPuts /\ adminOps \in 0..MaxAdminOps /\ resolves \in 0..MaxResolves
        /\ vaultFaults \in 0..MaxVaultFaults /\ gone \in 0..MaxPuts
    BY CredAssumption DEF CredInit
  <2>2. row \in Rows /\ custody \in {0, 1} /\ used = {}
    BY RestingRecords DEF CredInit
  <2>3. leftover \in BOOLEAN /\ blocked \in BOOLEAN /\ mustRotate \in BOOLEAN
    BY DEF CredInit
  <2> QED
    BY <1>1, <1>2, <2>1, <2>2, <2>3, CredTyped DEF CredTypeOK
<1>4. CredEmptied
  <2>1. /\ \A a \in Admins : admin[a].upto = 0
        /\ \A k \in Resolvers : resolve[k].base = 0 /\ resolve[k].pc = "idle"
    BY RestingRecords DEF CredInit
  <2>2. puts = 0 /\ gone = 0
    BY DEF CredInit
  <2> QED
    BY <1>2, <2>1, <2>2 DEF CredEmptied, Emptied
<1>5. CredBlocked
  <2>1. \A k \in Resolvers : resolve[k].pc = "idle"
    BY RestingRecords DEF CredInit
  <2> QED
    BY <2>1 DEF CredInit, CredBlocked
<1> QED
    BY <1>1, <1>3, <1>4, <1>5 DEF CredInv, CredInit, DeletedNotResolved, BlockedNotResolved

\* Replacing one request by a well-formed one keeps the shape of all.
LEMMA AdminReplaced ==
    ASSUME CredShape, NEW a \in Admins, NEW r \in AdminRecord,
           admin' = [admin EXCEPT ![a] = r]
    PROVE  /\ admin' \in [Admins -> AdminRecord] /\ admin'[a] = r
           /\ \A b \in Admins : b # a => admin'[b] = admin[b]
    BY DEF CredShape

\* The same of a resolution.
LEMMA ResolveReplaced ==
    ASSUME CredShape, NEW k \in Resolvers, NEW r \in ResolveRecord,
           resolve' = [resolve EXCEPT ![k] = r]
    PROVE  /\ resolve' \in [Resolvers -> ResolveRecord] /\ resolve'[k] = r
           /\ \A j \in Resolvers : j # k => resolve'[j] = resolve[j]
    BY DEF CredShape

\* An administrator's new request: a copy of the row is made and nothing is stored.
LEMMA RequestKeeps ==
    ASSUME CredInv, NEW a \in Admins, NEW pc \in {"key", "save", "drop"}, NEW copy \in Rows,
           NEW p \in BOOLEAN, Request(a, pc, copy, p)
    PROVE  CredInv'
<1> DEFINE R == [pc |-> pc, copy |-> copy, phrase |-> p, upto |-> 0]
<1>1. R \in AdminRecord /\ R.upto = 0
    BY CredAssumption DEF AdminRecord
<1>2. admin' = [admin EXCEPT ![a] = R]
    BY DEF Request
<1> HIDE DEF R
<1>3. /\ admin' \in [Admins -> AdminRecord] /\ admin'[a] = R
      /\ \A b \in Admins : b # a => admin'[b] = admin[b]
    BY <1>1, <1>2, AdminReplaced DEF CredInv
<1>4. CredShape'
    BY <1>3 DEF CredInv, CredShape, Request
<1>5. adminOps' \in 0 .. MaxAdminOps
    BY CredAssumption DEF CredInv, CredTypeOK, Request
<1>6. CredTypeOK'
  <2>1. \A b \in Admins : admin'[b].pc \in {"idle", "key", "phrase", "drop", "save"} /\ admin'[b].copy \in Rows
    BY <1>3 DEF AdminRecord
  <2> QED
    BY <1>5, <2>1 DEF CredInv, CredTypeOK, Request
<1>7. CredEmptied'
  <2>1. Emptied(0)
    BY CredAssumption DEF CredInv, CredTypeOK, Secrets, Emptied
  <2>2. \A b \in Admins : Emptied(admin'[b].upto)
    BY <1>1, <1>3, <2>1 DEF CredInv, CredEmptied
  <2>3. UNCHANGED <<vault, resolve, puts, gone, leftover>>
    BY DEF Request
  <2> QED
    BY <2>2, <2>3 DEF CredInv, CredEmptied, Emptied
<1>8. CredBlocked'
    BY DEF CredInv, CredBlocked, Request
<1> QED
    BY <1>4, <1>6, <1>7, <1>8 DEF CredInv, Request, DeletedNotResolved, BlockedNotResolved

\* Requests that only copy the row.
LEMMA CredAsksKeep ==
    ASSUME CredInv, NEW a \in Admins,
           \/ Create(a) \/ UpdateFields(a) \/ Rotate(a) \/ Delete(a)
           \/ \E st \in {"active", "disabled", "rotation_required"} : SetStatus(a, st)
    PROVE  CredInv'
<1>1. row \in Rows
    BY DEF CredInv, CredTypeOK
<1>2. CASE Create(a)
  <2>1. PICK s \in SUBSET Hosts, e \in {"never", "later"}, p \in BOOLEAN :
            Request(a, "key", [st |-> "active", scope |-> s, exp |-> e, phrase |-> p], p)
    BY <1>2 DEF Create
  <2>2. [st |-> "active", scope |-> s, exp |-> e, phrase |-> p] \in Rows
    BY DEF Rows
  <2> QED
    BY <2>1, <2>2, RequestKeeps
<1>3. CASE UpdateFields(a)
  <2>1. PICK s \in SUBSET Hosts, e \in {"never", "later"} :
            Request(a, "save", [row EXCEPT !.scope = s, !.exp = e], FALSE)
    BY <1>3 DEF UpdateFields
  <2>2. [row EXCEPT !.scope = s, !.exp = e] \in Rows
    BY <1>1, RowEdits
  <2> QED
    BY <2>1, <2>2, RequestKeeps
<1>4. CASE Rotate(a)
  <2>1. PICK e \in {"never", "later"}, p \in BOOLEAN :
            Request(a, "key", [row EXCEPT !.exp = e, !.st = "active"], p)
    BY <1>4 DEF Rotate
  <2>2. [row EXCEPT !.exp = e, !.st = "active"] \in Rows
    BY <1>1, RowEdits
  <2> QED
    BY <2>1, <2>2, RequestKeeps
<1>5. CASE Delete(a)
  <2>1. [row EXCEPT !.st = "deleted"] \in Rows
    BY <1>1, RowEdits
  <2> QED
    BY <1>5, <2>1, RequestKeeps DEF Delete
<1>6. ASSUME NEW st \in {"active", "disabled", "rotation_required"}, SetStatus(a, st)
      PROVE  CredInv'
  <2>1. [row EXCEPT !.st = st] \in Rows
    BY <1>1, RowEdits
  <2> QED
    BY <1>6, <2>1, RequestKeeps DEF SetStatus
<1> QED
    BY <1>2, <1>3, <1>4, <1>5, <1>6

\* A request goes on with another step: its copy and its version stay.
LEMMA GoOnKeeps ==
    ASSUME CredShape, NEW a \in Admins, NEW pc \in {"idle", "key", "phrase", "drop", "save"}, GoOn(a, pc)
    PROVE  /\ admin' \in [Admins -> AdminRecord]
           /\ \A b \in Admins : admin'[b].upto = admin[b].upto
<1>1. \A r \in AdminRecord : [r EXCEPT !.pc = pc] \in AdminRecord /\ [r EXCEPT !.pc = pc].upto = r.upto
    BY DEF AdminRecord
<1>2. admin[a] \in AdminRecord
    BY DEF CredShape
<1>3. admin' = [admin EXCEPT ![a] = [admin[a] EXCEPT !.pc = pc]]
    BY DEF GoOn
<1> DEFINE R == [admin[a] EXCEPT !.pc = pc]
<1>4. R \in AdminRecord /\ R.upto = admin[a].upto
    BY <1>1, <1>2
<1> HIDE DEF R
<1>5. admin' = [admin EXCEPT ![a] = R]
    BY <1>3 DEF R
<1> QED
    BY <1>4, <1>5, AdminReplaced

\* A key is stored: it is newer than any deletion.
LEMMA StoreKeyKeeps ==
    ASSUME CredInv, NEW a \in Admins, StoreKey(a)
    PROVE  CredInv'
<1> DEFINE pc == IF admin[a].phrase THEN "phrase" ELSE "save"
<1>1. pc \in {"idle", "key", "phrase", "drop", "save"}
    OBVIOUS
<1>2. GoOn(a, pc)
    BY DEF StoreKey
<1> HIDE DEF pc
<1>3. /\ admin' \in [Admins -> AdminRecord]
      /\ \A b \in Admins : admin'[b].upto = admin[b].upto
    BY <1>1, <1>2, GoOnKeeps DEF CredInv
<1>4. CredShape'
    BY <1>3 DEF CredInv, CredShape, StoreKey
<1>5. puts' \in 0 .. MaxPuts /\ puts \in Nat /\ puts' = puts + 1
    BY CredAssumption DEF CredInv, CredTypeOK, StoreKey
<1>6. vault' \in [key : Secrets, phrase : Secrets] /\ vault'.key.v = puts + 1
  <2>1. custody \in 0 .. 1 /\ vault \in [key : Secrets, phrase : Secrets]
    BY DEF CredInv, CredTypeOK
  <2>2. [v |-> puts + 1, id |-> custody] \in Secrets
    BY <1>5, <2>1 DEF Secrets
  <2> QED
    BY <2>1, <2>2 DEF StoreKey
<1>7. CredTypeOK'
  <2>1. \A b \in Admins : admin'[b].pc \in {"idle", "key", "phrase", "drop", "save"} /\ admin'[b].copy \in Rows
    BY <1>3 DEF AdminRecord
  <2>2. mustRotate' \in BOOLEAN
    BY DEF StoreKey
  <2> QED
    BY <1>5, <1>6, <2>1, <2>2 DEF CredInv, CredTypeOK, StoreKey
<1>8. CredEmptied'
  <2>1. ASSUME NEW n \in Int, Emptied(n) PROVE n <= puts' /\ (leftover \/ vault'.key.v > n)
    BY <1>5, <1>6, <2>1 DEF Emptied
  <2>2. gone \in Int /\ (\A b \in Admins : admin[b].upto \in Int) /\ (\A k \in Resolvers : resolve[k].base \in Int)
    BY CredTyped DEF CredInv, CredTypeOK
  <2>3. UNCHANGED <<resolve, gone, leftover>>
    BY DEF StoreKey
  <2> QED
    BY <1>3, <2>1, <2>2, <2>3 DEF CredInv, CredEmptied, Emptied
<1> QED
    BY <1>4, <1>7, <1>8 DEF CredInv, CredBlocked, StoreKey, DeletedNotResolved, BlockedNotResolved

\* A passphrase is stored, or refused: the key stays.
LEMMA StorePhraseKeeps ==
    ASSUME CredInv, NEW a \in Admins, StorePhrase(a)
    PROVE  CredInv'
<1>1. GoOn(a, "save") \/ GoOn(a, "idle")
    BY DEF StorePhrase
<1>2. /\ admin' \in [Admins -> AdminRecord]
      /\ \A b \in Admins : admin'[b].upto = admin[b].upto
    BY <1>1, GoOnKeeps DEF CredInv
<1>3. CredShape'
    BY <1>2 DEF CredInv, CredShape, StorePhrase
<1>4. vault' \in [key : Secrets, phrase : Secrets] /\ vault'.key = vault.key
  <2>1. custody \in 0 .. 1 /\ vault \in [key : Secrets, phrase : Secrets]
    BY DEF CredInv, CredTypeOK
  <2>2. [v |-> vault.key.v, id |-> custody] \in Secrets
    BY <2>1 DEF Secrets
  <2> QED
    BY <2>1, <2>2 DEF StorePhrase
<1>5. CredTypeOK'
  <2>1. \A b \in Admins : admin'[b].pc \in {"idle", "key", "phrase", "drop", "save"} /\ admin'[b].copy \in Rows
    BY <1>2 DEF AdminRecord
  <2> QED
    BY <1>4, <2>1 DEF CredInv, CredTypeOK, StorePhrase, credHistory
<1>6. CredEmptied'
  <2>1. UNCHANGED <<resolve, puts, gone, leftover>>
    BY DEF StorePhrase, credHistory
  <2> QED
    BY <1>2, <1>4, <2>1 DEF CredInv, CredEmptied, Emptied
<1> QED
    BY <1>3, <1>5, <1>6
    DEF CredInv, CredBlocked, StorePhrase, credHistory, DeletedNotResolved, BlockedNotResolved

\* A deletion empties the vault, or remembers that it could not: no key up to the
\* newest version stays unnoticed.
LEMMA DropSecretsKeeps ==
    ASSUME CredInv, NEW a \in Admins, DropSecrets(a)
    PROVE  CredInv'
<1> DEFINE R == [admin[a] EXCEPT !.pc = "save", !.upto = puts]
<1>1. R \in AdminRecord /\ R.upto = puts
  <2>1. \A r \in AdminRecord, n \in 0 .. MaxPuts :
            /\ [r EXCEPT !.pc = "save", !.upto = n] \in AdminRecord
            /\ [r EXCEPT !.pc = "save", !.upto = n].upto = n
    BY DEF AdminRecord
  <2>2. admin[a] \in AdminRecord /\ puts \in 0 .. MaxPuts
    BY DEF CredInv, CredShape, CredTypeOK
  <2> QED
    BY <2>1, <2>2
<1>2. admin' = [admin EXCEPT ![a] = R]
  <2>1. admin \in [Admins -> AdminRecord] /\ admin[a] \in AdminRecord
    BY DEF CredInv, CredShape
  <2>2. admin' = [admin EXCEPT ![a].pc = "save", ![a].upto = puts]
    BY DEF DropSecrets
  <2> QED
    BY <2>1, <2>2
<1> HIDE DEF R
<1>3. /\ admin' \in [Admins -> AdminRecord] /\ admin'[a] = R
      /\ \A b \in Admins : b # a => admin'[b] = admin[b]
    BY <1>1, <1>2, AdminReplaced DEF CredInv
<1>4. CredShape'
    BY <1>3 DEF CredInv, CredShape, DropSecrets
<1>5. vault' \in [key : Secrets, phrase : Secrets] /\ vaultFaults' \in 0 .. MaxVaultFaults /\ leftover' \in BOOLEAN
  <2>1. NoSecret \in Secrets
    BY CredAssumption DEF NoSecret, Secrets
  <2>2. vault \in [key : Secrets, phrase : Secrets] /\ vaultFaults \in 0 .. MaxVaultFaults
    BY DEF CredInv, CredTypeOK
  <2>3. vault' \in [key : Secrets, phrase : Secrets]
    BY <2>1, <2>2 DEF DropSecrets
  <2>4. vaultFaults' \in 0 .. MaxVaultFaults
    BY <2>2, CredAssumption DEF DropSecrets
  <2>5. leftover' \in BOOLEAN
    BY DEF DropSecrets, CredInv, CredTypeOK
  <2> QED
    BY <2>3, <2>4, <2>5
<1>6. \/ vault'.key.v = 0 /\ leftover' = leftover
      \/ vault' = vault /\ leftover'
    BY DEF DropSecrets, NoSecret
<1>7. CredTypeOK'
  <2>1. \A b \in Admins : admin'[b].pc \in {"idle", "key", "phrase", "drop", "save"} /\ admin'[b].copy \in Rows
    BY <1>3 DEF AdminRecord
  <2> QED
    BY <1>5, <2>1 DEF CredInv, CredTypeOK, DropSecrets
<1>8. CredEmptied'
  <2>1. \A n \in Int : Emptied(n) => n <= puts /\ (leftover' \/ vault'.key.v = 0 \/ vault'.key.v > n)
    BY <1>6 DEF Emptied
  <2>2. puts <= puts /\ (leftover' \/ vault'.key.v = 0 \/ vault'.key.v > puts)
    BY <1>6 DEF CredInv, CredTypeOK
  <2>3. gone \in Int /\ (\A b \in Admins : admin[b].upto \in Int) /\ (\A k \in Resolvers : resolve[k].base \in Int)
    BY CredTyped DEF CredInv, CredTypeOK
  <2>4. UNCHANGED <<resolve, gone, puts>>
    BY DEF DropSecrets
  <2>5. leftover => leftover'
    BY <1>6
  <2> QED
    BY <1>1, <1>3, <2>1, <2>2, <2>3, <2>4, <2>5 DEF CredInv, CredEmptied, Emptied
<1>9. leftover => leftover'
    BY <1>6
<1> QED
    BY <1>4, <1>7, <1>8, <1>9 DEF CredInv, CredBlocked, DropSecrets, DeletedNotResolved, BlockedNotResolved

\* The copy becomes the row; what a deletion emptied is now acknowledged.
LEMMA SaveRowKeeps ==
    ASSUME CredInv, NEW a \in Admins, SaveRow(a)
    PROVE  CredInv'
<1>1. Quiet \in AdminRecord /\ Quiet.upto = 0
    BY RestingRecords
<1>2. /\ admin' \in [Admins -> AdminRecord] /\ admin'[a] = Quiet
      /\ \A b \in Admins : b # a => admin'[b] = admin[b]
    BY <1>1, AdminReplaced DEF CredInv, SaveRow
<1>3. CredShape'
    BY <1>2 DEF CredInv, CredShape, SaveRow
<1>4. gone' \in {gone, admin[a].upto} /\ row' = admin[a].copy
    BY DEF SaveRow
<1>5. CredTypeOK'
  <2>1. \A b \in Admins : admin'[b].pc \in {"idle", "key", "phrase", "drop", "save"} /\ admin'[b].copy \in Rows
    BY <1>2 DEF AdminRecord
  <2>2. gone' \in 0 .. MaxPuts /\ row' \in Rows
    BY <1>4, CredTyped DEF CredInv, CredTypeOK
  <2>3. blocked' \in BOOLEAN /\ mustRotate' \in BOOLEAN
    BY DEF SaveRow, CredInv, CredTypeOK
  <2> QED
    BY <2>1, <2>2, <2>3 DEF CredInv, CredTypeOK, SaveRow
<1>6. CredEmptied'
  <2>1. Emptied(0) /\ Emptied(gone')
    BY <1>4, CredAssumption DEF CredInv, CredTypeOK, Secrets, Emptied, CredEmptied
  <2>2. \A b \in Admins : Emptied(admin'[b].upto)
    BY <1>1, <1>2, <2>1 DEF CredInv, CredEmptied
  <2>3. UNCHANGED <<vault, resolve, puts, leftover>>
    BY DEF SaveRow
  <2> QED
    BY <2>1, <2>2, <2>3 DEF CredInv, CredEmptied, Emptied
<1>7. CredBlocked'
    BY DEF CredInv, CredBlocked, SaveRow
<1> QED
    BY <1>3, <1>5, <1>6, <1>7 DEF CredInv, SaveRow, DeletedNotResolved, BlockedNotResolved

\* A failed request leaves everything but itself as it is.
LEMMA AdminFailsKeeps ==
    ASSUME CredInv, NEW a \in Admins, AdminFails(a)
    PROVE  CredInv'
<1>1. Quiet \in AdminRecord /\ Quiet.upto = 0
    BY RestingRecords
<1>2. /\ admin' \in [Admins -> AdminRecord] /\ admin'[a] = Quiet
      /\ \A b \in Admins : b # a => admin'[b] = admin[b]
    BY <1>1, AdminReplaced DEF CredInv, AdminFails
<1>3. CredShape'
    BY <1>2 DEF CredInv, CredShape, AdminFails
<1>4. CredTypeOK'
  <2>1. \A b \in Admins : admin'[b].pc \in {"idle", "key", "phrase", "drop", "save"} /\ admin'[b].copy \in Rows
    BY <1>2 DEF AdminRecord
  <2>2. vaultFaults' \in 0 .. MaxVaultFaults
    BY CredAssumption DEF CredInv, CredTypeOK, AdminFails
  <2> QED
    BY <2>1, <2>2 DEF CredInv, CredTypeOK, AdminFails, credHistory
<1>5. CredEmptied'
  <2>1. Emptied(0)
    BY CredAssumption DEF CredInv, CredTypeOK, Secrets, Emptied
  <2>2. \A b \in Admins : Emptied(admin'[b].upto)
    BY <1>1, <1>2, <2>1 DEF CredInv, CredEmptied
  <2>3. UNCHANGED <<vault, resolve, puts, gone, leftover>>
    BY DEF AdminFails, credHistory
  <2> QED
    BY <2>2, <2>3 DEF CredInv, CredEmptied, Emptied
<1> QED
    BY <1>3, <1>4, <1>5
    DEF CredInv, CredBlocked, AdminFails, credHistory, DeletedNotResolved, BlockedNotResolved

\* A resolution begins: past the checks only with an active row, hence not blocked.
LEMMA BeginResolveKeeps ==
    ASSUME CredInv, NEW k \in Resolvers, NEW h \in Hosts, BeginResolve(k, h)
    PROVE  CredInv'
<1> DEFINE R == [NoResolve EXCEPT !.pc = IF row.exp = "past" THEN "expire" ELSE "key",
                                  !.copy = row, !.host = h, !.base = gone, !.off = blocked]
<1>1. /\ R \in ResolveRecord /\ R.base = gone /\ R.off = blocked /\ R.pc \in {"expire", "key"}
      /\ R.pc = "key" => row.exp # "past"
  <2>1. row \in Rows /\ gone \in 0 .. MaxPuts /\ blocked \in BOOLEAN /\ 0 \in 0 .. MaxPuts
    BY CredAssumption DEF CredInv, CredTypeOK
  <2>2. NoResolve \in ResolveRecord
    BY RestingRecords
  <2> DEFINE pc == IF row.exp = "past" THEN "expire" ELSE "key"
  <2>3. pc \in {"expire", "key"} /\ (pc = "key" => row.exp # "past")
    OBVIOUS
  <2>4. R = [NoResolve EXCEPT !.pc = pc, !.copy = row, !.host = h, !.base = gone, !.off = blocked]
    OBVIOUS
  <2> HIDE DEF R, pc
  <2>5. R \in ResolveRecord /\ R.pc = pc /\ R.base = gone /\ R.off = blocked
    BY <2>1, <2>2, <2>3, <2>4 DEF ResolveRecord
  <2> QED
    BY <2>3, <2>5
<1>2. resolve' = [resolve EXCEPT ![k] = R]
    BY DEF BeginResolve
<1> HIDE DEF R
<1>3. /\ resolve' \in [Resolvers -> ResolveRecord] /\ resolve'[k] = R
      /\ \A j \in Resolvers : j # k => resolve'[j] = resolve[j]
    BY <1>1, <1>2, ResolveReplaced DEF CredInv
<1>4. CredShape'
    BY <1>1, <1>3 DEF CredInv, CredShape, BeginResolve
<1>5. CredTypeOK'
  <2>1. \A j \in Resolvers : resolve'[j].pc \in {"idle", "expire", "key", "phrase"} /\ resolve'[j].copy \in Rows
    BY <1>3 DEF ResolveRecord
  <2>2. resolves' \in 0 .. MaxResolves
    BY CredAssumption DEF CredInv, CredTypeOK, BeginResolve
  <2> QED
    BY <2>1, <2>2 DEF CredInv, CredTypeOK, BeginResolve, credHistory
<1>6. CredEmptied'
  <2>1. \A j \in Resolvers : /\ Emptied(resolve'[j].base)
                             /\ resolve'[j].pc = "phrase" => leftover \/ resolve'[j].key > resolve'[j].base
    BY <1>1, <1>3 DEF CredInv, CredEmptied
  <2>2. UNCHANGED <<vault, admin, puts, gone, leftover>>
    BY DEF BeginResolve, credHistory
  <2> QED
    BY <2>1, <2>2 DEF CredInv, CredEmptied, Emptied
<1>7. CredBlocked'
  <2>1. R.pc = "key" => ~R.off
    BY <1>1 DEF BeginResolve, Allowed, CredInv, CredBlocked
  <2>2. \A j \in Resolvers : resolve'[j].pc \in {"key", "phrase"} => ~resolve'[j].off
    BY <1>1, <1>3, <2>1 DEF CredInv, CredBlocked
  <2> QED
    BY <2>2 DEF CredInv, CredBlocked, BeginResolve, credHistory
<1> QED
    BY <1>4, <1>5, <1>6, <1>7 DEF CredInv, BeginResolve, credHistory, DeletedNotResolved, BlockedNotResolved

\* A resolution ends; what it hands out, if anything, is newer than the deletion it
\* began after, and the credential was not blocked when it began.
LEMMA ResolveEnds ==
    ASSUME CredInv, NEW k \in Resolvers, resolve' = [resolve EXCEPT ![k] = NoResolve],
           UNCHANGED <<row, vault, custody, admin, puts, adminOps, resolves, vaultFaults,
                       gone, leftover, blocked, mustRotate>>,
           \/ UNCHANGED used
           \/ \E n \in 1 .. MaxPuts : HandOut(k, n) /\ (leftover \/ n > resolve[k].base) /\ ~resolve[k].off
    PROVE  CredInv'
<1>1. NoResolve \in ResolveRecord /\ NoResolve.pc = "idle" /\ NoResolve.base = 0
    BY RestingRecords
<1>2. /\ resolve' \in [Resolvers -> ResolveRecord] /\ resolve'[k] = NoResolve
      /\ \A j \in Resolvers : j # k => resolve'[j] = resolve[j]
    BY <1>1, ResolveReplaced DEF CredInv
<1>3. CredShape'
    BY <1>1, <1>2 DEF CredInv, CredShape
<1>4. /\ used' \in SUBSET [key : 1..MaxPuts, base : 0..MaxPuts, off : BOOLEAN]
      /\ DeletedNotResolved' /\ BlockedNotResolved'
  <2>1. /\ used \in SUBSET [key : 1..MaxPuts, base : 0..MaxPuts, off : BOOLEAN]
        /\ DeletedNotResolved /\ BlockedNotResolved
    BY DEF CredInv, CredTypeOK
  <2>2. CASE UNCHANGED used
    BY <2>1, <2>2 DEF DeletedNotResolved, BlockedNotResolved
  <2>3. ASSUME NEW n \in 1 .. MaxPuts, HandOut(k, n), leftover \/ n > resolve[k].base, ~resolve[k].off
        PROVE  /\ used' \in SUBSET [key : 1..MaxPuts, base : 0..MaxPuts, off : BOOLEAN]
               /\ DeletedNotResolved' /\ BlockedNotResolved'
    <3> DEFINE X == [key |-> n, base |-> resolve[k].base, off |-> resolve[k].off]
    <3>1. resolve[k].base \in 0 .. MaxPuts /\ resolve[k].off \in BOOLEAN
        BY CredTyped DEF CredInv
    <3>2. /\ X \in [key : 1..MaxPuts, base : 0..MaxPuts, off : BOOLEAN]
          /\ X.key = n /\ X.base = resolve[k].base /\ X.off = resolve[k].off
        BY <3>1
    <3>3. used' = used \cup {X}
        BY <2>3 DEF HandOut
    <3> HIDE DEF X
    <3> QED
        BY <2>1, <2>3, <3>2, <3>3 DEF DeletedNotResolved, BlockedNotResolved
  <2> QED
    BY <2>2, <2>3
<1>5. CredTypeOK'
  <2>1. \A j \in Resolvers : resolve'[j].pc \in {"idle", "expire", "key", "phrase"} /\ resolve'[j].copy \in Rows
    BY <1>2 DEF ResolveRecord
  <2> QED
    BY <1>4, <2>1 DEF CredInv, CredTypeOK
<1>6. CredEmptied'
  <2>1. Emptied(0)
    BY CredAssumption DEF CredInv, CredTypeOK, Secrets, Emptied
  <2>2. \A j \in Resolvers : /\ Emptied(resolve'[j].base)
                             /\ resolve'[j].pc = "phrase" => leftover \/ resolve'[j].key > resolve'[j].base
    BY <1>1, <1>2, <2>1 DEF CredInv, CredEmptied
  <2> QED
    BY <2>2 DEF CredInv, CredEmptied, Emptied
<1>7. CredBlocked'
    BY <1>1, <1>2 DEF CredInv, CredBlocked
<1> QED
    BY <1>3, <1>4, <1>5, <1>6, <1>7 DEF CredInv

\* An expired credential is marked with a copy that may be old, but not as active.
LEMMA MarkExpiredKeeps ==
    ASSUME CredInv, NEW k \in Resolvers, MarkExpired(k)
    PROVE  CredInv'
<1>1. NoResolve \in ResolveRecord /\ NoResolve.pc = "idle" /\ NoResolve.base = 0
    BY RestingRecords
<1>2. /\ resolve' \in [Resolvers -> ResolveRecord] /\ resolve'[k] = NoResolve
      /\ \A j \in Resolvers : j # k => resolve'[j] = resolve[j]
    BY <1>1, ResolveReplaced DEF CredInv, MarkExpired
<1>3. CredShape'
    BY <1>1, <1>2 DEF CredInv, CredShape, MarkExpired
<1>4. row' \in Rows /\ row'.st = "rotation_required"
    BY CredTyped, RowEdits DEF CredInv, MarkExpired
<1>5. CredTypeOK'
  <2>1. \A j \in Resolvers : resolve'[j].pc \in {"idle", "expire", "key", "phrase"} /\ resolve'[j].copy \in Rows
    BY <1>2 DEF ResolveRecord
  <2>2. mustRotate' \in BOOLEAN
    BY DEF MarkExpired
  <2> QED
    BY <1>4, <2>1, <2>2 DEF CredInv, CredTypeOK, MarkExpired
<1>6. CredEmptied'
  <2>1. Emptied(0)
    BY CredAssumption DEF CredInv, CredTypeOK, Secrets, Emptied
  <2>2. \A j \in Resolvers : /\ Emptied(resolve'[j].base)
                             /\ resolve'[j].pc = "phrase" => leftover \/ resolve'[j].key > resolve'[j].base
    BY <1>1, <1>2, <2>1 DEF CredInv, CredEmptied
  <2>3. UNCHANGED <<vault, admin, puts, gone, leftover>>
    BY DEF MarkExpired
  <2> QED
    BY <2>2, <2>3 DEF CredInv, CredEmptied, Emptied
<1>7. CredBlocked'
    BY <1>1, <1>2, <1>4 DEF CredInv, CredBlocked
<1> QED
    BY <1>3, <1>5, <1>6, <1>7 DEF CredInv, MarkExpired, DeletedNotResolved, BlockedNotResolved

\* The key read from the vault is newer than the deletion the resolution began after.
LEMMA ReadKeyKeeps ==
    ASSUME CredInv, NEW k \in Resolvers, ReadKey(k)
    PROVE  CredInv'
<1>1. /\ vault.key.v \in 0 .. MaxPuts /\ resolve[k].base \in 0 .. MaxPuts /\ MaxPuts \in Nat
      /\ Sealed(vault.key) => vault.key.v # 0
    BY CredTyped, CredAssumption DEF CredInv, CredTypeOK, Secrets, Sealed
<1>2. Sealed(vault.key) => vault.key.v \in 1 .. MaxPuts /\ (leftover \/ vault.key.v > resolve[k].base)
    BY <1>1 DEF CredInv, CredEmptied, Emptied
<1>3. ~resolve[k].off
    BY DEF CredInv, CredBlocked, ReadKey
<1>4. CASE resolve' = [resolve EXCEPT ![k] = NoResolve]
           /\ (UNCHANGED used \/ (Sealed(vault.key) /\ HandOut(k, vault.key.v)))
    BY <1>2, <1>3, <1>4, ResolveEnds DEF ReadKey
<1>5. CASE /\ resolve' = [resolve EXCEPT ![k].pc = "phrase", ![k].key = vault.key.v]
           /\ UNCHANGED used /\ Sealed(vault.key)
  <2> DEFINE R == [resolve[k] EXCEPT !.pc = "phrase", !.key = vault.key.v]
  <2>1. /\ R \in ResolveRecord /\ R.pc = "phrase" /\ R.key = vault.key.v
        /\ R.base = resolve[k].base /\ R.off = resolve[k].off
    <3>1. \A r \in ResolveRecord, n \in 0 .. MaxPuts :
              /\ [r EXCEPT !.pc = "phrase", !.key = n] \in ResolveRecord
              /\ [r EXCEPT !.pc = "phrase", !.key = n].pc = "phrase"
              /\ [r EXCEPT !.pc = "phrase", !.key = n].key = n
              /\ [r EXCEPT !.pc = "phrase", !.key = n].base = r.base
              /\ [r EXCEPT !.pc = "phrase", !.key = n].off = r.off
        BY DEF ResolveRecord
    <3>2. resolve[k] \in ResolveRecord
        BY DEF CredInv, CredShape
    <3> QED
        BY <1>1, <3>1, <3>2
  <2>2. resolve' = [resolve EXCEPT ![k] = R]
    <3>1. resolve \in [Resolvers -> ResolveRecord] /\ resolve[k] \in ResolveRecord
        BY DEF CredInv, CredShape
    <3> QED
        BY <1>5, <3>1
  <2> HIDE DEF R
  <2>3. /\ resolve' \in [Resolvers -> ResolveRecord] /\ resolve'[k] = R
        /\ \A j \in Resolvers : j # k => resolve'[j] = resolve[j]
    BY <2>1, <2>2, ResolveReplaced DEF CredInv
  <2>4. CredShape'
    BY <1>1, <1>5, <2>1, <2>3 DEF CredInv, CredShape, ReadKey
  <2>5. CredTypeOK'
    <3>1. \A j \in Resolvers : resolve'[j].pc \in {"idle", "expire", "key", "phrase"} /\ resolve'[j].copy \in Rows
        BY <2>3 DEF ResolveRecord
    <3> QED
        BY <1>5, <3>1 DEF CredInv, CredTypeOK, ReadKey
  <2>6. CredEmptied'
    <3>1. \A j \in Resolvers : /\ Emptied(resolve'[j].base)
                               /\ resolve'[j].pc = "phrase" => leftover \/ resolve'[j].key > resolve'[j].base
        BY <1>2, <1>5, <2>1, <2>3 DEF CredInv, CredEmptied
    <3>2. UNCHANGED <<vault, admin, puts, gone, leftover>>
        BY DEF ReadKey
    <3> QED
        BY <3>1, <3>2 DEF CredInv, CredEmptied, Emptied
  <2>7. CredBlocked'
    BY <1>3, <2>1, <2>3 DEF CredInv, CredBlocked, ReadKey
  <2> QED
    BY <1>5, <2>4, <2>5, <2>6, <2>7 DEF CredInv, ReadKey, DeletedNotResolved, BlockedNotResolved
<1> QED
    BY <1>4, <1>5 DEF ReadKey

\* The passphrase completes what the key began.
LEMMA ReadPhraseKeeps ==
    ASSUME CredInv, NEW k \in Resolvers, ReadPhrase(k)
    PROVE  CredInv'
<1>1. resolve[k].pc = "phrase"
    BY DEF ReadPhrase
<1>2. resolve[k].key \in 1 .. MaxPuts /\ (leftover \/ resolve[k].key > resolve[k].base) /\ ~resolve[k].off
  <2>1. resolve[k].key \in 0 .. MaxPuts /\ resolve[k].key # 0 /\ MaxPuts \in Nat
    BY <1>1, CredTyped, CredAssumption DEF CredInv, CredShape
  <2> QED
    BY <1>1, <2>1 DEF CredInv, CredEmptied, CredBlocked
<1> QED
    BY <1>2, ResolveEnds DEF ReadPhrase

\* Time passes; or the process restarts with another key and everyone's request ends.
LEMMA CredEnvironmentKeeps ==
    ASSUME CredInv, TimePasses \/ Rekey
    PROVE  CredInv'
<1>1. CASE TimePasses
  <2>1. row' \in Rows /\ row'.st = row.st
    BY <1>1, RowEdits DEF CredInv, CredTypeOK, TimePasses
  <2>2. CredTypeOK'
    BY <1>1, <2>1 DEF CredInv, CredTypeOK, TimePasses, credHistory
  <2>3. CredShape' /\ CredEmptied' /\ CredBlocked'
    BY <1>1, <2>1 DEF CredInv, CredShape, CredEmptied, Emptied, CredBlocked, TimePasses, credHistory
  <2> QED
    BY <1>1, <2>2, <2>3 DEF CredInv, TimePasses, credHistory, DeletedNotResolved, BlockedNotResolved
<1>2. CASE Rekey
  <2>1. /\ admin' = [a \in Admins |-> Quiet] /\ resolve' = [k \in Resolvers |-> NoResolve]
        /\ UNCHANGED <<row, vault, puts, adminOps, resolves, vaultFaults, gone, leftover, blocked, mustRotate, used>>
        /\ custody' = 1
    BY <1>2 DEF Rekey, credHistory
  <2>2. CredShape'
    BY <2>1, RestingRecords DEF CredShape
  <2>3. CredTypeOK'
    <3>1. \A a \in Admins : admin'[a].pc \in {"idle", "key", "phrase", "drop", "save"} /\ admin'[a].copy \in Rows
        BY <2>2 DEF CredShape, AdminRecord
    <3>2. \A k \in Resolvers : resolve'[k].pc \in {"idle", "expire", "key", "phrase"} /\ resolve'[k].copy \in Rows
        BY <2>2 DEF CredShape, ResolveRecord
    <3> QED
        BY <2>1, <3>1, <3>2 DEF CredInv, CredTypeOK
  <2>4. CredEmptied' /\ CredBlocked'
    <3>1. Emptied(0)
        BY CredAssumption DEF CredInv, CredTypeOK, Secrets, Emptied
    <3> QED
        BY <2>1, <3>1, RestingRecords DEF CredInv, CredEmptied, Emptied, CredBlocked
  <2> QED
    BY <2>1, <2>2, <2>3, <2>4 DEF CredInv, DeletedNotResolved, BlockedNotResolved
<1> QED
    BY <1>1, <1>2

\* The invariant of the credential's custody is inductive.
LEMMA CredStep ==
    ASSUME CredInv, [CredNext]_credVars
    PROVE  CredInv'
<1>1. CASE UNCHANGED credVars
    BY <1>1 DEF credVars, CredInv, CredTypeOK, CredShape, CredEmptied, Emptied, CredBlocked,
                DeletedNotResolved, BlockedNotResolved
<1>2. ASSUME NEW a \in Admins,
             \/ Create(a) \/ UpdateFields(a) \/ Rotate(a) \/ Delete(a)
             \/ \E st \in {"active", "disabled", "rotation_required"} : SetStatus(a, st)
      PROVE  CredInv'
    BY <1>2, CredAsksKeep
<1>3. ASSUME NEW a \in Admins,
             StoreKey(a) \/ StorePhrase(a) \/ DropSecrets(a) \/ SaveRow(a) \/ AdminFails(a)
      PROVE  CredInv'
    BY <1>3, StoreKeyKeeps, StorePhraseKeeps, DropSecretsKeeps, SaveRowKeeps, AdminFailsKeeps
<1>4. ASSUME NEW k \in Resolvers,
             (\E h \in Hosts : BeginResolve(k, h)) \/ MarkExpired(k) \/ ReadKey(k) \/ ReadPhrase(k)
      PROVE  CredInv'
    BY <1>4, BeginResolveKeeps, MarkExpiredKeeps, ReadKeyKeeps, ReadPhraseKeeps
<1>5. CASE TimePasses \/ Rekey
    BY <1>5, CredEnvironmentKeeps
<1> QED
    BY <1>1, <1>2, <1>3, <1>4, <1>5 DEF CredNext

\* Whatever administrators, executions and failures of the vault do, a resolution begun
\* after an acknowledged deletion or switch-off returns no material of before, and the
\* inventory shows as active whatever still resolves: ResolveWithOptions, Delete,
\* SetStatus and Inventory of the custody, for any number of each.
THEOREM CredentialsCorrect == CredSpec => []CredentialsSound
<1>1. CredInit => CredInv
    BY CredInitial
<1>2. CredInv /\ [CredNext]_credVars => CredInv'
    BY CredStep
<1>3. CredInv => CredentialsSound
  <2>1. InventoryAgrees
    BY DEF InventoryAgrees, Resolvable, InventoryStatus, Sealed, Allowed
  <2> QED
    BY <2>1 DEF CredInv, CredentialsSound
<1> QED
    BY <1>1, <1>2, <1>3, PTL DEF CredSpec

-----------------------------------------------------------------------------
(* Telegram.  The inductive invariant.                                     *)

UpdateKinds == {NoUpdateAsked} \cup [act : {"approve", "reject"}, req : Approvals]
                               \cup [act : {"chat"}, req : {NoUpdate}]
Steps == {"begin", "notify", "execute", "finish", "tell", "ok", "error"}
HandRecords == {Idle} \cup [u : Updates, pc : Steps]

WasAsked(u) == update[u] # NoUpdateAsked

TgShape ==
    /\ update \in [Updates -> UpdateKinds] /\ hand \in [Handlers -> HandRecords]
    /\ batch \in Seq(held)

\* Updates are numbered in the order they are sent; only those that were sent are held
\* or taken.
TgAsked ==
    /\ \A u \in Updates : WasAsked(u) => \A v \in Updates : v < u => WasAsked(v)
    /\ \A u \in held \cup taken : WasAsked(u)
    /\ \A h \in Handlers : hand[h] # Idle => WasAsked(hand[h].u)

\* Nothing is left to do for the update, or a call failed.
Settled(u) ==
    \/ u \in keys \cup broken
    \/ update[u].act \in {"approve", "reject"} /\ request[update[u].req] # "pending"

\* What a handler has done so far.
TgHands ==
    \A h \in Handlers :
        /\ hand[h].pc \in {"notify", "execute", "finish"} => Act(h) \in {"approve", "reject"}
        /\ hand[h].pc \in {"execute", "finish"} => Act(h) = "approve"
        /\ hand[h].pc \in {"notify", "execute", "finish", "tell", "ok"} => hand[h].u \in keys
        /\ hand[h].pc = "error" => Settled(hand[h].u)

\* A handler that is executing an approved request.
Runs(h) == hand[h].pc \in {"notify", "execute", "finish"} /\ Act(h) = "approve"

\* An approved request is executed by one handler at most, and not before it was
\* approved; nobody executes it only where handling the approval failed.
TgRunning ==
    /\ \A h \in Handlers : Runs(h) => /\ request[Asked(h)] = "executing"
                                      /\ hand[h].pc # "finish" => started[Asked(h)] = 0
    /\ \A g, h \in Handlers : Runs(g) /\ Runs(h) /\ Asked(g) = Asked(h) => g = h
    /\ \A r \in Approvals : /\ started[r] <= 1 /\ (request[r] = "pending" => started[r] = 0)
                            /\ request[r] = "executing" =>
                                 \/ \E h \in Handlers : Runs(h) /\ Asked(h) = r
                                 \/ \E u \in broken : update[u].act = "approve" /\ update[u].req = r

TgOpened == \A u \in Updates : opened[u] <= 1 /\ (opened[u] # 0 => u \in keys)

\* The poller: all below the offset was taken, what was not taken is still held and,
\* within an answer, ahead; what was taken is in work or settled.
TgPolling ==
    mode = "poll" =>
        /\ \A v \in Updates : v < offset => v \in taken
        /\ \A u \in Updates : WasAsked(u) /\ u \notin taken =>
             /\ u \in held
             /\ \/ \E i \in DOMAIN batch : batch[i] = u
                \/ \A i \in DOMAIN batch : batch[i] < u
        /\ \A i, j \in DOMAIN batch : i < j => batch[i] < batch[j]
        /\ \A u \in taken : (\E h \in Handlers : hand[h].u = u) \/ Settled(u)

\* The webhook: what Telegram has let go was applied.
TgWebhook ==
    mode = "webhook" => /\ offset = 0 /\ batch = <<>>
                        /\ \A u \in Updates : WasAsked(u) /\ u \notin held => u \in keys

TgInv == /\ TelegramTypeOK /\ TgShape /\ TgAsked /\ TgHands /\ TgRunning /\ TgOpened
         /\ TgPolling /\ TgWebhook

-----------------------------------------------------------------------------
(* Telegram.  Facts about the state's shape.                               *)

\* A handler is idle or works on an update.
LEMMA HandFacts ==
    ASSUME TgShape, NEW h \in Handlers
    PROVE  /\ hand[h].u \in Updates \cup {NoUpdate} /\ hand[h].pc \in {"idle"} \cup Steps
           /\ hand[h] = Idle <=> hand[h].pc = "idle"
           /\ hand[h] = Idle <=> hand[h].u = NoUpdate
           /\ hand[h].u \in Updates <=> hand[h].u # NoUpdate
<1>1. hand[h] \in HandRecords
    BY DEF TgShape
<1>2. \A r \in [u : Updates, pc : Steps] : r.u \in Updates /\ r.pc \in Steps
    OBVIOUS
<1>3. Idle.u = NoUpdate /\ Idle.pc = "idle" /\ "idle" \notin Steps
    BY DEF Idle, Steps
<1>4. NoUpdate \notin Updates
    BY TelegramAssumption DEF NoUpdate, Updates
<1> QED
    BY <1>1, <1>2, <1>3, <1>4 DEF HandRecords

\* An update asks for nothing, for a decision on a request, or for a session.
LEMMA UpdateFacts ==
    ASSUME TgShape, NEW u \in Updates
    PROVE  /\ update[u].act \in {"none", "approve", "reject", "chat"}
           /\ WasAsked(u) <=> update[u].act # "none"
           /\ update[u].act \in {"approve", "reject"} => update[u].req \in Approvals
<1>1. update[u] \in UpdateKinds
    BY DEF TgShape
<1>2. NoUpdateAsked.act = "none"
    BY DEF NoUpdateAsked
<1> QED
    BY <1>1, <1>2 DEF UpdateKinds, WasAsked

\* The listing of a set of updates is a sequence of them.
LEMMA AscendingFacts ==
    ASSUME NEW S \in SUBSET Updates, NEW s \in Ascending(S)
    PROVE  /\ s \in Seq(S)
           /\ \A u \in S : \E i \in DOMAIN s : s[i] = u
           /\ \A i, j \in DOMAIN s : i < j => s[i] < s[j]
<1>1. MaxUpdates \in Int /\ 1 \in Int
    BY TelegramAssumption
<1>2. IsFiniteSet(Updates)
    BY <1>1, FS_Interval DEF Updates
<1>3. IsFiniteSet(S)
    BY <1>2, FS_Subset
<1>4. Cardinality(S) \in Nat
    BY <1>3, FS_CardinalityType
<1>5. s \in [1 .. Cardinality(S) -> S]
    BY DEF Ascending
<1>6. s \in Seq(S)
    BY <1>4, <1>5
<1> QED
    BY <1>6 DEF Ascending

\* Only the step of one handler changes.
LEMMA GotoFacts ==
    ASSUME TgShape, NEW h \in Handlers, hand[h] # Idle, NEW pc \in Steps, Goto(h, pc)
    PROVE  /\ hand' \in [Handlers -> HandRecords]
           /\ hand'[h].u = hand[h].u /\ hand'[h].pc = pc /\ hand'[h] # Idle
           /\ \A g \in Handlers : g # h => hand'[g] = hand[g]
           /\ \A g \in Handlers : hand'[g].u = hand[g].u
<1>1. hand[h] \in [u : Updates, pc : Steps]
    BY DEF TgShape, HandRecords
<1>2. hand' = [hand EXCEPT ![h] = [hand[h] EXCEPT !.pc = pc]]
    BY DEF Goto
<1>3. \A r \in [u : Updates, pc : Steps] :
          /\ [r EXCEPT !.pc = pc] \in [u : Updates, pc : Steps]
          /\ [r EXCEPT !.pc = pc].u = r.u /\ [r EXCEPT !.pc = pc].pc = pc
    OBVIOUS
<1> DEFINE R == [hand[h] EXCEPT !.pc = pc]
<1>4. R \in [u : Updates, pc : Steps] /\ R.u = hand[h].u /\ R.pc = pc
    BY <1>1, <1>3
<1>5. hand' = [hand EXCEPT ![h] = R]
    BY <1>2
<1> HIDE DEF R
<1>6. R # Idle
    BY <1>4 DEF Idle, Steps
<1> QED
    BY <1>4, <1>5, <1>6 DEF TgShape, HandRecords

\* The rest of the type invariant follows from the shape, of a state and of the next.
LEMMA TgTyped ==
    ASSUME TgShape
    PROVE  /\ \A u \in Updates : update[u].act \in {"none", "approve", "reject", "chat"}
           /\ \A i \in DOMAIN batch : batch[i] \in held
           /\ \A h \in Handlers : /\ hand[h].u \in Updates \cup {NoUpdate}
                                  /\ hand[h].pc \in {"idle", "begin", "notify", "execute", "finish", "tell",
                                                     "ok", "error"}
<1>1. \A i \in DOMAIN batch : batch[i] \in held
    BY DEF TgShape
<1> QED
    BY <1>1, HandFacts, UpdateFacts DEF Steps

LEMMA TgTypedNext ==
    ASSUME TgShape'
    PROVE  /\ \A u \in Updates : update'[u].act \in {"none", "approve", "reject", "chat"}
           /\ \A i \in DOMAIN batch' : batch'[i] \in held'
           /\ \A h \in Handlers : /\ hand'[h].u \in Updates \cup {NoUpdate}
                                  /\ hand'[h].pc \in {"idle", "begin", "notify", "execute", "finish", "tell",
                                                     "ok", "error"}
<1>1. \A i \in DOMAIN batch' : batch'[i] \in held'
    BY DEF TgShape
<1>2. \A k \in UpdateKinds : k.act \in {"none", "approve", "reject", "chat"}
    BY DEF UpdateKinds, NoUpdateAsked
<1>3. \A r \in HandRecords : /\ r.u \in Updates \cup {NoUpdate}
                            /\ r.pc \in {"idle", "begin", "notify", "execute", "finish", "tell", "ok", "error"}
    BY DEF HandRecords, Idle, Steps
<1> QED
    BY <1>1, <1>2, <1>3 DEF TgShape

\* Before anything is sent, nobody works.
LEMMA TgInitial == TelegramInit => TgInv
<1> SUFFICES ASSUME TelegramInit PROVE TgInv
    OBVIOUS
<1>1. Idle.pc = "idle" /\ Idle.u = NoUpdate
    BY DEF Idle
<1>2. \A h \in Handlers : hand[h] = Idle
    BY DEF TelegramInit
<1>3. \A u \in Updates : ~WasAsked(u)
    BY DEF TelegramInit, WasAsked
<1>4. TgShape
    BY DEF TgShape, TelegramInit, UpdateKinds, HandRecords
<1>5. TelegramTypeOK
  <2>1. /\ repeats \in [Updates -> 0 .. MaxRepeats] /\ offset \in 0 .. MaxUpdates + 1
        /\ tgFaults \in 0..MaxTgFaults /\ tgCrashes \in 0..MaxTgCrashes
    BY TelegramAssumption DEF TelegramInit
  <2>2. /\ request \in [Approvals -> {"pending", "executing", "rejected", "finished"}]
        /\ opened \in [Updates -> Nat] /\ started \in [Approvals -> Nat]
        /\ held \subseteq Updates /\ keys \subseteq Updates /\ taken \subseteq Updates /\ broken \subseteq Updates
    BY DEF TelegramInit
  <2>3. /\ sweep \in Seq(Approvals \X (1..Targets)) /\ expired \subseteq Approvals
        /\ warned \subseteq Approvals \X (1..Targets) /\ cutShort \subseteq Approvals
        /\ mode \in {"poll", "webhook"} /\ alive \in BOOLEAN
    BY DEF TelegramInit
  <2> QED
    BY <1>4, <2>1, <2>2, <2>3, TgTyped DEF TelegramTypeOK
<1>6. TgAsked
    BY <1>2, <1>3 DEF TgAsked, TelegramInit
<1>7. TgHands
    BY <1>1, <1>2 DEF TgHands
<1>8. TgRunning
    BY <1>1, <1>2 DEF TgRunning, Runs, TelegramInit
<1>9. TgOpened
    BY DEF TgOpened, TelegramInit
<1>10. TgPolling
    BY <1>3, TelegramAssumption DEF TgPolling, TelegramInit, Updates
<1>11. TgWebhook
    BY <1>3 DEF TgWebhook, TelegramInit
<1> QED
    BY <1>4, <1>5, <1>6, <1>7, <1>8, <1>9, <1>10, <1>11 DEF TgInv

-----------------------------------------------------------------------------
(* Telegram.  Every action keeps the invariant.                            *)

\* Once settled, an update stays settled.
LEMMA SettledStays ==
    ASSUME TgInv, NEW u \in Updates, WasAsked(u), Settled(u), update'[u] = update[u],
           keys \subseteq keys', broken \subseteq broken',
           \A r \in Approvals : request[r] # "pending" => request'[r] # "pending"
    PROVE  Settled(u)'
    BY UpdateFacts DEF Settled, TgInv

\* A handler goes on with the update it has.
LEMMA WorkKeeps ==
    ASSUME TgInv, NEW h \in Handlers, hand[h] # Idle, NEW pc \in Steps, Goto(h, pc),
           UNCHANGED <<mode, update, held, offset, batch, taken>>,
           keys \subseteq keys', broken \subseteq broken',
           \A r \in Approvals : request[r] # "pending" => request'[r] # "pending",
           pc \in {"notify", "execute", "finish"} => Act(h) \in {"approve", "reject"},
           pc \in {"execute", "finish"} => Act(h) = "approve",
           pc \in {"notify", "execute", "finish", "tell", "ok"} => hand[h].u \in keys',
           pc = "error" => Settled(hand[h].u)'
    PROVE  TgShape' /\ TgAsked' /\ TgHands' /\ TgPolling' /\ TgWebhook'
<1>1. /\ hand' \in [Handlers -> HandRecords]
      /\ hand'[h].u = hand[h].u /\ hand'[h].pc = pc /\ hand'[h] # Idle
      /\ \A g \in Handlers : g # h => hand'[g] = hand[g]
      /\ \A g \in Handlers : hand'[g].u = hand[g].u
    BY GotoFacts DEF TgInv
<1>2. TgShape'
    BY <1>1 DEF TgInv, TgShape
<1>3. TgAsked'
    BY <1>1 DEF TgInv, TgAsked, WasAsked
<1>4. \A u \in Updates : WasAsked(u) /\ Settled(u) => Settled(u)'
    BY SettledStays
<1>5. TgHands'
  <2> SUFFICES ASSUME NEW g \in Handlers
               PROVE  /\ hand'[g].pc \in {"notify", "execute", "finish"} => Act(g)' \in {"approve", "reject"}
                      /\ hand'[g].pc \in {"execute", "finish"} => Act(g)' = "approve"
                      /\ hand'[g].pc \in {"notify", "execute", "finish", "tell", "ok"} => hand'[g].u \in keys'
                      /\ hand'[g].pc = "error" => Settled(hand[g].u)'
    BY <1>1 DEF TgHands
  <2>1. Act(g)' = Act(g)
    BY <1>1 DEF Act
  <2>2. CASE g = h
    BY <1>1, <2>1, <2>2
  <2>3. CASE g # h
    <3>1. hand[g].pc = "error" => hand[g].u \in Updates /\ WasAsked(hand[g].u)
        BY HandFacts DEF TgInv, TgAsked
    <3> QED
        BY <1>1, <1>4, <2>1, <2>3, <3>1 DEF TgInv, TgHands
  <2> QED
    BY <2>2, <2>3
<1>6. TgPolling'
  <2>1. ASSUME mode = "poll", NEW u \in taken
        PROVE  (\E g \in Handlers : hand'[g].u = u) \/ Settled(u)'
    <3>1. WasAsked(u) /\ u \in Updates
        BY DEF TgInv, TgAsked, TelegramTypeOK
    <3> QED
        BY <1>1, <1>4, <2>1, <3>1 DEF TgInv, TgPolling
  <2> QED
    BY <2>1 DEF TgInv, TgPolling, WasAsked
<1>7. TgWebhook'
    BY DEF TgInv, TgWebhook, WasAsked
<1> QED
    BY <1>2, <1>3, <1>5, <1>6, <1>7

\* Requests and executions stay; handlers that stop executing leave a broken update.
LEMMA RunningKeeps ==
    ASSUME TgInv, UNCHANGED <<request, started>>, broken \subseteq broken',
           \A u \in Updates : WasAsked(u) => update'[u] = update[u],
           \A g \in Handlers : Runs(g)' => /\ Runs(g) /\ hand'[g].u = hand[g].u
                                           /\ hand'[g].pc # "finish" => hand[g].pc # "finish",
           \A g \in Handlers : Runs(g) => \/ Runs(g)' /\ hand'[g].u = hand[g].u
                                          \/ hand[g].u \in broken'
    PROVE  TgRunning'
<1>1. \A g \in Handlers : Runs(g) => hand[g].u \in Updates /\ WasAsked(hand[g].u)
    BY HandFacts DEF TgInv, TgAsked, Runs
<1>2. \A g \in Handlers : Runs(g)' => Asked(g)' = Asked(g)
    BY <1>1 DEF Asked
<1>3. ASSUME NEW r \in Approvals, request[r] = "executing"
      PROVE  \/ \E g \in Handlers : Runs(g)' /\ Asked(g)' = r
             \/ \E u \in broken' : update'[u].act = "approve" /\ update'[u].req = r
  <2>1. CASE \E g \in Handlers : Runs(g) /\ Asked(g) = r
    <3>1. PICK g \in Handlers : Runs(g) /\ Asked(g) = r
        BY <2>1
    <3>2. CASE Runs(g)'
        BY <1>2, <3>1, <3>2
    <3>3. CASE hand[g].u \in broken'
        BY <1>1, <3>1, <3>3 DEF Runs, Act, Asked
    <3> QED
        BY <3>1, <3>2, <3>3
  <2>2. CASE \E u \in broken : update[u].act = "approve" /\ update[u].req = r
    <3>1. PICK u \in broken : update[u].act = "approve" /\ update[u].req = r
        BY <2>2
    <3>2. u \in Updates /\ WasAsked(u)
        BY <3>1, UpdateFacts DEF TgInv, TelegramTypeOK
    <3> QED
        BY <3>1, <3>2
  <2> QED
    BY <1>3, <2>1, <2>2 DEF TgInv, TgRunning
<1> QED
    BY <1>2, <1>3 DEF TgInv, TgRunning

\* A user sends the next update: it is the newest, and Telegram holds it.
LEMMA SendUpdateKeeps ==
    ASSUME TgInv, NEW act, NEW r, SendUpdate(act, r), [act |-> act, req |-> r] \in UpdateKinds,
           act # "none"
    PROVE  TgInv'
<1> DEFINE K == [act |-> act, req |-> r]
<1>1. PICK u \in Updates : /\ update[u] = NoUpdateAsked /\ \A v \in 1 .. u - 1 : update[v] # NoUpdateAsked
                           /\ update' = [update EXCEPT ![u] = K]
                           /\ held' = held \cup {u}
    BY DEF SendUpdate
<1>2. K \in UpdateKinds /\ K # NoUpdateAsked
  <2>1. K.act = act /\ NoUpdateAsked.act = "none"
    BY DEF NoUpdateAsked
  <2> QED
    BY <2>1
<1> HIDE DEF K
<1>3. /\ update' \in [Updates -> UpdateKinds] /\ update'[u] = K
      /\ \A v \in Updates : v # u => update'[v] = update[v]
    BY <1>1, <1>2 DEF TgInv, TgShape
<1>4. /\ ~WasAsked(u) /\ WasAsked(u)'
      /\ \A v \in Updates : v # u => (WasAsked(v)' <=> WasAsked(v))
    BY <1>1, <1>2, <1>3 DEF WasAsked
<1>5. \A v \in Updates : WasAsked(v) <=> v < u
  <2>1. \A v \in Updates : v < u => WasAsked(v)
    BY <1>1, TelegramAssumption DEF WasAsked, Updates
  <2>2. \A v \in Updates : u < v => ~WasAsked(v)
    BY <1>4 DEF TgInv, TgAsked
  <2> QED
    BY <1>4, <2>1, <2>2, TelegramAssumption DEF Updates
<1>6. \A v \in Updates : WasAsked(v) => update'[v] = update[v]
    BY <1>3, <1>4
<1>7. UNCHANGED <<mode, offset, batch, hand, keys, request, opened, started, taken, broken>>
    BY DEF SendUpdate
<1>8. \A h \in Handlers : hand[h] # Idle => hand[h].u \in Updates /\ WasAsked(hand[h].u)
    BY HandFacts DEF TgInv, TgAsked
<1>9. TgShape'
  <2>1. batch \in Seq(held)
    BY DEF TgInv, TgShape
  <2>2. batch \in Seq(held')
    BY <1>1, <2>1
  <2> QED
    BY <1>3, <1>7, <2>2 DEF TgInv, TgShape
<1>10. TelegramTypeOK'
    BY <1>1, <1>9, TgTypedNext DEF TgInv, TelegramTypeOK, SendUpdate, sweepVars
<1>11. TgAsked'
  <2>1. \A v \in Updates : WasAsked(v)' <=> v = u \/ v < u
    BY <1>4, <1>5
  <2>2. \A v \in Updates : WasAsked(v)' => \A w \in Updates : w < v => WasAsked(w)'
    BY <2>1, TelegramAssumption DEF Updates
  <2>3. \A v \in held' \cup taken' : WasAsked(v)'
    BY <1>1, <1>4, <1>7 DEF TgInv, TgAsked, TelegramTypeOK
  <2>4. \A h \in Handlers : hand'[h] # Idle => WasAsked(hand[h].u)'
    BY <1>4, <1>7, <1>8
  <2> QED
    BY <1>7, <2>2, <2>3, <2>4 DEF TgAsked
<1>12. \A v \in Updates : WasAsked(v) /\ Settled(v) => Settled(v)'
    BY <1>6, <1>7, SettledStays
<1>13. TgHands'
  <2>1. \A h \in Handlers : hand[h].pc # "idle" => Act(h)' = Act(h)
    BY <1>6, <1>7, <1>8, HandFacts DEF TgInv, Act
  <2>2. \A h \in Handlers : hand[h].pc = "error" => Settled(hand[h].u)'
    BY <1>7, <1>8, <1>12, HandFacts DEF TgInv, TgHands
  <2> QED
    BY <1>7, <2>1, <2>2 DEF TgInv, TgHands
<1>14. TgRunning'
  <2>1. \A h \in Handlers : hand[h] # Idle => Act(h)' = Act(h)
    BY <1>6, <1>7, <1>8 DEF Act
  <2>2. \A h \in Handlers : hand[h] = Idle => ~Runs(h) /\ ~Runs(h)'
    BY <1>7 DEF Runs, Idle
  <2>3. \A h \in Handlers : Runs(h)' <=> Runs(h)
    BY <1>7, <2>1, <2>2 DEF Runs
  <2> QED
    BY <1>6, <1>7, <2>3, RunningKeeps
<1>15. TgOpened'
    BY <1>7 DEF TgInv, TgOpened
<1>16. TgPolling'
  <2> SUFFICES ASSUME mode = "poll"
               PROVE  /\ \A v \in Updates : v < offset => v \in taken
                      /\ \A v \in Updates : WasAsked(v)' /\ v \notin taken =>
                           /\ v \in held'
                           /\ \/ \E i \in DOMAIN batch : batch[i] = v
                              \/ \A i \in DOMAIN batch : batch[i] < v
                      /\ \A i, j \in DOMAIN batch : i < j => batch[i] < batch[j]
                      /\ \A v \in taken : (\E h \in Handlers : hand[h].u = v) \/ Settled(v)'
    BY <1>7 DEF TgPolling
  <2>1. \A i \in DOMAIN batch : batch[i] < u
    <3>1. \A i \in DOMAIN batch : batch[i] \in held
        BY TgTyped DEF TgInv
    <3>2. \A i \in DOMAIN batch : batch[i] \in Updates /\ WasAsked(batch[i])
        BY <3>1 DEF TgInv, TelegramTypeOK, TgAsked
    <3> QED
        BY <1>5, <3>2
  <2>2. \A v \in Updates : WasAsked(v)' /\ v \notin taken =>
            /\ v \in held'
            /\ \/ \E i \in DOMAIN batch : batch[i] = v
               \/ \A i \in DOMAIN batch : batch[i] < v
    <3>1. ASSUME NEW v \in Updates, WasAsked(v)', v \notin taken, v # u
          PROVE  /\ v \in held'
                 /\ \/ \E i \in DOMAIN batch : batch[i] = v
                    \/ \A i \in DOMAIN batch : batch[i] < v
        BY <1>1, <1>4, <3>1 DEF TgInv, TgPolling
    <3>2. u \in held'
        BY <1>1
    <3> QED
        BY <2>1, <3>1, <3>2
  <2>3. \A v \in taken : (\E h \in Handlers : hand[h].u = v) \/ Settled(v)'
    BY <1>12 DEF TgInv, TgPolling, TgAsked, TelegramTypeOK
  <2> QED
    BY <2>2, <2>3 DEF TgInv, TgPolling
<1>17. TgWebhook'
    BY <1>1, <1>4, <1>7 DEF TgInv, TgWebhook
<1> QED
    BY <1>9, <1>10, <1>11, <1>13, <1>14, <1>15, <1>16, <1>17 DEF TgInv

\* The poll confirms only what was taken; its answer lists all the rest in order.
LEMMA GetUpdatesKeeps ==
    ASSUME TgInv, GetUpdates
    PROVE  TgInv'
<1>1. /\ mode = "poll" /\ held' = {u \in held : u >= offset}
      /\ UNCHANGED <<mode, alive, update, repeats, offset, hand, keys, request, opened, started,
                     taken, broken, sweepVars, tgCrashes>>
    BY DEF GetUpdates
<1>2. held \subseteq Updates /\ held' \subseteq Updates /\ held' \subseteq held
    BY <1>1 DEF TgInv, TelegramTypeOK
<1>3. /\ batch' \in Seq(held')
      /\ \/ batch' = <<>>
         \/ \A u \in held' : \E i \in DOMAIN batch' : batch'[i] = u
      /\ \A i, j \in DOMAIN batch' : i < j => batch'[i] < batch'[j]
  <2>1. CASE batch' \in Ascending(held')
    BY <1>2, <2>1, AscendingFacts
  <2>2. CASE batch' = <<>>
    BY <2>2
  <2> QED
    BY <2>1, <2>2 DEF GetUpdates
<1>4. TgShape'
    BY <1>1, <1>3 DEF TgInv, TgShape
<1>5. TelegramTypeOK'
  <2>1. tgFaults' \in 0 .. MaxTgFaults
    BY TelegramAssumption DEF TgInv, TelegramTypeOK, GetUpdates
  <2> QED
    BY <1>1, <1>2, <1>4, <2>1, TgTypedNext DEF TgInv, TelegramTypeOK, sweepVars
<1>6. TgAsked'
    BY <1>1, <1>2 DEF TgInv, TgAsked, WasAsked
<1>7. TgHands' /\ TgOpened' /\ TgRunning'
    BY <1>1 DEF TgInv, TgHands, TgOpened, TgRunning, Runs, Act, Asked, Settled
<1>8. TgPolling'
  <2>1. \A v \in Updates : v < offset => v \in taken
    BY <1>1 DEF TgInv, TgPolling
  <2>2. \A u \in Updates : WasAsked(u) /\ u \notin taken => u \in held'
    <3>1. offset \in Int /\ \A u \in Updates : u \in Int
        BY DEF TgInv, TelegramTypeOK, Updates
    <3> QED
        BY <1>1, <2>1, <3>1 DEF TgInv, TgPolling
  <2>3. \A u \in Updates : WasAsked(u)' <=> WasAsked(u)
    BY <1>1 DEF WasAsked
  <2>4. \A u \in taken : (\E h \in Handlers : hand[h].u = u) \/ Settled(u)'
    BY <1>1 DEF TgInv, TgPolling, Settled
  <2>5. batch' = <<>> => DOMAIN batch' = {}
    OBVIOUS
  <2> QED
    BY <1>1, <1>3, <2>1, <2>2, <2>3, <2>4, <2>5 DEF TgPolling
<1>9. TgWebhook'
    BY <1>1 DEF TgWebhook
<1> QED
    BY <1>4, <1>5, <1>6, <1>7, <1>8, <1>9 DEF TgInv

\* An idle handler takes up an update.
LEMMA TakeUpFacts ==
    ASSUME TgInv, NEW h \in Handlers, hand[h] = Idle, NEW u \in Updates, WasAsked(u),
           hand' = [hand EXCEPT ![h] = [u |-> u, pc |-> "begin"]],
           UNCHANGED <<update, keys, request, started, broken>>
    PROVE  /\ hand' \in [Handlers -> HandRecords] /\ hand'[h].u = u /\ hand'[h].pc = "begin"
           /\ \A g \in Handlers : g # h => hand'[g] = hand[g]
           /\ \A g \in Handlers : hand'[g] # Idle => WasAsked(hand'[g].u)
           /\ TgHands' /\ TgRunning'
<1> DEFINE R == [u |-> u, pc |-> "begin"]
<1>1. R \in HandRecords /\ R.u = u /\ R.pc = "begin"
    BY DEF HandRecords, Steps
<1> HIDE DEF R
<1>2. hand' = [hand EXCEPT ![h] = R]
    BY DEF R
<1>3. /\ hand' \in [Handlers -> HandRecords] /\ hand'[h] = R
      /\ \A g \in Handlers : g # h => hand'[g] = hand[g]
    BY <1>1, <1>2 DEF TgInv, TgShape
<1>4. \A g \in Handlers : hand'[g] # Idle => WasAsked(hand'[g].u)
    BY <1>1, <1>3 DEF TgInv, TgAsked
<1>5. \A g \in Handlers : g # h => Act(g)' = Act(g) /\ (Settled(hand[g].u)' <=> Settled(hand[g].u))
    BY <1>3 DEF Act, Settled
<1>6. TgHands'
    BY <1>1, <1>3, <1>5 DEF TgInv, TgHands
<1>7. TgRunning'
  <2>1. ~Runs(h) /\ ~Runs(h)'
    BY <1>1, <1>3 DEF Runs, Idle
  <2>2. \A g \in Handlers : g # h => (Runs(g)' <=> Runs(g))
    BY <1>3, <1>5 DEF Runs
  <2> QED
    BY <1>3, <2>1, <2>2, RunningKeeps
<1> QED
    BY <1>1, <1>3, <1>4, <1>6, <1>7

\* The poller takes the oldest update of the answer: everything older was taken.
LEMMA TakeNextKeeps ==
    ASSUME TgInv, TakeNext
    PROVE  TgInv'
<1>1. /\ batch \in Seq(held) /\ batch # <<>> /\ Head(batch) \in held /\ Tail(batch) \in Seq(held)
      /\ Len(batch) \in Nat /\ Len(batch) # 0 /\ DOMAIN batch = 1 .. Len(batch) /\ Head(batch) = batch[1]
      /\ DOMAIN Tail(batch) = 1 .. Len(batch) - 1
      /\ \A i \in DOMAIN Tail(batch) : Tail(batch)[i] = batch[i + 1]
  <2>1. batch \in Seq(held) /\ batch # <<>>
    BY DEF TgInv, TgShape, TakeNext
  <2> QED
    BY <2>1
<1> DEFINE u0 == Head(batch)
           b  == Tail(batch)
<1>2. /\ offset' = NextOffset(u0) /\ batch' = b /\ taken' = taken \cup {u0}
      /\ hand[Poller] = Idle /\ hand' = [hand EXCEPT ![Poller] = [u |-> u0, pc |-> "begin"]]
      /\ UNCHANGED <<mode, alive, update, held, repeats, keys, request, opened, started, broken,
                     sweepVars, tgFaults, tgCrashes>>
    BY DEF TakeNext
<1>3. u0 \in Updates /\ WasAsked(u0) /\ u0 = batch[1]
    BY <1>1 DEF TgInv, TelegramTypeOK, TgAsked
<1>4. Poller \in Handlers
    BY TelegramAssumption
<1>5. mode = "poll"
    BY <1>1 DEF TgInv, TgWebhook, TelegramTypeOK
<1>6. /\ b \in Seq(held) /\ DOMAIN b = 1 .. Len(batch) - 1 /\ \A i \in DOMAIN b : b[i] = batch[i + 1]
    BY <1>1
<1> HIDE DEF u0, b
<1>7. /\ hand' \in [Handlers -> HandRecords] /\ hand'[Poller].u = u0 /\ hand'[Poller].pc = "begin"
      /\ \A g \in Handlers : g # Poller => hand'[g] = hand[g]
      /\ \A g \in Handlers : hand'[g] # Idle => WasAsked(hand'[g].u)
      /\ TgHands' /\ TgRunning'
    BY <1>2, <1>3, <1>4, TakeUpFacts
<1>8. TgShape'
    BY <1>2, <1>6, <1>7 DEF TgInv, TgShape
<1>9. offset \in Int /\ offset' \in 0 .. MaxUpdates + 1 /\ u0 \in Int /\ \A v \in Updates : v \in Int
    BY <1>2, <1>3, TelegramAssumption DEF TgInv, TelegramTypeOK, NextOffset, Updates
<1>10. TelegramTypeOK'
  <2>1. taken' \subseteq Updates
    BY <1>2, <1>3 DEF TgInv, TelegramTypeOK
  <2> QED
    BY <1>2, <1>8, <1>9, <2>1, TgTypedNext DEF TgInv, TelegramTypeOK, sweepVars
<1>11. \A v \in Updates : WasAsked(v)' <=> WasAsked(v)
    BY <1>2 DEF WasAsked
<1>12. TgAsked'
  <2>1. \A v \in held' \cup taken' : v \in Updates /\ WasAsked(v)
    BY <1>2, <1>3 DEF TgInv, TgAsked, TelegramTypeOK
  <2>2. \A g \in Handlers : hand'[g] # Idle => WasAsked(hand[g].u)'
    BY <1>2, <1>7 DEF WasAsked
  <2> QED
    BY <1>11, <2>1, <2>2 DEF TgInv, TgAsked
<1>13. TgOpened' /\ TgWebhook'
    BY <1>2, <1>5 DEF TgInv, TgOpened, TgWebhook
<1>14. ASSUME NEW v \in Updates, v < offset' PROVE v \in taken'
  <2>1. CASE v < offset
    BY <1>2, <1>5, <2>1 DEF TgInv, TgPolling
  <2>2. CASE v = u0
    BY <1>2, <2>2
  <2>3. CASE v < u0
    <3>1. WasAsked(v)
        BY <1>3, <2>3 DEF TgInv, TgAsked
    <3>2. CASE \E i \in DOMAIN batch : batch[i] = v
      <4>1. PICK i \in DOMAIN batch : batch[i] = v
        BY <3>2
      <4>2. 1 \in DOMAIN batch /\ i \in Int /\ (i = 1 \/ 1 < i)
        BY <1>1
      <4>3. batch[1] = v \/ batch[1] < v
        BY <1>5, <4>1, <4>2 DEF TgInv, TgPolling
      <4> QED
        BY <1>3, <1>9, <2>3, <4>3
    <3>3. CASE \A i \in DOMAIN batch : batch[i] < v
      <4>1. batch[1] < v
        BY <1>1, <3>3
      <4> QED
        BY <1>3, <1>9, <2>3, <4>1
    <3> QED
        BY <1>2, <1>5, <3>1, <3>2, <3>3 DEF TgInv, TgPolling
  <2>4. v < offset \/ v = u0 \/ v < u0
    BY <1>2, <1>9, <1>14 DEF NextOffset
  <2> QED
    BY <2>1, <2>2, <2>3, <2>4
<1>15. ASSUME NEW v \in Updates, WasAsked(v), v \notin taken'
       PROVE  /\ v \in held
              /\ \/ \E i \in DOMAIN b : b[i] = v
                 \/ \A i \in DOMAIN b : b[i] < v
  <2>1. v \notin taken /\ v # u0
    BY <1>2, <1>15
  <2>2. v \in held
    BY <1>5, <1>15, <2>1 DEF TgInv, TgPolling
  <2>3. \A i \in DOMAIN b : i + 1 \in DOMAIN batch
    BY <1>1, <1>6
  <2>4. CASE \A i \in DOMAIN batch : batch[i] < v
    BY <1>6, <2>2, <2>3, <2>4
  <2>5. CASE \E i \in DOMAIN batch : batch[i] = v
    <3>1. PICK i \in DOMAIN batch : batch[i] = v
        BY <2>5
    <3>2. i # 1
        BY <1>3, <2>1, <3>1
    <3>3. i - 1 \in DOMAIN b /\ (i - 1) + 1 = i
        BY <1>1, <1>6, <3>2
    <3>4. b[i - 1] = v
        BY <1>6, <3>1, <3>3
    <3> QED
        BY <2>2, <3>3, <3>4
  <2>6. (\E i \in DOMAIN batch : batch[i] = v) \/ (\A i \in DOMAIN batch : batch[i] < v)
    BY <1>5, <1>15, <2>1 DEF TgInv, TgPolling
  <2> QED
    BY <2>4, <2>5, <2>6
<1>16. \A i, j \in DOMAIN b : i < j => b[i] < b[j]
  <2>1. \A i, j \in DOMAIN b : i + 1 \in DOMAIN batch /\ (i < j => i + 1 < j + 1)
    BY <1>1, <1>6
  <2> QED
    BY <1>5, <1>6, <2>1 DEF TgInv, TgPolling
<1>17. ASSUME NEW v \in taken' PROVE (\E h \in Handlers : hand'[h].u = v) \/ Settled(v)'
  <2>1. Idle.u = NoUpdate /\ NoUpdate \notin Updates
    BY TelegramAssumption DEF Idle, NoUpdate, Updates
  <2>2. CASE v = u0
    BY <1>4, <1>7, <2>2
  <2>3. CASE v \in taken
    <3>1. v \in Updates
        BY <2>3 DEF TgInv, TelegramTypeOK
    <3>2. Settled(v) => Settled(v)'
        BY <1>2 DEF Settled
    <3>3. ASSUME NEW h \in Handlers, hand[h].u = v PROVE hand'[h].u = v
        BY <1>2, <1>7, <2>1, <3>1, <3>3
    <3> QED
        BY <1>5, <2>3, <3>2, <3>3 DEF TgInv, TgPolling
  <2> QED
    BY <1>2, <2>2, <2>3
<1>18. TgPolling'
    BY <1>2, <1>11, <1>14, <1>15, <1>16, <1>17 DEF TgPolling
<1> QED
    BY <1>7, <1>8, <1>10, <1>12, <1>13, <1>18 DEF TgInv

\* The webhook hands an update to a handler.
LEMMA DeliverKeeps ==
    ASSUME TgInv, NEW h \in Handlers, NEW u \in Updates, Deliver(h, u)
    PROVE  TgInv'
<1>1. /\ mode = "webhook" /\ u \in held /\ hand[h] = Idle /\ repeats[u] < MaxRepeats
      /\ repeats' = [repeats EXCEPT ![u] = @ + 1]
      /\ hand' = [hand EXCEPT ![h] = [u |-> u, pc |-> "begin"]] /\ taken' = taken \cup {u}
      /\ UNCHANGED <<mode, alive, update, held, offset, batch, keys, request, opened, started,
                     broken, sweepVars, tgFaults, tgCrashes>>
    BY DEF Deliver
<1>2. WasAsked(u)
    BY <1>1 DEF TgInv, TgAsked
<1>3. /\ hand' \in [Handlers -> HandRecords] /\ hand'[h].u = u /\ hand'[h].pc = "begin"
      /\ \A g \in Handlers : g # h => hand'[g] = hand[g]
      /\ \A g \in Handlers : hand'[g] # Idle => WasAsked(hand'[g].u)
      /\ TgHands' /\ TgRunning'
    BY <1>1, <1>2, TakeUpFacts
<1>4. TgShape'
    BY <1>1, <1>3 DEF TgInv, TgShape
<1>5. TelegramTypeOK'
  <2>1. repeats' \in [Updates -> 0 .. MaxRepeats]
    BY <1>1, TelegramAssumption DEF TgInv, TelegramTypeOK
  <2> QED
    BY <1>1, <1>4, <2>1, TgTypedNext DEF TgInv, TelegramTypeOK, sweepVars
<1>6. \A v \in Updates : WasAsked(v)' <=> WasAsked(v)
    BY <1>1 DEF WasAsked
<1>7. TgAsked'
  <2>1. \A v \in held' \cup taken' : v \in Updates /\ WasAsked(v)
    BY <1>1, <1>2 DEF TgInv, TgAsked, TelegramTypeOK
  <2>2. \A g \in Handlers : hand'[g] # Idle => WasAsked(hand[g].u)'
    BY <1>1, <1>3 DEF WasAsked
  <2> QED
    BY <1>6, <2>1, <2>2 DEF TgInv, TgAsked
<1>8. TgOpened' /\ TgWebhook' /\ TgPolling'
    BY <1>1, <1>6 DEF TgInv, TgOpened, TgWebhook, TgPolling
<1> QED
    BY <1>3, <1>4, <1>5, <1>7, <1>8 DEF TgInv

\* A message opens a session, once.
LEMMA HandleMessageKeeps ==
    ASSUME TgInv, NEW h \in Handlers, HandleMessage(h)
    PROVE  TgInv'
<1> DEFINE u == hand[h].u
<1>1. /\ hand[h].pc = "begin" /\ Act(h) = "chat" /\ Goto(h, "tell")
      /\ UNCHANGED <<mode, alive, update, held, repeats, offset, batch, request, started, taken,
                     broken, sweepVars, tgFaults, tgCrashes>>
    BY DEF HandleMessage
<1>2. hand[h] # Idle /\ u \in Updates
    BY <1>1, HandFacts DEF TgInv
<1>3. \/ u \in keys /\ UNCHANGED <<keys, opened>>
      \/ u \notin keys /\ keys' = keys \cup {u} /\ opened' = [opened EXCEPT ![u] = @ + 1]
    BY DEF HandleMessage, Seen
<1>4. keys \subseteq keys' /\ u \in keys' /\ keys' \subseteq Updates
    BY <1>2, <1>3 DEF TgInv, TelegramTypeOK
<1>5. TgShape' /\ TgAsked' /\ TgHands' /\ TgPolling' /\ TgWebhook'
    BY <1>1, <1>2, <1>4, WorkKeeps DEF Steps
<1>6. opened' \in [Updates -> Nat] /\ TgOpened'
  <2>1. opened \in [Updates -> Nat] /\ \A v \in Updates : opened[v] <= 1 /\ (opened[v] # 0 => v \in keys)
    BY DEF TgInv, TelegramTypeOK, TgOpened
  <2> HIDE DEF u
  <2> QED
    BY <1>2, <1>3, <2>1 DEF TgOpened
<1>7. TelegramTypeOK'
    BY <1>1, <1>4, <1>5, <1>6, TgTypedNext DEF TgInv, TelegramTypeOK, sweepVars
<1>8. TgRunning'
  <2>1. /\ hand'[h].u = hand[h].u /\ hand'[h].pc = "tell"
        /\ \A g \in Handlers : g # h => hand'[g] = hand[g]
    BY <1>1, <1>2, GotoFacts DEF TgInv, Steps
  <2>2. ~Runs(h) /\ ~Runs(h)'
    BY <1>1, <2>1 DEF Runs
  <2>3. \A g \in Handlers : g # h => (Runs(g)' <=> Runs(g))
    BY <1>1, <2>1 DEF Runs, Act
  <2> QED
    BY <1>1, <2>1, <2>2, <2>3, RunningKeeps
<1> QED
    BY <1>5, <1>6, <1>7, <1>8 DEF TgInv

\* A button decides a pending request; its approval is executed by this handler alone.
LEMMA HandleCallbackKeeps ==
    ASSUME TgInv, NEW h \in Handlers, HandleCallback(h)
    PROVE  TgInv'
<1> DEFINE u == hand[h].u
           q == Asked(h)
<1>1. /\ hand[h].pc = "begin" /\ Act(h) \in {"approve", "reject"}
      /\ UNCHANGED <<mode, alive, update, held, repeats, offset, batch, opened, started, taken,
                     broken, sweepVars, tgFaults, tgCrashes>>
    BY DEF HandleCallback
<1>2. hand[h] # Idle /\ u \in Updates /\ q \in Approvals
  <2>1. hand[h] # Idle /\ u \in Updates
    BY <1>1, HandFacts DEF TgInv
  <2> QED
    BY <1>1, <2>1, UpdateFacts DEF TgInv, Act, Asked
<1>3. ~Runs(h)
    BY <1>1 DEF Runs
<1>4. CASE /\ UNCHANGED <<keys, request>>
           /\ \/ u \in keys /\ Goto(h, "ok")
              \/ request[q] # "pending" /\ Goto(h, "error")
  <2>1. PICK pc \in {"ok", "error"} :
            /\ Goto(h, pc) /\ (pc = "ok" => u \in keys') /\ (pc = "error" => Settled(u))
    BY <1>1, <1>4 DEF Settled, Act, Asked
  <2>2. /\ hand'[h].u = hand[h].u /\ hand'[h].pc = pc
        /\ \A g \in Handlers : g # h => hand'[g] = hand[g]
    BY <1>2, <2>1, GotoFacts DEF TgInv, Steps
  <2>3. pc = "error" => Settled(hand[h].u)'
    BY <1>1, <1>4, <2>1, <2>2 DEF Settled
  <2>4. TgShape' /\ TgAsked' /\ TgHands' /\ TgPolling' /\ TgWebhook'
    BY <1>1, <1>2, <1>4, <2>1, <2>3, WorkKeeps DEF Steps
  <2>5. TgRunning'
    <3>1. ~Runs(h)'
        BY <2>1, <2>2 DEF Runs
    <3>2. \A g \in Handlers : g # h => (Runs(g)' <=> Runs(g))
        BY <1>1, <2>2 DEF Runs, Act
    <3> QED
        BY <1>1, <1>3, <1>4, <2>2, <3>1, <3>2, RunningKeeps
  <2>6. TelegramTypeOK' /\ TgOpened'
    BY <1>1, <1>4, <2>4, TgTypedNext DEF TgInv, TelegramTypeOK, TgOpened, sweepVars
  <2> QED
    BY <2>4, <2>5, <2>6 DEF TgInv
<1>5. CASE /\ u \notin keys /\ request[q] = "pending" /\ keys' = keys \cup {u}
           /\ request' = [request EXCEPT ![q] = Verdict(Act(h))] /\ Goto(h, "notify")
  <2>1. /\ request \in [Approvals -> {"pending", "executing", "rejected", "finished"}]
        /\ keys' \subseteq Updates
    BY <1>2, <1>5 DEF TgInv, TelegramTypeOK
  <2>2. /\ Verdict(Act(h)) \in {"executing", "rejected"}
        /\ Verdict(Act(h)) = "executing" <=> Act(h) = "approve"
    BY DEF Verdict
  <2> HIDE DEF q, u
  <2>3. /\ request' \in [Approvals -> {"pending", "executing", "rejected", "finished"}]
        /\ request'[q] = Verdict(Act(h)) /\ \A r \in Approvals : r # q => request'[r] = request[r]
    BY <1>2, <1>5, <2>1, <2>2
  <2>4. \A r \in Approvals : request[r] # "pending" => request'[r] # "pending" /\ r # q
    BY <1>5, <2>3
  <2>5. /\ hand'[h].u = u /\ hand'[h].pc = "notify"
        /\ \A g \in Handlers : g # h => hand'[g] = hand[g]
    BY <1>2, <1>5, GotoFacts DEF TgInv, Steps, u
  <2>6. TgShape' /\ TgAsked' /\ TgHands' /\ TgPolling' /\ TgWebhook'
    BY <1>1, <1>2, <1>5, <2>4, WorkKeeps DEF Steps, u
  <2>7. TgOpened'
    BY <1>1, <1>5 DEF TgInv, TgOpened
  <2>8. TelegramTypeOK'
    BY <1>1, <2>1, <2>3, <2>6, TgTypedNext DEF TgInv, TelegramTypeOK, sweepVars
  <2>9. TgRunning'
    <3>1. /\ Asked(h)' = q /\ Act(h)' = Act(h)
          /\ \A g \in Handlers : g # h => Asked(g)' = Asked(g) /\ (Runs(g)' <=> Runs(g))
        BY <1>1, <2>5 DEF Asked, Act, Runs, q, u
    <3>2. Runs(h)' <=> Act(h) = "approve"
        BY <2>5, <3>1 DEF Runs
    <3>3. \A g \in Handlers : Runs(g) => Asked(g) \in Approvals /\ Asked(g) # q
      <4>1. \A g \in Handlers : Runs(g) => hand[g].u \in Updates /\ request[Asked(g)] = "executing"
        BY HandFacts DEF TgInv, TgRunning, Runs
      <4> QED
        BY <1>5, <4>1, UpdateFacts DEF TgInv, Runs, Act, Asked
    <3>4. /\ \A g \in Handlers : Runs(g) => /\ request[Asked(g)] = "executing"
                                            /\ hand[g].pc # "finish" => started[Asked(g)] = 0
          /\ \A f, g \in Handlers : Runs(f) /\ Runs(g) /\ Asked(f) = Asked(g) => f = g
          /\ started[q] = 0 /\ \A r \in Approvals : started[r] <= 1
        BY <1>2, <1>5 DEF TgInv, TgRunning
    <3>5. \A g \in Handlers : Runs(g)' => /\ request'[Asked(g)'] = "executing"
                                          /\ hand'[g].pc # "finish" => started'[Asked(g)'] = 0
      <4>1. ASSUME NEW g \in Handlers, Runs(g)', g # h
            PROVE  /\ request'[Asked(g)'] = "executing"
                   /\ hand'[g].pc # "finish" => started'[Asked(g)'] = 0
        BY <1>1, <2>3, <2>5, <3>1, <3>3, <3>4, <4>1
      <4>2. Runs(h)' => request'[q] = "executing" /\ started'[q] = 0
        BY <1>1, <2>2, <2>3, <3>2, <3>4
      <4> QED
        BY <3>1, <4>1, <4>2
    <3>6. \A f, g \in Handlers : Runs(f)' /\ Runs(g)' /\ Asked(f)' = Asked(g)' => f = g
        BY <3>1, <3>3, <3>4
    <3>7. ASSUME NEW r \in Approvals
          PROVE  /\ started'[r] <= 1 /\ (request'[r] = "pending" => started'[r] = 0)
                 /\ request'[r] = "executing" =>
                      \/ \E g \in Handlers : Runs(g)' /\ Asked(g)' = r
                      \/ \E v \in broken' : update'[v].act = "approve" /\ update'[v].req = r
      <4>1. CASE r = q
        BY <1>1, <2>2, <2>3, <3>1, <3>2, <3>4, <4>1
      <4>2. CASE r # q
        <5>1. request[r] = "executing" =>
                      \/ \E g \in Handlers : g # h /\ Runs(g) /\ Asked(g) = r
                      \/ \E v \in broken : update[v].act = "approve" /\ update[v].req = r
            BY <1>3 DEF TgInv, TgRunning
        <5>2. started[r] <= 1 /\ (request[r] = "pending" => started[r] = 0)
            BY DEF TgInv, TgRunning
        <5> QED
            BY <1>1, <2>3, <3>1, <4>2, <5>1, <5>2
      <4> QED
        BY <4>1, <4>2
    <3> QED
        BY <3>5, <3>6, <3>7 DEF TgRunning
  <2> QED
    BY <2>6, <2>7, <2>8, <2>9 DEF TgInv
<1> QED
    BY <1>4, <1>5 DEF HandleCallback, Seen

\* A message is sent or queued; then an approval is executed.
LEMMA NotifyKeeps ==
    ASSUME TgInv, NEW h \in Handlers, Notify(h)
    PROVE  TgInv'
<1> DEFINE pc == IF hand[h].pc = "notify" /\ Act(h) = "approve" THEN "execute" ELSE "ok"
<1>1. /\ hand[h].pc \in {"notify", "tell"} /\ Goto(h, pc)
      /\ UNCHANGED <<mode, alive, update, held, repeats, offset, batch, keys, request, opened,
                     started, taken, broken, sweepVars, tgFaults, tgCrashes>>
    BY DEF Notify
<1>2. /\ pc \in {"execute", "ok"}
      /\ pc = "execute" <=> Runs(h)
    BY <1>1 DEF Runs
<1>3. pc = "execute" => Act(h) = "approve" /\ hand[h].pc = "notify"
    OBVIOUS
<1> HIDE DEF pc
<1>4. hand[h] # Idle /\ hand[h].u \in keys
    BY <1>1, HandFacts DEF TgInv, TgHands
<1>5. TgShape' /\ TgAsked' /\ TgHands' /\ TgPolling' /\ TgWebhook'
    BY <1>1, <1>2, <1>3, <1>4, WorkKeeps DEF Steps
<1>6. /\ hand'[h].u = hand[h].u /\ hand'[h].pc = pc
      /\ \A g \in Handlers : g # h => hand'[g] = hand[g]
    BY <1>1, <1>2, <1>4, GotoFacts DEF TgInv, Steps
<1>7. TgRunning'
  <2>1. Act(h)' = Act(h) /\ \A g \in Handlers : g # h => Act(g)' = Act(g)
    BY <1>1, <1>6 DEF Act
  <2>2. Runs(h)' <=> Runs(h)
    BY <1>2, <1>3, <1>6, <2>1 DEF Runs
  <2>3. \A g \in Handlers : g # h => (Runs(g)' <=> Runs(g))
    BY <1>6, <2>1 DEF Runs
  <2>4. hand[h].pc # "finish"
    BY <1>1
  <2> QED
    BY <1>1, <1>6, <2>2, <2>3, <2>4, RunningKeeps
<1>8. TelegramTypeOK' /\ TgOpened'
    BY <1>1, <1>5, TgTypedNext DEF TgInv, TelegramTypeOK, TgOpened, sweepVars
<1> QED
    BY <1>5, <1>7, <1>8 DEF TgInv

\* An approved request is executed: for the first time.
LEMMA ExecuteApprovedKeeps ==
    ASSUME TgInv, NEW h \in Handlers, ExecuteApproved(h)
    PROVE  TgInv'
<1> DEFINE q == Asked(h)
<1>1. /\ hand[h].pc = "execute" /\ started' = [started EXCEPT ![q] = @ + 1] /\ Goto(h, "finish")
      /\ UNCHANGED <<mode, alive, update, held, repeats, offset, batch, keys, request, opened,
                     taken, broken, sweepVars, tgFaults, tgCrashes>>
    BY DEF ExecuteApproved
<1>2. hand[h] # Idle /\ hand[h].u \in Updates /\ hand[h].u \in keys /\ Act(h) = "approve" /\ Runs(h)
    BY <1>1, HandFacts DEF TgInv, TgHands, Runs
<1>3. q \in Approvals /\ request[q] = "executing" /\ started[q] = 0
    BY <1>1, <1>2, UpdateFacts DEF TgInv, TgRunning, Act, Asked
<1>4. started \in [Approvals -> Nat]
    BY DEF TgInv, TelegramTypeOK
<1>5. TgShape' /\ TgAsked' /\ TgHands' /\ TgPolling' /\ TgWebhook'
    BY <1>1, <1>2, WorkKeeps DEF Steps
<1>6. /\ hand'[h].u = hand[h].u /\ hand'[h].pc = "finish"
      /\ \A g \in Handlers : g # h => hand'[g] = hand[g]
    BY <1>1, <1>2, GotoFacts DEF TgInv, Steps
<1>7. /\ \A g \in Handlers : Asked(g)' = Asked(g) /\ (Runs(g)' <=> Runs(g))
    BY <1>1, <1>2, <1>6 DEF Asked, Act, Runs
<1> HIDE DEF q
<1>8. /\ started' \in [Approvals -> Nat] /\ started'[q] = 1
      /\ \A r \in Approvals : r # q => started'[r] = started[r]
    BY <1>1, <1>3, <1>4
<1>9. TelegramTypeOK' /\ TgOpened'
    BY <1>1, <1>5, <1>8, TgTypedNext DEF TgInv, TelegramTypeOK, TgOpened, sweepVars
<1>10. TgRunning'
  <2>1. ASSUME NEW g \in Handlers, Runs(g)
        PROVE  request'[Asked(g)'] = "executing" /\ (hand'[g].pc # "finish" => started'[Asked(g)'] = 0)
    <3>1. Asked(g) \in Approvals
        BY <2>1, HandFacts, UpdateFacts DEF TgInv, Runs, Act, Asked
    <3>2. CASE g = h
        BY <1>1, <1>3, <1>6, <1>7, <3>2 DEF q
    <3>3. CASE g # h
      <4>1. Asked(g) # q
        BY <1>2, <2>1, <3>3 DEF TgInv, TgRunning, q
      <4> QED
        BY <1>1, <1>6, <1>7, <1>8, <2>1, <3>1, <3>3, <4>1 DEF TgInv, TgRunning
    <3> QED
        BY <3>2, <3>3
  <2>2. ASSUME NEW r \in Approvals
        PROVE  /\ started'[r] <= 1 /\ (request'[r] = "pending" => started'[r] = 0)
               /\ request'[r] = "executing" =>
                    \/ \E g \in Handlers : Runs(g)' /\ Asked(g)' = r
                    \/ \E v \in broken' : update'[v].act = "approve" /\ update'[v].req = r
    BY <1>1, <1>3, <1>7, <1>8 DEF TgInv, TgRunning
  <2>3. \A f, g \in Handlers : Runs(f)' /\ Runs(g)' /\ Asked(f)' = Asked(g)' => f = g
    BY <1>7 DEF TgInv, TgRunning
  <2> QED
    BY <1>7, <2>1, <2>2, <2>3 DEF TgRunning
<1> QED
    BY <1>5, <1>9, <1>10 DEF TgInv

\* The result is stored: the request is no longer executing.
LEMMA StoreResultKeeps ==
    ASSUME TgInv, NEW h \in Handlers, StoreResult(h)
    PROVE  TgInv'
<1> DEFINE q == Asked(h)
<1>1. /\ hand[h].pc = "finish" /\ request' = [request EXCEPT ![q] = "finished"] /\ Goto(h, "tell")
      /\ UNCHANGED <<mode, alive, update, held, repeats, offset, batch, keys, opened,
                     started, taken, broken, sweepVars, tgFaults, tgCrashes>>
    BY DEF StoreResult
<1>2. hand[h] # Idle /\ hand[h].u \in Updates /\ hand[h].u \in keys /\ Act(h) = "approve" /\ Runs(h)
    BY <1>1, HandFacts DEF TgInv, TgHands, Runs
<1>3. q \in Approvals /\ request[q] = "executing"
    BY <1>1, <1>2, UpdateFacts DEF TgInv, TgRunning, Act, Asked
<1>4. request \in [Approvals -> {"pending", "executing", "rejected", "finished"}]
    BY DEF TgInv, TelegramTypeOK
<1>5. /\ hand'[h].u = hand[h].u /\ hand'[h].pc = "tell"
      /\ \A g \in Handlers : g # h => hand'[g] = hand[g]
    BY <1>1, <1>2, GotoFacts DEF TgInv, Steps
<1>6. /\ \A g \in Handlers : Asked(g)' = Asked(g)
      /\ ~Runs(h)' /\ \A g \in Handlers : g # h => (Runs(g)' <=> Runs(g))
    BY <1>1, <1>5 DEF Asked, Act, Runs
<1>7. \A g \in Handlers : g # h /\ Runs(g) => Asked(g) # q /\ Asked(g) \in Approvals
  <2>1. \A g \in Handlers : g # h /\ Runs(g) => Asked(g) # q
    BY <1>2 DEF TgInv, TgRunning
  <2> QED
    BY <2>1, HandFacts, UpdateFacts DEF TgInv, Runs, Act, Asked
<1> HIDE DEF q
<1>8. /\ request' \in [Approvals -> {"pending", "executing", "rejected", "finished"}] /\ request'[q] = "finished"
      /\ \A r \in Approvals : r # q => request'[r] = request[r]
    BY <1>1, <1>3, <1>4
<1>9. TgShape' /\ TgAsked' /\ TgHands' /\ TgPolling' /\ TgWebhook'
  <2>1. \A r \in Approvals : request[r] # "pending" => request'[r] # "pending"
    BY <1>8
  <2> QED
    BY <1>1, <1>2, <2>1, WorkKeeps DEF Steps
<1>10. TelegramTypeOK' /\ TgOpened'
    BY <1>1, <1>9, <1>8, TgTypedNext DEF TgInv, TelegramTypeOK, TgOpened, sweepVars
<1>11. TgRunning'
  <2>1. ASSUME NEW g \in Handlers, Runs(g)'
        PROVE  request'[Asked(g)'] = "executing" /\ (hand'[g].pc # "finish" => started'[Asked(g)'] = 0)
    <3>1. g # h /\ Runs(g) /\ Asked(g) # q /\ Asked(g) \in Approvals
        BY <1>6, <1>7, <2>1
    <3> QED
        BY <1>1, <1>5, <1>6, <1>8, <3>1 DEF TgInv, TgRunning
  <2>2. ASSUME NEW r \in Approvals
        PROVE  /\ started'[r] <= 1 /\ (request'[r] = "pending" => started'[r] = 0)
               /\ request'[r] = "executing" =>
                    \/ \E g \in Handlers : Runs(g)' /\ Asked(g)' = r
                    \/ \E v \in broken' : update'[v].act = "approve" /\ update'[v].req = r
    <3>1. CASE r = q
        BY <1>1, <1>8, <3>1 DEF TgInv, TgRunning
    <3>2. CASE r # q
      <4>1. \A g \in Handlers : Runs(g) /\ Asked(g) = r => g # h
        BY <3>2 DEF q
      <4> QED
        BY <1>1, <1>6, <1>8, <3>2, <4>1 DEF TgInv, TgRunning
    <3> QED
        BY <3>1, <3>2
  <2>3. \A f, g \in Handlers : Runs(f)' /\ Runs(g)' /\ Asked(f)' = Asked(g)' => f = g
    BY <1>6 DEF TgInv, TgRunning
  <2> QED
    BY <2>1, <2>2, <2>3 DEF TgRunning
<1> QED
    BY <1>9, <1>10, <1>11 DEF TgInv

\* A failed call ends the processing and marks the update.
LEMMA ProcessingFailsKeeps ==
    ASSUME TgInv, NEW h \in Handlers, ProcessingFails(h)
    PROVE  TgInv'
<1>1. /\ hand[h].pc \in {"begin", "notify", "finish", "tell"} /\ tgFaults < MaxTgFaults
      /\ tgFaults' = tgFaults + 1 /\ broken' = broken \cup {hand[h].u} /\ Goto(h, "error")
      /\ UNCHANGED <<mode, alive, update, held, repeats, offset, batch, keys, request, opened,
                     started, taken, sweepVars, tgCrashes>>
    BY DEF ProcessingFails
<1>2. hand[h] # Idle /\ hand[h].u \in Updates
    BY <1>1, HandFacts DEF TgInv
<1>3. broken \subseteq broken' /\ hand[h].u \in broken' /\ broken' \subseteq Updates
    BY <1>1, <1>2 DEF TgInv, TelegramTypeOK
<1>4. /\ hand'[h].u = hand[h].u /\ hand'[h].pc = "error"
      /\ \A g \in Handlers : g # h => hand'[g] = hand[g]
    BY <1>1, <1>2, GotoFacts DEF TgInv, Steps
<1>5. Settled(hand[h].u)'
    BY <1>3, <1>4 DEF Settled
<1>6. TgShape' /\ TgAsked' /\ TgHands' /\ TgPolling' /\ TgWebhook'
    BY <1>1, <1>2, <1>3, <1>5, WorkKeeps DEF Steps
<1>7. TgRunning'
  <2>1. ~Runs(h)'
    BY <1>4 DEF Runs
  <2>2. \A g \in Handlers : g # h => (Runs(g)' <=> Runs(g))
    BY <1>1, <1>4 DEF Runs, Act
  <2> QED
    BY <1>1, <1>3, <1>4, <2>1, <2>2, RunningKeeps
<1>8. TelegramTypeOK' /\ TgOpened'
  <2>1. tgFaults' \in 0 .. MaxTgFaults
    BY <1>1, TelegramAssumption DEF TgInv, TelegramTypeOK
  <2> QED
    BY <1>1, <1>3, <1>6, <2>1, TgTypedNext DEF TgInv, TelegramTypeOK, TgOpened, sweepVars
<1> QED
    BY <1>6, <1>7, <1>8 DEF TgInv

\* The handler is done: what the webhook confirms was applied.
LEMMA EndUpdateKeeps ==
    ASSUME TgInv, NEW h \in Handlers, EndUpdate(h)
    PROVE  TgInv'
<1> DEFINE u == hand[h].u
<1>1. /\ hand[h].pc \in {"ok", "error"} /\ held' = IF Answered(h) THEN held \ {u} ELSE held
      /\ hand' = [hand EXCEPT ![h] = Idle]
      /\ UNCHANGED <<mode, alive, update, repeats, offset, batch, keys, request, opened,
                     started, taken, broken, sweepVars, tgFaults, tgCrashes>>
    BY DEF EndUpdate
<1>2. Settled(u) /\ (hand[h].pc = "ok" => u \in keys) /\ u \in Updates
    BY <1>1, HandFacts DEF TgInv, TgHands, Settled
<1>3. /\ hand' \in [Handlers -> HandRecords] /\ hand'[h] = Idle
      /\ \A g \in Handlers : g # h => hand'[g] = hand[g]
    BY <1>1 DEF TgInv, TgShape, HandRecords
<1>4. held' \subseteq held /\ (mode = "poll" => held' = held)
    BY <1>1 DEF Answered
<1>5. Idle.pc = "idle" /\ Idle.u = NoUpdate
    BY DEF Idle
<1>6. TgShape'
  <2>1. batch \in Seq(held')
    <3>1. CASE mode = "poll"
        BY <1>4, <3>1 DEF TgInv, TgShape
    <3>2. CASE mode = "webhook"
        BY <3>2 DEF TgInv, TgWebhook
    <3> QED
        BY <3>1, <3>2 DEF TgInv, TelegramTypeOK
  <2> QED
    BY <1>1, <1>3, <2>1 DEF TgInv, TgShape
<1>7. TelegramTypeOK'
  <2>1. held' \subseteq Updates
    BY <1>4 DEF TgInv, TelegramTypeOK
  <2> QED
    BY <1>1, <1>6, <2>1, TgTypedNext DEF TgInv, TelegramTypeOK, sweepVars
<1>8. TgAsked'
    BY <1>1, <1>3, <1>4 DEF TgInv, TgAsked, WasAsked
<1>9. \A g \in Handlers : g # h => Act(g)' = Act(g) /\ (Settled(hand[g].u)' <=> Settled(hand[g].u))
    BY <1>1, <1>3 DEF Act, Settled
<1>10. TgHands'
    BY <1>1, <1>3, <1>5, <1>9 DEF TgInv, TgHands
<1>11. TgRunning'
  <2>1. ~Runs(h) /\ ~Runs(h)'
    BY <1>1, <1>3, <1>5 DEF Runs
  <2>2. \A g \in Handlers : g # h => (Runs(g)' <=> Runs(g))
    BY <1>3, <1>9 DEF Runs
  <2> QED
    BY <1>1, <1>3, <2>1, <2>2, RunningKeeps
<1>12. TgOpened'
    BY <1>1 DEF TgInv, TgOpened
<1>13. TgPolling'
  <2>1. ASSUME mode = "poll", NEW v \in taken
        PROVE  (\E g \in Handlers : hand'[g].u = v) \/ Settled(v)'
    <3>1. Settled(v) => Settled(v)'
        BY <1>1 DEF Settled
    <3> QED
        BY <1>2, <1>3, <2>1, <3>1 DEF TgInv, TgPolling
  <2>2. \A v \in Updates : WasAsked(v)' <=> WasAsked(v)
    BY <1>1 DEF WasAsked
  <2> QED
    BY <1>1, <1>4, <2>1, <2>2 DEF TgInv, TgPolling
<1>14. TgWebhook'
  <2>1. \A v \in held : v \notin held' => v \in keys
    BY <1>1, <1>2 DEF Answered
  <2>2. \A v \in Updates : WasAsked(v)' <=> WasAsked(v)
    BY <1>1 DEF WasAsked
  <2> QED
    BY <1>1, <2>1, <2>2 DEF TgInv, TgWebhook
<1> QED
    BY <1>6, <1>7, <1>8, <1>10, <1>11, <1>12, <1>13, <1>14 DEF TgInv

\* A finite set made a sequence: every element occurs.
LEMMA SetToSeqFacts ==
    ASSUME NEW S, IsFiniteSet(S)
    PROVE  /\ SetToSeq(S) \in Seq(S)
           /\ \A x \in S : \E i \in DOMAIN SetToSeq(S) : SetToSeq(S)[i] = x
<1> DEFINE n == Cardinality(S)
<1>1. n \in Nat /\ ExistsBijection(1 .. n, S)
    BY FS_CardinalityType
<1>2. \E f \in [1 .. n -> S] : IsInjective(f)
    BY <1>1 DEF ExistsBijection, Bijection, Injection, IsInjective
<1> DEFINE s == SetToSeq(S)
<1>3. s \in [1 .. n -> S] /\ IsInjective(s)
    BY <1>2 DEF SetToSeq
<1> HIDE DEF s, n
<1>4. s \in Injection(1 .. n, S)
    BY <1>3 DEF Injection, IsInjective
<1>5. Cardinality(1 .. n) = n
    BY <1>1, FS_Interval
<1>6. s \in Surjection(1 .. n, S)
    BY <1>4, <1>5, FS_Injection DEF n
<1>7. \A x \in S : \E i \in DOMAIN s : s[i] = x
    BY <1>3, <1>6 DEF Surjection
<1>8. s \in Seq(S)
    BY <1>1, <1>3
<1> QED
    BY <1>7, <1>8 DEF s

\* The timeout worker rejects pending requests, which nobody executes, and lists all
\* their targets.
LEMMA SweepKeeps ==
    ASSUME TgInv, TimeoutsTold, SweepApprovalTimeouts
    PROVE  TgInv' /\ TimeoutsTold'
<1>1. PICK due \in SUBSET {r \in Approvals : request[r] = "pending"} :
          /\ request' = [r \in Approvals |-> IF r \in due THEN "rejected" ELSE request[r]]
          /\ expired' = expired \cup due /\ sweep' = SetToSeq(due \X (1..Targets))
    BY DEF SweepApprovalTimeouts
<1>2. /\ sweep = <<>>
      /\ UNCHANGED <<mode, alive, update, held, repeats, offset, batch, hand, keys, opened,
                     started, taken, broken, warned, cutShort, tgFaults, tgCrashes>>
    BY DEF SweepApprovalTimeouts
<1> DEFINE S == due \X (1..Targets)
<1>3. IsFiniteSet(S)
  <2>1. due \in SUBSET Approvals
    OBVIOUS
  <2>2. IsFiniteSet(due)
    BY <2>1, TelegramAssumption, FS_Subset
  <2>3. IsFiniteSet(1 .. Targets)
    BY TelegramAssumption, FS_Interval
  <2> QED
    BY <2>2, <2>3, FS_Product
<1>4. /\ sweep' \in Seq(S) /\ \A x \in S : \E i \in DOMAIN sweep' : sweep'[i] = x
    BY <1>1, <1>3, SetToSeqFacts
<1>5. request \in [Approvals -> {"pending", "executing", "rejected", "finished"}]
    BY DEF TgInv, TelegramTypeOK
<1>6. /\ request' \in [Approvals -> {"pending", "executing", "rejected", "finished"}]
      /\ \A r \in Approvals : /\ request[r] # "pending" => request'[r] = request[r]
                              /\ request'[r] = "executing" => request[r] = "executing"
                              /\ request'[r] = "pending" => request[r] = "pending"
    BY <1>1, <1>5
<1>7. TgShape' /\ TgAsked' /\ TgOpened' /\ TgWebhook'
    BY <1>2 DEF TgInv, TgShape, TgAsked, TgOpened, TgWebhook, WasAsked
<1>8. TelegramTypeOK'
  <2>1. S \subseteq Approvals \X (1..Targets)
    OBVIOUS
  <2> HIDE DEF S
  <2>2. sweep' \in Seq(Approvals \X (1..Targets))
    BY <1>4, <2>1
  <2>3. expired' \subseteq Approvals
    BY <1>1 DEF TgInv, TelegramTypeOK
  <2> QED
    BY <1>2, <1>6, <2>2, <2>3 DEF TgInv, TelegramTypeOK
<1>9. \A u \in Updates : WasAsked(u) /\ Settled(u) => Settled(u)'
    BY <1>2, <1>6, SettledStays
<1>10. TgHands'
  <2>1. \A h \in Handlers : hand[h].pc = "error" => Settled(hand[h].u)'
    BY <1>2, <1>9, HandFacts DEF TgInv, TgHands, TgAsked
  <2> QED
    BY <1>2, <2>1 DEF TgInv, TgHands, Act
<1>11. TgRunning'
  <2>1. \A h \in Handlers : Asked(h)' = Asked(h) /\ (Runs(h)' <=> Runs(h))
    BY <1>2 DEF Asked, Runs, Act
  <2>2. \A h \in Handlers : Runs(h) => Asked(h) \in Approvals
    BY HandFacts, UpdateFacts DEF TgInv, Runs, Act, Asked
  <2>3. \A h \in Handlers : Runs(h) => /\ request'[Asked(h)] = "executing"
                                       /\ hand[h].pc # "finish" => started[Asked(h)] = 0
    BY <1>6, <2>2 DEF TgInv, TgRunning
  <2> QED
    BY <1>2, <1>6, <2>1, <2>3 DEF TgInv, TgRunning
<1>12. TgPolling'
  <2>1. mode = "poll" => \A u \in taken : (\E h \in Handlers : hand[h].u = u) \/ Settled(u)'
    BY <1>9 DEF TgInv, TgPolling, TgAsked, TelegramTypeOK
  <2> QED
    BY <1>2, <2>1 DEF TgInv, TgPolling, WasAsked
<1>13. TimeoutsTold'
  <2> SUFFICES ASSUME NEW r \in expired' \ cutShort', NEW t \in 1..Targets
               PROVE  <<r, t>> \in warned' \/ <<r, t>> \in ToSet(sweep')
    BY DEF TimeoutsTold
  <2>1. CASE r \in due
    <3>1. <<r, t>> \in S
        BY <2>1
    <3> QED
        BY <1>4, <3>1 DEF ToSet
  <2>2. CASE r \in expired
    BY <1>2, <2>2 DEF TimeoutsTold, ToSet
  <2> QED
    BY <1>1, <2>1, <2>2
<1> QED
    BY <1>7, <1>8, <1>10, <1>11, <1>12, <1>13 DEF TgInv

\* A target is told, or the first failure ends the sweep and is remembered.
LEMMA SendTimeoutKeeps ==
    ASSUME TgInv, TimeoutsTold, SendTimeout
    PROVE  TgInv' /\ TimeoutsTold'
<1>1. /\ sweep # <<>>
      /\ UNCHANGED <<mode, alive, update, held, repeats, offset, batch, hand, keys, request, opened,
                     started, taken, broken, expired, tgCrashes>>
    BY DEF SendTimeout
<1>2. sweep \in Seq(Approvals \X (1..Targets))
    BY DEF TgInv, TelegramTypeOK
<1> DEFINE P == Approvals \X (1..Targets)
<1>3. P = Approvals \X (1..Targets)
    OBVIOUS
<1> HIDE DEF P
<1>4. /\ Head(sweep) \in P /\ Tail(sweep) \in Seq(P)
      /\ Len(sweep) \in Nat /\ DOMAIN sweep = 1 .. Len(sweep) /\ Head(sweep) = sweep[1]
      /\ DOMAIN Tail(sweep) = 1 .. Len(sweep) - 1
      /\ \A i \in DOMAIN Tail(sweep) : Tail(sweep)[i] = sweep[i + 1]
      /\ \A i \in DOMAIN sweep : sweep[i] \in P
    BY <1>1, <1>2, <1>3
<1>5. /\ warned' \subseteq P /\ sweep' \in Seq(P) /\ cutShort' \subseteq Approvals
      /\ tgFaults' \in 0 .. MaxTgFaults
  <2>1. /\ warned \subseteq P /\ cutShort \subseteq Approvals /\ tgFaults \in 0 .. MaxTgFaults
    BY <1>3 DEF TgInv, TelegramTypeOK
  <2>2. Unsent \subseteq Approvals
    <3>1. \A x \in P : x[1] \in Approvals
        BY <1>3
    <3> QED
        BY <1>4, <3>1 DEF Unsent
  <2>3. tgFaults' \in 0 .. MaxTgFaults
    BY <2>1, TelegramAssumption DEF SendTimeout
  <2>4. CASE warned' = warned \cup {Head(sweep)} /\ sweep' = Tail(sweep) /\ UNCHANGED cutShort
    BY <1>4, <2>1, <2>3, <2>4
  <2>5. CASE cutShort' = cutShort \cup Unsent /\ sweep' = <<>> /\ UNCHANGED warned
    <3>1. <<>> \in Seq(P)
        OBVIOUS
    <3> QED
        BY <2>1, <2>2, <2>3, <2>5, <3>1
  <2> QED
    BY <2>4, <2>5 DEF SendTimeout
<1>6. TgInv'
  <2>1. TgShape' /\ TgAsked' /\ TgHands' /\ TgOpened'
    BY <1>1 DEF TgInv, TgShape, TgAsked, TgHands, TgOpened, WasAsked, Settled, Act
  <2>2. TgRunning'
    BY <1>1 DEF TgInv, TgRunning, Runs, Act, Asked
  <2>3. TgPolling' /\ TgWebhook'
    BY <1>1 DEF TgInv, TgPolling, TgWebhook, WasAsked, Settled
  <2>4. TelegramTypeOK'
    BY <1>1, <1>3, <1>5 DEF TgInv, TelegramTypeOK
  <2> QED
    BY <2>1, <2>2, <2>3, <2>4 DEF TgInv
<1>7. TimeoutsTold'
  <2> SUFFICES ASSUME NEW r \in expired' \ cutShort', NEW t \in 1..Targets
               PROVE  <<r, t>> \in warned' \/ <<r, t>> \in ToSet(sweep')
    BY DEF TimeoutsTold
  <2>1. CASE warned' = warned \cup {Head(sweep)} /\ sweep' = Tail(sweep) /\ UNCHANGED cutShort
    <3>1. <<r, t>> \in warned \/ \E i \in DOMAIN sweep : sweep[i] = <<r, t>>
        BY <1>1, <2>1 DEF TimeoutsTold, ToSet
    <3>2. ASSUME NEW i \in DOMAIN sweep, sweep[i] = <<r, t>>, i # 1
          PROVE  <<r, t>> \in ToSet(Tail(sweep))
      <4>1. i - 1 \in DOMAIN Tail(sweep) /\ (i - 1) + 1 = i
        BY <1>4, <3>2
      <4>2. Tail(sweep)[i - 1] = <<r, t>>
        BY <1>4, <3>2, <4>1
      <4> QED
        BY <4>1, <4>2 DEF ToSet
    <3> QED
        BY <1>4, <2>1, <3>1, <3>2
  <2>2. CASE cutShort' = cutShort \cup Unsent /\ sweep' = <<>> /\ UNCHANGED warned
    <3>1. r \in expired \ cutShort /\ r \notin Unsent
        BY <1>1, <2>2
    <3>2. \A i \in DOMAIN sweep : sweep[i] # <<r, t>>
        BY <3>1 DEF Unsent
    <3> QED
        BY <2>2, <3>1, <3>2 DEF TimeoutsTold, ToSet
  <2> QED
    BY <2>1, <2>2 DEF SendTimeout
<1> QED
    BY <1>6, <1>7

\* A crash: what was in work counts as broken, what was to be told as cut short.
LEMMA TgCrashKeeps ==
    ASSUME TgInv, TimeoutsTold, TgCrash
    PROVE  TgInv' /\ TimeoutsTold'
<1>1. /\ alive' = FALSE /\ tgCrashes < MaxTgCrashes /\ tgCrashes' = tgCrashes + 1
      /\ broken' = broken \cup {hand[h].u : h \in {k \in Handlers : hand[k] # Idle}}
      /\ cutShort' = cutShort \cup Unsent
      /\ hand' = [h \in Handlers |-> Idle] /\ batch' = <<>> /\ sweep' = <<>> /\ offset' = 0
      /\ UNCHANGED <<mode, update, held, repeats, keys, request, opened, started, taken,
                     expired, warned, tgFaults>>
    BY DEF TgCrash
<1>2. Idle.pc = "idle" /\ Idle.u = NoUpdate /\ \A h \in Handlers : hand'[h] = Idle
    BY <1>1 DEF Idle
<1>3. /\ broken \subseteq broken' /\ broken' \subseteq Updates
      /\ \A h \in Handlers : hand[h] # Idle => hand[h].u \in broken'
  <2>1. \A h \in Handlers : hand[h] # Idle => hand[h].u \in Updates
    BY HandFacts DEF TgInv
  <2> QED
    BY <1>1, <2>1 DEF TgInv, TelegramTypeOK
<1>4. TgShape'
    BY <1>1, <1>2 DEF TgInv, TgShape, HandRecords
<1>5. TelegramTypeOK'
  <2>1. offset' \in 0 .. MaxUpdates + 1 /\ tgCrashes' \in 0 .. MaxTgCrashes
    BY <1>1, TelegramAssumption DEF TgInv, TelegramTypeOK
  <2>2. cutShort' \subseteq Approvals
    <3>1. sweep \in Seq(Approvals \X (1..Targets)) /\ cutShort \subseteq Approvals
        BY DEF TgInv, TelegramTypeOK
    <3>2. \A i \in DOMAIN sweep : sweep[i] \in Approvals \X (1..Targets)
        BY <3>1
    <3>3. \A i \in DOMAIN sweep : sweep[i][1] \in Approvals
        BY <3>2
    <3> QED
        BY <1>1, <3>1, <3>3 DEF Unsent
  <2>3. sweep' \in Seq(Approvals \X (1..Targets))
    <3>1. \A S : <<>> \in Seq(S)
        OBVIOUS
    <3> QED
        BY <1>1, <3>1
  <2>4. alive' \in BOOLEAN
    BY <1>1
  <2> QED
    BY <1>1, <1>3, <1>4, <2>1, <2>2, <2>3, <2>4, TgTypedNext DEF TgInv, TelegramTypeOK
<1>6. TgAsked' /\ TgOpened' /\ TgWebhook'
    BY <1>1, <1>2 DEF TgInv, TgAsked, TgOpened, TgWebhook, WasAsked
<1>7. TgHands'
    BY <1>2 DEF TgHands
<1>8. TgRunning'
  <2>1. \A h \in Handlers : ~Runs(h)' /\ (Runs(h) => hand[h] # Idle)
    BY <1>2 DEF Runs
  <2> QED
    BY <1>1, <1>3, <2>1, RunningKeeps
<1>9. TgPolling'
  <2>1. \A v \in Updates : ~(v < 0)
    BY TelegramAssumption DEF Updates
  <2>2. ASSUME mode = "poll", NEW u \in taken PROVE Settled(u)'
    <3>1. u \in Updates /\ WasAsked(u)
        BY DEF TgInv, TgAsked, TelegramTypeOK
    <3>2. Settled(u) => Settled(u)'
        BY <1>1, <1>3 DEF Settled
    <3>3. ASSUME NEW h \in Handlers, hand[h].u = u PROVE u \in broken'
        BY <1>3, <3>1, <3>3, HandFacts DEF TgInv
    <3> QED
        BY <2>2, <3>2, <3>3 DEF TgInv, TgPolling, Settled
  <2>3. \A v \in Updates : WasAsked(v)' <=> WasAsked(v)
    BY <1>1 DEF WasAsked
  <2>4. DOMAIN batch' = {}
    BY <1>1
  <2> QED
    BY <1>1, <2>1, <2>2, <2>3, <2>4 DEF TgInv, TgPolling
<1>10. TimeoutsTold'
  <2> SUFFICES ASSUME NEW r \in expired' \ cutShort', NEW t \in 1..Targets
               PROVE  <<r, t>> \in warned'
    BY DEF TimeoutsTold
  <2>1. r \in expired \ cutShort /\ r \notin Unsent
    BY <1>1
  <2>2. \A i \in DOMAIN sweep : sweep[i] # <<r, t>>
    BY <2>1 DEF Unsent
  <2> QED
    BY <1>1, <2>1, <2>2 DEF TimeoutsTold, ToSet
<1> QED
    BY <1>4, <1>5, <1>6, <1>7, <1>8, <1>9, <1>10 DEF TgInv

\* The invariant of the channel is inductive.
LEMMA TgStep ==
    ASSUME TgInv, TimeoutsTold, [TelegramNext]_tgVars
    PROVE  TgInv' /\ TimeoutsTold'
<1>1. ASSUME UNCHANGED <<mode, update, held, repeats, offset, batch, hand, keys, request, opened,
                         started, taken, broken, sweepVars, tgFaults, tgCrashes>>,
             alive' \in BOOLEAN
      PROVE  TgInv' /\ TimeoutsTold'
  <2>1. TgShape' /\ TgAsked' /\ TgHands' /\ TgOpened'
    BY <1>1 DEF TgInv, TgShape, TgAsked, TgHands, TgOpened, WasAsked, Settled, Act
  <2>2. TgRunning'
    BY <1>1 DEF TgInv, TgRunning, Runs, Act, Asked
  <2>3. TgPolling' /\ TgWebhook'
    BY <1>1 DEF TgInv, TgPolling, TgWebhook, WasAsked, Settled
  <2>4. TelegramTypeOK' /\ TimeoutsTold'
    BY <1>1 DEF TgInv, TelegramTypeOK, sweepVars, TimeoutsTold
  <2> QED
    BY <2>1, <2>2, <2>3, <2>4 DEF TgInv
<1>2. CASE UNCHANGED tgVars \/ TgRestart
    BY <1>1, <1>2 DEF tgVars, sweepVars, TgRestart, TgInv, TelegramTypeOK
<1>3. ASSUME UNCHANGED sweepVars PROVE TimeoutsTold'
    BY <1>3 DEF sweepVars, TimeoutsTold
<1>4. ASSUME NEW act \in {"approve", "reject"}, NEW r \in Approvals, SendUpdate(act, r)
      PROVE  TgInv' /\ TimeoutsTold'
  <2>1. [act |-> act, req |-> r] \in UpdateKinds
    BY DEF UpdateKinds
  <2> QED
    BY <1>3, <1>4, <2>1, SendUpdateKeeps DEF SendUpdate
<1>5. CASE SendUpdate("chat", NoUpdate)
  <2>1. [act |-> "chat", req |-> NoUpdate] \in UpdateKinds
    BY DEF UpdateKinds
  <2> QED
    BY <1>3, <1>5, <2>1, SendUpdateKeeps DEF SendUpdate
<1>6. CASE GetUpdates
    BY <1>3, <1>6, GetUpdatesKeeps DEF GetUpdates
<1>7. CASE TakeNext
    BY <1>3, <1>7, TakeNextKeeps DEF TakeNext
<1>8. ASSUME NEW h \in Handlers, NEW u \in Updates, Deliver(h, u)
      PROVE  TgInv' /\ TimeoutsTold'
    BY <1>3, <1>8, DeliverKeeps DEF Deliver
<1>9. ASSUME NEW h \in Handlers, Process(h) \/ ProcessingFails(h)
      PROVE  TgInv' /\ TimeoutsTold'
  <2>1. UNCHANGED sweepVars
    BY <1>9 DEF Process, HandleMessage, HandleCallback, Notify, ExecuteApproved, StoreResult,
                EndUpdate, ProcessingFails
  <2> QED
    BY <1>3, <1>9, <2>1, HandleMessageKeeps, HandleCallbackKeeps, NotifyKeeps, ExecuteApprovedKeeps,
       StoreResultKeeps, EndUpdateKeeps, ProcessingFailsKeeps DEF Process
<1>10. CASE SweepApprovalTimeouts \/ SendTimeout \/ TgCrash
    BY <1>10, SweepKeeps, SendTimeoutKeeps, TgCrashKeeps
<1> QED
    BY <1>2, <1>4, <1>5, <1>6, <1>7, <1>8, <1>9, <1>10 DEF TelegramNext

\* What the invariant says of an update Telegram no longer holds, of executions and of
\* requests left executing.
LEMMA TgInvSound == TgInv => UpdatesSound
<1> SUFFICES ASSUME TgInv PROVE UpdatesSound
    OBVIOUS
<1>1. UpdateAppliedOnce
    BY DEF UpdateAppliedOnce, TgInv, TgRunning, TgOpened
<1>2. ConfirmedWasTaken
    BY DEF ConfirmedWasTaken, TgInv, TgPolling, WasAsked
<1>3. LostOnlyToFaults
  <2> SUFFICES ASSUME NEW u \in Updates, update[u] # NoUpdateAsked, u \notin held,
                      u \notin {hand[h].u : h \in Handlers}
               PROVE  \/ u \in keys
                      \/ mode = "poll" /\ u \in broken
                      \/ mode = "poll" /\ update[u].act # "chat" /\ request[update[u].req] # "pending"
    BY DEF LostOnlyToFaults
  <2>1. CASE mode = "poll"
    <3>1. u \in taken
        BY <1>2, <2>1 DEF ConfirmedWasTaken
    <3>2. Settled(u)
        BY <2>1, <3>1 DEF TgInv, TgPolling
    <3> QED
        BY <2>1, <3>2 DEF Settled
  <2>2. CASE mode = "webhook"
    BY <2>2 DEF TgInv, TgWebhook, WasAsked
  <2> QED
    BY <2>1, <2>2 DEF TgInv, TelegramTypeOK
<1>4. StuckOnlyByFault
    BY DEF StuckOnlyByFault, TgInv, TgRunning, Runs
<1> QED
    BY <1>1, <1>2, <1>3, <1>4 DEF UpdatesSound, TgInv

\* However often Telegram repeats an update, by poll or webhook, and wherever calls fail
\* or the process dies, it is applied once, and only a failure loses it or leaves its
\* request executing: StartPolling, telegramHandler and processTelegramUpdate.  Every
\* target of a request the timeout worker rejected has been told, or is about to be,
\* unless a message of that sweep failed or the process died: RunOnce of
\* ApprovalTimeoutWorker, for any number of updates, requests and targets.
THEOREM TelegramCorrect == TelegramSpec => []TelegramSound
<1>1. TelegramInit => TgInv /\ TimeoutsTold
    BY TgInitial DEF TelegramInit, TimeoutsTold
<1>2. TgInv /\ TimeoutsTold /\ [TelegramNext]_tgVars => (TgInv /\ TimeoutsTold)'
    BY TgStep
<1>3. TgInv /\ TimeoutsTold => TelegramSound
    BY TgInvSound DEF TelegramSound
<1> QED
    BY <1>1, <1>2, <1>3, PTL DEF TelegramSpec

-----------------------------------------------------------------------------
(* Triggers.  The inductive invariant.                                     *)

TrigRecord == [on : BOOLEAN, ch : ChannelIds, cool : Cooldowns, last : 0..MaxClock]
Item == [t : Trigs, copy : TrigRecord]
FireRecord == [pc : {"idle", "next", "record", "save"}, now : 0..MaxClock, todo : Seq(Item),
               known : SUBSET Nat, off : SUBSET Trigs, msg : Nat, at : 0..MaxClock]
SwitchRecords == {NoSwitch} \cup [pc : {"save"}, t : Trigs, copy : TrigRecord]
Message == [t : Trigs, via : Direct, now : 0..MaxClock, at : 0..MaxClock, cool : Cooldowns,
            known : SUBSET Nat, off : BOOLEAN]

TrShape ==
    /\ trg \in [Trigs -> TrigRecord] /\ fire \in [Firers -> FireRecord]
    /\ edit \in [Editors -> SwitchRecords] /\ sent \in Seq(Message) /\ saved \in [Trigs -> Settings]

\* The messages a call counts as sent before were recorded, no later than it began.
Known(f) == \A i \in fire[f].known : i \in DOMAIN sent /\ sent[i].at # 0 /\ sent[i].at <= fire[f].now

\* The copies a call works on: of triggers that were not muted, and with PostgreSQL as
\* young as the messages it knows of.
Copies(f) ==
    \A k \in DOMAIN fire[f].todo :
        /\ fire[f].todo[k].t \notin fire[f].off
        /\ store = "db" => \A i \in fire[f].known :
             sent[i].t = fire[f].todo[k].t => sent[i].at <= fire[f].todo[k].copy.last

\* A call that has sent a message has not recorded it yet, and no other call will.
Unrecorded == {"record", "save"}

Pending(f) ==
    /\ fire[f].pc # "idle" => fire[f].todo # <<>>
    /\ fire[f].pc \in Unrecorded => /\ fire[f].msg \in DOMAIN sent /\ sent[fire[f].msg].at = 0
                                /\ sent[fire[f].msg].t = fire[f].todo[1].t

TrFires ==
    /\ \A f \in Firers : Known(f) /\ Copies(f) /\ Pending(f)
    /\ \A f, g \in Firers : fire[f].pc \in Unrecorded /\ fire[g].pc \in Unrecorded /\ fire[f].msg = fire[g].msg => f = g

\* Recorded times are past, and with PostgreSQL the trigger's is the latest.
TrSent ==
    \A i \in DOMAIN sent :
        /\ sent[i].at <= clock
        /\ store = "db" => sent[i].at <= trg[sent[i].t].last
        /\ \A k \in sent[i].known : k \in DOMAIN sent /\ sent[k].at # 0

TrMuted == \A t \in muted : ~trg[t].on

\* The time a call is about to save is past.
TrStamps == \A f \in Firers : fire[f].pc = "save" => fire[f].at # 0 /\ fire[f].at <= clock

TrigInv == /\ TriggersTypeOK /\ TrShape /\ TrFires /\ TrSent /\ TrMuted
           /\ CooldownKept /\ DisabledSilent /\ SettingsKept /\ InboxKept

-----------------------------------------------------------------------------
(* Triggers.  Facts about the records.                                     *)

\* The default settings are settings.
LEMMA DefaultFacts == Default \in Settings
<1>1. (CHOOSE c \in Cooldowns : \A d \in Cooldowns : c >= d) \in Cooldowns
    BY TriggersAssumption
<1> QED
    BY <1>1 DEF Default, Settings, ChannelIds

\* Settings with a time are a trigger, and edits of a trigger give a trigger.
LEMMA TrigFacts ==
    /\ \A c \in Settings, n \in 0..MaxClock :
          /\ WithLast(c, n) \in TrigRecord /\ Config(WithLast(c, n)) = c /\ WithLast(c, n).last = n
          /\ WithLast(c, n).on = c.on
    /\ \A r \in TrigRecord : /\ Config(r) \in Settings /\ r.last \in 0..MaxClock /\ r.on \in BOOLEAN
                             /\ r.ch \in ChannelIds /\ r.cool \in Cooldowns
    /\ \A r \in TrigRecord, n \in 0..MaxClock :
          /\ [r EXCEPT !.last = n] \in TrigRecord /\ Config([r EXCEPT !.last = n]) = Config(r)
          /\ [r EXCEPT !.last = n].last = n /\ [r EXCEPT !.last = n].on = r.on
    /\ \A r \in TrigRecord, b \in BOOLEAN : [r EXCEPT !.on = b] \in TrigRecord
    BY DEF Settings, TrigRecord, WithLast, Config

\* A call of FireEvent that has ended, and an editor who does nothing.
LEMMA RestingCalls ==
    /\ NoFire \in FireRecord /\ NoFire.pc = "idle" /\ NoFire.todo = <<>> /\ NoFire.known = {}
    /\ NoSwitch \in SwitchRecords
<1>1. 0 \in 0..MaxClock /\ 0 \in Nat
    BY TriggersAssumption
<1>2. \A S : <<>> \in Seq(S)
    OBVIOUS
<1> QED
    BY <1>1, <1>2 DEF NoFire, FireRecord, SwitchRecords

\* The type invariant follows from the shape and from what calls know.
LEMMA TrTypedNext ==
    ASSUME TrShape', TrFires',
           store' \in {"db", "memory"}, kinds' \in [ChannelIds -> Kinds], clock' \in 1..MaxClock,
           DOMAIN inbox' \subseteq DOMAIN sent', \A i \in DOMAIN inbox' : inbox'[i] \in BOOLEAN,
           muted' \subseteq Trigs, fires' \in 0..MaxFires, trigEdits' \in 0..MaxTrigEdits
    PROVE  TriggersTypeOK'
<1>1. \A r \in FireRecord : r.pc \in {"idle", "next", "record", "save"}
    BY DEF FireRecord
<1>2. \A f \in Firers : fire'[f].pc \in {"idle", "next", "record", "save"} /\ fire'[f].known \subseteq DOMAIN sent'
    BY <1>1 DEF TrShape, TrFires, Known
<1>3. \A t \in Trigs : Config(trg'[t]) \in Settings /\ trg'[t].last \in 0..MaxClock
  <2>1. \A t \in Trigs : trg'[t] \in TrigRecord
    BY DEF TrShape
  <2> QED
    BY <2>1, TrigFacts
<1>4. \A i \in DOMAIN sent' : sent'[i].t \in Trigs /\ sent'[i].via \in Direct
  <2>1. \A i \in DOMAIN sent' : sent'[i] \in Message
    BY DEF TrShape
  <2> QED
    BY <2>1 DEF Message
<1>5. \A t \in Trigs : (Config(trg[t]) \in Settings /\ trg[t].last \in 0..MaxClock)'
    BY <1>3 DEF Config
<1> QED
    BY <1>2, <1>4, <1>5 DEF TriggersTypeOK

\* Nothing is sent yet and nobody calls.
LEMMA TrigInitial == TriggersInit => TrigInv
<1> SUFFICES ASSUME TriggersInit PROVE TrigInv
    OBVIOUS
<1>1. WithLast(Default, 0) \in TrigRecord /\ Config(WithLast(Default, 0)) = Default /\ Default \in Settings
  <2>1. 0 \in 0..MaxClock
    BY TriggersAssumption
  <2> QED
    BY <2>1, DefaultFacts, TrigFacts
<1>2. trg = [t \in Trigs |-> WithLast(Default, 0)] /\ saved = [t \in Trigs |-> Default]
    BY DEF TriggersInit
<1>3. /\ fire = [f \in Firers |-> NoFire] /\ edit = [a \in Editors |-> NoSwitch]
      /\ sent = <<>> /\ inbox = <<>> /\ muted = {}
    BY DEF TriggersInit
<1>4. DOMAIN sent = {} /\ DOMAIN inbox = {} /\ \A S : sent \in Seq(S)
    BY <1>3
<1>5. TrShape
    BY <1>1, <1>2, <1>3, <1>4, RestingCalls DEF TrShape
<1>6. TrFires
  <2>1. \A f \in Firers : fire[f].pc = "idle" /\ fire[f].todo = <<>> /\ fire[f].known = {}
    BY <1>3, RestingCalls
  <2> QED
    BY <2>1 DEF TrFires, Known, Copies, Pending, Unrecorded
<1>7. TriggersTypeOK
  <2>1. \A t \in Trigs : Config(trg[t]) \in Settings /\ trg[t].last \in 0..MaxClock
    BY <1>1, <1>2, TrigFacts
  <2>2. \A f \in Firers : fire[f].pc \in {"idle", "next", "record", "save"} /\ fire[f].known \subseteq DOMAIN sent
    BY <1>3, RestingCalls
  <2>3. clock \in 1..MaxClock /\ fires \in 0..MaxFires /\ trigEdits \in 0..MaxTrigEdits
    BY TriggersAssumption DEF TriggersInit
  <2>4. store \in {"db", "memory"} /\ kinds \in [ChannelIds -> Kinds]
    BY DEF TriggersInit
  <2> QED
    BY <1>3, <1>4, <2>1, <2>2, <2>3, <2>4 DEF TriggersTypeOK
<1>8. TrSent /\ TrMuted /\ CooldownKept /\ DisabledSilent /\ InboxKept
    BY <1>3, <1>4 DEF TrSent, TrMuted, CooldownKept, DisabledSilent, InboxKept
<1>9. SettingsKept
    BY <1>1, <1>2 DEF SettingsKept
<1> QED
    BY <1>5, <1>6, <1>7, <1>8, <1>9 DEF TrigInv

-----------------------------------------------------------------------------
(* Triggers.  Every action keeps the invariant.                            *)

\* One call is replaced, the messages it and the others rely on stay.
LEMMA FireReplaced ==
    ASSUME TrigInv, NEW f \in Firers, NEW R \in FireRecord, fire' = [fire EXCEPT ![f] = R]
    PROVE  /\ fire' \in [Firers -> FireRecord] /\ fire'[f] = R
           /\ \A g \in Firers : g # f => fire'[g] = fire[g]
    BY DEF TrigInv, TrShape

\* The times of messages, calls and copies are numbers.
LEMMA TimesAreNumbers ==
    ASSUME TrigInv
    PROVE  /\ \A i \in DOMAIN sent : sent[i].at \in 0..MaxClock
           /\ \A f \in Firers : fire[f].now \in 0..MaxClock /\ fire[f].at \in 0..MaxClock
           /\ \A f \in Firers : \A k \in DOMAIN fire[f].todo : fire[f].todo[k].copy.last \in 0..MaxClock
<1>1. sent \in Seq(Message) /\ \A f \in Firers : fire[f] \in FireRecord
    BY DEF TrigInv, TrShape
<1>2. \A i \in DOMAIN sent : sent[i].at \in 0..MaxClock
  <2>1. \A i \in DOMAIN sent : sent[i] \in Message
    BY <1>1
  <2> QED
    BY <2>1 DEF Message
<1>3. \A r \in FireRecord : r.now \in 0..MaxClock /\ r.at \in 0..MaxClock /\ r.todo \in Seq(Item)
    BY DEF FireRecord
<1>4. \A x \in Item : x.copy \in TrigRecord
    BY DEF Item
<1>5. \A s \in Seq(Item) : \A k \in DOMAIN s : s[k].copy.last \in 0..MaxClock
  <2>1. \A s \in Seq(Item) : \A k \in DOMAIN s : s[k] \in Item
    OBVIOUS
  <2> QED
    BY <1>4, <2>1, TrigFacts
<1> QED
    BY <1>1, <1>2, <1>3, <1>5

\* A recorded time may only become an earlier one: what other calls know of messages
\* stays true.
LEMMA OthersKeep ==
    ASSUME TrigInv, NEW g \in Firers, fire'[g] = fire[g], UNCHANGED store, DOMAIN sent \subseteq DOMAIN sent',
           \A i \in DOMAIN sent : /\ sent'[i].t = sent[i].t
                                  /\ sent[i].at # 0 => sent'[i].at = sent[i].at \/ sent'[i].at \in 1..sent[i].at,
           fire[g].pc \in Unrecorded => sent'[fire[g].msg].at = 0
    PROVE  Known(g)' /\ Copies(g)' /\ Pending(g)'
<1>1. Known(g) /\ Copies(g) /\ Pending(g)
    BY DEF TrigInv, TrFires
<1>2. \A i \in fire[g].known : /\ i \in DOMAIN sent /\ sent'[i].t = sent[i].t
                               /\ sent'[i].at # 0 /\ sent'[i].at \in Int /\ sent'[i].at <= sent[i].at
    BY <1>1, TimesAreNumbers, TriggersAssumption DEF Known
<1>3. Known(g)'
  <2>1. \A i \in fire[g].known : sent'[i].at <= fire[g].now
    BY <1>1, <1>2, TimesAreNumbers, TriggersAssumption DEF Known
  <2> QED
    BY <1>2, <2>1 DEF Known
<1>4. Copies(g)'
  <2>1. \A k \in DOMAIN fire[g].todo, i \in fire[g].known :
            sent[i].at <= fire[g].todo[k].copy.last => sent'[i].at <= fire[g].todo[k].copy.last
    BY <1>2, TimesAreNumbers, TriggersAssumption
  <2> QED
    BY <1>1, <1>2, <2>1 DEF Copies
<1>5. Pending(g)'
    BY <1>1 DEF Pending
<1> QED
    BY <1>3, <1>4, <1>5

\* What FireEvent does after a trigger: the next one, or it is done.
LEMMA RestFacts ==
    ASSUME TrigInv, NEW f \in Firers, fire[f].pc # "idle"
    PROVE  /\ Rest(f) \in FireRecord /\ Rest(f).pc \in {"idle", "next"}
           /\ \/ Rest(f) = NoFire
              \/ /\ Rest(f).pc = "next" /\ Rest(f).now = fire[f].now /\ Rest(f).known = fire[f].known
                 /\ Rest(f).off = fire[f].off /\ Rest(f).todo # <<>>
                 /\ \A k \in DOMAIN Rest(f).todo : \E j \in DOMAIN fire[f].todo : Rest(f).todo[k] = fire[f].todo[j]
<1> DEFINE s == fire[f].todo
<1>1. fire[f] \in FireRecord /\ s \in Seq(Item)
  <2>1. \A r \in FireRecord : r.todo \in Seq(Item)
    BY DEF FireRecord
  <2> QED
    BY <2>1 DEF TrigInv, TrShape
<1>2. s # <<>>
    BY DEF TrigInv, TrFires, Pending
<1>3. CASE Len(s) = 1
    BY <1>3, RestingCalls DEF Rest
<1>4. CASE Len(s) # 1
  <2>1. Rest(f) = [fire[f] EXCEPT !.todo = Tail(s), !.pc = "next"]
    BY <1>4 DEF Rest
  <2>2. /\ Tail(s) \in Seq(Item) /\ Tail(s) # <<>>
        /\ \A k \in DOMAIN Tail(s) : k + 1 \in DOMAIN s /\ Tail(s)[k] = s[k + 1]
    <3> HIDE DEF s
    <3>1. Tail(s) \in Seq(Item) /\ Len(s) \in Nat /\ Len(s) # 0 /\ Len(Tail(s)) = Len(s) - 1
        BY <1>1, <1>2
    <3>2. Tail(s) # <<>>
      <4>1. Len(<<>>) = 0
        OBVIOUS
      <4>2. Len(Tail(s)) # 0
        BY <1>4, <3>1
      <4> QED
        BY <4>1, <4>2
    <3>3. \A k \in DOMAIN Tail(s) : k + 1 \in DOMAIN s /\ Tail(s)[k] = s[k + 1]
      <4>1. DOMAIN s = 1 .. Len(s) /\ DOMAIN Tail(s) = 1 .. Len(s) - 1
        BY <1>1, <1>2, <3>1
      <4>2. \A k \in 1 .. Len(s) - 1 : Tail(s)[k] = s[k + 1]
        BY <1>1, <1>2
      <4> QED
        BY <3>1, <4>1, <4>2
    <3> QED
        BY <3>1, <3>2, <3>3
  <2>3. /\ Rest(f) \in FireRecord /\ Rest(f).pc = "next" /\ Rest(f).todo = Tail(s)
        /\ Rest(f).now = fire[f].now /\ Rest(f).known = fire[f].known /\ Rest(f).off = fire[f].off
    <3> DEFINE r == fire[f]
               q == Tail(s)
               x == Rest(f)
    <3>1. r \in FireRecord /\ q \in Seq(Item) /\ x = [r EXCEPT !.todo = q, !.pc = "next"]
        BY <1>1, <2>1, <2>2
    <3> HIDE DEF r, q, x
    <3>2. /\ x \in FireRecord /\ x.pc = "next" /\ x.todo = q
          /\ x.now = r.now /\ x.known = r.known /\ x.off = r.off
        BY <3>1 DEF FireRecord
    <3> QED
        BY <3>2 DEF r, q, x
  <2> HIDE DEF s
  <2>4. \A k \in DOMAIN Rest(f).todo : \E j \in DOMAIN s : Rest(f).todo[k] = s[j]
    BY <2>2, <2>3
  <2> QED
    BY <2>2, <2>3, <2>4 DEF s
<1> QED
    BY <1>3, <1>4

\* A call goes on with its rest: its copies are among those it had.
LEMMA RestKeeps ==
    ASSUME TrigInv, NEW f \in Firers, fire[f].pc # "idle", fire' = [fire EXCEPT ![f] = Rest(f)],
           UNCHANGED store, DOMAIN sent' = DOMAIN sent,
           \A i \in DOMAIN sent : /\ sent'[i].t = sent[i].t
                                  /\ sent[i].at # 0 => sent'[i].at = sent[i].at \/ sent'[i].at \in 1..sent[i].at,
           \A g \in Firers : g # f /\ fire[g].pc \in Unrecorded => sent'[fire[g].msg].at = 0
    PROVE  fire' \in [Firers -> FireRecord] /\ TrFires'
<1> DEFINE R == Rest(f)
<1>1. /\ R \in FireRecord /\ R.pc \in {"idle", "next"}
      /\ \/ R = NoFire
         \/ /\ R.pc = "next" /\ R.now = fire[f].now /\ R.known = fire[f].known
            /\ R.off = fire[f].off /\ R.todo # <<>>
            /\ \A k \in DOMAIN R.todo : \E j \in DOMAIN fire[f].todo : R.todo[k] = fire[f].todo[j]
    BY RestFacts
<1> HIDE DEF R
<1>2. /\ fire' \in [Firers -> FireRecord] /\ fire'[f] = R
      /\ \A g \in Firers : g # f => fire'[g] = fire[g]
    BY <1>1, FireReplaced DEF R
<1>3. Known(f)' /\ Copies(f)' /\ Pending(f)'
  <2>1. CASE R = NoFire
    <3>1. fire'[f].pc = "idle" /\ fire'[f].todo = <<>> /\ fire'[f].known = {}
        BY <1>2, <2>1, RestingCalls
    <3> QED
        BY <3>1 DEF Known, Copies, Pending, Unrecorded
  <2>2. CASE /\ R.pc = "next" /\ R.now = fire[f].now /\ R.known = fire[f].known
             /\ R.off = fire[f].off /\ R.todo # <<>>
             /\ \A k \in DOMAIN R.todo : \E j \in DOMAIN fire[f].todo : R.todo[k] = fire[f].todo[j]
    <3>1. Known(f) /\ Copies(f)
        BY DEF TrigInv, TrFires
    <3>2. \A i \in fire[f].known : /\ i \in DOMAIN sent /\ sent'[i].t = sent[i].t
                                   /\ sent'[i].at # 0 /\ sent'[i].at \in Int /\ sent'[i].at <= sent[i].at
        BY <3>1, TimesAreNumbers, TriggersAssumption DEF Known
    <3>3. Known(f)'
      <4>1. \A i \in fire[f].known : sent'[i].at <= fire[f].now
        BY <3>1, <3>2, TimesAreNumbers, TriggersAssumption DEF Known
      <4> QED
        BY <1>2, <2>2, <3>2, <4>1 DEF Known
    <3>4. Copies(f)'
      <4> SUFFICES ASSUME NEW k \in DOMAIN R.todo
                   PROVE  /\ R.todo[k].t \notin fire[f].off
                          /\ store = "db" => \A i \in fire[f].known :
                               sent'[i].t = R.todo[k].t => sent'[i].at <= R.todo[k].copy.last
        BY <1>2, <2>2 DEF Copies
      <4>1. PICK j \in DOMAIN fire[f].todo : R.todo[k] = fire[f].todo[j]
        BY <2>2
      <4>2. \A i \in fire[f].known :
                sent[i].at <= fire[f].todo[j].copy.last => sent'[i].at <= fire[f].todo[j].copy.last
        BY <3>2, TimesAreNumbers, TriggersAssumption
      <4> QED
        BY <3>1, <3>2, <4>1, <4>2 DEF Copies
    <3>5. Pending(f)'
        BY <1>2, <2>2 DEF Pending, Unrecorded
    <3> QED
        BY <3>3, <3>4, <3>5
  <2> QED
    BY <1>1, <2>1, <2>2
<1>4. \A g \in Firers : g # f => Known(g)' /\ Copies(g)' /\ Pending(g)'
    BY <1>2, OthersKeep
<1>5. \A g, h \in Firers : fire'[g].pc \in Unrecorded /\ fire'[h].pc \in Unrecorded /\ fire'[g].msg = fire'[h].msg => g = h
    BY <1>1, <1>2 DEF TrigInv, TrFires, Unrecorded
<1> QED
    BY <1>2, <1>3, <1>4, <1>5 DEF TrFires

\* An event: copies of enabled, hence not muted, triggers.
LEMMA MatchEnabledKeeps ==
    ASSUME TrigInv, NEW f \in Firers, MatchEnabled(f)
    PROVE  TrigInv'
<1>1. PICK m \in SUBSET {t \in Trigs : trg[t].on} : \E ids \in Ascending(m) :
          fire' = [fire EXCEPT ![f] =
                [pc |-> "next", now |-> clock, msg |-> 0, at |-> 0,
                 todo |-> [i \in DOMAIN ids |-> [t |-> ids[i], copy |-> trg[ids[i]]]],
                 known |-> {i \in DOMAIN sent : sent[i].at # 0}, off |-> muted]] /\ m # {}
    BY DEF MatchEnabled
<1>2. PICK ids \in Ascending(m) :
          fire' = [fire EXCEPT ![f] =
                [pc |-> "next", now |-> clock, msg |-> 0, at |-> 0,
                 todo |-> [i \in DOMAIN ids |-> [t |-> ids[i], copy |-> trg[ids[i]]]],
                 known |-> {i \in DOMAIN sent : sent[i].at # 0}, off |-> muted]]
    BY <1>1
<1>3. /\ fires < MaxFires /\ fires' = fires + 1
      /\ UNCHANGED <<store, trg, kinds, clock, edit, sent, inbox, muted, saved, trigEdits>>
    BY DEF MatchEnabled
<1>4. Cardinality(m) \in Nat /\ Cardinality(m) # 0
  <2>1. m \in SUBSET Trigs
    OBVIOUS
  <2>2. IsFiniteSet(m)
    BY <2>1, TriggersAssumption, FS_Subset
  <2> QED
    BY <1>1, <2>2, FS_CardinalityType, FS_EmptySet
<1>5. ids \in [1 .. Cardinality(m) -> m]
    BY DEF Ascending
<1> DEFINE todo == [i \in DOMAIN ids |-> [t |-> ids[i], copy |-> trg[ids[i]]]]
           known == {i \in DOMAIN sent : sent[i].at # 0}
           R == [pc |-> "next", now |-> clock, msg |-> 0, at |-> 0, todo |-> todo, known |-> known, off |-> muted]
<1>6. /\ todo \in Seq(Item) /\ todo # <<>>
      /\ \A k \in DOMAIN todo : /\ todo[k].t \in Trigs /\ trg[todo[k].t].on
                                /\ todo[k].copy = trg[todo[k].t]
  <2>1. \A i \in 1 .. Cardinality(m) : ids[i] \in Trigs /\ trg[ids[i]] \in TrigRecord /\ trg[ids[i]].on
    BY <1>5 DEF TrigInv, TrShape
  <2>2. \A i \in 1 .. Cardinality(m) : [t |-> ids[i], copy |-> trg[ids[i]]] \in Item
    BY <2>1 DEF Item
  <2>3. DOMAIN ids = 1 .. Cardinality(m) /\ 1 \in 1 .. Cardinality(m)
    BY <1>4, <1>5
  <2>4. todo \in [1 .. Cardinality(m) -> Item]
    BY <2>2, <2>3
  <2>5. todo \in Seq(Item)
    <3> HIDE DEF todo
    <3> QED
        BY <1>4, <2>4
  <2>6. todo # <<>>
    <3>1. DOMAIN todo # {} /\ DOMAIN <<>> = {}
        BY <2>3
    <3> QED
        BY <3>1
  <2> QED
    BY <2>1, <2>3, <2>5, <2>6
<1>7. known \subseteq Nat /\ clock \in 0..MaxClock /\ clock \in Int /\ 0 \in 0..MaxClock
  <2>1. DOMAIN sent \subseteq Nat
    BY DEF TrigInv, TrShape
  <2>2. clock \in 1..MaxClock
    BY DEF TrigInv, TriggersTypeOK
  <2> QED
    BY <2>1, <2>2, TriggersAssumption
<1>8. fire' = [fire EXCEPT ![f] = R]
    BY <1>2
<1>9. known = {i \in DOMAIN sent : sent[i].at # 0} /\ muted \subseteq Trigs
    BY DEF TrigInv, TriggersTypeOK
<1> HIDE DEF todo, known
<1>10. /\ R \in FireRecord /\ R.pc = "next" /\ R.now = clock /\ R.todo = todo /\ R.known = known /\ R.off = muted
    BY <1>6, <1>7, <1>9 DEF FireRecord
<1> HIDE DEF R
<1>11. /\ fire' \in [Firers -> FireRecord] /\ fire'[f] = R
       /\ \A g \in Firers : g # f => fire'[g] = fire[g]
    BY <1>8, <1>10, FireReplaced
<1>12. TrShape'
    BY <1>3, <1>11 DEF TrigInv, TrShape
<1>13. TrFires'
  <2>1. Known(f)'
    BY <1>3, <1>9, <1>10, <1>11 DEF TrigInv, TrSent, Known
  <2>2. Copies(f)'
    <3> SUFFICES ASSUME NEW k \in DOMAIN todo
                 PROVE  /\ todo[k].t \notin muted
                        /\ store = "db" => \A i \in known :
                             sent[i].t = todo[k].t => sent[i].at <= todo[k].copy.last
        BY <1>3, <1>10, <1>11 DEF Copies
    <3> QED
        BY <1>6, <1>9 DEF TrigInv, TrSent, TrMuted
  <2>3. Pending(f)'
    BY <1>6, <1>10, <1>11 DEF Pending, Unrecorded
  <2>4. \A g \in Firers : g # f => Known(g)' /\ Copies(g)' /\ Pending(g)'
    <3>1. \A g \in Firers : fire[g].pc \in Unrecorded => sent'[fire[g].msg].at = 0
        BY <1>3 DEF TrigInv, TrFires, Pending
    <3> QED
        BY <1>3, <1>11, <3>1, OthersKeep
  <2>5. \A g, h \in Firers : fire'[g].pc \in Unrecorded /\ fire'[h].pc \in Unrecorded /\ fire'[g].msg = fire'[h].msg => g = h
    BY <1>10, <1>11 DEF TrigInv, TrFires, Unrecorded
  <2> QED
    BY <2>1, <2>2, <2>3, <2>4, <2>5 DEF TrFires
<1>14. TriggersTypeOK'
  <2>1. fires' \in 0..MaxFires
    BY <1>3, TriggersAssumption DEF TrigInv, TriggersTypeOK
  <2> QED
    BY <1>3, <1>12, <1>13, <2>1, TrTypedNext DEF TrigInv, TriggersTypeOK
<1>15. TrSent' /\ TrMuted' /\ CooldownKept' /\ DisabledSilent' /\ SettingsKept' /\ InboxKept'
    BY <1>3 DEF TrigInv, TrSent, TrMuted, CooldownKept, DisabledSilent, SettingsKept, InboxKept, Config
<1> QED
    BY <1>12, <1>13, <1>14, <1>15 DEF TrigInv

\* A trigger is skipped.
LEMMA SkipTriggerKeeps ==
    ASSUME TrigInv, NEW f \in Firers, SkipTrigger(f)
    PROVE  TrigInv'
<1>1. /\ fire[f].pc = "next" /\ fire' = [fire EXCEPT ![f] = Rest(f)]
      /\ UNCHANGED <<store, trg, kinds, clock, edit, sent, inbox, muted, saved, fires, trigEdits>>
    BY DEF SkipTrigger
<1>2. fire' \in [Firers -> FireRecord] /\ TrFires'
  <2>1. \A g \in Firers : fire[g].pc \in Unrecorded => sent'[fire[g].msg].at = 0
    BY <1>1 DEF TrigInv, TrFires, Pending
  <2> QED
    BY <1>1, <2>1, RestKeeps
<1>3. TrShape'
    BY <1>1, <1>2 DEF TrigInv, TrShape
<1>4. TriggersTypeOK'
    BY <1>1, <1>2, <1>3, TrTypedNext DEF TrigInv, TriggersTypeOK
<1>5. TrSent' /\ TrMuted' /\ CooldownKept' /\ DisabledSilent' /\ SettingsKept' /\ InboxKept'
    BY <1>1 DEF TrigInv, TrSent, TrMuted, CooldownKept, DisabledSilent, SettingsKept, InboxKept, Config
<1> QED
    BY <1>2, <1>3, <1>4, <1>5 DEF TrigInv

\* A message is sent: not within the cooldown of one the call knows of, and not for a
\* muted trigger.
LEMMA SendTriggerKeeps ==
    ASSUME TrigInv, NEW f \in Firers, SendTrigger(f)
    PROVE  TrigInv'
<1> DEFINE d   == Head(fire[f].todo)
           via == Delivery(d.copy.ch)
           n   == Len(sent)
           M   == [t |-> d.t, via |-> via, now |-> fire[f].now, at |-> 0, cool |-> d.copy.cool,
                   known |-> fire[f].known, off |-> d.t \in fire[f].off]
           R   == [fire[f] EXCEPT !.pc = "record", !.msg = n + 1]
<1>1. /\ fire[f].pc = "next" /\ ~IsOnCooldown(d.copy, fire[f].now) /\ via # ""
      /\ sent' = Append(sent, M) /\ inbox' = InboxAfter(via)
      /\ fire' = [fire EXCEPT ![f].pc = "record", ![f].msg = n + 1]
      /\ UNCHANGED <<store, trg, kinds, clock, edit, muted, saved, fires, trigEdits>>
    BY DEF SendTrigger
<1>2. /\ fire[f] \in FireRecord /\ fire[f].todo \in Seq(Item) /\ fire[f].now \in 0..MaxClock
      /\ fire[f].known \subseteq Nat /\ fire \in [Firers -> FireRecord]
  <2>1. \A r \in FireRecord : r.todo \in Seq(Item) /\ r.now \in 0..MaxClock /\ r.known \subseteq Nat
    BY DEF FireRecord
  <2> QED
    BY <2>1 DEF TrigInv, TrShape
<1>3. d \in Item /\ d = fire[f].todo[1] /\ 1 \in DOMAIN fire[f].todo
  <2>1. fire[f].todo # <<>>
    BY <1>1 DEF TrigInv, TrFires, Pending
  <2> QED
    BY <1>2, <2>1
<1>4. /\ d.t \in Trigs /\ d.copy \in TrigRecord /\ d.copy.cool \in Nat /\ d.copy.last \in Nat
      /\ d.copy.cool \in Cooldowns /\ d.copy.ch \in ChannelIds
  <2>1. d.t \in Trigs /\ d.copy \in TrigRecord
    BY <1>3 DEF Item
  <2>2. d.copy.last \in 0..MaxClock /\ d.copy.cool \in Cooldowns /\ d.copy.ch \in ChannelIds
    BY <2>1, TrigFacts
  <2>3. (\A x \in 0..MaxClock : x \in Nat) /\ \A x \in Cooldowns : x \in Nat
    BY TriggersAssumption
  <2> HIDE DEF d
  <2> QED
    BY <2>1, <2>2, <2>3
<1>5. via \in Direct
    BY <1>1 DEF Delivery
<1>6. ~(d.t \in fire[f].off)
    BY <1>3 DEF TrigInv, TrFires, Copies
<1>7. sent \in Seq(Message) /\ n \in Nat
    BY DEF TrigInv, TrShape
<1>8. R \in FireRecord /\ R.pc = "record" /\ R.msg = n + 1 /\ R.todo = fire[f].todo /\ R.now = fire[f].now
      /\ R.known = fire[f].known /\ R.off = fire[f].off
  <2> DEFINE r == fire[f]
             x == R
             k == n + 1
  <2>1. r \in FireRecord /\ x = [r EXCEPT !.pc = "record", !.msg = k] /\ k \in Nat
    BY <1>2, <1>7
  <2> HIDE DEF r, x, k
  <2>2. x \in FireRecord /\ x.pc = "record" /\ x.msg = k /\ x.todo = r.todo /\ x.now = r.now
        /\ x.known = r.known /\ x.off = r.off
    BY <2>1 DEF FireRecord
  <2> QED
    BY <2>2 DEF r, x, k
<1>9. fire' = [fire EXCEPT ![f] = R]
    BY <1>1, <1>2
<1> HIDE DEF via, d, R
<1>10. /\ M \in Message /\ M.t = d.t /\ M.at = 0 /\ M.known = fire[f].known /\ M.via = via
       /\ M.now = fire[f].now /\ M.cool = d.copy.cool /\ M.off = FALSE
  <2>1. 0 \in 0..MaxClock
    BY TriggersAssumption
  <2>2. (d.t \in fire[f].off) = FALSE
    BY <1>6
  <2>3. M = [t |-> d.t, via |-> via, now |-> fire[f].now, at |-> 0, cool |-> d.copy.cool,
             known |-> fire[f].known, off |-> FALSE]
    BY <2>2
  <2> HIDE DEF M
  <2> QED
    BY <1>2, <1>4, <1>5, <2>1, <2>3 DEF Message
<1> HIDE DEF M
<1>11. /\ sent' \in Seq(Message) /\ DOMAIN sent = 1 .. n /\ DOMAIN sent' = 1 .. n + 1
       /\ DOMAIN sent' = DOMAIN sent \cup {n + 1} /\ n + 1 \notin DOMAIN sent
       /\ sent'[n + 1] = M /\ \A i \in DOMAIN sent : sent'[i] = sent[i]
  <2>1. sent \in Seq(Message) /\ M \in Message /\ sent' = Append(sent, M)
    BY <1>1, <1>7, <1>10
  <2>2. /\ sent' \in Seq(Message) /\ DOMAIN sent = 1 .. n /\ DOMAIN sent' = 1 .. n + 1
        /\ sent'[n + 1] = M /\ \A i \in 1 .. n : sent'[i] = sent[i]
    BY <2>1
  <2>3. 1 .. n + 1 = 1 .. n \cup {n + 1} /\ n + 1 \notin 1 .. n
    BY <1>7
  <2> QED
    BY <2>1, <2>2, <2>3
<1> HIDE DEF n
<1>12. /\ fire' \in [Firers -> FireRecord] /\ fire'[f] = R
       /\ \A g \in Firers : g # f => fire'[g] = fire[g]
    BY <1>8, <1>9, FireReplaced
<1>13. TrShape'
    BY <1>1, <1>11, <1>12 DEF TrigInv, TrShape
<1>14. Known(f) /\ Copies(f) /\ Pending(f)
    BY DEF TrigInv, TrFires
<1>15. TrFires'
  <2>1. \A i \in fire[f].known : i \in DOMAIN sent /\ sent'[i] = sent[i]
    BY <1>11, <1>14 DEF Known
  <2>2. Known(f)'
    BY <1>8, <1>11, <1>12, <1>14, <2>1 DEF Known
  <2>3. Copies(f)'
    <3>1. /\ fire'[f].todo = fire[f].todo /\ fire'[f].off = fire[f].off /\ fire'[f].known = fire[f].known
          /\ store' = store
        BY <1>1, <1>8, <1>12
    <3> SUFFICES ASSUME NEW k \in DOMAIN fire[f].todo
                 PROVE  /\ fire[f].todo[k].t \notin fire[f].off
                        /\ store = "db" => \A i \in fire[f].known :
                             sent'[i].t = fire[f].todo[k].t => sent'[i].at <= fire[f].todo[k].copy.last
        BY <3>1 DEF Copies
    <3> QED
        BY <1>14, <2>1 DEF Copies
  <2>4. Pending(f)'
    BY <1>1, <1>3, <1>8, <1>10, <1>11, <1>12, <1>14 DEF Pending
  <2>5. \A g \in Firers : fire[g].pc \in Unrecorded => fire[g].msg \in DOMAIN sent /\ sent'[fire[g].msg].at = 0
    BY <1>11 DEF TrigInv, TrFires, Pending
  <2>6. \A g \in Firers : g # f => Known(g)' /\ Copies(g)' /\ Pending(g)'
    <3>1. DOMAIN sent \subseteq DOMAIN sent'
        BY <1>11
    <3> QED
        BY <1>1, <1>11, <1>12, <2>5, <3>1, OthersKeep
  <2>7. \A g, h \in Firers : fire'[g].pc \in Unrecorded /\ fire'[h].pc \in Unrecorded /\ fire'[g].msg = fire'[h].msg => g = h
    BY <1>8, <1>11, <1>12, <2>5 DEF TrigInv, TrFires
  <2> QED
    BY <2>2, <2>3, <2>4, <2>6, <2>7 DEF TrFires
<1>16. /\ DOMAIN inbox \subseteq DOMAIN inbox' /\ DOMAIN inbox' \subseteq DOMAIN sent'
       /\ \A i \in DOMAIN inbox' : inbox'[i] \in BOOLEAN
       /\ via = "in_app_inbox" => n + 1 \in DOMAIN inbox'
  <2>1. DOMAIN inbox \subseteq DOMAIN sent /\ \A i \in DOMAIN inbox : inbox[i] \in BOOLEAN
    BY DEF TrigInv, TriggersTypeOK
  <2>2. CASE via = "in_app_inbox"
    <3>1. inbox' = [i \in DOMAIN inbox \cup {n + 1} |-> IF i \in DOMAIN inbox THEN inbox[i] ELSE FALSE]
        BY <1>1, <2>2 DEF InboxAfter, n
    <3> QED
        BY <1>11, <2>1, <3>1
  <2>3. CASE via # "in_app_inbox"
    <3>1. inbox' = inbox
        BY <1>1, <2>3 DEF InboxAfter
    <3> QED
        BY <1>11, <2>1, <2>3, <3>1
  <2> QED
    BY <2>2, <2>3
<1>17. TriggersTypeOK'
    BY <1>1, <1>13, <1>15, <1>16, TrTypedNext DEF TrigInv, TriggersTypeOK
<1>18. TrSent'
  <2> SUFFICES ASSUME NEW i \in DOMAIN sent'
               PROVE  /\ sent'[i].at <= clock
                      /\ store = "db" => sent'[i].at <= trg[sent'[i].t].last
                      /\ \A k \in sent'[i].known : k \in DOMAIN sent' /\ sent'[k].at # 0
    BY <1>1 DEF TrSent
  <2>1. CASE i \in DOMAIN sent
    BY <1>11, <2>1 DEF TrigInv, TrSent
  <2>2. CASE i = n + 1
    <3>1. clock \in Nat /\ trg[d.t].last \in Nat
      <4>1. clock \in 1..MaxClock /\ trg[d.t] \in TrigRecord
        BY <1>4 DEF TrigInv, TriggersTypeOK, TrShape
      <4>2. trg[d.t].last \in 0..MaxClock
        BY <4>1, TrigFacts
      <4> QED
        BY <4>1, <4>2
    <3>2. \A k \in fire[f].known : k \in DOMAIN sent /\ sent[k].at # 0
        BY <1>14 DEF Known
    <3>3. \A k \in fire[f].known : k \in DOMAIN sent' /\ sent'[k].at # 0
        BY <1>11, <3>2
    <3>4. sent'[i] = M
        BY <1>11, <2>2
    <3>5. 0 <= clock /\ 0 <= trg[d.t].last
        BY <3>1
    <3> QED
        BY <1>10, <3>3, <3>4, <3>5
  <2> QED
    BY <1>11, <2>1, <2>2
<1>19. CooldownKept'
  <2> SUFFICES ASSUME store = "db", NEW j \in DOMAIN sent', NEW i \in sent'[j].known, sent'[i].t = sent'[j].t
               PROVE  sent'[j].now >= sent'[i].at + sent'[j].cool
    BY <1>1 DEF CooldownKept
  <2>1. CASE j \in DOMAIN sent
    <3>1. i \in DOMAIN sent /\ i \in sent[j].known /\ sent[i].t = sent[j].t
        BY <1>11, <2>1 DEF TrigInv, TrSent
    <3> QED
        BY <1>11, <2>1, <3>1 DEF TrigInv, CooldownKept
  <2>2. CASE j = n + 1
    <3>1. i \in fire[f].known /\ i \in DOMAIN sent /\ sent[i].t = d.t /\ sent[i].at # 0 /\ sent[i].at <= fire[f].now
        BY <1>10, <1>11, <1>14, <2>2 DEF Known
    <3>2. sent[i].at <= d.copy.last
        BY <1>3, <1>14, <3>1 DEF Copies
    <3>3. sent[i].at \in 0..MaxClock /\ fire[f].now \in 0..MaxClock
      <4>1. sent[i] \in Message
        BY <1>7, <3>1
      <4> QED
        BY <1>2, <4>1 DEF Message
    <3>4. d.copy.cool = 0 \/ d.copy.last = 0 \/ ~(fire[f].now < d.copy.last + d.copy.cool)
      <4>1. ~(d.copy.cool > 0 /\ d.copy.last # 0 /\ fire[f].now < d.copy.last + d.copy.cool)
        BY <1>1 DEF IsOnCooldown
      <4>2. d.copy.cool > 0 \/ d.copy.cool = 0
        BY <1>4
      <4> QED
        BY <4>1, <4>2
    <3>5. fire[f].now >= sent[i].at + d.copy.cool
        BY <1>4, <3>1, <3>2, <3>3, <3>4, TriggersAssumption
    <3> QED
        BY <1>10, <1>11, <2>2, <3>1, <3>5
  <2> QED
    BY <1>11, <2>1, <2>2
<1>20. DisabledSilent'
    BY <1>10, <1>11 DEF TrigInv, DisabledSilent
<1>21. InboxKept'
    BY <1>1, <1>10, <1>11, <1>16 DEF TrigInv, InboxKept
<1>22. TrMuted' /\ SettingsKept'
    BY <1>1 DEF TrigInv, TrMuted, SettingsKept, Config
<1> QED
    BY <1>13, <1>15, <1>17, <1>18, <1>19, <1>20, <1>21, <1>22 DEF TrigInv

\* The time to record is read.
LEMMA RecordFiredKeeps ==
    ASSUME TrigInv, NEW f \in Firers, RecordFired(f)
    PROVE  TrigInv'
<1> DEFINE R == [fire[f] EXCEPT !.pc = "save", !.at = clock]
<1>1. /\ fire[f].pc = "record" /\ fire' = [fire EXCEPT ![f].pc = "save", ![f].at = clock]
      /\ UNCHANGED <<store, trg, kinds, clock, edit, sent, inbox, muted, saved, fires, trigEdits>>
    BY DEF RecordFired
<1>2. clock \in 0..MaxClock
  <2>1. clock \in 1..MaxClock
    BY DEF TrigInv, TriggersTypeOK
  <2> QED
    BY <2>1, TriggersAssumption
<1>3. fire[f] \in FireRecord /\ fire \in [Firers -> FireRecord]
    BY DEF TrigInv, TrShape
<1>4. /\ R \in FireRecord /\ R.pc = "save" /\ R.msg = fire[f].msg /\ R.todo = fire[f].todo
      /\ R.now = fire[f].now /\ R.known = fire[f].known /\ R.off = fire[f].off
  <2>1. \A r \in FireRecord, c \in 0..MaxClock : LET x == [r EXCEPT !.pc = "save", !.at = c] IN
            /\ x \in FireRecord /\ x.pc = "save" /\ x.msg = r.msg /\ x.todo = r.todo
            /\ x.now = r.now /\ x.known = r.known /\ x.off = r.off
    BY DEF FireRecord
  <2> QED
    BY <1>2, <1>3, <2>1
<1>5. fire' = [fire EXCEPT ![f] = R]
    BY <1>1, <1>3
<1> HIDE DEF R
<1>6. /\ fire' \in [Firers -> FireRecord] /\ fire'[f] = R
      /\ \A g \in Firers : g # f => fire'[g] = fire[g]
    BY <1>4, <1>5, FireReplaced
<1>7. \A g \in Firers : /\ fire'[g].known = fire[g].known /\ fire'[g].now = fire[g].now
                        /\ fire'[g].todo = fire[g].todo /\ fire'[g].off = fire[g].off
                        /\ fire'[g].msg = fire[g].msg
                        /\ fire'[g].pc \in Unrecorded <=> fire[g].pc \in Unrecorded
                        /\ fire'[g].pc = "idle" <=> fire[g].pc = "idle"
    BY <1>1, <1>4, <1>6 DEF Unrecorded
<1>8. TrFires'
  <2>1. \A g \in Firers : Known(g)' /\ Copies(g)' /\ Pending(g)'
    <3> SUFFICES ASSUME NEW g \in Firers PROVE Known(g)' /\ Copies(g)' /\ Pending(g)'
        OBVIOUS
    <3>1. Known(g) /\ Copies(g) /\ Pending(g)
        BY DEF TrigInv, TrFires
    <3>2. Known(g)'
        BY <1>1, <1>7, <3>1 DEF Known
    <3>3. Copies(g)'
      <4>1. UNCHANGED <<store, sent>> /\ UNCHANGED fire[g].todo /\ UNCHANGED fire[g].off /\ UNCHANGED fire[g].known
        BY <1>1, <1>7
      <4> QED
        BY <3>1, <4>1 DEF Copies
    <3>4. Pending(g)'
        BY <1>1, <1>7, <3>1 DEF Pending
    <3> QED
        BY <3>2, <3>3, <3>4
  <2>2. \A g, h \in Firers : fire'[g].pc \in Unrecorded /\ fire'[h].pc \in Unrecorded /\ fire'[g].msg = fire'[h].msg => g = h
    BY <1>7 DEF TrigInv, TrFires
  <2> QED
    BY <2>1, <2>2 DEF TrFires
<1>9. TrShape'
    BY <1>1, <1>6 DEF TrigInv, TrShape
<1>10. TriggersTypeOK'
    BY <1>1, <1>8, <1>9, TrTypedNext DEF TrigInv, TriggersTypeOK
<1>11. TrSent' /\ TrMuted' /\ CooldownKept' /\ DisabledSilent' /\ SettingsKept' /\ InboxKept'
    BY <1>1 DEF TrigInv, TrSent, TrMuted, CooldownKept, DisabledSilent, SettingsKept, InboxKept, Config
<1> QED
    BY <1>8, <1>9, <1>10, <1>11 DEF TrigInv

\* The time of a message is saved, with the trigger's, and later times of the trigger's
\* other messages give way to it; or saving fails.
LEMMA SaveFiredKeeps ==
    ASSUME TrigInv, TrStamps, NEW f \in Firers, SaveFired(f)
    PROVE  TrigInv'
<1> DEFINE t == Head(fire[f].todo).t
           m == fire[f].msg
           c == fire[f].at
<1>1. /\ fire[f].pc = "save" /\ fire[f].pc \in Unrecorded /\ fire' = [fire EXCEPT ![f] = Rest(f)]
      /\ UNCHANGED <<store, kinds, clock, edit, inbox, muted, saved, fires, trigEdits>>
    BY DEF SaveFired, Unrecorded
<1>2. m \in DOMAIN sent /\ sent[m].at = 0 /\ sent[m].t = t
  <2>1. fire[f].todo \in Seq(Item)
    <3>1. \A r \in FireRecord : r.todo \in Seq(Item)
        BY DEF FireRecord
    <3> QED
        BY <3>1 DEF TrigInv, TrShape
  <2>2. fire[f].todo # <<>>
    BY <1>1 DEF TrigInv, TrFires, Pending
  <2>3. Head(fire[f].todo) = fire[f].todo[1]
    BY <2>1, <2>2
  <2> QED
    BY <1>1, <2>3 DEF TrigInv, TrFires, Pending
<1>3. sent \in Seq(Message) /\ sent[m] \in Message /\ t \in Trigs
  <2> HIDE DEF m, t
  <2>1. sent \in Seq(Message)
    BY DEF TrigInv, TrShape
  <2>2. sent[m] \in Message
    BY <1>2, <2>1
  <2>3. sent[m].t \in Trigs
    BY <2>2 DEF Message
  <2> QED
    BY <1>2, <2>1, <2>2, <2>3
<1>4. c \in 0..MaxClock /\ c \in Nat /\ c # 0 /\ c <= clock /\ clock \in Nat
  <2>1. clock \in 1..MaxClock
    BY DEF TrigInv, TriggersTypeOK
  <2>2. c \in 0..MaxClock /\ c # 0 /\ c <= clock
    BY <1>1, TimesAreNumbers DEF TrStamps
  <2> QED
    BY <2>1, <2>2, TriggersAssumption
<1>5. CASE UNCHANGED <<trg, sent>>
  <2>1. fire' \in [Firers -> FireRecord] /\ TrFires'
    <3>1. \A g \in Firers : fire[g].pc \in Unrecorded => sent'[fire[g].msg].at = 0
        BY <1>5 DEF TrigInv, TrFires, Pending
    <3> QED
        BY <1>1, <1>5, <3>1, RestKeeps
  <2>2. TrShape'
    BY <1>1, <1>5, <2>1 DEF TrigInv, TrShape
  <2>3. TriggersTypeOK'
    BY <1>1, <1>5, <2>1, <2>2, TrTypedNext DEF TrigInv, TriggersTypeOK
  <2>4. TrSent' /\ TrMuted' /\ CooldownKept' /\ DisabledSilent' /\ SettingsKept' /\ InboxKept'
    BY <1>1, <1>5 DEF TrigInv, TrSent, TrMuted, CooldownKept, DisabledSilent, SettingsKept, InboxKept, Config
  <2> QED
    BY <2>1, <2>2, <2>3, <2>4 DEF TrigInv
<1>6. CASE /\ trg' = [trg EXCEPT ![t].last = c]
           /\ sent' = [i \in DOMAIN sent |-> Stamped(i, m, t, c)]
  <2> DEFINE T == [trg[t] EXCEPT !.last = c]
  <2>1. \A r \in Message, n \in 0..MaxClock :
            /\ [r EXCEPT !.at = n] \in Message /\ [r EXCEPT !.at = n].at = n /\ [r EXCEPT !.at = n].t = r.t
            /\ [r EXCEPT !.at = n].known = r.known /\ [r EXCEPT !.at = n].now = r.now
            /\ [r EXCEPT !.at = n].cool = r.cool /\ [r EXCEPT !.at = n].via = r.via
            /\ [r EXCEPT !.at = n].off = r.off
    BY DEF Message
  <2>2. trg[t] \in TrigRecord
    BY <1>3 DEF TrigInv, TrShape
  <2>3. T \in TrigRecord /\ Config(T) = Config(trg[t]) /\ T.last = c /\ T.on = trg[t].on
    BY <1>4, <2>2, TrigFacts
  <2>4. trg' = [trg EXCEPT ![t] = T]
    BY <1>6
  <2> HIDE DEF T, t, m, c
  <2>5. /\ trg' \in [Trigs -> TrigRecord] /\ trg'[t] = T
        /\ \A s \in Trigs : s # t => trg'[s] = trg[s]
    BY <1>3, <2>3, <2>4 DEF TrigInv, TrShape
  <2>6. \A i \in DOMAIN sent : /\ Stamped(i, m, t, c) \in Message
                               /\ Stamped(i, m, t, c) = sent[i] \/ Stamped(i, m, t, c) = [sent[i] EXCEPT !.at = c]
    BY <1>3, <1>4, <2>1 DEF Stamped
  <2>7. DOMAIN sent' = DOMAIN sent /\ sent' \in Seq(Message)
    <3>1. DOMAIN sent = 1 .. Len(sent) /\ Len(sent) \in Nat
        BY <1>3
    <3>2. sent' = [i \in 1 .. Len(sent) |-> Stamped(i, m, t, c)]
        BY <1>6, <3>1
    <3>3. \A i \in 1 .. Len(sent) : Stamped(i, m, t, c) \in Message
        BY <2>6, <3>1
    <3>4. [i \in 1 .. Len(sent) |-> Stamped(i, m, t, c)] \in Seq(Message)
        BY <3>1, <3>3
    <3> QED
        BY <3>1, <3>2, <3>4
  <2>16. \A i \in DOMAIN sent : sent[i] \in Message /\ sent[i].at \in 0..MaxClock /\ sent[i].at \in Nat
    BY <1>3, TimesAreNumbers, TriggersAssumption
  <2>17. \A i \in DOMAIN sent : /\ sent'[i].t = sent[i].t /\ sent'[i].known = sent[i].known
                                /\ sent'[i].now = sent[i].now /\ sent'[i].cool = sent[i].cool
                                /\ sent'[i].via = sent[i].via /\ sent'[i].off = sent[i].off
    <3> SUFFICES ASSUME NEW i \in DOMAIN sent
                 PROVE  /\ sent'[i].t = sent[i].t /\ sent'[i].known = sent[i].known
                        /\ sent'[i].now = sent[i].now /\ sent'[i].cool = sent[i].cool
                        /\ sent'[i].via = sent[i].via /\ sent'[i].off = sent[i].off
        OBVIOUS
    <3>1. sent[i] \in Message
        BY <2>16
    <3>2. sent'[i] = sent[i] \/ sent'[i] = [sent[i] EXCEPT !.at = c]
        BY <1>6, <2>6
    <3>3. CASE sent'[i] = [sent[i] EXCEPT !.at = c]
        BY <1>4, <2>1, <3>1, <3>3
    <3> QED
        BY <3>2, <3>3
  <2>18. ASSUME NEW i \in DOMAIN sent
         PROVE  /\ sent'[i].at \in Nat
                /\ i = m => sent'[i].at = c
                /\ i # m => sent'[i].at <= sent[i].at
                /\ i # m => (sent'[i].at = 0 <=> sent[i].at = 0)
                /\ sent[i].t = t => sent'[i].at <= c
                /\ i # m /\ sent[i].t # t => sent'[i].at = sent[i].at
    <3> DEFINE x == sent[i].at
               y == sent'[i].at
    <3>1. sent'[i] = Stamped(i, m, t, c)
        BY <1>6
    <3>2. [sent[i] EXCEPT !.at = c].at = c
        BY <1>4, <2>1, <2>16
    <3>3. x \in Nat
        BY <2>16
    <3>4. CASE i = m \/ (sent[i].t = t /\ x > c)
      <4>1. y = c
        BY <3>1, <3>2, <3>4 DEF Stamped
      <4> HIDE DEF x, y
      <4> QED
        BY <1>4, <3>3, <3>4, <4>1 DEF x, y
    <3>5. CASE ~(i = m \/ (sent[i].t = t /\ x > c))
      <4>1. y = x
        BY <3>1, <3>5 DEF Stamped
      <4> HIDE DEF x, y
      <4> QED
        BY <1>4, <3>3, <3>5, <4>1 DEF x, y
    <3> QED
        BY <3>4, <3>5
  <2>19. ASSUME NEW i \in DOMAIN sent, sent[i].at # 0
         PROVE  sent'[i].at # 0 /\ sent'[i].at <= sent[i].at /\ sent'[i].at \in 1..sent[i].at
    <3>1. i # m
        BY <1>2, <2>19 DEF m
    <3>2. sent'[i].at \in Nat /\ sent'[i].at <= sent[i].at /\ sent'[i].at # 0
        BY <2>18, <2>19, <3>1
    <3> QED
        BY <2>16, <3>2
  <2>8. fire' \in [Firers -> FireRecord] /\ TrFires'
    <3>1. \A g \in Firers : g # f /\ fire[g].pc \in Unrecorded => sent'[fire[g].msg].at = 0
      <4>1. \A g \in Firers : g # f /\ fire[g].pc \in Unrecorded =>
                fire[g].msg # m /\ fire[g].msg \in DOMAIN sent /\ sent[fire[g].msg].at = 0
        BY <1>1 DEF TrigInv, TrFires, Pending, m
      <4> QED
        BY <2>18, <4>1
    <3> QED
        BY <1>1, <2>7, <2>17, <2>19, <3>1, RestKeeps
  <2>9. TrShape'
    BY <1>1, <2>5, <2>7, <2>8 DEF TrigInv, TrShape
  <2>10. TriggersTypeOK'
    BY <1>1, <2>7, <2>8, <2>9, TrTypedNext DEF TrigInv, TriggersTypeOK
  <2>11. TrSent'
    <3> SUFFICES ASSUME NEW i \in DOMAIN sent'
                 PROVE  /\ sent'[i].at <= clock
                        /\ store = "db" => sent'[i].at <= trg'[sent'[i].t].last
                        /\ \A k \in sent'[i].known : k \in DOMAIN sent' /\ sent'[k].at # 0
        BY <1>1 DEF TrSent
    <3>1. sent'[i].at <= clock
      <4>1. sent[i].at <= clock
        BY <2>7 DEF TrigInv, TrSent
      <4> QED
        BY <1>4, <2>7, <2>16, <2>18, <4>1
    <3>2. ASSUME store = "db" PROVE sent'[i].at <= trg'[sent'[i].t].last
      <4>1. sent[i].t \in Trigs
        BY <2>7, <2>16 DEF Message
      <4>2. CASE sent[i].t = t
        BY <1>4, <2>3, <2>5, <2>7, <2>17, <2>18, <4>2
      <4>3. CASE sent[i].t # t
        <5>1. i # m
            BY <1>2, <4>3 DEF t, m
        <5> QED
            BY <2>5, <2>7, <2>17, <2>18, <3>2, <4>1, <4>3, <5>1 DEF TrigInv, TrSent
      <4> QED
        BY <4>2, <4>3
    <3>3. \A k \in sent'[i].known : k \in DOMAIN sent' /\ sent'[k].at # 0
      <4>1. \A k \in sent[i].known : k \in DOMAIN sent /\ sent[k].at # 0
        BY <2>7 DEF TrigInv, TrSent
      <4> QED
        BY <2>7, <2>17, <2>19, <4>1
    <3> QED
        BY <3>1, <3>2, <3>3
  <2>12. CooldownKept'
    <3> SUFFICES ASSUME store = "db", NEW j \in DOMAIN sent, NEW i \in sent[j].known, sent[i].t = sent[j].t
                 PROVE  sent'[j].now >= sent'[i].at + sent'[j].cool
      <4>1. \A j \in DOMAIN sent : \A i \in sent[j].known : i \in DOMAIN sent
        BY DEF TrigInv, TrSent
      <4> QED
        BY <1>1, <2>7, <2>17, <4>1 DEF CooldownKept
    <3>1. i \in DOMAIN sent /\ sent[i].at # 0
        BY DEF TrigInv, TrSent
    <3>2. sent[j].now >= sent[i].at + sent[j].cool
        BY DEF TrigInv, CooldownKept
    <3>3. sent[j].now \in 0..MaxClock /\ sent[j].cool \in Cooldowns
        BY <2>16 DEF Message
    <3>4. sent'[i].at \in Nat /\ sent'[i].at <= sent[i].at /\ sent[i].at \in Nat
      <4>1. sent[i].at \in Nat
        BY <2>16, <3>1
      <4>2. sent'[i].at \in Nat
        BY <2>18, <3>1
      <4>3. sent'[i].at <= sent[i].at
        BY <2>19, <3>1
      <4> QED
        BY <4>1, <4>2, <4>3
    <3>5. sent'[j].now = sent[j].now /\ sent'[j].cool = sent[j].cool
        BY <2>17
    <3>6. sent[j].now \in Nat /\ sent[j].cool \in Nat
      <4>1. (\A x \in 0..MaxClock : x \in Nat) /\ \A x \in Cooldowns : x \in Nat
        BY TriggersAssumption
      <4> QED
        BY <3>3, <4>1
    <3> QED
        BY <3>2, <3>4, <3>5, <3>6
  <2>13. DisabledSilent' /\ InboxKept'
    BY <1>1, <2>7, <2>17 DEF TrigInv, DisabledSilent, InboxKept
  <2>14. TrMuted'
    <3>1. muted \subseteq Trigs
        BY DEF TrigInv, TriggersTypeOK
    <3> QED
        BY <1>1, <2>3, <2>5, <3>1 DEF TrigInv, TrMuted
  <2>15. SettingsKept'
    <3>1. \A s \in Trigs : Config(trg'[s]) = Config(trg[s])
        BY <2>3, <2>5
    <3>2. \A s \in Trigs : Config(trg[s])' = Config(trg'[s])
        BY DEF Config
    <3> QED
        BY <1>1, <3>1, <3>2 DEF TrigInv, SettingsKept
  <2> QED
    BY <2>8, <2>9, <2>10, <2>11, <2>12, <2>13, <2>14, <2>15 DEF TrigInv
<1> QED
    BY <1>5, <1>6 DEF SaveFired

\* What calls rely on does not depend on the triggers, the editors or the clock.
LEMMA FiresUntouched ==
    ASSUME TrigInv, UNCHANGED <<store, fire, sent>>
    PROVE  TrFires'
    BY DEF TrigInv, TrFires, Known, Copies, Pending

\* An edit is acknowledged: PostgreSQL keeps the time the trigger last fired.
LEMMA AckedKeeps ==
    ASSUME TrigInv, NEW t \in Trigs, NEW a \in Editors, NEW copy \in TrigRecord, Acked(t, a, copy),
           edit' \in [Editors -> SwitchRecords], trigEdits' \in 0..MaxTrigEdits,
           UNCHANGED <<store, kinds, clock, fire, sent, inbox, fires>>
    PROVE  TrigInv'
<1> DEFINE T == Upserted(t, copy)
<1>1. trg[t] \in TrigRecord /\ trg[t].last \in 0..MaxClock
  <2>1. trg[t] \in TrigRecord
    BY DEF TrigInv, TrShape
  <2> QED
    BY <2>1, TrigFacts
<1>2. T \in TrigRecord /\ Config(T) = Config(copy) /\ T.on = copy.on
    BY <1>1, TrigFacts DEF Upserted
<1>3. store = "db" => T.last = trg[t].last
    BY <1>1, TrigFacts DEF Upserted
<1> HIDE DEF T
<1>4. /\ trg' \in [Trigs -> TrigRecord] /\ trg'[t] = T
      /\ \A s \in Trigs : s # t => trg'[s] = trg[s]
    BY <1>2 DEF TrigInv, TrShape, Acked, T
<1>5. saved' \in [Trigs -> Settings] /\ saved' = [saved EXCEPT ![t] = Config(copy)]
    BY TrigFacts DEF TrigInv, TrShape, Acked
<1>6. TrShape'
    BY <1>4, <1>5 DEF TrigInv, TrShape
<1>7. TrFires'
    BY FiresUntouched
<1>8. muted \subseteq Trigs /\ muted' \subseteq Trigs
    BY DEF TrigInv, TriggersTypeOK, Acked
<1>9. TriggersTypeOK'
    BY <1>6, <1>7, <1>8, TrTypedNext DEF TrigInv, TriggersTypeOK
<1>10. TrSent'
  <2> SUFFICES ASSUME NEW i \in DOMAIN sent
               PROVE  /\ sent[i].at <= clock
                      /\ store = "db" => sent[i].at <= trg'[sent[i].t].last
                      /\ \A k \in sent[i].known : k \in DOMAIN sent /\ sent[k].at # 0
    BY DEF TrSent
  <2>1. sent[i].t \in Trigs
    BY DEF TrigInv, TriggersTypeOK
  <2>2. store = "db" => trg'[sent[i].t].last = trg[sent[i].t].last
    BY <1>3, <1>4, <2>1
  <2> QED
    BY <2>2 DEF TrigInv, TrSent
<1>11. TrMuted'
  <2> SUFFICES ASSUME NEW s \in muted' PROVE ~trg'[s].on
    BY DEF TrMuted
  <2>1. CASE s = t
    BY <1>2, <1>4, <2>1 DEF Acked
  <2>2. CASE s # t
    BY <1>4, <1>8, <2>2 DEF TrigInv, TrMuted, Acked
  <2> QED
    BY <2>1, <2>2
<1>12. SettingsKept'
  <2> SUFFICES ASSUME store = "db", NEW s \in Trigs PROVE Config(trg'[s]) = saved'[s]
    <3>1. \A s \in Trigs : Config(trg[s])' = Config(trg'[s])
        BY DEF Config
    <3> QED
        BY <3>1 DEF SettingsKept
  <2>1. CASE s = t
    BY <1>2, <1>4, <1>5, <2>1 DEF TrigInv, TrShape
  <2>2. CASE s # t
    <3>1. saved'[s] = saved[s]
        BY <1>5, <2>2 DEF TrigInv, TrShape
    <3> QED
        BY <1>4, <2>2, <3>1 DEF TrigInv, SettingsKept
  <2> QED
    BY <2>1, <2>2
<1>13. CooldownKept' /\ DisabledSilent' /\ InboxKept'
    BY DEF TrigInv, CooldownKept, DisabledSilent, InboxKept
<1> QED
    BY <1>6, <1>7, <1>9, <1>10, <1>11, <1>12, <1>13 DEF TrigInv

\* POST or PUT saves the settings of the form.
LEMMA PutTriggerKeeps ==
    ASSUME TrigInv, NEW a \in Editors, NEW t \in Trigs, NEW c \in Settings, PutTrigger(a, t, c)
    PROVE  TrigInv'
<1>1. WithLast(c, 0) \in TrigRecord
  <2>1. 0 \in 0..MaxClock
    BY TriggersAssumption
  <2> QED
    BY <2>1, TrigFacts
<1>2. trigEdits' \in 0..MaxTrigEdits
    BY TriggersAssumption DEF TrigInv, TriggersTypeOK, PutTrigger
<1>3. edit' \in [Editors -> SwitchRecords]
    BY DEF TrigInv, TrShape, PutTrigger
<1> QED
    BY <1>1, <1>2, <1>3, AckedKeeps DEF PutTrigger

\* SetEnabled saves the copy it read.
LEMMA EndSwitchKeeps ==
    ASSUME TrigInv, NEW a \in Editors, EndSwitch(a)
    PROVE  TrigInv'
<1>1. edit[a].t \in Trigs /\ edit[a].copy \in TrigRecord
  <2>1. edit[a] \in SwitchRecords /\ edit[a].pc = "save"
    BY DEF TrigInv, TrShape, EndSwitch
  <2>2. edit[a] # NoSwitch
    BY <2>1 DEF NoSwitch
  <2> QED
    BY <2>1, <2>2 DEF SwitchRecords
<1>2. trigEdits' \in 0..MaxTrigEdits
    BY DEF TrigInv, TriggersTypeOK, EndSwitch
<1>3. edit' \in [Editors -> SwitchRecords]
    BY RestingCalls DEF TrigInv, TrShape, EndSwitch
<1> QED
    BY <1>1, <1>2, <1>3, AckedKeeps DEF EndSwitch

\* SetEnabled reads the trigger: it is no longer muted, whatever it will save.
LEMMA BeginSwitchKeeps ==
    ASSUME TrigInv, NEW a \in Editors, NEW t \in Trigs, NEW on \in BOOLEAN, BeginSwitch(a, t, on)
    PROVE  TrigInv'
<1> DEFINE E == [pc |-> "save", t |-> t, copy |-> [trg[t] EXCEPT !.on = on]]
<1>1. /\ edit' = [edit EXCEPT ![a] = E] /\ muted' = muted \ {t} /\ trigEdits' = trigEdits + 1
      /\ trigEdits < MaxTrigEdits
      /\ UNCHANGED <<store, trg, kinds, clock, fire, sent, inbox, saved, fires>>
    BY DEF BeginSwitch
<1>2. E \in SwitchRecords
  <2>1. [trg[t] EXCEPT !.on = on] \in TrigRecord
    BY TrigFacts DEF TrigInv, TrShape
  <2> QED
    BY <2>1 DEF SwitchRecords
<1> HIDE DEF E
<1>3. TrShape'
    BY <1>1, <1>2 DEF TrigInv, TrShape
<1>4. TrFires'
    BY <1>1, FiresUntouched
<1>5. TriggersTypeOK'
  <2>1. trigEdits' \in 0..MaxTrigEdits
    BY <1>1, TriggersAssumption DEF TrigInv, TriggersTypeOK
  <2> QED
    BY <1>1, <1>3, <1>4, <2>1, TrTypedNext DEF TrigInv, TriggersTypeOK
<1>6. TrSent' /\ TrMuted' /\ CooldownKept' /\ DisabledSilent' /\ SettingsKept' /\ InboxKept'
    BY <1>1 DEF TrigInv, TrSent, TrMuted, CooldownKept, DisabledSilent, SettingsKept, InboxKept, Config
<1> QED
    BY <1>3, <1>4, <1>5, <1>6 DEF TrigInv

\* A channel changes its kind, messages are read, or time passes.
LEMMA AroundKeeps ==
    ASSUME TrigInv, EditChannel \/ MarkRead \/ Tick
    PROVE  TrigInv'
<1>1. UNCHANGED <<store, trg, fire, edit, sent, muted, saved, fires>>
    BY DEF EditChannel, MarkRead, Tick
<1>2. TrShape' /\ TrFires'
  <2>1. TrFires'
    BY <1>1, FiresUntouched
  <2> QED
    BY <1>1, <2>1 DEF TrigInv, TrShape
<1>3. kinds' \in [ChannelIds -> Kinds] /\ trigEdits' \in 0..MaxTrigEdits
    BY TriggersAssumption DEF TrigInv, TriggersTypeOK, EditChannel, MarkRead, Tick
<1>4. clock' \in 1..MaxClock /\ clock <= clock' /\ clock \in Nat
    BY TriggersAssumption DEF TrigInv, TriggersTypeOK, EditChannel, MarkRead, Tick
<1>5. DOMAIN inbox' = DOMAIN inbox /\ \A i \in DOMAIN inbox' : inbox'[i] \in BOOLEAN
  <2>1. CASE MarkRead
    BY <2>1 DEF MarkRead
  <2>2. CASE EditChannel \/ Tick
    BY <2>2 DEF TrigInv, TriggersTypeOK, EditChannel, Tick
  <2> QED
    BY <2>1, <2>2
<1>6. TriggersTypeOK'
    BY <1>1, <1>2, <1>3, <1>4, <1>5, TrTypedNext DEF TrigInv, TriggersTypeOK
<1>7. TrSent'
  <2>1. \A i \in DOMAIN sent : sent[i].at \in Nat
    <3>1. \A i \in DOMAIN sent : sent[i] \in Message
        BY DEF TrigInv, TrShape
    <3>2. \A i \in DOMAIN sent : sent[i].at \in 0..MaxClock
        BY <3>1 DEF Message
    <3> QED
        BY <3>2
  <2>2. \A i \in DOMAIN sent : sent[i].at <= clock'
    BY <1>4, <2>1 DEF TrigInv, TrSent
  <2> QED
    BY <1>1, <2>2 DEF TrigInv, TrSent
<1>8. TrMuted' /\ CooldownKept' /\ DisabledSilent' /\ SettingsKept' /\ InboxKept'
    BY <1>1, <1>5 DEF TrigInv, TrMuted, CooldownKept, DisabledSilent, SettingsKept, InboxKept, Config
<1> QED
    BY <1>2, <1>6, <1>7, <1>8 DEF TrigInv

\* The process restarts: calls and edits under way are lost, and the memory store with
\* them; PostgreSQL keeps the triggers and the inbox.
LEMMA RestartTriggersKeeps ==
    ASSUME TrigInv, RestartTriggers
    PROVE  TrigInv'
<1>1. /\ trg' = [t \in Trigs |-> Seeded(t)] /\ inbox' = (IF store = "db" THEN inbox ELSE <<>>)
      /\ fire' = [f \in Firers |-> NoFire] /\ edit' = [a \in Editors |-> NoSwitch]
      /\ muted' = (IF store = "db" THEN muted ELSE {})
      /\ UNCHANGED <<store, kinds, clock, sent, saved, fires, trigEdits>>
    BY DEF RestartTriggers
<1>2. trg' \in [Trigs -> TrigRecord]
  <2>1. WithLast(Default, 0) \in TrigRecord
    <3>1. 0 \in 0..MaxClock
        BY TriggersAssumption
    <3> QED
        BY <3>1, DefaultFacts, TrigFacts
  <2>2. \A t \in Trigs : Seeded(t) \in TrigRecord
    BY <2>1 DEF TrigInv, TrShape, Seeded
  <2> QED
    BY <1>1, <2>2
<1>3. store = "db" => \A t \in Trigs : trg'[t] = trg[t]
    BY <1>1 DEF Seeded
<1>4. TrShape'
    BY <1>1, <1>2, RestingCalls DEF TrigInv, TrShape
<1>5. TrFires'
  <2>1. \A f \in Firers : fire'[f].pc = "idle" /\ fire'[f].todo = <<>> /\ fire'[f].known = {}
    BY <1>1, RestingCalls
  <2> QED
    BY <2>1 DEF TrFires, Known, Copies, Pending, Unrecorded
<1>6. /\ DOMAIN inbox' \subseteq DOMAIN sent /\ \A i \in DOMAIN inbox' : inbox'[i] \in BOOLEAN
      /\ store = "db" => inbox' = inbox
    BY <1>1 DEF TrigInv, TriggersTypeOK
<1>7. muted \subseteq Trigs /\ muted' \subseteq Trigs
    BY <1>1 DEF TrigInv, TriggersTypeOK
<1>8. TriggersTypeOK'
    BY <1>1, <1>4, <1>5, <1>6, <1>7, TrTypedNext DEF TrigInv, TriggersTypeOK
<1>9. TrSent'
  <2>1. \A i \in DOMAIN sent : sent[i].t \in Trigs
    BY DEF TrigInv, TriggersTypeOK
  <2> QED
    BY <1>1, <1>3, <2>1 DEF TrigInv, TrSent
<1>10. TrMuted'
    BY <1>1, <1>3, <1>7 DEF TrigInv, TrMuted
<1>11. SettingsKept'
  <2>1. \A t \in Trigs : Config(trg[t])' = Config(trg'[t])
    BY DEF Config
  <2> QED
    BY <1>1, <1>3, <2>1 DEF TrigInv, SettingsKept
<1>12. CooldownKept' /\ DisabledSilent' /\ InboxKept'
    BY <1>1, <1>6 DEF TrigInv, CooldownKept, DisabledSilent, InboxKept
<1> QED
    BY <1>4, <1>5, <1>8, <1>9, <1>10, <1>11, <1>12 DEF TrigInv

\* A time is read from the clock, which only goes on.
LEMMA StampsStep == TrigInv /\ TrStamps /\ [TriggersNext]_trgVars => TrStamps'
<1> SUFFICES ASSUME TrigInv, TrStamps, [TriggersNext]_trgVars PROVE TrStamps'
    OBVIOUS
<1>1. clock \in Nat /\ clock # 0 /\ fire \in [Firers -> FireRecord]
    BY TriggersAssumption DEF TrigInv, TrShape, TriggersTypeOK
<1>2. clock' \in Nat /\ clock <= clock'
  <2>1. clock' = clock \/ clock' = clock + 1
    BY DEF TriggersNext, trgVars, MatchEnabled, SkipTrigger, SendTrigger, RecordFired, SaveFired, PutTrigger,
           BeginSwitch, EndSwitch, EditChannel, MarkRead, Tick, RestartTriggers
  <2> QED
    BY <1>1, <2>1
<1>3. \A f \in Firers : fire[f].at \in Nat
    BY TimesAreNumbers, TriggersAssumption
<1>4. ASSUME NEW f \in Firers, NEW R, fire' = [fire EXCEPT ![f] = R], R.pc = "save" => R.at = clock PROVE TrStamps'
  <2>1. \A g \in Firers : fire'[g] = IF g = f THEN R ELSE fire[g]
    BY <1>1, <1>4
  <2> QED
    BY <1>1, <1>2, <1>3, <1>4, <2>1 DEF TrStamps
<1>5. ASSUME NEW f \in Firers, MatchEnabled(f) PROVE TrStamps'
  <2>1. \E R : fire' = [fire EXCEPT ![f] = R] /\ R.pc = "next"
    BY <1>5 DEF MatchEnabled
  <2> QED
    BY <1>4, <2>1
<1>6. ASSUME NEW f \in Firers, SkipTrigger(f) \/ SaveFired(f) PROVE TrStamps'
  <2>1. fire' = [fire EXCEPT ![f] = Rest(f)] /\ fire[f].pc # "idle"
    BY <1>6 DEF SkipTrigger, SaveFired
  <2>2. Rest(f).pc \in {"idle", "next"}
    BY <2>1, RestFacts
  <2> QED
    BY <1>4, <2>1, <2>2
<1>7. ASSUME NEW f \in Firers, SendTrigger(f) PROVE TrStamps'
  <2>1. fire' = [fire EXCEPT ![f].pc = "record", ![f].msg = Len(sent) + 1]
    BY <1>7 DEF SendTrigger
  <2>2. fire'[f].pc = "record" /\ \A g \in Firers : g # f => fire'[g] = fire[g]
    BY <1>1, <2>1 DEF FireRecord
  <2> QED
    BY <1>1, <1>2, <1>3, <2>2 DEF TrStamps
<1>8. ASSUME NEW f \in Firers, RecordFired(f) PROVE TrStamps'
  <2>1. fire' = [fire EXCEPT ![f].pc = "save", ![f].at = clock] /\ clock' = clock
    BY <1>8 DEF RecordFired
  <2>2. fire'[f].at = clock /\ \A g \in Firers : g # f => fire'[g] = fire[g]
    BY <1>1, <2>1 DEF FireRecord
  <2> QED
    BY <1>1, <1>2, <1>3, <2>1, <2>2 DEF TrStamps
<1>9. CASE RestartTriggers
    BY <1>9, RestingCalls DEF RestartTriggers, TrStamps
<1>10. CASE UNCHANGED fire
    BY <1>1, <1>2, <1>3, <1>10 DEF TrStamps
<1> QED
    BY <1>5, <1>6, <1>7, <1>8, <1>9, <1>10
    DEF TriggersNext, trgVars, PutTrigger, BeginSwitch, EndSwitch, EditChannel, MarkRead, Tick

\* Every step keeps the invariant.
LEMMA TrigStep == TrigInv /\ TrStamps /\ [TriggersNext]_trgVars => TrigInv'
<1> SUFFICES ASSUME TrigInv, TrStamps, [TriggersNext]_trgVars PROVE TrigInv'
    OBVIOUS
<1>1. ASSUME NEW f \in Firers, MatchEnabled(f) PROVE TrigInv'
    BY <1>1, MatchEnabledKeeps
<1>2. ASSUME NEW f \in Firers, SkipTrigger(f) PROVE TrigInv'
    BY <1>2, SkipTriggerKeeps
<1>3. ASSUME NEW f \in Firers, SendTrigger(f) PROVE TrigInv'
    BY <1>3, SendTriggerKeeps
<1>4. ASSUME NEW f \in Firers, RecordFired(f) PROVE TrigInv'
    BY <1>4, RecordFiredKeeps
<1>11. ASSUME NEW f \in Firers, SaveFired(f) PROVE TrigInv'
    BY <1>11, SaveFiredKeeps
<1>5. ASSUME NEW a \in Editors, NEW t \in Trigs, NEW c \in Settings, PutTrigger(a, t, c) PROVE TrigInv'
    BY <1>5, PutTriggerKeeps
<1>6. ASSUME NEW a \in Editors, NEW t \in Trigs, NEW on \in BOOLEAN, BeginSwitch(a, t, on) PROVE TrigInv'
    BY <1>6, BeginSwitchKeeps
<1>7. ASSUME NEW a \in Editors, EndSwitch(a) PROVE TrigInv'
    BY <1>7, EndSwitchKeeps
<1>8. CASE EditChannel \/ MarkRead \/ Tick
    BY <1>8, AroundKeeps
<1>9. CASE RestartTriggers
    BY <1>9, RestartTriggersKeeps
<1>10. CASE UNCHANGED trgVars
  <2>1. /\ UNCHANGED <<store, trg, kinds, clock, fire, edit>>
        /\ UNCHANGED <<sent, inbox, muted, saved, fires, trigEdits>>
    BY <1>10 DEF trgVars
  <2>2. TrShape' /\ TriggersTypeOK'
    BY <2>1 DEF TrigInv, TrShape, TriggersTypeOK, Config
  <2>3. TrFires'
    BY <2>1, FiresUntouched
  <2>4. TrSent' /\ TrMuted' /\ CooldownKept' /\ DisabledSilent' /\ SettingsKept' /\ InboxKept'
    BY <2>1 DEF TrigInv, TrSent, TrMuted, CooldownKept, DisabledSilent, SettingsKept, InboxKept, Config
  <2> QED
    BY <2>2, <2>3, <2>4 DEF TrigInv
<1> QED
    BY <1>1, <1>2, <1>3, <1>4, <1>5, <1>6, <1>7, <1>8, <1>9, <1>10, <1>11 DEF TriggersNext

\* FireEvent, SetEnabled, Upsert, seedDefaults: for any number of triggers, callers and
\* editors, whatever calls overlap and wherever the process restarts, cooldowns and
\* switches are respected and settings and messages stay.
THEOREM TriggersCorrect == TriggersSpec => []TriggersSound
<1>1. TriggersInit => TrigInv /\ TrStamps
    BY TrigInitial, RestingCalls DEF TriggersInit, TrStamps
<1>2. TrigInv /\ TrStamps /\ [TriggersNext]_trgVars => (TrigInv /\ TrStamps)'
    BY TrigStep, StampsStep
<1>3. TrigInv /\ TrStamps => TriggersSound
    BY DEF TrigInv, TriggersSound
<1> QED
    BY <1>1, <1>2, <1>3, PTL DEF TriggersSpec

=============================================================================
