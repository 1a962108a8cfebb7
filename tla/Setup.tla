------------------------------- MODULE Setup -------------------------------
(***************************************************************************)
(* The first-run wizard.  Its progress is one row, setup_state, that every *)
(* request reads when it begins and writes back whole when it ends.  In    *)
(* between it changes the managers the row refers to: users, auth          *)
(* providers and channels of the access configuration, the model providers *)
(* and the stored API keys.  An access or provider configuration is in     *)
(* memory and in a document of the configuration store (ConfigStores has   *)
(* the steps of one save and the files); the keys are in memory and in a   *)
(* file.  The store keeps the row and the documents in the database, or,   *)
(* if the server runs without one, in its own memory.                      *)
(***************************************************************************)
EXTENDS Naturals

CONSTANTS Requests,    \* concurrent HTTP requests
          Models,      \* model providers, by id
          MaxSubmitted, \* bound on requests
          MaxFailures, \* bound on failed writes and crashes
          Unset

VARIABLES online,    \* the process runs
          shipped,   \* access configuration the server was installed with
          database,  \* the server has one
          row,       \* setup_state
          acc,       \* access configuration in memory
          accDoc,    \* its document, or Unset
          prv,       \* provider configuration in memory
          prvDoc,    \* its document, or Unset
          keys,      \* API keys in memory, by the provider they are for
          keyFile,   \* API keys in the secrets file
          rq,        \* the requests
          sent, failures,  \* bounds
          passed,    \* history: providers that answered a check
          completed, \* history: a completion was answered with success, and its row not lost
          blame      \* history: what the promise of a completion does not cover

setupVars == <<online, shipped, database, row, acc, accDoc, prv, prvDoc, keys, keyFile, rq, sent, failures, passed, completed, blame>>

Kinds == {"admin", "auth", "check", "provider", "channel", "complete"}
Key == {"good", "bad", Unset}
Access == [admin: BOOLEAN, auth: BOOLEAN, channel: BOOLEAN]
Registry == [entries: SUBSET Models, primary: Models \cup {Unset}]
Row == [initialized: BOOLEAN, admin: BOOLEAN, auth: BOOLEAN, channel: BOOLEAN,
        provider: Models \cup {Unset}, checked: BOOLEAN]

ASSUME SetupAssumption == /\ MaxSubmitted \in Nat /\ MaxFailures \in Nat
                          /\ Unset \notin Models \cup Access \cup Registry

NoAccess == [admin |-> FALSE, auth |-> FALSE, channel |-> FALSE]
NoRegistry == [entries |-> {}, primary |-> Unset]
NewRow == [initialized |-> FALSE, admin |-> FALSE, auth |-> FALSE, channel |-> FALSE,
           provider |-> Unset, checked |-> FALSE]
NoSubmission == [pc |-> "idle", kind |-> "check", p |-> Unset, key |-> Unset,
              row |-> NewRow, snap |-> NoAccess]

SetupInit == /\ online = TRUE
             /\ row = NewRow
             /\ shipped \in Access /\ database \in BOOLEAN
             /\ acc = shipped /\ accDoc = Unset
             /\ prv = NoRegistry /\ prvDoc = Unset
             /\ keys = [p \in Models |-> Unset] /\ keyFile = keys
             /\ rq = [r \in Requests |-> NoSubmission]
             /\ sent = 0 /\ failures = 0
             /\ passed = {} /\ completed = FALSE /\ blame = {}

-----------------------------------------------------------------------------
(* One request. *)

Go(r, pc) == rq' = [rq EXCEPT ![r].pc = pc]
Reply(r) == rq' = [rq EXCEPT ![r] = NoSubmission]
Fails == failures < MaxFailures /\ failures' = failures + 1

\* A write to the store's own memory does not fail.
StoreFails == database /\ Fails

\* Mutant: only the access check looks at initialized, and lets operators in.
RequireWrite_AccessOnly == TRUE

\* requireSetupWizardWrite: nothing is written once the row says initialized.
RequireWrite == ~row.initialized

FirstStep(kind) == CASE kind = "admin" -> "user"
                     [] kind = "auth" -> "auth"
                     [] kind \in {"check", "provider"} -> "key"
                     [] kind = "channel" -> "channel"
                     [] kind = "complete" -> "complete"

\* A request passes requireSetupWizardWrite and keeps the row it read.  key is
\* the raw API key it brings, Unset if it only names the stored one.
SubmitRequest(r, kind, p, key) ==
    /\ online /\ rq[r].pc = "idle"
    /\ sent < MaxSubmitted /\ sent' = sent + 1
    /\ RequireWrite
    /\ rq' = [rq EXCEPT ![r] = [pc |-> FirstStep(kind), kind |-> kind, p |-> p, key |-> key,
                                row |-> IF kind = "check" THEN NewRow ELSE row, snap |-> NoAccess]]
    /\ blame' = blame \cup IF \E s \in Requests : rq[s].pc # "idle" THEN {"overlap"} ELSE {}
    /\ UNCHANGED <<online, shipped, database, row, acc, accDoc, prv, prvDoc, keys, keyFile, failures, passed, completed>>

\* UpsertUser, UpsertAuthProvider, UpsertChannel: memory changes, then the
\* document; an error of the document ends the request with memory changed.
Upsert(r, at, field, next) ==
    /\ rq[r].pc = at
    /\ acc' = [acc EXCEPT ![field] = TRUE]
    /\ \/ accDoc' = acc' /\ Go(r, next) /\ UNCHANGED failures
       \/ StoreFails /\ Reply(r) /\ UNCHANGED accDoc
    /\ UNCHANGED <<online, shipped, database, row, prv, prvDoc, keys, keyFile, sent, passed, completed, blame>>

\* setupWizardAdminHandler: an active user with the role platform_admin.
SetupAdmin(r) == Upsert(r, "user", "admin", "auth")

\* ensureSetupAuthProvider: an enabled provider for local logins.
EnsureSetupAuthProvider(r, kind) == rq[r].kind = kind /\ Upsert(r, "auth", "auth", "snapshot")

\* The second half of setupWizardAdminHandler, and setupWizardAuthHandler.
SetupAdminAuth(r) == EnsureSetupAuthProvider(r, "admin")
SetupAuth(r) == EnsureSetupAuthProvider(r, "auth")

\* setupWizardChannelHandler: an enabled channel.
SetupChannel(r) == Upsert(r, "channel", "channel", "snapshot")

\* resolveSetupWizardProviderSecretRef: a raw key is put into the store under
\* the provider's reference before anything is checked, by both handlers.
\* Apply changes memory first; when the file cannot be written memory keeps it.
StoreKey(r) ==
    /\ rq[r].pc = "key"
    /\ LET p == rq[r].p
           k == rq[r].key
           spoils == keys[p] = "good" /\ k = "bad"
       IN \/ /\ k = Unset
             /\ Go(r, "try")
             /\ UNCHANGED <<keys, keyFile, blame, failures>>
          \/ /\ k # Unset
             /\ keys' = [keys EXCEPT ![p] = k]
             /\ keyFile' = keys'
             /\ rq' = [rq EXCEPT ![r].pc = "try", ![r].key = Unset]
             /\ blame' = blame \cup IF spoils THEN {"rekey"} ELSE {}
             /\ UNCHANGED failures
          \/ /\ k # Unset /\ Fails
             /\ keys' = [keys EXCEPT ![p] = k]
             /\ Reply(r)
             /\ blame' = blame \cup {"unsaved"}
             /\ UNCHANGED keyFile
    /\ UNCHANGED <<online, shipped, database, row, acc, accDoc, prv, prvDoc, sent, passed, completed>>

\* Mutant: a check that came back without an answer is taken for available.
Available_Silent(k) == TRUE

\* CheckProviderAvailability with the key k: only a good key can be answered
\* with success, and even then the provider may be down.
Available(k) == k = "good"

\* lookupRequiredSecret, executeSetupWizardProviderCheck and the answer of the
\* two handlers: a key that is not stored, an error and "not available" refuse.
CheckProvider(r) ==
    /\ rq[r].pc = "try"
    /\ \/ /\ keys[rq[r].p] # Unset /\ Available(keys[rq[r].p])
          /\ passed' = IF keys[rq[r].p] = "good" THEN passed \cup {rq[r].p} ELSE passed
          /\ IF rq[r].kind = "check" THEN Reply(r) ELSE Go(r, "bind")
       \/ Reply(r) /\ UNCHANGED passed
    /\ UNCHANGED <<online, shipped, database, row, acc, accDoc, prv, prvDoc, keys, keyFile, sent, failures, completed, blame>>

\* setupWizardProviderHandler: the entry joins the configuration and becomes
\* its primary; memory changes, then the document.
BindProvider(r) ==
    /\ rq[r].pc = "bind"
    /\ prv' = [entries |-> prv.entries \cup {rq[r].p}, primary |-> rq[r].p]
    /\ \/ prvDoc' = prv' /\ Go(r, "save") /\ UNCHANGED failures
       \/ StoreFails /\ Reply(r) /\ UNCHANGED prvDoc
    /\ UNCHANGED <<online, shipped, database, row, acc, accDoc, keys, keyFile, sent, passed, completed, blame>>

\* setupInitializationFromState: a step counts as done if the row says so or
\* if the manager already has what the step would create.
Ready(state) == /\ state.admin \/ acc.admin
                /\ state.auth \/ acc.auth
                /\ state.provider # Unset \/ prv.primary # Unset
                /\ state.channel \/ acc.channel

\* Mutant: the result of the provider check is not sent for.
MayComplete_Unchecked(state) == Ready(state)

MayComplete(state) == Ready(state) /\ state.checked

\* Mutant: the access configuration is not saved once more.
AfterComplete_NoPersist(r) == "save"

AfterComplete(r) == "snapshot"

\* setupWizardCompleteHandler judges the row it read and the managers as they are.
Complete(r) == /\ rq[r].pc = "complete"
               /\ IF MayComplete(rq[r].row) THEN Go(r, AfterComplete(r)) ELSE Reply(r)
               /\ UNCHANGED <<online, shipped, database, row, acc, accDoc, prv, prvDoc, keys, keyFile, sent, failures, passed, completed, blame>>

\* persistAccessConfig: the snapshot, then its document.
Snapshot(r) == /\ rq[r].pc = "snapshot"
               /\ rq' = [rq EXCEPT ![r].snap = acc, ![r].pc = "persist"]
               /\ UNCHANGED <<online, shipped, database, row, acc, accDoc, prv, prvDoc, keys, keyFile, sent, failures, passed, completed, blame>>

PersistAccess(r) ==
    /\ rq[r].pc = "persist"
    /\ \/ accDoc' = rq[r].snap /\ Go(r, "save") /\ UNCHANGED failures
       \/ StoreFails /\ Reply(r) /\ UNCHANGED accDoc
    /\ UNCHANGED <<online, shipped, database, row, acc, prv, prvDoc, keys, keyFile, sent, passed, completed, blame>>

\* Mutant: the wizard's row keeps the provider of an earlier step.
NewState_Unbound(q) ==
    IF q.kind = "provider" THEN [q.row EXCEPT !.provider = IF @ = Unset THEN q.p ELSE @, !.checked = TRUE]
    ELSE q.row

\* What a handler sets in its copy of the row.
NewState(q) == CASE q.kind = "admin" -> [q.row EXCEPT !.admin = TRUE, !.auth = TRUE]
                 [] q.kind = "auth" -> [q.row EXCEPT !.auth = TRUE]
                 [] q.kind = "provider" -> [q.row EXCEPT !.provider = q.p, !.checked = TRUE]
                 [] q.kind = "channel" -> [q.row EXCEPT !.channel = TRUE]
                 [] q.kind = "complete" -> [q.row EXCEPT !.initialized = TRUE]

\* SaveSetupState: the upsert of the whole row; an error is answered with 500.
SaveSetupState(r) ==
    /\ rq[r].pc = "save"
    /\ Reply(r)
    /\ \/ row' = NewState(rq[r]) /\ completed' = (completed \/ rq[r].kind = "complete") /\ UNCHANGED failures
       \/ StoreFails /\ UNCHANGED <<row, completed>>
    /\ UNCHANGED <<online, shipped, database, acc, accDoc, prv, prvDoc, keys, keyFile, sent, passed, blame>>

-----------------------------------------------------------------------------
(* The process. *)

RestoredAccess == IF accDoc = Unset THEN shipped ELSE accDoc
RestoredRegistry == IF prvDoc = Unset THEN NoRegistry ELSE prvDoc

\* The process dies; requests and memory are gone.
SetupCrash == /\ online /\ Fails
              /\ online' = FALSE
              /\ rq' = [r \in Requests |-> NoSubmission]
              /\ UNCHANGED <<shipped, database, row, acc, accDoc, prv, prvDoc, keys, keyFile, sent, passed, completed, blame>>

\* The boot reads the secrets file and the documents.  Without a database
\* NewRuntimeConfigStore begins empty: the row and the documents are gone, and
\* a wizard that was completed is open again.
SetupBoot == /\ ~online /\ online' = TRUE
             /\ UNCHANGED <<shipped, database, keyFile, rq, sent, failures, passed, blame>>
             /\ IF database
                THEN UNCHANGED <<row, accDoc, prvDoc, completed>>
                ELSE row' = NewRow /\ accDoc' = Unset /\ prvDoc' = Unset /\ completed' = FALSE
             /\ acc' = RestoredAccess' /\ prv' = RestoredRegistry' /\ keys' = keyFile

Handle(r) == \/ SetupAdmin(r) \/ SetupAdminAuth(r) \/ SetupAuth(r) \/ SetupChannel(r)
             \/ StoreKey(r) \/ CheckProvider(r) \/ BindProvider(r)
             \/ Complete(r) \/ Snapshot(r) \/ PersistAccess(r) \/ SaveSetupState(r)

Submit(r) == \/ \E kind \in Kinds \ {"check", "provider"} : SubmitRequest(r, kind, Unset, Unset)
             \/ \E kind \in {"check", "provider"}, p \in Models, key \in Key : SubmitRequest(r, kind, p, key)

SetupNext == (\E r \in Requests : Submit(r) \/ Handle(r)) \/ SetupCrash \/ SetupBoot

SetupSpec == SetupInit /\ [][SetupNext]_setupVars

-----------------------------------------------------------------------------
(* Properties. *)

\* The row, the configurations and the requests are what the handlers build.
SetupTypeOK ==
    /\ online \in BOOLEAN /\ shipped \in Access /\ database \in BOOLEAN /\ row \in Row
    /\ acc \in Access /\ accDoc \in Access \cup {Unset}
    /\ prv \in Registry /\ prvDoc \in Registry \cup {Unset}
    /\ keys \in [Models -> Key] /\ keyFile \in [Models -> Key]
    /\ rq \in [Requests -> [pc: {"idle", "user", "auth", "channel", "key", "try", "bind", "complete",
                                 "snapshot", "persist", "save"},
                            kind: Kinds, p: Models \cup {Unset}, key: Key, row: Row, snap: Access]]
    /\ sent \in 0 .. MaxSubmitted /\ failures \in 0 .. MaxFailures
    /\ passed \subseteq Models /\ completed \in BOOLEAN /\ blame \subseteq {"overlap", "rekey", "unsaved"}

\* A row that says a provider was checked names one that did answer a check,
\* whichever of several overlapping requests wrote it last: the name and the
\* result are written together.
CheckedIsBound == row.checked => row.provider \in passed

\* What the wizard reports as completed is in the store, where a restart at any
\* moment finds it if the store is a database: an administrator, a way to log
\* in, a channel and a primary model provider with a key that works.  The code
\* falls back on what is in memory and saves it all once more, so a write that
\* failed in an earlier step does not spoil it.  It cannot promise that for
\* overlapping requests, which write back each other's row, nor keep a key that
\* a later, refused request has replaced or that never reached the file.
CompletedUsable ==
    (row.initialized /\ "overlap" \notin blame) =>
        /\ RestoredAccess = [admin |-> TRUE, auth |-> TRUE, channel |-> TRUE]
        /\ RestoredRegistry.primary \in RestoredRegistry.entries \cap passed
        /\ (blame = {} => keyFile[RestoredRegistry.primary] = "good")

\* A completed wizard stays closed as long as the store that holds its row
\* lives, through restarts if that is the database, and the requests it serves
\* without a login are over: only one that had begun before the completion can
\* go on, and open the wizard again by writing back the row it read then.
StaysCompleted == (completed /\ "overlap" \notin blame) =>
                      row.initialized /\ \A r \in Requests : rq[r].pc = "idle"

\* The wizard ends in a server that can be used, and stays ended.
SetupSound == SetupTypeOK /\ CheckedIsBound /\ CompletedUsable /\ StaysCompleted
=============================================================================
