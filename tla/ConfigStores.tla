---------------------------- MODULE ConfigStores ----------------------------
(***************************************************************************)
(* The runtime-editable configuration of the server.  Eight managers keep  *)
(* a configuration in memory, in a YAML file and, through a persistence    *)
(* callback, as a JSON document in runtime_config_documents; at boot the   *)
(* file is read and a document that exists then replaces what was read.    *)
(* Two disciplines are in the code.  The copying managers (access,         *)
(* providers, authorization, approval routing, prompts, desensitization)   *)
(* build a new configuration from a copy, write the file by rename, swap   *)
(* the pointer under the lock and persist after releasing it.  The locking *)
(* managers (agent roles, organizations) change memory first and write the *)
(* file in place and persist before they release the lock.  The managers   *)
(* share nothing, so a behaviour follows one of them, mgr.                 *)
(***************************************************************************)
EXTENDS Naturals

CONSTANTS Keys,      \* entries of a configuration: a user, a rule, a role ...
          Builtin,   \* the agent roles ensureBuiltinRoles puts back
          Vals,      \* contents of an entry
          Editors,   \* concurrent administrator requests
          MaxBegun,  \* bound on edits
          Default,   \* content of an entry the code ships with
          Torn,      \* content of a file that does not parse
          Missing

VARIABLES mgr,      \* the manager this behaviour follows
          hasFile,  \* a config path is set
          hasDB,    \* PostgreSQL is configured; otherwise documents are in memory
          mem,      \* configuration in memory; Missing while the process is down
          file,     \* content of the file: a configuration, Missing or Torn
          doc,      \* the document of the runtime config store, or Missing
          ed,       \* request of every editor
          last,     \* history: what every entry may legitimately be
          begun,    \* edits begun (bound)
          torn,     \* history: the file is "whole", "cut" off in a write, or "lost":
                    \* a boot had nothing but a cut-off file
          raced     \* history: an edit of a copying manager began during another

storeVars == <<mgr, hasFile, hasDB, mem, file, doc, ed, last, begun, torn, raced>>

Copying == {"access", "providers", "authorization", "approval_routing", "prompts", "desensitization"}
Locking == {"agent_roles", "org"}
Managers == Copying \cup Locking

\* An entry: its content and whether a secret (an API key) is stored with it.
Entry == [val: Vals, key: BOOLEAN]
Config == [Keys -> Entry \cup {Missing}]

\* An absent entry, an absent configuration and a half-written file are told
\* apart from what they stand in for.
ASSUME ConfigAssumption == /\ MaxBegun \in Nat
                           /\ Keys # {} /\ Builtin \subseteq Keys
                           /\ Default \in Vals
                           /\ Missing \notin Vals \cup Entry \cup Config
                           /\ Torn \notin Config \cup {Missing}

Shipped == [val |-> Default, key |-> FALSE]
DefaultConfig == [k \in Keys |-> IF k \in Builtin THEN Shipped ELSE Missing]

NoEdit == [pc |-> "idle", k |-> CHOOSE k \in Keys : TRUE, new |-> DefaultConfig]
Holder == {e \in Editors : ed[e].pc \in {"truncate", "write", "persist_locked"}}

StoresInit == /\ mgr \in Managers
              /\ hasFile \in BOOLEAN /\ hasDB \in BOOLEAN /\ (hasFile \/ hasDB)
              /\ mem = DefaultConfig
              /\ file = IF hasFile THEN DefaultConfig ELSE Missing
              /\ doc = Missing
              /\ ed = [e \in Editors |-> NoEdit]
              /\ last = [k \in Keys |-> {DefaultConfig[k]}]
              /\ begun = 0 /\ torn = "whole" /\ raced = FALSE

-----------------------------------------------------------------------------
(* Starting an edit. *)

\* The request of e now holds a new configuration that differs from cfg in k.
BeginEdit(e, k, entry, cfg, pc) ==
    /\ ed' = [ed EXCEPT ![e] = [pc |-> pc, k |-> k, new |-> [cfg EXCEPT ![k] = entry]]]
    /\ last' = [last EXCEPT ![k] = @ \cup {entry}]
    /\ begun < MaxBegun /\ begun' = begun + 1

\* An edit of a copying manager: the copy is taken under the read lock and
\* is stale if another request saves before this one does.
BeginCopy(e, k, entry) ==
    /\ mem # Missing
    /\ ed[e].pc = "idle"
    /\ raced' = (raced \/ \E other \in Editors : ed[other].pc # "idle")
    /\ BeginEdit(e, k, entry, mem, IF hasFile THEN "file" ELSE "swap")
    /\ UNCHANGED <<mgr, hasFile, hasDB, mem, file, doc, torn>>

\* An edit of a locking manager: memory changes first, under the lock that
\* is held until the request ends.
BeginLocked(e, k, entry) ==
    /\ mem # Missing
    /\ ed[e].pc = "idle"
    /\ Holder = {}
    /\ BeginEdit(e, k, entry, mem, IF hasFile THEN "truncate" ELSE "persist_locked")
    /\ mem' = [mem EXCEPT ![k] = entry]
    /\ UNCHANGED <<mgr, hasFile, hasDB, file, doc, torn, raced>>

\* access: UpsertUser, UpsertGroup, UpsertRole, UpsertPerson and UpsertChannel
\* replace or append one entry of the copy.
AccessUpsert(e, k, v) == mgr = "access" /\ BeginCopy(e, k, [val |-> v, key |-> FALSE])

\* SetPersonStatus, SetChannelEnabled and their like refuse an unknown entry and
\* upsert the entry they read.
AccessSwitch(e, k, v) == /\ mem # Missing
                         /\ mem[k] # Missing
                         /\ AccessUpsert(e, k, v)

\* peopleHandler, personDetailHandler: POST, PUT, enable and disable.
PeopleRequest(e, k, v) == AccessUpsert(e, k, v) \/ AccessSwitch(e, k, v)

\* UpsertAuthProvider: an empty client secret keeps the stored one.
UpsertAuthProvider(e, k, v, key) ==
    /\ mgr = "access" /\ mem # Missing
    /\ BeginCopy(e, k, [val |-> v, key |-> key \/ (mem[k] # Missing /\ mem[k].key)])

\* authConfigHandler: PUT of the whole document.
PutAuthConfig(e, k, v) == mgr = "access" /\ BeginCopy(e, k, [val |-> v, key |-> FALSE])

\* mergeProviderSecrets: with a file, an entry that comes without a key gets
\* the one it has in the configuration it replaces.
MergeProviderSecrets(existing, incoming) ==
    [k \in Keys |-> IF hasFile /\ existing[k] # Missing /\ incoming[k] # Missing
                   THEN [incoming[k] EXCEPT !.key = @ \/ existing[k].key]
                   ELSE incoming[k]]

\* handleProvidersConfigPut.
PutProviders(e, k, v, key) ==
    /\ mgr = "providers" /\ mem # Missing
    /\ BeginCopy(e, k, MergeProviderSecrets(mem, [mem EXCEPT ![k] = [val |-> v, key |-> key]])[k])

\* providersRegistryHandler, providerDetailHandler: one entry is created or
\* replaced (upsertProviderEntry), or an existing one enabled or disabled.
ProviderRequest(e, k, v, key) ==
    \/ PutProviders(e, k, v, key)
    \/ mem # Missing /\ mem[k] # Missing /\ PutProviders(e, k, v, mem[k].key)

\* The PUT handlers of the four document managers.
PutAuthorization(e, k, v) == mgr = "authorization" /\ BeginCopy(e, k, [val |-> v, key |-> FALSE])
PutApprovalRouting(e, k, v) == mgr = "approval_routing" /\ BeginCopy(e, k, [val |-> v, key |-> FALSE])
PutPrompts(e, k, v) == mgr = "prompts" /\ BeginCopy(e, k, [val |-> v, key |-> FALSE])
PutDesensitization(e, k, v) == mgr = "desensitization" /\ BeginCopy(e, k, [val |-> v, key |-> FALSE])

\* agentrole.Create refuses a role that exists.
CreateRole(e, k, v) ==
    /\ mgr = "agent_roles" /\ mem # Missing
    /\ mem[k] = Missing
    /\ BeginLocked(e, k, [val |-> v, key |-> FALSE])

\* agentrole.Update changes a role that exists, built-in or not.
UpdateRole(e, k, v) ==
    /\ mgr = "agent_roles" /\ mem # Missing
    /\ mem[k] # Missing
    /\ BeginLocked(e, k, [val |-> v, key |-> FALSE])

\* agentrole.Delete refuses built-in roles.
DeleteRole(e, k) ==
    /\ mgr = "agent_roles" /\ mem # Missing
    /\ mem[k] # Missing /\ k \notin Builtin
    /\ BeginLocked(e, k, Missing)

\* agentrole.SetEnabled changes one field of a role that exists.
SetRoleEnabled(e, k, v) == UpdateRole(e, k, v)

\* agentRolesListHandler, agentRoleDetailHandler, agentRoleEnableHandler.
AgentRoleRequest(e, k, v) == \/ CreateRole(e, k, v) \/ UpdateRole(e, k, v)
                             \/ SetRoleEnabled(e, k, v) \/ DeleteRole(e, k)

\* org: CreateOrganization, CreateTenant, CreateWorkspace refuse an id in use.
CreateOrgEntry(e, k, v) ==
    /\ mgr = "org" /\ mem # Missing
    /\ mem[k] = Missing
    /\ BeginLocked(e, k, [val |-> v, key |-> FALSE])

\* org: the Update and SetStatus operations of the three kinds.
UpdateOrgEntry(e, k, v) ==
    /\ mgr = "org" /\ mem # Missing
    /\ mem[k] # Missing
    /\ BeginLocked(e, k, [val |-> v, key |-> FALSE])

\* The handlers of organizations, tenants and workspaces repeat each other.
OrganizationRequest(e, k, v) == CreateOrgEntry(e, k, v) \/ UpdateOrgEntry(e, k, v)
TenantRequest(e, k, v) == CreateOrgEntry(e, k, v) \/ UpdateOrgEntry(e, k, v)
WorkspaceRequest(e, k, v) == CreateOrgEntry(e, k, v) \/ UpdateOrgEntry(e, k, v)

-----------------------------------------------------------------------------
(* Saving. *)

Ack(e) == /\ ed' = [ed EXCEPT ![e] = NoEdit]
          /\ last' = [last EXCEPT ![ed[e].k] = {ed[e].new[ed[e].k]}]
Refuse(e) == ed' = [ed EXCEPT ![e] = NoEdit] /\ UNCHANGED last
Move(e, pc) == ed' = [ed EXCEPT ![e].pc = pc] /\ UNCHANGED last

\* writeFileAtomically: a temporary file and a rename; an error ends the save.
WriteFileAtomically(e) ==
    /\ ed[e].pc = "file"
    /\ \/ file' = ed[e].new /\ Move(e, "swap")
       \/ Refuse(e) /\ UNCHANGED file
    /\ UNCHANGED <<mgr, hasFile, hasDB, mem, doc, begun, torn, raced>>

\* The pointer swap under the write lock.
SwapConfig(e) ==
    /\ ed[e].pc = "swap"
    /\ mem' = ed[e].new
    /\ Move(e, "persist")
    /\ UNCHANGED <<mgr, hasFile, hasDB, file, doc, begun, torn, raced>>

\* saveDocument: an upsert; on an error the request fails although memory and
\* file have changed.
SaveDocument(e, pc) ==
    /\ ed[e].pc = pc
    /\ \/ doc' = ed[e].new /\ Ack(e)
       \/ hasDB /\ Refuse(e) /\ UNCHANGED doc
    /\ UNCHANGED <<mgr, hasFile, hasDB, mem, file, begun, torn, raced>>

\* What a cut-off file parses to, if it parses: the entries that got into it.
CutOff(cfg) == {[k \in Keys |-> IF k \in written THEN cfg[k] ELSE Missing] : written \in SUBSET Keys}

FileIs(state) == torn' = IF torn = "lost" THEN torn ELSE state

\* os.WriteFile truncates the file and then writes it, so that at first it holds
\* a part of the new configuration; a failing write leaves it at that.
TruncateFile(e) ==
    /\ ed[e].pc = "truncate"
    /\ \/ file' \in CutOff(ed[e].new) \cup {Torn} /\ FileIs("cut") /\ Move(e, "write")
       \/ Refuse(e) /\ UNCHANGED <<file, torn>>
    /\ UNCHANGED <<mgr, hasFile, hasDB, mem, doc, begun, raced>>

WriteFile(e) ==
    /\ ed[e].pc = "write"
    /\ \/ file' = ed[e].new /\ FileIs("whole") /\ Move(e, "persist_locked")
       \/ Refuse(e) /\ UNCHANGED <<file, torn>>
    /\ UNCHANGED <<mgr, hasFile, hasDB, mem, doc, begun, raced>>

\* Save of a copying manager; the six managers repeat this sequence.
CopySave(m, e) == mgr = m /\ (WriteFileAtomically(e) \/ SwapConfig(e) \/ SaveDocument(e, "persist"))
AccessSave(e) == CopySave("access", e)
ProvidersSave(e) == CopySave("providers", e)
AuthorizationSave(e) == CopySave("authorization", e)
ApprovalRoutingSave(e) == CopySave("approval_routing", e)
PromptsSave(e) == CopySave("prompts", e)
DesensitizationSave(e) == CopySave("desensitization", e)

\* persistLocked of the agent roles, save of the organizations.
LockedSave(m, e) == mgr = m /\ (TruncateFile(e) \/ WriteFile(e) \/ SaveDocument(e, "persist_locked"))
AgentRolesSave(e) == LockedSave("agent_roles", e)
OrgSave(e) == LockedSave("org", e)

-----------------------------------------------------------------------------
(* Crash and boot. *)

\* The process dies; without a database the documents die with it.
StoresCrash == /\ mem # Missing
               /\ mem' = Missing
               /\ doc' = IF hasDB THEN doc ELSE Missing
               /\ ed' = [e \in Editors |-> NoEdit]
               /\ UNCHANGED <<mgr, hasFile, hasDB, file, last, begun, torn, raced>>

\* Mutant: nothing is put back.
EnsureBuiltinNot(cfg) == cfg

\* ensureBuiltinRoles puts a missing built-in role back; ensureDefaults of the
\* organizations fills an empty configuration.
EnsureBuiltin(cfg) ==
    CASE mgr = "agent_roles" ->
           [k \in Keys |-> IF k \in Builtin /\ cfg[k] = Missing THEN Shipped ELSE cfg[k]]
      [] mgr = "org" /\ (\A k \in Keys : cfg[k] = Missing) -> DefaultConfig
      [] OTHER -> cfg

\* Mutant: without a file the configuration is empty.
ReloadedEmpty == IF file = Missing THEN [k \in Keys |-> Missing] ELSE EnsureBuiltin(file)

\* Reload of the constructor: no path or no file is the default configuration.
Reloaded == IF file = Missing THEN DefaultConfig ELSE EnsureBuiltin(file)

\* Mutant: the document is not restored.
RestoredFromFile == Reloaded

\* restoreRuntimeConfig: a stored document replaces what the file gave; one of
\* the providers goes through SaveConfig and gets the keys of the file's entries.
Restored == IF doc = Missing THEN Reloaded
            ELSE IF mgr = "providers" THEN MergeProviderSecrets(Reloaded, doc)
            ELSE EnsureBuiltin(doc)

\* The boot, which ends at a file that does not parse.  access and providers save
\* a restored document again, in the file and as document; if the latter fails,
\* so does the boot.
StoresBoot ==
    /\ mem = Missing /\ file # Torn
    /\ IF doc # Missing /\ mgr \in {"access", "providers"}
       THEN /\ file' = IF hasFile THEN Restored ELSE file
            /\ \/ mem' = Restored /\ doc' = Restored
               \/ UNCHANGED <<mem, doc>>
       ELSE mem' = Restored /\ UNCHANGED <<file, doc>>
    /\ torn' = IF torn = "cut" /\ doc = Missing THEN "lost" ELSE torn
    /\ UNCHANGED <<mgr, hasFile, hasDB, ed, last, begun, raced>>

Edit(e) == \E k \in Keys, v \in Vals :
    \/ PeopleRequest(e, k, v) \/ PutAuthConfig(e, k, v)
    \/ \E key \in BOOLEAN : UpsertAuthProvider(e, k, v, key) \/ ProviderRequest(e, k, v, key)
    \/ PutAuthorization(e, k, v) \/ PutApprovalRouting(e, k, v)
    \/ PutPrompts(e, k, v) \/ PutDesensitization(e, k, v)
    \/ AgentRoleRequest(e, k, v)
    \/ OrganizationRequest(e, k, v) \/ TenantRequest(e, k, v) \/ WorkspaceRequest(e, k, v)

SaveStep(e) == \/ AccessSave(e) \/ ProvidersSave(e) \/ AuthorizationSave(e)
               \/ ApprovalRoutingSave(e) \/ PromptsSave(e) \/ DesensitizationSave(e)
               \/ AgentRolesSave(e) \/ OrgSave(e)

StoresNext == \/ \E e \in Editors : Edit(e) \/ SaveStep(e)
              \/ StoresCrash \/ StoresBoot

StoresSpec == StoresInit /\ [][StoresNext]_storeVars

-----------------------------------------------------------------------------
(* Properties. *)

\* The three copies and the requests hold configurations.
StoresTypeOK == /\ mgr \in Managers
                /\ hasFile \in BOOLEAN /\ hasDB \in BOOLEAN /\ begun \in 0 .. MaxBegun /\ raced \in BOOLEAN
                /\ torn \in {"whole", "cut", "lost"}
                /\ mem \in Config \cup {Missing}
                /\ file \in Config \cup {Missing, Torn}
                /\ doc \in Config \cup {Missing}
                /\ ed \in [Editors -> [pc: {"idle", "file", "swap", "persist", "truncate", "write", "persist_locked"},
                                       k: Keys, new: Config]]
                /\ last \in [Keys -> SUBSET (Entry \cup {Missing})]

\* The entry is one of those, or, where a boot merges keys, the content of one
\* with the key of another.
Explains(past, merges, entry) ==
    \/ entry \in past
    \/ /\ merges
       /\ \E content, keyed \in past \ {Missing} : entry = [val |-> content.val, key |-> keyed.key]

\* What the server runs with, and what it would run with after a crash at any
\* moment, has in every entry the last acknowledged content or that of an edit
\* begun since: neither a failing file write, a failing document nor a crash
\* between two of the steps file, memory, document loses an acknowledged edit.
\* A provider may get the key of an edit that was begun and not acknowledged, for
\* a boot merges the file's keys into the document.  The exceptions are a locking
\* manager with nothing but a file whose os.WriteFile was cut off, and a copying
\* manager with two edits at once, of which the later swap wins.
AckedEditsKept ==
    \/ mgr \in Copying /\ raced
    \/ mgr \in Locking /\ (torn = "lost" \/ (torn = "cut" /\ mem = Missing /\ doc = Missing))
    \/ \A k \in Keys : Explains(last[k], mgr = "providers", (IF mem = Missing THEN Restored ELSE mem)[k])

\* The built-in agent roles, the fallbacks of ResolveForSession and
\* ResolveForAutomation, are there whenever the server runs, whatever was
\* deleted, lost or restored.
BuiltinRolesPresent ==
    (mgr = "agent_roles" /\ mem # Missing) => \A k \in Builtin : mem[k] # Missing

\* Through concurrent edits, failed writes, crashes and boots a configuration
\* store keeps what it has acknowledged and what the server cannot run without.
StoresSound == StoresTypeOK /\ AckedEditsKept /\ BuiltinRolesPresent
=============================================================================
