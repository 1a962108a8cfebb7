----------------------------- MODULE Connectors -----------------------------
(***************************************************************************)
(* The connector registry (internal/modules/connectors) and the action     *)
(* service's use of it.  An administrator's request builds a new           *)
(* configuration from a copy, derives the lifecycle of every connector     *)
(* from it, writes the configuration file and then the lifecycle file,     *)
(* swaps both in memory and stores both as one document; an upgrade or a   *)
(* rollback then corrects the lifecycle in a second round of writes.  The  *)
(* runtime calls and health checks running next to it read a manifest,     *)
(* work, and record the connector's health through the same three stores.  *)
(* One administrator's request is in the server at a time.                 *)
(***************************************************************************)
EXTENDS Naturals, Sequences, FiniteSets, SequencesExt, TLC

CONSTANTS Connectors,  \* connector ids
          Versions,    \* versions of a manifest
          Bodies,      \* the rest of a manifest: endpoint, secrets, capabilities
          Incomplete,  \* bodies without a field or a secret that is required
          Offered,     \* manifests administrators submit
          Calls,       \* concurrent runtime calls and health checks
          MaxSaves,    \* bound on administrator requests
          MaxRevs,     \* revisions kept, 10 in the code
          Absent

ConnManifest == [ver: Versions, body: Bodies, on: BOOLEAN]
Healths == {"healthy", "unhealthy", "unknown", "disabled"}

\* HealthStatus; live tells a recorded summary from the one the manifest gives.
Health == [status: Healths, live: BOOLEAN]

\* RevisionSnapshot: the manifest, why it was recorded and when.
Revision == [m: ConnManifest, why: {"install", "upgrade", "update", "rollback"}, at: 0..MaxSaves]

\* LifecycleState, as far as the code decides on it; fp is LastFingerprint,
\* Absent where it was not stored.
Lifecycle == [ver: Versions, on: BOOLEAN, health: Health, fp: ConnManifest \cup {Absent},
              revs: Seq(Revision)]

Conf == [Connectors -> ConnManifest \cup {Absent}]
Lives == [Connectors -> Lifecycle \cup {Absent}]

ASSUME ConnectorsAssumption == /\ Incomplete \subseteq Bodies
                               /\ Offered \subseteq ConnManifest
                               /\ MaxSaves \in Nat
                               /\ MaxRevs \in Nat \ {0}
                               /\ Absent \notin ConnManifest \cup Lifecycle \cup [cfg: Conf, life: Lives]

VARIABLES conn,      \* Manager.config: a manifest per connector, or Absent
          life,      \* Manager.state: the lifecycle of every connector
          connFile,  \* the configuration file
          lifeFile,  \* the lifecycle file next to it
          connDoc,   \* the document of the runtime config store, or Absent
          useFile,   \* a configuration path is set
          up,        \* the process runs
          adm,       \* the administrator's request
          call,      \* every runtime call
          saves,     \* administrator requests begun; also the clock of revisions
          legit,     \* history: what every connector may legitimately be
          mixed,     \* history: a health record was stored around a swap
          untracked  \* history: connectors whose manifest changed unrecorded

connVars == <<conn, life, connFile, lifeFile, connDoc, useFile, up, adm, call, saves,
              legit, mixed, untracked>>

Installed(c) == {id \in Connectors : c[id] # Absent}
NoConnectors == [id \in Connectors |-> Absent]

IdleAdmin == [pc |-> "idle", op |-> "save", id |-> Absent, cfg |-> NoConnectors,
              life |-> NoConnectors, one |-> Absent]
IdleCall == [pc |-> "idle", id |-> Absent, life |-> NoConnectors, cfg |-> NoConnectors]

ConnInit == /\ useFile \in BOOLEAN
            /\ conn = NoConnectors /\ life = NoConnectors
            /\ connFile = NoConnectors /\ lifeFile = NoConnectors
            /\ connDoc = Absent
            /\ up = TRUE
            /\ adm = IdleAdmin
            /\ call = [k \in Calls |-> IdleCall]
            /\ saves = 0
            /\ legit = [id \in Connectors |-> {Absent}]
            /\ mixed = FALSE
            /\ untracked = {}

-----------------------------------------------------------------------------
(* What the configuration says of the lifecycle. *)

\* HealthStatusForManifest: without a probe an enabled connector is healthy
\* unless something it needs is missing (an incompatible one is never saved).
ManifestHealth(m) == [status |-> IF ~m.on THEN "disabled"
                                 ELSE IF m.body \in Incomplete THEN "unhealthy" ELSE "healthy",
                      live |-> FALSE]

\* pendingRuntimeProbeHealth: an enabled connector that changed is unknown.
PendingProbe(m) == IF m.on THEN [status |-> "unknown", live |-> TRUE] ELSE ManifestHealth(m)

\* shouldPreserveRecordedHealth: a recorded health survives a save only if
\* it has the status the manifest would give anyway.
PreserveHealth(h, m, fp) == m.on /\ fp = m /\ h.live /\ h.status = ManifestHealth(m).status

\* Mutant: the list is not cut.
AppendRevisionUncut(revs, m, why, at) == Append(revs, [m |-> m, why |-> why, at |-> at])

\* sort.SliceStable by time: the k-th is the one with k entries up to it.
ByTime(revs) ==
    LET upTo(i) == {j \in DOMAIN revs : \/ revs[j].at < revs[i].at
                                       \/ (revs[j].at = revs[i].at /\ j <= i)} IN
    [k \in DOMAIN revs |-> revs[CHOOSE i \in DOMAIN revs : Cardinality(upTo(i)) = k]]

\* appendRevision: an equal revision is stamped again in place, else the list
\* is extended, sorted by time and cut to the newest MaxRevs.
AppendRevision(revs, m, why, at) ==
    LET same == {i \in DOMAIN revs : revs[i].m = m /\ revs[i].why = why}
        all  == ByTime(Append(revs, [m |-> m, why |-> why, at |-> at])) IN
    IF same # {} THEN [revs EXCEPT ![CHOOSE i \in same : \A j \in same : i <= j].at = at]
    ELSE SubSeq(all, IF Len(all) > MaxRevs THEN Len(all) - MaxRevs + 1 ELSE 1, Len(all))

\* Mutant: the switch of a known connector is not taken over.
SyncOneKeepsSwitch(old, prev, m, at) ==
    [ver |-> m.ver, on |-> IF old = Absent THEN m.on ELSE old.on, health |-> ManifestHealth(m), fp |-> m,
     revs |-> AppendRevision(IF old = Absent THEN <<>> ELSE old.revs, m, "update", at)]

\* Mutant: only a change of version is recorded.
SyncOneByVersion(old, prev, m, at) ==
    [ver |-> m.ver, on |-> m.on, health |-> ManifestHealth(m), fp |-> m,
     revs |-> IF old = Absent THEN AppendRevision(<<>>, m, "install", at)
              ELSE IF prev # Absent /\ prev.ver # m.ver THEN AppendRevision(old.revs, m, "upgrade", at)
              ELSE old.revs]

\* syncLifecycleState for a connector of the new configuration: a new one is
\* installed; a version change, or a change of the content alone, is recorded;
\* enabling or disabling is not, whatever else changed with it, nor is a change
\* of content when the last fingerprint is not known.
SyncOne(old, prev, m, at) ==
    LET revs ==
          IF old = Absent THEN AppendRevision(<<>>, m, "install", at)
          ELSE IF prev = Absent THEN old.revs
          ELSE IF prev.ver # m.ver THEN AppendRevision(old.revs, m, "upgrade", at)
          ELSE IF prev.on # m.on THEN old.revs
          ELSE IF old.fp \notin {Absent, m} THEN AppendRevision(old.revs, m, "update", at)
          ELSE old.revs
        health == IF old # Absent /\ PreserveHealth(old.health, m, old.fp)
                  THEN old.health ELSE ManifestHealth(m) IN
    [ver |-> m.ver, on |-> m.on, health |-> health, fp |-> m, revs |-> revs]

\* syncLifecycleState: what is no longer configured is dropped.
SyncLifecycle(state, prev, cfg, at) ==
    [id \in Connectors |-> IF cfg[id] = Absent THEN Absent
                           ELSE SyncOne(state[id], prev[id], cfg[id], at)]

-----------------------------------------------------------------------------
(* Administrator requests. *)

BeginRequest(op, id, cfg) ==
    /\ up /\ adm.pc = "idle" /\ saves < MaxSaves
    /\ saves' = saves + 1
    /\ adm' = [IdleAdmin EXCEPT !.pc = "sync", !.op = op, !.id = id, !.cfg = cfg]
    /\ legit' = [legit EXCEPT ![id] = @ \cup {cfg[id]}]
    /\ UNCHANGED <<conn, life, connFile, lifeFile, connDoc, useFile, up, call, mixed, untracked>>

\* handleConnectorsConfigPut, Save and SaveConfig: the whole configuration.
SaveConfig == \E id \in Connectors : BeginRequest("save", id, [conn EXCEPT ![id] = Absent])

\* connectorCreateHandler, connectorUpdateHandler, handleConnectorsImportPost: Upsert.
UpsertConnector(id, m) == BeginRequest("save", id, [conn EXCEPT ![id] = m])

\* connectorEnableHandler: SetEnabled of a connector that exists.
SetConnectorEnabled(id, on) == /\ conn[id] # Absent
                               /\ BeginRequest("save", id, [conn EXCEPT ![id].on = on])

\* connectorUpgradeHandler: Upgrade of a connector that exists.
Upgrade(id, m) == /\ conn[id] # Absent
                  /\ BeginRequest("upgrade", id, [conn EXCEPT ![id] = m])

\* The manifest a rollback goes to: the last listed revision of the version.
RollbackTarget(id, ver) ==
    LET hits == {i \in DOMAIN life[id].revs : life[id].revs[i].m.ver = ver} IN
    IF hits = {} THEN Absent ELSE life[id].revs[CHOOSE i \in hits : \A j \in hits : j <= i].m

\* connectorRollbackHandler: Rollback to a recorded version.
Rollback(id, ver) ==
    /\ conn[id] # Absent /\ life[id] # Absent
    /\ RollbackTarget(id, ver) # Absent
    /\ BeginRequest("rollback", id, [conn EXCEPT ![id] = RollbackTarget(id, ver)])

\* saveConfigAndState: previous configuration and lifecycle are copied and
\* the new lifecycle is computed.
SyncState ==
    /\ adm.pc = "sync"
    /\ adm' = [adm EXCEPT !.pc = IF useFile THEN "file" ELSE "swap",
                          !.life = SyncLifecycle(life, conn, adm.cfg, saves)]
    /\ untracked' = untracked \cup {id \in Installed(adm.cfg) \cap Installed(conn) :
                       /\ conn[id].ver = adm.cfg[id].ver
                       /\ conn[id].body # adm.cfg[id].body
                       /\ \/ conn[id].on # adm.cfg[id].on
                          \/ life[id] # Absent /\ life[id].fp = Absent}
    /\ UNCHANGED <<conn, life, connFile, lifeFile, connDoc, useFile, up, call, saves, legit, mixed>>

Fail == adm' = IdleAdmin
Step(pc) == adm' = [adm EXCEPT !.pc = pc]

\* writeFileAtomically of the configuration; an error ends the request.
WriteConnFile ==
    /\ adm.pc = "file"
    /\ \/ connFile' = adm.cfg /\ Step("state")
       \/ Fail /\ UNCHANGED connFile
    /\ UNCHANGED <<conn, life, lifeFile, connDoc, useFile, up, call, saves, legit, mixed, untracked>>

\* saveLifecycleStateFile.
WriteLifeFile ==
    /\ adm.pc = "state"
    /\ \/ lifeFile' = adm.life /\ Step("swap")
       \/ Fail /\ UNCHANGED lifeFile
    /\ UNCHANGED <<conn, life, connFile, connDoc, useFile, up, call, saves, legit, mixed, untracked>>

\* Memory gets both; health recorded since the copy is overwritten.
SwapBoth ==
    /\ adm.pc = "swap"
    /\ conn' = adm.cfg
    /\ life' = adm.life
    /\ mixed' = (mixed \/ \E k \in Calls : call[k].pc \in {"copy", "store"})
    /\ Step("persist")
    /\ UNCHANGED <<connFile, lifeFile, connDoc, useFile, up, call, saves, legit, untracked>>

\* SaveConnectorsState: the document is JSON, which leaves LastFingerprint out.
Document(cfg, lives) ==
    [cfg |-> cfg, life |-> [id \in Connectors |-> IF lives[id] = Absent THEN Absent
                                                  ELSE [lives[id] EXCEPT !.fp = Absent]]]

Acked == legit' = [legit EXCEPT ![adm.id] = {conn[adm.id]}]

\* The persistence callback; a plain save is then acknowledged.
PersistBoth ==
    /\ adm.pc = "persist"
    /\ mixed' = (mixed \/ \E k \in Calls : call[k].pc \in {"copy", "store"})
    /\ \/ /\ connDoc' = Document(adm.cfg, adm.life)
          /\ IF adm.op = "save" THEN adm' = IdleAdmin /\ Acked ELSE Step("read") /\ UNCHANGED legit
       \/ Fail /\ UNCHANGED <<connDoc, legit>>
    /\ UNCHANGED <<conn, life, connFile, lifeFile, useFile, up, call, saves, untracked>>

\* pruneRollbackAutoRevision: the "upgrade" revision the save just recorded
\* for the target goes again.
PruneRevision(revs, m) ==
    LET auto == {i \in DOMAIN revs : revs[i].m = m /\ revs[i].why = "upgrade"} IN
    IF auto = {} THEN revs ELSE RemoveAt(revs, CHOOSE i \in auto : \A j \in auto : j <= i)

\* Upgrade and Rollback, second half: the lifecycle is read again and gets the
\* pending probe and, for a rollback, its revision.
ReadLifecycle ==
    LET m == adm.cfg[adm.id]
        found == life[adm.id] IN
    /\ adm.pc = "read" /\ found # Absent
    /\ adm' = [adm EXCEPT !.pc = "put",
                 !.one = [found EXCEPT !.health = PendingProbe(m),
                            !.revs = IF adm.op = "upgrade" THEN @
                                     ELSE AppendRevision(PruneRevision(@, m), m, "rollback", saves)]]
    /\ UNCHANGED <<conn, life, connFile, lifeFile, connDoc, useFile, up, call, saves, legit, mixed, untracked>>

\* persistLifecycleState under the lock.
PutLifecycle ==
    /\ adm.pc = "put"
    /\ life' = [life EXCEPT ![adm.id] = adm.one]
    /\ adm' = [adm EXCEPT !.pc = "put_file", !.life = life', !.cfg = conn]
    /\ UNCHANGED <<conn, connFile, lifeFile, connDoc, useFile, up, call, saves, legit, mixed, untracked>>

\* persistLifecycleState: the lifecycle file, if there is one.
PutLifeFile ==
    /\ adm.pc = "put_file"
    /\ \/ lifeFile' = (IF useFile THEN adm.life ELSE lifeFile) /\ Step("put_doc")
       \/ useFile /\ Fail /\ UNCHANGED lifeFile
    /\ UNCHANGED <<conn, life, connFile, connDoc, useFile, up, call, saves, legit, mixed, untracked>>

\* persistLifecycleState: the document; the request is acknowledged.
PutDocument ==
    /\ adm.pc = "put_doc"
    /\ \/ connDoc' = Document(adm.cfg, adm.life) /\ Acked
       \/ UNCHANGED <<connDoc, legit>>
    /\ Fail
    /\ UNCHANGED <<conn, life, connFile, lifeFile, useFile, up, call, saves, mixed, untracked>>

-----------------------------------------------------------------------------
(* Runtime calls and health checks. *)

\* prioritizedCapabilityEntries, ValidateRuntimeManifest: only enabled ones.
Eligible == {id \in Connectors : conn[id] # Absent /\ conn[id].on}

\* SelectHealthyRuntimeManifest: what a call that names no connector may get.
Selectable == {id \in Eligible : life[id] # Absent /\ life[id].health.status = "healthy"}

Start(k, id) ==
    /\ up /\ call[k].pc = "idle"
    /\ call' = [call EXCEPT ![k] = [IdleCall EXCEPT !.pc = "run", !.id = id]]
    /\ UNCHANGED <<conn, life, connFile, lifeFile, connDoc, useFile, up, adm, saves, legit, mixed, untracked>>

\* CheckConnectorHealth, InvokeCapability: the connector is named.
CheckConnectorHealth(k, id) == id \in Eligible /\ Start(k, id)

\* QueryMetrics, ExecuteApproved, VerifyExecution without a connector id; with
\* none healthy they go to the fallback provider and record nothing.
UseSelected(k, id) == id \in Selectable /\ Start(k, id)

\* RecordHealth under the lock; a connector that is gone is an error.
RecordHealth(k, status) ==
    LET id == call[k].id IN
    /\ call[k].pc = "run"
    /\ IF life[id] = Absent
       THEN call' = [call EXCEPT ![k] = IdleCall] /\ UNCHANGED life
       ELSE /\ life' = [life EXCEPT ![id].health = [status |-> status, live |-> TRUE]]
            /\ call' = [call EXCEPT ![k].pc = "copy", ![k].life = life']
    /\ UNCHANGED <<conn, connFile, lifeFile, connDoc, useFile, up, adm, saves, legit, mixed, untracked>>

\* RecordHealth: the lifecycle file, then the configuration read again for
\* the document.  An error ends the call with memory changed.
HealthFile(k) ==
    /\ call[k].pc = "copy"
    /\ \/ /\ lifeFile' = IF useFile THEN call[k].life ELSE lifeFile
          /\ call' = [call EXCEPT ![k].pc = "store", ![k].cfg = conn]
       \/ call' = [call EXCEPT ![k] = IdleCall] /\ UNCHANGED lifeFile
    /\ mixed' = (mixed \/ adm.pc # "idle")
    /\ UNCHANGED <<conn, life, connFile, connDoc, useFile, up, adm, saves, legit, untracked>>

HealthDocument(k) ==
    /\ call[k].pc = "store"
    /\ connDoc' \in {connDoc, Document(call[k].cfg, call[k].life)}
    /\ call' = [call EXCEPT ![k] = IdleCall]
    /\ mixed' = (mixed \/ adm.pc # "idle")
    /\ UNCHANGED <<conn, life, connFile, lifeFile, useFile, up, adm, saves, legit, untracked>>

-----------------------------------------------------------------------------
(* Crash and boot. *)

ConnCrash ==
    /\ up
    /\ up' = FALSE
    /\ adm' = IdleAdmin
    /\ call' = [k \in Calls |-> IdleCall]
    /\ UNCHANGED <<conn, life, connFile, lifeFile, connDoc, useFile, saves, legit, mixed, untracked>>

\* Mutant: the stored document is not read.
BootedFromFiles == [cfg |-> connFile, life |-> SyncLifecycle(lifeFile, NoConnectors, connFile, saves)]

\* Reload of the two files, then LoadRuntimeState of a stored document, which
\* takes its lifecycle as it is unless it is empty.
Booted ==
    LET files == [cfg |-> connFile, life |-> SyncLifecycle(lifeFile, NoConnectors, connFile, saves)] IN
    IF connDoc = Absent THEN files
    ELSE IF Installed(connDoc.life) = {}
         THEN [cfg |-> connDoc.cfg, life |-> SyncLifecycle(connDoc.life, NoConnectors, connDoc.cfg, saves)]
         ELSE connDoc

ConnBoot ==
    /\ ~up /\ up' = TRUE
    /\ conn' = Booted.cfg
    /\ life' = Booted.life
    /\ untracked' = untracked \cup {id \in Installed(lifeFile) :
                       connDoc = Absent /\ connFile[id] # Absent /\ connFile[id] # lifeFile[id].fp}
    /\ UNCHANGED <<connFile, lifeFile, connDoc, useFile, adm, call, saves, legit, mixed>>

AdminRequest ==
    \/ SaveConfig
    \/ \E id \in Connectors, m \in Offered : UpsertConnector(id, m) \/ Upgrade(id, m)
    \/ \E id \in Connectors, on \in BOOLEAN : SetConnectorEnabled(id, on)
    \/ \E id \in Connectors, ver \in Versions : Rollback(id, ver)

AdminStep == \/ SyncState \/ WriteConnFile \/ WriteLifeFile \/ SwapBoth \/ PersistBoth
             \/ ReadLifecycle \/ PutLifecycle \/ PutLifeFile \/ PutDocument

CallStep(k) == \/ \E id \in Connectors : CheckConnectorHealth(k, id) \/ UseSelected(k, id)
               \/ \E status \in {"healthy", "unhealthy"} : RecordHealth(k, status)
               \/ HealthFile(k) \/ HealthDocument(k)

ConnNext == \/ AdminRequest \/ AdminStep
            \/ \E k \in Calls : CallStep(k)
            \/ ConnCrash \/ ConnBoot

ConnSpec == ConnInit /\ [][ConnNext]_connVars

-----------------------------------------------------------------------------
(* Properties. *)

\* The registry holds manifests and lifecycles, and never more revisions of a
\* connector than the limit.
ConnTypeOK ==
    /\ conn \in Conf /\ connFile \in Conf
    /\ \A map \in {life, lifeFile} : \A id \in Connectors : map[id] # Absent =>
         /\ map[id].ver \in Versions /\ map[id].on \in BOOLEAN
         /\ map[id].health \in Health /\ map[id].fp \in ConnManifest \cup {Absent}
         /\ Len(map[id].revs) \in 1..MaxRevs
         /\ \A i \in DOMAIN map[id].revs : map[id].revs[i] \in Revision

\* While the server runs the lifecycle agrees with the configuration: it has
\* the same connectors with the same version and switch, whatever health was
\* recorded during a save, whichever write failed and wherever it crashed.
\* RecordHealth may store an old lifecycle with a new configuration (mixed).
LifecycleMatches ==
    (up /\ ~mixed) => \A id \in Connectors :
        IF conn[id] = Absent THEN life[id] = Absent
        ELSE life[id] # Absent /\ life[id].ver = conn[id].ver /\ life[id].on = conn[id].on

\* What every connector is, and what it would be after a crash at any moment,
\* is what the last acknowledged request left or what a request begun since
\* asked for, unless a health record that began before the change was stored
\* after it with the configuration of before (mixed).
ConnectorsKept ==
    ~mixed => \A id \in Connectors : (IF up THEN conn ELSE Booted.cfg)[id] \in legit[id]

\* The content a connector runs with is the newest recorded revision of its
\* version, so that a later rollback to this version restores it; except for a
\* change of content and switch in one request and the first change of content
\* after a boot from the document, which record nothing, and a change that took
\* effect from the file alone (untracked).
RevisionOfCurrent ==
    (up /\ ~mixed /\ adm.pc = "idle") => \A id \in Installed(conn) \ untracked :
        \E i \in DOMAIN life[id].revs :
            /\ life[id].revs[i].m.ver = conn[id].ver
            /\ life[id].revs[i].m.body = conn[id].body
            /\ \A j \in DOMAIN life[id].revs :
                 life[id].revs[j].m.ver = conn[id].ver => life[id].revs[j].at <= life[id].revs[i].at

\* The connector registry keeps acknowledged connectors, with a lifecycle and a
\* revision history that are theirs, while health is recorded beside the edits.
ConnectorsSound == ConnTypeOK /\ ConnectorsKept /\ LifecycleMatches /\ RevisionOfCurrent
=============================================================================
