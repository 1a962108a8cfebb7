------------------------------- MODULE Skills -------------------------------
(***************************************************************************)
(* The skill registry (internal/modules/skills).  Skills live in memory    *)
(* and, when a configuration path is set, in two files: the manifests and  *)
(* the lifecycle.  A request copies the configuration, derives the         *)
(* lifecycle, writes both files, swaps both in memory and then corrects    *)
(* the lifecycle of the one skill it is about.  Every lock region is a     *)
(* step; several operators work at once.                                   *)
(***************************************************************************)
EXTENDS Naturals, Sequences, FiniteSets

CONSTANTS SkillIds,      \* skill ids
          Texts,         \* contents of a manifest
          Uploads,       \* manifests operators submit
          Operators,     \* concurrent operator requests
          MaxRequests,   \* bound on requests
          MaxSkillRevs,  \* revisions kept, 20 in the code
          NoSkill

Manifest == [text: Texts, on: BOOLEAN]
SkillStatuses == {"active", "disabled", "draft"}
SkillLifecycle == [on: BOOLEAN, status: SkillStatuses, review: {"pending", "approved"}, revs: Seq(Manifest)]

ASSUME SkillsAssumption == /\ Uploads \subseteq Manifest
                           /\ MaxRequests \in Nat
                           /\ MaxSkillRevs \in Nat \ {0, 1}
                           /\ NoSkill \notin Manifest \cup SkillLifecycle

VARIABLES skills,     \* Manager.config
          slife,      \* Manager.state
          skillFile,  \* the skills the configuration file parses to
          slifeFile,  \* the lifecycle file
          hasPath,    \* a configuration path is set
          sup,        \* the process runs
          sreq,       \* request of every operator
          requests,   \* requests begun
          slegit,     \* history: what every skill may legitimately be
          sraced,     \* history: two requests overlapped
          wiped,      \* history: the configuration file holds no configuration
          off         \* history: skills last disabled by an acknowledged request

skillVars == <<skills, slife, skillFile, slifeFile, hasPath, sup, sreq, requests, slegit, sraced, wiped, off>>
skillStores == <<skills, slife, skillFile, slifeFile, hasPath, sup, wiped>>

NoSkills == [s \in SkillIds |-> NoSkill]
SkillsIn(c) == {s \in SkillIds : c[s] # NoSkill}

SkillPcs == {"idle", "target", "sync", "file", "state", "swap", "get", "put",
             "validate", "imported", "store"}
NoRequest == [pc |-> "idle", op |-> "upsert", id |-> CHOOSE s \in SkillIds : TRUE, cfg |-> NoSkills,
              life |-> NoSkills, one |-> NoSkill, status |-> "keep"]

SkillsInit == /\ hasPath \in BOOLEAN
              /\ skills = NoSkills /\ slife = NoSkills
              /\ skillFile = NoSkills /\ slifeFile = NoSkills
              /\ sup = TRUE
              /\ sreq = [o \in Operators |-> NoRequest]
              /\ requests = 0
              /\ slegit = [s \in SkillIds |-> {NoSkill}]
              /\ sraced = FALSE /\ wiped = FALSE
              /\ off = {}

-----------------------------------------------------------------------------
(* Lifecycle derived from the configuration. *)

\* manifestSignature normalises the manifest again, which stamps the
\* compatibility report with the current time: two signatures never agree.
SameSignature(m, n) == FALSE

\* Mutant: the limit is forgotten.
AppendSkillRevisionUncut(revs, m) == Append(revs, m)

\* appendRevision keeps the newest MaxSkillRevs.
AppendSkillRevision(revs, m) ==
    LET all == Append(revs, m) IN
    IF Len(all) > MaxSkillRevs THEN Tail(all) ELSE all

\* syncLifecycleState of one skill: a new one is installed; one that was
\* configured before gets a revision when its signature differs.
SyncSkill(old, prev, m) ==
    IF old = NoSkill
    THEN [on |-> m.on, status |-> IF m.on THEN "active" ELSE "disabled", review |-> "pending",
          revs |-> AppendSkillRevision(<<>>, m)]
    ELSE [old EXCEPT !.on = m.on,
                     !.revs = IF prev # NoSkill /\ ~SameSignature(prev, m)
                              THEN AppendSkillRevision(@, m) ELSE @]

\* syncLifecycleState: the lifecycle of a skill that is gone stays.
SyncSkills(state, prev, cfg) ==
    [s \in SkillIds |-> IF cfg[s] = NoSkill THEN state[s] ELSE SyncSkill(state[s], prev[s], cfg[s])]

-----------------------------------------------------------------------------
(* Requests. *)

SkillPhase(o) == sreq[o].pc \in {"target", "sync", "file", "state", "swap", "get", "put"}
Overlapped(o) == sraced' = (sraced \/ \E p \in Operators \ {o} : SkillPhase(p))

\* A request of operator o for skill id that will save cfg.
BeginSave(o, op, id, cfg, status) ==
    /\ sreq' = [sreq EXCEPT ![o] = [NoRequest EXCEPT !.pc = "sync", !.op = op, !.id = id, !.cfg = cfg,
                                                     !.life = slife, !.status = status]]
    /\ slegit' = [slegit EXCEPT ![id] = @ \cup {cfg[id]}]
    /\ off' = IF cfg[id] # NoSkill /\ cfg[id].on THEN off \ {id} ELSE off
    /\ Overlapped(o)

Requesting(o) == /\ sup /\ sreq[o].pc = "idle"
                 /\ requests < MaxRequests /\ requests' = requests + 1

\* skillDetailHandler PUT and skillsImportHandler: Upsert; an import is a draft.
UpsertSkill(o, id, m, status) ==
    /\ Requesting(o)
    /\ BeginSave(o, "upsert", id, [skills EXCEPT ![id] = m], status)
    /\ UNCHANGED skillStores

\* skillEnableHandler: SetEnabled of a configured skill.
SetSkillEnabled(o, id, on) ==
    /\ Requesting(o)
    /\ skills[id] # NoSkill
    /\ BeginSave(o, "enable", id, [skills EXCEPT ![id].on = on], IF on THEN "active" ELSE "disabled")
    /\ UNCHANGED skillStores

\* skillDetailHandler DELETE: Delete, refused without a path.  What is written
\* to the configuration file is a note with the reason, which parses to no
\* skills at all.
DeleteSkill(o, id) ==
    /\ Requesting(o)
    /\ hasPath /\ skills[id] # NoSkill
    /\ BeginSave(o, "delete", id, [skills EXCEPT ![id] = NoSkill], "keep")
    /\ UNCHANGED skillStores

\* skillPromoteHandler: Promote changes the lifecycle alone.
PromoteSkill(o, id) ==
    /\ Requesting(o)
    /\ skills[id] # NoSkill
    /\ sreq' = [sreq EXCEPT ![o] = [NoRequest EXCEPT !.pc = "get", !.op = "promote", !.id = id,
                                                     !.status = "active"]]
    /\ off' = off \ {id}
    /\ Overlapped(o)
    /\ UNCHANGED <<skillStores, slegit>>

\* Rollback goes to the nearest earlier revision, the newest one excluded,
\* whose signature differs from that of the current manifest.
SkillRollbackTarget(id) ==
    LET revs == slife[id].revs
        hits == {i \in 1 .. Len(revs) - 1 : ~SameSignature(revs[i], skills[id])} IN
    IF hits = {} THEN NoSkill ELSE revs[CHOOSE i \in hits : \A j \in hits : j <= i]

\* skillRollbackHandler: Rollback gets the skill and its lifecycle and picks the
\* target (the signatures never agree, so of the skill only its presence counts).
RollbackSkill(o, id) ==
    /\ Requesting(o)
    /\ skills[id] # NoSkill /\ slife[id] # NoSkill
    /\ SkillRollbackTarget(id) # NoSkill
    /\ sreq' = [sreq EXCEPT ![o] = [NoRequest EXCEPT !.pc = "target", !.op = "rollback", !.id = id,
                                                     !.cfg = [NoSkills EXCEPT ![id] = SkillRollbackTarget(id)],
                                                     !.status = slife[id].status]]
    /\ Overlapped(o)
    /\ UNCHANGED <<skillStores, slegit, off>>

\* Its Upsert of the target copies the configuration of that moment.
UpsertTarget(o) ==
    LET r == sreq[o] IN
    /\ r.pc = "target"
    /\ BeginSave(o, "rollback", r.id, [skills EXCEPT ![r.id] = r.cfg[r.id]], r.status)
    /\ UNCHANGED <<skillStores, requests>>

\* saveConfigAndState: the lifecycle is computed from what is in memory now.
\* Without a path Upsert uses the state it copied and SetEnabled none.
SyncRequest(o) ==
    LET r == sreq[o] IN
    /\ r.pc = "sync"
    /\ sreq' = [sreq EXCEPT ![o].pc = IF hasPath THEN "file" ELSE "swap",
                            ![o].life = IF hasPath THEN SyncSkills(slife, skills, r.cfg)
                                        ELSE IF r.op = "enable" THEN slife
                                        ELSE SyncSkills(r.life, skills, r.cfg)]
    /\ UNCHANGED <<skillStores, requests, slegit, sraced, off>>

NextPc(o, pc) == sreq' = [sreq EXCEPT ![o].pc = pc]
GiveUp(o) == sreq' = [sreq EXCEPT ![o] = NoRequest]

\* writeFileAtomically of the configuration.
WriteSkillFile(o) ==
    /\ sreq[o].pc = "file"
    /\ \/ /\ skillFile' = IF sreq[o].op = "delete" THEN NoSkills ELSE sreq[o].cfg
          /\ wiped' = (sreq[o].op = "delete")
          /\ NextPc(o, "state")
       \/ GiveUp(o) /\ UNCHANGED <<skillFile, wiped>>
    /\ UNCHANGED <<skills, slife, slifeFile, hasPath, sup, requests, slegit, sraced, off>>

\* saveLifecycleStateFile.
WriteSkillState(o) ==
    /\ sreq[o].pc = "state"
    /\ \/ slifeFile' = sreq[o].life /\ NextPc(o, "swap")
       \/ GiveUp(o) /\ UNCHANGED slifeFile
    /\ UNCHANGED <<skills, slife, skillFile, hasPath, sup, requests, slegit, sraced, wiped, off>>

\* Mutant: the lifecycle is not swapped in.
SwapSkillsOnly(o) ==
    /\ sreq[o].pc = "swap"
    /\ skills' = sreq[o].cfg
    /\ NextPc(o, "get")
    /\ UNCHANGED <<slife, slegit, skillFile, slifeFile, hasPath, sup, requests, sraced, wiped, off>>

\* Both pointers under the lock; SetEnabled without a path leaves the state.
SwapSkills(o) ==
    LET r == sreq[o] IN
    /\ r.pc = "swap"
    /\ skills' = r.cfg
    /\ slife' = IF r.op = "enable" /\ ~hasPath THEN slife ELSE r.life
    /\ IF r.op = "delete"
       THEN GiveUp(o) /\ slegit' = [slegit EXCEPT ![r.id] = {NoSkill}]
       ELSE NextPc(o, "get") /\ UNCHANGED slegit
    /\ UNCHANGED <<skillFile, slifeFile, hasPath, sup, requests, sraced, wiped, off>>

\* Mutant: the switch of the lifecycle is left to syncLifecycleState.
GetSkillLifeStatusOnly(o) ==
    LET r == sreq[o] IN
    /\ r.pc = "get" /\ slife[r.id] # NoSkill
    /\ sreq' = [sreq EXCEPT ![o].pc = "put", ![o].one =
                  IF r.status = "keep" THEN slife[r.id] ELSE [slife[r.id] EXCEPT !.status = r.status]]
    /\ UNCHANGED <<skillStores, requests, slegit, sraced, off>>

\* GetLifecycle and what the operation sets in the copy.
GetSkillLife(o) ==
    LET r == sreq[o]
        found == slife[r.id]
        status == IF r.status = "keep" THEN found.status ELSE r.status IN
    /\ r.pc = "get"
    /\ IF found = NoSkill THEN GiveUp(o)
       ELSE sreq' = [sreq EXCEPT ![o].pc = "put", ![o].one =
              CASE r.op = "publish" -> found
                [] r.op = "promote" -> [found EXCEPT !.status = "active", !.on = TRUE, !.review = "approved"]
                [] r.op = "enable"  -> [found EXCEPT !.status = status, !.on = (status = "active")]
                [] OTHER            -> [found EXCEPT !.status = status]]
    /\ UNCHANGED <<skillStores, requests, slegit, sraced, off>>

\* What follows an acknowledged change; an import goes on in Extensions.
AfterPut(r) == CASE r.op = "rollback" -> [r EXCEPT !.pc = "get", !.op = "publish"]
                 [] r.op = "import" -> [r EXCEPT !.pc = "imported"]
                 [] OTHER -> NoRequest

\* persistLifecycleState: memory and the lifecycle file under one lock.
PutSkillLife(o) ==
    LET r == sreq[o] IN
    /\ r.pc = "put"
    /\ slife' = [slife EXCEPT ![r.id] = r.one]
    /\ \/ /\ slifeFile' = IF hasPath THEN slife' ELSE slifeFile
          /\ sreq' = [sreq EXCEPT ![o] = AfterPut(r)]
          /\ slegit' = IF r.op \in {"promote", "publish"} THEN slegit
                       ELSE [slegit EXCEPT ![r.id] = {r.cfg[r.id]}]
          /\ off' = IF r.op = "enable" /\ r.status = "disabled" THEN off \cup {r.id} ELSE off
       \/ hasPath /\ GiveUp(o) /\ UNCHANGED <<slifeFile, slegit, off>>
    /\ UNCHANGED <<skills, skillFile, hasPath, sup, requests, sraced, wiped>>

SkillStep(o) == \/ UpsertTarget(o) \/ SyncRequest(o) \/ WriteSkillFile(o) \/ WriteSkillState(o) \/ SwapSkills(o)
                \/ GetSkillLife(o) \/ PutSkillLife(o)

-----------------------------------------------------------------------------
(* The planner's view, crash and boot. *)

\* PlannerDescriptors: enabled skills are offered to the planner.
PlannerDescriptors == {s \in SkillsIn(skills) : slife[s] # NoSkill /\ slife[s].on}

SkillsCrash == /\ sup /\ sup' = FALSE
               /\ sreq' = [o \in Operators |-> NoRequest]
               /\ UNCHANGED <<skills, slife, skillFile, slifeFile, hasPath, requests, slegit, sraced, wiped, off>>

\* Reload: what the two files say; without a path the marketplace packages
\* (none here) are loaded.
ReloadedSkills == IF hasPath THEN skillFile ELSE NoSkills
ReloadedLife == SyncSkills(IF hasPath THEN slifeFile ELSE NoSkills, NoSkills, ReloadedSkills)

SkillsBoot == /\ ~sup /\ sup' = TRUE
              /\ skills' = ReloadedSkills
              /\ slife' = ReloadedLife
              /\ slegit' = IF hasPath /\ ~wiped THEN slegit ELSE [s \in SkillIds |-> {skills'[s]}]
              /\ UNCHANGED <<skillFile, slifeFile, hasPath, sreq, requests, sraced, wiped, off>>

SkillRequest(o) ==
    \E id \in SkillIds :
        \/ \E m \in Uploads, status \in {"keep", "draft"} : UpsertSkill(o, id, m, status)
        \/ \E on \in BOOLEAN : SetSkillEnabled(o, id, on)
        \/ DeleteSkill(o, id) \/ PromoteSkill(o, id) \/ RollbackSkill(o, id)

SkillsNext == (\E o \in Operators : SkillRequest(o) \/ SkillStep(o)) \/ SkillsCrash \/ SkillsBoot
SkillsSpec == SkillsInit /\ [][SkillsNext]_skillVars

-----------------------------------------------------------------------------
(* Properties. *)

\* Manifests and lifecycles have their types, in memory, in the files and in
\* every request, and no skill keeps more revisions than the limit.
SkillsTypeOK ==
    /\ {skills, skillFile} \subseteq [SkillIds -> Manifest \cup {NoSkill}]
    /\ \A map \in {slife, slifeFile} \cup {sreq[o].life : o \in Operators} : \A s \in SkillIds :
         map[s] # NoSkill => /\ map[s] \in SkillLifecycle
                             /\ Len(map[s].revs) \in 1 .. MaxSkillRevs
    /\ \A o \in Operators : sreq[o].pc \in SkillPcs

\* A skill the server runs with, or would run with after a crash at any moment,
\* is what the last acknowledged request left or what a request begun since
\* asked for, and it always has a lifecycle.  Exceptions: overlapping requests,
\* a start without a configuration path, and one after a deletion left its note
\* in place of the configuration (wiped): then every skill is lost.
SkillsKept ==
    (~sraced /\ (sup \/ (hasPath /\ ~wiped))) =>
        LET now == IF sup THEN skills ELSE ReloadedSkills
            life == IF sup THEN slife ELSE ReloadedLife IN
        \A s \in SkillIds : now[s] \in slegit[s] /\ (now[s] # NoSkill => life[s] # NoSkill)

\* A skill that an acknowledged request disabled is not offered to the planner
\* until somebody enables, promotes, rolls back or replaces it: neither another
\* skill's save nor a crash brings it back.
DisabledNotOffered == (sup /\ ~sraced) => PlannerDescriptors \cap off = {}

\* The skill registry keeps acknowledged skills and offers no disabled one.
SkillsSound == SkillsTypeOK /\ SkillsKept /\ DisabledNotOffered
=============================================================================
