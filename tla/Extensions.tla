----------------------------- MODULE Extensions -----------------------------
(***************************************************************************)
(* Extension candidates (internal/modules/extensions): generated bundles   *)
(* that an operator validates, reviews and imports as a skill.  Every      *)
(* operation copies the candidate, changes the copy and stores it later,   *)
(* in memory and then in the state file, under the lock only while it      *)
(* stores.  An import is a validation, an Upsert of the skill registry and *)
(* a second store.                                                         *)
(***************************************************************************)
EXTENDS Skills

CONSTANTS Candidates,  \* candidate ids, uuids in the code
          Bundled,     \* the skill and the manifest every candidate carries
          MaxOperations, \* bound on candidate operations
          NoCandidate

VARIABLES cands,     \* Manager.candidates
          candFile,  \* the state file
          creq,      \* candidate operation of every operator
          verdict,   \* history: the last review of every candidate that took effect
          cstale     \* history: two operations on one candidate overlapped

extVars == <<cands, candFile, creq, verdict, cstale>>

\* Candidate.  A bundle that normalizeBundle accepts is always valid, so the
\* validation report and the status "invalid" do not appear.
Candidate == [status: {"validated", "imported"},
              review: {"pending", "changes_requested", "approved", "rejected", "imported"}]

ASSUME ExtensionsAssumption == MaxOperations \in Nat /\ NoCandidate \notin Candidate

Reviews == {"pending", "changes_requested", "approved", "rejected"}
NoOperation == [pc |-> "idle", op |-> "validate", c |-> NoCandidate, copy |-> NoCandidate]

ExtInit == /\ cands = [c \in Candidates |-> NoCandidate]
           /\ candFile = cands
           /\ creq = [o \in Operators |-> NoOperation]
           /\ verdict = [c \in Candidates |-> "pending"]
           /\ cstale = FALSE

Begin(o) == /\ sup /\ sreq[o].pc = "idle" /\ creq[o].pc = "idle"
            /\ requests < MaxOperations /\ requests' = requests + 1
Others == <<skillStores, sreq, slegit, sraced, off>>

\* persistCandidate: memory, then the file; both under the lock.
PersistCandidate(c, record, ok) ==
    /\ cands' = [cands EXCEPT ![c] = record]
    /\ candFile' = IF hasPath /\ ok THEN cands' ELSE candFile
    /\ hasPath \/ ok

\* extensionsListHandler POST: Generate.
Generate(o, c) ==
    /\ Begin(o) /\ cands[c] = NoCandidate
    /\ \E ok \in BOOLEAN : PersistCandidate(c, [status |-> "validated", review |-> "pending"], ok)
    /\ UNCHANGED <<creq, verdict, cstale, Others>>

\* Get of the candidate at the beginning of an operation.
CopyCandidate(o, c, op) ==
    /\ Begin(o) /\ cands[c] # NoCandidate
    /\ creq' = [creq EXCEPT ![o] = [pc |-> "persist", op |-> op, c |-> c, copy |-> cands[c]]]
    /\ cstale' = (cstale \/ \E p \in Operators \ {o} : creq[p].c = c)
    /\ UNCHANGED <<cands, candFile, verdict, Others>>

\* extensionValidateCandidateHandler: ValidateCandidate.
ValidateCandidate(o, c) == CopyCandidate(o, c, "validate")

\* extensionReviewHandler, extensionReviewCandidateHandler: ReviewCandidate
\* refuses a candidate that was imported.
ReviewCandidate(o, c, review) ==
    /\ cands[c] # NoCandidate /\ cands[c].status # "imported"
    /\ CopyCandidate(o, c, review)

\* extensionImportHandler, extensionImportCandidateHandler: ImportCandidate.
ImportCandidate(o, c) == CopyCandidate(o, c, "import")

\* Mutant: every operation records itself as a review.
StoreCopyReviewed(o) ==
    LET r == creq[o] IN
    /\ r.pc = "persist"
    /\ PersistCandidate(r.c, [r.copy EXCEPT !.review = r.op], TRUE)
    /\ creq' = [creq EXCEPT ![o] = NoOperation]
    /\ UNCHANGED <<verdict, cstale, skillVars>>

\* Mutant: the review state is not asked before the import.
StoreCopyUnchecked(o) ==
    LET r == creq[o]
        record == IF r.op \in Reviews THEN [r.copy EXCEPT !.review = r.op] ELSE r.copy IN
    /\ r.pc = "persist"
    /\ PersistCandidate(r.c, record, TRUE)
    /\ creq' = [creq EXCEPT ![o] = IF r.op = "import" THEN [r EXCEPT !.pc = "upsert"] ELSE NoOperation]
    /\ verdict' = IF r.op \in Reviews THEN [verdict EXCEPT ![r.c] = r.op] ELSE verdict
    /\ UNCHANGED <<cstale, skillVars>>

\* The copy is stored: revalidated (an imported candidate keeps its status) or
\* with the new review.  A failed write is an error with memory changed.
StoreCopy(o) ==
    LET r == creq[o]
        record == IF r.op \in Reviews THEN [r.copy EXCEPT !.review = r.op] ELSE r.copy IN
    /\ r.pc = "persist"
    /\ \E ok \in BOOLEAN :
         /\ PersistCandidate(r.c, record, ok)
         /\ creq' = [creq EXCEPT ![o] = IF ok /\ r.op = "import" /\ record.review = "approved"
                                        THEN [r EXCEPT !.pc = "upsert"] ELSE NoOperation]
         /\ verdict' = IF r.op \in Reviews /\ (ok \/ r.op = "approved")
                       THEN [verdict EXCEPT ![r.c] = r.op] ELSE verdict
    /\ UNCHANGED <<cstale, skillVars>>

\* ImportCandidate: the skill registry's Upsert of the bundled skill, a draft.
ImportUpsert(o) ==
    LET b == Bundled[creq[o].c] IN
    /\ creq[o].pc = "upsert"
    /\ BeginSave(o, "import", b.id, [skills EXCEPT ![b.id] = b.m], "draft")
    /\ creq' = [creq EXCEPT ![o].pc = "wait"]
    /\ UNCHANGED <<cands, candFile, verdict, cstale, skillStores, requests>>

\* ImportCandidate after the Upsert: stored as imported, or given up.
ImportFinish(o) ==
    LET r == creq[o] IN
    /\ r.pc = "wait" /\ sreq[o].pc \in {"idle", "imported"}
    /\ IF sreq[o].pc = "imported"
       THEN \E ok \in BOOLEAN : PersistCandidate(r.c, [status |-> "imported", review |-> "imported"], ok)
       ELSE UNCHANGED <<cands, candFile>>
    /\ creq' = [creq EXCEPT ![o] = NoOperation]
    /\ sreq' = [sreq EXCEPT ![o] = NoRequest]
    /\ UNCHANGED <<verdict, cstale, skillStores, requests, slegit, sraced, off>>

\* The process stops and Reload reads the state file.
ExtCrash == /\ SkillsCrash
            /\ creq' = [o \in Operators |-> NoOperation]
            /\ UNCHANGED <<cands, candFile, verdict, cstale>>
ExtBoot == /\ SkillsBoot
           /\ cands' = candFile
           /\ UNCHANGED <<candFile, creq, verdict, cstale>>

ExtOperation(o) == \/ \E c \in Candidates : \/ Generate(o, c) \/ ValidateCandidate(o, c) \/ ImportCandidate(o, c)
                                            \/ \E review \in Reviews : ReviewCandidate(o, c, review)
                   \/ StoreCopy(o) \/ ImportUpsert(o) \/ ImportFinish(o)

\* Operators that edit skills directly are in Skills; here the registry gets
\* the imports.
ExtNext == (\E o \in Operators : ExtOperation(o) \/ (SkillStep(o) /\ UNCHANGED extVars)) \/ ExtCrash \/ ExtBoot
ExtSpec == SkillsInit /\ ExtInit /\ [][ExtNext]_<<skillVars, extVars>>

-----------------------------------------------------------------------------
(* Properties. *)

\* Candidates have their type in memory and in the file.
ExtTypeOK == \A map \in {cands, candFile} : \A c \in Candidates :
    map[c] \in Candidate \cup {NoCandidate}

\* "extension candidate must be approved before import": a skill is imported
\* only while the last review of its candidate that took effect is an approval,
\* through failing writes, crashes and restarts, as long as no two operations
\* on the candidate overlap (a stale copy undoes a rejection).
ImportsApproved == ~cstale => \A o \in Operators :
    creq[o].pc \in {"upsert", "wait"} => verdict[creq[o].c] = "approved"

\* Only candidates whose approval is in force are imported.
ImportsSound == ExtTypeOK /\ ImportsApproved
=============================================================================
