----------------------------- MODULE Knowledge -----------------------------
(***************************************************************************)
(* What a closed session leaves behind: one document with its chunks and   *)
(* one knowledge record in PostgreSQL, and one row per chunk in the vector *)
(* store, a second database.  Two actors ingest: the dispatcher, for the   *)
(* session_closed events, and an operator's reindex request.  Ingestion    *)
(* reads the session first, then runs one transaction at READ COMMITTED,   *)
(* then replaces the vectors.  The text of a session is its version, the   *)
(* number of changes it has seen; version v makes v chunks, and chunk i of *)
(* a document keeps its identifier in every version.                       *)
(***************************************************************************)
EXTENDS SequencesExt, Integers, Listing

CONSTANTS
    Closed,          \* the sessions that get closed
    MaxVersion,      \* bound: changes to a session
    MaxChanges,      \* bound: changes to all sessions
    MaxReindexes,    \* bound: reindex requests
    MaxIngestFaults, \* bound: failed database or vector store calls, and crashes
    HitLimit,        \* hits a search returns (5 in the code)
    ScanLimit        \* chunks the lexical search reads (200 in the code)

NoSession == "none"

ASSUME KnowledgeAssumption ==
    /\ IsFiniteSet(Closed) /\ NoSession \notin Closed
    /\ MaxVersion \in Nat \ {0} /\ MaxChanges \in Nat /\ MaxReindexes \in Nat /\ MaxIngestFaults \in Nat
    /\ HitLimit \in Nat \ {0} /\ ScanLimit \in Nat \ {0}

VARIABLES
    text,       \* version of each session's content, 0 before it is closed
    closings,   \* session.closed events waiting in the outbox
    failed,     \* session.closed events in the dead letters
    doc,        \* version whose hash the document row holds, 0 without a row
    chunks,     \* the document's chunks, each with the version of its text
    record,     \* version in knowledge_records, 0 without a row
    vectors,    \* rows of the vector store: the version embedded for each chunk
    ingest,     \* what the dispatcher and the reindex request are doing
    docLock, recLock,   \* row locks of the running transactions
    reindexes, ingestFaults,
    closedAt,   \* history: version at the last closing
    raced,      \* history: sessions two actors were ingesting at once
    missed      \* history: sessions whose vectors were not replaced after a commit

knVars == <<text, closings, failed, doc, chunks, record, vectors, ingest, docLock, recLock,
            reindexes, ingestFaults, closedAt, raced, missed>>

Ingesters == {"dispatcher", "reindex"}
Nobody == "nobody"

NoIngest == [pc |-> "idle", s |-> NoSession, v |-> 0, old |-> 0, todo |-> {}]
Busy(a) == ingest[a].pc # "idle"

\* plausible bug: the index is stored instead of the text
ChunksOf_Index(v) == [i \in 1..v |-> i - 1]

ChunksOf(v) == [i \in 1..v |-> v]

KnowledgeTypeOK ==
    /\ text \in [Closed -> 0..MaxVersion] /\ closings \in [Closed -> 0..MaxVersion]
    /\ failed \in [Closed -> 0..MaxVersion]
    /\ doc \in [Closed -> 0..MaxVersion] /\ record \in [Closed -> 0..MaxVersion]
    /\ \A s \in Closed : chunks[s] \in Seq(1..MaxVersion) /\ vectors[s] \in Seq(1..MaxVersion)
    /\ \A a \in Ingesters : /\ ingest[a].pc \in {"idle", "read", "find", "doc", "record", "commit", "vectors"}
                            /\ ingest[a].todo \subseteq Closed
    /\ docLock \in [Closed -> Ingesters \cup {Nobody}] /\ recLock \in [Closed -> Ingesters \cup {Nobody}]
    /\ reindexes \in 0..MaxReindexes /\ ingestFaults \in 0..MaxIngestFaults
    /\ closedAt \in [Closed -> 0..MaxVersion] /\ raced \subseteq Closed /\ missed \subseteq Closed

KnowledgeInit ==
    /\ text = [s \in Closed |-> 0] /\ closings = [s \in Closed |-> 0]
    /\ failed = [s \in Closed |-> 0]
    /\ doc = [s \in Closed |-> 0] /\ chunks = [s \in Closed |-> <<>>]
    /\ record = [s \in Closed |-> 0] /\ vectors = [s \in Closed |-> <<>>]
    /\ ingest = [a \in Ingesters |-> NoIngest]
    /\ docLock = [s \in Closed |-> Nobody] /\ recLock = [s \in Closed |-> Nobody]
    /\ reindexes = 0 /\ ingestFaults = 0 /\ closedAt = [s \in Closed |-> 0] /\ raced = {} /\ missed = {}

stored == <<doc, chunks, record, vectors>>
knHistory == <<closedAt, raced, missed>>

(***************************************************************************)
(* Sessions.  Closing one enqueues session_closed with its last change; a  *)
(* late result, verification or notification changes it again.             *)
(***************************************************************************)
MayChange(s) == text[s] < MaxVersion /\ SumFunction(text) < MaxChanges

CloseSession(s) ==
    /\ MayChange(s)
    /\ text' = [text EXCEPT ![s] = @ + 1] /\ closings' = [closings EXCEPT ![s] = @ + 1]
    /\ closedAt' = [closedAt EXCEPT ![s] = text[s] + 1]
    /\ UNCHANGED <<failed, stored, ingest, docLock, recLock, reindexes, ingestFaults, raced, missed>>

ChangeSession(s) ==
    /\ text[s] > 0 /\ MayChange(s)
    /\ text' = [text EXCEPT ![s] = @ + 1]
    /\ UNCHANGED <<closings, failed, stored, ingest, docLock, recLock, reindexes, ingestFaults, knHistory>>

(***************************************************************************)
(* Ingestion                                                               *)
(***************************************************************************)
DispatchClosed(s) ==
    /\ ~Busy("dispatcher") /\ closings[s] > 0
    /\ closings' = [closings EXCEPT ![s] = @ - 1]
    /\ ingest' = [ingest EXCEPT !["dispatcher"] = [NoIngest EXCEPT !.pc = "read", !.s = s]]
    /\ UNCHANGED <<text, failed, stored, docLock, recLock, reindexes, ingestFaults, knHistory>>

\* an operator replays an event of the dead letters
ReplayClosed(s) ==
    /\ failed[s] > 0
    /\ failed' = [failed EXCEPT ![s] = @ - 1] /\ closings' = [closings EXCEPT ![s] = @ + 1]
    /\ UNCHANGED <<text, stored, ingest, docLock, recLock, reindexes, ingestFaults, knHistory>>

\* every session with a document or a record, in the database's order
ReindexDocuments ==
    LET known == {s \in Closed : doc[s] > 0 \/ record[s] > 0} IN
    /\ ~Busy("reindex") /\ reindexes < MaxReindexes /\ known # {}
    /\ \E s \in known :
           ingest' = [ingest EXCEPT !["reindex"] = [NoIngest EXCEPT !.pc = "read", !.s = s, !.todo = known \ {s}]]
    /\ reindexes' = reindexes + 1
    /\ UNCHANGED <<text, closings, failed, stored, docLock, recLock, ingestFaults, knHistory>>

At(a, pc) == ingest[a].pc = pc
Step(a, changes) == ingest' = [ingest EXCEPT ![a] = changes]

\* GetSession and the artifacts made of it, before the transaction begins
ReadSession(a) ==
    LET s == ingest[a].s IN
    /\ At(a, "read")
    /\ Step(a, [ingest[a] EXCEPT !.pc = "find", !.v = text[s]])
    /\ raced' = IF \E b \in Ingesters \ {a} : Busy(b) /\ ingest[b].s = s THEN raced \cup {s} ELSE raced
    /\ UNCHANGED <<text, closings, failed, stored, docLock, recLock, reindexes, ingestFaults, closedAt, missed>>

FindDocument(a) ==
    /\ At(a, "find")
    /\ Step(a, [ingest[a] EXCEPT !.pc = "doc", !.old = doc[ingest[a].s]])
    /\ UNCHANGED <<text, closings, failed, stored, docLock, recLock, reindexes, ingestFaults, knHistory>>

\* plausible bug: a document is written once
ContentChanged_Once(a) == ingest[a].old = 0

ContentChanged(a) == ingest[a].v # ingest[a].old

\* plausible bug: the transaction is neither committed nor rolled back
Abort_Open(a) ==
    /\ Step(a, NoIngest)
    /\ failed' = IF a = "dispatcher" THEN [failed EXCEPT ![ingest[a].s] = @ + 1] ELSE failed
    /\ UNCHANGED <<closings, docLock, recLock>>

\* plausible bug: the event of a failed ingestion is resolved as done
Abort_Acknowledged(a) ==
    /\ Step(a, NoIngest)
    /\ docLock' = [s \in Closed |-> IF docLock[s] = a THEN Nobody ELSE docLock[s]]
    /\ recLock' = [s \in Closed |-> IF recLock[s] = a THEN Nobody ELSE recLock[s]]
    /\ UNCHANGED <<closings, failed>>

\* what a failed call leaves: the transaction rolled back, the event, which has
\* one attempt, in the dead letters, the rest of a reindex abandoned
Abort(a) ==
    /\ Step(a, NoIngest)
    /\ failed' = IF a = "dispatcher" THEN [failed EXCEPT ![ingest[a].s] = @ + 1] ELSE failed
    /\ closings' = closings
    /\ docLock' = [s \in Closed |-> IF docLock[s] = a THEN Nobody ELSE docLock[s]]
    /\ recLock' = [s \in Closed |-> IF recLock[s] = a THEN Nobody ELSE recLock[s]]

\* update the row, or insert it: a second insert waits for the first and then fails
UpsertDocument(a) ==
    LET s == ingest[a].s IN
    /\ At(a, "doc")
    /\ ContentChanged(a) => docLock[s] = Nobody
    /\ IF ContentChanged(a) /\ ingest[a].old = 0 /\ doc[s] # 0
       THEN Abort(a)
       ELSE /\ docLock' = IF ContentChanged(a) THEN [docLock EXCEPT ![s] = a] ELSE docLock
            /\ Step(a, [ingest[a] EXCEPT !.pc = "record"])
            /\ UNCHANGED <<closings, failed, recLock>>
    /\ UNCHANGED <<text, stored, reindexes, ingestFaults, knHistory>>

UpsertKnowledgeRecord(a) ==
    LET s == ingest[a].s IN
    /\ At(a, "record") /\ recLock[s] = Nobody
    /\ recLock' = [recLock EXCEPT ![s] = a]
    /\ Step(a, [ingest[a] EXCEPT !.pc = "commit"])
    /\ UNCHANGED <<text, closings, failed, stored, docLock, reindexes, ingestFaults, knHistory>>

\* the next session of a reindex, or the end
NextIngest(a) ==
    IF ingest[a].todo = {} THEN {NoIngest}
    ELSE {[NoIngest EXCEPT !.pc = "read", !.s = s, !.todo = ingest[a].todo \ {s}] : s \in ingest[a].todo}

\* plausible bugs: the record is never overwritten, the old chunks are not deleted
Commit_RecordKept(a) ==
    LET s == ingest[a].s IN
    /\ At(a, "commit")
    /\ record' = IF record[s] = 0 THEN [record EXCEPT ![s] = ingest[a].v] ELSE record
    /\ IF ContentChanged(a)
       THEN /\ doc' = [doc EXCEPT ![s] = ingest[a].v]
            /\ chunks' = [chunks EXCEPT ![s] = ChunksOf(ingest[a].v)]
            /\ Step(a, [ingest[a] EXCEPT !.pc = "vectors"])
       ELSE /\ \E next \in NextIngest(a) : Step(a, next)
            /\ UNCHANGED <<doc, chunks>>
    /\ docLock' = [docLock EXCEPT ![s] = IF @ = a THEN Nobody ELSE @]
    /\ recLock' = [recLock EXCEPT ![s] = Nobody]
    /\ UNCHANGED <<text, closings, failed, vectors, reindexes, ingestFaults, knHistory>>

Commit_ChunksAppended(a) ==
    LET s == ingest[a].s IN
    /\ At(a, "commit")
    /\ record' = [record EXCEPT ![s] = ingest[a].v]
    /\ IF ContentChanged(a)
       THEN /\ doc' = [doc EXCEPT ![s] = ingest[a].v]
            /\ chunks' = [chunks EXCEPT ![s] =
                             [i \in 1..ingest[a].v |-> IF i \in DOMAIN @ THEN @[i] ELSE ingest[a].v]]
            /\ Step(a, [ingest[a] EXCEPT !.pc = "vectors"])
       ELSE /\ \E next \in NextIngest(a) : Step(a, next)
            /\ UNCHANGED <<doc, chunks>>
    /\ docLock' = [docLock EXCEPT ![s] = IF @ = a THEN Nobody ELSE @]
    /\ recLock' = [recLock EXCEPT ![s] = Nobody]
    /\ UNCHANGED <<text, closings, failed, vectors, reindexes, ingestFaults, knHistory>>

\* new chunks replace the old ones only when the hash changed, and only then the vectors follow
Commit(a) ==
    LET s == ingest[a].s IN
    /\ At(a, "commit")
    /\ record' = [record EXCEPT ![s] = ingest[a].v]
    /\ IF ContentChanged(a)
       THEN /\ doc' = [doc EXCEPT ![s] = ingest[a].v]
            /\ chunks' = [chunks EXCEPT ![s] = ChunksOf(ingest[a].v)]
            /\ Step(a, [ingest[a] EXCEPT !.pc = "vectors"])
       ELSE /\ \E next \in NextIngest(a) : Step(a, next)
            /\ UNCHANGED <<doc, chunks>>
    /\ docLock' = [docLock EXCEPT ![s] = IF @ = a THEN Nobody ELSE @]
    /\ recLock' = [recLock EXCEPT ![s] = Nobody]
    /\ UNCHANGED <<text, closings, failed, vectors, reindexes, ingestFaults, knHistory>>

\* plausible bug: only the rows that are new are written
ReplaceChunkVectors_NewOnly(a) ==
    LET s == ingest[a].s IN
    /\ At(a, "vectors")
    /\ vectors' = IF vectors[s] = <<>> THEN [vectors EXCEPT ![s] = ChunksOf(ingest[a].v)] ELSE vectors
    /\ \E next \in NextIngest(a) : Step(a, next)
    /\ UNCHANGED <<text, closings, failed, doc, chunks, record, docLock, recLock, reindexes, ingestFaults, knHistory>>

\* one transaction of the vector store
ReplaceChunkVectors(a) ==
    LET s == ingest[a].s IN
    /\ At(a, "vectors")
    /\ vectors' = [vectors EXCEPT ![s] = ChunksOf(ingest[a].v)]
    /\ \E next \in NextIngest(a) : Step(a, next)
    /\ missed' = missed \ {s}
    /\ UNCHANGED <<text, closings, failed, doc, chunks, record, docLock, recLock, reindexes, ingestFaults, closedAt, raced>>

\* a call fails: the error reaches the dispatcher or the operator
IngestFails(a) ==
    /\ Busy(a) /\ ingestFaults < MaxIngestFaults
    /\ ingestFaults' = ingestFaults + 1
    /\ Abort(a)
    /\ missed' = IF At(a, "vectors") THEN missed \cup {ingest[a].s} ELSE missed
    /\ UNCHANGED <<text, stored, reindexes, closedAt, raced>>

\* the process dies: transactions roll back, the claimed event is recovered and
\* delivered once more
IngestCrash ==
    /\ ingestFaults < MaxIngestFaults /\ \E a \in Ingesters : Busy(a)
    /\ ingestFaults' = ingestFaults + 1
    /\ ingest' = [a \in Ingesters |-> NoIngest]
    /\ closings' = [s \in Closed |-> IF ingest["dispatcher"].s = s THEN closings[s] + 1 ELSE closings[s]]
    /\ docLock' = [s \in Closed |-> Nobody] /\ recLock' = [s \in Closed |-> Nobody]
    /\ missed' = missed \cup {ingest[a].s : a \in {b \in Ingesters : At(b, "vectors")}}
    /\ UNCHANGED <<text, failed, stored, reindexes, closedAt, raced>>

IngestStep(a) ==
    \/ ReadSession(a) \/ FindDocument(a) \/ UpsertDocument(a) \/ UpsertKnowledgeRecord(a)
    \/ Commit(a) \/ ReplaceChunkVectors(a)

KnowledgeNext ==
    \/ \E s \in Closed : CloseSession(s) \/ ChangeSession(s) \/ DispatchClosed(s) \/ ReplayClosed(s)
    \/ ReindexDocuments
    \/ \E a \in Ingesters : IngestStep(a) \/ IngestFails(a)
    \/ IngestCrash

\* the dispatcher loop and the request both run until they end
KnowledgeFairness ==
    /\ \A a \in Ingesters : WF_knVars(IngestStep(a))
    /\ WF_knVars(\E s \in Closed : DispatchClosed(s))

KnowledgeSpec == KnowledgeInit /\ [][KnowledgeNext]_knVars /\ KnowledgeFairness

(***************************************************************************)
(* Search: the vector store's ranking, joined with the chunks still in the *)
(* database, then the chunks that contain a term of the query.             *)
(***************************************************************************)
ChunkRows == {row \in Closed \X (1..MaxVersion) : row[2] \in DOMAIN chunks[row[1]]}
VectorRows == {row \in Closed \X (1..MaxVersion) : row[2] \in DOMAIN vectors[row[1]]}

\* the rows of positive score, best first, cut at the limit
Rankings == {r \in UNION {[1..n -> VectorRows] : n \in 0..HitLimit} : IsInjective(r)}

LoadVectorHits(ranked) == Picked(ranked, {i \in DOMAIN ranked : ranked[i] \in ChunkRows})

\* the rows the lexical query returns, in the order of their score: all, or as many
\* as it reads
Scans == LET n == IF Cardinality(ChunkRows) < ScanLimit THEN Cardinality(ChunkRows) ELSE ScanLimit
         IN  {r \in [1..n -> ChunkRows] : IsInjective(r)}

Cut(s) == SubSeq(s, 1, IF Len(s) < HitLimit THEN Len(s) ELSE HitLimit)

\* the best chunks of the sessions the terms of the query name
SearchLexical(scan, named) == Cut(Picked(scan, {i \in DOMAIN scan : scan[i][1] \in named}))

\* plausible bug: hits of both searches are not told apart
MergeKnowledgeHits_Twice(primary, fallback) == Cut(primary \o fallback)

MergeKnowledgeHits(primary, fallback) ==
    Cut(primary \o Picked(fallback, {i \in DOMAIN fallback : fallback[i] \notin Range(primary)}))

\* a query without a term is answered at once, with nothing
Search(ranked, scan, named) ==
    MergeKnowledgeHits(LoadVectorHits(ranked), SearchLexical(scan, named))

(***************************************************************************)
(* Cutting a text into chunks.  A text is the sequence of its paragraphs,  *)
(* a paragraph one of characters, of which only blanks are told apart.     *)
(***************************************************************************)
Blank == 0
Inked(p) == {i \in DOMAIN p : p[i] # Blank}

TrimSpace(p) == IF Inked(p) = {} THEN <<>> ELSE SubSeq(p, Min(Inked(p)), Max(Inked(p)))

\* a paragraph longer than the limit is cut into full pieces and a rest
NumPieces(p, limit) == (Len(p) - 1) \div limit
Pieces(p, limit) == [k \in 1..NumPieces(p, limit) |-> SubSeq(p, (k - 1) * limit + 1, k * limit)]
Remainder(p, limit) == TrimSpace(SubSeq(p, NumPieces(p, limit) * limit + 1, Len(p)))

\* plausible bug: the separator is not counted
AddParagraph_NoSeparator(acc, paragraph, limit) ==
    LET p == TrimSpace(paragraph)
        closes == acc.open # <<>> /\ Len(acc.open) + Len(p) > limit
        open == IF closes THEN <<>> ELSE acc.open
    IN  IF p = <<>> THEN acc
        ELSE [done |-> (IF closes THEN Append(acc.done, acc.open) ELSE acc.done) \o Pieces(p, limit),
              open |-> IF open = <<>> THEN Remainder(p, limit)
                       ELSE open \o <<Blank, Blank>> \o Remainder(p, limit)]

\* the paragraphs gathered in the open chunk are joined by a blank line of two characters
AddParagraph(acc, paragraph, limit) ==
    LET p == TrimSpace(paragraph)
        closes == acc.open # <<>> /\ Len(acc.open) + 2 + Len(p) > limit
        open == IF closes THEN <<>> ELSE acc.open
    IN  IF p = <<>> THEN acc
        ELSE [done |-> (IF closes THEN Append(acc.done, acc.open) ELSE acc.done) \o Pieces(p, limit),
              open |-> IF open = <<>> THEN Remainder(p, limit)
                       ELSE open \o <<Blank, Blank>> \o Remainder(p, limit)]

\* a blank text makes one empty chunk
ChunkText(paragraphs, limit) ==
    LET end == FoldLeft(LAMBDA acc, p : AddParagraph(acc, p, limit), [done |-> <<>>, open |-> <<>>], paragraphs)
        cut == IF end.open # <<>> THEN Append(end.done, end.open) ELSE end.done
    IN  IF cut = <<>> THEN << <<>> >> ELSE cut

(***************************************************************************)
(* Properties                                                              *)
(***************************************************************************)
Settled(s) == /\ \A a \in Ingesters : ingest[a].s # s
              /\ closings[s] = 0

\* The chunks a search reads are those of the hash the document row holds,
\* whatever transactions of the two ingesters overlapped (replaceChunks).
ChunksOfDocument == \A s \in Closed : chunks[s] = ChunksOf(doc[s])

\* Record and document come from one reading of the session, unless the
\* dispatcher and a reindex worked on the session at the same time.
RecordMatchesDocument ==
    \A s \in Closed : Settled(s) /\ s \notin raced => record[s] = doc[s]

\* Once no event of a session waits, its document is at least as recent as its
\* last closing, or an event is in the dead letters and can be replayed: no
\* failure and no crash loses a closing in silence.  An overlapping reindex may
\* commit an older reading last.
LatestIngested ==
    \A s \in Closed : Settled(s) /\ s \notin raced /\ doc[s] < closedAt[s] => failed[s] > 0

\* The vector store follows the chunks, except where a call to it failed after
\* the commit (a replay finds the hash unchanged and leaves the vectors alone, and
\* so does every later reindex) or two ingestions overlapped.
VectorsFollow ==
    \A s \in Closed : Settled(s) /\ s \notin raced \cup missed => vectors[s] = chunks[s]

\* A search never names a chunk twice or one that is gone, returns at most
\* HitLimit, and leaves a vector hit that still exists, or a matching chunk among
\* those it read, out only for lack of room.
SearchSound ==
    \A ranked \in Rankings, scan \in Scans, named \in SUBSET Closed :
        LET hits == Search(ranked, scan, named) IN
        /\ IsInjective(hits) /\ Range(hits) \subseteq ChunkRows /\ Len(hits) <= HitLimit
        /\ (Range(ranked) \cap ChunkRows) \subseteq Range(hits)
        /\ Len(hits) < HitLimit => {row \in Range(scan) : row[1] \in named} \subseteq Range(hits)

\* No chunk is longer than the limit, none is empty but the one of a blank text,
\* and chunkText drops and reorders nothing but blanks, wherever it trims and cuts.
\* It speaks of texts only and is evaluated where every event still waits.
ChunkTextFits ==
    SumFunction(closings) = MaxChanges =>
        \A limit \in {2, 3, 7}, n \in 0..3 :
        \A inked \in [1..n -> UNION {[1..len -> BOOLEAN] : len \in 0..(9 - 2 * n)}] :
            LET paragraphs == [i \in 1..n |-> [j \in DOMAIN inked[i] |-> IF inked[i][j] THEN 10 * i + j ELSE Blank]]
                cut == ChunkText(paragraphs, limit)
                ink(parts) == SelectSeq(FlattenSeq(parts), LAMBDA c : c # Blank)
            IN  /\ ink(cut) = ink(paragraphs)
                /\ \A i \in DOMAIN cut : Len(cut[i]) <= limit /\ (cut[i] = <<>> => ink(paragraphs) = <<>>)

\* Every session.closed event is worked off and leaves a document, or shows
\* itself in the dead letters.
ClosedIsIngested == \A s \in Closed : (closings[s] > 0) ~> (closings[s] = 0 /\ (doc[s] > 0 \/ failed[s] > 0))

\* Document, chunks, record and vectors of a session tell the same story, the
\* latest one.
IngestSound == KnowledgeTypeOK /\ ChunksOfDocument /\ LatestIngested /\ RecordMatchesDocument /\ VectorsFollow

\* So it is with what is stored of a session, and a search over it neither
\* repeats nor invents a chunk.
KnowledgeSound == IngestSound /\ SearchSound
=============================================================================
