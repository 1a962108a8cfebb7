------------------------------ MODULE Signals ------------------------------
(***************************************************************************)
(* The observability store keeps the records of a signal (logs or events)  *)
(* in an active file and one rotated file per earlier day.  A writer       *)
(* stamps its record before it takes the lock; under the lock it rotates   *)
(* the active file when the day has changed, appends, and now and then     *)
(* trims the files by age and size.  Any of these writes may fail, or be   *)
(* cut off by a crash, part of the way.  A query lists the files under the *)
(* lock and reads them, one after the other, after it.  Time is counted in *)
(* ticks, TicksPerDay of them a day; a record has size 1.  The third       *)
(* signal, the snapshots of metrics, is left out.                          *)
(***************************************************************************)
EXTENDS Integers, Sequences, FiniteSets, Functions, Listing

CONSTANTS Writers,      \* goroutines that write to the signal or trim it
          TicksPerDay,
          MaxClock,     \* bound on time
          MaxWrites,    \* bound on records
          MaxMishaps,   \* bound on crashes and failed writes
          Retention,    \* age in ticks up to which records are kept
          MaxRecords,   \* MaxSizeBytes in records
          Limit,        \* limit of a query
          Nobody

ASSUME SignalsAssumption == /\ TicksPerDay \in Nat \ {0} /\ MaxClock \in Nat
                            /\ MaxWrites \in Nat \ {0} /\ MaxMishaps \in Nat /\ Retention \in Nat
                            /\ MaxRecords \in Nat \ {0} /\ Limit \in Nat \ {0}
                            /\ Nobody \notin Writers

VARIABLES clock,
          files,      \* content of every file, in the order of their names
          activeDay,  \* activeDays: the day of the active file, Unknown after a start
          counted,    \* signalCounts
          lock,       \* holder of the mutex
          wr,         \* the writers
          nextID,     \* counter of record ids
          ragged,     \* the files that end in a part of a line
          query,      \* a query: files it has yet to read, what it has found, and how
                      \* many records of the active file it has seen
          mishaps, stamped,  \* bounds
          written,    \* history: records whose append was reported as done
          late,       \* history: a record was appended after a younger one, or to the
                      \* file of a later day
          doubled,    \* history: a rotation was cut off between copy and removal
          torn,       \* history: the writing of a file was cut off
          stale,      \* history: the counts were not brought up to date
          missed      \* history: a query did not return the newest records

signalVars == <<clock, files, activeDay, counted, lock, wr, nextID, ragged, query, mishaps, stamped,
                written, late, doubled, torn, stale, missed>>

Day(ts) == ts \div TicksPerDay
LastDay == Day(MaxClock)
Active == LastDay + 1        \* runtime.jsonl sorts after runtime-<day>.jsonl
Files == 0 .. Active
Unknown == LastDay + 1       \* no day

Record == [ts: 0 .. MaxClock, n: 0 .. MaxWrites, tag: 1 .. MaxWrites]
IDOf(r) == <<r.ts, r.n>>
NoRecord == [ts |-> 0, n |-> 0, tag |-> 1]

Older(r, s) == r.ts < s.ts
Stored(fs) == UNION {Range(fs[f]) : f \in Files}
OnDisk == Stored(files)

\* The places of the records.
Places(fs) == UNION {{f} \X DOMAIN fs[f] : f \in Files}
RecordAt(p) == files[p[1]][p[2]]
Total(fs) == Cardinality(Places(fs))

NoQuery == [todo |-> {}, got |-> {}, seen |-> 0]

SignalsInit == /\ clock = 0
               /\ files = [f \in Files |-> <<>>] /\ ragged = {}
               /\ activeDay = Unknown /\ counted = 0
               /\ lock = Nobody
               /\ wr = [w \in Writers |-> [pc |-> "idle", rec |-> NoRecord]]
               /\ nextID = 0 /\ query = NoQuery
               /\ mishaps = 0 /\ stamped = 0
               /\ written = {} /\ late = FALSE /\ doubled = FALSE
               /\ torn = FALSE /\ stale = FALSE /\ missed = FALSE

-----------------------------------------------------------------------------
(* Writing. *)

Proceed(w, pc) == wr' = [wr EXCEPT ![w].pc = pc]
Unlock(w) == lock' = Nobody /\ wr' = [wr EXCEPT ![w] = [pc |-> "idle", rec |-> NoRecord]]

\* A query that is under way when files are moved or rewritten is not followed
\* any further: it may find a file truncated, miss a new one or read records twice.
StopFollowing == query' = IF files' = files THEN query ELSE NoQuery

Tick == /\ clock < MaxClock /\ clock' = clock + 1
        /\ UNCHANGED <<files, activeDay, counted, lock, wr, nextID, ragged, query, mishaps, stamped,
                       written, late, doubled, torn, stale, missed>>

\* The start of append: time stamp and id are taken without the lock, so two
\* goroutines may take the same number from nextID.
Stamp(w) ==
    /\ wr[w].pc = "idle"
    /\ stamped < MaxWrites /\ stamped' = stamped + 1
    /\ \E n \in {nextID + 1} \cup {wr[v].rec.n : v \in {v \in Writers : wr[v].pc = "stamped"}} :
         /\ wr' = [wr EXCEPT ![w] = [pc |-> "stamped", rec |-> [ts |-> clock, n |-> n, tag |-> stamped + 1]]]
         /\ nextID' = IF n > nextID THEN n ELSE nextID
    /\ UNCHANGED <<clock, files, activeDay, counted, lock, ragged, query, mishaps,
                   written, late, doubled, torn, stale, missed>>

\* sort.SliceStable by time stamp, as readRecords does, of the records of s at
\* the positions P.
SortsBefore(s, i, j) == Older(s[i], s[j]) \/ (s[i].ts = s[j].ts /\ i < j)
Sorted(s, P) == [k \in 1 .. Cardinality(P) |->
                   s[CHOOSE i \in P : Cardinality({j \in P : SortsBefore(s, j, i)}) = k - 1]]

\* The day rotateCurrentFileLocked takes the active file to be of: after a
\* start that of its youngest record.
PreviousDay == IF activeDay # Unknown \/ files[Active] = <<>> THEN activeDay
               ELSE LET s == files[Active] IN Day(Sorted(s, DOMAIN s)[Len(s)].ts)

\* A record of an earlier day goes into the active file as it is.
MustRotate(day) == PreviousDay # Unknown /\ PreviousDay < day

\* rotateCurrentFileLocked up to its decision.
BeginAppend(w) ==
    /\ lock = Nobody /\ lock' = w
    /\ wr[w].pc = "stamped"
    /\ LET day == Day(wr[w].rec.ts)
           hasAnyRecords == files[Active] # <<>> \/ Active \in ragged
       IN IF MustRotate(day)
          THEN Proceed(w, IF hasAnyRecords THEN "copy" ELSE "remove") /\ UNCHANGED activeDay
          ELSE /\ Proceed(w, "append")
               /\ activeDay' = IF PreviousDay \in {Unknown, day} THEN day ELSE activeDay
    /\ UNCHANGED <<clock, files, counted, nextID, ragged, query, mishaps, stamped,
                   written, late, doubled, torn, stale, missed>>

\* What arrives of the active file in a file: the first record is lost if its
\* line continues a part of one.
Arriving(f) == IF f \in ragged THEN SubSeq(files[Active], 2, Len(files[Active])) ELSE files[Active]

\* appendFileContents.
CopyActive(w) ==
    /\ wr[w].pc = "copy"
    /\ files' = [files EXCEPT ![PreviousDay] = @ \o Arriving(PreviousDay)]
    /\ ragged' = IF Active \in ragged THEN ragged \cup {PreviousDay} ELSE ragged \ {PreviousDay}
    /\ stale' = (stale \/ PreviousDay \in ragged)
    /\ StopFollowing /\ Proceed(w, "remove")
    /\ UNCHANGED <<clock, activeDay, counted, lock, nextID, mishaps, stamped,
                   written, late, doubled, torn, missed>>

\* os.Remove of the active file.
RemoveActive(w) ==
    /\ wr[w].pc = "remove"
    /\ files' = [files EXCEPT ![Active] = <<>>] /\ ragged' = ragged \ {Active}
    /\ activeDay' = Day(wr[w].rec.ts)
    /\ StopFollowing /\ Proceed(w, "append")
    /\ UNCHANGED <<clock, counted, lock, nextID, mishaps, stamped,
                   written, late, doubled, torn, stale, missed>>

\* appendBytes and the incremental counts; a record whose line continues a part
\* of one is counted and cannot be read.  Governance follows if the last one is
\* long enough ago.
AppendRecord(w) ==
    /\ wr[w].pc = "append"
    /\ files' = IF Active \in ragged THEN files ELSE [files EXCEPT ![Active] = Append(@, wr[w].rec)]
    /\ ragged' = ragged \ {Active} /\ stale' = (stale \/ Active \in ragged)
    /\ counted' = counted + 1
    /\ written' = written \cup {wr[w].rec}
    /\ late' = \/ late
               \/ \E r \in OnDisk : Older(wr[w].rec, r)
               \/ activeDay # Unknown /\ Day(wr[w].rec.ts) < activeDay
    /\ Unlock(w) \/ (Proceed(w, "govern") /\ UNCHANGED lock)
    /\ UNCHANGED <<clock, activeDay, nextID, query, mishaps, stamped, doubled, torn, missed>>

-----------------------------------------------------------------------------
(* Retention. *)

\* Mutant: the cutoff itself is dropped too.
Young_Strict(r) == r.ts + Retention > clock

\* Not before the cutoff.
Young(r) == r.ts + Retention >= clock

\* The order of the files and, once they are read, of the records in them.
Precedes(p, q) == p[1] < q[1] \/ (p[1] = q[1] /\ SortsBefore(files[p[1]], p[2], q[2]))

\* Mutant: the size is cut at the wrong end.
TrimBySize_Newest(S) == {p \in S : Cardinality({q \in S : Precedes(q, p)}) < MaxRecords}

\* trimBySize: records leave from the front.
TrimBySize(S) == {p \in S : Cardinality({q \in S : Precedes(p, q)}) < MaxRecords}

\* applyGovernanceLocked: of the records that are young enough those that the
\* size limit keeps are counted by id, and every file keeps records while their
\* id's count lasts.  The files are visited in the random order of a map, ord.
Fresh == {p \in Places(files) : Young(RecordAt(p))}
Alike(S, p) == {q \in S : IDOf(RecordAt(q)) = IDOf(RecordAt(p))}
Visited(S, ord, p) == {q \in Alike(S, p) : ord[q[1]] < ord[p[1]] \/ (q[1] = p[1] /\ Precedes(q, p))}

Staying(ord) ==
    LET fresh == Fresh
        allowed == TrimBySize(fresh)
    IN  {p \in fresh : Cardinality(Visited(fresh, ord, p)) < Cardinality(Alike(fresh, p) \cap allowed)}

Governed(ord) ==
    LET staying == Staying(ord)
    IN  IF staying = Places(files) THEN files
        ELSE [f \in Files |-> Sorted(files[f], {i \in DOMAIN files[f] : <<f, i>> \in staying})]

Orders == {ord \in [Files -> Files] : IsInjective(ord)}

\* RunRetention takes the lock.
RunRetention(w) ==
    /\ lock = Nobody /\ lock' = w
    /\ wr[w].pc = "idle" /\ Proceed(w, "govern")
    /\ UNCHANGED <<clock, files, activeDay, counted, nextID, ragged, query, mishaps, stamped,
                   written, late, doubled, torn, stale, missed>>

\* applyGovernanceLocked and rebuildSummaryLocked, when nothing fails.  If a
\* record goes, every file is rewritten; a file without records is removed.
Govern(w) ==
    /\ wr[w].pc = "govern"
    /\ \E ord \in Orders : files' = Governed(ord)
    /\ ragged' = IF files' = files THEN {f \in ragged : files[f] # <<>>} ELSE {}
    /\ counted' = Total(files') /\ stale' = FALSE
    /\ StopFollowing /\ Unlock(w)
    /\ UNCHANGED <<clock, activeDay, nextID, mishaps, stamped, written, late, doubled, torn, missed>>

-----------------------------------------------------------------------------
(* Failures. *)

Mishap == mishaps < MaxMishaps /\ mishaps' = mishaps + 1

\* A step stops before it writes anything.
NothingDone(w) == /\ doubled' = (doubled \/ (wr[w].pc = "remove" /\ files[Active] # <<>>))
                  /\ UNCHANGED <<files, ragged, torn>>

\* appendBytes stops in the middle of the line.
CutAppend(w) == /\ wr[w].pc = "append"
                /\ ragged' = ragged \cup {Active} /\ torn' = TRUE
                /\ UNCHANGED <<files, doubled>>

\* appendFileContents stops in the middle of a line, k records have arrived.
CutCopy(w) ==
    /\ wr[w].pc = "copy"
    /\ \E k \in 0 .. Len(Arriving(PreviousDay)) :
         /\ k = 0 \/ k < Len(Arriving(PreviousDay)) \/ Active \in ragged
         /\ files' = [files EXCEPT ![PreviousDay] = @ \o SubSeq(Arriving(PreviousDay), 1, k)]
    /\ ragged' = ragged \cup {PreviousDay} /\ torn' = TRUE /\ doubled' = TRUE

\* applyGovernanceLocked stops at file f: those before it are rewritten, f has
\* the first k of its records and perhaps a part of a line, the others are as
\* before.
CutRewrite(w) ==
    /\ wr[w].pc = "govern"
    /\ \E ord \in Orders, f \in Files :
         LET new == Governed(ord)
         IN /\ new # files
            /\ \E k \in 0 .. Len(new[f]), tail \in BOOLEAN :
                 /\ tail => k < Len(new[f])
                 /\ files' = [g \in Files |-> CASE g < f -> new[g]
                                             [] g = f -> SubSeq(new[f], 1, k)
                                             [] g > f -> files[g]]
                 /\ ragged' = {g \in ragged : g > f} \cup (IF tail THEN {f} ELSE {})
                 /\ torn' = (torn \/ k < Len(new[f]))
    /\ UNCHANGED doubled

Cut(w) == NothingDone(w) \/ CutAppend(w) \/ CutCopy(w) \/ CutRewrite(w)

\* append and RunRetention return the error of a file operation and give up the
\* rest, the update of the counts included; lastGovernance is left as it was.
FileFails(w) ==
    /\ lock = w
    /\ Mishap /\ Cut(w)
    /\ stale' = (stale \/ wr[w].pc # "append")
    /\ query' = IF wr[w].pc = "append" THEN query ELSE NoQuery
    /\ Unlock(w)
    /\ UNCHANGED <<clock, activeDay, counted, nextID, stamped, written, late, missed>>

\* Mutant: the counts begin at zero.
Restart_Zero(fs) == /\ activeDay' = Unknown /\ counted' = 0 /\ stale' = FALSE
                    /\ lock' = Nobody /\ query' = NoQuery
                    /\ wr' = [w \in Writers |-> [pc |-> "idle", rec |-> NoRecord]]
                    /\ nextID' = 0

\* NewStore: the day of the active file is not known, the records are counted.
Restart(fs) == /\ activeDay' = Unknown /\ counted' = Total(fs) /\ stale' = FALSE
               /\ lock' = Nobody /\ query' = NoQuery
               /\ wr' = [w \in Writers |-> [pc |-> "idle", rec |-> NoRecord]]
               /\ nextID' = 0

\* The process dies, in or between the steps of the writer with the lock.
SignalsCrash ==
    /\ Mishap
    /\ \/ lock = Nobody /\ UNCHANGED <<files, ragged, torn, doubled>>
       \/ lock # Nobody /\ Cut(lock)
    /\ Restart(files')
    /\ UNCHANGED <<clock, stamped, written, late, missed>>

-----------------------------------------------------------------------------
(* Queries. *)

\* querySignalFiles: the list of the files, under the lock.
ListFiles == /\ query = NoQuery /\ lock = Nobody
             /\ query' = [NoQuery EXCEPT !.todo = {f \in Files : files[f] # <<>>}]
             /\ query'.todo # {}
             /\ UNCHANGED <<clock, files, activeDay, counted, lock, wr, nextID, ragged, mishaps, stamped,
                            written, late, doubled, torn, stale, missed>>

\* The positions of the last n records, and whether they are in order.
LastOf(s, n) == {i \in DOMAIN s : i > Len(s) - n}
InOrder(s, P) == \A i, j \in P : i < j => ~Older(s[j], s[i])

\* Mutant: an ascent that the scan meets is not looked at.
NewestOf_Trusting(s, n) == LastOf(s, n)

\* queryFileNewestFirst: the file is read backwards up to n records; if a
\* record is younger than the one after it, the whole file is read and sorted.
NewestOf(s, n) ==
    IF InOrder(s, LastOf(s, n)) THEN LastOf(s, n)
    ELSE {i \in DOMAIN s : Cardinality({j \in DOMAIN s : SortsBefore(s, i, j)}) < n}

\* As many records of fs as the limit allows, none older than one left out.
AreNewest(A, fs) ==
    /\ Cardinality(A) = IF Total(fs) < Limit THEN Total(fs) ELSE Limit
    /\ \A p \in A, q \in Places(fs) \ A : ~Older(RecordAt(p), RecordAt(q))

\* No file has a record older than one in an earlier file, and a file that is
\* not in order is the first that is read and shows it within the limit.
Legible(fs) == /\ \A f, g \in Files : f < g => \A r \in Range(fs[f]), s \in Range(fs[g]) : ~Older(s, r)
               /\ \A f \in Files : \/ InOrder(fs[f], DOMAIN fs[f])
                                   \/ f = Active /\ ~InOrder(fs[f], LastOf(fs[f], Limit))

\* The files with the first n records of the active one.
View(n) == [files EXCEPT ![Active] = SubSeq(@, 1, n)]

\* querySignalFilesNewestFirst: the next file is read, from the youngest back
\* until the limit; a file has to fill what the files after it have left of the
\* limit.  Nothing keeps the files from changing; missed is about the records
\* there were when the active file was read.
ReadFile(f) ==
    /\ f \in query.todo /\ \A g \in query.todo : g <= f
    /\ LET got == query.got \cup ({f} \X NewestOf(files[f], Limit - Cardinality(query.got)))
           seen == IF f = Active THEN Len(files[f]) ELSE query.seen
           todo == query.todo \ {f}
           done == todo = {} \/ Cardinality(got) >= Limit
       IN /\ query' = IF done THEN NoQuery ELSE [todo |-> todo, got |-> got, seen |-> seen]
          /\ missed' = (missed \/ (done /\ ~doubled /\ Legible(View(seen)) /\ ~AreNewest(got, View(seen))))
    /\ UNCHANGED <<clock, files, activeDay, counted, lock, wr, nextID, ragged, mishaps, stamped,
                   written, late, doubled, torn, stale>>

WriterStep(w) == \/ Stamp(w) \/ BeginAppend(w) \/ CopyActive(w) \/ RemoveActive(w)
                 \/ AppendRecord(w) \/ RunRetention(w) \/ Govern(w) \/ FileFails(w)

SignalsNext == \/ \E w \in Writers : WriterStep(w)
               \/ Tick \/ SignalsCrash \/ ListFiles \/ \E f \in Files : ReadFile(f)

SignalsSpec == SignalsInit /\ [][SignalsNext]_signalVars

-----------------------------------------------------------------------------
(* Properties. *)

\* Every file is a sequence of records, the lock belongs to a writer at work and
\* a query has found places of records.
SignalsTypeOK ==
    /\ clock \in 0 .. MaxClock
    /\ files \in [Files -> Seq(Record)] /\ ragged \subseteq Files
    /\ activeDay \in 0 .. Unknown /\ counted \in Nat
    /\ lock \in Writers \cup {Nobody}
    /\ \A w \in Writers : wr[w].pc \in {"copy", "remove", "append", "govern"} <=> lock = w
    /\ nextID \in 0 .. MaxWrites
    /\ query \in [todo : SUBSET Files, got : SUBSET (Files \X Nat), seen : Nat]
    /\ mishaps \in 0 .. MaxMishaps /\ stamped \in 0 .. MaxWrites /\ written \subseteq Record
    /\ late \in BOOLEAN /\ doubled \in BOOLEAN /\ torn \in BOOLEAN
    /\ stale \in BOOLEAN /\ missed \in BOOLEAN

\* A record whose append was reported as done is gone only if it is too old or
\* if as many records that are not older as the size limit allows were written:
\* neither a rotation nor a restart nor a failed write that leaves nothing
\* behind loses one, and the filter by id drops the oldest even if two ids are
\* equal.  Three things break it in the code: a write that is cut off in the
\* middle, whose broken line also takes the next record with it, a rotation cut
\* off before the removal, whose doubled records count twice, and a late record
\* in a young file, which outlives the younger ones of the day before.
OnlyOldGone ==
    (~torn /\ ~doubled /\ ~late) =>
        \A r \in written \ OnDisk :
            r.ts + Retention < clock \/ Cardinality({s \in written \ {r} : ~Older(s, r)}) >= MaxRecords

\* No record is in two places unless a rotation was cut off, and a rotated
\* file has no record of a later day.
FiledOnce == /\ (~doubled /\ \A w \in Writers : wr[w].pc # "remove")
                    => Cardinality(OnDisk) = Total(files)
             /\ \A f \in 0 .. LastDay : \A r \in Range(files[f]) : Day(r.ts) <= f

\* The number of records that the metrics report is the number on disk, but
\* for what is under way, and after a rotation or a trimming that failed and a
\* record lost to a broken line, until the files are trimmed again or the store
\* is opened anew.
CountsMatch == (~stale /\ lock = Nobody) => counted = Total(files)

\* A limited query returns the newest records, although it reads the files one
\* after the other while records are appended and stops early, if no file was
\* moved or rewritten meanwhile and records that were written out of order are
\* among those it reads.
NewestReturned == ~missed

\* The store loses, doubles and miscounts nothing but in the cases named above.
SignalsSound == SignalsTypeOK /\ OnlyOldGone /\ FiledOnce /\ CountsMatch /\ NewestReturned
=============================================================================
