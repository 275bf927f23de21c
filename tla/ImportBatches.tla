---------------------------- MODULE ImportBatches ----------------------------
(***************************************************************************)
(* One import batch: its upload, the worker that imports the rows of its   *)
(* file chunk by chunk (app.import_market_jd), reprocessing, which         *)
(* normalises the rows it has again, and archiving, over the run lifecycle *)
(* of ProcessingRuns.                                                      *)
(*                                                                         *)
(* The worker takes no row lock.  It commits every ChunkSize rows and      *)
(* keeps one session for the whole file: what it writes at the end is what *)
(* differs from the rows it loaded at the start.                           *)
(***************************************************************************)
EXTENDS ProcessingRuns, FiniteSetsExt, SequencesExt

CONSTANTS
    FileRows,      \* the rows of the file, each "ok", "warn" or "bad"
    ChunkSize,     \* CHUNK_SIZE
    Importers      \* Celery worker slots

ASSUME ImportConstants ==
    /\ FileRows \in Seq({"ok", "warn", "bad"}) /\ FileRows # <<>>
    /\ ChunkSize \in Nat \ {0}

VARIABLES
    importBatch,   \* the import_batches row
    raws,          \* raws[i]: is_current of the versions normalized from row i,
                   \* <<>> while the row has no raw posting
    importer       \* what each worker has loaded and does next

importVars == <<importBatch, raws, importer>>

RowNos == DOMAIN FileRows
BatchStatus == {"absent", "uploaded", "processing", "processed", "partial",
                "failed", "archived"}
ImportBatch == [status : BatchStatus, total : Nat, accepted : Nat,
                rejected : Nat, warnings : Nat]
AbsentBatch == [status |-> "absent", total |-> 0, accepted |-> 0,
                rejected |-> 0, warnings |-> 0]

\* was: the run's status in its session; mine: the batch in its session;
\* list: the rows it goes through; pos: how many of them are committed;
\* mark: the current version it has read of the next row.
IdleImporter == [pc |-> "idle", run |-> NoRun, was |-> "absent",
                 mine |-> AbsentBatch, list |-> <<>>, pos |-> 0, mark |-> 0]
Importer == [pc : {"idle", "start", "parse", "rows", "settle", "reopen",
                   "renorm", "version"},
             run : Runs \cup {NoRun}, was : Status, mine : ImportBatch,
             list : Seq(RowNos), pos : Nat, mark : Nat]

ImportsTypeOK ==
    /\ importBatch \in ImportBatch
    /\ raws \in [RowNos -> Seq(BOOLEAN)]
    /\ importer \in [Importers -> Importer]

\* Mutant: the row at which a cancellation is found is counted as imported.
CountedAhead(b, pos) ==
    LET Of(kind) == Cardinality({i \in RowNos : i <= pos + 1 /\ FileRows[i] = kind})
    IN  [b EXCEPT !.accepted = Of("ok"), !.rejected = Of("bad"),
                  !.warnings = Of("warn")]

\* accepted, rejected and warning rows among the first pos of the file.
Counted(b, pos) ==
    LET Of(kind) == Cardinality({i \in 1 .. pos : FileRows[i] = kind})
    IN  [b EXCEPT !.accepted = Of("ok"), !.rejected = Of("bad"),
                  !.warnings = Of("warn")]

HasBadRow == \E i \in RowNos : FileRows[i] = "bad"
ImportedStatus == IF HasBadRow THEN "partial" ELSE "processed"

\* The batch does not exist yet, or a run that is over has imported it.
ImportsInit ==
    /\ \/ /\ importBatch = AbsentBatch
          /\ raws = [i \in RowNos |-> <<>>]
       \/ /\ importBatch = Counted([AbsentBatch EXCEPT !.total = Len(FileRows),
                                         !.status = ImportedStatus], Len(FileRows))
          /\ raws = [i \in RowNos |-> IF FileRows[i] = "bad" THEN <<>> ELSE <<TRUE>>]
    /\ importer = [w \in Importers |-> IdleImporter]

-----------------------------------------------------------------------------
(* The requests                                                            *)

\* create_import: file, batch and run in one commit.
CreateImport(r, n) ==
    /\ importBatch.status = "absent"
    /\ NewRun(r, n, "import_market_jd", NoRun, 0)
    /\ importBatch' = [AbsentBatch EXCEPT !.status = "uploaded"]
    /\ UNCHANGED <<raws, importer>>

ActiveRun(n) == run[n].status \in {"pending", "running", "cancel_requested"}

\* reprocess_batch and archive_batch look for an active run without a lock.
ReadIdleBatch(r, pc) ==
    /\ request[r].pc = "idle"
    /\ importBatch.status # "absent"
    /\ ~ \E n \in Runs : ActiveRun(n)
    /\ request' = [request EXCEPT ![r].pc = pc]
    /\ UNCHANGED <<run, queue, batch, stale, importVars>>

ReprocessRead(r) == ReadIdleBatch(r, "reprocess")

\* The batch may have any status.  Nothing reads the run's retry_of_run_id.
ReprocessCommit(r, n) ==
    /\ request[r].pc = "reprocess"
    /\ run[n].status = "absent"
    /\ run' = [run EXCEPT ![n] = PendingRun("reprocess_market_jd", NoRun, 0)]
    /\ request' = [request EXCEPT ![r] = [IdleRequest EXCEPT !.pc = "send",
                                                             !.run = n]]
    /\ UNCHANGED <<queue, batch, stale, importVars>>

ArchiveRead(r) == importBatch.status # "archived" /\ ReadIdleBatch(r, "archive")

ArchiveCommit(r) ==
    /\ request[r].pc = "archive"
    /\ importBatch' = [importBatch EXCEPT !.status = "archived"]
    /\ request' = [request EXCEPT ![r] = IdleRequest]
    /\ UNCHANGED <<run, queue, batch, stale, raws, importer>>

-----------------------------------------------------------------------------
(* The worker                                                              *)

\* A commit of the session: a column equal to the one loaded is not written.
Flush(w, new) ==
    importBatch' = [f \in DOMAIN importBatch |->
        IF new[f] = importer[w].mine[f] THEN importBatch[f] ELSE new[f]]

\* The run's status in the database and in the session; heartbeat_at is set too.
WriteRun(w, status) ==
    run' = [run EXCEPT ![importer[w].run] =
              [Overwritten(importer[w].run, importer[w].was, status)
                 EXCEPT !.silent = FALSE]]

Beat(w) == WriteRun(w, importer[w].was)

Becomes(w, m) == importer' = [importer EXCEPT ![w] = m]
Leaves(w) == Becomes(w, IdleImporter)

\* The rows that have a raw posting, in their order: the k-th is the one up to
\* which there are k.
Present ==
    LET there == {i \in RowNos : raws[i] # <<>>}
    IN  [k \in 1 .. Cardinality(there) |->
            CHOOSE i \in there : Cardinality({j \in there : j <= i}) = k]

\* process_market_import up to its first write: the message is dropped, the
\* batch is settled as it is, reopened or imported from its file.
ImportTake(w, n) ==
    /\ importer[w].pc = "idle"
    /\ Receive(n)
    /\ IF run[n].status \in Ended
       THEN UNCHANGED importer
       ELSE Becomes(w, [IdleImporter EXCEPT !.run = n, !.was = run[n].status,
              !.mine = importBatch,
              !.list = IF run[n].type = "reprocess_market_jd"
                          /\ importBatch.status \in {"processed", "partial"}
                       THEN Present ELSE <<>>,
              !.pc = IF importBatch.status \notin {"processed", "partial"} THEN "start"
                     ELSE IF run[n].type = "reprocess_market_jd" /\ Present # <<>>
                     THEN "reopen" ELSE "settle"])
    /\ UNCHANGED <<run, request, batch, stale, importBatch, raws>>

\* _finish_existing.
ImportSettle(w) ==
    /\ importer[w].pc = "settle"
    /\ WriteRun(w, "completed")
    /\ Leaves(w)
    /\ UNCHANGED <<queue, request, batch, stale, importBatch, raws>>

ImportStart(w) ==
    LET new == [importer[w].mine EXCEPT !.status = "processing"]
    IN  /\ importer[w].pc = "start"
        /\ WriteRun(w, "running")
        /\ Flush(w, new)
        /\ Becomes(w, [importer[w] EXCEPT !.pc = "parse", !.was = "running",
                                          !.mine = new])
        /\ UNCHANGED <<queue, request, batch, stale, raws>>

\* _fail_run: the file is missing, unreadable, empty, too long or no adapter knows it.
ImportFail(w) ==
    /\ importer[w].pc = "parse"
    /\ WriteRun(w, "failed")
    /\ Flush(w, [importer[w].mine EXCEPT !.status = "failed"])
    /\ Leaves(w)
    /\ UNCHANGED <<queue, request, batch, stale, raws>>

\* The rows are known; total_count and total_rows are committed.
ImportParsed(w) ==
    LET new == [importer[w].mine EXCEPT !.total = Len(FileRows)]
    IN  /\ importer[w].pc = "parse"
        /\ run' = [run EXCEPT ![importer[w].run].total = 1]
        /\ Flush(w, new)
        /\ Becomes(w, [importer[w] EXCEPT !.pc = "rows", !.mine = new,
                                          !.list = [i \in RowNos |-> i]])
        /\ UNCHANGED <<queue, request, batch, stale, raws>>

\* The next k rows of its list.
NextRows(w, k) == {importer[w].list[i] : i \in importer[w].pos + 1 .. importer[w].pos + k}
Left(w) == Len(importer[w].list) - importer[w].pos

\* A cancellation is looked for before every row.  Once a row is counted the
\* session holds the run's row lock, so only the first two checks of a chunk
\* can find one that was not there before, and one row may overlook it.
Cancelled(w) == run[importer[w].run].flag
Overlooks(w, k) == ~ Cancelled(w) \/ k <= 1

Insertable(is) == {i \in is : FileRows[i] # "bad"}

\* uq_raw_job_batch_row
Collides(is) == \E i \in Insertable(is) : raws[i] # <<>>

\* The raw posting of a row and the first version of its normalisation.
InsertRows(is) ==
    raws' = [i \in RowNos |-> IF i \in Insertable(is) THEN Append(raws[i], TRUE)
                                                       ELSE raws[i]]

\* The exception leaves the task: nothing ends the run.
Dies(w) == Leaves(w) /\ UNCHANGED <<run, importBatch, raws>>

ImportChunk(w) ==
    LET is == NextRows(w, ChunkSize)
    IN  /\ importer[w].pc = "rows"
        /\ Left(w) >= ChunkSize
        /\ Overlooks(w, ChunkSize)
        /\ IF Collides(is) THEN Dies(w)
           ELSE /\ InsertRows(is)
                /\ Beat(w)
                /\ Becomes(w, [importer[w] EXCEPT !.pos = @ + ChunkSize])
                /\ UNCHANGED importBatch
        /\ UNCHANGED <<queue, request, batch, stale>>

\* The rows after the last full chunk and the outcome, in one commit.
ImportFinish(w) ==
    LET is == NextRows(w, Left(w))
    IN  /\ importer[w].pc = "rows"
        /\ Left(w) < ChunkSize
        /\ Overlooks(w, Left(w))
        /\ IF Collides(is) THEN Dies(w)
           ELSE /\ InsertRows(is)
                /\ WriteRun(w, "completed")
                /\ Flush(w, [Counted(importer[w].mine, Len(FileRows)) EXCEPT
                        !.status = ImportedStatus])
                /\ Leaves(w)
        /\ UNCHANGED <<queue, request, batch, stale>>

\* The cancellation is found at the first or second row of a chunk.
ImportCancel(w, k) ==
    LET is == NextRows(w, k)
    IN  /\ importer[w].pc = "rows"
        /\ Cancelled(w)
        /\ k \in 0 .. 1 /\ k < Left(w) /\ k < ChunkSize
        /\ IF Collides(is) THEN Dies(w)
           ELSE /\ InsertRows(is)
                /\ WriteRun(w, "cancelled")
                /\ Flush(w, [Counted(importer[w].mine, importer[w].pos + k) EXCEPT
                                !.status = "partial"])
                /\ Leaves(w)
        /\ UNCHANGED <<queue, request, batch, stale>>

-----------------------------------------------------------------------------
(* The worker reprocessing a batch                                         *)

\* _reprocess_existing, its first commit.
ImportReopen(w) ==
    /\ importer[w].pc = "reopen"
    /\ run' = [run EXCEPT ![importer[w].run] =
                 [Overwritten(importer[w].run, importer[w].was, "running")
                    EXCEPT !.total = 1, !.silent = FALSE]]
    /\ Becomes(w, [importer[w] EXCEPT !.pc = "renorm", !.was = "running"])
    /\ UNCHANGED <<queue, request, batch, stale, importBatch, raws>>

CurrentVersion(i) ==
    IF \E v \in DOMAIN raws[i] : raws[i][v]
    THEN Max({v \in DOMAIN raws[i] : raws[i][v]}) ELSE 0

FirstRow(w) == importer[w].list[importer[w].pos + 1]

\* The current version of the next row is read.  It is written at the next
\* flush: from then on the row's lock keeps other workers out of the chunk.
RenormRead(w) ==
    /\ importer[w].pc = "renorm"
    /\ Left(w) > 0
    /\ Overlooks(w, 1)
    /\ Becomes(w, [importer[w] EXCEPT !.pc = "version",
                                      !.mark = CurrentVersion(FirstRow(w))])
    /\ UNCHANGED <<lifeVars, importBatch, raws>>

\* Mutant: normalized_job_postings without uq_normalized_job_current.
AnyVersion(w, is) == FALSE

\* uq_normalized_job_current: another version has become the current one.
Overtaken(w, is) ==
    is # {} /\ CurrentVersion(FirstRow(w)) \notin {0, importer[w].mark}

\* The version read is no longer current, the next one is.
Renormalized(w, is) ==
    raws' = [i \in RowNos |->
        IF i \notin is THEN raws[i]
        ELSE LET v == IF i = FirstRow(w) THEN importer[w].mark ELSE CurrentVersion(i)
             IN  Append([u \in DOMAIN raws[i] |-> raws[i][u] /\ u # v], TRUE)]

RenormChunk(w) ==
    LET is == NextRows(w, ChunkSize)
    IN  /\ importer[w].pc = "version"
        /\ Left(w) >= ChunkSize
        /\ Overlooks(w, ChunkSize)
        /\ IF Overtaken(w, is) THEN Dies(w)
           ELSE /\ Renormalized(w, is)
                /\ Beat(w)
                /\ Becomes(w, [importer[w] EXCEPT !.pc = "renorm", !.mark = 0,
                                                  !.pos = @ + ChunkSize])
                /\ UNCHANGED importBatch
        /\ UNCHANGED <<queue, request, batch, stale>>

RenormFinish(w) ==
    LET is   == NextRows(w, Left(w))
        warn == Cardinality({i \in ToSet(importer[w].list) : FileRows[i] = "warn"})
    IN  /\ \/ importer[w].pc = "version" /\ Left(w) < ChunkSize /\ Overlooks(w, Left(w))
           \/ importer[w].pc = "renorm" /\ Left(w) = 0
        /\ IF Overtaken(w, is) THEN Dies(w)
           ELSE /\ Renormalized(w, is)
                /\ WriteRun(w, "completed")
                /\ Flush(w, [importer[w].mine EXCEPT !.warnings = warn,
                                !.accepted = Len(importer[w].list) - warn])
                /\ Leaves(w)
        /\ UNCHANGED <<queue, request, batch, stale>>

\* A cancelled run keeps the rows it has normalised and leaves the batch.
RenormCancel(w) ==
    LET is == IF importer[w].pc = "version" THEN NextRows(w, 1) ELSE {}
    IN  /\ importer[w].pc \in {"renorm", "version"}
        /\ Cancelled(w)
        /\ IF importer[w].pc = "version" THEN Left(w) > 1 /\ ChunkSize > 1
                                         ELSE Left(w) > 0
        /\ IF Overtaken(w, is) THEN Dies(w)
           ELSE /\ Renormalized(w, is)
                /\ WriteRun(w, "cancelled")
                /\ Leaves(w)
                /\ UNCHANGED importBatch
        /\ UNCHANGED <<queue, request, batch, stale>>

ImportCrash(w) ==
    /\ TasksMayDie
    /\ importer[w].pc # "idle"
    /\ Leaves(w)
    /\ UNCHANGED <<lifeVars, importBatch, raws>>

ImportsNext ==
    \/ LifeNext /\ UNCHANGED importVars
    \/ \E r \in Requests, n \in Runs :
          CreateImport(r, n) \/ ReprocessCommit(r, n)
    \/ \E r \in Requests, old, new \in Runs :
          RetryRun(r, old, new) /\ UNCHANGED importVars
    \/ \E r \in Requests : ReprocessRead(r) \/ ArchiveRead(r) \/ ArchiveCommit(r)
    \/ \E w \in Importers :
          \/ \E n \in Runs : ImportTake(w, n)
          \/ ImportSettle(w) \/ ImportStart(w) \/ ImportFail(w) \/ ImportParsed(w)
          \/ ImportChunk(w) \/ ImportFinish(w)
          \/ \E k \in 0 .. 1 : ImportCancel(w, k)
          \/ ImportReopen(w) \/ RenormRead(w) \/ RenormChunk(w)
          \/ RenormFinish(w) \/ RenormCancel(w) \/ ImportCrash(w)

-----------------------------------------------------------------------------
(* Properties                                                              *)

\* The current normalisation of every imported row is its latest one, and
\* the only current one, whatever reprocessing runs overlap.
OneCurrentVersion ==
    \A i \in RowNos : \A v \in DOMAIN raws[i] :
        raws[i][v] <=> v = Len(raws[i])

\* A batch never claims rows that are not there: its counts stay within its
\* rows, accepted and warning rows are imported, and a processed batch is whole.
CountsAreBacked ==
    LET imported == Cardinality({i \in RowNos : raws[i] # <<>>})
    IN  /\ importBatch.accepted + importBatch.warnings <= imported
        /\ importBatch.accepted + importBatch.rejected <= importBatch.total
        /\ importBatch.status = "processed" =>
              imported = Cardinality(Insertable(RowNos))
=============================================================================
