------------------------------ MODULE Imports ------------------------------
(***************************************************************************)
(* One import, from the multipart body of the upload to the rows in the    *)
(* target: the reader that cuts the file out of the body, the readers that *)
(* cut records out of the file chunk by chunk, and the executors that run  *)
(* the records against PostgreSQL or MySQL under a transaction, with a     *)
(* cancellation at any moment.                                             *)
(*                                                                         *)
(* Text is a sequence of the characters the readers look at.  CSV: "q" is  *)
(* the quote, "d" the delimiter, "n" the newline.  SQL: "s" is a quote of  *)
(* any of the three kinds, "k" the backslash, "m" the dash, "o" and "e"    *)
(* the first and second character of a block comment's opening ("oe"       *)
(* opens, "eo" closes), "g" the dollar sign, "c" the semicolon.  "x", "y", *)
(* "t" and "l" stand for every other character; the server rejects a       *)
(* record that has a "y" in it, a statement with a "t" in it ends the      *)
(* transaction it is in as COMMIT does, and one with an "l" in it changes  *)
(* the schema.                                                             *)
(***************************************************************************)
EXTENDS Integers, Sequences, FiniteSets, SequencesExt

CONSTANTS
    CsvTexts, SqlTexts,         \* the contents of uploaded files
    BatchSizes,                 \* options.batchSize
    RowErrorThreshold           \* CSV_ROW_ERROR_THRESHOLD

Engines == {"postgresql", "mysql"}

VARIABLES
    body,       \* what the reader of the request still has to deliver
    buffer,     \* MultipartFileReader.buffer
    file,       \* <dataDir>/temp/imports/<uploadId>.data
    text,       \* ghost: the file the user chose
    phase,      \* where the upload or the job is
    req,        \* the normalized request
    records,    \* the records the reader has yet to hand out
    reference,  \* ghost: the records of the same file read in one chunk
    pairSplit,  \* ghost: a two-character token lies across two chunks
    pending,    \* the batch being collected or retried
    table,      \* what the target holds
    saved,      \* what it held when the transaction began
    tx,         \* the transaction of the session
    aborted,    \* job.signal.aborted
    sum,        \* summary: succeeded and failed
    outcome     \* what the job ended with

upVars == <<body, buffer, file, text>>
readVars == <<req, records, reference, pairSplit>>
dbVars == <<table, saved, tx>>
vars == <<upVars, phase, readVars, pending, dbVars, aborted, sum, outcome>>

Concat(chunks) == FoldLeft(LAMBDA a, b : a \o b, <<>>, chunks)

-----------------------------------------------------------------------------
(* The upload: MultipartFileReader                                         *)

EndMarker == <<"n", "b">>               \* CR LF -- boundary
Final == <<"z">>                        \* the two dashes of the last boundary

(* indexOfBytes *)
IndexOf(b, needle) ==
    LET At == {i \in 1 .. Len(b) - Len(needle) + 1 :
                  SubSeq(b, i, i + Len(needle) - 1) = needle}
    IN  IF At = {} THEN 0 ELSE CHOOSE i \in At : \A j \in At : i <= j

(* How much of a buffer without the marker may be handed out. *)
Releasable(b) == IF Len(b) > Len(EndMarker) - 1 THEN Len(b) - Len(EndMarker) + 1 ELSE 0

(* chunks(), the marker is not in the buffer: hand out all but a possible
   beginning of the marker and read on. *)
FillBuffer ==
    /\ phase = "uploading"
    /\ IndexOf(buffer, EndMarker) = 0
    /\ body # <<>>
    /\ file' = file \o SubSeq(buffer, 1, Releasable(buffer))
    /\ \E n \in 1 .. Len(body) :
          /\ buffer' = SubSeq(buffer, Releasable(buffer) + 1, Len(buffer))
                          \o SubSeq(body, 1, n)
          /\ body' = SubSeq(body, n + 1, Len(body))
    /\ UNCHANGED <<text, phase, readVars, pending, dbVars, aborted, sum, outcome>>

(* chunks(), the marker is there: the content before it ends the file. *)
FoundMarker ==
    /\ phase = "uploading"
    /\ IndexOf(buffer, EndMarker) # 0
    /\ LET at == IndexOf(buffer, EndMarker)
       IN  file' = file \o SubSeq(buffer, 1, at - 1)
    /\ phase' = IF file' = <<>> THEN "rejected" ELSE "uploaded"
    /\ buffer' = <<>>
    /\ body' = <<>>
    /\ UNCHANGED <<text, readVars, pending, dbVars, aborted, sum, outcome>>

(* The client goes away, or the body ends: the boundary never comes, the upload
   is removed. *)
BrokenOff ==
    /\ phase = "uploading"
    /\ IndexOf(buffer, EndMarker) = 0
    /\ phase' = "rejected"
    /\ file' = <<>>
    /\ UNCHANGED <<body, buffer, text, readVars, pending, dbVars, aborted, sum, outcome>>

-----------------------------------------------------------------------------
(* csvRecords                                                              *)

CsvStart == [row |-> <<>>, field |-> <<>>, quoted |-> FALSE, start |-> TRUE,
             skip |-> FALSE, out |-> <<>>]

(* One character; nxt is "" at the end of the chunk. *)
CsvChar(st, cur, nxt) ==
    IF st.skip THEN [st EXCEPT !.skip = FALSE]
    ELSE IF st.quoted THEN
        IF cur # "q" THEN [st EXCEPT !.field = Append(@, cur)]
        ELSE IF nxt = "q"
        THEN [st EXCEPT !.field = Append(@, "q"), !.skip = TRUE]
        ELSE [st EXCEPT !.quoted = FALSE]
    ELSE CASE cur = "q" /\ st.start -> [st EXCEPT !.quoted = TRUE, !.start = FALSE]
           [] cur = "d" -> [st EXCEPT !.row = Append(@, st.field), !.field = <<>>,
                                      !.start = TRUE]
           [] cur = "n" -> [st EXCEPT !.out = Append(@, Append(st.row, st.field)),
                                      !.row = <<>>, !.field = <<>>, !.start = TRUE]
           [] OTHER -> [st EXCEPT !.field = Append(@, cur), !.start = FALSE]

Lookahead(chunk, i) == IF i < Len(chunk) THEN chunk[i + 1] ELSE ""

CsvChunk(st, chunk) ==
    FoldLeft(LAMBDA s, i : CsvChar(s, chunk[i], Lookahead(chunk, i)),
             st, [i \in 1 .. Len(chunk) |-> i])

csvRecords(chunks) ==
    LET end == FoldLeft(CsvChunk, CsvStart, chunks)
    IN  IF end.row # <<>> \/ end.field # <<>>
        THEN Append(end.out, Append(end.row, end.field)) ELSE end.out

-----------------------------------------------------------------------------
(* sqlRecords                                                              *)

SqlStart(e) == [engine |-> e, state |-> "normal", depth |-> 0, dollar |-> FALSE,
                skip |-> FALSE, stmt |-> <<>>, out |-> <<>>]

Skipping(st, s) == [st EXCEPT !.state = s, !.skip = TRUE]

SqlToken(st, cur, nxt) ==
    CASE st.state = "lineComment" ->
            IF cur = "n" THEN [st EXCEPT !.state = "normal"] ELSE st
      [] st.state = "blockComment" ->
            CASE cur = "o" /\ nxt = "e" ->
                    [Skipping(st, "blockComment") EXCEPT !.depth = @ + 1]
              [] cur = "e" /\ nxt = "o" ->
                    [Skipping(st, IF st.depth = 1 THEN "normal" ELSE "blockComment")
                        EXCEPT !.depth = @ - 1]
              [] OTHER -> st
      [] st.state = "quoted" ->
            CASE cur = "k" -> Skipping(st, "quoted")
              [] cur = "s" -> IF nxt = "s" THEN Skipping(st, "quoted")
                              ELSE [st EXCEPT !.state = "normal"]
              [] OTHER -> st
      [] st.state = "normal" /\ st.dollar ->
            IF cur = "g" /\ nxt = "g"
            THEN [Skipping(st, "normal") EXCEPT !.dollar = FALSE] ELSE st
      [] OTHER ->
            CASE cur = "m" /\ nxt = "m" -> Skipping(st, "lineComment")
              [] cur = "o" /\ nxt = "e" ->
                    [Skipping(st, "blockComment") EXCEPT !.depth = 1]
              [] cur = "s" -> [st EXCEPT !.state = "quoted"]
              [] cur = "g" /\ nxt = "g" /\ st.engine = "postgresql" ->
                    [Skipping(st, "normal") EXCEPT !.dollar = TRUE]
              [] OTHER -> st

(* The skip over the second character of a token is `index += 1`: the next
   chunk starts at its own first character, so the skip ends with the chunk. *)
SqlChar(st, cur, nxt) ==
    LET seen == [st EXCEPT !.stmt = Append(@, cur)]
    IN  IF st.skip THEN [seen EXCEPT !.skip = FALSE]
        ELSE IF cur = "c" /\ st.state = "normal" /\ ~st.dollar
        THEN [st EXCEPT !.stmt = <<>>,
                        !.out = IF ToSet(st.stmt) \subseteq {"n"} THEN @
                                ELSE Append(@, st.stmt)]
        ELSE SqlToken(seen, cur, nxt)

SqlChunk(st, chunk) ==
    FoldLeft(LAMBDA s, i : SqlChar(s, chunk[i], Lookahead(chunk, i)),
             [st EXCEPT !.skip = FALSE], [i \in 1 .. Len(chunk) |-> i])

sqlRecords(chunks, e) ==
    LET end == FoldLeft(SqlChunk, SqlStart(e), chunks)
    IN  IF ToSet(end.stmt) \subseteq {"n"} THEN end.out
        ELSE Append(end.out, end.stmt)

(* fileStream: the chunks the file system delivers, cut after the places in
   `cuts`. *)
Chunks(t, cuts) ==
    LET ends == SetToSortSeq(cuts \cup {Len(t)}, <)
    IN  [i \in 1 .. Len(ends) |->
            SubSeq(t, (IF i = 1 THEN 0 ELSE ends[i - 1]) + 1, ends[i])]

(* The tokens of two characters: a doubled quote, a line comment's dashes, the
   ends of a block comment, a dollar tag, and a backslash with what follows. *)
IsPair(a, b) ==
    \/ <<a, b>> \in {<<"q", "q">>, <<"s", "s">>, <<"m", "m">>, <<"o", "e">>,
                     <<"e", "o">>, <<"g", "g">>}
    \/ a = "k"

-----------------------------------------------------------------------------
(* The request                                                             *)

(* normalizeSql, the default of transactionMode, normalizeCsv: a truncating
   import comes with the name of its table or is refused. *)
Requests ==
    {[kind |-> "sql", engine |-> e, single |-> s, truncate |-> FALSE,
      header |-> FALSE, batch |-> 1] : e \in Engines, s \in BOOLEAN}
    \cup
    {[kind |-> "csv", engine |-> e, single |-> TRUE, truncate |-> t,
      header |-> h, batch |-> b] :
        e \in Engines, t \in BOOLEAN, h \in BOOLEAN, b \in BatchSizes}

Rows(r, recs) == IF r.header /\ recs # <<>> THEN Tail(recs) ELSE recs

(* createSql and createCsv up to the first record: the session is opened, the
   format is the upload's, the file is read. *)
Create ==
    /\ phase = "uploaded"
    /\ \E r \in Requests, cuts \in SUBSET (1 .. Len(file) - 1) :
          LET Read(chunks) == IF r.kind = "csv" THEN csvRecords(chunks)
                              ELSE sqlRecords(chunks, r.engine)
              got == Read(Chunks(file, cuts))
          IN  /\ r.kind = IF text \in CsvTexts THEN "csv" ELSE "sql"
              /\ req' = r
              /\ records' = Rows(r, got)
              /\ reference' = Rows(r, Read(<<file>>))
              /\ pairSplit' = \E i \in cuts : IsPair(file[i], file[i + 1])
              /\ phase' = IF got = <<>> THEN "failing"
                          ELSE IF r.single THEN "begin" ELSE "running"
    /\ UNCHANGED <<upVars, pending, dbVars, aborted, sum, outcome>>

(* abort: at any moment of the job; for SQL the running statement is told. *)
Abort ==
    /\ phase \in {"begin", "running", "retry", "commit", "afterwards"}
    /\ ~aborted
    /\ aborted' = TRUE
    /\ UNCHANGED <<upVars, phase, readVars, pending, dbVars, sum, outcome>>

-----------------------------------------------------------------------------
(* The server behind the session                                           *)

(* withTransaction: BEGIN *)
Begin ==
    /\ phase = "begin"
    /\ saved' = table
    /\ tx' = IF req.truncate /\ req.engine = "mysql" THEN "none" ELSE "open"
    /\ table' = IF req.truncate THEN <<>> ELSE table
    /\ phase' = "running"
    /\ UNCHANGED <<upVars, readVars, pending, aborted, sum, outcome>>

Rejected(record) == "y" \in ToSet(Concat(record))
SqlRejected(stmt) == "y" \in ToSet(stmt)

(* A COMMIT in the file ends the transaction of withTransaction, and so does, on
   MySQL, every statement that changes the schema: what follows runs outside one. *)
EndsTransaction(stmt) ==
    \/ "t" \in ToSet(stmt)
    \/ "l" \in ToSet(stmt) /\ req.engine = "mysql"

(* An error inside a PostgreSQL transaction aborts it until it ends. *)
AfterError == IF tx = "open" /\ req.engine = "postgresql" THEN "aborted" ELSE tx

Accept(rows) == tx # "aborted" /\ \A i \in DOMAIN rows : ~Rejected(rows[i])

(* A plausible slip: the executor swallows the error without a rollback. *)
RollBackForgotten == table

RollBack == IF tx = "none" THEN table ELSE saved

OneFailed(s) == [s EXCEPT !.bad = @ + 1]

-----------------------------------------------------------------------------
(* executeSql: one statement                                               *)

StatementRuns ==
    /\ phase = "running"
    /\ req.kind = "sql"
    /\ records # <<>>
    /\ ~aborted
    /\ ~SqlRejected(Head(records))
    /\ table' = Append(table, Head(records))
    /\ sum' = [sum EXCEPT !.ok = @ + 1]
    /\ records' = Tail(records)
    /\ tx' = IF EndsTransaction(Head(records)) THEN "none" ELSE tx
    /\ UNCHANGED <<upVars, phase, req, reference, pairSplit, pending, saved, aborted, outcome>>

(* The server rejects the statement, or it was cancelled before or while it ran: one
   that changes the schema on MySQL has ended the transaction before it fails. *)
StatementFails ==
    /\ phase = "running"
    /\ req.kind = "sql"
    /\ records # <<>>
    /\ aborted \/ SqlRejected(Head(records))
    /\ phase' = "failing"
    /\ \E ran \in BOOLEAN :
          /\ ~aborted => ran
          /\ tx' = IF ran /\ req.engine = "mysql" /\ EndsTransaction(Head(records))
                   THEN "none" ELSE AfterError
    /\ sum' = IF aborted THEN sum ELSE OneFailed(sum)
    /\ UNCHANGED <<upVars, readVars, pending, table, saved, aborted, outcome>>

SqlDone ==
    /\ phase = "running"
    /\ req.kind = "sql"
    /\ records = <<>>
    /\ phase' = IF req.single THEN "commit" ELSE "afterwards"
    /\ UNCHANGED <<upVars, readVars, pending, dbVars, aborted, sum, outcome>>

-----------------------------------------------------------------------------
(* executeCsv: flush                                                       *)

TakeBatch ==
    /\ phase = "running"
    /\ req.kind = "csv"
    /\ records # <<>>
    /\ ~aborted
    /\ LET n == IF Len(records) < req.batch THEN Len(records) ELSE req.batch
           batch == SubSeq(records, 1, n)
       IN  /\ records' = SubSeq(records, n + 1, Len(records))
           /\ IF Accept(batch)
              THEN /\ table' = table \o batch
                   /\ sum' = [sum EXCEPT !.ok = @ + n]
                   /\ UNCHANGED <<phase, pending, tx>>
              ELSE /\ pending' = batch
                   /\ phase' = "retry"
                   /\ tx' = AfterError
                   /\ UNCHANGED <<table, sum>>
    /\ UNCHANGED <<upVars, req, reference, pairSplit, saved, aborted, outcome>>

(* The batch failed: its rows one by one, until the threshold. *)
RetryRow ==
    /\ phase = "retry"
    /\ ~aborted
    /\ LET row == Head(pending) IN
       IF Accept(<<row>>)
       THEN /\ table' = Append(table, row)
            /\ sum' = [sum EXCEPT !.ok = @ + 1]
            /\ pending' = Tail(pending)
            /\ phase' = IF Tail(pending) = <<>> THEN "running" ELSE "retry"
            /\ tx' = tx
       ELSE /\ sum' = OneFailed(sum)
            /\ pending' = Tail(pending)
            /\ phase' = IF sum.bad + 1 >= RowErrorThreshold THEN "failing"
                        ELSE IF Tail(pending) = <<>> THEN "running" ELSE "retry"
            /\ tx' = AfterError
            /\ UNCHANGED table
    /\ UNCHANGED <<upVars, readVars, saved, aborted, outcome>>

CsvAborted ==
    /\ req.kind = "csv"
    /\ phase \in {"running", "retry"}
    /\ aborted
    /\ phase' = "failing"
    /\ UNCHANGED <<upVars, readVars, pending, dbVars, aborted, sum, outcome>>

CsvDone ==
    /\ phase = "running"
    /\ req.kind = "csv"
    /\ records = <<>>
    /\ ~aborted
    /\ phase' = "commit"
    /\ UNCHANGED <<upVars, readVars, pending, dbVars, aborted, sum, outcome>>

-----------------------------------------------------------------------------
(* The end                                                                 *)

(* COMMIT: of an aborted PostgreSQL transaction it is a rollback, and no error. *)
Commit ==
    /\ phase = "commit"
    /\ table' = IF tx = "aborted" THEN saved ELSE table
    /\ tx' = "none"
    /\ phase' = "afterwards"
    /\ UNCHANGED <<upVars, readVars, pending, saved, aborted, sum, outcome>>

(* COMMIT is an error: a deferred constraint or a cancel undoes the transaction, or the
   connection is lost and the server has committed or not.  The ROLLBACK that follows
   finds nothing; either way the job has failed ("failedLate": although all is there). *)
CommitFails ==
    /\ phase = "commit"
    /\ \E landed \in BOOLEAN :
          /\ table' = IF tx = "aborted" \/ (tx = "open" /\ ~landed) THEN saved ELSE table
          /\ outcome' = IF landed THEN "failedLate" ELSE "failed"
    /\ tx' = "none"
    /\ phase' = "done"
    /\ UNCHANGED <<upVars, readVars, pending, saved, aborted, sum>>

(* The result: SQL looks at the signal once more and says cancelled. *)
Finish ==
    /\ phase = "afterwards"
    /\ phase' = "done"
    /\ outcome' = IF req.kind = "sql" /\ aborted THEN "cancelledLate" ELSE "completed"
    /\ UNCHANGED <<upVars, readVars, pending, dbVars, aborted, sum>>

(* The catch: ROLLBACK, the failure is recorded; an abort is a result and not
   an error. *)
Fail ==
    /\ phase = "failing"
    /\ table' = RollBack
    /\ tx' = "none"
    /\ phase' = "done"
    /\ outcome' = IF aborted THEN "cancelled" ELSE "failed"
    /\ UNCHANGED <<upVars, readVars, pending, saved, aborted, sum>>

-----------------------------------------------------------------------------
NoRequest == [kind |-> "none", engine |-> "none", single |-> FALSE,
              truncate |-> FALSE, header |-> FALSE, batch |-> 1]

Old == <<"old">>                        \* the row the target had before

Init ==
    /\ text \in CsvTexts \cup SqlTexts
    /\ body = text \o EndMarker \o Final
    /\ buffer = <<>>
    /\ file = <<>>
    /\ phase = "uploading"
    /\ req = NoRequest
    /\ records = <<>>
    /\ reference = <<>>
    /\ pairSplit = FALSE
    /\ pending = <<>>
    /\ table = <<Old>>
    /\ saved = <<Old>>
    /\ tx = "none"
    /\ aborted = FALSE
    /\ sum = [ok |-> 0, bad |-> 0]
    /\ outcome = "none"

Next ==
    \/ FillBuffer \/ FoundMarker \/ BrokenOff
    \/ Create \/ Abort \/ Begin
    \/ StatementRuns \/ StatementFails \/ SqlDone
    \/ TakeBatch \/ RetryRow \/ CsvAborted \/ CsvDone
    \/ Commit \/ CommitFails \/ Finish \/ Fail

Spec == Init /\ [][Next]_vars

-----------------------------------------------------------------------------
(* The stored upload is the file the user chose, however the network cut the
   body, and no body that arrives whole is refused: MultipartFileReader holds
   back what may be the beginning of the boundary (import/routes.ts chunks). *)
UploadIsWhole ==
    CASE phase = "uploading" -> TRUE
      [] phase = "rejected" -> body # <<>>
      [] OTHER -> file = text

(* The records do not depend on how the file was cut into chunks, unless a
   token of two characters was cut in two: csvRecords and sqlRecords carry the
   quotes, the comments and the unfinished record from chunk to chunk. *)
ChunksDoNotMatter ==
    phase \in {"begin", "running"} /\ sum = [ok |-> 0, bad |-> 0] /\ ~pairSplit
        => records = reference

(* Nothing in the import ends its transaction before its COMMIT: no TRUNCATE on MySQL and
   no statement of the file. *)
Atomic ==
    /\ req.single
    /\ ~(req.truncate /\ req.engine = "mysql")
    /\ ~(req.kind = "sql" /\ EndsTransaction(text))

Imported == SelectSeq(table, LAMBDA row : row # Old)

(* An import in one transaction leaves the target as it was, or with every
   record of the file but the ones it reports as failed: never with a part of
   it, wherever an error or a cancellation comes.  When it failed or was
   cancelled the target is as it was, unless the answer to COMMIT was lost or the
   cancel came after it.  Exempt is what ends the transaction early: the
   truncating import on MySQL, a SQL file with a COMMIT, and on MySQL one that
   changes the schema; what these leave is PartialIsReported's. *)
AllOrNothing ==
    phase = "done" /\ Atomic =>
        \/ table = saved
        \/ /\ outcome \in {"completed", "cancelledLate", "failedLate"}
           /\ Len(Imported) + sum.bad = Len(reference) \/ pairSplit

(* What runs outside a transaction is reported as it is in the target: the
   rows or statements counted as succeeded are there, all of them and no
   others, whether the import ended, failed or was cancelled.  Of a SQL file
   that ends its own transaction they are there, or, when it failed before that,
   the target is as it was. *)
PartialIsReported ==
    phase = "done" /\ ~Atomic =>
        \/ Len(Imported) = sum.ok
        \/ req.single /\ req.kind = "sql" /\ table = saved

(* Not so, and checked by no run: mode `single` is rolled back when it fails or is cancelled
   (0048 index.md:28 and :31).  On MySQL a statement that changes the schema, as every dump
   has, commits inside withTransaction, and so does a COMMIT in the file on either engine
   (import/index.ts:834-880): a later failure leaves what came before. *)
SingleIsRolledBack ==
    phase = "done" /\ req.single /\ req.kind = "sql" /\ outcome \in {"failed", "cancelled"}
        => table = saved

(* "hasil akhir job memuat ringkasan: statement/baris sukses, gagal, durasi":
   the rows a completed import counts as succeeded are in the target. *)
CompletedIsReported ==
    phase = "done" /\ outcome = "completed" => Len(Imported) = sum.ok
=============================================================================
