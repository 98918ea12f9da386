---------------------------- MODULE NativeTools ----------------------------
(***************************************************************************)
(* A backup or a restore job runs a native tool (pg_dump, psql, mysqldump, *)
(* mysql): how the job is created, the providers' prepare() and            *)
(* prepareRestore() with their temporary files, and BackupExecutor and     *)
(* RestoreExecutor, which connect the tool's pipes to a file and race the  *)
(* job's abort signal.                                                     *)
(*                                                                         *)
(* A dump is Chunks chunks.  The pipe to or from the tool holds one chunk. *)
(* The tool goes at its own pace, may fail at any point, and dies of       *)
(* SIGTERM when it gets round to it.  A source that is compressed may be   *)
(* truncated: reading it fails after some of the chunks.                   *)
(***************************************************************************)
EXTENDS Naturals

CONSTANTS Engines,      \* {"postgresql", "mysql"}
          Chunks        \* length of a dump

VARIABLES job,          \* the request and its job
          tool,         \* the child process
          temp,         \* the temporary directory with the password or certificate
          file,         \* dump: the partial file; restore: the source
          db            \* restore: what the target database holds

vars == <<job, tool, temp, file, db>>

Dump == "dump"
Load == "restore"
Over == {"refused", "completed", "failed", "cancelled"}

NoTool == [state |-> "none", chunks |-> 0, eof |-> FALSE, killed |-> FALSE, ok |-> FALSE]

\* What a request says, and the native tool it will meet.  dump is the engine
\* whose marks the head of the source bears; only a restore has one.
Requests ==
  {r \in [kind: {Dump, Load}, engine: Engines, safeName: BOOLEAN, confirmed: BOOLEAN,
          dump: Engines \cup {"unmarked", "notSql"}, password: BOOLEAN, createNew: BOOLEAN,
          tool: {"missing", "older", "fits"}] :
     r.kind = Dump => r.confirmed /\ r.dump = "unmarked" /\ ~r.createNew}

Init ==
  /\ \E r \in Requests :
       job = [req |-> r, kind |-> r.kind, engine |-> r.engine, tool |-> r.tool,
              phase |-> "create", signal |-> FALSE, listening |-> FALSE,
              aborted |-> FALSE, done |-> 0]
  /\ tool = NoTool
  /\ temp = FALSE
  /\ file = IF job.kind = Dump THEN 0 ELSE Chunks
  /\ db = 0

Goto(p) == job' = [job EXCEPT !.phase = p]
Running == tool.state = "running"

-----------------------------------------------------------------------------
(* Creating the job.                                                       *)

\* A name that a command line could take for an option or a path is refused.
normalizeBackupInput == job.req.safeName
normalizeRestoreInput == job.req.safeName

\* The source must look like SQL.
readDumpHeader == job.req.dump # "notSql"

\* A dump marked as another engine's is refused; an unmarked one is not.
assertEngineCompatible == job.req.dump \in {"unmarked", job.engine}

assertConfirmation == job.req.confirmed

\* detectNativeTool(): there and executable.
inspect == job.tool # "missing"

\* describe() also compares the major versions with the server's: PostgreSQL's
\* for both tools, MySQL's for the restore only.
describePostgresql == job.tool = "fits"
describeMysql == IF job.kind = Load THEN job.tool = "fits" ELSE inspect
describe == IF job.engine = "mysql" THEN describeMysql ELSE describePostgresql

\* BackupService.create(): inspect() is all that is asked of the tool.
CreateBackup ==
  /\ job.phase = "create" /\ job.kind = Dump
  /\ Goto(IF normalizeBackupInput /\ inspect /\ job.req.password THEN "queued" ELSE "refused")
  /\ UNCHANGED <<tool, temp, file, db>>

\* RestoreService.create(), to its preflight.  A database still to be created
\* has none.
CreateRestore ==
  /\ job.phase = "create" /\ job.kind = Load
  /\ Goto(IF normalizeRestoreInput /\ readDumpHeader /\ assertEngineCompatible
             /\ assertConfirmation /\ job.req.password /\ describe
          THEN IF job.req.createNew THEN "queued" ELSE "preflight"
          ELSE "refused")
  /\ UNCHANGED <<tool, temp, file, db>>

\* While the job waits for its turn the tool is removed or the server upgraded.
ToolChanges ==
  /\ job.phase = "queued" /\ job.tool = "fits"
  /\ \E t \in {"missing", "older"} : job' = [job EXCEPT !.tool = t]
  /\ UNCHANGED <<tool, temp, file, db>>

\* The job manager gives the job its turn; a restore may create its target.
Run ==
  /\ job.phase = "queued"
  /\ Goto(IF job.req.createNew THEN "createDatabase" ELSE "prepare")
  /\ UNCHANGED <<tool, temp, file, db>>

CreateDatabase ==
  /\ job.phase = "createDatabase"
  /\ Goto("prepare") \/ Goto("failed")
  /\ UNCHANGED <<tool, temp, file, db>>

-----------------------------------------------------------------------------
(* Preparing the command; the preflight of a restore prepares it too, and  *)
(* cleans up at once.                                                      *)

Preparing == job.phase = "prepare" \/ (job.phase = "preflight" /\ job.kind = Load)
Options == IF job.phase = "prepare" THEN "writeOptions" ELSE "preflightOptions"
Prepared == IF job.phase \in {"prepare", "writeOptions"} THEN "spawn" ELSE "queued"
GivenUp == IF job.phase \in {"prepare", "writeOptions"} THEN "failed" ELSE "refused"

\* The tool is looked at again; for a dump its version is not.
Unsupported ==
  /\ Preparing
  /\ ~(IF job.kind = Dump THEN inspect ELSE describe)
  /\ Goto(GivenUp)
  /\ UNCHANGED <<tool, temp, file, db>>

\* MySQL: a directory for the option file with the password.
MysqlPrepare ==
  /\ Preparing /\ job.engine = "mysql" /\ job.kind = Dump /\ inspect
  /\ temp' = TRUE
  /\ Goto(Options)
  /\ UNCHANGED <<tool, file, db>>

MysqlPrepareRestore ==
  /\ Preparing /\ job.engine = "mysql" /\ job.kind = Load /\ describe
  /\ temp' = TRUE
  /\ Goto(Options)
  /\ UNCHANGED <<tool, file, db>>

\* PostgreSQL: a directory only for the certificate, if the connection has one.
PostgresqlPrepare ==
  /\ Preparing /\ job.engine = "postgresql" /\ job.kind = Dump /\ inspect
  /\ \E certificate \in BOOLEAN :
       temp' = certificate /\ Goto(IF certificate THEN Options ELSE Prepared)
  /\ UNCHANGED <<tool, file, db>>

PostgresqlPrepareRestore ==
  /\ Preparing /\ job.engine = "postgresql" /\ job.kind = Load /\ describe
  /\ \E certificate \in BOOLEAN :
       temp' = certificate /\ Goto(IF certificate THEN Options ELSE Prepared)
  /\ UNCHANGED <<tool, file, db>>

OptionsWritten ==
  /\ job.phase \in {"writeOptions", "preflightOptions"}
  /\ temp' = (job.phase = "writeOptions")
  /\ Goto(Prepared)
  /\ UNCHANGED <<tool, file, db>>

\* The file cannot be written: MySQL's adapter removes the directory again.
OptionsFail ==
  /\ job.phase \in {"writeOptions", "preflightOptions"}
  /\ temp' = (job.engine = "postgresql")
  /\ Goto(GivenUp)
  /\ UNCHANGED <<tool, file, db>>

\* plan.cleanup(), in a finally.
cleanup == temp' = FALSE

-----------------------------------------------------------------------------
(* The executor.                                                           *)

\* run(): the process is started whether or not the signal is set already.
Spawn ==
  /\ job.phase = "spawn"
  /\ tool' = [NoTool EXCEPT !.state = "running"]
  /\ Goto(IF job.kind = Dump THEN "open" ELSE "listen")
  /\ UNCHANGED <<temp, file, db>>

\* A dump awaits the opening of its file before it listens.
Opened ==
  /\ job.phase = "open"
  /\ Goto("listen")
  /\ UNCHANGED <<tool, temp, file, db>>

\* The listener is added; the signal was not set.
Listen ==
  /\ job.phase = "listen" /\ ~job.signal
  /\ job' = [job EXCEPT !.phase = "stream", !.listening = TRUE]
  /\ UNCHANGED <<tool, temp, file, db>>

\* The signal was set before: run() throws.  Only the restore ends the tool's
\* input; nobody kills it.
AlreadyAborted ==
  /\ job.phase = "listen" /\ job.signal
  /\ Goto("cancelled") /\ cleanup
  /\ tool' = [tool EXCEPT !.eof = (job.kind = Load)]
  /\ UNCHANGED <<file, db>>

\* The file cannot be opened: nothing was told to the tool.
OpenFails ==
  /\ job.phase = "open" /\ job.kind = Dump
  /\ Goto("failed") /\ cleanup
  /\ UNCHANGED <<tool, file, db>>

\* The listener only rejects, and leaves the tool alone (a mutant).
NotKilled == tool

\* What the listener does to the tool: it kills it, and the restore's also gives
\* up its stdin.
Killed == [tool EXCEPT !.killed = TRUE, !.eof = (@ \/ job.kind = Load)]

\* The job is cancelled.  Before the executor listens
\* nothing hears it.
Cancel ==
  /\ ~job.signal /\ job.phase \in {"createDatabase", "prepare", "writeOptions", "spawn",
                                  "open", "stream", "wait", "exited"}
  /\ job' = [job EXCEPT !.signal = TRUE, !.aborted = @ \/ job.listening]
  /\ tool' = IF job.listening /\ Running
             THEN Killed ELSE tool
  /\ UNCHANGED <<temp, file, db>>

\* Cancelled before its turn, it never runs.
CancelQueued ==
  /\ job.phase = "queued"
  /\ Goto("cancelled")
  /\ UNCHANGED <<tool, temp, file, db>>

\* One turn of writePlain() or writeCompressed(): a chunk from the pipe.
WriteChunk ==
  /\ job.kind = Dump /\ job.phase = "stream" /\ ~job.aborted
  /\ tool.chunks > file
  /\ file' = file + 1
  /\ UNCHANGED <<job, tool, temp, db>>

\* One turn of the restore's loop: the next chunk, once the tool took the last.
SendChunk ==
  /\ job.kind = Load /\ job.phase = "stream" /\ ~job.aborted
  /\ Running /\ ~tool.eof
  /\ job.done < file /\ job.done = tool.chunks
  /\ job' = [job EXCEPT !.done = @ + 1]
  /\ UNCHANGED <<tool, temp, file, db>>

\* The stream ends; for the restore stdin is closed.
StreamEnds ==
  /\ job.phase = "stream" /\ ~job.aborted
  /\ \/ job.kind = Dump /\ ~Running /\ file = tool.chunks
     \/ job.kind = Load /\ job.done = file
  /\ Goto("wait")
  /\ tool' = IF job.kind = Load THEN [tool EXCEPT !.eof = TRUE] ELSE tool
  /\ UNCHANGED <<temp, file, db>>

\* process.exited.
Exited ==
  /\ job.phase = "wait" /\ ~Running
  /\ Goto("exited")
  /\ UNCHANGED <<tool, temp, file, db>>

\* The exit code is not looked at (a mutant).
ExitsAnyhow == TRUE

\* Exit code zero, and for a dump data with the header the provider expects.
ExitsWell == tool.ok /\ (job.kind = Dump => file > 0)

\* The finally of the dump: an incomplete file is removed.
Removed == IF job.kind = Dump THEN 0 ELSE file

\* run() returns or throws, and the caller cleans up.
RunEnds ==
  /\ job.phase = "exited"
  /\ cleanup
  /\ IF job.aborted \/ job.signal
     THEN Goto("cancelled") /\ file' = Removed
     ELSE IF ExitsWell THEN Goto("completed") /\ UNCHANGED file
                       ELSE Goto("failed") /\ file' = Removed
  /\ UNCHANGED <<tool, db>>

\* A dump's loop waits for the tool: the pipe is empty.
Blocked == job.kind = Dump /\ Running /\ tool.chunks = file

\* The loop finds the job aborted.
StopsStreaming ==
  /\ job.phase = "stream" /\ job.aborted
  /\ Goto("cancelled") /\ cleanup
  /\ file' = Removed
  /\ tool' = IF job.kind = Load THEN [tool EXCEPT !.eof = TRUE] ELSE tool
  /\ UNCHANGED db

\* Reading the source, writing the file or writing to the tool fails: the tool
\* is not killed; the finally of the restore ends its stdin.
StreamFails ==
  /\ job.phase = "stream" /\ ~job.aborted
  /\ Goto("failed") /\ cleanup
  /\ file' = Removed
  /\ tool' = IF job.kind = Load THEN [tool EXCEPT !.eof = TRUE] ELSE tool
  /\ UNCHANGED db

-----------------------------------------------------------------------------
(* The tool.                                                               *)

\* pg_dump and mysqldump write a chunk when there is room in the pipe.
ToolWrites ==
  /\ Running /\ job.kind = Dump
  /\ tool.chunks < Chunks /\ tool.chunks = file
  /\ job.phase \in {"open", "listen", "stream"}
  /\ tool' = [tool EXCEPT !.chunks = @ + 1]
  /\ UNCHANGED <<job, temp, file, db>>

\* psql and mysql read a chunk; mysql's effect is there at once, psql's with the
\* end of its single transaction.
ToolReads ==
  /\ Running /\ job.kind = Load /\ tool.chunks < job.done
  /\ tool' = [tool EXCEPT !.chunks = @ + 1]
  /\ db' = IF job.engine = "mysql" THEN tool.chunks + 1 ELSE db
  /\ UNCHANGED <<job, temp, file>>

\* The end: everything dumped, or the end of stdin reached and committed.
ToolSucceeds ==
  /\ Running
  /\ IF job.kind = Dump THEN tool.chunks = Chunks /\ UNCHANGED db
     ELSE tool.eof /\ tool.chunks = job.done /\ db' = tool.chunks
  /\ tool' = [tool EXCEPT !.state = "exited", !.ok = TRUE]
  /\ UNCHANGED <<job, temp, file>>

\* It fails, or the signal reaches it.
ToolFails ==
  /\ Running
  /\ tool' = [tool EXCEPT !.state = "exited"]
  /\ UNCHANGED <<job, temp, file, db>>

-----------------------------------------------------------------------------
Next ==
  \/ CreateBackup \/ CreateRestore \/ ToolChanges \/ Run \/ CreateDatabase
  \/ Unsupported \/ MysqlPrepare \/ MysqlPrepareRestore
  \/ PostgresqlPrepare \/ PostgresqlPrepareRestore \/ OptionsWritten \/ OptionsFail
  \/ Spawn \/ Opened \/ Listen \/ AlreadyAborted \/ OpenFails \/ Cancel \/ CancelQueued
  \/ WriteChunk \/ SendChunk \/ StreamEnds \/ Exited \/ RunEnds
  \/ StopsStreaming \/ StreamFails
  \/ ToolWrites \/ ToolReads \/ ToolSucceeds \/ ToolFails

\* The executor's turns are taken (a loop that waits for the tool takes none), and a tool that was killed dies.
Fairness ==
  /\ WF_vars(OptionsWritten \/ Spawn \/ Opened \/ Listen \/ AlreadyAborted \/ WriteChunk
             \/ SendChunk \/ StreamEnds \/ Exited \/ RunEnds)
  /\ WF_vars(~Blocked /\ StopsStreaming)
  /\ WF_vars(tool.killed /\ ToolFails)

Spec == Init /\ [][Next]_vars /\ Fairness

-----------------------------------------------------------------------------
TypeOK ==
  /\ job.done \in 0..Chunks /\ tool.chunks \in 0..Chunks
  /\ file \in 0..Chunks /\ db \in 0..Chunks
  /\ temp \in BOOLEAN

\* A job that is reported as completed did its work whole: the file holds the
\* whole dump, or the database everything of the source; and a dump that did
\* not complete leaves no file behind.
CompletedIsWhole ==
  /\ job.phase = "completed" => tool.ok /\ file = Chunks /\ (job.kind = Load => db = Chunks)
  /\ job.phase \in {"failed", "cancelled"} /\ job.kind = Dump => file = 0

\* The MySQL option file, which holds the password in clear, does not outlive
\* the job, however it ends, and the preflight's not even the request that
\* created the job.
PasswordFileRemoved ==
  job.phase \in Over \cup {"queued"} /\ job.engine = "mysql" => ~temp

\* A cancel that the executor hears ends the job and the tool with it, even when
\* the tool has stopped reading and writing.
HeardCancelEnds ==
  (job.signal /\ job.listening) ~> (job.phase \in Over)

\* "cancel kills the subprocess".  (Not so: the tool is started before the
\* executor listens, and a signal that is set by then is only thrown.)
CancelKillsTool == job.phase = "cancelled" => tool.killed \/ ~Running

\* A restore by psql in a single transaction is all or nothing.  (Not so: a
\* source that cannot be read to its end ends the tool's input, which commits.)
FailedRestoreLeavesNothing ==
  job.phase = "failed" /\ job.kind = Load /\ job.engine = "postgresql" => db \in {0, Chunks}
=============================================================================
