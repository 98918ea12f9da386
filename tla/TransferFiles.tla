--------------------------- MODULE TransferFiles ---------------------------
(***************************************************************************)
(* The files behind uploads, exports, backups and restores: who writes     *)
(* them, under which name they become visible, who serves and reads them   *)
(* and who removes them, while jobs fail, are cancelled, expire, or die    *)
(* with the process.  Uploads and backups are made visible by a manifest   *)
(* on disk, exports by an entry in memory.                                 *)
(*                                                                         *)
(* A task is one upload or one job.  A file is a record: what it is a file *)
(* of, which part (the partial file, the data, the manifest or, for        *)
(* backups, the temporary manifest), its name, the task whose bytes it     *)
(* holds, and whether they are all there.  Removing the files of a task is *)
(* one step, which a crash may interrupt between any two of them.          *)
(***************************************************************************)
EXTENDS Integers, FiniteSets

CONSTANTS
    Tasks,          \* ids of uploads and jobs
    Users,
    Names,          \* file names of backups: label, second and suffix
    MaxActive,      \* EXPORT_ and IMPORT_MAX_ACTIVE_JOBS_PER_USER
    MaxCrashes      \* bound on restarts of the process

ASSUME TransferAssumption ==
    /\ Tasks # {} /\ Users # {} /\ Names # {}
    /\ Names \cap Tasks = {}
    /\ MaxActive \in Nat \ {0} /\ MaxCrashes \in Nat

VARIABLES
    disk,           \* the files
    task,           \* per task: what it is, whose, and how far it has come
    artifacts,      \* ExportService.artifacts: the exports with an entry
    downloaded,     \* ... and those of them with downloadedAt
    graced,         \* exports whose grace after the download is over
    expired,        \* uploads and exports whose retention is over
    condemned,      \* uploads whose removal was decided and has not happened yet
    deleted,        \* ghost: backups that were deleted under their name
    crashes

exports == <<artifacts, downloaded, graced>>
vars == <<disk, task, exports, expired, condemned, deleted, crashes>>

NoTask == [kind |-> "none", owner |-> "nobody", name |-> "none", phase |-> "new",
           cancel |-> FALSE, source |-> "none"]

Uploads == {"importUpload", "restoreUpload"}
Jobs == {"export", "import", "backup", "restore"}

\* The job is with the manager: queued, or running and at this point of its executor.
Running == {"writing", "dumped", "renamed", "manifest", "published", "reading"}
Busy == Running \cup {"queued"}

File(k, p, n, t, w) == [kind |-> k, part |-> p, name |-> n, of |-> t, whole |-> w]

Named(k, p, n) == {f \in disk : f.kind = k /\ f.part = p /\ f.name = n}
Exists(k, p, n) == Named(k, p, n) # {}
OfTask(t) == {f \in disk : f.of = t}

(* The partial file of a backup carries the id of its task in its name; that of
   an upload or an export is named by the task anyway. *)
Partial(t) == {f \in OfTask(t) : f.part = "partial"}

Is(t, k, p) == task[t].kind = k /\ task[t].phase = p
Goto(t, p) == task' = [task EXCEPT ![t].phase = p]
New(t, u, k, n, p, s) ==
    /\ task[t] = NoTask
    /\ task' = [task EXCEPT ![t] = [kind |-> k, owner |-> u, name |-> n, phase |-> p,
                                    cancel |-> FALSE, source |-> s]]

(* JobManager: what returns after a cancel is cancelled, and so is what throws. *)
Ended(t) == IF task[t].cancel THEN "cancelled" ELSE "completed"
Failed(t) == IF task[t].cancel THEN "cancelled" ELSE "failed"

-----------------------------------------------------------------------------
(* Uploads: ImportUploadStore and RestoreUploadStore                       *)

(* save: the partial file is opened and filled. *)
StartUpload(t, u, k) ==
    /\ New(t, u, k, t, "writing", "none")
    /\ disk' = disk \cup {File(k, "partial", t, t, FALSE)}
    /\ UNCHANGED <<exports, expired, condemned, deleted, crashes>>

(* The stream ended within the limit: the file is renamed ... *)
UploadWritten(t) ==
    /\ task[t].kind \in Uploads /\ task[t].phase = "writing"
    /\ disk' = (disk \ Partial(t)) \cup {File(task[t].kind, "data", t, t, TRUE)}
    /\ Goto(t, "renamed")
    /\ UNCHANGED <<exports, expired, condemned, deleted, crashes>>

(* ... and its manifest created, empty at first: a sweep may read it now ... *)
OpenManifest(t) ==
    /\ task[t].kind \in Uploads /\ task[t].phase = "renamed"
    /\ disk' = disk \cup {File(task[t].kind, "manifest", t, t, FALSE)}
    /\ Goto(t, "manifest")
    /\ UNCHANGED <<exports, expired, condemned, deleted, crashes>>

(* ... or remove it before it is written.  RestoreService.upload has yet to look
   into the file. *)
SaveManifest(t) ==
    /\ task[t].kind \in Uploads /\ task[t].phase = "manifest"
    /\ LET open == File(task[t].kind, "manifest", t, t, FALSE) IN
       disk' = IF open \in disk
               THEN (disk \ {open}) \cup {File(task[t].kind, "manifest", t, t, TRUE)} ELSE disk
    /\ Goto(t, IF task[t].kind = "restoreUpload" THEN "saved" ELSE "completed")
    /\ UNCHANGED <<exports, expired, condemned, deleted, crashes>>

(* remove: all three files. *)
Remove(t) == disk \ {f \in disk : f.kind \in Uploads /\ f.name = t}

(* A plausible slip: the catch removes only the partial file. *)
RemoveOnlyPartial(t) == disk \ Partial(t)

(* What the catch of save removes. *)
RemovedByCatch(t) == Remove(t)

(* Too large, empty, broken off, or the disk fails: the catch of save. *)
UploadFails(t) ==
    /\ task[t].kind \in Uploads /\ task[t].phase \in {"writing", "renamed", "manifest"}
    /\ disk' = RemovedByCatch(t)
    /\ Goto(t, "failed")
    /\ UNCHANGED <<exports, expired, condemned, deleted, crashes>>

(* get: the manifest is there and the owner's, not expired, and so is the file. *)
UploadServed(u, k, t) ==
    /\ \E f \in Named(k, "manifest", t) : f.whole /\ task[f.of].owner = u
    /\ t \notin expired
    /\ Exists(k, "data", t)

(* RestoreService.upload: what was saved is a dump; it is not, or is gone. *)
UploadAccepted(t) ==
    /\ Is(t, "restoreUpload", "saved")
    /\ UploadServed(task[t].owner, "restoreUpload", t)
    /\ Goto(t, "completed")
    /\ UNCHANGED <<disk, exports, expired, condemned, deleted, crashes>>

UploadRefused(t) ==
    /\ Is(t, "restoreUpload", "saved")
    /\ disk' = Remove(t)
    /\ Goto(t, "failed")
    /\ UNCHANGED <<exports, expired, condemned, deleted, crashes>>

(* cleanup of both stores, and get: a manifest is read that is not whole or whose
   time is over ... *)
CondemnUpload(t) ==
    /\ \E k \in Uploads : \E f \in Named(k, "manifest", t) : ~f.whole \/ t \in expired
    /\ condemned' = condemned \cup {t}
    /\ UNCHANGED <<disk, task, exports, expired, deleted, crashes>>

(* A plausible slip: the sweep looks for the data of the upload only. *)
SweptData(t) == {f \in disk : ~(f.kind \in Uploads /\ f.name = t /\ f.part = "data")}

Swept(t) == Remove(t)

(* ... and after that await, whatever became of the upload, it is removed. *)
SweepUpload(t) ==
    /\ t \in condemned
    /\ disk' = Swept(t)
    /\ condemned' = condemned \ {t}
    /\ UNCHANGED <<task, exports, expired, deleted, crashes>>

-----------------------------------------------------------------------------
(* Exports and imports: a job for a user below the limit                   *)

Active(u, k) ==
    {t \in Tasks : task[t].kind = k /\ task[t].owner = u /\ task[t].phase \in Busy}

(* create: the limit is looked at before the provider or the upload is asked ... *)
CheckLimit(t, u, k) ==
    /\ Cardinality(Active(u, k)) < MaxActive
    /\ New(t, u, k, t, "checked", "none")
    /\ UNCHANGED <<disk, exports, expired, condemned, deleted, crashes>>

(* ... and the job is submitted after it, or not. *)
SubmitExport(t) ==
    /\ Is(t, "export", "checked")
    /\ Goto(t, "queued")
    /\ UNCHANGED <<disk, exports, expired, condemned, deleted, crashes>>

(* createSql, createCsv: the job keeps the path of the upload. *)
SubmitImport(t) ==
    /\ Is(t, "import", "checked")
    /\ \E s \in Tasks :
          /\ UploadServed(task[t].owner, "importUpload", s)
          /\ task' = [task EXCEPT ![t].phase = "queued", ![t].source = s]
    /\ UNCHANGED <<disk, exports, expired, condemned, deleted, crashes>>

Refuse(t) ==
    /\ task[t].phase = "checked"
    /\ Goto(t, "refused")
    /\ UNCHANGED <<disk, exports, expired, condemned, deleted, crashes>>

(* execute: the partial file is opened. *)
RunExport(t) ==
    /\ Is(t, "export", "queued")
    /\ Goto(t, "writing")
    /\ disk' = disk \cup {File("export", "partial", t, t, FALSE)}
    /\ UNCHANGED <<exports, expired, condemned, deleted, crashes>>

(* Every row is written, the file is closed and renamed. *)
ExportWritten(t) ==
    /\ Is(t, "export", "writing")
    /\ disk' = (disk \ Partial(t)) \cup {File("export", "data", t, t, TRUE)}
    /\ Goto(t, "renamed")
    /\ UNCHANGED <<exports, expired, condemned, deleted, crashes>>

(* The entry is made: its retention counts from here. *)
Publish(t) ==
    /\ Is(t, "export", "renamed")
    /\ artifacts' = artifacts \cup {t}
    /\ Goto(t, "published")
    /\ UNCHANGED <<disk, downloaded, graced, expired, condemned, deleted, crashes>>

FinishExport(t) ==
    /\ Is(t, "export", "published")
    /\ Goto(t, Ended(t))
    /\ UNCHANGED <<disk, exports, expired, condemned, deleted, crashes>>

(* The catch of execute, from the directory to the record of the audit: both
   files go; an entry already made in `artifacts` stays. *)
ExportFails(t) ==
    /\ task[t].kind = "export" /\ task[t].phase \in Busy
    /\ disk' = disk \ OfTask(t)
    /\ Goto(t, Failed(t))
    /\ UNCHANGED <<exports, expired, condemned, deleted, crashes>>

(* The entries cleanup removes: retention or grace is over. *)
Due == {t \in artifacts : t \in expired \/ t \in graced}

(* removeArtifact, for a set of entries: they go with their files. *)
RemoveArtifacts(S) ==
    /\ artifacts' = artifacts \ S
    /\ disk' = disk \ {f \in disk : f.kind = "export" /\ f.name \in S}

CleanupExports ==
    /\ Due # {}
    /\ RemoveArtifacts(Due)
    /\ downloaded' = downloaded \ Due
    /\ UNCHANGED <<task, graced, expired, condemned, deleted, crashes>>

(* download: the job is its owner's and completed, the entry not expired. *)
ExportFound(u, t) == t \in artifacts /\ task[t].owner = u /\ task[t].phase = "completed"
ExportServed(u, t) == ExportFound(u, t) /\ t \notin expired

(* download starts with the clean-up of the others, even when it then serves
   nothing; an expired export goes when it is asked for, and a grace that is over
   does not keep an export from being downloaded again. *)
Download(t, u) ==
    LET gone == {d \in Due : d # t \/ (ExportFound(u, t) /\ t \in expired)} IN
    /\ RemoveArtifacts(gone)
    /\ downloaded' = (downloaded \cup {d \in {t} : ExportServed(u, t)}) \ gone
    /\ UNCHANGED <<task, graced, expired, condemned, deleted, crashes>>

(* JobManager forgets a completed job an hour after its end, the entry of its
   artifact expires an hour after the rename. *)
ForgetJob(t) ==
    /\ Is(t, "export", "completed")
    /\ t \in expired
    /\ Goto(t, "forgotten")
    /\ UNCHANGED <<disk, exports, expired, condemned, deleted, crashes>>

-----------------------------------------------------------------------------
(* Backups                                                                 *)

(* create: a name no artifact has; the label and the second are the user's and
   the clock's, so two backups may ask for the same one. *)
Allocate(t, u, n) ==
    /\ ~Exists("backup", "data", n)
    /\ New(t, u, "backup", n, "queued", "none")
    /\ UNCHANGED <<disk, exports, expired, condemned, deleted, crashes>>

RunDump(t) ==
    /\ Is(t, "backup", "queued")
    /\ Goto(t, "writing")
    /\ disk' = disk \cup {File("backup", "partial", task[t].name, t, FALSE)}
    /\ UNCHANGED <<exports, expired, condemned, deleted, crashes>>

(* The tool ended with 0, not cancelled, the header is a dump's. *)
Dumped(t) ==
    /\ Is(t, "backup", "writing")
    /\ ~task[t].cancel
    /\ Goto(t, "dumped")
    /\ disk' = (disk \ Partial(t)) \cup {File("backup", "partial", task[t].name, t, TRUE)}
    /\ UNCHANGED <<exports, expired, condemned, deleted, crashes>>

(* commit: the rename of the data replaces a file of that name ... *)
CommitData(t) ==
    /\ Is(t, "backup", "dumped")
    /\ disk' = (disk \ (Partial(t) \cup Named("backup", "data", task[t].name)))
                  \cup {File("backup", "data", task[t].name, t, TRUE)}
    /\ Goto(t, "renamed")
    /\ UNCHANGED <<exports, expired, condemned, deleted, crashes>>

(* ... the manifest is opened under a name of the task's own ... *)
TemporaryManifest(t, w) == File("backup", "manifestPartial", task[t].name, t, w)

OpenTemporaryManifest(t) ==
    /\ Is(t, "backup", "renamed")
    /\ TemporaryManifest(t, FALSE) \notin disk
    /\ disk' = disk \cup {TemporaryManifest(t, FALSE)}
    /\ UNCHANGED <<task, exports, expired, condemned, deleted, crashes>>

(* ... and written there ... *)
WriteManifest(t) ==
    /\ Is(t, "backup", "renamed")
    /\ TemporaryManifest(t, FALSE) \in disk
    /\ disk' = (disk \ {TemporaryManifest(t, FALSE)}) \cup {TemporaryManifest(t, TRUE)}
    /\ Goto(t, "manifest")
    /\ UNCHANGED <<exports, expired, condemned, deleted, crashes>>

(* ... and its rename replaces one of that name as well. *)
CommitManifest(t) ==
    /\ Is(t, "backup", "manifest")
    /\ disk' = (disk \ (Named("backup", "manifest", task[t].name)
                          \cup {f \in OfTask(t) : f.part = "manifestPartial"}))
                  \cup {File("backup", "manifest", task[t].name, t, TRUE)}
    /\ Goto(t, "published")
    /\ UNCHANGED <<exports, expired, condemned, deleted, crashes>>

FinishBackup(t) ==
    /\ Is(t, "backup", "published")
    /\ Goto(t, Ended(t))
    /\ UNCHANGED <<disk, exports, expired, condemned, deleted, crashes>>

RemovePartial(t) == disk \ Partial(t)

(* The command cannot be prepared, the tool fails or is killed, the disk or the
   record of the audit fails: the partial file of the dump goes, what was renamed
   and a temporary manifest stay. *)
BackupFails(t) ==
    /\ task[t].kind = "backup" /\ task[t].phase \in Busy
    /\ disk' = RemovePartial(t)
    /\ Goto(t, Failed(t))
    /\ UNCHANGED <<exports, expired, condemned, deleted, crashes>>

(* find: the manifest is the owner's and the data is there. *)
BackupServed(u, n) ==
    /\ \E f \in Named("backup", "manifest", n) : task[f.of].owner = u
    /\ Exists("backup", "data", n)

\* The backups whose data is, or was replaced by what is, under one of these names.
Under(N) ==
    {t \in Tasks : /\ task[t].kind = "backup" /\ task[t].name \in N
                   /\ task[t].phase \notin {"queued", "writing", "dumped"}}

(* delete, confirmed with the exact file name. *)
DeleteBackup(u, n) ==
    /\ BackupServed(u, n)
    /\ deleted' = deleted \cup Under({n})
    /\ disk' = disk \ (Named("backup", "data", n) \cup Named("backup", "manifest", n))
    /\ UNCHANGED <<task, exports, expired, condemned, crashes>>

-----------------------------------------------------------------------------
(* The jobs that read a file: restores and imports                         *)

(* create: the source is served to the owner, its header is inspected, the name
   of the target is typed again; the job keeps the path. *)
CreateRestore(t, u) ==
    /\ \E s \in Names \cup Tasks :
          /\ \/ s \in Names /\ BackupServed(u, s)
             \/ s \in Tasks /\ UploadServed(u, "restoreUpload", s)
          /\ New(t, u, "restore", t, "queued", s)
    /\ UNCHANGED <<disk, exports, expired, condemned, deleted, crashes>>

\* What is at the path now.
SourceFile(t) ==
    {f \in disk : f.part = "data" /\ f.name = task[t].source
                  /\ f.kind \in Uploads \cup {"backup"}}

(* The job runs and the file is opened: from here it can be read to its end even
   when its name goes. *)
OpenSource(t) ==
    /\ task[t].kind \in {"import", "restore"} /\ task[t].phase = "queued"
    /\ SourceFile(t) # {}
    /\ Goto(t, "reading")
    /\ UNCHANGED <<disk, exports, expired, condemned, deleted, crashes>>

(* executeSql, executeCsv: a cancelled one returns as well; the upload stays. *)
ImportEnds(t) ==
    /\ Is(t, "import", "reading")
    /\ Goto(t, Ended(t))
    /\ UNCHANGED <<disk, exports, expired, condemned, deleted, crashes>>

(* executeRestore: the tool took the whole source; an upload is consumed. *)
RestoreEnds(t) ==
    /\ Is(t, "restore", "reading")
    /\ disk' = IF task[t].source \in Tasks THEN Remove(task[t].source) ELSE disk
    /\ Goto(t, Ended(t))
    /\ UNCHANGED <<exports, expired, condemned, deleted, crashes>>

(* The source is gone, the target or the tool fails or is killed: it stays. *)
ReaderFails(t) ==
    /\ task[t].kind \in {"import", "restore"} /\ task[t].phase \in {"queued", "reading"}
    /\ Goto(t, Failed(t))
    /\ UNCHANGED <<disk, exports, expired, condemned, deleted, crashes>>

-----------------------------------------------------------------------------
(* Cancellation, time and crashes                                          *)

(* JobManager.cancel: a queued job ends, a running one is told. *)
Cancel(t) ==
    /\ task[t].kind \in Jobs /\ task[t].phase \in Busy
    /\ ~task[t].cancel
    /\ task' = IF task[t].phase = "queued" THEN [task EXCEPT ![t].phase = "cancelled"]
                                           ELSE [task EXCEPT ![t].cancel = TRUE]
    /\ UNCHANGED <<disk, exports, expired, condemned, deleted, crashes>>

(* Retention runs out: of an import upload from the start of its save, of a
   restore upload from its manifest, of an export from its entry. *)
Expire(t) ==
    /\ \/ task[t].kind = "importUpload" /\ OfTask(t) # {}
       \/ task[t].kind = "restoreUpload" /\ Exists("restoreUpload", "manifest", t)
       \/ t \in artifacts
    /\ t \notin expired
    /\ expired' = expired \cup {t}
    /\ UNCHANGED <<disk, task, exports, condemned, deleted, crashes>>

(* Ten minutes after a download. *)
GraceOver(t) ==
    /\ t \in downloaded \ graced
    /\ graced' = graced \cup {t}
    /\ UNCHANGED <<disk, task, artifacts, downloaded, expired, condemned, deleted, crashes>>

\* The files some removal may be at: the catch blocks, the sweeps, a restore that consumes
\* its upload, and delete.
BeingRemoved ==
    {f \in disk :
        \/ f.kind \in Uploads
           /\ \/ f.of \in condemned
              \/ task[f.of].phase \in Running \cup {"saved"}
              \/ \E t \in Tasks : Is(t, "restore", "reading") /\ task[t].source = f.of
        \/ f.kind = "export" /\ (task[f.of].phase \in Running \/ f.of \in Due)
        \/ f.kind = "backup"
           /\ \/ f.part = "partial" /\ task[f.of].phase \in Running
              \/ f.part \in {"data", "manifest"} /\ \E u \in Users : BackupServed(u, f.name)}

(* The process dies and starts again: jobs, requests and the map of exports are
   gone, the files are not, except those of removals that were under way. *)
Crash ==
    /\ crashes < MaxCrashes
    /\ crashes' = crashes + 1
    /\ task' = [t \in Tasks |->
                  IF task[t].phase \in Busy \cup {"checked", "saved"}
                  THEN [task[t] EXCEPT !.phase = "lost"]
                  ELSE IF task[t].kind = "export" /\ task[t].phase = "completed"
                  THEN [task[t] EXCEPT !.phase = "forgotten"] ELSE task[t]]
    /\ artifacts' = {} /\ downloaded' = {} /\ condemned' = {}
    /\ \E S \in SUBSET BeingRemoved :
          /\ disk' = disk \ S
          /\ deleted' = deleted \cup Under({f.name : f \in {g \in S : g.kind = "backup"
                                                                /\ g.part # "partial"}})
    /\ UNCHANGED <<graced, expired>>

-----------------------------------------------------------------------------
Init ==
    /\ disk = {}
    /\ task = [t \in Tasks |-> NoTask]
    /\ artifacts = {} /\ downloaded = {} /\ graced = {}
    /\ expired = {}
    /\ condemned = {}
    /\ deleted = {}
    /\ crashes = 0

Upload(t) ==
    \/ \E u \in Users, k \in Uploads : StartUpload(t, u, k)
    \/ UploadWritten(t) \/ OpenManifest(t) \/ SaveManifest(t) \/ UploadFails(t)
    \/ UploadAccepted(t) \/ UploadRefused(t)

Sweep(t) == CondemnUpload(t) \/ SweepUpload(t)

Export(t) ==
    \/ SubmitExport(t) \/ RunExport(t) \/ ExportWritten(t) \/ Publish(t)
    \/ FinishExport(t) \/ ExportFails(t) \/ ForgetJob(t)
    \/ \E u \in Users : Download(t, u)

Backup(t) ==
    \/ \E u \in Users, n \in Names : Allocate(t, u, n)
    \/ RunDump(t) \/ Dumped(t) \/ CommitData(t) \/ OpenTemporaryManifest(t)
    \/ WriteManifest(t) \/ CommitManifest(t) \/ FinishBackup(t) \/ BackupFails(t)

Reader(t) ==
    \/ \E u \in Users : CreateRestore(t, u)
    \/ SubmitImport(t) \/ OpenSource(t) \/ ImportEnds(t) \/ RestoreEnds(t) \/ ReaderFails(t)

Next ==
    \/ \E t \in Tasks :
          \/ Upload(t) \/ Sweep(t) \/ Export(t) \/ Backup(t) \/ Reader(t)
          \/ \E u \in Users, k \in {"export", "import"} : CheckLimit(t, u, k)
          \/ Refuse(t) \/ Cancel(t) \/ Expire(t) \/ GraceOver(t)
    \/ \E u \in Users, n \in Names : DeleteBackup(u, n)
    \/ CleanupExports
    \/ Crash

(* The sweeps run on timers for as long as the process lives, over every manifest
   they find. *)
Sweeping == \A t \in Tasks : WF_vars(CondemnUpload(t)) /\ WF_vars(SweepUpload(t))

Spec == Init /\ [][Next]_vars /\ Sweeping

-----------------------------------------------------------------------------
(* What a task has left on the disk that failed or was cancelled, whichever step it
   was at when its catch block or the cancel came.  A failed upload or export: no
   file.  A cancelled export: no file, or its whole file when its executor came to
   its end all the same.  A backup: nothing of a dump that was not whole yet, but what was
   renamed before stays, and so does a manifest that was being written beside it, so
   that a leftover always has a whole dump under its name unless that was deleted
   (the catch blocks of save, execute and executeBackup).  It does not say that a
   failed or cancelled backup leaves nothing: see FailedBackupLeavesNothing. *)
FailureLeavesOnlyWhole ==
    \A t \in Tasks :
        task[t].phase \in {"failed", "cancelled"} =>
            /\ task[t].kind \in Uploads => OfTask(t) = {}
            /\ task[t].kind = "export" =>
                  OfTask(t) \subseteq IF task[t].phase = "failed" THEN {}
                                     ELSE {File("export", "data", t, t, TRUE)}
            /\ task[t].kind = "backup" =>
                  /\ Partial(t) = {}
                  /\ OfTask(t) # {} /\ t \notin deleted =>
                        \E s \in Tasks : File("backup", "data", task[t].name, s, TRUE) \in disk

(* Not so, and checked by no run: "Artefak parsial tidak pernah tersisa (cancel/gagal
   membersihkan)" (0049 index.md:101).  executeBackup only removes the partial file of
   the dump: a backup that fails or is cancelled after the rename keeps its data, the
   temporary manifest or, listed and served, both (backup-service.ts:177-193, 428-430). *)
FailedBackupLeavesNothing ==
    \A t \in Tasks :
        task[t].kind = "backup" /\ task[t].phase \in {"failed", "cancelled"} => OfTask(t) = {}

(* What get, find and download hand out is a whole file, of an upload or export the
   whole file of the task asked for, whatever was renamed, removed, replaced or cut
   off by a crash in between. *)
ServedIsWhole ==
    /\ \A u \in Users, t \in Tasks :
          /\ \A k \in Uploads : UploadServed(u, k, t) => File(k, "data", t, t, TRUE) \in disk
          /\ ExportServed(u, t) => File("export", "data", t, t, TRUE) \in disk
    /\ \A u \in Users, n \in Names :
          BackupServed(u, n) => \E t \in Tasks : File("backup", "data", n, t, TRUE) \in disk

(* A completed export stays available to its owner until its retention or the
   grace after a download is over: no clean-up, failure or download of another
   task takes it away while the process lives. *)
ExportStaysAvailable ==
    \A t \in Tasks :
        Is(t, "export", "completed") /\ t \notin expired \cup graced
            => ExportServed(task[t].owner, t)

(* "artefak tidak dihapus otomatis": once a backup is completed there is
   a whole dump under its name until that name is deleted, though it may be the
   dump of a later backup that was given the same name. *)
BackupsAreKept ==
    \A t \in Tasks :
        Is(t, "backup", "completed") /\ t \notin deleted =>
            \E s \in Tasks : File("backup", "data", task[t].name, s, TRUE) \in disk

(* The files are what the service says of them: a failed upload or export leaves
   none and a failed backup no part of a dump, what is served is whole, and what was
   promised to stay is there. *)
FilesAreTrue ==
    FailureLeavesOnlyWhole /\ ServedIsWhole /\ ExportStaysAvailable /\ BackupsAreKept

(* The files of an expired upload go away, all of them, unless the process dies
   first: the sweeps of the import and restore stores find every upload that has a
   manifest. *)
ExpiredGoesAway ==
    \A t \in Tasks, c \in 0 .. MaxCrashes :
        ((\E k \in Uploads : Exists(k, "manifest", t)) /\ t \in expired /\ crashes = c)
            ~> (crashes # c \/ OfTask(t) = {})
=============================================================================
