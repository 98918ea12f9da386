------------------------- MODULE TransferFilesProofs -------------------------
(***************************************************************************)
(* Theorems about TransferFiles, for any number of users, uploads, jobs,    *)
(* file names and restarts: the files are what the service says of them.    *)
(* It is inductive once it is known in which phase of its task a file of    *)
(* each part can still be there, whichever catch block, clean-up or crash   *)
(* came before.  Beside it, about NativeTools, for a dump of any length:    *)
(* what a job reports of its tool is what the tool did.                     *)
(***************************************************************************)
EXTENDS MCFiles, TLAPS

-----------------------------------------------------------------------------
(* The inductive invariant *)

Phases == {"new", "checked", "refused", "queued", "writing", "dumped", "renamed", "manifest",
           "saved", "published", "reading", "completed", "failed", "cancelled", "lost", "forgotten"}

TaskRow == [kind : {"none"} \cup Uploads \cup Jobs, owner : Users \cup {"nobody"},
            name : Names \cup Tasks \cup {"none"}, phase : Phases, cancel : BOOLEAN,
            source : Names \cup Tasks \cup {"none"}]

FileRow == [kind : Uploads \cup {"export", "backup"},
            part : {"partial", "data", "manifest", "manifestPartial"},
            name : Names \cup Tasks \cup {"none"}, of : Tasks, whole : BOOLEAN]

TransferTypes ==
    /\ task \in [Tasks -> TaskRow]
    /\ disk \subseteq FileRow
    /\ artifacts \subseteq Tasks

\* The phases of a backup once its data was renamed.
AfterRename == {"renamed", "manifest", "published", "completed", "failed", "cancelled", "lost"}

\* The phases a task can be in while a file of this part of it is there.
PhasesWith(kind, piece) ==
    {p \in Phases :
        /\ piece = "partial" => p \in {"writing", "dumped", "lost"}
        /\ piece = "manifestPartial" => kind = "backup"
        /\ kind = "backup" /\ piece # "partial" => p \in AfterRename
        /\ kind \in Uploads /\ piece = "data" => p \in {"renamed", "manifest", "saved", "completed", "lost"}
        /\ kind \in Uploads /\ piece = "manifest" => p \in {"manifest", "saved", "completed", "lost"}
        /\ kind = "export" => piece # "manifest"
        /\ kind = "export" /\ piece = "data" =>
              p \in {"renamed", "published", "completed", "cancelled", "lost", "forgotten"}}

\* A file belongs to the task it is named by, and data is never visible before it is whole.
FileOK(f) ==
    /\ task[f.of].kind = f.kind
    /\ f.kind # "backup" => f.name = f.of
    /\ f.part = "data" => f.whole
    /\ task[f.of].phase \in PhasesWith(f.kind, f.part)

\* An export has its data from the rename on, for as long as it has an entry, and has the
\* entry until its retention or the grace after a download is over.
ExportOK(t) ==
    /\ t \in artifacts =>
          /\ task[t].kind = "export"
          /\ task[t].phase \in {"published", "completed", "failed", "cancelled", "forgotten"}
    /\ task[t].kind = "export" =>
          /\ \/ task[t].phase = "renamed"
             \/ task[t].phase \in {"published", "completed"} /\ t \in artifacts
             => File("export", "data", t, t, TRUE) \in disk
          /\ task[t].phase \in {"published", "completed"} /\ t \notin expired \cup graced
             => t \in artifacts

\* There is a whole dump under this name.
Held(n) == \E s \in Tasks : File("backup", "data", n, s, TRUE) \in disk

\* Something of a backup is there that is no partial file of its dump.
HasLeft(t) == \E f \in disk : f.of = t /\ f.part # "partial"

\* A backup for which there should be a dump under its name: it is past the rename, or it failed
\* or was cancelled and has left something.
PastRename(t) ==
    \/ task[t].phase \in {"renamed", "manifest", "published", "completed"}
    \/ task[t].phase \in {"failed", "cancelled"} /\ HasLeft(t)

\* From the rename on there is a dump under the name of a backup, until the name is deleted.
BackupOK(t) == task[t].kind = "backup" /\ PastRename(t) /\ t \notin deleted => Held(task[t].name)

TransferInv ==
    /\ TransferTypes
    /\ \A f \in disk : FileOK(f)
    /\ \A t \in Tasks : ExportOK(t)
    /\ \A t \in Tasks : BackupOK(t)

-----------------------------------------------------------------------------
(* Lemmas *)

\* What a task keeps while it goes to phase p; the other tasks stay as they are.
Moves(t, p) ==
    /\ task' \in [Tasks -> TaskRow]
    /\ task'[t].phase = p /\ task'[t].kind = task[t].kind /\ task'[t].name = task[t].name
    /\ \A q \in Tasks : q # t => task'[q] = task[q]

\* What a first assignment, Goto or a cancel does to the tasks.
LEMMA SetTask ==
    ASSUME TransferInv, NEW t \in Tasks, NEW r \in TaskRow, task' = [task EXCEPT ![t] = r]
    PROVE  /\ task' \in [Tasks -> TaskRow] /\ task'[t] = r
           /\ \A q \in Tasks : q # t => task'[q] = task[q]
BY DEF TransferInv, TransferTypes

\* A task that goes to another phase is otherwise as it was.
LEMMA GotoMoves ==
    ASSUME TransferInv, NEW t \in Tasks, NEW p \in Phases, Goto(t, p)
    PROVE  Moves(t, p)
<1> DEFINE r == [task[t] EXCEPT !.phase = p]
<1>1. task[t] \in TaskRow
  BY DEF TransferInv, TransferTypes
<1>2. r \in TaskRow /\ r.phase = p /\ r.kind = task[t].kind /\ r.name = task[t].name
  BY <1>1 DEF TaskRow
<1>3. task' = [task EXCEPT ![t] = r]
  BY DEF Goto
<1> HIDE DEF r
<1> QED
  BY <1>2, <1>3, SetTask DEF Moves

\* What a job ends as.
LEMMA EndPhases ==
    ASSUME NEW t \in Tasks
    PROVE  /\ Ended(t) \in {"completed", "cancelled"} /\ Ended(t) \in Phases
           /\ Failed(t) \in {"failed", "cancelled"} /\ Failed(t) \in Phases
BY DEF Ended, Failed, Phases

\* A name is held for as long as no file of a backup is removed.
LEMMA HeldStays ==
    ASSUME \A f \in disk : f.kind = "backup" => f \in disk'
    PROVE  \A n : Held(n) => Held(n)'
BY DEF Held, File

\* A step of one task: it leaves the other tasks alone, what it leaves or adds of its own files
\* is in order, it removes no export of another task and takes no name away.
LEMMA TaskStep ==
    ASSUME TransferInv, NEW t \in Tasks,
           task' \in [Tasks -> TaskRow], \A q \in Tasks : q # t => task'[q] = task[q],
           disk' \subseteq FileRow, \A f \in disk' : f.of = t \/ f \in disk,
           \A f \in disk' : f.of = t => FileOK(f)',
           \A f \in disk : f.kind = "export" /\ f.of # t => f \in disk',
           \A n : Held(n) => Held(n)',
           artifacts' \subseteq Tasks, \A q \in Tasks : q # t => (q \in artifacts' <=> q \in artifacts),
           UNCHANGED <<expired, graced, deleted>>,
           ExportOK(t)', BackupOK(t)'
    PROVE  TransferInv'
<1>1. TransferTypes'
  BY DEF TransferTypes
<1>2. \A f \in disk' : FileOK(f)'
  <2> TAKE f \in disk'
  <2>1. CASE f.of = t
    BY <2>1
  <2>2. CASE f.of # t
    <3>1. f \in disk /\ f.of \in Tasks
      BY <2>2 DEF TransferInv, TransferTypes, FileRow
    <3> QED
      BY <2>2, <3>1 DEF TransferInv, FileOK
  <2> QED
    BY <2>1, <2>2
<1>3. \A q \in Tasks : ExportOK(q)'
  <2> SUFFICES ASSUME NEW q \in Tasks, q # t PROVE ExportOK(q)'
    OBVIOUS
  <2>1. File("export", "data", q, q, TRUE) \in disk => File("export", "data", q, q, TRUE) \in disk'
    BY DEF File
  <2> QED
    BY <2>1 DEF TransferInv, ExportOK
<1>4. \A q \in Tasks : BackupOK(q)'
  <2> SUFFICES ASSUME NEW q \in Tasks, q # t PROVE BackupOK(q)'
    OBVIOUS
  <2>1. BackupOK(q) /\ task'[q] = task[q] /\ deleted' = deleted
    BY DEF TransferInv
  <2>2. Held(task[q].name) => Held(task[q].name)'
    OBVIOUS
  <2> QED
    BY <2>1, <2>2 DEF BackupOK, PastRename, HasLeft, Held
<1> QED
  BY <1>1, <1>2, <1>3, <1>4 DEF TransferInv

\* Nothing that is no backup and has no bytes yet has a file.
LEMMA NoFiles ==
    ASSUME TransferInv, NEW t \in Tasks, task[t].kind # "backup",
           \/ task[t].kind \in {"none", "import", "restore"}
           \/ task[t].phase \in {"new", "checked", "refused", "queued"}
    PROVE  \A f \in disk : f.of # t
BY DEF TransferInv, TransferTypes, FileRow, FileOK, PhasesWith, Uploads

\* A step that takes one task to another phase, removes the files X and adds the files N.
LEMMA MoveStep ==
    ASSUME TransferInv, NEW t \in Tasks, NEW p \in Phases, Moves(t, p), NEW X, NEW N,
           disk' = (disk \ X) \cup N, N \subseteq FileRow,
           \A f \in N : /\ f.of = t /\ f.kind = task[t].kind
                        /\ f.kind # "backup" => f.name = t
                        /\ f.part = "data" => f.whole
                        /\ p \in PhasesWith(f.kind, f.part),
           \A f \in disk : f.of = t /\ f \notin X => p \in PhasesWith(f.kind, f.part),
           \A f \in disk : f \in X /\ f.kind = "export" => f.of = t,
           \A n : Held(n) => Held(n)',
           artifacts' \subseteq Tasks, \A q \in Tasks : q # t => (q \in artifacts' <=> q \in artifacts),
           UNCHANGED <<expired, graced, deleted>>, ExportOK(t)', BackupOK(t)'
    PROVE  TransferInv'
<1>1. /\ task' \in [Tasks -> TaskRow]
      /\ task'[t].phase = p /\ task'[t].kind = task[t].kind
      /\ \A q \in Tasks : q # t => task'[q] = task[q]
  BY DEF Moves
<1>2. disk' \subseteq FileRow /\ \A f \in disk' : f.of = t \/ f \in disk
  BY DEF TransferInv, TransferTypes
<1>3. \A f \in disk' : f.of = t => FileOK(f)'
  <2> TAKE f \in disk'
  <2> SUFFICES ASSUME f.of = t PROVE FileOK(f)'
    OBVIOUS
  <2>1. CASE f \in N
    BY <1>1, <2>1 DEF FileOK
  <2>2. CASE f \in disk /\ f \notin X
    BY <1>1, <2>2 DEF TransferInv, FileOK
  <2> QED
    BY <2>1, <2>2
<1>4. \A f \in disk : f.kind = "export" /\ f.of # t => f \in disk'
  OBVIOUS
<1> QED
  BY <1>1, <1>2, <1>3, <1>4, TaskStep

\* The same for a task that is neither an export nor a backup and touches no file of one.
LEMMA OtherMoveStep ==
    ASSUME TransferInv, NEW t \in Tasks, NEW p \in Phases, Moves(t, p), NEW X, NEW N,
           task[t].kind \notin {"export", "backup"},
           disk' = (disk \ X) \cup N, N \subseteq FileRow,
           \A f \in N : /\ f.of = t /\ f.kind = task[t].kind /\ f.name = t
                        /\ f.part = "data" => f.whole
                        /\ p \in PhasesWith(f.kind, f.part),
           \A f \in disk : f.of = t /\ f \notin X => p \in PhasesWith(f.kind, f.part),
           \A f \in disk : f \in X => f.kind \notin {"export", "backup"},
           UNCHANGED <<artifacts, expired, graced, deleted>>
    PROVE  TransferInv'
<1>1. task'[t].kind = task[t].kind
  BY DEF Moves
<1>2. ExportOK(t)' /\ BackupOK(t)'
  BY <1>1 DEF TransferInv, ExportOK, BackupOK, PastRename, HasLeft
<1>3. artifacts' \subseteq Tasks /\ \A q \in Tasks : q # t => (q \in artifacts' <=> q \in artifacts)
  BY DEF TransferInv, TransferTypes
<1>4. \A n : Held(n) => Held(n)'
  BY HeldStays
<1>5. \A f \in disk : f \in X /\ f.kind = "export" => f.of = t
  OBVIOUS
<1>6. \A f \in N : /\ f.of = t /\ f.kind = task[t].kind
                   /\ f.kind # "backup" => f.name = t
                   /\ f.part = "data" => f.whole
                   /\ p \in PhasesWith(f.kind, f.part)
  OBVIOUS
<1>7. UNCHANGED <<expired, graced, deleted>>
  OBVIOUS
<1> QED
  BY <1>2, <1>3, <1>4, <1>5, <1>6, <1>7, MoveStep

\* A task that goes on without touching a file.
LEMMA QuietStep ==
    ASSUME TransferInv, NEW t \in Tasks, NEW p \in Phases, Moves(t, p), UNCHANGED disk,
           \A f \in disk : f.of = t => p \in PhasesWith(f.kind, f.part),
           artifacts' \subseteq Tasks, \A q \in Tasks : q # t => (q \in artifacts' <=> q \in artifacts),
           UNCHANGED <<expired, graced, deleted>>, ExportOK(t)', BackupOK(t)'
    PROVE  TransferInv'
<1> DEFINE X == {f \in disk : FALSE}
           N == {f \in FileRow : FALSE}
<1>1. /\ disk' = (disk \ X) \cup N /\ N \subseteq FileRow
      /\ (\A f \in N : FALSE) /\ \A f \in X : FALSE
  OBVIOUS
<1>2. \A n : Held(n) => Held(n)'
  BY HeldStays
<1> HIDE DEF X, N
<1> QED
  BY <1>1, <1>2, MoveStep

\* The same for a task that is neither an export nor a backup.
LEMMA OtherQuietStep ==
    ASSUME TransferInv, NEW t \in Tasks, NEW p \in Phases, Moves(t, p), UNCHANGED disk,
           task[t].kind \notin {"export", "backup"},
           \A f \in disk : f.of = t => p \in PhasesWith(f.kind, f.part),
           UNCHANGED <<artifacts, expired, graced, deleted>>
    PROVE  TransferInv'
<1>1. task'[t].kind = task[t].kind
  BY DEF Moves
<1>2. ExportOK(t)' /\ BackupOK(t)'
  BY <1>1 DEF TransferInv, ExportOK, BackupOK, PastRename, HasLeft
<1>3. artifacts' \subseteq Tasks /\ \A q \in Tasks : q # t => (q \in artifacts' <=> q \in artifacts)
  BY DEF TransferInv, TransferTypes
<1> QED
  BY <1>2, <1>3, QuietStep

\* Clean-ups, deletions, downloads and time: no task changes and no file is added.
LEMMA RemoveStep ==
    ASSUME TransferInv, UNCHANGED task, disk' \subseteq disk, artifacts' \subseteq artifacts,
           \A t \in Tasks : ExportOK(t)', \A t \in Tasks : BackupOK(t)'
    PROVE  TransferInv'
BY DEF TransferInv, TransferTypes, FileOK

\* ... of which those that let the backups and the exports be only let time pass for them.
LEMMA OtherRemoveStep ==
    ASSUME TransferInv, UNCHANGED <<task, artifacts, deleted>>, disk' \subseteq disk,
           expired \subseteq expired', graced \subseteq graced',
           \A f \in disk : f.kind \in {"export", "backup"} => f \in disk'
    PROVE  TransferInv'
<1>1. ASSUME NEW t \in Tasks
      PROVE  ExportOK(t)'
  <2>1. File("export", "data", t, t, TRUE) \in disk => File("export", "data", t, t, TRUE) \in disk'
    BY DEF File
  <2> QED
    BY <2>1 DEF TransferInv, ExportOK
<1>2. ASSUME NEW t \in Tasks
      PROVE  BackupOK(t)'
  <2>1. BackupOK(t)
    BY DEF TransferInv
  <2>2. Held(task[t].name) => Held(task[t].name)'
    BY HeldStays
  <2> QED
    BY <2>1, <2>2 DEF BackupOK, PastRename, HasLeft, Held
<1> QED
  BY <1>1, <1>2, RemoveStep
-----------------------------------------------------------------------------
(* The steps *)

\* A task begins, with a partial file of its own or none: it had no files
\* (StartUpload, CheckLimit, Allocate, CreateRestore).
LEMMA BeginStep ==
    ASSUME TransferInv, NEW t \in Tasks, NEW u \in Users, NEW k \in Uploads \cup Jobs,
           NEW n \in Names \cup Tasks, NEW p \in {"checked", "queued", "writing"},
           NEW s \in Names \cup Tasks \cup {"none"}, New(t, u, k, n, p, s),
           NEW N, disk' = disk \cup N, N \subseteq FileRow,
           \A f \in N : /\ f.of = t /\ f.kind = k /\ k # "backup" /\ f.name = t
                        /\ f.part = "partial" /\ p = "writing",
           UNCHANGED <<artifacts, expired, graced, deleted>>
    PROVE  TransferInv'
<1> DEFINE r == [kind |-> k, owner |-> u, name |-> n, phase |-> p, cancel |-> FALSE, source |-> s]
<1>1. task[t].kind = "none"
  BY DEF New, NoTask
<1>2. (\A f \in disk : f.of # t) /\ t \notin artifacts
  BY <1>1, NoFiles DEF TransferInv, ExportOK
<1>3. r \in TaskRow /\ r.kind = k /\ r.phase = p
  BY DEF TaskRow, Phases
<1>4. task' = [task EXCEPT ![t] = r]
  BY DEF New
<1> HIDE DEF r
<1>5. /\ task' \in [Tasks -> TaskRow] /\ task'[t] = r
      /\ \A q \in Tasks : q # t => task'[q] = task[q]
  BY <1>3, <1>4, SetTask
<1>6. disk' \subseteq FileRow /\ \A f \in disk' : f.of = t \/ f \in disk
  BY DEF TransferInv, TransferTypes
<1>7. \A f \in disk' : f.of = t => FileOK(f)'
  <2> TAKE f \in disk'
  <2> SUFFICES ASSUME f.of = t PROVE FileOK(f)'
    OBVIOUS
  <2>1. f \in N /\ f.kind = k /\ k # "backup" /\ f.name = t /\ f.part = "partial" /\ p = "writing"
    BY <1>2
  <2>2. p \in PhasesWith(f.kind, f.part)
    BY <2>1 DEF PhasesWith, AfterRename, Phases
  <2> QED
    BY <1>3, <1>5, <2>1, <2>2 DEF FileOK
<1>8. \A f \in disk : f.kind = "export" /\ f.of # t => f \in disk'
  OBVIOUS
<1>9. ExportOK(t)' /\ BackupOK(t)'
  BY <1>2, <1>3, <1>5 DEF ExportOK, BackupOK, PastRename, HasLeft
<1>10. artifacts' \subseteq Tasks /\ \A q \in Tasks : q # t => (q \in artifacts' <=> q \in artifacts)
  BY DEF TransferInv, TransferTypes
<1>11. \A q : Held(q) => Held(q)'
  BY HeldStays
<1>12. UNCHANGED <<expired, graced, deleted>>
  OBVIOUS
<1> QED
  BY <1>5, <1>6, <1>7, <1>8, <1>9, <1>10, <1>11, <1>12, TaskStep

\* A task begins: an upload, an export or import below the limit, a backup with a name that is
\* free, a restore of something that is served.
LEMMA BeginsKeep ==
    ASSUME TransferInv, NEW t \in Tasks, NEW u \in Users,
           \/ \E k \in Uploads : StartUpload(t, u, k)
           \/ \E k \in {"export", "import"} : CheckLimit(t, u, k)
           \/ \E n \in Names : Allocate(t, u, n)
           \/ CreateRestore(t, u)
    PROVE  TransferInv'
<1> DEFINE none == {f \in FileRow : FALSE}
<1>1. none \subseteq FileRow /\ (\A f \in none : FALSE) /\ disk \cup none = disk
  OBVIOUS
<1> HIDE DEF none
<1>2. ASSUME NEW k \in Uploads, StartUpload(t, u, k)
      PROVE  TransferInv'
  <2> DEFINE N == {File(k, "partial", t, t, FALSE)}
  <2>1. /\ N \subseteq FileRow
        /\ \A f \in N : f.of = t /\ f.kind = k /\ f.name = t /\ f.part = "partial"
    BY DEF File, FileRow
  <2>2. k \in Uploads \cup Jobs /\ k # "backup"
    BY DEF Uploads
  <2>3. /\ New(t, u, k, t, "writing", "none") /\ disk' = disk \cup N
        /\ UNCHANGED <<artifacts, expired, graced, deleted>>
    BY <1>2 DEF StartUpload, exports
  <2> DEFINE p == "writing"
             s == "none"
  <2>4. p \in {"checked", "queued", "writing"} /\ t \in Names \cup Tasks
        /\ s \in Names \cup Tasks \cup {"none"}
    OBVIOUS
  <2>5. \A f \in N : /\ f.of = t /\ f.kind = k /\ k # "backup" /\ f.name = t
                     /\ f.part = "partial" /\ p = "writing"
    BY <2>1, <2>2
  <2>6. New(t, u, k, t, p, s) /\ disk' = disk \cup N
    BY <2>3
  <2> HIDE DEF N, p, s
  <2> QED
    BY <2>1, <2>2, <2>3, <2>4, <2>5, <2>6, BeginStep
<1>3. ASSUME NEW k \in Uploads \cup Jobs, NEW n \in Names \cup Tasks, NEW p \in {"checked", "queued"},
             NEW s \in Names \cup Tasks \cup {"none"}, New(t, u, k, n, p, s),
             UNCHANGED <<disk, artifacts, expired, graced, deleted>>
      PROVE  TransferInv'
  <2>1. p \in {"checked", "queued", "writing"}
    OBVIOUS
  <2>2. \A f \in none : /\ f.of = t /\ f.kind = k /\ k # "backup" /\ f.name = t
                        /\ f.part = "partial" /\ p = "writing"
    BY <1>1
  <2>3. UNCHANGED <<artifacts, expired, graced, deleted>>
    BY <1>3
  <2>4. disk' = disk \cup none
    BY <1>1, <1>3
  <2>5. none \subseteq FileRow
    BY <1>1
  <2>6. New(t, u, k, n, p, s)
    BY <1>3
  <2> QED
    BY <2>1, <2>2, <2>3, <2>4, <2>5, <2>6, BeginStep
<1>4. ASSUME NEW k \in {"export", "import"}, CheckLimit(t, u, k)
      PROVE  TransferInv'
  BY <1>3, <1>4 DEF CheckLimit, exports, Jobs
<1>5. ASSUME NEW n \in Names, Allocate(t, u, n)
      PROVE  TransferInv'
  BY <1>3, <1>5 DEF Allocate, exports, Jobs
<1>6. ASSUME CreateRestore(t, u)
      PROVE  TransferInv'
  <2>1. PICK s \in Names \cup Tasks : New(t, u, "restore", t, "queued", s)
    BY <1>6 DEF CreateRestore
  <2> QED
    BY <1>3, <1>6, <2>1 DEF CreateRestore, exports, Jobs
<1> QED
  BY <1>2, <1>4, <1>5, <1>6

\* The steps of an upload (save(), its catch, and what RestoreService.upload makes of it).
LEMMA UploadKeeps ==
    ASSUME TransferInv, NEW t \in Tasks,
           \/ UploadWritten(t) \/ OpenManifest(t) \/ SaveManifest(t) \/ UploadFails(t)
           \/ UploadAccepted(t) \/ UploadRefused(t)
    PROVE  TransferInv'
<1> DEFINE k == task[t].kind
           P == task[t].phase
<1>1. /\ k \in Uploads /\ k \notin {"export", "backup"}
      /\ UNCHANGED <<artifacts, expired, graced, deleted>>
  BY DEF UploadWritten, OpenManifest, SaveManifest, UploadFails, UploadAccepted, UploadRefused, Is,
         Uploads, exports
<1>2. \A f \in disk : f.of = t => /\ f.kind = k /\ f.name = t /\ f \in FileRow
                                  /\ P \in PhasesWith(k, f.part)
  BY <1>1 DEF TransferInv, TransferTypes, FileOK
<1>3. \A f \in disk : f.kind \in Uploads /\ f.name = t => f.of = t
  BY DEF TransferInv, FileOK, Uploads
<1>4. ASSUME NEW p \in Phases, Goto(t, p), NEW X, NEW piece \in {"data", "manifest"}, NEW w \in BOOLEAN,
             disk' = (disk \ X) \cup {File(k, piece, t, t, w)}, piece = "data" => w,
             p \in PhasesWith(k, piece),
             \A f \in disk : f.of = t /\ f \notin X => p \in PhasesWith(k, f.part),
             \A f \in disk : f \in X => f.of = t
      PROVE  TransferInv'
  <2> DEFINE N == {File(k, piece, t, t, w)}
  <2>1. N \subseteq FileRow
    BY <1>1 DEF File, FileRow
  <2>2. \A f \in N : /\ f.of = t /\ f.kind = task[t].kind /\ f.name = t
                     /\ f.part = "data" => f.whole
                     /\ p \in PhasesWith(f.kind, f.part)
    BY <1>4 DEF File
  <2>3. /\ \A f \in disk : f.of = t /\ f \notin X => p \in PhasesWith(f.kind, f.part)
        /\ \A f \in disk : f \in X => f.kind \notin {"export", "backup"}
    BY <1>1, <1>2, <1>4
  <2>4. disk' = (disk \ X) \cup N /\ Moves(t, p)
    BY <1>4, GotoMoves
  <2> HIDE DEF N, k
  <2> QED
    BY <1>1, <2>1, <2>2, <2>3, <2>4, OtherMoveStep DEF k
<1>5. CASE UploadWritten(t)
  <2> DEFINE X == Partial(t)
  <2>1. /\ P = "writing" /\ Goto(t, "renamed") /\ "renamed" \in Phases
        /\ disk' = (disk \ X) \cup {File(k, "data", t, t, TRUE)}
    BY <1>5 DEF UploadWritten, Phases
  <2>2. /\ \A f \in disk : f.of = t /\ f \notin X => "renamed" \in PhasesWith(k, f.part)
        /\ \A f \in disk : f \in X => f.of = t
        /\ "renamed" \in PhasesWith(k, "data")
    BY <1>1, <1>2, <2>1 DEF Partial, OfTask, PhasesWith, FileRow, Uploads
  <2> HIDE DEF X, k, P
  <2> QED
    BY <1>4, <2>1, <2>2
<1>6. CASE OpenManifest(t)
  <2> DEFINE X == {f \in disk : FALSE}
  <2>1. /\ P = "renamed" /\ Goto(t, "manifest") /\ "manifest" \in Phases
        /\ disk' = (disk \ X) \cup {File(k, "manifest", t, t, FALSE)}
    BY <1>6 DEF OpenManifest, Phases
  <2>2. /\ \A f \in disk : f.of = t /\ f \notin X => "manifest" \in PhasesWith(k, f.part)
        /\ "manifest" \in PhasesWith(k, "manifest")
        /\ \A f \in disk : f \in X => f.of = t
    BY <1>1, <1>2, <2>1 DEF PhasesWith, AfterRename, FileRow, Uploads
  <2> HIDE DEF X, k, P
  <2> QED
    BY <1>4, <2>1, <2>2
<1>7. CASE SaveManifest(t)
  <2> DEFINE open == File(k, "manifest", t, t, FALSE)
             p == IF k = "restoreUpload" THEN "saved" ELSE "completed"
             X == {open}
  <2>1. P = "manifest" /\ Goto(t, p) /\ p \in Phases /\ p \in {"saved", "completed"}
    BY <1>7 DEF SaveManifest, Phases
  <2>2. /\ \A f \in disk : f.of = t => p \in PhasesWith(k, f.part)
        /\ p \in PhasesWith(k, "manifest")
    BY <1>1, <1>2, <2>1 DEF PhasesWith, AfterRename, FileRow, Uploads
  <2>3. CASE open \in disk
    <3>1. disk' = (disk \ X) \cup {File(k, "manifest", t, t, TRUE)} /\ \A f \in X : f.of = t
      BY <1>7, <2>3 DEF SaveManifest, File
    <3> HIDE DEF X, k, P, p, open
    <3> QED
      BY <1>4, <2>1, <2>2, <3>1
  <2>4. CASE open \notin disk
    <3>1. disk' = disk
      BY <1>7, <2>4 DEF SaveManifest
    <3>2. \A f \in disk : f.of = t => p \in PhasesWith(f.kind, f.part)
      BY <1>2, <2>2
    <3>3. Moves(t, p)
      BY <2>1, GotoMoves
    <3> HIDE DEF P, p
    <3> QED
      BY <1>1, <2>1, <3>1, <3>2, <3>3, OtherQuietStep
  <2> QED
    BY <2>3, <2>4
<1>8. CASE UploadAccepted(t)
  <2>1. P = "saved" /\ Goto(t, "completed") /\ UNCHANGED disk /\ "completed" \in Phases
    BY <1>8 DEF UploadAccepted, Is, Phases
  <2>2. \A f \in disk : f.of = t => "completed" \in PhasesWith(f.kind, f.part)
    BY <1>1, <1>2, <2>1 DEF PhasesWith, AfterRename, FileRow, Uploads
  <2>3. Moves(t, "completed")
    BY <2>1, GotoMoves
  <2> HIDE DEF P
  <2> QED
    BY <1>1, <2>1, <2>2, <2>3, OtherQuietStep
<1>9. CASE UploadFails(t) \/ UploadRefused(t)
  <2> DEFINE N == {f \in FileRow : FALSE}
             X == {f \in disk : f.kind \in Uploads /\ f.name = t}
  <2>1. Goto(t, "failed") /\ disk' = (disk \ X) \cup N /\ "failed" \in Phases
    BY <1>9 DEF UploadFails, UploadRefused, RemovedByCatch, Remove, Phases
  <2>2. N \subseteq FileRow /\ \A f \in N : FALSE
    OBVIOUS
  <2>3. \A f \in disk : f.of = t /\ f \notin X => "failed" \in PhasesWith(f.kind, f.part)
    BY <1>1, <1>2
  <2>4. \A f \in disk : f \in X => f.kind \notin {"export", "backup"}
    BY DEF Uploads
  <2>5. Moves(t, "failed")
    BY <2>1, GotoMoves
  <2> HIDE DEF N, X, P
  <2> QED
    BY <1>1, <2>1, <2>2, <2>3, <2>4, <2>5, OtherMoveStep
<1> QED
  BY <1>5, <1>6, <1>7, <1>8, <1>9

\* The steps of an export (execute(), its catch, and the end the job manager gives it).
LEMMA ExportKeeps ==
    ASSUME TransferInv, NEW t \in Tasks,
           \/ SubmitExport(t) \/ RunExport(t) \/ ExportWritten(t) \/ Publish(t)
           \/ FinishExport(t) \/ ExportFails(t) \/ ForgetJob(t)
    PROVE  TransferInv'
<1> DEFINE P == task[t].phase
           F == File("export", "data", t, t, TRUE)
<1>1. /\ task[t].kind = "export" /\ UNCHANGED <<expired, graced, deleted>>
      /\ ExportOK(t) /\ artifacts \subseteq Tasks
  BY DEF SubmitExport, RunExport, ExportWritten, Publish, FinishExport, ExportFails, ForgetJob, Is,
         TransferInv, TransferTypes, exports
<1>2. \A f \in disk : f.of = t => /\ f.kind = "export" /\ f.name = t /\ f \in FileRow
                                  /\ P \in PhasesWith("export", f.part)
  BY <1>1 DEF TransferInv, TransferTypes, FileOK
<1>3. ASSUME NEW p \in Phases, Moves(t, p)
      PROVE  task'[t].kind = "export" /\ task'[t].phase = p /\ BackupOK(t)'
  BY <1>1, <1>3 DEF Moves, BackupOK
<1>4. ASSUME NEW p \in Phases, Goto(t, p), UNCHANGED disk,
             artifacts' \subseteq Tasks,
             \A q \in Tasks : q # t => (q \in artifacts' <=> q \in artifacts),
             \A f \in disk : f.of = t => p \in PhasesWith("export", f.part),
             t \in artifacts' => p \in {"published", "completed", "failed", "cancelled", "forgotten"},
             p \in {"renamed", "published"} => F \in disk,
             p = "completed" /\ t \in artifacts' => F \in disk,
             p \in {"published", "completed"} /\ t \notin expired \cup graced => t \in artifacts'
      PROVE  TransferInv'
  <2>1. Moves(t, p)
    BY <1>4, GotoMoves
  <2>2. task'[t].kind = "export" /\ task'[t].phase = p /\ BackupOK(t)'
    BY <1>3, <2>1
  <2>3. ExportOK(t)'
    BY <1>1, <1>4, <2>2 DEF ExportOK
  <2>4. \A f \in disk : f.of = t => p \in PhasesWith(f.kind, f.part)
    BY <1>2, <1>4
  <2> QED
    BY <1>1, <1>4, <2>1, <2>2, <2>3, <2>4, QuietStep
<1>5. ASSUME NEW p \in Phases, Goto(t, p), NEW X, NEW N, disk' = (disk \ X) \cup N,
             N \subseteq FileRow, UNCHANGED artifacts,
             \A f \in N : /\ f.of = t /\ f.kind = "export" /\ f.name = t
                          /\ f.part = "data" => f.whole
                          /\ p \in PhasesWith("export", f.part),
             \A f \in disk : f.of = t /\ f \notin X => p \in PhasesWith("export", f.part),
             \A f \in disk : f \in X => f.of = t,
             p \in {"writing", "renamed"} => t \notin artifacts,
             p \in {"writing", "renamed", "failed", "cancelled"},
             p = "renamed" => F \in N
      PROVE  TransferInv'
  <2>1. Moves(t, p)
    BY <1>5, GotoMoves
  <2>2. task'[t].kind = "export" /\ task'[t].phase = p /\ BackupOK(t)'
    BY <1>3, <2>1
  <2>3. ExportOK(t)'
    BY <1>1, <1>5, <2>2 DEF ExportOK
  <2>4. \A n : Held(n) => Held(n)'
    <3>1. \A f \in disk : f.kind = "backup" => f \in disk'
      BY <1>2, <1>5
    <3> QED
      BY <3>1, HeldStays
  <2>5. /\ \A f \in N : /\ f.of = t /\ f.kind = task[t].kind
                        /\ f.kind # "backup" => f.name = t
                        /\ f.part = "data" => f.whole
                        /\ p \in PhasesWith(f.kind, f.part)
        /\ \A f \in disk : f.of = t /\ f \notin X => p \in PhasesWith(f.kind, f.part)
        /\ \A f \in disk : f \in X /\ f.kind = "export" => f.of = t
    BY <1>1, <1>2, <1>5
  <2>6. artifacts' \subseteq Tasks /\ \A q \in Tasks : q # t => (q \in artifacts' <=> q \in artifacts)
    BY <1>1, <1>5
  <2>7. /\ disk' = (disk \ X) \cup N /\ N \subseteq FileRow
        /\ UNCHANGED <<expired, graced, deleted>> /\ BackupOK(t)'
    BY <1>1, <1>5, <2>2
  <2> HIDE DEF P, F
  <2> QED
    BY <2>1, <2>3, <2>4, <2>5, <2>6, <2>7, MoveStep
<1>6. CASE SubmitExport(t)
  <2>1. /\ P = "checked" /\ Goto(t, "queued") /\ UNCHANGED <<disk, artifacts>>
        /\ "queued" \in Phases
    BY <1>6 DEF SubmitExport, Is, Phases, exports
  <2>2. (\A f \in disk : f.of # t) /\ t \notin artifacts
    BY <1>1, <2>1, NoFiles DEF ExportOK
  <2> QED
    BY <1>1, <1>4, <2>1, <2>2
<1>7. CASE RunExport(t)
  <2> DEFINE N == {File("export", "partial", t, t, FALSE)}
             X == Partial(t)
             p == "writing"
  <2>1. (\A f \in disk : f.of # t) /\ t \notin artifacts
    BY <1>1, <1>7, NoFiles DEF ExportOK, RunExport, Is
  <2>2. Goto(t, p) /\ disk' = (disk \ X) \cup N /\ UNCHANGED artifacts /\ p \in Phases
    BY <1>7, <2>1 DEF RunExport, Is, Phases, exports, Partial, OfTask
  <2>3. N \subseteq FileRow
    BY DEF File, FileRow
  <2>4. p \in PhasesWith("export", "partial")
    BY <2>2 DEF PhasesWith, AfterRename, Uploads
  <2>5. \A f \in N : /\ f.of = t /\ f.kind = "export" /\ f.name = t
                     /\ f.part = "data" => f.whole
                     /\ p \in PhasesWith("export", f.part)
    BY <2>4 DEF File
  <2>6. \A f \in disk : f.of = t /\ f \notin X => p \in PhasesWith("export", f.part)
    BY <2>1
  <2>7. \A f \in disk : f \in X => f.of = t
    BY DEF Partial, OfTask
  <2>8. p \in {"writing", "renamed"} => t \notin artifacts
    BY <2>1
  <2>9. p \in {"writing", "renamed", "failed", "cancelled"}
    OBVIOUS
  <2>10. p = "renamed" => F \in N
    OBVIOUS
  <2> HIDE DEF N, X, p, P, F
  <2> QED
    BY <1>5, <2>2, <2>3, <2>5, <2>6, <2>7, <2>8, <2>9, <2>10
<1>8. CASE ExportWritten(t)
  <2> DEFINE N == {F}
             X == Partial(t)
             p == "renamed"
  <2>1. /\ P = "writing" /\ Goto(t, p) /\ disk' = (disk \ X) \cup N /\ UNCHANGED artifacts
        /\ p \in Phases /\ p = "renamed" /\ F \in N
    BY <1>8 DEF ExportWritten, Is, Phases, exports
  <2>2. t \notin artifacts
    BY <1>1, <2>1 DEF ExportOK
  <2>3. /\ N \subseteq FileRow
        /\ \A f \in N : f.of = t /\ f.kind = "export" /\ f.name = t /\ f.part = "data" /\ f.whole
    BY DEF File, FileRow
  <2>4. p \in PhasesWith("export", "data")
    BY <2>1 DEF PhasesWith, AfterRename, Uploads
  <2>5. \A f \in disk : f.of = t /\ f \notin X => p \in PhasesWith("export", f.part)
    BY <1>2, <2>1 DEF Partial, OfTask, PhasesWith, FileRow, Uploads
  <2>6. \A f \in disk : f \in X => f.of = t
    BY DEF Partial, OfTask
  <2>7. \A f \in N : /\ f.of = t /\ f.kind = "export" /\ f.name = t
                     /\ f.part = "data" => f.whole
                     /\ p \in PhasesWith("export", f.part)
    BY <2>3, <2>4
  <2> HIDE DEF N, X, p, P, F
  <2> QED
    BY <1>5, <2>1, <2>2, <2>3, <2>5, <2>6, <2>7
<1>9. CASE Publish(t)
  <2>1. /\ P = "renamed" /\ Goto(t, "published") /\ UNCHANGED disk
        /\ artifacts' = artifacts \cup {t} /\ "published" \in Phases
    BY <1>9 DEF Publish, Is, Phases
  <2>2. F \in disk
    BY <1>1, <2>1 DEF ExportOK
  <2>3. \A f \in disk : f.of = t => "published" \in PhasesWith("export", f.part)
    BY <1>2, <2>1 DEF PhasesWith, AfterRename, FileRow, Uploads
  <2>4. artifacts' \subseteq Tasks /\ \A q \in Tasks : q # t => (q \in artifacts' <=> q \in artifacts)
    BY <1>1, <2>1
  <2> QED
    BY <1>4, <2>1, <2>2, <2>3, <2>4
<1>10. CASE FinishExport(t)
  <2> DEFINE p == Ended(t)
  <2>1. P = "published" /\ Goto(t, p) /\ UNCHANGED <<disk, artifacts>>
    BY <1>10 DEF FinishExport, Is, exports
  <2>2. p \in {"completed", "cancelled"} /\ p \in Phases
    BY EndPhases
  <2>3. (t \in artifacts => F \in disk) /\ (t \notin expired \cup graced => t \in artifacts)
    BY <1>1, <2>1 DEF ExportOK
  <2>5. \A f \in disk : f.of = t => p \in PhasesWith("export", f.part)
    BY <1>2, <2>1, <2>2 DEF PhasesWith, AfterRename, FileRow, Uploads
  <2> HIDE DEF p
  <2> QED
    BY <1>1, <1>4, <2>1, <2>2, <2>3, <2>5
<1>11. CASE ForgetJob(t)
  <2>1. P = "completed" /\ Goto(t, "forgotten") /\ UNCHANGED <<disk, artifacts>> /\ "forgotten" \in Phases
    BY <1>11 DEF ForgetJob, Is, exports, Phases
  <2>2. \A f \in disk : f.of = t => "forgotten" \in PhasesWith("export", f.part)
    BY <1>2, <2>1 DEF PhasesWith, AfterRename, FileRow, Uploads
  <2> QED
    BY <1>1, <1>4, <2>1, <2>2
<1>12. CASE ExportFails(t)
  <2> DEFINE N == {f \in FileRow : FALSE}
             X == OfTask(t)
             p == Failed(t)
  <2>1. Goto(t, p) /\ disk' = (disk \ X) \cup N /\ UNCHANGED artifacts
    BY <1>12 DEF ExportFails, exports
  <2>2. p \in {"failed", "cancelled"} /\ p \in Phases
    BY EndPhases
  <2>3. N \subseteq FileRow /\ (\A f \in N : FALSE) /\ \A f \in disk : f \in X <=> f.of = t
    BY DEF OfTask
  <2> HIDE DEF N, X, p, P, F
  <2> QED
    BY <1>5, <2>1, <2>2, <2>3
<1> QED
  BY <1>6, <1>7, <1>8, <1>9, <1>10, <1>11, <1>12

\* The steps of a backup (executeBackup(), commit, its catch).
LEMMA BackupKeeps ==
    ASSUME TransferInv, NEW t \in Tasks,
           \/ RunDump(t) \/ Dumped(t) \/ CommitData(t) \/ OpenTemporaryManifest(t)
           \/ WriteManifest(t) \/ CommitManifest(t) \/ FinishBackup(t) \/ BackupFails(t)
    PROVE  TransferInv'
<1> DEFINE P == task[t].phase
           none == {f \in disk : FALSE}
           nothing == {f \in FileRow : FALSE}
<1>0. PICK n : n = task[t].name
  OBVIOUS
<1>1. /\ task[t].kind = "backup" /\ UNCHANGED <<artifacts, expired, graced, deleted>>
      /\ n \in Names \cup Tasks \cup {"none"} /\ P \in Phases
  BY <1>0 DEF RunDump, Dumped, CommitData, OpenTemporaryManifest, WriteManifest, CommitManifest, FinishBackup, BackupFails, Is,
         TransferInv, TransferTypes, TaskRow, exports
<1>2. \A f \in disk : f.of = t => /\ f.kind = "backup" /\ f \in FileRow
                                  /\ P \in PhasesWith("backup", f.part)
  BY <1>1 DEF TransferInv, TransferTypes, FileOK
<1>3. /\ none \subseteq disk /\ nothing \subseteq FileRow
      /\ (\A f \in none : FALSE) /\ (\A f \in nothing : FALSE)
  OBVIOUS
\* In which phases a file of a backup may be, and that a removal of partial files, of the
\* temporary manifest or of a replaced manifest takes no name away.
<1>4. ASSUME NEW p \in Phases, Goto(t, p), NEW X, NEW N, disk' = (disk \ X) \cup N,
             N \subseteq FileRow,
             \A f \in N : /\ f.of = t /\ f.kind = "backup"
                          /\ f.part = "data" => f.whole
                          /\ f.part = "partial" => p \in {"writing", "dumped"}
                          /\ f.part # "partial" => p \in AfterRename,
             \A f \in disk : f.of = t /\ f \notin X /\ f.part # "partial" => p \in AfterRename,
             p \notin {"writing", "dumped"} => \A f \in disk : f.of = t /\ f \notin X => f.part # "partial",
             \A f \in disk : f \in X => f.kind = "backup",
             \A m : Held(m) => Held(m)',
             PastRename(t)' /\ t \notin deleted => Held(n)'
      PROVE  TransferInv'
  <2>1. Moves(t, p)
    BY <1>4, GotoMoves
  <2>2. task'[t].kind = "backup" /\ task'[t].phase = p /\ task'[t].name = n
    BY <1>0, <1>1, <2>1 DEF Moves
  <2>3. ExportOK(t)'
    BY <1>1, <2>2 DEF TransferInv, ExportOK
  <2>4. BackupOK(t)'
    BY <1>1, <1>4, <2>2 DEF BackupOK, Held
  <2>5. \A f \in N : /\ f.of = t /\ f.kind = task[t].kind
                     /\ f.kind # "backup" => f.name = t
                     /\ f.part = "data" => f.whole
                     /\ p \in PhasesWith(f.kind, f.part)
    BY <1>1, <1>4 DEF PhasesWith, AfterRename, Uploads
  <2>6. \A f \in disk : f.of = t /\ f \notin X => p \in PhasesWith(f.kind, f.part)
    BY <1>2, <1>4 DEF PhasesWith, AfterRename, Uploads
  <2>7. /\ artifacts' \subseteq Tasks /\ \A q \in Tasks : q # t => (q \in artifacts' <=> q \in artifacts)
        /\ UNCHANGED <<expired, graced, deleted>>
    BY <1>1 DEF TransferInv, TransferTypes
  <2>8. \A f \in disk : f \in X /\ f.kind = "export" => f.of = t
    BY <1>4
  <2> QED
    BY <1>4, <2>1, <2>3, <2>4, <2>5, <2>6, <2>7, <2>8, MoveStep
\* The steps that leave all data where it is.
<1>5. ASSUME NEW p \in Phases, Goto(t, p), NEW X, NEW N, disk' = (disk \ X) \cup N,
             N \subseteq FileRow,
             \A f \in N : /\ f.of = t /\ f.kind = "backup" /\ f.part # "data"
                          /\ f.part = "partial" => p \in {"writing", "dumped"}
                          /\ f.part # "partial" => p \in AfterRename,
             \A f \in disk : f.of = t /\ f \notin X /\ f.part # "partial" => p \in AfterRename,
             p \notin {"writing", "dumped"} => \A f \in disk : f.of = t /\ f \notin X => f.part # "partial",
             \A f \in disk : f \in X => f.kind = "backup" /\ f.part # "data",
             \/ P \in {"renamed", "manifest", "published", "completed"}
             \/ p \in {"writing", "dumped"}
             \/ /\ p \in {"failed", "cancelled"} /\ N \subseteq none
                /\ \A f \in disk : f.of = t => f.part = "partial"
      PROVE  TransferInv'
  <2>1. \A m : Held(m) => Held(m)'
    BY <1>5 DEF Held, File
  <2>2. PastRename(t)' /\ t \notin deleted => Held(n)'
    <3>1. Moves(t, p)
      BY <1>5, GotoMoves
    <3>2. task'[t].phase = p
      BY <3>1 DEF Moves
    <3>3. PastRename(t)' => P \in {"renamed", "manifest", "published", "completed"}
      BY <1>3, <1>5, <3>2 DEF PastRename, HasLeft
    <3> QED
      BY <1>0, <1>1, <2>1, <3>3 DEF TransferInv, BackupOK, PastRename
  <2> QED
    BY <1>4, <1>5, <2>1, <2>2
<1>6. CASE RunDump(t)
  <2> DEFINE N == {File("backup", "partial", n, t, FALSE)}
             p == "writing"
  <2>1. /\ P = "queued" /\ Goto(t, p) /\ p \in Phases /\ p = "writing" /\ disk' = (disk \ none) \cup N
    BY <1>0, <1>6 DEF RunDump, Is, Phases
  <2>2. N \subseteq FileRow /\ \A f \in N : f.of = t /\ f.kind = "backup" /\ f.part = "partial"
    BY <1>1 DEF File, FileRow
  <2>3. \A f \in disk : f.of = t => f.part = "partial"
    BY <1>2, <2>1 DEF PhasesWith, AfterRename
  <2> HIDE DEF N, none, nothing, p, P
  <2>4. /\ \A f \in N : /\ f.of = t /\ f.kind = "backup" /\ f.part # "data"
                        /\ f.part = "partial" => p \in {"writing", "dumped"}
                        /\ f.part # "partial" => p \in AfterRename
        /\ \A f \in disk : f.of = t /\ f \notin none /\ f.part # "partial" => p \in AfterRename
        /\ p \notin {"writing", "dumped"} => (\A f \in disk : f.of = t /\ f \notin none => f.part # "partial")
        /\ \A f \in disk : f \in none => f.kind = "backup" /\ f.part # "data"
        /\ \/ P \in {"renamed", "manifest", "published", "completed"}
           \/ p \in {"writing", "dumped"}
           \/ /\ p \in {"failed", "cancelled"} /\ N \subseteq none
              /\ \A f \in disk : f.of = t => f.part = "partial"
    BY <1>3, <2>1, <2>2, <2>3
  <2> QED
    BY <1>3, <1>5, <2>1, <2>2, <2>4
<1>7. CASE Dumped(t)
  <2> DEFINE N == {File("backup", "partial", n, t, TRUE)}
             X == Partial(t)
             p == "dumped"
  <2>1. /\ P = "writing" /\ Goto(t, p) /\ p \in Phases /\ p = "dumped" /\ disk' = (disk \ X) \cup N
    BY <1>0, <1>7 DEF Dumped, Is, Phases
  <2>2. N \subseteq FileRow /\ \A f \in N : f.of = t /\ f.kind = "backup" /\ f.part = "partial"
    BY <1>1 DEF File, FileRow
  <2>3. \A f \in disk : f \in X => f.kind = "backup" /\ f.part # "data"
    BY <1>2 DEF Partial, OfTask
  <2>4. \A f \in disk : f.of = t => f.part = "partial"
    BY <1>2, <2>1 DEF PhasesWith, AfterRename
  <2> HIDE DEF N, X, none, nothing, p, P
  <2>5. /\ \A f \in N : /\ f.of = t /\ f.kind = "backup" /\ f.part # "data"
                        /\ f.part = "partial" => p \in {"writing", "dumped"}
                        /\ f.part # "partial" => p \in AfterRename
        /\ \A f \in disk : f.of = t /\ f \notin X /\ f.part # "partial" => p \in AfterRename
        /\ p \notin {"writing", "dumped"} => \A f \in disk : f.of = t /\ f \notin X => f.part # "partial"
        /\ \A f \in disk : f \in X => f.kind = "backup" /\ f.part # "data"
        /\ \/ P \in {"renamed", "manifest", "published", "completed"}
           \/ p \in {"writing", "dumped"}
           \/ /\ p \in {"failed", "cancelled"} /\ N \subseteq none
              /\ \A f \in disk : f.of = t => f.part = "partial"
    BY <1>3, <2>1, <2>2, <2>3, <2>4
  <2> QED
    BY <1>3, <1>5, <2>1, <2>2, <2>3, <2>5
<1>8. CASE CommitData(t)
  <2> DEFINE N == {File("backup", "data", n, t, TRUE)}
             X == Partial(t) \cup Named("backup", "data", n)
             p == "renamed"
  <2>1. /\ Goto(t, p) /\ p \in Phases /\ p = "renamed" /\ disk' = (disk \ X) \cup N
    BY <1>0, <1>8 DEF CommitData, Phases
  <2>2. /\ N \subseteq FileRow /\ p \in AfterRename
        /\ \A f \in N : f.of = t /\ f.kind = "backup" /\ f.part = "data" /\ f.whole
    BY <1>1 DEF File, FileRow, AfterRename
  <2>3. \A f \in disk : f \in X => f.kind = "backup"
    BY <1>2 DEF Partial, OfTask, Named
  <2>4. \A f \in disk : f.of = t /\ f \notin X => f.part # "partial"
    BY DEF Partial, OfTask
  <2>5. Held(n)'
    BY <2>1 DEF Held
  <2>6. \A f \in disk : f \in X /\ f.part = "data" => f.name = n
    BY DEF Partial, OfTask, Named
  <2>7. ASSUME NEW m, Held(m)
        PROVE  Held(m)'
    <3>1. PICK s \in Tasks : File("backup", "data", m, s, TRUE) \in disk
      BY <2>7 DEF Held
    <3>2. CASE m = n
      BY <2>5, <3>2 DEF Held
    <3>3. CASE m # n
      <4>1. File("backup", "data", m, s, TRUE) \notin X
        BY <2>6, <3>1, <3>3 DEF File
      <4> QED
        BY <2>1, <3>1, <4>1 DEF Held
    <3> QED
      BY <3>2, <3>3
  <2>8. \A f \in N : /\ f.of = t /\ f.kind = "backup"
                     /\ f.part = "data" => f.whole
                     /\ f.part = "partial" => p \in {"writing", "dumped"}
                     /\ f.part # "partial" => p \in AfterRename
    BY <2>2
  <2> HIDE DEF N, X, none, nothing, p, P
  <2> QED
    BY <1>4, <2>1, <2>2, <2>3, <2>4, <2>5, <2>7, <2>8
<1>9. CASE OpenTemporaryManifest(t)
  <2> DEFINE N == {File("backup", "manifestPartial", n, t, FALSE)}
             p == "renamed"
  <2>1. /\ P = "renamed" /\ task' = task /\ p \in Phases /\ p = "renamed"
        /\ disk' = (disk \ none) \cup N
    BY <1>0, <1>9 DEF OpenTemporaryManifest, TemporaryManifest, Is, Phases
  <2>2. Goto(t, p)
    <3>1. task \in [Tasks -> TaskRow]
      BY DEF TransferInv, TransferTypes
    <3>2. task[t] = [task[t] EXCEPT !.phase = p]
      BY <2>1, <3>1 DEF TaskRow
    <3>3. [task EXCEPT ![t].phase = p] = [task EXCEPT ![t] = [task[t] EXCEPT !.phase = p]]
      BY <3>1
    <3> QED
      BY <2>1, <3>1, <3>2, <3>3 DEF Goto
  <2>3. /\ N \subseteq FileRow /\ p \in AfterRename
        /\ \A f \in N : f.of = t /\ f.kind = "backup" /\ f.part = "manifestPartial"
    BY <1>1 DEF File, FileRow, AfterRename
  <2>4. \A f \in disk : f.of = t => f.part # "partial"
    BY <1>2, <2>1 DEF PhasesWith
  <2> HIDE DEF N, none, nothing, p, P
  <2>5. /\ \A f \in N : /\ f.of = t /\ f.kind = "backup" /\ f.part # "data"
                        /\ f.part = "partial" => p \in {"writing", "dumped"}
                        /\ f.part # "partial" => p \in AfterRename
        /\ \A f \in disk : f.of = t /\ f \notin none /\ f.part # "partial" => p \in AfterRename
        /\ p \notin {"writing", "dumped"} => (\A f \in disk : f.of = t /\ f \notin none => f.part # "partial")
        /\ \A f \in disk : f \in none => f.kind = "backup" /\ f.part # "data"
        /\ \/ P \in {"renamed", "manifest", "published", "completed"}
           \/ p \in {"writing", "dumped"}
           \/ /\ p \in {"failed", "cancelled"} /\ N \subseteq none
              /\ \A f \in disk : f.of = t => f.part = "partial"
    BY <1>3, <2>1, <2>2, <2>3, <2>4
  <2> QED
    BY <1>3, <1>5, <2>1, <2>2, <2>3, <2>5
<1>10. CASE WriteManifest(t)
  <2> DEFINE N == {File("backup", "manifestPartial", n, t, TRUE)}
             X == {File("backup", "manifestPartial", n, t, FALSE)}
             p == "manifest"
  <2>1. /\ P = "renamed" /\ Goto(t, p) /\ p \in Phases /\ p = "manifest" /\ disk' = (disk \ X) \cup N
    BY <1>0, <1>10 DEF WriteManifest, TemporaryManifest, Is, Phases
  <2>2. /\ N \subseteq FileRow /\ p \in AfterRename
        /\ \A f \in N : f.of = t /\ f.kind = "backup" /\ f.part = "manifestPartial"
        /\ \A f \in X : f.kind = "backup" /\ f.part # "data"
    BY <1>1 DEF File, FileRow, AfterRename
  <2>3. \A f \in disk : f.of = t => f.part # "partial"
    BY <1>2, <2>1 DEF PhasesWith
  <2> HIDE DEF N, X, none, nothing, p, P
  <2>4. /\ \A f \in N : /\ f.of = t /\ f.kind = "backup" /\ f.part # "data"
                        /\ f.part = "partial" => p \in {"writing", "dumped"}
                        /\ f.part # "partial" => p \in AfterRename
        /\ \A f \in disk : f.of = t /\ f \notin X /\ f.part # "partial" => p \in AfterRename
        /\ p \notin {"writing", "dumped"} => \A f \in disk : f.of = t /\ f \notin X => f.part # "partial"
        /\ \A f \in disk : f \in X => f.kind = "backup" /\ f.part # "data"
        /\ \/ P \in {"renamed", "manifest", "published", "completed"}
           \/ p \in {"writing", "dumped"}
           \/ /\ p \in {"failed", "cancelled"} /\ N \subseteq none
              /\ \A f \in disk : f.of = t => f.part = "partial"
    BY <1>3, <2>1, <2>2, <2>3
  <2> QED
    BY <1>3, <1>5, <2>1, <2>2, <2>4
<1>11. CASE CommitManifest(t)
  <2> DEFINE N == {File("backup", "manifest", n, t, TRUE)}
             X == Named("backup", "manifest", n) \cup {f \in OfTask(t) : f.part = "manifestPartial"}
             p == "published"
  <2>1. /\ P = "manifest" /\ Goto(t, p) /\ p \in Phases /\ p = "published" /\ disk' = (disk \ X) \cup N
    BY <1>0, <1>11 DEF CommitManifest, Is, Phases
  <2>2. /\ N \subseteq FileRow /\ p \in AfterRename
        /\ \A f \in N : f.of = t /\ f.kind = "backup" /\ f.part = "manifest"
    BY <1>1 DEF File, FileRow, AfterRename
  <2>3. \A f \in disk : f.of = t => f.part # "partial"
    BY <1>2, <2>1 DEF PhasesWith
  <2>4. \A f \in disk : f \in X => f.kind = "backup" /\ f.part # "data"
    BY <1>2 DEF Named, OfTask
  <2> HIDE DEF N, X, none, nothing, p, P
  <2>5. /\ \A f \in N : /\ f.of = t /\ f.kind = "backup" /\ f.part # "data"
                        /\ f.part = "partial" => p \in {"writing", "dumped"}
                        /\ f.part # "partial" => p \in AfterRename
        /\ \A f \in disk : f.of = t /\ f \notin X /\ f.part # "partial" => p \in AfterRename
        /\ p \notin {"writing", "dumped"} => \A f \in disk : f.of = t /\ f \notin X => f.part # "partial"
        /\ \A f \in disk : f \in X => f.kind = "backup" /\ f.part # "data"
        /\ \/ P \in {"renamed", "manifest", "published", "completed"}
           \/ p \in {"writing", "dumped"}
           \/ /\ p \in {"failed", "cancelled"} /\ N \subseteq none
              /\ \A f \in disk : f.of = t => f.part = "partial"
    BY <1>3, <2>1, <2>2, <2>3, <2>4
  <2> QED
    BY <1>3, <1>5, <2>1, <2>2, <2>3, <2>5
<1>12. CASE FinishBackup(t)
  <2> DEFINE p == Ended(t)
  <2>1. P = "published" /\ Goto(t, p) /\ disk' = (disk \ none) \cup nothing
    BY <1>12 DEF FinishBackup, Is
  <2>2. p \in Phases /\ p \in {"completed", "cancelled"} /\ p \in AfterRename
    BY EndPhases DEF AfterRename
  <2>3. \A f \in disk : f.of = t => f.part # "partial"
    BY <1>2, <2>1 DEF PhasesWith
  <2> HIDE DEF none, nothing, p, P
  <2>4. /\ \A f \in nothing : /\ f.of = t /\ f.kind = "backup" /\ f.part # "data"
                              /\ f.part = "partial" => p \in {"writing", "dumped"}
                              /\ f.part # "partial" => p \in AfterRename
        /\ \A f \in disk : f.of = t /\ f \notin none /\ f.part # "partial" => p \in AfterRename
        /\ p \notin {"writing", "dumped"} => (\A f \in disk : f.of = t /\ f \notin none => f.part # "partial")
        /\ \A f \in disk : f \in none => f.kind = "backup" /\ f.part # "data"
        /\ \/ P \in {"renamed", "manifest", "published", "completed"}
           \/ p \in {"writing", "dumped"}
           \/ /\ p \in {"failed", "cancelled"} /\ nothing \subseteq none
              /\ \A f \in disk : f.of = t => f.part = "partial"
    BY <1>3, <2>1, <2>2, <2>3
  <2> QED
    BY <1>3, <1>5, <2>1, <2>2, <2>4
<1>13. CASE BackupFails(t)
  <2> DEFINE p == Failed(t)
             X == Partial(t)
  <2>1. P \in Busy /\ Goto(t, p) /\ disk' = (disk \ X) \cup nothing
    BY <1>13 DEF BackupFails, RemovePartial
  <2>2. p \in Phases /\ p \in {"failed", "cancelled"} /\ p \in AfterRename
    BY EndPhases DEF AfterRename
  <2>3. /\ \A f \in disk : f \in X => f.kind = "backup" /\ f.part # "data"
        /\ \A f \in disk : f.of = t /\ f \notin X => f.part # "partial"
    BY <1>2 DEF Partial, OfTask
  <2>4. \/ P \in {"renamed", "manifest", "published", "completed"}
        \/ \A f \in disk : f.of = t => f.part = "partial"
    BY <1>2, <2>1 DEF Busy, Running, PhasesWith, AfterRename
  <2>5. nothing \subseteq none
    OBVIOUS
  <2> HIDE DEF X, none, nothing, p, P
  <2>6. /\ \A f \in nothing : /\ f.of = t /\ f.kind = "backup" /\ f.part # "data"
                              /\ f.part = "partial" => p \in {"writing", "dumped"}
                              /\ f.part # "partial" => p \in AfterRename
        /\ \A f \in disk : f.of = t /\ f \notin X /\ f.part # "partial" => p \in AfterRename
        /\ p \notin {"writing", "dumped"} => \A f \in disk : f.of = t /\ f \notin X => f.part # "partial"
        /\ \A f \in disk : f \in X => f.kind = "backup" /\ f.part # "data"
        /\ \/ P \in {"renamed", "manifest", "published", "completed"}
           \/ p \in {"writing", "dumped"}
           \/ /\ p \in {"failed", "cancelled"} /\ nothing \subseteq none
              /\ \A f \in disk : f.of = t => f.part = "partial"
    BY <1>3, <2>1, <2>2, <2>3, <2>4, <2>5
  <2> QED
    BY <1>3, <1>5, <2>1, <2>2, <2>6
<1> QED
  BY <1>6, <1>7, <1>8, <1>9, <1>10, <1>11, <1>12, <1>13

\* The jobs that read a file have none of their own; a restore takes its upload with it
\* (createSql(), createCsv(), executeSql(), executeCsv(), executeRestore()).
LEMMA ReaderKeeps ==
    ASSUME TransferInv, NEW t \in Tasks,
           \/ SubmitImport(t) \/ OpenSource(t) \/ ImportEnds(t) \/ RestoreEnds(t) \/ ReaderFails(t)
    PROVE  TransferInv'
<1>1. /\ task[t].kind \in {"import", "restore"} /\ task[t].kind \notin {"export", "backup"}
      /\ UNCHANGED <<artifacts, expired, graced, deleted>>
  BY DEF SubmitImport, OpenSource, ImportEnds, RestoreEnds, ReaderFails, Is, exports
<1>2. \A f \in disk : f.of # t
  BY <1>1, NoFiles
<1>3. CASE SubmitImport(t)
  <2>1. PICK s \in Tasks : task' = [task EXCEPT ![t].phase = "queued", ![t].source = s]
    BY <1>3 DEF SubmitImport
  <2> DEFINE r == [task[t] EXCEPT !.phase = "queued", !.source = s]
  <2>2. task[t] \in TaskRow
    BY DEF TransferInv, TransferTypes
  <2>3. /\ r \in TaskRow /\ r.phase = "queued" /\ r.kind = task[t].kind /\ r.name = task[t].name
        /\ task' = [task EXCEPT ![t] = r] /\ "queued" \in Phases
    BY <2>1, <2>2 DEF TaskRow, Phases
  <2> HIDE DEF r
  <2>4. Moves(t, "queued")
    BY <2>3, SetTask DEF Moves
  <2>5. disk' = disk
    BY <1>3 DEF SubmitImport
  <2> QED
    BY <1>1, <1>2, <2>3, <2>4, <2>5, OtherQuietStep
<1>4. CASE OpenSource(t) \/ ImportEnds(t) \/ ReaderFails(t)
  <2>1. PICK p \in Phases : Goto(t, p)
    BY <1>4, EndPhases DEF OpenSource, ImportEnds, ReaderFails, Phases
  <2>2. disk' = disk
    BY <1>4 DEF OpenSource, ImportEnds, ReaderFails
  <2>3. Moves(t, p)
    BY <2>1, GotoMoves
  <2> QED
    BY <1>1, <1>2, <2>2, <2>3, OtherQuietStep
<1>5. CASE RestoreEnds(t)
  <2> DEFINE p == Ended(t)
             N == {f \in FileRow : FALSE}
             X == {f \in disk : f \notin disk'}
  <2>1. Goto(t, p) /\ p \in Phases /\ disk' \subseteq disk
    BY <1>5, EndPhases DEF RestoreEnds, Remove
  <2>2. disk' = (disk \ X) \cup N /\ N \subseteq FileRow /\ \A f \in N : FALSE
    BY <2>1
  <2>3. \A f \in disk : f \in X => f.kind \notin {"export", "backup"}
    BY <1>5 DEF RestoreEnds, Remove, Uploads
  <2>4. Moves(t, p)
    BY <2>1, GotoMoves
  <2>5. /\ \A f \in N : /\ f.of = t /\ f.kind = task[t].kind /\ f.name = t
                        /\ f.part = "data" => f.whole
                        /\ p \in PhasesWith(f.kind, f.part)
        /\ \A f \in disk : f.of = t /\ f \notin X => p \in PhasesWith(f.kind, f.part)
    BY <1>2
  <2> HIDE DEF N, X, p
  <2> QED
    BY <1>1, <2>1, <2>2, <2>3, <2>4, <2>5, OtherMoveStep
<1> QED
  BY <1>3, <1>4, <1>5

\* A create that the provider or the upload refuses, and a cancel (JobManager.cancel()).
LEMMA CancelKeeps ==
    ASSUME TransferInv, NEW t \in Tasks, Refuse(t) \/ Cancel(t)
    PROVE  TransferInv'
<1> DEFINE P == task[t].phase
<1>1. /\ UNCHANGED <<artifacts, expired, graced, deleted>> /\ UNCHANGED disk
      /\ ExportOK(t) /\ BackupOK(t) /\ artifacts \subseteq Tasks /\ task[t] \in TaskRow /\ P \in Phases
  BY DEF Refuse, Cancel, exports, TransferInv, TransferTypes, TaskRow
<1>2. \A f \in disk : f.of = t => /\ f.kind = task[t].kind /\ f \in FileRow
                                  /\ P \in PhasesWith(f.kind, f.part)
  BY DEF TransferInv, TransferTypes, FileOK
<1>3. ASSUME NEW p \in {"refused", "cancelled"}, P \in {"checked", "queued"}, Moves(t, p)
      PROVE  TransferInv'
  <2>1. p \in Phases
    BY DEF Phases
  <2>2. \A f \in disk : f.of = t => p \in PhasesWith(f.kind, f.part)
    BY <1>2, <1>3, <2>1 DEF PhasesWith, AfterRename, FileRow, Uploads
  <2>3. ExportOK(t)' /\ BackupOK(t)'
    BY <1>1, <1>2, <1>3 DEF ExportOK, BackupOK, PastRename, HasLeft, Moves, PhasesWith, AfterRename
  <2> QED
    BY <1>1, <1>3, <2>1, <2>2, <2>3, QuietStep
<1>4. ASSUME Moves(t, P)
      PROVE  TransferInv'
  <2>1. ExportOK(t)'
    BY <1>1, <1>4 DEF ExportOK, Moves
  <2>2. BackupOK(t)'
    BY <1>1, <1>4 DEF BackupOK, PastRename, HasLeft, Moves, Held
  <2> QED
    BY <1>1, <1>2, <1>4, <2>1, <2>2, QuietStep
<1>5. CASE Refuse(t)
  <2>1. P \in {"checked", "queued"} /\ Goto(t, "refused") /\ "refused" \in Phases
    BY <1>5 DEF Refuse, Phases
  <2> QED
    BY <1>3, <2>1, GotoMoves
<1>6. CASE Cancel(t) /\ P = "queued"
  <2>1. P \in {"checked", "queued"} /\ Goto(t, "cancelled") /\ "cancelled" \in Phases
    BY <1>6 DEF Cancel, Goto, Phases
  <2> QED
    BY <1>3, <2>1, GotoMoves
<1>7. CASE Cancel(t) /\ P # "queued"
  <2> DEFINE r == [task[t] EXCEPT !.cancel = TRUE]
  <2>1. /\ r \in TaskRow /\ r.phase = P /\ r.kind = task[t].kind /\ r.name = task[t].name
        /\ task' = [task EXCEPT ![t] = r]
    BY <1>1, <1>7 DEF Cancel, TaskRow
  <2> HIDE DEF r
  <2>2. Moves(t, P)
    BY <2>1, SetTask DEF Moves
  <2> QED
    BY <1>4, <2>2
<1> QED
  BY <1>5, <1>6, <1>7

\* The sweeps take uploads only, and time only ends retentions and graces
\* (cleanup() of both upload stores).
LEMMA SweepKeeps ==
    ASSUME TransferInv, NEW t \in Tasks,
           CondemnUpload(t) \/ SweepUpload(t) \/ Expire(t) \/ GraceOver(t)
    PROVE  TransferInv'
<1>1. /\ UNCHANGED <<task, artifacts, deleted>> /\ disk' \subseteq disk
      /\ expired \subseteq expired' /\ graced \subseteq graced'
  BY DEF CondemnUpload, SweepUpload, Expire, GraceOver, Swept, Remove, exports
<1>2. \A f \in disk : f.kind \in {"export", "backup"} => f \in disk'
  BY DEF CondemnUpload, SweepUpload, Expire, GraceOver, Swept, Remove, Uploads
<1> QED
  BY <1>1, <1>2, OtherRemoveStep

\* An entry goes with its file when its retention or grace is over, and no other does
\* (cleanup(), removeArtifact(), and download()).
LEMMA ArtifactsKeep ==
    ASSUME TransferInv, NEW S \in SUBSET Due, RemoveArtifacts(S),
           UNCHANGED <<task, graced, expired, deleted>>
    PROVE  TransferInv'
<1>1. /\ artifacts' = artifacts \ S /\ disk' \subseteq disk
      /\ \A f \in disk : f \in disk' <=> ~(f.kind = "export" /\ f.name \in S)
      /\ \A q \in S : q \in artifacts /\ (q \in expired \/ q \in graced)
  BY DEF RemoveArtifacts, Due
<1>2. ASSUME NEW t \in Tasks
      PROVE  ExportOK(t)'
  <2> DEFINE F == File("export", "data", t, t, TRUE)
  <2>1. ExportOK(t) /\ F.name = t
    BY DEF TransferInv, File
  <2>2. t \notin S /\ F \in disk => F \in disk'
    BY <1>1, <2>1
  <2>3. t \in S => t \in artifacts /\ t \in expired \cup graced
    BY <1>1
  <2> QED
    BY <1>1, <2>1, <2>2, <2>3 DEF ExportOK
<1>3. ASSUME NEW t \in Tasks
      PROVE  BackupOK(t)'
  <2>1. BackupOK(t)
    BY DEF TransferInv
  <2>2. Held(task[t].name) => Held(task[t].name)'
    BY <1>1, HeldStays
  <2> QED
    BY <1>1, <2>1, <2>2 DEF BackupOK, PastRename, HasLeft, Held
<1> QED
  BY <1>1, <1>2, <1>3, RemoveStep

\* What goes with a name: the backups under it count as deleted
\* (BackupStore.delete()).
LEMMA DeletedStay ==
    ASSUME TransferInv, NEW t \in Tasks, NEW N, task'[t] = task[t], deleted' = deleted \cup Under(N),
           disk' \subseteq disk,
           \A f \in disk : f.kind = "backup" /\ f.part = "data" /\ f.name \notin N => f \in disk'
    PROVE  BackupOK(t)'
<1> DEFINE n == task[t].name
<1>1. CASE n \in N
  BY <1>1 DEF BackupOK, PastRename, Under
<1>2. CASE n \notin N
  <2>1. Held(n) => Held(n)'
    BY <1>2 DEF Held, File
  <2>2. BackupOK(t)
    BY DEF TransferInv
  <2> QED
    BY <2>1, <2>2 DEF BackupOK, PastRename, HasLeft, Held
<1> QED
  BY <1>1, <1>2

\* A name that is deleted, by hand or up to the crash, and the end of the process: what was
\* under way is lost, and its files stay in any state (Crash).
LEMMA CrashKeeps ==
    ASSUME TransferInv, Crash
    PROVE  TransferInv'
<1>1. PICK S \in SUBSET BeingRemoved :
         /\ disk' = disk \ S
         /\ deleted' = deleted \cup Under({f.name : f \in {g \in S : g.kind = "backup" /\ g.part # "partial"}})
  BY DEF Crash
<1>2. artifacts' = {}
  BY DEF Crash
<1>3. ASSUME NEW t \in Tasks
      PROVE  /\ task'[t] \in TaskRow /\ task'[t].kind = task[t].kind
             /\ task'[t].phase \notin Busy
             /\ task[t].kind = "export" => task'[t].phase # "completed"
             /\ \/ task'[t].phase = "lost" /\ task[t].phase \in Busy \cup {"checked", "saved"}
                \/ task[t].kind = "export" /\ task[t].phase = "completed" /\ task'[t].phase = "forgotten"
                \/ task'[t] = task[t]
  <2>1. task[t] \in TaskRow
    BY DEF TransferInv, TransferTypes
  <2>2. task'[t] = IF task[t].phase \in Busy \cup {"checked", "saved"}
                   THEN [task[t] EXCEPT !.phase = "lost"]
                   ELSE IF task[t].kind = "export" /\ task[t].phase = "completed"
                   THEN [task[t] EXCEPT !.phase = "forgotten"] ELSE task[t]
    BY DEF Crash
  <2>3. "lost" \notin Busy /\ "forgotten" \notin Busy /\ "lost" \in Phases /\ "forgotten" \in Phases
    BY DEF Busy, Running, Phases
  <2>4. CASE task[t].phase \in Busy \cup {"checked", "saved"}
    BY <2>1, <2>2, <2>3, <2>4 DEF TaskRow
  <2>5. CASE /\ task[t].phase \notin Busy \cup {"checked", "saved"}
             /\ task[t].kind = "export" /\ task[t].phase = "completed"
    BY <2>1, <2>2, <2>3, <2>5 DEF TaskRow
  <2>6. CASE /\ task[t].phase \notin Busy \cup {"checked", "saved"}
             /\ ~(task[t].kind = "export" /\ task[t].phase = "completed")
    BY <2>1, <2>2, <2>6
  <2> QED
    BY <2>4, <2>5, <2>6
<1>4. TransferTypes'
  <2>1. task' = [t \in Tasks |-> task'[t]]
    BY DEF Crash
  <2>2. task' \in [Tasks -> TaskRow]
    BY <1>3, <2>1
  <2> QED
    BY <1>1, <1>2, <2>2 DEF TransferInv, TransferTypes
<1>5. \A f \in disk' : FileOK(f)'
  <2> TAKE f \in disk'
  <2>1. f \in disk /\ f \in FileRow /\ f.of \in Tasks /\ FileOK(f)
    BY <1>1 DEF TransferInv, TransferTypes, FileRow
  <2>2. task'[f.of].phase \in PhasesWith(f.kind, f.part)
    <3>1. task[f.of].kind = f.kind /\ task[f.of].phase \in PhasesWith(f.kind, f.part)
      BY <2>1 DEF FileOK
    <3>2. CASE task'[f.of].phase = "lost"
      BY <3>1, <3>2 DEF PhasesWith, AfterRename, Phases
    <3>3. CASE f.kind = "export" /\ task[f.of].phase = "completed" /\ task'[f.of].phase = "forgotten"
      BY <3>1, <3>3 DEF PhasesWith, AfterRename, Phases, Uploads
    <3> QED
      BY <1>3, <2>1, <3>1, <3>2, <3>3
  <2> QED
    BY <1>3, <2>1, <2>2 DEF FileOK
<1>6. \A t \in Tasks : ExportOK(t)'
  BY <1>2, <1>3 DEF ExportOK, Busy, Running
<1>7. \A t \in Tasks : BackupOK(t)'
  <2> TAKE t \in Tasks
  <2> DEFINE N == {f.name : f \in {g \in S : g.kind = "backup" /\ g.part # "partial"}}
  <2>1. CASE task'[t] = task[t]
    <3>1. \A f \in disk : f.kind = "backup" /\ f.part = "data" /\ f.name \notin N => f \in disk'
      BY <1>1
    <3>2. deleted' = deleted \cup Under(N) /\ disk' \subseteq disk
      BY <1>1
    <3> HIDE DEF N
    <3> QED
      BY <2>1, <3>1, <3>2, DeletedStay
  <2>2. CASE task'[t] # task[t]
    BY <1>3, <2>2 DEF BackupOK, PastRename
  <2> QED
    BY <2>1, <2>2
<1> QED
  BY <1>4, <1>5, <1>6, <1>7 DEF TransferInv

\* Every step preserves the invariant.
LEMMA TransferStep ==
    ASSUME TransferInv, [Next]_vars
    PROVE  TransferInv'
<1>1. ASSUME NEW t \in Tasks, Upload(t)
      PROVE  TransferInv'
  BY <1>1, BeginsKeep, UploadKeeps DEF Upload
<1>2. ASSUME NEW t \in Tasks, Sweep(t) \/ Expire(t) \/ GraceOver(t)
      PROVE  TransferInv'
  BY <1>2, SweepKeeps DEF Sweep
<1>3. ASSUME NEW t \in Tasks, NEW u \in Users, Download(t, u)
      PROVE  TransferInv'
  <2> DEFINE gone == {d \in Due : d # t \/ (ExportFound(u, t) /\ t \in expired)}
  <2>1. gone \in SUBSET Due /\ RemoveArtifacts(gone) /\ UNCHANGED <<task, graced, expired, deleted>>
    BY <1>3 DEF Download
  <2> HIDE DEF gone
  <2> QED
    BY <2>1, ArtifactsKeep
<1>4. ASSUME NEW t \in Tasks, Export(t)
      PROVE  TransferInv'
  BY <1>3, <1>4, ExportKeeps DEF Export
<1>5. ASSUME NEW t \in Tasks, Backup(t)
      PROVE  TransferInv'
  <2>1. CASE \E u \in Users, n \in Names : Allocate(t, u, n)
    BY <2>1, BeginsKeep
  <2>2. CASE \/ RunDump(t) \/ Dumped(t) \/ CommitData(t) \/ OpenTemporaryManifest(t)
             \/ WriteManifest(t) \/ CommitManifest(t) \/ FinishBackup(t) \/ BackupFails(t)
    BY <2>2, BackupKeeps
  <2> QED
    BY <1>5, <2>1, <2>2 DEF Backup
<1>6. ASSUME NEW t \in Tasks, Reader(t)
      PROVE  TransferInv'
  <2>1. CASE \E u \in Users : CreateRestore(t, u)
    BY <2>1, BeginsKeep
  <2>2. CASE \/ SubmitImport(t) \/ OpenSource(t) \/ ImportEnds(t) \/ RestoreEnds(t) \/ ReaderFails(t)
    BY <2>2, ReaderKeeps
  <2> QED
    BY <1>6, <2>1, <2>2 DEF Reader
<1>7. ASSUME NEW t \in Tasks, Refuse(t) \/ Cancel(t)
      PROVE  TransferInv'
  BY <1>7, CancelKeeps
<1>8. ASSUME NEW t \in Tasks, NEW u \in Users, NEW k \in {"export", "import"}, CheckLimit(t, u, k)
      PROVE  TransferInv'
  BY <1>8, BeginsKeep
<1>9. ASSUME NEW u \in Users, NEW n \in Names, DeleteBackup(u, n)
      PROVE  TransferInv'
  <2>1. /\ UNCHANGED <<task, artifacts, expired, graced>> /\ deleted' = deleted \cup Under({n})
        /\ disk' \subseteq disk
        /\ \A f \in disk : f.kind # "backup" \/ f.name # n => f \in disk'
    BY <1>9 DEF DeleteBackup, Named, exports
  <2>2. ASSUME NEW t \in Tasks
        PROVE  ExportOK(t)'
    <3>1. File("export", "data", t, t, TRUE) \in disk => File("export", "data", t, t, TRUE) \in disk'
      BY <2>1 DEF File
    <3> QED
      BY <2>1, <3>1 DEF TransferInv, ExportOK
  <2>3. ASSUME NEW t \in Tasks
        PROVE  BackupOK(t)'
    BY <2>1, DeletedStay
  <2> QED
    BY <2>1, <2>2, <2>3, RemoveStep
<1>10. ASSUME CleanupExports
       PROVE  TransferInv'
  BY <1>10, ArtifactsKeep DEF CleanupExports
<1>11. ASSUME UNCHANGED vars
       PROVE  TransferInv'
  <2>1. UNCHANGED <<disk, task, artifacts, expired, graced, deleted>>
    BY <1>11 DEF vars, exports
  <2> QED
    BY <2>1, OtherRemoveStep
<1> QED
  BY <1>1, <1>2, <1>4, <1>5, <1>6, <1>7, <1>8, <1>9, <1>10, <1>11, CrashKeeps DEF Next

-----------------------------------------------------------------------------
(* The theorems *)

\* The inductive invariant: which files a task in each phase can have, that an export has its
\* data and its entry for as long as it is promised, and a backup a dump under its name.
THEOREM TransferInvariant == Spec => []TransferInv
<1>1. Init => TransferInv
  <2> SUFFICES ASSUME Init PROVE TransferInv
    OBVIOUS
  <2>1. NoTask \in TaskRow
    BY DEF NoTask, TaskRow, Phases
  <2>2. task \in [Tasks -> TaskRow] /\ \A t \in Tasks : task[t].kind = "none"
    BY <2>1 DEF Init, NoTask
  <2> QED
    BY <2>2 DEF Init, TransferInv, TransferTypes, ExportOK, BackupOK
<1>2. TransferInv /\ [Next]_vars => TransferInv'
  BY TransferStep
<1> QED
  BY <1>1, <1>2, PTL DEF Spec

\* Whatever fails, is cancelled, expires, is deleted or replaced, and wherever the process dies:
\* a failed upload or export leaves no file and a cancelled export at most its whole one; a backup
\* that failed or was cancelled leaves no part of a dump, and what it leaves beside it, which may
\* be listed and served, has a whole dump under its name unless that was deleted; what is served
\* is whole, a completed export stays for its retention and a completed backup until it is
\* deleted (the catch blocks of save(), execute() and executeBackup(), cleanup(), download() and
\* BackupStore.delete()).
THEOREM FilesStayTrue == Spec => []FilesAreTrue
<1>1. ASSUME TransferInv
      PROVE  FilesAreTrue
  <2> USE <1>1
  <2>1. \A f \in disk : /\ FileOK(f) /\ f \in FileRow /\ f.of \in Tasks
                         /\ f = File(f.kind, f.part, f.name, f.of, f.whole)
    BY DEF TransferInv, TransferTypes, FileRow, File
  <2>2. FailureLeavesOnlyWhole
    <3>1. ASSUME NEW t \in Tasks, task[t].phase \in {"failed", "cancelled"}
          PROVE  \A f \in OfTask(t) :
                    /\ f \in disk /\ f.kind = task[t].kind /\ f.part # "partial"
                    /\ task[t].kind \notin Uploads
                    /\ task[t].kind = "export" =>
                          task[t].phase = "cancelled" /\ f = File("export", "data", t, t, TRUE)
      <4> TAKE f \in OfTask(t)
      <4>1. /\ f \in disk /\ f.of = t /\ f.kind = task[t].kind
            /\ task[t].phase \in PhasesWith(f.kind, f.part)
            /\ f.kind # "backup" => f.name = t
            /\ f.part = "data" => f.whole
            /\ f \in FileRow /\ f = File(f.kind, f.part, f.name, f.of, f.whole)
        BY <2>1 DEF OfTask, FileOK
      <4>2. f.part # "partial"
        BY <3>1, <4>1 DEF PhasesWith
      <4>3. f.kind \notin Uploads
        BY <3>1, <4>1, <4>2 DEF PhasesWith, Uploads, FileRow
      <4>4. ASSUME f.kind = "export"
            PROVE  task[t].phase = "cancelled" /\ f = File("export", "data", t, t, TRUE)
        <5>1. f.part = "data" /\ task[t].phase = "cancelled"
          BY <3>1, <4>1, <4>2, <4>4 DEF PhasesWith, Uploads, FileRow
        <5>2. f.whole = TRUE /\ f.name = t
          BY <4>1, <4>4, <5>1 DEF FileRow
        <5> QED
          BY <4>1, <4>4, <5>1, <5>2
      <4> QED
        BY <4>1, <4>2, <4>3, <4>4
    <3>2. ASSUME NEW t \in Tasks, task[t].phase \in {"failed", "cancelled"}, task[t].kind = "backup",
                 OfTask(t) # {}, t \notin deleted
          PROVE  \E s \in Tasks : File("backup", "data", task[t].name, s, TRUE) \in disk
      <4>1. HasLeft(t)
        BY <3>1, <3>2 DEF HasLeft, OfTask
      <4> QED
        BY <3>2, <4>1 DEF TransferInv, BackupOK, PastRename, Held
    <3>3. ASSUME NEW t \in Tasks, task[t].phase \in {"failed", "cancelled"}
          PROVE  /\ task[t].kind \in Uploads => OfTask(t) = {}
                 /\ task[t].kind = "export" =>
                       OfTask(t) \subseteq IF task[t].phase = "failed" THEN {}
                                          ELSE {File("export", "data", t, t, TRUE)}
                 /\ Partial(t) = {}
      BY <3>1, <3>3 DEF Partial
    <3> QED
      BY <3>2, <3>3 DEF FailureLeavesOnlyWhole
  <2>3. ServedIsWhole
    <3>1. ASSUME NEW u \in Users, NEW t \in Tasks, NEW k \in Uploads, UploadServed(u, k, t)
          PROVE  File(k, "data", t, t, TRUE) \in disk
      <4>1. PICK f \in disk : f.kind = k /\ f.part = "data" /\ f.name = t
        BY <3>1 DEF UploadServed, Exists, Named
      <4>2. f.of = t /\ f.whole = TRUE
        BY <2>1, <4>1 DEF FileOK, Uploads, FileRow
      <4> QED
        BY <2>1, <4>1, <4>2
    <3>2. ASSUME NEW u \in Users, NEW t \in Tasks, ExportServed(u, t)
          PROVE  File("export", "data", t, t, TRUE) \in disk
      BY <3>2 DEF ExportServed, ExportFound, TransferInv, ExportOK
    <3>3. ASSUME NEW u \in Users, NEW n \in Names, BackupServed(u, n)
          PROVE  \E t \in Tasks : File("backup", "data", n, t, TRUE) \in disk
      <4>1. PICK f \in disk : f.kind = "backup" /\ f.part = "data" /\ f.name = n
        BY <3>3 DEF BackupServed, Exists, Named
      <4>2. f.whole = TRUE
        BY <2>1, <4>1 DEF FileOK, FileRow
      <4> QED
        BY <2>1, <4>1, <4>2
    <3> QED
      BY <3>1, <3>2, <3>3 DEF ServedIsWhole
  <2>4. ExportStaysAvailable
    BY DEF ExportStaysAvailable, ExportServed, ExportFound, Is, TransferInv, ExportOK
  <2>5. BackupsAreKept
    BY DEF BackupsAreKept, Is, TransferInv, BackupOK, PastRename, Held
  <2> QED
    BY <2>2, <2>3, <2>4, <2>5 DEF FilesAreTrue
<1> QED
  BY <1>1, TransferInvariant, PTL

-----------------------------------------------------------------------------
(* The native tools: the inductive invariant *)

ToolPhases == {"create", "preflight", "preflightOptions", "queued", "createDatabase", "prepare",
           "writeOptions", "spawn", "open", "listen", "stream", "wait", "exited"} \cup NT!Over

ToolTypes ==
    /\ job \in [req : NT!Requests, kind : {"dump", "restore"}, engine : DumpEngines,
                tool : {"missing", "older", "fits"}, phase : ToolPhases, signal : BOOLEAN,
                listening : BOOLEAN, aborted : BOOLEAN, done : Nat]
    /\ tool \in [state : {"none", "running", "exited"}, chunks : Nat, eof : BOOLEAN,
                 killed : BOOLEAN, ok : BOOLEAN]
    /\ temp \in BOOLEAN /\ dump \in Nat /\ db \in Nat

\* The tool runs while the executor awaits it and is over when the executor found it so.
ToolFits ==
    /\ tool.state # "none" => job.phase \in {"open", "listen", "stream", "wait", "exited"} \cup NT!Over
    /\ job.phase \in {"exited", "completed"} => tool.state # "running"
    /\ job.phase = "completed" => tool.ok
    /\ tool.ok => tool.state = "exited"
    /\ job.aborted => job.signal

\* A dump's file holds no more than the tool wrote: nothing before the stream and after a
\* failure, all of it once the stream ended; and a tool that succeeded wrote the whole dump.
DumpFits ==
    job.kind = "dump" =>
      /\ dump <= tool.chunks /\ tool.chunks <= DumpChunks
      /\ job.phase \notin {"stream", "wait", "exited", "completed"} => dump = 0
      /\ job.phase \in {"wait", "exited", "completed"} => dump = tool.chunks /\ tool.state # "running"
      /\ tool.ok => tool.chunks = DumpChunks

\* A restore has sent what the tool may read; its input ends early only for a job that will not
\* complete, and a tool that succeeded made everything sent the content of the database.
RestoreFits ==
    job.kind = "restore" =>
      /\ dump = DumpChunks
      /\ job.phase \in {"wait", "exited", "completed"} => job.done = DumpChunks
      /\ tool.ok => db = tool.chunks /\ tool.chunks = job.done

\* A directory is there only between its creation and the end of the command; PostgreSQL's
\* holds no password.
TempFits ==
    job.engine = "mysql" /\ temp =>
      job.phase \in {"writeOptions", "preflightOptions", "spawn", "open", "listen", "stream",
                     "wait", "exited"}

ToolInv == ToolTypes /\ ToolFits /\ DumpFits /\ RestoreFits /\ TempFits

-----------------------------------------------------------------------------
(* The native tools: every step keeps it *)

\* No file and no tool at first; the source of a restore is there.
LEMMA InitTools == NT!Init => ToolInv
<1> SUFFICES ASSUME NT!Init
             PROVE  ToolInv
  OBVIOUS
<1>1. PICK r \in NT!Requests :
        job = [req |-> r, kind |-> r.kind, engine |-> r.engine, tool |-> r.tool,
               phase |-> "create", signal |-> FALSE, listening |-> FALSE,
               aborted |-> FALSE, done |-> 0]
  BY DEF NT!Init
<1>2. /\ r.kind \in {"dump", "restore"} /\ r.engine \in DumpEngines
      /\ r.tool \in {"missing", "older", "fits"}
  BY DEF NT!Requests, NT!Dump, NT!Load
<1>3. job.kind = r.kind /\ job.engine = r.engine /\ job.phase = "create" /\ ~job.aborted
  BY <1>1
<1>4. tool = NT!NoTool /\ temp = FALSE /\ db = 0 /\ dump = IF r.kind = "dump" THEN 0 ELSE DumpChunks
  BY <1>3 DEF NT!Init, NT!Dump
<1>5. ToolTypes
  <2>1. job \in [req : NT!Requests, kind : {"dump", "restore"}, engine : DumpEngines,
                 tool : {"missing", "older", "fits"}, phase : ToolPhases, signal : BOOLEAN,
                 listening : BOOLEAN, aborted : BOOLEAN, done : Nat]
    BY <1>1, <1>2 DEF ToolPhases
  <2>2. tool \in [state : {"none", "running", "exited"}, chunks : Nat, eof : BOOLEAN,
                  killed : BOOLEAN, ok : BOOLEAN]
    BY <1>4 DEF NT!NoTool
  <2> QED
    BY <2>1, <2>2, <1>4, ChunksAssumption DEF ToolTypes
<1> QED
  BY <1>2, <1>3, <1>4, <1>5, ChunksAssumption
     DEF NT!NoTool, ToolInv, ToolFits, DumpFits, RestoreFits, TempFits, NT!Over

\* Creating the job, its preflight and its turn: no tool runs, no directory is left.
LEMMA CreateStep ==
    ASSUME ToolInv,
           NT!CreateBackup \/ NT!CreateRestore \/ NT!ToolChanges \/ NT!Run \/ NT!CreateDatabase
             \/ NT!Unsupported \/ NT!CancelQueued
    PROVE  ToolInv'
<1> USE DEF ToolInv, ToolTypes, ToolFits, DumpFits, RestoreFits, TempFits, ToolPhases, NT!Over, NT!Goto,
            NT!Dump, NT!Load
<1>1. CASE NT!CreateBackup
  BY <1>1 DEF NT!CreateBackup
<1>2. CASE NT!CreateRestore
  BY <1>2 DEF NT!CreateRestore
<1>3. CASE NT!ToolChanges
  BY <1>3 DEF NT!ToolChanges
<1>4. CASE NT!Run
  BY <1>4 DEF NT!Run
<1>5. CASE NT!CreateDatabase
  BY <1>5 DEF NT!CreateDatabase
<1>6. CASE NT!Unsupported
  BY <1>6 DEF NT!Unsupported, NT!Preparing, NT!GivenUp
<1>7. CASE NT!CancelQueued
  BY <1>7 DEF NT!CancelQueued
<1> QED
  BY <1>1, <1>2, <1>3, <1>4, <1>5, <1>6, <1>7

\* Preparing the command: MySQL's directory stays for a command that will run and no other.
LEMMA PrepareStep ==
    ASSUME ToolInv,
           NT!MysqlPrepare \/ NT!MysqlPrepareRestore \/ NT!PostgresqlPrepare
             \/ NT!PostgresqlPrepareRestore \/ NT!OptionsWritten \/ NT!OptionsFail
    PROVE  ToolInv'
<1> USE DEF ToolInv, ToolTypes, ToolFits, DumpFits, RestoreFits, TempFits, ToolPhases, NT!Over, NT!Goto,
            NT!Dump, NT!Load, NT!Preparing, NT!Options, NT!Prepared, NT!GivenUp
<1>1. CASE NT!MysqlPrepare
  BY <1>1 DEF NT!MysqlPrepare
<1>2. CASE NT!MysqlPrepareRestore
  BY <1>2 DEF NT!MysqlPrepareRestore
<1>3. CASE NT!PostgresqlPrepare
  BY <1>3 DEF NT!PostgresqlPrepare
<1>4. CASE NT!PostgresqlPrepareRestore
  BY <1>4 DEF NT!PostgresqlPrepareRestore
<1>5. CASE NT!OptionsWritten
  BY <1>5 DEF NT!OptionsWritten
<1>6. CASE NT!OptionsFail
  BY <1>6 DEF NT!OptionsFail
<1> QED
  BY <1>1, <1>2, <1>3, <1>4, <1>5, <1>6

\* The tool's input ends and nothing else happens to it.
EofOnly ==
    /\ tool' \in [state : {"none", "running", "exited"}, chunks : Nat, eof : BOOLEAN,
                  killed : BOOLEAN, ok : BOOLEAN]
    /\ tool'.state = tool.state /\ tool'.chunks = tool.chunks /\ tool'.ok = tool.ok

\* Ending the input of the tool, or not.
LEMMA EofEffect ==
    ASSUME ToolTypes, NEW e \in BOOLEAN, NEW k \in BOOLEAN,
           tool' \in {tool, [tool EXCEPT !.eof = e], [tool EXCEPT !.killed = k, !.eof = e]}
    PROVE  EofOnly
BY DEF ToolTypes, EofOnly

\* The executor starts the tool and listens, or finds that it should not have.
LEMMA StartStep ==
    ASSUME ToolInv,
           NT!Spawn \/ NT!Opened \/ NT!Listen \/ NT!AlreadyAborted \/ NT!OpenFails \/ NT!Cancel
    PROVE  ToolInv'
<1> USE ChunksAssumption
    DEF ToolInv, ToolTypes, ToolFits, DumpFits, RestoreFits, TempFits, ToolPhases, NT!Over, NT!Goto,
        NT!Dump, NT!Load, NT!cleanup, NT!NoTool
<1>1. CASE NT!Spawn
  <2>1. ToolTypes'
    BY <1>1 DEF NT!Spawn
  <2>2. ToolFits'
    BY <1>1 DEF NT!Spawn
  <2>3. DumpFits'
    BY <1>1 DEF NT!Spawn
  <2>4. RestoreFits'
    BY <1>1 DEF NT!Spawn
  <2>5. TempFits'
    BY <1>1 DEF NT!Spawn
  <2> QED
    BY <2>1, <2>2, <2>3, <2>4, <2>5
<1>2. CASE NT!Opened
  BY <1>2 DEF NT!Opened
<1>3. CASE NT!Listen
  BY <1>3 DEF NT!Listen
<1>4. CASE NT!AlreadyAborted
  <2>1. EofOnly
    BY <1>4, EofEffect DEF NT!AlreadyAborted
  <2> QED
    BY <1>4, <2>1 DEF NT!AlreadyAborted, EofOnly
<1>5. CASE NT!OpenFails
  BY <1>5 DEF NT!OpenFails
<1>6. CASE NT!Cancel
  <2>1. EofOnly
    BY <1>6, EofEffect DEF NT!Cancel, NT!Killed, NT!Running
  <2>2. /\ job'.phase = job.phase /\ job'.kind = job.kind /\ job'.engine = job.engine
        /\ job'.done = job.done /\ job'.signal
        /\ job' \in [req : NT!Requests, kind : {"dump", "restore"}, engine : DumpEngines,
                     tool : {"missing", "older", "fits"}, phase : ToolPhases, signal : BOOLEAN,
                     listening : BOOLEAN, aborted : BOOLEAN, done : Nat]
        /\ UNCHANGED <<temp, dump, db>>
    BY <1>6 DEF NT!Cancel
  <2> QED
    BY <2>1, <2>2 DEF EofOnly
<1> QED
  BY <1>1, <1>2, <1>3, <1>4, <1>5, <1>6

\* The executor's turns, to the end of the job.
LEMMA StreamStep ==
    ASSUME ToolInv,
           NT!WriteChunk \/ NT!SendChunk \/ NT!StreamEnds \/ NT!Exited \/ NT!RunEnds
             \/ NT!StopsStreaming \/ NT!StreamFails
    PROVE  ToolInv'
<1> USE ChunksAssumption
    DEF ToolInv, ToolTypes, ToolFits, DumpFits, RestoreFits, TempFits, ToolPhases, NT!Over, NT!Goto,
            NT!Dump, NT!Load, NT!cleanup, NT!Removed, NT!Running
<1>1. CASE NT!WriteChunk
  BY <1>1 DEF NT!WriteChunk
<1>2. CASE NT!SendChunk
  BY <1>2 DEF NT!SendChunk
<1>3. CASE NT!StreamEnds
  BY <1>3 DEF NT!StreamEnds
<1>4. CASE NT!Exited
  BY <1>4 DEF NT!Exited
<1>5. CASE NT!RunEnds
  <2>1. job.phase = "exited" /\ UNCHANGED <<tool, db>> /\ temp' = FALSE
    BY <1>5 DEF NT!RunEnds
  <2>2. CASE job' = [job EXCEPT !.phase = "completed"] /\ dump' = dump /\ NT!ExitsWell
    BY <2>1, <2>2 DEF NT!ExitsWell
  <2>3. CASE /\ job' = [job EXCEPT !.phase = "cancelled"] \/ job' = [job EXCEPT !.phase = "failed"]
             /\ dump' = (IF job.kind = "dump" THEN 0 ELSE dump)
    <3>1. ToolTypes'
      BY <2>1, <2>3
    <3>2. ToolFits'
      BY <2>1, <2>3
    <3>3. DumpFits'
      BY <2>1, <2>3
    <3>4. RestoreFits'
      BY <2>1, <2>3
    <3>5. TempFits'
      BY <2>1, <2>3
    <3> QED
      BY <3>1, <3>2, <3>3, <3>4, <3>5
  <2> QED
    BY <1>5, <2>2, <2>3 DEF NT!RunEnds
<1>6. CASE NT!StopsStreaming \/ NT!StreamFails
  <2>1. EofOnly
    BY <1>6, EofEffect DEF NT!StopsStreaming, NT!StreamFails
  <2>2. /\ job.phase = "stream"
        /\ job' = [job EXCEPT !.phase = "cancelled"] \/ job' = [job EXCEPT !.phase = "failed"]
        /\ temp' = FALSE /\ dump' = (IF job.kind = "dump" THEN 0 ELSE dump) /\ db' = db
    BY <1>6 DEF NT!StopsStreaming, NT!StreamFails
  <2> QED
    <3>1. ToolTypes'
      BY <2>1, <2>2 DEF EofOnly
    <3>2. ToolFits'
      BY <2>1, <2>2 DEF EofOnly
    <3>3. DumpFits'
      BY <2>1, <2>2 DEF EofOnly
    <3>4. RestoreFits'
      BY <2>1, <2>2 DEF EofOnly
    <3>5. TempFits'
      BY <2>1, <2>2 DEF EofOnly
    <3> QED
      BY <3>1, <3>2, <3>3, <3>4, <3>5
<1> QED
  BY <1>1, <1>2, <1>3, <1>4, <1>5, <1>6

\* The tool's own steps.
LEMMA ToolStep ==
    ASSUME ToolInv, NT!ToolWrites \/ NT!ToolReads \/ NT!ToolSucceeds \/ NT!ToolFails
    PROVE  ToolInv'
<1> USE ChunksAssumption
    DEF ToolInv, ToolTypes, ToolFits, DumpFits, RestoreFits, TempFits, ToolPhases, NT!Over, NT!Dump,
        NT!Load, NT!Running
<1>1. CASE NT!ToolWrites
  BY <1>1 DEF NT!ToolWrites
<1>2. CASE NT!ToolReads
  BY <1>2 DEF NT!ToolReads
<1>3. CASE NT!ToolSucceeds
  BY <1>3 DEF NT!ToolSucceeds
<1>4. CASE NT!ToolFails
  BY <1>4 DEF NT!ToolFails
<1> QED
  BY <1>1, <1>2, <1>3, <1>4

\* Every step of a job and its tool keeps it, and so does every step of the others.
LEMMA ToolsStep == ToolInv /\ [AllNext]_allVars => ToolInv'
<1> SUFFICES ASSUME ToolInv, [AllNext]_allVars
             PROVE  ToolInv'
  OBVIOUS
<1>1. CASE NT!Next
  BY <1>1, CreateStep, PrepareStep, StartStep, StreamStep, ToolStep DEF NT!Next
<1>2. CASE UNCHANGED tools
  BY <1>2 DEF tools, ToolInv, ToolTypes, ToolFits, DumpFits, RestoreFits, TempFits
<1> QED
  BY <1>1, <1>2 DEF AllNext, allVars

\* What a job, its tool and their files say of one another holds in every reachable state, for
\* a dump of any length.
THEOREM ToolInvariant == AllSpec => []ToolInv
<1>1. AllInit => ToolInv
  BY InitTools DEF AllInit
<1> QED
  BY <1>1, ToolsStep, PTL DEF AllSpec

\* A dump or restore that is reported as completed was whole, one that was not leaves no file,
\* and MySQL's password file never outlives its job.
THEOREM ToolsStayTrue == AllSpec => []ToolsAreTrue
<1>1. ToolInv => ToolsAreTrue
  BY DEF ToolInv, ToolTypes, ToolFits, DumpFits, RestoreFits, TempFits, ToolPhases, ToolsAreTrue,
         NT!CompletedIsWhole, NT!PasswordFileRemoved, NT!Over, NT!Dump, NT!Load
<1> QED
  BY <1>1, ToolInvariant, PTL
=============================================================================
