---------------------------- MODULE RestorePage ----------------------------
(***************************************************************************)
(* The page of backups (backup-restore.ts): the dialog that creates a      *)
(* backup, the dialog that restores one, and the lists of artifacts and    *)
(* jobs.                                                                   *)
(*                                                                         *)
(* A call is sent, answered or failed by the server once, and received.    *)
(* A source is an artifact of the list or the last file that was uploaded; *)
(* the server knows from a source whether it can be restored.  Texts are   *)
(* database names; scope, compression and note ride along.                 *)
(***************************************************************************)
EXTENDS Naturals, FiniteSets

CONSTANTS
    Conns,       \* connections of the user; a number, the list is in this order
    Capable,     \* connections whose server has the tools for backup and restore
    Artifacts,   \* artifacts that exist at first
    Invalid,     \* sources the server refuses to validate
    Names,       \* database names the user types
    MaxActs, MaxCalls, MaxFails   \* bounds

VARIABLES
    page,        \* [loading, failed, conns, artifacts, jobs]: what the lists show
    conn,        \* selectedConnectionId, 0 before one is chosen
    capability,  \* the connection whose capability is shown, 0 while it is not known
    create,      \* [open, busy, name]
    restore,     \* [open, busy, uploading, source, validation, target, confirm]
    action,      \* actionId: what a button of the lists is waiting for
    stored,      \* server: artifacts that exist
    jobs,        \* server: jobs, each [source, target, conn, state]
    calls,       \* HTTP calls under way
    acts, fails

vars == <<page, conn, capability, create, restore, action, stored, jobs, calls, acts, fails>>

None == "none"
Upload == "upload"
NoCreate == [open |-> FALSE, busy |-> FALSE, name |-> ""]
NoRestore == [open |-> FALSE, busy |-> FALSE, uploading |-> FALSE, source |-> None,
              validation |-> None, target |-> "", confirm |-> ""]

\* What is in flight: a kind, what it is about, and the state of the answer.
Sent(kind, about) == [kind |-> kind, about |-> about, answer |-> "none",
                      artifacts |-> {}, jobs |-> {}]
Send(kind, about) == calls' = calls \cup {Sent(kind, about)}

TypeOK ==
    /\ conn \in Conns \cup {0} /\ capability \in Conns \cup {0}
    /\ create.open \in BOOLEAN /\ restore.open \in BOOLEAN
    /\ restore.source \in Artifacts \cup {Upload, None}
    /\ restore.validation \in Artifacts \cup {Upload, None}
    /\ \A c \in calls : c.answer \in {"none", "ok", "failed"}

\* The constructor loads the connections, the artifacts and the jobs.
Init ==
    /\ page = [loading |-> TRUE, failed |-> FALSE, conns |-> {}, artifacts |-> {}, jobs |-> {}]
    /\ conn = 0 /\ capability = 0
    /\ create = NoCreate /\ restore = NoRestore /\ action = None
    /\ stored = Artifacts /\ jobs = {}
    /\ calls = {Sent("load", None)}
    /\ acts = 0 /\ fails = 0

Act == acts < MaxActs /\ acts' = acts + 1
First(S) == CHOOSE c \in S : \A d \in S : c <= d

-----------------------------------------------------------------------------
(* What the buttons ask *)

canCreate == ~create.busy /\ conn # 0 /\ create.name # "" /\ capability \in Capable
canRestore ==
    /\ ~restore.busy /\ ~restore.uploading
    /\ conn # 0
    /\ restore.validation # None
    /\ restore.target # "" /\ restore.confirm = restore.target
    /\ capability \in Capable

\* selectConnection forgets the capability and asks for that of the new connection.
\* Of the restore it keeps everything.
selectConnection(id, cs) ==
    /\ conn' = id /\ capability' = 0
    /\ calls' = cs \cup {Sent("capability", id)}

Ready == ~page.loading /\ ~page.failed
Modal == create.open \/ restore.open

openCreate ==
    /\ Ready /\ ~Modal /\ page.conns # {} /\ Act
    /\ create' = [create EXCEPT !.open = TRUE]
    /\ UNCHANGED <<page, conn, capability, restore, action, stored, jobs, calls, fails>>
typeDatabase(n) ==
    /\ create.open /\ Act /\ create' = [create EXCEPT !.name = n]
    /\ UNCHANGED <<page, conn, capability, restore, action, stored, jobs, calls, fails>>
closeCreate ==
    /\ create.open /\ ~create.busy /\ Act /\ create' = [create EXCEPT !.open = FALSE]
    /\ UNCHANGED <<page, conn, capability, restore, action, stored, jobs, calls, fails>>
createBackup ==
    /\ create.open /\ canCreate /\ Act
    /\ create' = [create EXCEPT !.busy = TRUE]
    /\ Send("create", [conn |-> conn, target |-> create.name])
    /\ UNCHANGED <<page, conn, capability, restore, action, stored, jobs, fails>>

\* The select of either dialog.
pickConnection(id) ==
    /\ Modal /\ id \in page.conns /\ Act
    /\ selectConnection(id, calls)
    /\ UNCHANGED <<page, create, restore, action, stored, jobs, fails>>

\* openRestore empties the dialog and asks the server to validate the source it starts with.
openRestore(a) ==
    /\ Ready /\ ~Modal /\ page.conns # {} /\ Act
    /\ a \in IF page.artifacts = {} THEN {None} ELSE page.artifacts
    /\ restore' = [restore EXCEPT !.open = TRUE, !.validation = None, !.source = a,
                                  !.target = "", !.confirm = ""]
    /\ calls' = IF a # None /\ conn # 0 THEN calls \cup {Sent("validate", a)} ELSE calls
    /\ UNCHANGED <<page, conn, capability, create, action, stored, jobs, fails>>
mayClose == restore.open /\ ~restore.busy /\ ~restore.uploading
closeRestore ==
    /\ mayClose /\ Act /\ restore' = [restore EXCEPT !.open = FALSE]
    /\ UNCHANGED <<page, conn, capability, create, action, stored, jobs, calls, fails>>

onRestoreArtifactChange(a) ==
    /\ restore.open /\ a \in page.artifacts \cup {None} /\ Act
    /\ restore' = [restore EXCEPT !.source = a, !.validation = None]
    /\ calls' = IF a # None THEN calls \cup {Sent("validate", a)} ELSE calls
    /\ UNCHANGED <<page, conn, capability, create, action, stored, jobs, fails>>
onRestoreFileChange ==
    /\ restore.open /\ Act
    /\ restore' = [restore EXCEPT !.source = Upload, !.validation = None, !.uploading = TRUE]
    /\ Send("upload", Upload)
    /\ UNCHANGED <<page, conn, capability, create, action, stored, jobs, fails>>
onRestoreTargetInput(n) ==
    /\ restore.open /\ Act /\ restore' = [restore EXCEPT !.target = n]
    /\ UNCHANGED <<page, conn, capability, create, action, stored, jobs, calls, fails>>
\* The user types into the confirmation the name the dialog asks for, the target's.
onRestoreConfirmInput ==
    /\ restore.open /\ restore.validation # None /\ Act
    /\ restore' = [restore EXCEPT !.confirm = restore.target]
    /\ UNCHANGED <<page, conn, capability, create, action, stored, jobs, calls, fails>>

\* startRestore sends the source of the validation, not the one of the select.
startRestore ==
    /\ restore.open /\ canRestore /\ Act
    /\ restore' = [restore EXCEPT !.busy = TRUE]
    /\ Send("restore", [conn |-> conn, source |-> restore.validation, shown |-> restore.source,
                        target |-> restore.target, typed |-> restore.confirm])
    /\ UNCHANGED <<page, conn, capability, create, action, stored, jobs, fails>>

-----------------------------------------------------------------------------
(* The lists *)

refresh ==
    /\ Ready /\ ~Modal /\ Act /\ Send("lists", None)
    /\ UNCHANGED <<page, conn, capability, create, restore, action, stored, jobs, fails>>
retry ==
    /\ page.failed /\ Act
    /\ page' = [page EXCEPT !.loading = TRUE, !.failed = FALSE]
    /\ Send("load", None)
    /\ UNCHANGED <<conn, capability, create, restore, action, stored, jobs, fails>>
cancelJob(j) ==
    /\ Ready /\ ~Modal /\ j \in page.jobs /\ j.state = "running" /\ action # j.target /\ Act
    /\ action' = j.target
    /\ Send("cancel", j)
    /\ UNCHANGED <<page, conn, capability, create, restore, stored, jobs, fails>>
download(a) ==
    /\ Ready /\ ~Modal /\ a \in page.artifacts /\ action # a /\ Act
    /\ action' = a /\ Send("download", a)
    /\ UNCHANGED <<page, conn, capability, create, restore, stored, jobs, fails>>
\* deleteArtifact: the file's name is typed into a prompt first.
deleteArtifact(a) ==
    /\ Ready /\ ~Modal /\ a \in page.artifacts /\ action # a /\ Act
    /\ action' = a /\ Send("delete", a)
    /\ UNCHANGED <<page, conn, capability, create, restore, stored, jobs, fails>>

-----------------------------------------------------------------------------
(* The server *)

Refused(c) ==
    \/ c.kind \in {"validate", "upload"} /\ (c.about \in Invalid \/ c.about \notin stored \cup {Upload})
    \/ c.kind = "restore" /\ (c.about.source \notin stored \cup {Upload} \/ c.about.typed # c.about.target)
    \/ c.kind \in {"download", "delete"} /\ c.about \notin stored
Handle(c) ==
    /\ c.answer = "none" /\ ~Refused(c)
    /\ jobs' = CASE c.kind = "restore" -> jobs \cup {[source |-> c.about.source, target |-> c.about.target,
                                                     conn |-> c.about.conn, state |-> "running"]}
                 [] c.kind = "create" -> jobs \cup {[source |-> None, target |-> c.about.target,
                                                    conn |-> c.about.conn, state |-> "running"]}
                 [] c.kind = "cancel" -> (jobs \ {c.about}) \cup {[c.about EXCEPT !.state = "cancelled"]}
                 [] OTHER -> jobs
    /\ stored' = IF c.kind = "delete" THEN stored \ {c.about} ELSE stored
    /\ calls' = (calls \ {c}) \cup {[c EXCEPT !.answer = "ok", !.artifacts = stored, !.jobs = jobs]}
    /\ UNCHANGED <<page, conn, capability, create, restore, action, acts, fails>>
Refuse(c) ==
    /\ c.answer = "none"
    /\ \/ Refused(c) /\ UNCHANGED fails
       \/ ~Refused(c) /\ fails < MaxFails /\ fails' = fails + 1
    /\ calls' = (calls \ {c}) \cup {[c EXCEPT !.answer = "failed"]}
    /\ UNCHANGED <<page, conn, capability, create, restore, action, stored, jobs, acts>>

-----------------------------------------------------------------------------
(* The answers *)

Got(kind, answer) == {c \in calls : c.kind = kind /\ c.answer = answer}

\* load: the first connection is chosen when none is.
loadAnswered(c) ==
    /\ c \in Got("load", "ok")
    /\ page' = [page EXCEPT !.loading = FALSE, !.conns = Conns, !.artifacts = c.artifacts, !.jobs = c.jobs]
    /\ IF conn = 0 THEN selectConnection(First(Conns), calls \ {c})
       ELSE calls' = calls \ {c} /\ UNCHANGED <<conn, capability>>
    /\ UNCHANGED <<create, restore, action, stored, jobs, acts, fails>>
loadFailed(c) ==
    /\ c \in Got("load", "failed")
    /\ page' = [page EXCEPT !.loading = FALSE, !.failed = TRUE]
    /\ calls' = calls \ {c}
    /\ UNCHANGED <<conn, capability, create, restore, action, stored, jobs, acts, fails>>
loadArtifactsAndJobs(c) ==
    /\ c.kind = "lists" /\ c.answer # "none"
    /\ page' = IF c.answer = "ok" THEN [page EXCEPT !.artifacts = c.artifacts, !.jobs = c.jobs] ELSE page
    /\ calls' = calls \ {c}
    /\ UNCHANGED <<conn, capability, create, restore, action, stored, jobs, acts, fails>>
\* loadCapability and validateRestoreArtifact take whatever answer arrives.
loadCapability(c) ==
    /\ c.kind = "capability" /\ c.answer # "none"
    /\ capability' = IF c.answer = "ok" THEN c.about ELSE capability
    /\ calls' = calls \ {c}
    /\ UNCHANGED <<page, conn, create, restore, action, stored, jobs, acts, fails>>
validateRestoreArtifact(c) ==
    /\ c.kind = "validate" /\ c.answer # "none"
    /\ restore' = [restore EXCEPT !.validation = IF c.answer = "ok" THEN c.about ELSE None]
    /\ calls' = calls \ {c}
    /\ UNCHANGED <<page, conn, capability, create, action, stored, jobs, acts, fails>>
uploadAnswered(c) ==
    /\ c.kind = "upload" /\ c.answer # "none"
    /\ restore' = [restore EXCEPT !.uploading = FALSE,
                                  !.validation = IF c.answer = "ok" THEN Upload ELSE @]
    /\ calls' = calls \ {c}
    /\ UNCHANGED <<page, conn, capability, create, action, stored, jobs, acts, fails>>
\* What createBackup and startRestore do with their answers: a success closes the dialog and
\* reads the lists anew.  The dialog is busy until the lists are there; that is not told apart.
createAnswered(c) ==
    /\ c.kind = "create" /\ c.answer # "none"
    /\ create' = [create EXCEPT !.busy = FALSE, !.open = @ /\ c.answer = "failed"]
    /\ calls' = (calls \ {c}) \cup IF c.answer = "ok" THEN {Sent("lists", None)} ELSE {}
    /\ UNCHANGED <<page, conn, capability, restore, action, stored, jobs, acts, fails>>
restoreAnswered(c) ==
    /\ c.kind = "restore" /\ c.answer # "none"
    /\ restore' = [restore EXCEPT !.busy = FALSE, !.open = @ /\ c.answer = "failed"]
    /\ calls' = (calls \ {c}) \cup IF c.answer = "ok" THEN {Sent("lists", None)} ELSE {}
    /\ UNCHANGED <<page, conn, capability, create, action, stored, jobs, acts, fails>>
actionAnswered(c) ==
    /\ c.kind \in {"cancel", "download", "delete"} /\ c.answer # "none"
    /\ action' = None
    /\ calls' = (calls \ {c}) \cup IF c.answer = "ok" /\ c.kind # "download" THEN {Sent("lists", None)} ELSE {}
    /\ UNCHANGED <<page, conn, capability, create, restore, stored, jobs, acts, fails>>

-----------------------------------------------------------------------------
Step ==
    \/ openCreate \/ closeCreate \/ createBackup
    \/ closeRestore \/ onRestoreFileChange \/ onRestoreConfirmInput \/ startRestore
    \/ refresh \/ retry
    \/ \E n \in Names : typeDatabase(n) \/ onRestoreTargetInput(n)
    \/ \E id \in Conns : pickConnection(id)
    \/ \E a \in Artifacts : download(a) \/ deleteArtifact(a)
    \/ \E a \in Artifacts \cup {None} : openRestore(a) \/ onRestoreArtifactChange(a)
    \/ \E j \in page.jobs : cancelJob(j)
    \/ \E c \in calls :
          \/ Handle(c) \/ Refuse(c)
          \/ loadAnswered(c) \/ loadFailed(c) \/ loadArtifactsAndJobs(c) \/ loadCapability(c)
          \/ validateRestoreArtifact(c) \/ uploadAnswered(c)
          \/ createAnswered(c) \/ restoreAnswered(c) \/ actionAnswered(c)

Next == Step /\ Cardinality(calls') <= MaxCalls

Spec == Init /\ [][Next]_vars

-----------------------------------------------------------------------------
(* Properties *)

\* The dialog that an answer closes is the one its restore was sent from: while a restore is
\* under way its dialog stays open, and there is one at a time (closeRestore's guard, canRestore).
AnswerFindsItsDialog ==
    LET sent == {c \in calls : c.kind = "restore"}
    IN  /\ Cardinality(sent) <= 1
        /\ \A c \in sent : restore.open /\ restore.busy

\* Whatever answers overtake each other while sources are chosen and uploaded: a restore is only
\* sent of a source the server has accepted (validateRestoreArtifact, startRestore).  It need
\* not be the source the dialog names, see RestoresWhatIsShown.
RestoresOnlyAccepted == \A c \in calls : c.kind = "restore" => c.about.source \notin Invalid

RestoreIsTrue == AnswerFindsItsDialog /\ RestoresOnlyAccepted

\* spec 0050 AC-3: "dialog menyebut koneksi, database target, sumber artefak".  The source that
\* is restored is the one the dialog names.  It fails: the answer about a source chosen before
\* is taken as the validation of the one chosen since, and the validation is what is sent.
RestoresWhatIsShown ==
    \A c \in calls : c.kind = "restore" => c.about.source = c.about.shown
=============================================================================
