------------------------------- MODULE Runtime -------------------------------
(***************************************************************************)
(* The commands of the myadmin binary on one data directory: `serve` with   *)
(* its boot stages, requests and shutdown, `migrate`, `migrate --status`    *)
(* and `doctor`.  Several processes, of two releases, may work on the       *)
(* directory at the same time, each may be killed at any moment, and the    *)
(* operator may edit the files.                                             *)
(*                                                                         *)
(* Within a process everything between two awaits is one step.  A SQLite    *)
(* transaction is atomic and survives a crash whole or not at all.          *)
(***************************************************************************)
EXTENDS Integers, FiniteSets

CONSTANTS
  Procs,       \* processes
  Requests,    \* request slots of a serving process
  MaxVersion,  \* the newest release knows the migrations 1 .. MaxVersion
  MaxStarts,   \* bound: commands the operator starts
  MaxEdits     \* bound: changes the operator makes by hand

Nobody == "nobody"

ASSUME RuntimeAssumption ==
  /\ MaxVersion \in Nat \ {0}
  /\ MaxStarts \in Nat /\ MaxEdits \in Nat
  /\ Nobody \notin Procs

VARIABLES
  disk,      \* what the data directory (and a second one) holds
  proc,      \* the processes
  env,       \* the environment every process is started with
  port,      \* the process that listens, or Nobody
  starts,    \* commands started so far
  edits,     \* operator changes so far
  raced      \* history: two processes were creating the same key at once

vars == <<disk, proc, env, port, starts, edits, raced>>

Homes == {"root", "other"}
Commands == {"serve", "migrate", "status", "doctor"}
NoKey == 0
Short == -1                    \* a key file of another length than 32 bytes
EnvKey == MaxStarts * 4 + 1    \* the key in MYADMIN_MASTER_KEY
KeyIds == 1 .. MaxStarts * 4   \* bound: the keys a creation draws from

(* A process that does not run.  quiet: doctor has found nothing wrong, and *)
(* nobody else has touched the directory since it looked.                   *)
Off ==
  [cmd |-> "none", at |-> "off", ver |-> 1, kp |-> "idle", drawn |-> NoKey,
   key |-> NoKey, seen |-> 0, db |-> FALSE, held |-> FALSE, quiet |-> FALSE,
   failed |-> "no", req |-> [r \in Requests |-> "idle"]]

(* No directory, or one an earlier release has served from.  The variables  *)
(* of the environment: MYADMIN_MASTER_KEY well formed or not, or            *)
(* MYADMIN_KEY_FILE with the path of the file in the root; MYADMIN_DATA_DIR.*)
(* writable: the root and the database file in it can be written; temp: so  *)
(* can its subfolder temp, once it is there; readable: the key file in the  *)
(* root can be read, which its mode does not tell.                          *)
(* Where the key is looked for and what the variables say of it makes no    *)
(* difference but in the combinations taken here.                           *)
Init ==
  /\ \E used \in BOOLEAN, config \in {"good", "moved"} :
       disk = [dirs |-> IF used THEN "all" ELSE "none", writable |-> TRUE, temp |-> TRUE,
               config |-> config, open |-> FALSE, readable |-> TRUE,
               key |-> [h \in Homes |-> IF used /\ h = "root" THEN 1 ELSE NoKey],
               schema |-> IF used THEN 1 ELSE 0, applied |-> IF used THEN 1 ELSE 0,
               stored |-> {}]
  /\ proc = [p \in Procs |-> Off]
  /\ env \in [key : {"none", "good", "bad", "file"}, override : BOOLEAN]
  /\ disk.config = "moved" => disk.dirs = "all" /\ env.key \in {"none", "file"}
  /\ env.key = "file" => disk.config = "moved"
  /\ env.override => disk.config = "moved" /\ env.key = "none"
  /\ port = Nobody /\ starts = 0 /\ edits = 0 /\ raced = FALSE

At(p, s) == proc[p].at = s
Set(p, r) == proc' = [proc EXCEPT ![p] = r]
Goto(p, s) == Set(p, [proc[p] EXCEPT !.at = s])

(* A command that ends gives up its database and its port.                  *)
Ends(p) == Set(p, Off)
Fails(p, stage) ==
  Set(p, IF proc[p].quiet THEN [Off EXCEPT !.failed = stage, !.quiet = TRUE] ELSE Off)

(* Somebody else changed the directory: what doctor said is no longer known.*)
Disturbed(f, p) ==
  [q \in Procs |-> IF q = p THEN f[q] ELSE [f[q] EXCEPT !.quiet = FALSE]]

-----------------------------------------------------------------------------
(* Configuration.                                                          *)

(* A key takes its value from the flags or the environment, else from the   *)
(* file, else from the defaults.                                            *)
Effective(override, file, default) ==
  IF override # "none" THEN override ELSE IF file # "none" THEN file ELSE default

(* The directory the modules use.  A file that names another data directory *)
(* moves config.dataDir, but not the root the boot resolved before it.  No  *)
(* edit below changes which directory the file names, so the value a server *)
(* loaded at its boot is the one the file has now.                          *)
dataDir ==
  Effective(IF env.override THEN "root" ELSE "none",
            IF disk.config = "moved" THEN "other" ELSE "none", "root")

(* The file must parse and every key pass the schema.                       *)
ConfigValid == disk.config # "bad"

-----------------------------------------------------------------------------
(* The key provider: the environment, else stat the file, then read or      *)
(* create it.                                                               *)

(* The value of MYADMIN_MASTER_KEY decodes to 32 bytes.                     *)
parseMasterKey == env.key = "good"

(* MYADMIN_KEY_FILE wins over the directory the provider was given.         *)
resolveMasterKeyPath(home) == IF env.key = "file" THEN "root" ELSE home

(* The provider of the boot is given the root, the one of the vault         *)
(* config.dataDir.                                                          *)
VaultHome == resolveMasterKeyPath(dataDir)
KeyHome(p) == IF proc[p].at = "key" THEN resolveMasterKeyPath("root") ELSE VaultHome

(* Between the stat that found no file and the rename.                      *)
Creating(q, h) == proc[q].kp \in {"write", "rename"} /\ KeyHome(q) = h

KeyLoaded(p, k) ==
  IF At(p, "key")
  THEN [proc[p] EXCEPT !.kp = "idle", !.drawn = NoKey, !.at = "migrations"]
  ELSE [proc[p] EXCEPT !.kp = "idle", !.drawn = NoKey, !.key = k]

KeyFailsSilently(p) ==
  IF At(p, "key") THEN Fails(p, "key")
  ELSE Set(p, [proc[p] EXCEPT !.kp = "idle", !.drawn = NoKey])

(* A failed load stops a boot; in a serving process it fails the requests   *)
(* that wait for it, and the next request loads again.                      *)
KeyFails(p) ==
  IF At(p, "key") THEN Fails(p, "key")
  ELSE Set(p, [proc[p] EXCEPT !.kp = "idle", !.drawn = NoKey,
                 !.req = [r \in Requests |-> IF @[r] = "load" THEN "idle" ELSE @[r]]])

UnsafeMode(p) == disk.open /\ KeyHome(p) = "root"

BeginsCreation(p) ==
  /\ Set(p, [proc[p] EXCEPT !.kp = "write"])
  /\ raced' = (raced \/ \E q \in Procs \ {p} : Creating(q, KeyHome(p)))

StatAnyError(p) ==
  /\ proc[p].kp = "stat"
  /\ IF parseMasterKey THEN Set(p, KeyLoaded(p, EnvKey)) /\ UNCHANGED raced
     ELSE IF env.key = "bad" THEN KeyFails(p) /\ UNCHANGED raced
     ELSE IF disk.key[KeyHome(p)] = NoKey \/ UnsafeMode(p) THEN BeginsCreation(p)
     ELSE Set(p, [proc[p] EXCEPT !.kp = "read"]) /\ UNCHANGED raced
  /\ UNCHANGED <<disk, env, port, starts, edits>>

(* loadUncached: the environment first, else stat the file.  Only a missing *)
(* file leads to a new key; a file others may read is refused.              *)
StatKey(p) ==
  /\ proc[p].kp = "stat"
  /\ \/ parseMasterKey /\ Set(p, KeyLoaded(p, EnvKey)) /\ UNCHANGED raced
     \/ env.key = "bad" /\ KeyFails(p) /\ UNCHANGED raced
     \/ env.key \in {"none", "file"} /\ disk.key[KeyHome(p)] = NoKey /\ BeginsCreation(p)
     \/ /\ env.key \in {"none", "file"} /\ disk.key[KeyHome(p)] # NoKey
        /\ IF UnsafeMode(p) THEN KeyFails(p) ELSE Set(p, [proc[p] EXCEPT !.kp = "read"])
        /\ UNCHANGED raced
  /\ UNCHANGED <<disk, env, port, starts, edits>>

(* readFile, and the file must be as long as a key.                         *)
ReadKey(p) ==
  /\ proc[p].kp = "read"
  /\ LET k == disk.key[KeyHome(p)]
         unreadable == ~disk.readable /\ KeyHome(p) = "root"
     IN  IF k \in {NoKey, Short} \/ unreadable THEN KeyFails(p) ELSE Set(p, KeyLoaded(p, k))
  /\ UNCHANGED <<disk, env, port, starts, edits, raced>>

Drawn == {disk.key[h] : h \in Homes} \cup {proc[q].drawn : q \in Procs} \cup disk.stored

(* Every creation draws a new key; which one makes no difference.           *)
NewKeys == {k \in KeyIds \ Drawn : \A j \in KeyIds \ Drawn : k <= j}

(* createKeyFile: a new key in a temporary file ...                         *)
WriteKey(p) ==
  /\ proc[p].kp = "write"
  /\ IF disk.writable THEN \E k \in NewKeys : Set(p, [proc[p] EXCEPT !.kp = "rename", !.drawn = k])
     ELSE KeyFails(p)
  /\ UNCHANGED <<disk, env, port, starts, edits, raced>>

(* ... renamed over the path, whatever is there by now ...                  *)
RenameKey(p) ==
  /\ proc[p].kp = "rename"
  /\ IF disk.writable
     THEN /\ disk' = [disk EXCEPT !.key[KeyHome(p)] = proc[p].drawn,
                        !.open = @ /\ KeyHome(p) # "root",
                        !.readable = @ \/ KeyHome(p) = "root"]
          /\ proc' = Disturbed([proc EXCEPT ![p].kp = "chmod"], p)
     ELSE KeyFails(p) /\ UNCHANGED disk
  /\ UNCHANGED <<env, port, starts, edits, raced>>

(* ... and its mode set once more.  When that fails the load fails, with    *)
(* the new key in place for the next one.                                   *)
ChmodKey(p) ==
  /\ proc[p].kp = "chmod"
  /\ IF disk.writable THEN Set(p, KeyLoaded(p, proc[p].drawn)) ELSE KeyFails(p)
  /\ UNCHANGED <<disk, env, port, starts, edits, raced>>

-----------------------------------------------------------------------------
(* Boot: data directory, configuration, master key, migrations, composition,*)
(* listen.  A stage that fails closes what is open and ends the command.    *)

Start(p, cmd, ver) ==
  /\ At(p, "off") /\ starts < MaxStarts
  /\ starts' = starts + 1
  /\ Set(p, [Off EXCEPT !.cmd = cmd, !.ver = ver,
               !.quiet = (cmd = "doctor") \/ (proc[p].quiet /\ proc[p].ver = ver /\ proc[p].failed = "no"),
               !.at = CASE cmd = "doctor" -> "checkDirs" [] OTHER -> "dirs"])
  /\ UNCHANGED <<disk, env, port, edits, raced>>

(* The root is made when it is missing ...                                  *)
prepareDataDirectory(p) ==
  /\ At(p, "dirs")
  /\ IF disk.dirs # "none" \/ disk.writable
     THEN /\ disk' = [disk EXCEPT !.dirs = IF @ = "none" THEN "root" ELSE @]
          /\ Goto(p, "subs")
     ELSE Fails(p, "dirs") /\ UNCHANGED disk
  /\ UNCHANGED <<env, port, starts, edits, raced>>

(* ... then its four subfolders, and a probe is written to temp and removed.*)
MakeSubfolders(p) ==
  /\ At(p, "subs")
  /\ IF IF disk.dirs = "all" THEN disk.temp ELSE disk.writable
     THEN /\ disk' = [disk EXCEPT !.dirs = "all", !.temp = TRUE]
          /\ Goto(p, IF proc[p].cmd = "serve" THEN "config" ELSE "migrations")
     ELSE Fails(p, "dirs") /\ UNCHANGED disk
  /\ UNCHANGED <<env, port, starts, edits, raced>>

loadConfig(p) ==
  /\ At(p, "config")
  /\ IF ConfigValid THEN Set(p, [proc[p] EXCEPT !.at = "key", !.kp = "stat"])
     ELSE Fails(p, "config")
  /\ UNCHANGED <<disk, env, port, starts, edits, raced>>

(* openDatabase creates a missing file and sets the journal mode, which     *)
(* needs a directory that can be written.                                   *)
Opens == disk.dirs # "none" /\ disk.writable

(* A history this release does not know is refused.                         *)
HistoryValid(p) == disk.applied <= proc[p].ver

(* runMigrations: the history table is created and read.                    *)
ReadApplied(p) ==
  /\ At(p, "migrations") /\ proc[p].cmd # "status"
  /\ IF Opens /\ HistoryValid(p)
     THEN Set(p, [proc[p] EXCEPT !.at = "up", !.seen = disk.applied, !.db = TRUE])
     ELSE Fails(p, "migrations")
  /\ UNCHANGED <<disk, env, port, starts, edits, raced>>

(* migrate --status: getMigrationStatus reads the history and writes none.  *)
MigrationStatus(p) ==
  /\ At(p, "migrations") /\ proc[p].cmd = "status"
  /\ IF Opens /\ HistoryValid(p) THEN Ends(p) ELSE Fails(p, "migrations")
  /\ UNCHANGED <<disk, env, port, starts, edits, raced>>

(* The statements of a migration and its record, in one transaction.        *)
Migrated(v) == disk' = [disk EXCEPT !.schema = v, !.applied = v]

(* One pending migration.  What another process has created meanwhile makes *)
(* the statements fail, and the transaction is rolled back.                 *)
Migrate(p) ==
  /\ At(p, "up") /\ proc[p].seen < proc[p].ver
  /\ LET v == proc[p].seen + 1
     IN  IF disk.writable /\ disk.schema < v
         THEN /\ Migrated(v)
              /\ proc' = Disturbed([proc EXCEPT ![p].seen = v], p)
         ELSE Fails(p, "migrations") /\ UNCHANGED disk
  /\ UNCHANGED <<env, port, starts, edits, raced>>

MigrateDone(p) ==
  /\ At(p, "up") /\ proc[p].seen = proc[p].ver
  /\ IF proc[p].cmd = "migrate" THEN Ends(p) ELSE Goto(p, "compose")
  /\ UNCHANGED <<disk, env, port, starts, edits, raced>>

(* createApplication builds the modules and the routes and registers what   *)
(* must be disposed; it throws for intervals out of range.                  *)
Compose(p) ==
  /\ At(p, "compose")
  /\ Goto(p, "listen") \/ Fails(p, "compose")
  /\ UNCHANGED <<disk, env, port, starts, edits, raced>>

(* All processes are given the same port.                                   *)
Listen(p) ==
  /\ At(p, "listen")
  /\ IF port = Nobody THEN Goto(p, "serving") /\ port' = p
     ELSE Fails(p, "listen") /\ UNCHANGED port
  /\ UNCHANGED <<disk, env, starts, edits, raced>>

-----------------------------------------------------------------------------
(* Requests: saving a credential.                                           *)

SetReq(p, r, s) == Set(p, [proc[p] EXCEPT !.req[r] = s])

(* A profile with a password arrives; encrypt() awaits the key, which the   *)
(* provider has, is loading, or loads now.                                  *)
Begin(p, r) ==
  /\ At(p, "serving") /\ proc[p].req[r] = "idle"
  /\ Set(p, [proc[p] EXCEPT !.req[r] = "load",
               !.kp = IF @ = "idle" /\ proc[p].key = NoKey THEN "stat" ELSE @])
  /\ UNCHANGED <<disk, env, port, starts, edits, raced>>

(* The key is there: the payload is encrypted under it and carries its id.  *)
encryptCredential(p, r) ==
  /\ proc[p].req[r] = "load" /\ proc[p].key # NoKey
  /\ SetReq(p, r, "encrypted")
  /\ UNCHANGED <<disk, env, port, starts, edits, raced>>

(* The row is written.  With the database closed, or on a directory that    *)
(* cannot be written, the request fails.                                    *)
SaveCredential(p, r) ==
  /\ proc[p].req[r] = "encrypted"
  /\ disk' = IF proc[p].db /\ disk.writable THEN [disk EXCEPT !.stored = @ \cup {proc[p].key}] ELSE disk
  /\ SetReq(p, r, "idle")
  /\ UNCHANGED <<env, port, starts, edits, raced>>

-----------------------------------------------------------------------------
(* Shutdown.                                                               *)

(* The first signal.  The server stops accepting; stop() resolves without   *)
(* waiting for the requests that are running, so the grace period never     *)
(* begins.                                                                  *)
stopServer(p) ==
  /\ At(p, "serving")
  /\ Goto(p, "stopping") /\ port' = Nobody
  /\ UNCHANGED <<disk, env, starts, edits, raced>>

(* The database is closed.  No step of the shutdown closes the sockets of   *)
(* the browsers or the sessions with the databases: those that are open     *)
(* hold the event loop ...                                                  *)
closeInternalDatabase(p) ==
  /\ At(p, "stopping") /\ proc[p].db
  /\ \E held \in BOOLEAN : Set(p, [proc[p] EXCEPT !.db = FALSE, !.held = held])
  /\ UNCHANGED <<disk, env, port, starts, edits, raced>>

(* ... until their other end goes away.                                     *)
Disconnect(p) ==
  /\ proc[p].held
  /\ Set(p, [proc[p] EXCEPT !.held = FALSE])
  /\ UNCHANGED <<disk, env, port, starts, edits, raced>>

(* The event loop ends when nothing is left in it.                          *)
Exit(p) ==
  /\ At(p, "stopping") /\ ~proc[p].db /\ ~proc[p].held
  /\ proc[p].kp = "idle" /\ \A r \in Requests : proc[p].req[r] = "idle"
  /\ Ends(p)
  /\ UNCHANGED <<disk, env, port, starts, edits, raced>>

(* A second signal forces the exit; so does a kill at any other time.       *)
Killed(p) ==
  /\ ~At(p, "off")
  /\ Set(p, Off)
  /\ port' = IF port = p THEN Nobody ELSE port
  /\ UNCHANGED <<disk, env, starts, edits, raced>>

-----------------------------------------------------------------------------
(* doctor: every check runs, none stops the next, and one that fails is in  *)
(* the exit code; a warning is no failure.  It changes nothing in the  *)
(* directory but an empty database file where there was none.               *)

Check(p, from, to, ok) ==
  /\ At(p, from)
  /\ Set(p, [proc[p] EXCEPT !.at = to, !.quiet = @ /\ ok])
  /\ UNCHANGED <<disk, env, port, starts, edits, raced>>

(* A probe is written to the root.                                          *)
runDataDirectoryCheck(p) ==
  Check(p, "checkDirs", "checkSubs", disk.dirs # "none" /\ disk.writable)

(* The subfolders are only looked for; nothing is written in them.          *)
runDataSubdirectoriesCheck(p) == Check(p, "checkSubs", "checkSqlite", disk.dirs = "all")

(* Pending migrations are a warning.                                        *)
runSqliteCheck(p) == Check(p, "checkSqlite", "checkAudit", Opens /\ HistoryValid(p))

(* A database without a schema is a warning.                                *)
runAuditCheck(p) == Check(p, "checkAudit", "checkAssets", Opens /\ HistoryValid(p))

(* The web assets are the build's: they are there or not.                   *)
runWebAssetsCheck(p) == \E there \in BOOLEAN : Check(p, "checkAssets", "checkConfig", there)

runConfigDoctorCheck(p) == Check(p, "checkConfig", "checkKey", ConfigValid)

(* The key in the environment must parse; a key file must exist and be      *)
(* private.  It is not read, so neither its length nor whether it can be    *)
(* read is known.                                                           *)
runKeyFileCheck(p) ==
  Check(p, "checkKey", "checkTools",
        IF env.key \in {"good", "bad"} THEN parseMasterKey
        ELSE disk.key[resolveMasterKeyPath("root")] # NoKey /\ ~disk.open)

(* A native tool that is missing, or a configuration that hides where it    *)
(* is, is never more than a warning.                                        *)
runBackupToolsCheck(p) == Check(p, "checkTools", "report", TRUE)

(* The exit code.                                                           *)
DoctorReport(p) ==
  /\ At(p, "report")
  /\ Set(p, IF proc[p].quiet
            THEN [Off EXCEPT !.ver = proc[p].ver, !.quiet = TRUE] ELSE Off)
  /\ UNCHANGED <<disk, env, port, starts, edits, raced>>

-----------------------------------------------------------------------------
(* The operator, by hand.                                                  *)

Edit ==
  /\ edits < MaxEdits /\ edits' = edits + 1
  /\ \/ disk.dirs = "all" /\ disk.config = "good" /\ disk' = [disk EXCEPT !.config = "bad"]
     \/ disk.config = "bad" /\ disk' = [disk EXCEPT !.config = "good"]
     \/ disk' = [disk EXCEPT !.writable = ~@]
     \/ disk.dirs = "all" /\ disk' = [disk EXCEPT !.temp = ~@]
     \/ disk.dirs = "all" /\ disk' = [disk EXCEPT !.writable = FALSE, !.temp = FALSE]
     \/ disk.dirs = "all" /\ disk.key["root"] # NoKey /\ disk' = [disk EXCEPT !.readable = ~@]
     \/ disk.dirs = "all" /\ disk.key["root"] # NoKey /\ disk' = [disk EXCEPT !.open = ~@]
     \/ disk.dirs = "all" /\ disk.key["root"] = NoKey /\ disk' = [disk EXCEPT !.key["root"] = Short]
  /\ proc' = Disturbed(proc, Nobody)
  /\ UNCHANGED <<env, port, starts, raced>>

Boot(p) ==
  \/ prepareDataDirectory(p) \/ MakeSubfolders(p) \/ loadConfig(p) \/ ReadApplied(p)
  \/ MigrationStatus(p) \/ Migrate(p) \/ MigrateDone(p) \/ Compose(p) \/ Listen(p)

LoadKey(p) == StatKey(p) \/ ReadKey(p) \/ WriteKey(p) \/ RenameKey(p) \/ ChmodKey(p)

Doctor(p) ==
  \/ runDataDirectoryCheck(p) \/ runDataSubdirectoriesCheck(p) \/ runSqliteCheck(p)
  \/ runAuditCheck(p) \/ runWebAssetsCheck(p) \/ runConfigDoctorCheck(p)
  \/ runKeyFileCheck(p) \/ runBackupToolsCheck(p) \/ DoctorReport(p)

Answer(p) == \E r \in Requests : encryptCredential(p, r) \/ SaveCredential(p, r)

Close(p) == closeInternalDatabase(p) \/ Exit(p)

Next ==
  \/ \E p \in Procs :
       \/ \E cmd \in Commands, v \in 1 .. MaxVersion : Start(p, cmd, v)
       \/ Boot(p) \/ LoadKey(p) \/ Doctor(p)
       \/ \E r \in Requests : Begin(p, r)
       \/ Answer(p) \/ Disconnect(p)
       \/ stopServer(p) \/ Close(p) \/ Killed(p)
  \/ Edit

(* A process keeps running its own steps until it waits for a request or a  *)
(* signal.                                                                 *)
Fairness == \A p \in Procs :
  WF_vars(Boot(p)) /\ WF_vars(LoadKey(p)) /\ WF_vars(Answer(p)) /\ WF_vars(Close(p))

Spec == Init /\ [][Next]_vars /\ Fairness

-----------------------------------------------------------------------------
(* The state has its types.                                                *)
TypeOK ==
  /\ disk.stored \subseteq KeyIds \cup {EnvKey}
  /\ disk.applied \in 0 .. MaxVersion /\ disk.schema \in 0 .. MaxVersion
  /\ port \in Procs \cup {Nobody}

(* A stored credential can be decrypted by the next process: its key is in  *)
(* the environment or in the file the vault reads.  No crash, failed write  *)
(* or refused file makes the provider replace a key that was used; only two *)
(* processes that both found no file can.                                   *)
KeysAreKept ==
  raced \/ \A k \in disk.stored : k = EnvKey \/ disk.key[VaultHome] = k

(* The migration history says what was run: a crash between two migrations, *)
(* a failing one or two processes migrating at once leave no half applied   *)
(* version, and a process that serves finds at least its own schema.        *)
HistoryIsTrue ==
  /\ disk.applied = disk.schema
  /\ \A p \in Procs : At(p, "serving") => disk.schema >= proc[p].ver

(* What doctor says of the next boot: when it reports no failure and nobody *)
(* touches the directory, a serve of the same release gets past the         *)
(* configuration and migration stages, past the directory stage unless temp *)
(* cannot be written, and past the key stage unless the key file has the    *)
(* wrong length or cannot be read.  These three doctor does not look at:    *)
(* see HealthyAlwaysBoots.                                                  *)
HealthyBoots ==
  \A p \in Procs : proc[p].quiet =>
    /\ proc[p].failed \notin {"config", "migrations"}
    /\ proc[p].failed = "dirs" => ~disk.temp
    /\ proc[p].failed = "key" => ~disk.readable \/ disk.key["root"] = Short

(* Not so, and checked by no run: a directory doctor finds healthy boots.   *)
(* prepareDataDirectory writes its probe to temp (data-directory.ts:44-46)  *)
(* while doctor probes the root and only stats temp (doctor.ts:62-70, 117); *)
(* the key file is read and its length checked (key-provider.ts:275-287)    *)
(* while doctor stats it (doctor.ts:282-298).                               *)
HealthyAlwaysBoots ==
  \A p \in Procs :
    proc[p].quiet => proc[p].failed \notin {"dirs", "config", "key", "migrations"}

(* Every shutdown ends: after a signal the database is closed, whatever the *)
(* requests that still run do and also when their key cannot be loaded, and *)
(* the process goes away, unless sockets or sessions that are open hold it. *)
ShutdownEnds ==
  \A p \in Procs : At(p, "stopping") ~> At(p, "off") \/ proc[p].held

(* Requests that run when the signal comes are given time to finish before  *)
(* the resources are closed.                                                *)
RequestsGetGrace ==
  \A p \in Procs : At(p, "stopping") /\ ~proc[p].db
                     => \A r \in Requests : proc[p].req[r] = "idle"

(* What a start leaves in the data directory serves the next one: the keys   *)
(* of the stored credentials, a history of migrations that is true, and      *)
(* nothing else that doctor would not see than what HealthyBoots names.      *)
StoreIsKept == KeysAreKept /\ HistoryIsTrue /\ HealthyBoots
=============================================================================
