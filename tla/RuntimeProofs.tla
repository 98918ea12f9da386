---------------------------- MODULE RuntimeProofs ----------------------------
(***************************************************************************)
(* Theorems about Runtime, for any number of processes, requests, releases, *)
(* starts and edits: what one start leaves in the data directory serves     *)
(* the next one.  Each part is inductive only with what the stage a process *)
(* is at says of the directory: which key it has or may create, how far the *)
(* migrations it read go, and what doctor has already looked at.            *)
(***************************************************************************)
EXTENDS Runtime, TLAPS

-----------------------------------------------------------------------------
(* The inductive invariant *)

BootStages == {"dirs", "subs", "config", "key", "migrations", "up", "compose", "listen",
               "serving", "stopping"}

\* The checks of doctor, from the last to the first: what is still to come after each.
AfterKey == {"checkTools", "report"}
AfterConfig == AfterKey \cup {"checkKey"}
AfterSqlite == AfterConfig \cup {"checkAudit", "checkAssets", "checkConfig"}
AfterSubs == AfterSqlite \cup {"checkSqlite"}
AfterDirs == AfterSubs \cup {"checkSubs"}

Stages == {"off"} \cup BootStages \cup {"checkDirs"} \cup AfterDirs

ProcRow == [cmd : {"none"} \cup Commands, at : Stages, ver : 1..MaxVersion,
            kp : {"idle", "stat", "read", "write", "rename", "chmod"}, drawn : Nat, key : Nat,
            seen : 0..MaxVersion, db : BOOLEAN, held : BOOLEAN, quiet : BOOLEAN,
            failed : {"no", "dirs", "config", "key", "migrations", "compose", "listen"},
            req : [Requests -> {"idle", "load", "encrypted"}]]

DiskRow == [dirs : {"none", "root", "all"}, writable : BOOLEAN, temp : BOOLEAN,
            readable : BOOLEAN, config : {"good", "moved", "bad"}, open : BOOLEAN,
            key : [Homes -> Nat \cup {Short}], schema : Nat, applied : Nat, stored : SUBSET Nat]

RuntimeTypes ==
    /\ disk \in DiskRow
    /\ proc \in [Procs -> ProcRow]
    /\ env \in [key : {"none", "good", "bad", "file"}, override : BOOLEAN]
    /\ raced \in BOOLEAN

\* The key file of a home holds a key.
IsKey(k) == k \notin {NoKey, Short}

\* The key provider runs only where a key is needed, has a drawn key to rename, and looks at
\* files only when the environment gives no key; a payload was encrypted under a key.
ProviderOK(p) ==
    /\ proc[p].kp # "idle" => proc[p].at \in {"key", "serving", "stopping"}
    /\ proc[p].kp \in {"read", "write", "rename", "chmod"} => env.key \in {"none", "file"}
    /\ proc[p].kp \in {"rename", "chmod"} => IsKey(proc[p].drawn)
    /\ \A r \in Requests : proc[p].req[r] = "encrypted" => proc[p].key # NoKey

\* The key a process has is the one the next process will find, a provider that creates one
\* replaces none, and the one it has created is in its place.
KeyOK(p) ==
    raced \/ /\ \/ proc[p].key \in {NoKey, EnvKey}
                \/ proc[p].key = disk.key[VaultHome] /\ IsKey(proc[p].key)
             /\ \A h \in Homes : Creating(p, h) => ~IsKey(disk.key[h])
             /\ proc[p].kp = "chmod" => proc[p].drawn = disk.key[KeyHome(p)]

\* The migrations a process has read or run are in the database, and those of its release when
\* it goes on.
MigrationsOK(p) ==
    /\ proc[p].at \in {"up", "compose", "listen", "serving"} => proc[p].seen <= disk.schema
    /\ proc[p].at \in {"compose", "listen", "serving"} => proc[p].seen = proc[p].ver

\* What doctor looks at, check by check.
DirsGood == disk.dirs = "all" /\ disk.writable
HistoryGood(v) == disk.applied <= v
KeyGood ==
    IF env.key \in {"good", "bad"} THEN env.key = "good"
    ELSE disk.key["root"] # NoKey /\ ~disk.open
Good(v) == DirsGood /\ HistoryGood(v) /\ ConfigValid /\ KeyGood

\* What holds of the directory where doctor has found nothing wrong up to this stage, or where a
\* boot follows a doctor that found nothing wrong.
Promised(at, v) ==
    /\ at \in BootStages => Good(v)
    /\ at \in AfterDirs => disk.writable
    /\ at \in AfterSubs => DirsGood
    /\ at \in AfterSqlite => HistoryGood(v)
    /\ at \in AfterConfig => ConfigValid
    /\ at \in AfterKey => KeyGood

\* As long as nobody else has touched the directory, it is as the checks that are done found
\* it, and a boot that was stopped was stopped by something doctor does not look at: a key file
\* that is short or cannot be read, a temp that cannot be written, the composition or the port.
DoctorOK(p) ==
    /\ proc[p].failed # "no" => proc[p].at = "off"
    /\ proc[p].quiet =>
         /\ proc[p].at = "off" =>
              CASE proc[p].failed = "no" -> Good(proc[p].ver)
                [] proc[p].failed = "key" -> ~disk.readable \/ disk.key["root"] = Short
                [] proc[p].failed = "dirs" -> disk.dirs = "all" /\ ~disk.temp
                [] OTHER -> proc[p].failed \in {"compose", "listen"}
         /\ Promised(proc[p].at, proc[p].ver)
         /\ proc[p].at = "up" => proc[p].seen = disk.schema

RowOK(p) == ProviderOK(p) /\ KeyOK(p) /\ MigrationsOK(p) /\ DoctorOK(p)

\* One creator at a time, as long as there was no race.
OneCreator ==
    raced \/ \A p, q \in Procs, h \in Homes : Creating(p, h) /\ Creating(q, h) => p = q

\* The keys of the stored credentials are still there.
StoredOK == raced \/ \A k \in disk.stored : k = EnvKey \/ (k = disk.key[VaultHome] /\ IsKey(k))

RuntimeInv ==
    /\ RuntimeTypes
    /\ disk.applied = disk.schema
    /\ StoredOK
    /\ OneCreator
    /\ \A p \in Procs : RowOK(p)

-----------------------------------------------------------------------------
(* Steps of one process that leave the directory alone *)

\* A step that leaves what the directory holds in place leaves what doctor looks at, and where
\* each provider finds its key.
LEMMA SameGood ==
    ASSUME disk' = disk, env' = env
    PROVE  /\ \A v : Good(v)' = Good(v) /\ HistoryGood(v)' = HistoryGood(v)
           /\ DirsGood' = DirsGood /\ ConfigValid' = ConfigValid /\ KeyGood' = KeyGood
           /\ \A at, v : Promised(at, v)' = Promised(at, v)
           /\ VaultHome' = VaultHome
<1>1. DirsGood' = DirsGood /\ ConfigValid' = ConfigValid /\ KeyGood' = KeyGood
  BY DEF DirsGood, ConfigValid, KeyGood
<1>2. \A v : HistoryGood(v)' = HistoryGood(v)
  BY DEF HistoryGood
<1>3. \A v : Good(v)' = Good(v)
  BY DEF Good, DirsGood, HistoryGood, ConfigValid, KeyGood
<1>4. \A at, v : Promised(at, v)' = Promised(at, v)
  BY DEF Promised, Good, DirsGood, HistoryGood, ConfigValid, KeyGood
<1>5. VaultHome' = VaultHome
  BY DEF VaultHome, resolveMasterKeyPath, dataDir
<1> QED
  BY <1>1, <1>2, <1>3, <1>4, <1>5

\* A provider of the boot looks in the root; any other one where the vault does, which is one of
\* the two directories.
LEMMA HomeOf ==
    /\ VaultHome \in Homes
    /\ \A p : KeyHome(p) = IF proc[p].at = "key" THEN "root" ELSE VaultHome
<1>1. VaultHome \in Homes
  BY DEF VaultHome, resolveMasterKeyPath, dataDir, Effective, Homes
<1>2. \A p : KeyHome(p) = IF proc[p].at = "key" THEN "root" ELSE VaultHome
  BY DEF KeyHome, resolveMasterKeyPath
<1> QED
  BY <1>1, <1>2

\* A process that does not run is in order (a process that ended or was killed).
LEMMA OffRow ==
    /\ Off \in ProcRow /\ Off.at = "off" /\ Off.kp = "idle" /\ Off.key = NoKey /\ ~Off.quiet
    /\ Off.failed = "no" /\ \A r \in Requests : Off.req[r] = "idle"
BY RuntimeAssumption DEF Off, ProcRow, Stages, NoKey

\* A step of one process leaves the rows of the others (the processes share only the files).
LEMMA OneRow ==
    ASSUME RuntimeInv, NEW p \in Procs, NEW r \in ProcRow, Set(p, r)
    PROVE  /\ proc' \in [Procs -> ProcRow]
           /\ proc'[p] = r
           /\ \A q \in Procs : q # p => proc'[q] = proc[q]
BY DEF RuntimeInv, RuntimeTypes, Set

\* Where a process looks for its key, and whether it is creating it, depends on its own row.
LEMMA SameHome ==
    ASSUME NEW q \in Procs, proc'[q].at = proc[q].at, proc'[q].kp = proc[q].kp,
           VaultHome' = VaultHome
    PROVE  /\ KeyHome(q)' = KeyHome(q)
           /\ \A h : Creating(q, h)' = Creating(q, h)
<1>1. KeyHome(q)' = KeyHome(q)
  BY DEF KeyHome, resolveMasterKeyPath
<1> QED
  BY <1>1 DEF Creating

\* A row depends only on the process, the files, the environment and the races so far.
LEMMA SameRow ==
    ASSUME NEW q \in Procs, proc'[q] = proc[q], disk' = disk, env' = env, raced' = raced, RowOK(q)
    PROVE  RowOK(q)'
<1>1. ProviderOK(q)' /\ MigrationsOK(q)'
  BY DEF RowOK, ProviderOK, MigrationsOK
<1>2. KeyOK(q)'
  BY SameHome, SameGood DEF RowOK, KeyOK
<1>3. DoctorOK(q)'
  BY SameGood DEF RowOK, DoctorOK
<1> QED
  BY <1>1, <1>2, <1>3 DEF RowOK

\* A step of one process that changes no file and begins no creation keeps the invariant when
\* it keeps its own row in order.
LEMMA OwnStep ==
    ASSUME RuntimeInv, NEW p \in Procs, NEW r \in ProcRow, Set(p, r),
           disk' = disk, env' = env, raced' = raced,
           RowOK(p)', \A h \in Homes : Creating(p, h)' => Creating(p, h)
    PROVE  RuntimeInv'
<1>1. /\ proc' \in [Procs -> ProcRow]
      /\ proc'[p] = r
      /\ \A q \in Procs : q # p => proc'[q] = proc[q]
  BY OneRow
<1>2. \A q \in Procs : RowOK(q)'
  BY <1>1, SameRow DEF RuntimeInv
<1>3. RuntimeTypes' /\ disk'.applied = disk'.schema
  BY <1>1 DEF RuntimeInv, RuntimeTypes
<1>4. StoredOK'
  BY SameGood DEF RuntimeInv, StoredOK
<1>5. \A q \in Procs, h \in Homes : Creating(q, h)' => Creating(q, h)
  BY <1>1, SameHome, SameGood
<1>6. OneCreator'
  BY <1>5 DEF RuntimeInv, OneCreator
<1> QED
  BY <1>2, <1>3, <1>4, <1>6 DEF RuntimeInv

\* A process that ends or is killed.
LEMMA EndStep ==
    ASSUME RuntimeInv, NEW p \in Procs, Set(p, Off), disk' = disk, env' = env, raced' = raced
    PROVE  RuntimeInv'
<1>1. proc'[p] = Off
  BY OffRow, OneRow
<1>2. ProviderOK(p)' /\ KeyOK(p)' /\ MigrationsOK(p)' /\ DoctorOK(p)'
  BY <1>1, OffRow DEF ProviderOK, KeyOK, MigrationsOK, DoctorOK, Creating
<1>3. \A h \in Homes : ~Creating(p, h)'
  BY <1>1, OffRow DEF Creating
<1> QED
  BY <1>2, <1>3, OffRow, OwnStep DEF RowOK

\* A stage that fails, at something doctor does not look at or found wrong.
LEMMA FailStep ==
    ASSUME RuntimeInv, NEW p \in Procs, NEW stage, Fails(p, stage),
           disk' = disk, env' = env, raced' = raced,
           \/ stage \in {"compose", "listen"}
           \/ stage = "key" /\ (proc[p].quiet => ~disk.readable \/ disk.key["root"] = Short)
           \/ stage = "dirs" /\ (proc[p].quiet => disk.dirs = "all" /\ ~disk.temp)
           \/ ~proc[p].quiet
    PROVE  RuntimeInv'
<1>1. CASE ~proc[p].quiet
  BY <1>1, EndStep DEF Fails
<1>2. CASE proc[p].quiet
  <2> DEFINE r == [Off EXCEPT !.failed = stage, !.quiet = TRUE]
  <2>1. /\ stage \in {"compose", "listen", "key", "dirs"}
        /\ stage = "key" => ~disk.readable \/ disk.key["root"] = Short
        /\ stage = "dirs" => disk.dirs = "all" /\ ~disk.temp
    BY <1>2
  <2>2. /\ r \in ProcRow /\ r.at = "off" /\ r.kp = "idle" /\ r.key = NoKey /\ r.failed = stage
        /\ \A x \in Requests : r.req[x] = "idle"
    BY <2>1, OffRow DEF ProcRow
  <2>3. Set(p, r)
    BY <1>2 DEF Fails
  <2> HIDE DEF r
  <2>4. proc'[p] = r
    BY <2>2, <2>3, OneRow
  <2>5. ProviderOK(p)' /\ KeyOK(p)' /\ MigrationsOK(p)'
    BY <2>2, <2>4 DEF ProviderOK, KeyOK, MigrationsOK, Creating
  <2>6. DoctorOK(p)'
    BY <2>1, <2>2, <2>4 DEF DoctorOK, Promised, BootStages, AfterDirs, AfterSubs, AfterSqlite,
                            AfterConfig, AfterKey
  <2>7. \A h \in Homes : ~Creating(p, h)'
    BY <2>2, <2>4 DEF Creating
  <2> QED
    BY <2>2, <2>3, <2>5, <2>6, <2>7, OwnStep DEF RowOK
<1> QED
  BY <1>1, <1>2

\* A step that only moves a process to its next stage, and may say what it read.
LEMMA StageStep ==
    ASSUME RuntimeInv, NEW p \in Procs, NEW r \in ProcRow, Set(p, r),
           disk' = disk, env' = env, raced' = raced,
           proc[p].at # "off", proc[p].kp = "idle", r.at # "off",
           r.kp \in {"idle", "stat"}, r.kp # "idle" => r.at = "key",
           r.key = proc[p].key, r.ver = proc[p].ver, r.quiet => proc[p].quiet,
           r.failed = proc[p].failed, r.req = proc[p].req,
           r.at \in {"up", "compose", "listen", "serving"} => r.seen <= disk.schema,
           r.at \in {"compose", "listen", "serving"} => r.seen = proc[p].ver,
           r.quiet => Promised(r.at, proc[p].ver) /\ (r.at = "up" => r.seen = disk.schema)
    PROVE  RuntimeInv'
<1>1. proc[p] \in ProcRow /\ RowOK(p) /\ proc'[p] = r
  BY OneRow DEF RuntimeInv, RuntimeTypes
<1>2. r.failed = "no"
  BY <1>1 DEF RowOK, DoctorOK
<1>4. ProviderOK(p)' /\ MigrationsOK(p)'
  BY <1>1 DEF RowOK, ProviderOK, MigrationsOK
<1>5. (\A h \in Homes : ~Creating(p, h)') /\ KeyOK(p)'
  BY <1>1, SameGood DEF RowOK, KeyOK, Creating
<1>6. DoctorOK(p)'
  BY <1>1, <1>2, SameGood DEF DoctorOK
<1> QED
  BY <1>4, <1>5, <1>6, OwnStep DEF RowOK

\* A provider that has its key, or gives up, or looks at the next thing; the requests follow.
LEMMA ProviderStep ==
    ASSUME RuntimeInv, NEW p \in Procs, NEW r \in ProcRow, Set(p, r),
           disk' = disk, env' = env, raced' = raced,
           r.at = proc[p].at \/ (proc[p].at = "key" /\ r.at = "migrations"),
           r.ver = proc[p].ver, r.seen = proc[p].seen,
           r.quiet = proc[p].quiet, r.failed = proc[p].failed,
           r.kp # "idle" => r.at \in {"key", "serving", "stopping"},
           r.kp \in {"read", "write", "rename", "chmod"} => env.key \in {"none", "file"},
           r.kp \in {"write", "rename"} => proc[p].kp \in {"write", "rename"} /\ r.at = proc[p].at,
           r.kp \in {"rename", "chmod"} => IsKey(r.drawn),
           r.kp = "chmod" => proc[p].kp = "chmod" /\ r.at = proc[p].at /\ r.drawn = proc[p].drawn,
           \A x \in Requests : r.req[x] = "encrypted" => r.key # NoKey,
           \/ raced
           \/ r.key \in {proc[p].key, EnvKey}
           \/ r.key = disk.key[VaultHome] /\ IsKey(r.key)
    PROVE  RuntimeInv'
<1>1. proc[p] \in ProcRow /\ RowOK(p) /\ proc'[p] = r
  BY OneRow DEF RuntimeInv, RuntimeTypes
<1>2. ProviderOK(p)' /\ MigrationsOK(p)'
  BY <1>1 DEF RowOK, ProviderOK, MigrationsOK
<1>3. VaultHome' = VaultHome
  BY SameGood
<1>4. r.at = proc[p].at => KeyHome(p)' = KeyHome(p)
  BY <1>1, <1>3, HomeOf DEF KeyHome, resolveMasterKeyPath
<1>5. \A h \in Homes : Creating(p, h)' => Creating(p, h)
  BY <1>1, <1>4 DEF Creating
<1>6. KeyOK(p)'
  <2> SUFFICES ASSUME ~raced PROVE KeyOK(p)'
    BY DEF KeyOK
  <2>1. r.key \in {NoKey, EnvKey} \/ (r.key = disk.key[VaultHome] /\ IsKey(r.key))
    BY <1>1 DEF RowOK, KeyOK
  <2>2. r.kp = "chmod" => r.drawn = disk.key[KeyHome(p)'] 
    BY <1>1, <1>4 DEF RowOK, KeyOK
  <2>3. \A h \in Homes : Creating(p, h)' => ~IsKey(disk.key[h])
    BY <1>1, <1>5 DEF RowOK, KeyOK
  <2> QED
    BY <1>1, <1>3, <2>1, <2>2, <2>3 DEF KeyOK
<1>7. DoctorOK(p)'
  <2>1. proc[p].quiet => Promised(r.at, proc[p].ver)
    BY <1>1 DEF RowOK, DoctorOK, Promised, BootStages, AfterDirs, AfterSubs, AfterSqlite,
                AfterConfig, AfterKey
  <2> QED
    BY <1>1, <2>1, SameGood DEF RowOK, DoctorOK
<1> QED
  BY <1>2, <1>5, <1>6, <1>7, OwnStep DEF RowOK

-----------------------------------------------------------------------------
(* The boot, the requests and the shutdown *)

\* At a stage of the boot doctor's word says what the boot needs.
LEMMA BootPromised == \A at \in BootStages : \A v : Promised(at, v) <=> Good(v)
BY DEF Promised, BootStages, AfterDirs, AfterSubs, AfterSqlite, AfterConfig, AfterKey

\* A step that changes of its process only what the invariant does not look at: the database
\* that is open and what holds the event loop.
LEMMA FreeStep ==
    ASSUME RuntimeInv, NEW p \in Procs, NEW r \in ProcRow, Set(p, r),
           disk' = disk, env' = env, raced' = raced,
           r.at = proc[p].at, r.kp = proc[p].kp, r.drawn = proc[p].drawn, r.key = proc[p].key,
           r.ver = proc[p].ver, r.seen = proc[p].seen, r.quiet = proc[p].quiet,
           r.failed = proc[p].failed, r.req = proc[p].req
    PROVE  RuntimeInv'
<1>1. proc[p] \in ProcRow /\ RowOK(p) /\ proc'[p] = r
  BY OneRow DEF RuntimeInv, RuntimeTypes
<1>2. KeyHome(p)' = KeyHome(p) /\ \A h : Creating(p, h)' = Creating(p, h)
  BY <1>1, SameHome, SameGood
<1>3. ProviderOK(p)' /\ MigrationsOK(p)'
  BY <1>1 DEF RowOK, ProviderOK, MigrationsOK
<1>4. KeyOK(p)'
  BY <1>1, <1>2, SameGood DEF RowOK, KeyOK
<1>5. DoctorOK(p)'
  BY <1>1, SameGood DEF RowOK, DoctorOK
<1> QED
  BY <1>2, <1>3, <1>4, <1>5, OwnStep DEF RowOK

\* Stages that read and go on: the configuration, the migrations that are done, the composition,
\* the port, and the end of a server (loadConfig(), runMigrations(), getMigrationStatus(),
\* createApplication(), Bun.serve(), stop()).
LEMMA BootStagesKeep ==
    ASSUME RuntimeInv, NEW p \in Procs,
           \/ loadConfig(p) \/ ReadApplied(p) \/ MigrationStatus(p) \/ MigrateDone(p)
           \/ Compose(p) \/ Listen(p) \/ stopServer(p)
    PROVE  RuntimeInv'
<1> DEFINE P == proc[p]
<1>1. /\ P \in ProcRow /\ RowOK(p) /\ disk \in DiskRow /\ disk.applied = disk.schema
      /\ P.seen \in Int /\ disk.schema \in Nat /\ disk.applied \in Nat /\ P.ver \in 1..MaxVersion
  BY DEF RuntimeInv, RuntimeTypes, ProcRow, DiskRow
<1>2. disk' = disk /\ env' = env /\ raced' = raced
  BY DEF loadConfig, ReadApplied, MigrationStatus, MigrateDone, Compose, Listen, stopServer
<1>3. P.at \in BootStages \ {"key"} /\ (P.at # "serving" => P.kp = "idle" /\ P.at # "off")
  BY <1>1 DEF RowOK, ProviderOK, At, loadConfig, ReadApplied, MigrationStatus, MigrateDone,
              Compose, Listen, stopServer, BootStages
<1>4. P.quiet => Good(P.ver)
  BY <1>1, <1>3, BootPromised DEF RowOK, DoctorOK
<1>5. CASE loadConfig(p)
  <2>1. P.at = "config"
    BY <1>5 DEF loadConfig, At
  <2>2. CASE ConfigValid
    <3> DEFINE r == [P EXCEPT !.at = "key", !.kp = "stat"]
    <3>1. Set(p, r)
      BY <1>5, <2>2 DEF loadConfig
    <3>2. /\ r \in ProcRow /\ r.at = "key" /\ r.kp = "stat" /\ r.key = P.key /\ r.ver = P.ver
          /\ r.quiet = P.quiet /\ r.failed = P.failed /\ r.req = P.req
      BY <1>1 DEF ProcRow, Stages, BootStages
    <3> HIDE DEF r
    <3>3. r.quiet => Promised(r.at, P.ver)
      BY <1>4, <3>2, BootPromised DEF BootStages
    <3> QED
      BY <1>2, <1>3, <2>1, <3>1, <3>2, <3>3, StageStep
  <2>3. CASE ~ConfigValid
    BY <1>2, <1>4, <1>5, <2>1, <2>3, FailStep DEF loadConfig, Good
  <2> QED
    BY <2>2, <2>3
<1>6. CASE ReadApplied(p)
  <2>1. P.at = "migrations"
    BY <1>6 DEF ReadApplied, At
  <2>2. CASE Opens /\ HistoryValid(p)
    <3> DEFINE r == [P EXCEPT !.at = "up", !.seen = disk.applied, !.db = TRUE]
    <3>1. Set(p, r)
      BY <1>6, <2>2 DEF ReadApplied
    <3>2. disk.applied \in 0..MaxVersion
      BY <1>1, <2>2, RuntimeAssumption DEF HistoryValid
    <3>3. /\ r \in ProcRow /\ r.at = "up" /\ r.kp = P.kp /\ r.key = P.key /\ r.ver = P.ver
          /\ r.quiet = P.quiet /\ r.failed = P.failed /\ r.req = P.req /\ r.seen = disk.applied
      BY <1>1, <3>2 DEF ProcRow, Stages, BootStages
    <3>4. r.seen <= disk.schema /\ r.seen = disk.schema
      BY <1>1, <3>3
    <3> HIDE DEF r
    <3>5. r.quiet => Promised(r.at, P.ver)
      BY <1>4, <3>3, BootPromised DEF BootStages
    <3> QED
      BY <1>2, <1>3, <2>1, <3>1, <3>3, <3>4, <3>5, StageStep
  <2>3. CASE ~(Opens /\ HistoryValid(p))
    <3>1. ~P.quiet
      BY <1>4, <2>3 DEF Opens, HistoryValid, Good, DirsGood, HistoryGood
    <3> QED
      BY <1>2, <1>6, <2>3, <3>1, FailStep DEF ReadApplied
  <2> QED
    BY <2>2, <2>3
<1>7. CASE MigrationStatus(p)
  <2>1. Opens /\ HistoryValid(p) => RuntimeInv'
    BY <1>2, <1>7, EndStep DEF MigrationStatus, Ends
  <2>2. ~(Opens /\ HistoryValid(p)) => ~P.quiet
    BY <1>4 DEF Opens, HistoryValid, Good, DirsGood, HistoryGood
  <2> QED
    BY <1>2, <1>7, <2>1, <2>2, FailStep DEF MigrationStatus
<1>8. CASE MigrateDone(p)
  <2>1. P.at = "up" /\ P.seen = P.ver /\ P.seen <= disk.schema
    BY <1>1, <1>8 DEF MigrateDone, At, RowOK, MigrationsOK
  <2>2. CASE P.cmd = "migrate"
    BY <1>2, <1>8, <2>2, EndStep DEF MigrateDone, Ends
  <2>3. CASE P.cmd # "migrate"
    <3> DEFINE r == [P EXCEPT !.at = "compose"]
    <3>1. Set(p, r)
      BY <1>8, <2>3 DEF MigrateDone, Goto
    <3>2. /\ r \in ProcRow /\ r.at = "compose" /\ r.kp = P.kp /\ r.key = P.key /\ r.ver = P.ver
          /\ r.quiet = P.quiet /\ r.failed = P.failed /\ r.req = P.req /\ r.seen = P.seen
      BY <1>1 DEF ProcRow, Stages, BootStages
    <3> HIDE DEF r
    <3>3. r.quiet => Promised(r.at, P.ver)
      BY <1>4, <3>2, BootPromised DEF BootStages
    <3> QED
      BY <1>2, <1>3, <2>1, <3>1, <3>2, <3>3, StageStep
  <2> QED
    BY <2>2, <2>3
<1>9. CASE Compose(p) \/ Listen(p)
  <2>1. P.at \in {"compose", "listen"} /\ P.seen = P.ver /\ P.seen <= disk.schema
    BY <1>1, <1>9 DEF Compose, Listen, At, RowOK, MigrationsOK
  <2>2. CASE Fails(p, "compose") \/ Fails(p, "listen")
    BY <1>2, <2>2, FailStep
  <2>3. ASSUME NEW to \in {"listen", "serving"}, Goto(p, to)
        PROVE  RuntimeInv'
    <3> DEFINE r == [P EXCEPT !.at = to]
    <3>1. Set(p, r)
      BY <2>3 DEF Goto
    <3>2. /\ r \in ProcRow /\ r.at = to /\ r.kp = P.kp /\ r.key = P.key /\ r.ver = P.ver
          /\ r.quiet = P.quiet /\ r.failed = P.failed /\ r.req = P.req /\ r.seen = P.seen
      BY <1>1 DEF ProcRow, Stages, BootStages
    <3> HIDE DEF r
    <3>3. r.quiet => Promised(r.at, P.ver)
      BY <1>4, <3>2, BootPromised DEF BootStages
    <3> QED
      BY <1>2, <1>3, <2>1, <3>1, <3>2, <3>3, StageStep
  <2> QED
    BY <1>9, <2>2, <2>3 DEF Compose, Listen
<1>10. CASE stopServer(p)
  <2> DEFINE r == [P EXCEPT !.at = "stopping"]
  <2>1. P.at = "serving" /\ Set(p, r)
    BY <1>10 DEF stopServer, Goto, At
  <2>2. /\ r \in ProcRow /\ r.at = "stopping" /\ r.kp = P.kp /\ r.drawn = P.drawn
        /\ r.key = P.key /\ r.ver = P.ver /\ r.seen = P.seen
        /\ r.quiet = P.quiet /\ r.failed = P.failed /\ r.req = P.req
    BY <1>1 DEF ProcRow, Stages, BootStages
  <2> HIDE DEF r
  <2>3. proc'[p] = r
    BY <2>1, <2>2, OneRow
  <2>4. ProviderOK(p)' /\ MigrationsOK(p)'
    BY <1>1, <1>2, <2>1, <2>2, <2>3 DEF RowOK, ProviderOK, MigrationsOK
  <2>5. VaultHome' = VaultHome
    BY <1>2, SameGood
  <2>6. KeyHome(p)' = KeyHome(p)
    BY <2>1, <2>2, <2>3, <2>5, HomeOf DEF KeyHome
  <2>7. (\A h \in Homes : Creating(p, h)' => Creating(p, h)) /\ KeyOK(p)'
    BY <1>1, <1>2, <2>2, <2>3, <2>5, <2>6 DEF RowOK, KeyOK, Creating
  <2>8. DoctorOK(p)'
    <3>1. r.quiet => Promised(r.at, P.ver)
      BY <1>4, <2>2, BootPromised DEF BootStages
    <3> QED
      BY <1>1, <1>2, <2>1, <2>2, <2>3, <3>1, SameGood DEF RowOK, DoctorOK
  <2> QED
    BY <1>2, <2>1, <2>2, <2>4, <2>7, <2>8, OwnStep DEF RowOK
<1> QED
  BY <1>5, <1>6, <1>7, <1>8, <1>9, <1>10

\* The end of a shutdown: the database is closed, and what holds the event loop goes away.
LEMMA CloseKeeps ==
    ASSUME RuntimeInv, NEW p \in Procs, closeInternalDatabase(p) \/ Disconnect(p)
    PROVE  RuntimeInv'
<1>1. proc[p] \in ProcRow /\ disk' = disk /\ env' = env /\ raced' = raced
  BY DEF RuntimeInv, RuntimeTypes, closeInternalDatabase, Disconnect
<1>2. PICK db \in BOOLEAN, held \in BOOLEAN : Set(p, [proc[p] EXCEPT !.db = db, !.held = held])
  <2>1. CASE closeInternalDatabase(p)
    BY <2>1 DEF closeInternalDatabase
  <2>2. CASE Disconnect(p)
    <3>1. [proc[p] EXCEPT !.held = FALSE] = [proc[p] EXCEPT !.db = proc[p].db, !.held = FALSE]
      BY <1>1 DEF ProcRow
    <3>2. proc[p].db \in BOOLEAN
      BY <1>1 DEF ProcRow
    <3> QED
      BY <2>2, <3>1, <3>2 DEF Disconnect
  <2> QED
    BY <2>1, <2>2
<1> DEFINE r == [proc[p] EXCEPT !.db = db, !.held = held]
<1>3. /\ r \in ProcRow /\ r.at = proc[p].at /\ r.kp = proc[p].kp /\ r.drawn = proc[p].drawn
      /\ r.key = proc[p].key /\ r.ver = proc[p].ver /\ r.seen = proc[p].seen
      /\ r.quiet = proc[p].quiet /\ r.failed = proc[p].failed /\ r.req = proc[p].req
  BY <1>1 DEF ProcRow
<1>4. Set(p, r)
  BY <1>2
<1> HIDE DEF r
<1> QED
  BY <1>1, <1>3, <1>4, FreeStep

\* A command is started: after a doctor that found nothing, on a directory it found good.
LEMMA StartKeeps ==
    ASSUME RuntimeInv, NEW p \in Procs, NEW cmd \in Commands,
           NEW v \in 1..MaxVersion, Start(p, cmd, v)
    PROVE  RuntimeInv'
<1> DEFINE P == proc[p]
           quiet == (cmd = "doctor") \/ (P.quiet /\ P.ver = v /\ P.failed = "no")
           at == IF cmd = "doctor" THEN "checkDirs" ELSE "dirs"
           r == [Off EXCEPT !.cmd = cmd, !.ver = v, !.quiet = quiet, !.at = at]
<1>1. P \in ProcRow /\ RowOK(p) /\ P.at = "off"
  BY DEF RuntimeInv, RuntimeTypes, Start, At
<1>2. disk' = disk /\ env' = env /\ raced' = raced /\ Set(p, r)
  BY DEF Start
<1>3. /\ r \in ProcRow /\ r.at = at /\ r.kp = "idle" /\ r.key = NoKey /\ r.failed = "no"
      /\ r.quiet = quiet /\ r.ver = v /\ \A x \in Requests : r.req[x] = "idle"
  BY OffRow DEF ProcRow, Stages, BootStages
<1>4. cmd # "doctor" /\ quiet => Good(v)
  BY <1>1 DEF RowOK, DoctorOK
<1> HIDE DEF r
<1>5. proc'[p] = r
  BY <1>2, <1>3, OneRow
<1>6. ProviderOK(p)' /\ KeyOK(p)' /\ MigrationsOK(p)' /\ \A h \in Homes : ~Creating(p, h)'
  BY <1>3, <1>5 DEF ProviderOK, KeyOK, MigrationsOK, Creating
<1>7. DoctorOK(p)'
  <2>1. cmd # "doctor" /\ quiet => Promised("dirs", v)
    BY <1>4, BootPromised DEF BootStages
  <2>2. Promised("checkDirs", v)
    BY DEF Promised, BootStages, AfterDirs, AfterSubs, AfterSqlite, AfterConfig, AfterKey
  <2>3. r.quiet => Promised(r.at, v)
    BY <1>3, <2>1, <2>2
  <2> QED
    BY <1>2, <1>3, <1>5, <2>3, SameGood DEF DoctorOK
<1> QED
  BY <1>2, <1>3, <1>6, <1>7, OwnStep DEF RowOK

\* The checks of doctor: each adds what it looked at, or the command will report a failure.
LEMMA ChecksKeep ==
    ASSUME RuntimeInv, NEW p \in Procs, Doctor(p)
    PROVE  RuntimeInv'
<1> DEFINE P == proc[p]
<1>1. P \in ProcRow /\ RowOK(p) /\ disk' = disk /\ env' = env /\ raced' = raced
  BY DEF RuntimeInv, RuntimeTypes, Doctor, DoctorReport, runDataDirectoryCheck,
         runDataSubdirectoriesCheck, runSqliteCheck, runAuditCheck, runWebAssetsCheck,
         runConfigDoctorCheck, runKeyFileCheck, runBackupToolsCheck, Check
<1>2. CASE DoctorReport(p)
  <2>1. P.at = "report"
    BY <1>2 DEF DoctorReport, At
  <2>2. CASE P.quiet
    <3> DEFINE r == [Off EXCEPT !.ver = P.ver, !.quiet = TRUE]
    <3>1. Set(p, r)
      BY <1>2, <2>2 DEF DoctorReport
    <3>2. /\ r \in ProcRow /\ r.at = "off" /\ r.kp = "idle" /\ r.key = NoKey /\ r.failed = "no"
          /\ r.ver = P.ver /\ \A x \in Requests : r.req[x] = "idle"
      BY <1>1, OffRow DEF ProcRow
    <3>3. Good(P.ver)
      BY <1>1, <2>1, <2>2 DEF RowOK, DoctorOK, Promised, AfterDirs, AfterSubs, AfterSqlite,
                              AfterConfig, AfterKey, Good
    <3> HIDE DEF r
    <3>4. proc'[p] = r
      BY <3>1, <3>2, OneRow
    <3>5. ProviderOK(p)' /\ KeyOK(p)' /\ MigrationsOK(p)' /\ \A h \in Homes : ~Creating(p, h)'
      BY <3>2, <3>4 DEF ProviderOK, KeyOK, MigrationsOK, Creating
    <3>6. \A v : Promised("off", v)'
      BY DEF Promised, BootStages, AfterDirs, AfterSubs, AfterSqlite, AfterConfig, AfterKey
    <3>7. DoctorOK(p)'
      BY <1>1, <3>2, <3>3, <3>4, <3>6, SameGood DEF DoctorOK
    <3> QED
      BY <1>1, <3>1, <3>2, <3>5, <3>7, OwnStep DEF RowOK
  <2>3. CASE ~P.quiet
    BY <1>1, <1>2, <2>3, EndStep DEF DoctorReport
  <2> QED
    BY <2>2, <2>3
<1>3. ASSUME NEW from \in {"checkDirs"} \cup AfterDirs, NEW to \in AfterDirs, NEW ok \in BOOLEAN,
             Check(p, from, to, ok),
             Promised(from, P.ver) /\ ok => Promised(to, P.ver)
      PROVE  RuntimeInv'
  <2> DEFINE r == [P EXCEPT !.at = to, !.quiet = P.quiet /\ ok]
  <2>1. Set(p, r) /\ P.at = from
    BY <1>3 DEF Check, At
  <2>2. P.at \notin BootStages \cup {"off"} /\ to \notin BootStages \cup {"off"}
    BY <1>3, <2>1 DEF BootStages, AfterDirs, AfterSubs, AfterSqlite, AfterConfig, AfterKey
  <2>3. P.kp = "idle"
    BY <1>1, <2>2 DEF RowOK, ProviderOK, BootStages
  <2>4. P.quiet \in BOOLEAN /\ (P.quiet /\ ok) \in BOOLEAN /\ to \in Stages
    BY <1>1 DEF ProcRow, Stages
  <2>5. /\ r \in ProcRow /\ r.at = to /\ r.kp = P.kp /\ r.key = P.key /\ r.ver = P.ver
        /\ r.failed = P.failed /\ r.req = P.req /\ (r.quiet => P.quiet /\ ok)
    BY <1>1, <2>4 DEF ProcRow
  <2> HIDE DEF r
  <2>6. r.quiet => Promised(r.at, P.ver)
    BY <1>1, <1>3, <2>1, <2>5 DEF RowOK, DoctorOK
  <2>7. /\ r.at \notin {"up", "compose", "listen", "serving"} /\ P.at # "off" /\ r.at # "off"
        /\ r.kp = "idle"
    BY <2>2, <2>3, <2>5 DEF BootStages
  <2>8. Set(p, r) /\ P.kp = "idle"
    BY <2>1, <2>3
  <2> QED
    BY <1>1, <2>5, <2>6, <2>7, <2>8, StageStep
<1> USE DEF AfterDirs, AfterSubs, AfterSqlite, AfterConfig, AfterKey
<1>4. disk.writable \in BOOLEAN /\ disk.open \in BOOLEAN
  BY DEF RuntimeInv, RuntimeTypes, DiskRow
<1>5. CASE runDataDirectoryCheck(p)
  <2> DEFINE ok == disk.dirs # "none" /\ disk.writable
  <2>1. ok \in BOOLEAN /\ Check(p, "checkDirs", "checkSubs", ok)
    BY <1>4, <1>5 DEF runDataDirectoryCheck
  <2>2. Promised("checkDirs", P.ver) /\ ok => Promised("checkSubs", P.ver)
    BY DEF Promised, BootStages
  <2> HIDE DEF ok
  <2> QED
    BY <2>1, <2>2, <1>3
<1>6. CASE runDataSubdirectoriesCheck(p)
  <2> DEFINE ok == disk.dirs = "all"
  <2>1. ok \in BOOLEAN /\ Check(p, "checkSubs", "checkSqlite", ok)
    BY <1>6 DEF runDataSubdirectoriesCheck
  <2>2. Promised("checkSubs", P.ver) /\ ok => Promised("checkSqlite", P.ver)
    BY DEF Promised, BootStages, DirsGood
  <2> HIDE DEF ok
  <2> QED
    BY <2>1, <2>2, <1>3
<1>7. CASE runSqliteCheck(p)
  <2> DEFINE ok == Opens /\ HistoryValid(p)
  <2>1. ok \in BOOLEAN /\ Check(p, "checkSqlite", "checkAudit", ok)
    BY <1>4, <1>7 DEF runSqliteCheck, Opens, HistoryValid
  <2>2. Promised("checkSqlite", P.ver) /\ ok => Promised("checkAudit", P.ver)
    BY DEF Promised, BootStages, HistoryValid, HistoryGood
  <2> HIDE DEF ok
  <2> QED
    BY <2>1, <2>2, <1>3
<1>8. CASE runAuditCheck(p)
  <2> DEFINE ok == Opens /\ HistoryValid(p)
  <2>1. ok \in BOOLEAN /\ Check(p, "checkAudit", "checkAssets", ok)
    BY <1>4, <1>8 DEF runAuditCheck, Opens, HistoryValid
  <2>2. Promised("checkAudit", P.ver) => Promised("checkAssets", P.ver)
    BY DEF Promised, BootStages
  <2> HIDE DEF ok
  <2> QED
    BY <2>1, <2>2, <1>3
<1>9. CASE runWebAssetsCheck(p)
  <2>1. PICK there \in BOOLEAN : Check(p, "checkAssets", "checkConfig", there)
    BY <1>9 DEF runWebAssetsCheck
  <2>2. Promised("checkAssets", P.ver) => Promised("checkConfig", P.ver)
    BY DEF Promised, BootStages
  <2> QED
    BY <2>1, <2>2, <1>3
<1>10. CASE runConfigDoctorCheck(p)
  <2>1. ConfigValid \in BOOLEAN /\ Check(p, "checkConfig", "checkKey", ConfigValid)
    BY <1>10 DEF runConfigDoctorCheck, ConfigValid
  <2>2. Promised("checkConfig", P.ver) /\ ConfigValid => Promised("checkKey", P.ver)
    BY DEF Promised, BootStages
  <2> QED
    BY <2>1, <2>2, <1>3
<1>11. CASE runKeyFileCheck(p)
  <2>1. KeyGood \in BOOLEAN /\ Check(p, "checkKey", "checkTools", KeyGood)
    BY <1>4, <1>11 DEF runKeyFileCheck, KeyGood, parseMasterKey, resolveMasterKeyPath
  <2>2. Promised("checkKey", P.ver) /\ KeyGood => Promised("checkTools", P.ver)
    BY DEF Promised, BootStages
  <2> QED
    BY <2>1, <2>2, <1>3
<1>12. CASE runBackupToolsCheck(p)
  <2>1. Check(p, "checkTools", "report", TRUE)
    BY <1>12 DEF runBackupToolsCheck
  <2>2. Promised("checkTools", P.ver) => Promised("report", P.ver)
    BY DEF Promised, BootStages
  <2> QED
    BY <2>1, <2>2, <1>3
<1> QED
  BY <1>2, <1>5, <1>6, <1>7, <1>8, <1>9, <1>10, <1>11, <1>12 DEF Doctor

\* The end of a process: the last step of a shutdown, or a kill at any moment.
LEMMA EndsKeep ==
    ASSUME RuntimeInv, NEW p \in Procs, Exit(p) \/ Killed(p)
    PROVE  RuntimeInv'
BY EndStep DEF Exit, Killed, Ends

\* Requests: they wait for the key or find it, and encrypt under it (begin, encryptCredential()).
LEMMA RequestsKeep ==
    ASSUME RuntimeInv, NEW p \in Procs, NEW x \in Requests,
           Begin(p, x) \/ encryptCredential(p, x)
    PROVE  RuntimeInv'
<1> DEFINE P == proc[p]
<1>1. P \in ProcRow /\ RowOK(p) /\ disk' = disk /\ env' = env /\ raced' = raced
  BY DEF RuntimeInv, RuntimeTypes, Begin, encryptCredential
<1>2. CASE P.key # NoKey /\ SetReq(p, x, "encrypted")
  <2> DEFINE r == [P EXCEPT !.req[x] = "encrypted"]
  <2>1. Set(p, r)
    BY <1>2 DEF SetReq
  <2>2. /\ r \in ProcRow /\ r.at = P.at /\ r.kp = P.kp /\ r.drawn = P.drawn /\ r.key = P.key
        /\ r.ver = P.ver /\ r.seen = P.seen /\ r.quiet = P.quiet
        /\ r.failed = P.failed
    BY <1>1 DEF ProcRow
  <2> HIDE DEF r
  <2> QED
    BY <1>1, <1>2, <2>1, <2>2, ProviderStep DEF RowOK, ProviderOK
<1>3. CASE Begin(p, x)
  <2> DEFINE r == [P EXCEPT !.req[x] = "load",
                     !.kp = IF P.kp = "idle" /\ P.key = NoKey THEN "stat" ELSE P.kp]
  <2>1. Set(p, r) /\ P.at = "serving"
    BY <1>3 DEF Begin, At
  <2>2. /\ r \in ProcRow /\ r.at = P.at /\ r.drawn = P.drawn /\ r.key = P.key
        /\ r.kp \in {"stat", P.kp}
        /\ r.ver = P.ver /\ r.seen = P.seen /\ r.quiet = P.quiet /\ r.failed = P.failed
    BY <1>1 DEF ProcRow
  <2>3. \A y \in Requests : r.req[y] \in {P.req[y], "load"}
    BY <1>1 DEF ProcRow
  <2> HIDE DEF r
  <2>4. \A y \in Requests : r.req[y] = "encrypted" => r.key # NoKey
    BY <1>1, <2>2, <2>3 DEF RowOK, ProviderOK
  <2>5. r.kp # "idle" => r.at \in {"key", "serving", "stopping"}
    BY <2>1, <2>2
  <2>6. r.kp \in {"read", "write", "rename", "chmod"} => env.key \in {"none", "file"}
    BY <1>1, <2>2 DEF RowOK, ProviderOK
  <2>7. r.kp \in {"rename", "chmod"} => IsKey(r.drawn)
    BY <1>1, <2>2 DEF RowOK, ProviderOK
  <2>8. r.kp \in {"write", "rename"} => P.kp \in {"write", "rename"} /\ r.at = P.at
    BY <2>2
  <2>9. r.kp = "chmod" => P.kp = "chmod" /\ r.at = P.at /\ r.drawn = P.drawn
    BY <2>2
  <2>10. r.key \in {P.key, EnvKey}
    BY <2>2
  <2>11. Set(p, r)
    BY <2>1
  <2> QED
    BY <1>1, <2>2, <2>4, <2>5, <2>6, <2>7, <2>8, <2>9, <2>10, <2>11, ProviderStep
<1> QED
  BY <1>2, <1>3 DEF Begin, encryptCredential

-----------------------------------------------------------------------------
(* The key provider *)

\* The key of the environment is a key.
LEMMA EnvKeyIsKey == EnvKey \in Nat /\ IsKey(EnvKey)
BY RuntimeAssumption DEF EnvKey, IsKey, NoKey, Short

\* The provider has its key: the boot goes on, or the requests of a server have it.
LEMMA LoadedStep ==
    ASSUME RuntimeInv, NEW p \in Procs, NEW k \in Nat, Set(p, KeyLoaded(p, k)),
           proc[p].kp # "idle", IsKey(k), raced \/ k = EnvKey \/ k = disk.key[KeyHome(p)],
           disk' = disk, env' = env, raced' = raced
    PROVE  RuntimeInv'
<1> DEFINE P == proc[p]
           r == KeyLoaded(p, k)
<1>1. P \in ProcRow /\ RowOK(p) /\ IsKey(k)
  BY DEF RuntimeInv, RuntimeTypes
<1>2. /\ r \in ProcRow /\ r.kp = "idle" /\ r.ver = P.ver /\ r.seen = P.seen
      /\ r.quiet = P.quiet /\ r.failed = P.failed /\ r.req = P.req
      /\ IF P.at = "key" THEN r.at = "migrations" /\ r.key = P.key
         ELSE r.at = P.at /\ r.key = k
  BY <1>1 DEF KeyLoaded, At, ProcRow, Stages, BootStages, NoKey
<1>3. Set(p, r)
  OBVIOUS
<1> HIDE DEF r
<1>4. \A x \in Requests : r.req[x] = "encrypted" => r.key # NoKey
  BY <1>1, <1>2 DEF RowOK, ProviderOK, IsKey
<1>5. raced \/ r.key \in {P.key, EnvKey} \/ (r.key = disk.key[VaultHome] /\ IsKey(r.key))
  BY <1>1, <1>2, HomeOf
<1> QED
  BY <1>2, <1>3, <1>4, <1>5, ProviderStep

\* The provider gives up: a boot that doctor promised is stopped by a key file that is short or
\* cannot be read, and by nothing else.
LEMMA KeyFailsStep ==
    ASSUME RuntimeInv, NEW p \in Procs, KeyFails(p), proc[p].kp # "idle",
           proc[p].at = "key" /\ proc[p].quiet => ~disk.readable \/ disk.key["root"] = Short,
           disk' = disk, env' = env, raced' = raced
    PROVE  RuntimeInv'
<1> DEFINE P == proc[p]
           r == [P EXCEPT !.kp = "idle", !.drawn = NoKey,
                   !.req = [x \in Requests |-> IF P.req[x] = "load" THEN "idle" ELSE P.req[x]]]
<1>1. P \in ProcRow /\ RowOK(p)
  BY DEF RuntimeInv, RuntimeTypes
<1>2. CASE P.at = "key"
  BY <1>2, FailStep DEF KeyFails, At
<1>3. CASE P.at # "key"
  <2>1. Set(p, r)
    BY <1>3 DEF KeyFails, At
  <2>2. /\ r \in ProcRow /\ r.at = P.at /\ r.kp = "idle" /\ r.key = P.key /\ r.ver = P.ver
        /\ r.seen = P.seen /\ r.quiet = P.quiet /\ r.failed = P.failed
        /\ \A x \in Requests : r.req[x] = "encrypted" => P.req[x] = "encrypted"
    BY <1>1 DEF ProcRow, NoKey
  <2> HIDE DEF r
  <2> QED
    BY <1>1, <2>1, <2>2, ProviderStep DEF RowOK, ProviderOK
<1> QED
  BY <1>2, <1>3

\* loadUncached() finds no file: a creation begins, and it is a race when another one is under
\* way in the same place.
LEMMA BeginsCreationKeeps ==
    ASSUME RuntimeInv, NEW p \in Procs, proc[p].kp = "stat", env.key \in {"none", "file"},
           disk.key[KeyHome(p)] = NoKey, BeginsCreation(p), disk' = disk, env' = env
    PROVE  RuntimeInv'
<1> DEFINE P == proc[p]
           r == [P EXCEPT !.kp = "write"]
<1>1. P \in ProcRow /\ RowOK(p) /\ P.at \in {"key", "serving", "stopping"}
  BY DEF RuntimeInv, RuntimeTypes, RowOK, ProviderOK
<1>2. Set(p, r) /\ raced' = (raced \/ \E q \in Procs \ {p} : Creating(q, KeyHome(p)))
  BY DEF BeginsCreation
<1>3. /\ r \in ProcRow /\ r.at = P.at /\ r.kp = "write" /\ r.key = P.key /\ r.ver = P.ver
      /\ r.seen = P.seen /\ r.quiet = P.quiet /\ r.failed = P.failed /\ r.req = P.req
  BY <1>1 DEF ProcRow
<1> HIDE DEF r
<1>4. /\ proc' \in [Procs -> ProcRow] /\ proc'[p] = r
      /\ \A q \in Procs : q # p => proc'[q] = proc[q]
  BY <1>2, <1>3, OneRow
<1>5. VaultHome' = VaultHome
  BY SameGood
<1>6. \A q \in Procs : KeyHome(q)' = KeyHome(q)
  BY <1>3, <1>4, <1>5, HomeOf DEF KeyHome, resolveMasterKeyPath
<1>7. \A h : Creating(p, h)' => h = KeyHome(p)
  BY <1>6 DEF Creating
<1>8. \A q \in Procs : q # p => \A h : Creating(q, h)' = Creating(q, h)
  BY <1>4, <1>6 DEF Creating
<1>9. raced' \in BOOLEAN /\ (raced => raced')
  BY <1>2 DEF RuntimeInv, RuntimeTypes
<1>10. RuntimeTypes' /\ disk'.applied = disk'.schema
  BY <1>4, <1>9 DEF RuntimeInv, RuntimeTypes
<1>11. StoredOK'
  BY <1>5, <1>9 DEF RuntimeInv, StoredOK
<1>12. OneCreator'
  BY <1>2, <1>7, <1>8, <1>9 DEF RuntimeInv, OneCreator
<1>13. ASSUME NEW q \in Procs
       PROVE  RowOK(q)'
  <2>1. RowOK(q)
    BY DEF RuntimeInv
  <2>2. /\ proc'[q].at = proc[q].at /\ proc'[q].key = proc[q].key /\ proc'[q].ver = proc[q].ver
        /\ proc'[q].seen = proc[q].seen /\ proc'[q].quiet = proc[q].quiet
        /\ proc'[q].failed = proc[q].failed /\ proc'[q].req = proc[q].req
        /\ q # p => proc'[q] = proc[q]
        /\ q = p => proc'[q].kp = "write"
    BY <1>3, <1>4
  <2>3. ProviderOK(q)' /\ MigrationsOK(q)'
    BY <1>1, <2>1, <2>2 DEF RowOK, ProviderOK, MigrationsOK
  <2>4. KeyOK(q)'
    <3> SUFFICES ASSUME ~raced' PROVE KeyOK(q)'
      BY DEF KeyOK
    <3>1. proc'[q].key \in {NoKey, EnvKey} \/ (proc'[q].key = disk'.key[VaultHome'] /\ IsKey(proc'[q].key))
      BY <1>5, <1>9, <2>1, <2>2 DEF RowOK, KeyOK
    <3>2. \A h \in Homes : Creating(q, h)' => ~IsKey(disk'.key[h])
      BY <1>7, <1>8, <1>9, <2>1 DEF RowOK, KeyOK, IsKey
    <3>3. proc'[q].kp = "chmod" => proc'[q].drawn = disk'.key[KeyHome(q)']
      BY <1>6, <1>9, <2>1, <2>2 DEF RowOK, KeyOK
    <3> QED
      BY <3>1, <3>2, <3>3 DEF KeyOK
  <2>5. DoctorOK(q)'
    BY <2>1, <2>2, SameGood DEF RowOK, DoctorOK
  <2> QED
    BY <2>3, <2>4, <2>5 DEF RowOK
<1> QED
  BY <1>10, <1>11, <1>12, <1>13 DEF RuntimeInv

\* While the provider of a boot looks for its key, doctor's word says what the boot needs.
LEMMA BootKeyGood ==
    ASSUME NEW p \in Procs, RowOK(p), proc[p].at = "key", proc[p].quiet
    PROVE  Good(proc[p].ver)
BY BootPromised DEF RowOK, DoctorOK, BootStages

\* loadUncached(): the environment, else the file; only a missing file leads to a creation.
LEMMA StatKeyKeeps ==
    ASSUME RuntimeInv, NEW p \in Procs, StatKey(p)
    PROVE  RuntimeInv'
<1> DEFINE P == proc[p]
<1>1. /\ P \in ProcRow /\ RowOK(p) /\ P.kp = "stat" /\ P.at \in {"key", "serving", "stopping"}
      /\ disk' = disk /\ env' = env
  BY DEF RuntimeInv, RuntimeTypes, StatKey, RowOK, ProviderOK
<1>2. CASE parseMasterKey /\ Set(p, KeyLoaded(p, EnvKey)) /\ raced' = raced
  BY <1>1, <1>2, EnvKeyIsKey, LoadedStep
<1>3. CASE env.key = "bad" /\ KeyFails(p) /\ raced' = raced
  <2>1. P.at = "key" => ~P.quiet
    BY <1>1, <1>3, BootKeyGood DEF Good, KeyGood
  <2> QED
    BY <1>1, <1>3, <2>1, KeyFailsStep
<1>4. CASE env.key \in {"none", "file"} /\ disk.key[KeyHome(p)] = NoKey /\ BeginsCreation(p)
  BY <1>1, <1>4, BeginsCreationKeeps
<1>5. CASE env.key \in {"none", "file"} /\ UnsafeMode(p) /\ KeyFails(p) /\ raced' = raced
  <2>1. P.at = "key" => ~P.quiet
    BY <1>1, <1>5, BootKeyGood DEF UnsafeMode, Good, KeyGood
  <2> QED
    BY <1>1, <1>5, <2>1, KeyFailsStep
<1>6. CASE env.key \in {"none", "file"} /\ Set(p, [P EXCEPT !.kp = "read"]) /\ raced' = raced
  <2> DEFINE r == [P EXCEPT !.kp = "read"]
  <2>1. Set(p, r)
    BY <1>6
  <2>2. /\ r \in ProcRow /\ r.at = P.at /\ r.kp = "read" /\ r.key = P.key /\ r.ver = P.ver
        /\ r.seen = P.seen /\ r.quiet = P.quiet /\ r.failed = P.failed /\ r.req = P.req
    BY <1>1 DEF ProcRow
  <2> HIDE DEF r
  <2> QED
    BY <1>1, <1>6, <2>1, <2>2, ProviderStep DEF RowOK, ProviderOK
<1> QED
  BY <1>2, <1>3, <1>4, <1>5, <1>6 DEF StatKey

\* The file is read: one that cannot be read or has the wrong length is refused, and never
\* replaced.
LEMMA ReadKeyKeeps ==
    ASSUME RuntimeInv, NEW p \in Procs, ReadKey(p)
    PROVE  RuntimeInv'
<1> DEFINE P == proc[p]
           K == disk.key[KeyHome(p)]
           Unreadable == ~disk.readable /\ KeyHome(p) = "root"
<1>1. /\ P \in ProcRow /\ RowOK(p) /\ P.kp = "read" /\ env.key \in {"none", "file"}
      /\ disk' = disk /\ env' = env /\ raced' = raced
  BY DEF RuntimeInv, RuntimeTypes, ReadKey, RowOK, ProviderOK
<1>2. KeyHome(p) \in Homes
  BY HomeOf DEF Homes
<1>3. K \in Nat \cup {Short}
  BY <1>2 DEF RuntimeInv, RuntimeTypes, DiskRow
<1>4. CASE K \in {NoKey, Short} \/ Unreadable
  <2>1. P.at = "key" /\ P.quiet => ~disk.readable \/ disk.key["root"] = Short
    BY <1>1, <1>4, BootKeyGood, HomeOf DEF Good, KeyGood
  <2> QED
    BY <1>1, <1>4, <2>1, KeyFailsStep DEF ReadKey
<1>5. CASE K \notin {NoKey, Short} /\ ~Unreadable
  <2>1. K \in Nat /\ IsKey(K) /\ Set(p, KeyLoaded(p, K))
    BY <1>3, <1>5 DEF IsKey, ReadKey
  <2> QED
    BY <1>1, <2>1, LoadedStep
<1> QED
  BY <1>4, <1>5

\* createKeyFile(), first half: a new key in a temporary file.
LEMMA WriteKeyKeeps ==
    ASSUME RuntimeInv, NEW p \in Procs, WriteKey(p)
    PROVE  RuntimeInv'
<1> DEFINE P == proc[p]
<1>1. /\ P \in ProcRow /\ RowOK(p) /\ P.kp = "write" /\ env.key \in {"none", "file"}
      /\ P.at \in {"key", "serving", "stopping"}
      /\ disk' = disk /\ env' = env /\ raced' = raced
  BY DEF RuntimeInv, RuntimeTypes, WriteKey, RowOK, ProviderOK
<1>2. CASE disk.writable
  <2>1. PICK k \in NewKeys : Set(p, [P EXCEPT !.kp = "rename", !.drawn = k])
    BY <1>1, <1>2 DEF WriteKey
  <2>2. k \in Nat /\ IsKey(k)
    BY RuntimeAssumption DEF NewKeys, KeyIds, IsKey, NoKey, Short
  <2> DEFINE r == [P EXCEPT !.kp = "rename", !.drawn = k]
  <2>3. Set(p, r)
    BY <2>1
  <2>4. /\ r \in ProcRow /\ r.at = P.at /\ r.kp = "rename" /\ r.drawn = k /\ r.key = P.key
        /\ r.ver = P.ver /\ r.seen = P.seen /\ r.quiet = P.quiet
        /\ r.failed = P.failed /\ r.req = P.req
    BY <1>1, <2>2 DEF ProcRow
  <2> HIDE DEF r
  <2> QED
    BY <1>1, <2>2, <2>3, <2>4, ProviderStep DEF RowOK, ProviderOK
<1>3. CASE ~disk.writable
  <2>1. P.at = "key" => ~P.quiet
    BY <1>1, <1>3, BootKeyGood DEF Good, DirsGood
  <2> QED
    BY <1>1, <1>3, <2>1, KeyFailsStep DEF WriteKey
<1> QED
  BY <1>2, <1>3

\* createKeyFile(), the last step: the mode of the new file is set once more.
LEMMA ChmodKeyKeeps ==
    ASSUME RuntimeInv, NEW p \in Procs, ChmodKey(p)
    PROVE  RuntimeInv'
<1> DEFINE P == proc[p]
<1>1. /\ P \in ProcRow /\ RowOK(p) /\ P.kp = "chmod"
      /\ disk' = disk /\ env' = env /\ raced' = raced
  BY DEF RuntimeInv, RuntimeTypes, ChmodKey
<1>2. CASE disk.writable
  <2>1. P.drawn \in Nat /\ IsKey(P.drawn) /\ (raced \/ P.drawn = disk.key[KeyHome(p)])
    BY <1>1 DEF ProcRow, RowOK, ProviderOK, KeyOK
  <2>2. Set(p, KeyLoaded(p, P.drawn))
    BY <1>2 DEF ChmodKey
  <2> QED
    BY <1>1, <2>1, <2>2, LoadedStep
<1>3. CASE ~disk.writable
  <2>1. P.at = "key" => ~P.quiet
    BY <1>1, <1>3, BootKeyGood DEF Good, DirsGood
  <2> QED
    BY <1>1, <1>3, <2>1, KeyFailsStep DEF ChmodKey
<1> QED
  BY <1>2, <1>3

-----------------------------------------------------------------------------
(* Steps that change the directory *)

\* What another process, or the operator, does to the directory: a process whose directory was
\* touched has nothing doctor could still promise it.
LEMMA DisturbedRow ==
    ASSUME RuntimeInv, NEW q \in Procs, proc'[q] = [proc[q] EXCEPT !.quiet = FALSE], env' = env,
           disk'.schema \in Nat, disk.schema <= disk'.schema
    PROVE  /\ proc'[q] \in ProcRow /\ ProviderOK(q)' /\ MigrationsOK(q)' /\ DoctorOK(q)'
           /\ proc'[q].at = proc[q].at /\ proc'[q].kp = proc[q].kp /\ proc'[q].key = proc[q].key
           /\ proc'[q].drawn = proc[q].drawn
<1>1. proc[q] \in ProcRow /\ RowOK(q) /\ disk.schema \in Nat /\ proc[q].seen \in Int
  BY DEF RuntimeInv, RuntimeTypes, DiskRow, ProcRow
<1>2. /\ proc'[q] \in ProcRow /\ ~proc'[q].quiet
      /\ proc'[q].at = proc[q].at /\ proc'[q].kp = proc[q].kp /\ proc'[q].key = proc[q].key
      /\ proc'[q].ver = proc[q].ver /\ proc'[q].seen = proc[q].seen
      /\ proc'[q].drawn = proc[q].drawn /\ proc'[q].failed = proc[q].failed
      /\ proc'[q].req = proc[q].req
  BY <1>1 DEF ProcRow
<1>3. ProviderOK(q)'
  BY <1>1, <1>2 DEF RowOK, ProviderOK
<1>4. MigrationsOK(q)'
  <2> SUFFICES ASSUME proc'[q].at \in {"up", "compose", "listen", "serving"}
               PROVE  proc'[q].seen <= disk'.schema
                      /\ (proc'[q].at # "up" => proc'[q].seen = proc'[q].ver)
    BY DEF MigrationsOK
  <2>1. proc[q].seen <= disk.schema /\ (proc[q].at # "up" => proc[q].seen = proc[q].ver)
    BY <1>1, <1>2 DEF RowOK, MigrationsOK
  <2>2. proc[q].seen <= disk'.schema
    BY <1>1, <2>1
  <2> QED
    BY <1>2, <2>1, <2>2
<1>5. DoctorOK(q)'
  BY <1>1, <1>2 DEF RowOK, DoctorOK
<1> QED
  BY <1>2, <1>3, <1>4, <1>5

\* A row stays in order when a file is added that it does not look at.
LEMMA AddedRow ==
    ASSUME RuntimeInv, NEW q \in Procs, proc'[q] = proc[q], env' = env, raced' = raced,
           disk'.key = disk.key, disk'.config = disk.config, disk'.open = disk.open,
           disk'.writable = disk.writable, disk'.applied = disk.applied,
           disk'.schema = disk.schema, disk'.readable = disk.readable,
           disk.dirs = "all" => disk'.dirs = "all" /\ disk'.temp = disk.temp
    PROVE  RowOK(q)'
<1>1. RowOK(q)
  BY DEF RuntimeInv
<1>2. ProviderOK(q)' /\ MigrationsOK(q)'
  BY <1>1 DEF RowOK, ProviderOK, MigrationsOK
<1>3. KeyOK(q)'
  <2>1. VaultHome' = VaultHome
    BY DEF VaultHome, resolveMasterKeyPath, dataDir
  <2> QED
    BY <1>1, <2>1, SameHome DEF RowOK, KeyOK
<1>4. \A v : Good(v) => Good(v)'
  BY DEF Good, DirsGood, HistoryGood, ConfigValid, KeyGood
<1>5. \A at, v : Promised(at, v) => Promised(at, v)'
  BY <1>4 DEF Promised, DirsGood, HistoryGood, ConfigValid, KeyGood
<1>6. DoctorOK(q)'
  BY <1>1, <1>4, <1>5 DEF RowOK, DoctorOK
<1> QED
  BY <1>2, <1>3, <1>6 DEF RowOK

\* A boot that makes a directory and goes on.
LEMMA MadeStep ==
    ASSUME RuntimeInv, NEW p \in Procs, NEW dirs \in {"root", "all"},
           NEW to \in {"subs", "config", "migrations"}, proc[p].at \in {"dirs", "subs"},
           NEW temp \in BOOLEAN, disk' = [disk EXCEPT !.dirs = dirs, !.temp = temp],
           disk.dirs = "all" => dirs = "all" /\ temp = disk.temp,
           Goto(p, to), env' = env, raced' = raced
    PROVE  RuntimeInv'
<1> DEFINE P == proc[p]
           r == [P EXCEPT !.at = to]
<1>1. P \in ProcRow /\ RowOK(p) /\ P.kp = "idle" /\ disk \in DiskRow /\ Set(p, r)
  BY DEF RuntimeInv, RuntimeTypes, RowOK, ProviderOK, Goto
<1>2. /\ r \in ProcRow /\ r.at = to /\ r.kp = P.kp /\ r.key = P.key /\ r.ver = P.ver
      /\ r.quiet = P.quiet /\ r.failed = P.failed /\ r.req = P.req
  BY <1>1 DEF ProcRow, Stages, BootStages
<1>3. /\ disk' \in DiskRow /\ disk'.key = disk.key /\ disk'.config = disk.config
      /\ disk'.open = disk.open /\ disk'.writable = disk.writable
      /\ disk'.applied = disk.applied /\ disk'.schema = disk.schema /\ disk'.dirs = dirs
      /\ disk'.stored = disk.stored /\ disk'.readable = disk.readable /\ disk'.temp = temp
  BY <1>1 DEF DiskRow
<1> HIDE DEF r
<1>4. /\ proc' \in [Procs -> ProcRow] /\ proc'[p] = r
      /\ \A q \in Procs : q # p => proc'[q] = proc[q]
  BY <1>1, <1>2, OneRow
<1>5. \A q \in Procs : q # p => RowOK(q)'
  BY <1>3, <1>4, AddedRow
<1>6. VaultHome' = VaultHome
  BY <1>3 DEF VaultHome, resolveMasterKeyPath, dataDir
<1>7. RowOK(p)'
  <2>1. ProviderOK(p)' /\ MigrationsOK(p)'
    BY <1>1, <1>2, <1>4 DEF RowOK, ProviderOK, MigrationsOK
  <2>2. KeyOK(p)'
    BY <1>1, <1>2, <1>3, <1>4, <1>6 DEF RowOK, KeyOK, Creating
  <2>3. \A v : Good(v) => Good(v)'
    BY <1>3 DEF Good, DirsGood, HistoryGood, ConfigValid, KeyGood
  <2>4. P.failed = "no" /\ (P.quiet => Good(P.ver))
    BY <1>1, BootPromised DEF RowOK, DoctorOK, BootStages
  <2>5. \A v : Good(v)' => Promised(to, v)'
    BY DEF Promised, BootStages, AfterDirs, AfterSubs, AfterSqlite, AfterConfig, AfterKey
  <2>6. DoctorOK(p)'
    BY <1>2, <1>4, <2>3, <2>4, <2>5 DEF DoctorOK
  <2> QED
    BY <2>1, <2>2, <2>6 DEF RowOK
<1>8. StoredOK'
  BY <1>3, <1>6 DEF RuntimeInv, StoredOK
<1>9. ~Creating(p, "root")' /\ ~Creating(p, "other")'
  BY <1>1, <1>2, <1>4 DEF Creating
<1>10. \A q \in Procs, h \in Homes : Creating(q, h)' => Creating(q, h)
  BY <1>4, <1>6, <1>9, SameHome DEF Homes
<1>11. OneCreator'
  BY <1>10 DEF RuntimeInv, OneCreator
<1>12. \A q \in Procs : RowOK(q)'
  BY <1>5, <1>7
<1> QED
  BY <1>3, <1>4, <1>8, <1>11, <1>12 DEF RuntimeInv, RuntimeTypes

\* ensureDataDirectory(): the directory and its subfolders are there from now on; a boot that
\* doctor promised is stopped here only by a temp it cannot write.
LEMMA DirectoryKeeps ==
    ASSUME RuntimeInv, NEW p \in Procs, prepareDataDirectory(p) \/ MakeSubfolders(p)
    PROVE  RuntimeInv'
<1> DEFINE P == proc[p]
<1>1. /\ P \in ProcRow /\ RowOK(p) /\ P.at \in {"dirs", "subs"} /\ disk \in DiskRow
      /\ env' = env /\ raced' = raced
  BY DEF RuntimeInv, RuntimeTypes, prepareDataDirectory, MakeSubfolders, At
<1>2. P.quiet => DirsGood
  BY <1>1, BootPromised DEF RowOK, DoctorOK, BootStages, Good
<1>3. CASE prepareDataDirectory(p)
  <2>1. CASE disk.dirs # "none" \/ disk.writable
    <3> DEFINE dirs == IF disk.dirs = "none" THEN "root" ELSE disk.dirs
    <3>1. /\ disk' = [disk EXCEPT !.dirs = dirs] /\ Goto(p, "subs")
          /\ dirs \in {"root", "all"} /\ (disk.dirs = "all" => dirs = "all")
      BY <1>1, <1>3, <2>1 DEF prepareDataDirectory, DiskRow
    <3> HIDE DEF dirs
    <3>2. disk' = [disk EXCEPT !.dirs = dirs, !.temp = disk.temp] /\ disk.temp \in BOOLEAN
      BY <1>1, <3>1 DEF DiskRow
    <3>3. "subs" \in {"subs", "config", "migrations"}
      OBVIOUS
    <3> QED
      BY <1>1, <3>1, <3>2, <3>3, MadeStep
  <2>2. CASE ~(disk.dirs # "none" \/ disk.writable)
    BY <1>1, <1>2, <1>3, <2>2, FailStep DEF prepareDataDirectory, DirsGood
  <2> QED
    BY <2>1, <2>2
<1>4. CASE MakeSubfolders(p)
  <2> DEFINE Made == IF disk.dirs = "all" THEN disk.temp ELSE disk.writable
  <2>1. CASE Made
    <3> DEFINE to == IF P.cmd = "serve" THEN "config" ELSE "migrations"
    <3>1. disk' = [disk EXCEPT !.dirs = "all", !.temp = TRUE] /\ Goto(p, to)
      BY <1>4, <2>1 DEF MakeSubfolders
    <3>2. to \in {"subs", "config", "migrations"} /\ "all" \in {"root", "all"} /\ TRUE \in BOOLEAN
      OBVIOUS
    <3> HIDE DEF to
    <3>3. disk.dirs = "all" => "all" = "all" /\ TRUE = disk.temp
      BY <1>1, <2>1 DEF DiskRow
    <3> QED
      BY <1>1, <3>1, <3>2, <3>3, MadeStep
  <2>2. CASE ~Made
    <3>1. Fails(p, "dirs") /\ disk' = disk
      BY <1>4, <2>2 DEF MakeSubfolders
    <3>2. P.quiet => disk.dirs = "all" /\ ~disk.temp
      BY <1>2, <2>2 DEF DirsGood
    <3> QED
      BY <1>1, <3>1, <3>2, FailStep
  <2> QED
    BY <2>1, <2>2
<1> QED
  BY <1>3, <1>4

\* repository.save(): the row is written under the key the process has.
LEMMA SaveCredentialKeeps ==
    ASSUME RuntimeInv, NEW p \in Procs, NEW x \in Requests, SaveCredential(p, x)
    PROVE  RuntimeInv'
<1> DEFINE P == proc[p]
           r == [P EXCEPT !.req[x] = "idle"]
<1>1. /\ P \in ProcRow /\ RowOK(p) /\ disk \in DiskRow /\ P.req[x] = "encrypted"
      /\ env' = env /\ raced' = raced /\ Set(p, r) /\ P.key \in Nat /\ P.key # NoKey
  BY DEF RuntimeInv, RuntimeTypes, SaveCredential, SetReq, ProcRow, RowOK, ProviderOK
<1>2. /\ disk' \in DiskRow /\ disk'.key = disk.key /\ disk'.config = disk.config
      /\ disk'.open = disk.open /\ disk'.writable = disk.writable
      /\ disk'.applied = disk.applied /\ disk'.schema = disk.schema /\ disk'.dirs = disk.dirs
      /\ disk'.readable = disk.readable /\ disk'.temp = disk.temp
      /\ disk'.stored \subseteq disk.stored \cup {P.key}
  BY <1>1 DEF SaveCredential, DiskRow
<1>3. /\ r \in ProcRow /\ r.at = P.at /\ r.kp = P.kp /\ r.drawn = P.drawn /\ r.key = P.key
      /\ r.ver = P.ver /\ r.seen = P.seen /\ r.quiet = P.quiet
      /\ r.failed = P.failed /\ \A y \in Requests : r.req[y] \in {P.req[y], "idle"}
  BY <1>1 DEF ProcRow
<1> HIDE DEF r
<1>4. /\ proc' \in [Procs -> ProcRow] /\ proc'[p] = r
      /\ \A q \in Procs : q # p => proc'[q] = proc[q]
  BY <1>1, <1>3, OneRow
<1>5. VaultHome' = VaultHome
  BY <1>1, <1>2 DEF VaultHome, resolveMasterKeyPath, dataDir
<1>6. \A q \in Procs : q # p => RowOK(q)'
  BY <1>1, <1>2, <1>4, AddedRow
<1>7. RowOK(p)'
  <2>1. ProviderOK(p)' /\ MigrationsOK(p)'
    BY <1>1, <1>2, <1>3, <1>4 DEF RowOK, ProviderOK, MigrationsOK
  <2>2. KeyHome(p)' = KeyHome(p) /\ \A h : Creating(p, h)' = Creating(p, h)
    BY <1>3, <1>4, <1>5, SameHome
  <2>3. KeyOK(p)'
    BY <1>1, <1>2, <1>3, <1>4, <1>5, <2>2 DEF RowOK, KeyOK
  <2>4. \A v : Good(v)' = Good(v)
    BY <1>1, <1>2 DEF Good, DirsGood, HistoryGood, ConfigValid, KeyGood
  <2>5. \A at, v : Promised(at, v) => Promised(at, v)'
    BY <1>1, <1>2, <2>4 DEF Promised, DirsGood, HistoryGood, ConfigValid, KeyGood
  <2>6. DoctorOK(p)'
    BY <1>1, <1>2, <1>3, <1>4, <2>4, <2>5 DEF RowOK, DoctorOK
  <2> QED
    BY <2>1, <2>3, <2>6 DEF RowOK
<1>8. StoredOK'
  BY <1>1, <1>2, <1>5 DEF RuntimeInv, StoredOK, RowOK, KeyOK
<1>9. \A q \in Procs, h \in Homes : Creating(q, h)' => Creating(q, h)
  BY <1>3, <1>4, <1>5, SameHome
<1>10. OneCreator'
  BY <1>1, <1>9 DEF RuntimeInv, OneCreator
<1> QED
  BY <1>1, <1>2, <1>4, <1>6, <1>7, <1>8, <1>10 DEF RuntimeInv, RuntimeTypes

\* rename() over the path: under no race only the creator is there, and it replaces no key.
LEMMA RenameKeyKeeps ==
    ASSUME RuntimeInv, NEW p \in Procs, RenameKey(p)
    PROVE  RuntimeInv'
<1> DEFINE P == proc[p]
           H == KeyHome(p)
           d == P.drawn
           r == [P EXCEPT !.kp = "chmod"]
<1>1. /\ P \in ProcRow /\ RowOK(p) /\ P.kp = "rename" /\ env.key \in {"none", "file"}
      /\ P.at \in {"key", "serving", "stopping"} /\ disk \in DiskRow
      /\ env' = env /\ raced' = raced /\ IsKey(d) /\ d \in Nat
  BY DEF RuntimeInv, RuntimeTypes, RenameKey, RowOK, ProviderOK, ProcRow
<1>2. H \in Homes /\ VaultHome \in Homes /\ Creating(p, H) /\ (P.at = "key" => H = "root")
  BY <1>1, HomeOf DEF Homes, Creating
<1>3. CASE ~disk.writable
  <2>1. P.at = "key" => ~P.quiet
    BY <1>1, <1>3, BootKeyGood DEF Good, DirsGood
  <2> QED
    BY <1>1, <1>3, <2>1, KeyFailsStep DEF RenameKey
<1>4. CASE disk.writable
  <2>1. /\ disk' = [disk EXCEPT !.key[H] = d, !.open = disk.open /\ H # "root",
                      !.readable = disk.readable \/ H = "root"]
        /\ proc' = Disturbed([proc EXCEPT ![p].kp = "chmod"], p)
    BY <1>4 DEF RenameKey
  <2>2. /\ disk' \in DiskRow /\ disk'.dirs = disk.dirs /\ disk'.writable = disk.writable
        /\ disk'.config = disk.config /\ disk'.applied = disk.applied
        /\ disk'.schema = disk.schema /\ disk'.stored = disk.stored
        /\ disk'.key[H] = d /\ \A h \in Homes : h # H => disk'.key[h] = disk.key[h]
        /\ disk'.open = (disk.open /\ H # "root")
    BY <1>1, <1>2, <2>1 DEF DiskRow
  <2>3. /\ r \in ProcRow /\ r.at = P.at /\ r.kp = "chmod" /\ r.drawn = d /\ r.key = P.key
        /\ r.ver = P.ver /\ r.seen = P.seen
        /\ r.quiet = P.quiet /\ r.failed = P.failed /\ r.req = P.req
    BY <1>1 DEF ProcRow
  <2>4. /\ proc'[p] = r
        /\ \A q \in Procs : q # p => proc'[q] = [proc[q] EXCEPT !.quiet = FALSE]
        /\ proc' = [q \in Procs |-> proc'[q]]
    BY <2>1 DEF Disturbed, RuntimeInv, RuntimeTypes
  <2> HIDE DEF r
  <2>5. VaultHome' = VaultHome
    BY <1>1, <2>2 DEF VaultHome, resolveMasterKeyPath, dataDir
  <2>6. disk.schema \in Nat /\ disk.applied = disk.schema
    BY <1>1 DEF DiskRow, RuntimeInv
  <2>7. \A q \in Procs : q # p =>
          /\ proc'[q] \in ProcRow /\ ProviderOK(q)' /\ MigrationsOK(q)' /\ DoctorOK(q)'
          /\ proc'[q].at = proc[q].at /\ proc'[q].kp = proc[q].kp /\ proc'[q].key = proc[q].key
          /\ proc'[q].drawn = proc[q].drawn
    BY <1>1, <2>2, <2>4, <2>6, DisturbedRow
  <2>8. proc' \in [Procs -> ProcRow]
    BY <2>3, <2>4, <2>7
  <2>9. \A q \in Procs : KeyHome(q)' = KeyHome(q)
    BY <2>3, <2>4, <2>5, <2>7, HomeOf DEF KeyHome, resolveMasterKeyPath
  <2>10. \A q \in Procs, h \in Homes : Creating(q, h)' => Creating(q, h) /\ q # p
    BY <2>3, <2>4, <2>7, <2>9 DEF Creating
  <2>11. raced \/ ~IsKey(disk.key[H])
    BY <1>1, <1>2 DEF RowOK, KeyOK
  <2>12. ASSUME ~raced, NEW q \in Procs
         PROVE  KeyOK(q)'
    <3>1. RowOK(q)
      BY DEF RuntimeInv
    <3>2. proc[q].key \in {NoKey, EnvKey} \/ (proc[q].key = disk'.key[VaultHome] /\ IsKey(proc[q].key))
      BY <1>2, <2>2, <2>11, <2>12, <3>1 DEF RowOK, KeyOK
    <3>3. \A h \in Homes : Creating(q, h)' => h # H /\ ~IsKey(disk.key[h])
      BY <1>2, <2>10, <2>12, <3>1 DEF RuntimeInv, OneCreator, RowOK, KeyOK
    <3>4. \A h \in Homes : Creating(q, h)' => ~IsKey(disk'.key[h])
      BY <2>2, <3>3
    <3>5. proc'[q].kp = "chmod" => proc'[q].drawn = disk'.key[KeyHome(q)']
      <4>1. CASE q = p
        BY <2>2, <2>3, <2>4, <2>9, <4>1
      <4>2. CASE q # p /\ proc'[q].kp = "chmod"
        <5>1. proc[q].kp = "chmod" /\ proc[q].drawn = disk.key[KeyHome(q)] /\ IsKey(proc[q].drawn)
          BY <2>7, <2>12, <3>1, <4>2 DEF RowOK, KeyOK, ProviderOK
        <5>2. KeyHome(q) # H /\ KeyHome(q) \in Homes
          BY <2>11, <2>12, <5>1, HomeOf DEF Homes
        <5> QED
          BY <2>2, <2>7, <2>9, <4>2, <5>1, <5>2
      <4> QED
        BY <4>1, <4>2
    <3>6. proc'[q].key = proc[q].key
      BY <2>3, <2>4, <2>7
    <3> QED
      BY <2>5, <3>2, <3>4, <3>5, <3>6 DEF KeyOK
  <2>13. \A q \in Procs : KeyOK(q)'
    BY <1>1, <2>12 DEF KeyOK
  <2>14. ProviderOK(p)' /\ MigrationsOK(p)'
    BY <1>1, <2>2, <2>3, <2>4 DEF RowOK, ProviderOK, MigrationsOK
  <2>15. DoctorOK(p)'
    <3>1. KeyGood => KeyGood'
      BY <1>1, <1>2, <2>2 DEF KeyGood, Homes, IsKey
    <3>2. \A v : Good(v) => Good(v)'
      BY <1>1, <2>2, <3>1 DEF Good, DirsGood, HistoryGood, ConfigValid
    <3>3. P.failed = "no" /\ P.at # "off" /\ P.at \in BootStages
      BY <1>1 DEF RowOK, DoctorOK, BootStages
    <3>4. P.quiet => Good(P.ver)
      BY <1>1, <3>3, BootPromised DEF RowOK, DoctorOK
    <3>5. \A at \in BootStages : \A v : Good(v)' => Promised(at, v)'
      BY DEF Promised, BootStages, AfterDirs, AfterSubs, AfterSqlite, AfterConfig, AfterKey
    <3> QED
      BY <1>1, <2>3, <2>4, <3>2, <3>3, <3>4, <3>5 DEF DoctorOK
  <2>16. StoredOK'
    BY <1>1, <1>2, <2>2, <2>5, <2>11 DEF RuntimeInv, StoredOK
  <2>17. OneCreator'
    BY <1>1, <2>10 DEF RuntimeInv, OneCreator
  <2>18. \A q \in Procs : RowOK(q)'
    BY <2>7, <2>13, <2>14, <2>15 DEF RowOK
  <2> QED
    BY <1>1, <2>2, <2>6, <2>8, <2>16, <2>17, <2>18 DEF RuntimeInv, RuntimeTypes
<1> QED
  BY <1>3, <1>4

\* One migration in one transaction: a process may have run it first, and then doctor's word is
\* gone for this one.
LEMMA MigrateKeeps ==
    ASSUME RuntimeInv, NEW p \in Procs, Migrate(p)
    PROVE  RuntimeInv'
<1> DEFINE P == proc[p]
           v == P.seen + 1
           r == [P EXCEPT !.seen = v]
<1>1. /\ P \in ProcRow /\ RowOK(p) /\ disk \in DiskRow /\ P.at = "up" /\ P.seen < P.ver
      /\ env' = env /\ raced' = raced /\ P.seen \in Nat /\ P.ver \in 1..MaxVersion
      /\ disk.schema \in Nat /\ disk.applied = disk.schema
  BY DEF RuntimeInv, RuntimeTypes, Migrate, At, ProcRow, DiskRow
<1>2. P.kp = "idle" /\ v \in 0..MaxVersion /\ v \in Nat /\ v <= P.ver
  BY <1>1, RuntimeAssumption DEF RowOK, ProviderOK
<1>3. P.quiet => Good(P.ver) /\ P.seen = disk.schema
  BY <1>1, BootPromised DEF RowOK, DoctorOK, BootStages
<1>4. CASE ~(disk.writable /\ disk.schema < v)
  <2>1. ~P.quiet
    BY <1>1, <1>2, <1>3, <1>4 DEF Good, DirsGood
  <2> QED
    BY <1>1, <1>4, <2>1, FailStep DEF Migrate
<1>5. CASE disk.writable /\ disk.schema < v
  <2>1. /\ disk' = [disk EXCEPT !.schema = v, !.applied = v]
        /\ proc' = Disturbed([proc EXCEPT ![p].seen = v], p)
    BY <1>5 DEF Migrate, Migrated
  <2>2. /\ disk' \in DiskRow /\ disk'.dirs = disk.dirs /\ disk'.writable = disk.writable
        /\ disk'.config = disk.config /\ disk'.applied = v /\ disk'.schema = v
        /\ disk'.stored = disk.stored /\ disk'.key = disk.key /\ disk'.open = disk.open
    BY <1>1, <1>2, <2>1 DEF DiskRow
  <2>3. /\ r \in ProcRow /\ r.at = "up" /\ r.kp = "idle" /\ r.ver = P.ver /\ r.seen = v
        /\ r.quiet = P.quiet /\ r.failed = P.failed /\ r.req = P.req
        /\ r.key = P.key
    BY <1>1, <1>2 DEF ProcRow
  <2>4. /\ proc'[p] = r
        /\ \A q \in Procs : q # p => proc'[q] = [proc[q] EXCEPT !.quiet = FALSE]
        /\ proc' = [q \in Procs |-> proc'[q]]
    BY <2>1 DEF Disturbed, RuntimeInv, RuntimeTypes
  <2> HIDE DEF r
  <2>5. VaultHome' = VaultHome
    BY <1>1, <2>2 DEF VaultHome, resolveMasterKeyPath, dataDir
  <2>6. disk'.schema \in Nat /\ disk.schema <= disk'.schema
    BY <1>1, <1>2, <1>5, <2>2
  <2>7. \A q \in Procs : q # p =>
          /\ proc'[q] \in ProcRow /\ ProviderOK(q)' /\ MigrationsOK(q)' /\ DoctorOK(q)'
          /\ proc'[q].at = proc[q].at /\ proc'[q].kp = proc[q].kp /\ proc'[q].key = proc[q].key
          /\ proc'[q].drawn = proc[q].drawn
    BY <1>1, <2>4, <2>6, DisturbedRow
  <2>8. proc' \in [Procs -> ProcRow]
    BY <2>3, <2>4, <2>7
  <2>9. \A q \in Procs :
          /\ proc'[q].at = proc[q].at /\ proc'[q].kp = proc[q].kp /\ proc'[q].key = proc[q].key
          /\ proc'[q].kp = "chmod" => proc'[q].drawn = proc[q].drawn
          /\ KeyHome(q)' = KeyHome(q) /\ \A h : Creating(q, h)' = Creating(q, h)
    <3> TAKE q \in Procs
    <3>1. /\ proc'[q].at = proc[q].at /\ proc'[q].kp = proc[q].kp /\ proc'[q].key = proc[q].key
          /\ proc'[q].kp = "chmod" => proc'[q].drawn = proc[q].drawn
      BY <1>1, <1>2, <2>3, <2>4, <2>7
    <3> QED
      BY <2>5, <3>1, SameHome
  <2>10. \A q \in Procs : KeyOK(q)'
    <3> TAKE q \in Procs
    <3>1. RowOK(q)
      BY DEF RuntimeInv
    <3> QED
      BY <1>1, <2>2, <2>5, <2>9, <3>1 DEF RowOK, KeyOK
  <2>11. ProviderOK(p)' /\ MigrationsOK(p)'
    BY <1>1, <1>2, <2>2, <2>3, <2>4 DEF RowOK, ProviderOK, MigrationsOK
  <2>12. P.quiet => (DirsGood /\ ConfigValid /\ KeyGood)'
    BY <1>1, <1>3, <2>2 DEF Good, DirsGood, ConfigValid, KeyGood
  <2>13. DoctorOK(p)'
    <3>1. proc'[p].failed = "no"
      BY <1>1, <2>3, <2>4 DEF RowOK, DoctorOK
    <3>2. \A u : u = P.ver => HistoryGood(u)'
      BY <1>2, <2>2 DEF HistoryGood
    <3>3. \A u : u = P.ver /\ P.quiet => Good(u)'
      BY <2>12, <3>2 DEF Good
    <3>4. \A u : Good(u)' => Promised("up", u)'
      BY DEF Promised, BootStages, AfterDirs, AfterSubs, AfterSqlite, AfterConfig, AfterKey
    <3> QED
      BY <2>2, <2>3, <2>4, <3>1, <3>3, <3>4 DEF DoctorOK
  <2>14. \A q \in Procs : RowOK(q)'
    BY <2>7, <2>10, <2>11, <2>13 DEF RowOK
  <2>15. StoredOK' /\ OneCreator'
    BY <1>1, <2>2, <2>5, <2>9 DEF RuntimeInv, StoredOK, OneCreator
  <2> QED
    BY <1>1, <2>2, <2>8, <2>14, <2>15 DEF RuntimeInv, RuntimeTypes
<1> QED
  BY <1>4, <1>5

\* The operator changes a file by hand: no key is lost, and doctor's word is gone for everyone.
LEMMA EditKeeps ==
    ASSUME RuntimeInv, Edit
    PROVE  RuntimeInv'
<1>1. env' = env /\ raced' = raced /\ disk \in DiskRow
  BY DEF Edit, RuntimeInv, RuntimeTypes
<1>2. /\ \A q \in Procs : proc'[q] = [proc[q] EXCEPT !.quiet = FALSE]
      /\ proc' = [q \in Procs |-> proc'[q]]
  BY RuntimeAssumption DEF Edit, Disturbed
<1>3. /\ disk' \in DiskRow /\ disk'.stored = disk.stored
      /\ disk'.schema = disk.schema /\ disk'.applied = disk.applied
      /\ disk'.config = "moved" <=> disk.config = "moved"
      /\ \A h \in Homes : disk'.key[h] = disk.key[h] \/ (disk'.key[h] = Short /\ disk.key[h] = NoKey)
  <2>1. CASE disk.config = "good" /\ disk' = [disk EXCEPT !.config = "bad"]
    BY <1>1, <2>1 DEF DiskRow
  <2>2. CASE disk.config = "bad" /\ disk' = [disk EXCEPT !.config = "good"]
    BY <1>1, <2>2 DEF DiskRow
  <2>3. CASE disk' = [disk EXCEPT !.writable = ~disk.writable]
    BY <1>1, <2>3 DEF DiskRow
  <2>4. CASE disk' = [disk EXCEPT !.open = ~disk.open]
    BY <1>1, <2>4 DEF DiskRow
  <2>5. CASE disk.key["root"] = NoKey /\ disk' = [disk EXCEPT !.key["root"] = Short]
    BY <1>1, <2>5 DEF DiskRow, Homes
  <2>6. CASE disk' = [disk EXCEPT !.temp = ~disk.temp]
    BY <1>1, <2>6 DEF DiskRow
  <2>7. CASE disk' = [disk EXCEPT !.writable = FALSE, !.temp = FALSE]
    BY <1>1, <2>7 DEF DiskRow
  <2>8. CASE disk' = [disk EXCEPT !.readable = ~disk.readable]
    BY <1>1, <2>8 DEF DiskRow
  <2> QED
    BY <2>1, <2>2, <2>3, <2>4, <2>5, <2>6, <2>7, <2>8 DEF Edit
<1>4. VaultHome' = VaultHome /\ VaultHome \in Homes
  BY <1>1, <1>3, HomeOf DEF VaultHome, resolveMasterKeyPath, dataDir
<1>5. disk.schema \in Nat /\ disk'.schema \in Nat /\ disk.schema <= disk'.schema
  BY <1>1, <1>3 DEF DiskRow
<1>6. \A q \in Procs :
        /\ proc'[q] \in ProcRow /\ ProviderOK(q)' /\ MigrationsOK(q)' /\ DoctorOK(q)'
        /\ proc'[q].at = proc[q].at /\ proc'[q].kp = proc[q].kp /\ proc'[q].key = proc[q].key
        /\ proc'[q].drawn = proc[q].drawn
  BY <1>1, <1>2, <1>5, DisturbedRow
<1>7. \A q \in Procs : KeyHome(q)' = KeyHome(q) /\ \A h : Creating(q, h)' = Creating(q, h)
  BY <1>4, <1>6, SameHome
<1>8. \A h \in Homes : /\ IsKey(disk.key[h]) => disk'.key[h] = disk.key[h]
                       /\ IsKey(disk'.key[h]) => IsKey(disk.key[h])
  BY <1>3 DEF IsKey
<1>9. \A q \in Procs : RowOK(q)'
  <2> TAKE q \in Procs
  <2>1. RowOK(q) /\ KeyHome(q) \in Homes
    BY HomeOf DEF RuntimeInv, Homes
  <2>2. proc'[q].kp = "chmod" /\ ~raced => IsKey(disk.key[KeyHome(q)])
    BY <1>6, <2>1 DEF RowOK, KeyOK, ProviderOK
  <2>3. KeyOK(q)'
    BY <1>1, <1>4, <1>6, <1>7, <1>8, <2>1, <2>2 DEF RowOK, KeyOK
  <2> QED
    BY <1>6, <2>3 DEF RowOK
<1>10. StoredOK'
  BY <1>1, <1>3, <1>4, <1>8 DEF RuntimeInv, StoredOK
<1>11. OneCreator'
  BY <1>1, <1>7 DEF RuntimeInv, OneCreator
<1>12. proc' \in [Procs -> ProcRow]
  BY <1>2, <1>6
<1> QED
  BY <1>1, <1>3, <1>9, <1>10, <1>11, <1>12 DEF RuntimeInv, RuntimeTypes

-----------------------------------------------------------------------------
(* The theorems *)

\* An empty directory, or one an earlier release has served from, is in order.
LEMMA InitIsSound == Init => RuntimeInv
<1> SUFFICES ASSUME Init PROVE RuntimeInv
  OBVIOUS
<1>1. PICK used \in BOOLEAN, config \in {"good", "moved"} :
        disk = [dirs |-> IF used THEN "all" ELSE "none", writable |-> TRUE, temp |-> TRUE,
                config |-> config, open |-> FALSE, readable |-> TRUE,
                key |-> [h \in Homes |-> IF used /\ h = "root" THEN 1 ELSE NoKey],
                schema |-> IF used THEN 1 ELSE 0, applied |-> IF used THEN 1 ELSE 0,
                stored |-> {}]
  BY DEF Init
<1>2. disk \in DiskRow /\ disk.applied = disk.schema /\ disk.stored = {}
  BY <1>1 DEF DiskRow, NoKey
<1>3. \A p \in Procs : proc[p] = Off
  BY DEF Init
<1>4. RuntimeTypes
  BY <1>2, OffRow DEF Init, RuntimeTypes
<1>5. \A p \in Procs : RowOK(p) /\ \A h \in Homes : ~Creating(p, h)
  BY <1>3, OffRow DEF RowOK, ProviderOK, KeyOK, MigrationsOK, DoctorOK, Creating
<1> QED
  BY <1>2, <1>4, <1>5 DEF RuntimeInv, StoredOK, OneCreator

\* Every step of any process, and of the operator, keeps the invariant.
LEMMA StepKeeps == RuntimeInv /\ [Next]_vars => RuntimeInv'
<1> SUFFICES ASSUME RuntimeInv, [Next]_vars PROVE RuntimeInv'
  OBVIOUS
<1>1. CASE UNCHANGED vars
  <2>1. \A q \in Procs : RowOK(q)'
    BY <1>1, SameRow DEF vars, RuntimeInv
  <2>2. StoredOK' /\ OneCreator'
    BY <1>1, SameHome, SameGood DEF vars, RuntimeInv, StoredOK, OneCreator
  <2> QED
    BY <1>1, <2>1, <2>2 DEF vars, RuntimeInv, RuntimeTypes
<1>2. CASE Edit
  BY <1>2, EditKeeps
<1>3. ASSUME NEW p \in Procs, NEW cmd \in Commands, NEW v \in 1..MaxVersion,
             Start(p, cmd, v)
      PROVE  RuntimeInv'
  BY <1>3, StartKeeps
<1>4. ASSUME NEW p \in Procs, Boot(p)
      PROVE  RuntimeInv'
  BY <1>4, BootStagesKeep, DirectoryKeeps, MigrateKeeps DEF Boot
<1>5. ASSUME NEW p \in Procs, LoadKey(p)
      PROVE  RuntimeInv'
  BY <1>5, StatKeyKeeps, ReadKeyKeeps, WriteKeyKeeps, RenameKeyKeeps, ChmodKeyKeeps DEF LoadKey
<1>6. ASSUME NEW p \in Procs, Doctor(p)
      PROVE  RuntimeInv'
  BY <1>6, ChecksKeep
<1>7. ASSUME NEW p \in Procs, NEW r \in Requests, Begin(p, r)
      PROVE  RuntimeInv'
  BY <1>7, RequestsKeep
<1>8. ASSUME NEW p \in Procs, Answer(p)
      PROVE  RuntimeInv'
  BY <1>8, RequestsKeep, SaveCredentialKeeps DEF Answer
<1>9. ASSUME NEW p \in Procs, stopServer(p) \/ Close(p) \/ Disconnect(p) \/ Killed(p)
      PROVE  RuntimeInv'
  BY <1>9, BootStagesKeep, CloseKeeps, EndsKeep DEF Close
<1> QED
  BY <1>1, <1>2, <1>3, <1>4, <1>5, <1>6, <1>7, <1>8, <1>9 DEF Next

\* The inductive invariant, for every number of processes, releases, starts and edits.
THEOREM RuntimeInvariant == Spec => []RuntimeInv
<1>1. Init => RuntimeInv
  BY InitIsSound
<1>2. RuntimeInv /\ [Next]_vars => RuntimeInv'
  BY StepKeeps
<1> QED
  BY <1>1, <1>2, PTL DEF Spec

\* What a start leaves in the data directory serves the next one: no crash, failed write or
\* second process loses the key of a stored credential (unless two processes created the key at
\* once), the migration history is true, and a boot that doctor promised is not stopped by its
\* configuration or its migrations, at the directory only by a temp it cannot write, and at the
\* key only by a file that is short or cannot be read: the three things doctor does not look at.
THEOREM StoreStaysKept == Spec => []StoreIsKept
<1>1. ASSUME RuntimeInv
      PROVE  StoreIsKept
  <2>1. KeysAreKept
    BY <1>1 DEF RuntimeInv, StoredOK, KeysAreKept
  <2>2. HistoryIsTrue
    <3>1. disk.schema \in Nat
      BY <1>1 DEF RuntimeInv, RuntimeTypes, DiskRow
    <3>2. ASSUME NEW p \in Procs, At(p, "serving")
          PROVE  disk.schema >= proc[p].ver
      <4>1. RowOK(p) /\ proc[p] \in ProcRow
        BY <1>1 DEF RuntimeInv, RuntimeTypes
      <4>2. proc[p].ver \in 1..MaxVersion /\ proc[p].ver <= disk.schema
        BY <3>2, <4>1 DEF RowOK, MigrationsOK, At, ProcRow
      <4> QED
        BY <3>1, <4>2
    <3> QED
      BY <1>1, <3>2 DEF RuntimeInv, HistoryIsTrue
  <2>3. HealthyBoots
    BY <1>1 DEF RuntimeInv, RowOK, DoctorOK, HealthyBoots
  <2> QED
    BY <2>1, <2>2, <2>3 DEF StoreIsKept
<1> QED
  BY <1>1, RuntimeInvariant, PTL
=============================================================================
