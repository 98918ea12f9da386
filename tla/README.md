# A TLA+ development of MyAdmin

MyAdmin is a database administration program: a Bun/Elysia server
(`apps/server`), a CLI that starts it (`apps/cli`), an Angular client
(`apps/web`) and the packages they share (`packages/*`). Server and client each
run on one JavaScript event loop. A synchronous stretch of code is atomic, and
what can go wrong between two calls goes wrong at an `await`, in a timer, in a
callback, or because two answers overtake each other. That is the level of these
models: one action per stretch of code between two awaits, with everything else
free to run in between.

Paths are relative to the repository's `src/` where `PROJECT.json` says so and
shortened here. The acceptance criteria quoted as AC-n are those of
`docs/specs/<nnnn>-*/index.md`.

* [1 Inventory](#1-inventory)
* [2 Modules](#2-modules) — what models what
* [3 Runs](#3-runs) — instances, bounds, fairness, what they show
* [4 Proofs](#4-proofs) — what holds for every value of the constants
* [5 Where code and documents disagree](#5-where-code-and-documents-disagree)
* [6 Hazards and what covers them](#6-hazards-and-what-covers-them)
* [7 Not modelled, not proved, next](#7-not-modelled-not-proved-next)

## 1. Inventory

| Component | State it keeps | Operations | Correct when |
|---|---|---|---|
| Job manager (`packages/jobs`) | entries, FIFO queue, `runningCount`, idle waiters, one progress timer per job | submit, cancel, execute, reportProgress, whenIdle, cleanup, dispose | no worker is lost or used twice, jobs start in order, a reported end is true, waiters are woken, progress is not lost |
| Connection lifecycle (`apps/server/src/connections`) | per (user, connection): status, token, provider session, last activity | connect, reconnect, disconnect, status, testConnection, withConnectedProvider, idle sweep, delete, closeForUser, dispose | the registry is the truth about provider sessions; what was ended stays ended |
| Connection profiles (same files, the vault) | rows, encrypted passwords, groups | create, update, duplicate, delete, move | a row is one the server would accept, and a password is its owner's |
| Database providers (`packages/database-*`) | pools, reserved sessions, transactions | open, execute, withTransaction, cancel, close, error mapping | no client is forgotten, a cancel gets a connection and ends its statement or says that it could not, errors are reported as what they are |
| Query execution (`apps/server/src/query`) | executions, tab sessions, opens in flight, tab tails | start, cancel, explain, autocomplete, closeSession, sweep, dispose | one run per tab, reports are true, sessions are found again and closed |
| Query editor (`apps/web`, `sdk-angular`) | watches, polls, what the tab shows | run, watch, poll, cancel, explain | the tab learns of the end and never goes back on it |
| History, saved queries, settings | rows, a cache without expiry | add, list, save, clear, change setting | retention follows the stored setting |
| Realtime hub and client | sockets, subscriptions, timers, back-off | connect, subscribe, publish, heartbeat, session check, reconnect | one socket, subscriptions come back, an ended session is cut off |
| Authentication, sessions, users | users, sessions, rate-limit buckets | setup, login, validate, logout, password and role changes | an administrator stays, an ended session stays ended, attempts are limited |
| Backup, restore, export, upload files | partial, data and manifest files | upload, run, publish, download, delete, sweep, crash | a failure leaves nothing that is not whole, what is served is whole |
| Native tools | process, pipes, password file | prepare, spawn, pump, abort, clean up | completed means complete, the password file goes |
| Import | reader states, transaction, counters | upload, read, execute, cancel | chunks do not matter; all or nothing in one transaction, otherwise the report is true |
| Data browser and grid | handle and transaction; page, selection, dialogs | read pages, insert, update, delete | mutations are whole, rows shown are the rows asked for |
| Table designer and its page | the drawn table, previews | compile, preview, apply | the change set does what was drawn |
| Object management and its pages | shared handle, metadata cache; dialogs | create, drop, rename, truncate, alter, grant | only what a request names is lost, answers are true |
| Object explorer | tree, cursors, caches | expand, page, search, reveal, refresh | walks are complete, a spinner has a call |
| Workspace | tabs, layout, saved copy | load, save, sign in and out | a user's workspace stays that user's |
| Process lifecycle, keys, migrations | lock-free data directory, key file, migration history | serve, migrate, doctor, signals, crashes | keys of stored credentials are kept, the history is true, shutdown ends |
| Pages of connections, databases, schemas and users | the list shown, dialogs, marks of calls under way | load, create, change, delete, connect, confirm | one operation at a time, its answer finds the dialog it was asked from |
| Audit page, observability, SDK facades, remaining pages, tooling | — | — | not modelled (section 7) |

**How they interact.** `apps/server/src/composition/modules.ts` wires the server.
The end of an application session calls `closeForUser` of the connection
lifecycle and cuts off realtime sockets at their next check. Exports, imports,
backups and restores are executors of the job manager. The realtime hub publishes
events of jobs, queries and connections, and asks again who may see them.
`QueryExecutionService` opens provider sessions of its own, one per tab; all other
requests of a connection share the one handle the connection lifecycle keeps.
Shutdown disposes timers, then operations, then realtime, then providers.

## 2. Modules

| Module | Models | State ↔ code |
|---|---|---|
| `JobManager` | the job manager | `entries`, `queue`, `runningCount`, `disposed`, `waiting` as in the code; `task` is where `execute()` is (scheduled, working, finished, settled, released); `progress`/`emitted` are versions of a job's progress |
| `JobService` | what the manager promises: fixed workers, oldest first, at once; a cancelled job ends cancelled and holds its worker until its executor stops | abstract |
| `ConnectionLifecycle` | the session registry and every operation on it | `status`, `holder` (the token), `session`, `idle` per entry; `handle` per provider session; `req[r].pc` is where a call waits: `new` until `requireUser()` has looked at the session, `received` while its body is read |
| `ConnectionProfiles` | stored connections, groups and secrets, and the form that edits them | rows, credentials; a request keeps the row it computed before the vault answered |
| `Drivers` | both providers' adapters over the driver's pool | clients (who uses them, `begin()`s that wait for a connection and that have one), statements (on which backend), cancels (waiting, sent, rejected) |
| `QueryExecution` | executions, cancels, tab sessions, explain, autocomplete | `state`, `stmts`, `cancelCall`, `sessions`, `opening`; the tail is `IsTurn` |
| `QueryEditor` | a tab that follows executions by events and by polling | watches, polls in flight, shown state |
| `QueryLibrary` | history, saved queries, settings and the page's lists | tables, cache, list calls |
| `Realtime` | a browser tab and the hub, over a link of two queues that may be cut | `socket`, `timer`, `manual`; `ws[s]` both ends of each WebSocket |
| `AuthSessions`, `RateLimiter` | setup, login, sessions, password and role changes; windows and blocks | calls hold what they read before an await |
| `TransferFiles` | the files of uploads (of both stores), exports, backups, and the restores and imports that read them | `disk` is a set of files, `task` where each upload or job is, `artifacts` the map of exports, `condemned` what a sweep has decided to remove and not removed yet; a manifest is first a temporary file, opened and then filled |
| `NativeTools` | dump and restore processes with their pipes | chunks in file, pipe, tool and database |
| `Imports` | multipart, CSV and SQL readers chunk by chunk, and the executors | reader states, transaction (a statement of the file may end it: a schema change on MySQL, a `COMMIT`; `COMMIT` itself may fail), `sum` |
| `DataBrowser`, `DataGrid` | pages and mutations on the server; the grid and its page | handles, transactions; rows named by index |
| `TableDesigner`, `DesignerPage` | change sets compiled and executed; the page that draws them | columns, indexes, constraints |
| `ObjectManagement` | databases, schemas, tables, views, principals, grants over the shared handle | catalog, `transactionClient`, page cache; `strayed` marks a request that another one got in the way of |
| `Catalog`, `Explorer` | what the metadata adapters read; the tree | cursors, loads in flight, PostgreSQL's page cache (`cachedPages`; whether a kept page has expired when it is asked for is left open); `reveal` with its fallback `materializeSearchResult()` |
| `ViewPage`, `SecurityPage`, `RestorePage` | three pages with dialogs | what was asked, what is shown |
| `ConnectionsPage`, `DatabasePages`, `UsersPage` | the pages of connections with their statuses, of databases and schemas, and of users | what is listed, dialogs, `submitting` and its like; the calls under way |
| `Workspace` | tabs and layout, load and save across sign-ins | calls that overtake each other |
| `Runtime` | `serve`, `migrate` (with `--status`), the eight checks of `doctor`, the key in the environment or a file, the migration history | `disk` (the root, its `temp` and the key file may each be made unusable), `env`; `proc[p].at` the stage of each process, `proc[p].kp` where its key provider is |

`JobManagerProofs`, `ConnectionLifecycleProofs`, `QueryExecutionProofs`,
`AuthSessionsProofs`, `RealtimeProofs`, `TransferFilesProofs`, `RuntimeProofs` and
`CatalogProofs` hold the theorems (section 4). The `MC*` modules are the instances of
several components TLC checks; `JobManager`, `QueryExecution`, `QueryEditor`, `Runtime`
and `Realtime` are run as they are, with the `.cfg` of the same name. `PROJECT.json`
maps every definition that models code to its lines.

A definition whose comment says *mutant* is a plausible bug, not part of a
specification: for every property of a passing run `PROJECT.json` names one that
makes TLC find the property violated.

Choices that hold everywhere:

* **Awaits.** A handler is one action up to its next `await`. What it read before
  is kept in the caller's record and used after, as the code does.
* **Data.** Names, rows and payloads are model values or small numbers; text is
  modelled only where a reader looks at characters (`Imports`).
* **External.** Servers, drivers, disks and the network do what they may: answer
  late, fail, drop the connection. They are mapped as external.
* **`CASE`.** TLA+ leaves open which arm of a `CASE` is taken when several guards
  are true. Where the code tests in order (error mapping, `compileAlteration()`,
  the answer of a view page) the models use `IF … ELSE IF`. The proof of
  `AdaptersStayTrue` found the place in the error mapping where an earlier form
  said less than the code.

## 3. Runs

Several MC modules hold more than one component: a variable `part`, chosen
initially, says which one a behaviour runs, and the others have no state. Each
`part` is explored completely; nothing is a product of two components.

| Run | Components | Bounds | Time¹ |
|---|---|---|---|
| `jobs` | JobManager (and JobService) | 3 jobs, 2 workers, 2 progress reports of job 1, 1 idle waiter | 98 s |
| `connections` | ConnectionLifecycle; Drivers | 1 connection, 3 overlapping requests, audit writes may fail; 1 client, 2 statements, 2 cancels, both engines, their pools of 2 and 4 | 135 s |
| `queries` | QueryExecution | 2 calls of one tab, 2 databases, up to 2 statements | 56 s |
| `query_tab` | QueryEditor | 2 runs, 2 polls each, 1 event lost or late, 3 user acts | 54 s |
| `users` | AuthSessions and RateLimiter; ConnectionProfiles | 2 users, 3 calls, clock 0..3, calls begun and time passed together at most 5, limit 1 per window of 1; 2 connections, 2 requests, 3 acts | 135 s |
| `pages` | QueryEditor; QueryLibrary; TableDesigner; DesignerPage; DataBrowser; DataGrid | the tab as in `query_tab`; 2 users, limits 1 and 2; every table of 2 small columns (on MySQL some with properties the metadata leave out), change sets of up to 2 alterations; 3 columns, 4 acts; 2 keys, 2 mutations, pages turned beside one of them; 3 rows, pages of 2, 5 acts | 158 s |
| `catalog` | ObjectManagement; Explorer over Catalog; ViewPage; SecurityPage; RestorePage; ConnectionsPage; DatabasePages; UsersPage; Workspace | 2 requests of a menu of 10; 3 databases, pages of 2, two tables of different shapes, 3 acts from an empty tree or 2 from an open one with older pages in the cache; 3–6 acts, 2–3 calls and 1 failure per page; 2 users, 2 tabs, 2 calls, of two changes, a fault and a navigation at most three | 248 s |
| `files` | TransferFiles; NativeTools; Imports | 2 tasks, 2 users, 2 names, 1 crash; 3 chunks, both engines; every CSV of ≤ 3 characters and SQL texts with every token, a schema change and a `COMMIT`, in every chunking | 112 s |
| `runtime` | Runtime | 2 processes of releases with 1 or 2 migrations, 2 commands, 1 request, 1 edit by the operator, kills anywhere, four values of the key variables | 217 s |
| `realtime` | Realtime | 2 sockets, 2 channels, limits of 1, 2 sign-ins, 2 changes of subscription, 1 cut link | 82 s |
| `grid_selection` | DataGrid | as in `pages`; violation (finding 1) | |
| `objects_atomic` | ObjectManagement | 2 change sets on PostgreSQL; violation (finding 2) | |

¹ TLC with two workers and its coverage statistics, on a small machine.

What each passing run shows:

* `jobs`: `PoolIsSound` (slots counted once, queue complete and in order, legal
  transitions, no lost wake-up), `EndsAreTrue`, `ProgressIsTrue`; that the manager
  `ImplementsService` — `JobService` under a refinement mapping, with its
  liveness —; and `EveryWaiterServed`.
* `connections`: `RegistryIsTrue`, `EveryRequestEnds`, and `NothingRevives`: no attempt that
  had reserved before a logout or shutdown opens a session, and a deleted connection gets
  none. An attempt that reserves later does: a `connect()` whose body was still being read,
  a `reconnect()` that was closing its old session (`LogoutClosesSessions`, section 5).
  For the providers: `AdaptersAreTrue` (no client is forgotten; when a cancel finds no
  connection in its pool another cancel has it, never only what it is to end; errors keep
  the server's code) and `CancelEndsStatement` (or it is answered with an error). Nothing
  in the code bounds the overlapping transactions of the shared client: `begin()` waits in
  the driver when the pool is empty.
* `queries`: `RunsAreTrue`, `SessionsAreTrue`, `StepsAreSafe`, `EveryCallEnds`.
* `query_tab`: `TabNotStranded`.
* `users`: `AccountsAreSafe`, `AttemptsAreLimited`, `EndedStaysEnded`,
  `ProfilesAreSound`.
* `pages`: `DesignIsTrue`, `DesignIsReached`, `MutationsAreWhole`, `ShownIsAsked`,
  `EndedStaysShown`, `RetentionFollowsSetting`. The first says of a rewritten MySQL column
  that the aspects the application knows stay and that what it does not know (`ON UPDATE`,
  character set, collation) is lost of those columns only (`ModifyKeepsTheRest`, section 5).
* `catalog`: `AnswersAreTrue`, `OnlyNamedIsLost`, `ExplorerIsTrue`,
  `OneOperationAtATime` (on all six pages), `WorkspaceIsTrue`. `AnswersAreTrue` speaks of
  requests no other got in the way of on the shared handle: neither did one of their
  statements run in a foreign transaction nor did a foreign one abort theirs
  (`AppliedIsInEffect`, section 5). `ExplorerIsTrue` speaks of walks over a catalog that
  stood still since the pages were read, kept pages included. `OneOperationAtATime` says
  that an operation and its buttons agree, and of what is sent only this: a restore's source
  was accepted, a password goes where it was typed for, what is dropped was typed.
  `WorkspaceIsTrue` says that the
  copy the service believes saved is the stored one, but for workspaces whose saves
  overlapped, whose call was lost or whose save outlived its user: of what
  it believes then nothing is promised.
* `files`: `FilesAreTrue`, `ToolsAreTrue`, `ImportIsTrue`, `ExpiredGoesAway`,
  `HeardCancelEnds`. A failed upload or export leaves no file; a failed or cancelled backup
  no part of a dump, but what it had renamed (`FailedBackupLeavesNothing`, section 5). An
  import in one transaction is all or nothing where the transaction lasts: without
  `TRUNCATE` on MySQL, and without a statement in the file that ends it
  (`SingleIsRolledBack`, section 5).
* `runtime`: `StoreIsKept`, `ShutdownEnds` (or what is still connected holds the
  process: no step of the shutdown closes WebSockets or sessions of databases). Of a
  directory `doctor` finds healthy it says that a boot is not stopped by the configuration
  or the migrations, at the directory only by a `temp` that cannot be written, and at the
  key only by a file that is short or cannot be read (`HealthyAlwaysBoots`, section 5).
* `realtime`: `OneSocket`, `Resubscribed`, `EndedIsCutOff`.

**Why the bounds suffice.** Each is the least at which the hazard can happen. Three
jobs on two workers fill the pool and leave one queued. Three requests are a
session, an attempt that replaces it and a call that overlaps both. Two statements and two
cancels on a pool of two or four are every way a cancel competes for a connection. Two calls of a
tab are every pairwise interference on it; tabs share nothing but `dispose()`.
Three calls are a login, a change of its password and an administrator's act. A
window of one and a limit of one make every boundary of the limiter come within
the clock's range. One crash may hit every step of two tasks, between any two removals too,
and everything goes on after it. A token of two
characters is cut in every place by the chunkings. For the properties with a
theorem the bounds matter no more: it holds for every value of the constants.

**Symmetry** is used in `users`, `pages` and `catalog`, which check no liveness;
the permuted values occur in no constant but their own set.

**Deadlock** is not checked (`CHECK_DEADLOCK FALSE`): bounded numbers of calls
are used up and the systems rest.

**Fairness.** Weak fairness of what the event loop owes: microtasks, timers that
are armed, answers the code has a time limit for or that a driver reports when a
socket is lost. Nobody is obliged to submit, cancel, click or sign in. An
executor or a statement ends only where `EveryWaiterServed` and `EveryCallEnds`
need it to: the code has no time limit there, and says nothing of what never ends.
`QueryEditor` assumes one strong fairness: a poll that is repeated for ever is
answered some day with the end it asks about (single polls may fail). The
heartbeat and session check of the hub are timers, and tools that were killed end.

## 4. Proofs

All theorems hold for every value of the constants that satisfies the named
assumptions of the modules (`JobManagerAssumption`, …): numbers are numbers, limits
that the code requires positive are positive, and "nobody" is no member of the set it
stands beside. Those of the instances: `ChunksAssumption` (`MCFiles`: a dump has a
number of chunks), `IdsAssumption` (`MCUsers`: owners are none of the words that stand
for no owner, and an id names a connection or a group), `NamesAssumption` (`MCCatalog`:
"none" is no saved connection), `MenuAssumption` (`ObjectManagement`: "none" is no
request, and a change set is a list) and `PartsAssumption` (`MCPages`: ids and keys are
numbers, limits and page sizes positive, a table has finitely many rows, `Absent` is no
value). The bounds (`MaxCalls`, `MaxStarts`, …) are constants too, so a theorem speaks
of behaviours of any length and number of actors. Every inductive invariant was
checked by TLC on a small instance as well.

Where an instance runs several components by `part`, its theorem is put together from
one of each: a step of the instance is a step of the part that runs (`PartSteps`,
`PageSteps`), and the other parts have no state.

| Theorem | States | Property of a run |
|---|---|---|
| `JobManagerProofs` `JobInvariant`, `SlotsAreAccounted`, `NoJobWaitsForNothing`, `QueueIsComplete`, `WakeupsAreNotLost`, `PoolStaysSound`, `EndsStayTrue`, `ProgressStaysTrue` | invariants of the manager | `PoolIsSound`, `EndsAreTrue`, `ProgressIsTrue` |
| … `TransitionsAreLegal`, `JobsStartInOrder` | action properties | parts of `ImplementsService` |
| … `ServiceIsImplemented` | every initial state is one of the abstract service, every step a step of it or none | safety of `ImplementsService` |
| `ConnectionLifecycleProofs` `RegistryStaysTrue`, `NothingIsRevived` | invariants of the registry | `RegistryIsTrue`, `NothingRevives` |
| … `AdaptersStayTrue` | no client is forgotten, a cancel waits for no statement, reports are true | `AdaptersAreTrue` |
| `QueryExecutionProofs` `RunsStayTrue`, `SessionsStayTrue`, `StepsStaySafe` | two invariants and an action property | `RunsAreTrue`, `SessionsAreTrue`, `StepsAreSafe` |
| … `MutationsStayWhole`, `ShownStaysAsked` | invariants of the data browser and of its grid | `MutationsAreWhole`, `ShownIsAsked` |
| … `EndStaysEnded`, `RetentionStaysSet` | action properties of the query tab and of the history | `EndedStaysShown`, `RetentionFollowsSetting` |
| `AuthSessionsProofs` `AccountsStaySafe`, `AttemptsStayLimited`, `SessionsStayEnded` | two invariants and an action property | `AccountsAreSafe`, `AttemptsAreLimited`, `EndedStaysEnded` |
| … `ProfilesStaySound` | an invariant of connection profiles | `ProfilesAreSound` |
| `RuntimeProofs` `StoreStaysKept` | an invariant | `StoreIsKept` |
| `RealtimeProofs` `OneSocketAtATime` | an invariant | `OneSocket` |
| `TransferFilesProofs` `FilesStayTrue`, `ToolsStayTrue` | invariants of the files and of the native tools | `FilesAreTrue`, `ToolsAreTrue` |
| `CatalogProofs` `OneOperationStays` | an invariant of the six pages | `OneOperationAtATime` |
| … `AnswersStayTrue` | an invariant of object management and the explorer's cache | `AnswersAreTrue` |
| … `OwnWorkspaceStays` | what is stored for a user was made by that user | the part `OwnWorkspace` of `WorkspaceIsTrue` |

**The inductive invariants, and why they are needed.**

* `JobInv`: the state of a job matches where its task is, jobs were submitted in
  order, and the queue waits only for a worker. Only then does `pump()`, written
  without recursion (how many ids it shifts, which of them are started), keep
  `runningCount` equal to the executions in flight.
* `ServiceIsImplemented`: the service's state is a job's state, the jobs that hold
  a worker and `disposed`. Each action is one step of the service or a stutter;
  `pump()` serves exactly the oldest waiting jobs because the queue is the waiting
  jobs in order.
* `ConnectionInv`: `RequestOK` says what each phase of a request implies for its
  handle and the entry it reserved; `EntryOK` and `LiveOK` what an entry says of
  the request that holds it. `DropEffect` is the lemma about `markDisconnected()`
  that disconnect, delete, logout, sweep and dispose share.
* `DriverInv`: who uses a client says what it asks of the pool (`PoolFits`): a client of an
  import has one transaction, one of a query tab none, and only these two are cancelled
  (`CancelsFit`). A pool that has no connection for a cancel is then held by another cancel,
  because the target and an import's transaction leave one over (`RoomForCancels`).
* `QueryInv`: what a phase of `run()` says of the reported state, of each statement
  and of earlier runs of the tab (`RunsOK`); what `sessionFor()` knows after each of
  its awaits (`SessionsOK`).
* `AuthInv`: what a call still knows of the store after an await (`CallOK`), what a
  session is (`SessionOK`), and, for the limiter, attempts told apart by the fixed
  window they fall in (`KeyOK`): at most `Limit` per window, hence at most twice
  that in any stretch of one window's length.
* `RuntimeInv`: which key each stage of a process has read or may create, that the
  key just put in place is still there when its mode is set, at most one creator
  unless two first starts raced, how far the migrations a process read go, and what
  `doctor` has looked at so far (`RowOK`, `Promised`). Of a boot that was stopped all the
  same it keeps which of the things `doctor` does not look at did it.
* `RealtimeInv`: `OneSocket` with the fields of every WebSocket. No step of the
  server or the network makes an end the tab let go of look open again.
* `TransferInv`: in which phase of its task a file of each part may still be there
  (`FileOK` with `PhasesWith`), that an export with an entry has its file and has the
  entry for as long as it is promised (`ExportOK`), and that there is a whole dump
  under the name of a backup from its rename on, also beside the manifest it leaves when it
  fails (`BackupOK`). `MoveStep` covers
  every action of one task, `RemoveStep` the clean-ups and time, `CrashKeeps` a
  crash between any two removals.
* `ToolInv`: what the phase of a job says of its tool. A dump's file holds what the tool
  wrote, all of it once the stream ended (`DumpFits`); a restore's tool made everything
  sent the content of the database if it succeeded (`RestoreFits`); the directory with
  the password is there only between its creation and the end of the command
  (`TempFits`).
* `ProfileInv`: besides the tables themselves, what a request knows while it waits for
  the vault (`WaitFits`): the row it will write would be accepted, its envelope is
  sealed for the row's owner, and no two requests create the same id. The tables alone
  are not inductive: the write comes after the await.
* `CatalogInv`: one formula for each page, all of one kind. At most one call under way
  ends an operation, the mark of that operation is set exactly while there is one, and
  the dialog it was sent from is still open; an answer that leads to another call hands
  its end on. That a dialog waits for the answer is what a page must ensure itself,
  and where pages do it differently (section 5) the formula says so.
* `ObjectInv`: where the statements of a request are while it runs: in its own
  transaction if it has one, in effect if not, and nowhere else, unless one of them met
  a foreign transaction on the shared handle, or a foreign one aborted theirs, which then is
  committed without effect (`strayed`, finding 2). Of the page that is
  being loaded: it shows every change that was answered before its load began (`ListOK`),
  and those kept show them too (`CacheOK`), because an answer drops the cache.
* `OwnInv`: a call made in a session carries its user, the session in force is that of
  the user on the screen, and a sign-in's session is newer than any call's.
* `EditorInv`, `LibraryInv`: whatever tells a state to the tab (an event, an answer, the
  tab itself) names an execution; the settings cache holds what is stored or nothing,
  and the entries' ids are in the order of their adding.
* `MutationsInv`: the transaction of a mutation has written exactly the rows of its
  first keys, so its commit changes all rows it names. `PagesInv`: the rows read so far
  begin an order of the matching rows by their keys. There is only one such order
  (`OneOrder`, by the least index at which two differ), so the next page, which is
  read in an order chosen anew, goes on where the last one ended; and an order has every
  matching row (`OrderIsComplete`: it is injective into a set of its own size).
* `GridInv`: every read under way asks for the view in force, because a read gives up
  those before it; `ShownIsAsked` alone says nothing of what is still to be answered.

**What the proofs changed in the models.** `AuthSessions`: `blockedUntil` grows by a
power of two whose exponent the provers cannot reason about, so its type is left to
TLC and the invariant does without it. `TransferFiles`: removing the files of a task
is one step that a crash may interrupt between any two of them. `QueryEditor`,
`QueryLibrary`: what their action properties say of a step has a name (`EndStays`,
`NewestStay`), so that an instance can say it of one part. `Runtime`: `Nobody` is assumed outside
`Procs`, and the keys a creation draws from are named (`NewKeys`). `Realtime`:
nested `EXCEPT`s were written out. `Drivers`: the ordered error mapping
(section 2). None of them changed what a run shows.

**What stays with TLC**, and why: liveness under fairness and everything with
`ENABLED` (`EveryWaiterServed`, the liveness of `ImplementsService`, `EveryRequestEnds`,
`CancelEndsStatement`, `EveryCallEnds`, `TabNotStranded`, `ExpiredGoesAway`,
`HeardCancelEnds`, `ShutdownEnds`, `Resubscribed`, `EndedIsCutOff`); what folds
over sequences compute for every input (`DesignIsTrue`, `DesignIsReached`,
`ImportIsTrue`, `ExplorerIsTrue`, `OnlyNamedIsLost`), which needs induction over data;
and of `WorkspaceIsTrue` that the active tab is open (`closeTab` and its like are
folds over the tabs) and that what the service believes saved is stored (sanitising a
snapshot twice is sanitising it once: `SelectSeq`, again an induction).

## 5. Where code and documents disagree

With a run:

1. `grid_selection`: `selectedRows` of `result-grid.ts:106` holds row numbers and
   nothing clears it when other rows are loaded; the bulk delete then names rows
   nobody ticked (0038, AC-4). (`DeletesWhatWasTicked`)
2. `objects_atomic`: `withTransaction()` of `postgresql-connection.ts:264` saves and
   restores the handle's `transactionClient`, which is right only for nested calls;
   two overlapping change sets swap transactions and a failed one leaves statements
   behind (0046, AC-4). (`ChangeSetIsAtomic`)

Met while modelling, stated in the modules, without a run of their own. Add the
definition to the configuration of its component to see the counterexample:

| Definition | Where | Against |
|---|---|---|
| `DisconnectedOnlyConnects` | `connection-manager.ts:405`: a late ping marks whatever the entry holds by then | 0027 `index.md:74` |
| `LogoutClosesSessions` | `routes.ts:368-398`, `connection-manager.ts:860`: a `connect()` whose body is read after the logout opens a session, since neither the route nor `connect()` looks at the application session again; `:1011`: so does a `reconnect()` that waited for its old session to close | 0027:33 |
| the exception in `OnlyAuditLeaks` | `:950`: an audit write that throws after `complete()` drops an open session | 0027:96 |
| `RunEndsTerminal` | `query-execution.ts:849`: a cancel during the last statement leaves `cancelling` for ever | 0035:28 |
| `CancelIsTargeted` | `:525`: a cancel in flight hits the tab's next statement | 0035:29 |
| `RightDatabase` | `:880`: a run joins an open for another database | 0033:95 |
| `NoLeakedSession` | `:893`: two changes of database overwrite each other's session | 0033:32 |
| `CancelStops` | `postgresql-connection.ts:320`: the cancel of a statement in a transaction goes to another backend | its comment |
| stale login | `session.ts:198` → `254`: the snapshot of the user is used after the verification | 0018 `index.md:98` |
| 2 × limit | windows are fixed: twice the limit passes at a boundary (`AttemptsAreLimited` says exactly that) | 0017:30 |
| `ModifyKeepsTheRest` | `table-designer.ts:387` and `:808` of MySQL: a modified column is written again from the metadata, which leave out `ON UPDATE`, its character set and its collation | 0041:28 |
| `ConfirmedDrops` | `table-designer.ts:81` of the server: the change set is compiled again when it is applied, and may by then drop what another client added | 0041 `index.md:89` |
| `AppliedIsPreviewed` | the designer page: edits made while the preview is under way are applied with it | 0041:29 |
| `SingleIsRolledBack` | `import/src/index.ts:834-880`: on MySQL a schema change in the file commits the transaction, and a `COMMIT` in the file does on both engines; a later failure leaves what came before | 0048:28 and :31 |
| `CompletedIsReported` | `import/src/index.ts:1019`: rows counted as succeeded may be missing from the target of a completed import | 0048:32 |
| `FailedBackupLeavesNothing` | `backup-service.ts:177-193`, `:428-430`: a backup that fails or is cancelled after its rename keeps its data, its temporary manifest or, listed and served, both | 0049:101 |
| `CancelKillsTool` | `executor.ts:56`: the tool is started before the executor listens; a signal that is set by then kills nothing | 0049:29 |
| `FailedRestoreLeavesNothing` | a source that cannot be read to its end closes the tool's input, and psql commits what it has | — |
| `HealthyAlwaysBoots` | `data-directory.ts:44-46`, `key-provider.ts:275-287`: a boot writes to `temp` and reads the key file; `doctor.ts:62-70`, `:117-125`, `:282-298` only looks whether they are there | — (0007:28 asks for no more) |
| `RequestsGetGrace` | `runtime-lifecycle.ts:226`: resources are closed under requests that still run | 0006:30 |
| `FoldersOfferMore` | `object-explorer.ts:82`: the cursors of schemas and folders are dropped | 0031:29 |
| `OpenedWhereFound` | `explorer.store.ts`: a search result is opened in the connection that has the focus by then | — |
| `RestoresWhatIsShown` | `backup-restore.ts:383`: the validation of the source chosen before is sent | 0050:29 |
| `SavesItsOwnDefinition` | `view-editor.ts:282`: a definition is saved under the route of the moment | 0044:29 |
| `AppliedIsInEffect` | `postgresql-connection.ts:258-272`, `security/index.ts:442-451`: a transaction that a foreign statement aborted is committed, which PostgreSQL answers with `ROLLBACK` and no error; the answer and the audit log say "applied" | 0046:30-31 |
| `AppliedWasPreviewed` | `security.ts:248`: boxes ticked while a preview is under way are applied with it | 0046:29 |
| what `BackupsAreKept` allows | `backup-service.ts:150`: two backups that are named in the same second get one file name, and the second replaces the first | 0049:31 |
| what `FilesAreTrue` allows | `restore.ts:263`: a sweep that reads a manifest which is just being written removes the upload, which is then reported as completed | — |
| the users page | `user-management.ts`: a confirmation that is opened while a change is under way loses its request when that change ends | — |
| the schema page | `schema-management.ts`: Refresh never clears the error of a load that failed; the drop dialog stays over a change of route | — |
| `ConfirmedCount`, `ListIsForFilter` | the grid's dialog; the history page's list | — |

## 6. Hazards and what covers them

`PROJECT.json` lists each hazard at its line with the properties that cover it.
By kind:

* *Two calls overlap at an await*: connects, reconnects and deletes
  (`RegistryIsTrue`, `NothingRevives`), runs and sessions of a tab (`SessionsAreTrue`),
  changes of roles and passwords (`AccountsAreSafe`), profile updates that wait for
  the vault (`ProfilesAreSound`), shared transactions (`AnswersAreTrue`).
* *Late answers*: pings, cancels and polls (`StepsAreSafe`, `CancelEndsStatement`,
  `EndedStaysShown`), pages whose dialogs moved on (`OneOperationAtATime`,
  `ShownIsAsked`, `DesignIsReached`).
* *One step of several failing, crashes*: `FilesAreTrue`, `MutationsAreWhole`,
  `StoreIsKept`, `ToolsAreTrue`, `OnlyNamedIsLost`.
* *Waiting*: `EveryWaiterServed`, `EveryCallEnds`, `ShutdownEnds`, `Resubscribed`,
  `TabNotStranded`.
* *Limits and boundaries*: `PoolIsSound`, `AttemptsAreLimited`, `AdaptersAreTrue`,
  `ImportIsTrue`.

## 7. Not modelled, not proved, next

Not modelled: the audit log and its page (single inserts and a list; a failing audit
write is a step of the components that write it), observability, the generated API
contract and SDK facades (one HTTP call per method), pages that are a form over one
call (imports and exports, monitoring, settings), build and test tooling. Within modelled components the header of each module
and the notes in `PROJECT.json` say what is left out, among them result
serialisation, error positions, table options and comments, JSON imports, column
mapping, keyboard focus and labels. A database file that cannot be written in a directory
that can, and a restore whose source vanishes before its tool is started, are left out too.

What could come next:

1. The folds of `TableDesigner` and `DesignerPage` as recursive functions with an explicit
   inductive argument per step, if a prover with induction over data is at hand: then
   `DesignIsReached` and `ImportIsTrue` are within reach.
2. `PersistedIsStored` and `ActiveTabIsOpen` of the workspace, from a lemma about
   `SelectSeq`.
3. The pages of imports and exports and of the audit log, as further parts of `catalog`.
