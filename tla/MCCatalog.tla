------------------------------- MODULE MCCatalog -------------------------------
(***************************************************************************)
(* The instances of what is done to the objects of a server: of object     *)
(* management and, beside it, of the explorer over the catalog, of the     *)
(* pages of a view, of principals and privileges, of backups, of           *)
(* connections, of databases and schemas and of users, and of the          *)
(* workspace whose tabs show the objects.  `part` says which of the nine a *)
(* behaviour runs; the others have no state, and management stays in an    *)
(* initial state.                                                          *)
(***************************************************************************)
EXTENDS ObjectManagement, TLC

CONSTANTS
    Parts,                                      \* the parts that run
    Views, Principals, Privileges, Artifacts,   \* what the pages of objects are about
    Invalid,                                    \* artifacts that are refused to be restored
    Servers, Capable,                           \* the connections, and those with the capability
    Saved, Keeping, Databases, Pages,           \* the same by name, and what other pages show
    Acts, Calls, MaxFails, MaxEvents            \* bounds; of acts and calls, for each page

\* Connections have the ids createId() made; no id says that there is none.
ASSUME NamesAssumption == "none" \notin Saved

VARIABLES part,
          server, contents, cachedPages, nodes, roots, focus, search, reveal, calls, clean, told, acts,
          changes,                                                      \* the explorer
          route, connected, text, busyView, confirm, saved, views, call,
          viewActs, viewFails,                                          \* the view page
          conn, listed, grantee, grants, ticked, preview, revokeOk, form, reset, dropping,
          busy, loading, granted, exist, sent, pageActs, pageFails,     \* the security page
          target, profile, capability, create, restore, action, artifacts, jobs, posts,
          restoreActs, restoreFails,                                    \* the restore page
          profiles, statuses, editor, listing, saving, testing, prompt, deleting, busyId, kept,
          truth, asks, connActs, events,                                \* the page of connections
          dbKind, dbConn, dbName, known, able, names, opening, dbFailed, createOpen, renamed,
          dropped, typed, creating, renaming, removing, left, dbCalls,
          dbActs,                                                       \* the pages of databases
          page, users, fetching, loadFailed, submitting, dialog, pending, asked, userCalls,
          userActs,                                                     \* the page of users
          tabList, active, panels, user, restoring, generation, timer, lastPersisted, http,
          session, owner, stored, exists, by, disturbed, used           \* the workspace

-----------------------------------------------------------------------------
\* Databases 1 (connected) and 2; schema 3 with table 4, view 5 on it and table 6 that
\* references it; principal 7; grants 8 and 9; name 10 is free.
Thing(kind, db, name, uses) ==
    [kind |-> kind, db |-> db, name |-> name, schema |-> IF db = 0 \/ kind = "schema" THEN 0 ELSE 3,
     uses |-> uses, shape |-> 1, rows |-> TRUE]
Base == {Thing("database", 0, 1, {}), Thing("database", 0, 2, {}), Thing("schema", 1, 3, {}),
         Thing("table", 1, 4, {}), Thing("principal", 0, 7, {})}
MCCatalog == {Base \cup {Thing("view", 1, 5, {4}), Thing("table", 1, 6, {4})}}
MCCatalogs == {Base \cup {Thing("view", 1, 5, {4})}, Base \cup {Thing("table", 1, 6, {4})}}

Wish(kind, do, name) ==
    [kind |-> kind, do |-> do, db |-> 1, name |-> name, to |-> 0, schema |-> IF kind = "schema" THEN 0 ELSE 3,
     uses |-> {}, shape |-> 1, confirm |-> TRUE, plugin |-> FALSE, secret |-> FALSE, changes |-> << >>]
Grant(do, name, table) ==
    [do |-> do, db |-> 1, name |-> name, to |-> 7, schema |-> 3, uses |-> {table}, shape |-> 1]

MCMenu ==
    {Wish("database", "drop", 2),
     Wish("schema", "drop", 3),
     Wish("table", "drop", 4), Wish("table", "truncate", 4),
     [Wish("table", "rename", 4) EXCEPT !.to = 10], [Wish("table", "drop", 4) EXCEPT !.confirm = FALSE],
     [Wish("view", "alter", 5) EXCEPT !.uses = {4}, !.shape = 2],
     [Wish("principal", "alter", 7) EXCEPT !.plugin = TRUE],
     [Wish("grant", "apply", 8) EXCEPT !.changes = << Grant("grant", 8, 4), Grant("grant", 9, 6) >>],
     [Wish("grant", "apply", 8) EXCEPT !.changes = << Grant("revoke", 8, 4) >>]}

\* Change sets whose statements are about different tables.
MCGrants == {[Wish("grant", "apply", 8) EXCEPT !.changes =
                 << Grant("grant", 8, 4), Grant("grant", 9, 6), Grant("grant", 10, 5) >>],
             [Wish("view", "create", 10) EXCEPT !.uses = {3}]}

-----------------------------------------------------------------------------
\* A server with up to three databases and two tables, in pages of two.
Index(n, u, ks) == [name |-> n, unique |-> u, keys |-> ks]
Constraint(n, ty, cs) == [name |-> n, type |-> ty, cols |-> cs]
MCShapes ==
    {[cols |-> <<1, 2>>, idx |-> {Index(1, TRUE, <<2, 1>>)}, cons |-> {Constraint(1, "primaryKey", <<2, 1>>)}],
     [cols |-> <<2, 1>>, idx |-> {Index(1, TRUE, <<1, 0>>)},
      cons |-> {Constraint(1, "unique", <<1>>), Constraint(1, "foreignKey", <<2>>), Constraint(2, "check", << >>)}]}
MCQueries == {[match |-> {1, 2, 3}, exact |-> 2, short |-> FALSE], [match |-> {2}, exact |-> 2, short |-> FALSE],
              [match |-> {1}, exact |-> 1, short |-> TRUE]}

X == INSTANCE Explorer WITH Databases <- {1, 2, 3}, Schemas <- {1}, Names <- {1, 2}, Home <- 1,
                            Conns <- {1}, PageSize <- 2, MaxActs <- 3, MaxCalls <- 2,
                            MaxChanges <- 1, Shapes <- MCShapes, Queries <- MCQueries,
                            engine <- server, catalog <- contents

\* How many acts and calls of a page happen.
MCActs == [view |-> 5, security |-> 4, restore |-> 5, connections |-> 3, databases |-> 4, users |-> 6]
MCCalls == [security |-> 2, restore |-> 2, connections |-> 3, databases |-> 2, users |-> 3]

V == INSTANCE ViewPage WITH MaxActs <- Acts.view,
                            loading <- busyView, acts <- viewActs, fails <- viewFails

S == INSTANCE SecurityPage WITH Conns <- Servers, MaxActs <- Acts.security,
                                MaxCalls <- Calls.security,
                                calls <- sent, acts <- pageActs, fails <- pageFails

R == INSTANCE RestorePage WITH Conns <- Servers, Capable <- Servers,
                               Names <- Databases, MaxActs <- Acts.restore,
                               MaxCalls <- Calls.restore, page <- target, conn <- profile,
                               stored <- artifacts, calls <- posts, acts <- restoreActs,
                               fails <- restoreFails

P == INSTANCE ConnectionsPage WITH Conns <- Saved, MaxActs <- Acts.connections,
                                   MaxCalls <- Calls.connections, rows <- profiles,
                                   form <- editor, loading <- listing, stored <- kept,
                                   calls <- asks, acts <- connActs

D == INSTANCE DatabasePages WITH Kinds <- {"database", "schema"}, Conns <- Saved,
                                 Names <- Databases, Schemas <- {"x"},
                                 MaxActs <- Acts.databases, MaxCalls <- Calls.databases,
                                 kind <- dbKind, conn <- dbConn, name <- dbName, rows <- names,
                                 loading <- opening, failed <- dbFailed, rename <- renamed,
                                 drop <- dropped, dropping <- removing, calls <- dbCalls,
                                 acts <- dbActs

U == INSTANCE UsersPage WITH MaxActs <- Acts.users, MaxCalls <- Calls.users,
                             loading <- fetching, sent <- asked, calls <- userCalls,
                             acts <- userActs

\* Two users, interchangeable; two calls at a time, one of them lost or overtaken.
W == INSTANCE Workspace WITH Users <- Requests, Tables <- {"t", "u"}, MaxTabs <- 2, MaxCalls <- 2,
                             MaxChanges <- 2, MaxQuestions <- 1, MaxSessions <- 2, MaxFaults <- 1,
                             tabs <- tabList, calls <- http

-----------------------------------------------------------------------------
explorer == <<server, contents, cachedPages, nodes, roots, focus, search, reveal, calls, clean, told, acts,
              changes>>
viewPage == <<route, connected, text, busyView, confirm, saved, views, call, viewActs, viewFails>>
securityPage == <<conn, listed, grantee, grants, ticked, preview, revokeOk, form, reset, dropping,
                  busy, loading, granted, exist, sent, pageActs, pageFails>>
restorePage == <<target, profile, capability, create, restore, action, artifacts, jobs, posts,
                 restoreActs, restoreFails>>
connectionsPage == <<profiles, statuses, editor, listing, saving, testing, prompt, deleting,
                     busyId, kept, truth, asks, connActs, events>>
databasePages == <<dbKind, dbConn, dbName, known, able, names, opening, dbFailed, createOpen,
                   renamed, dropped, typed, creating, renaming, removing, left, dbCalls, dbActs>>
usersPage == <<page, users, fetching, loadFailed, submitting, dialog, pending, asked, userCalls,
               userActs>>
pages == <<viewPage, securityPage, restorePage, connectionsPage, databasePages, usersPage>>
workspace == <<tabList, active, panels, user, restoring, generation, timer, lastPersisted, http,
               session, owner, stored, exists, by, disturbed, used>>
allVars == <<vars, explorer, pages, workspace, part>>

\* The variables of a part that does not run.
NoExplorer ==
    /\ server = 0 /\ contents = 0 /\ cachedPages = 0 /\ nodes = 0 /\ roots = 0 /\ focus = 0 /\ search = 0
    /\ reveal = 0 /\ calls = 0 /\ clean = 0 /\ told = 0 /\ acts = 0 /\ changes = 0
NoViewPage ==
    /\ route = 0 /\ connected = 0 /\ text = 0 /\ busyView = 0 /\ confirm = 0 /\ saved = 0
    /\ views = 0 /\ call = 0 /\ viewActs = 0 /\ viewFails = 0
NoSecurityPage ==
    /\ conn = 0 /\ listed = 0 /\ grantee = 0 /\ grants = 0 /\ ticked = 0 /\ preview = 0
    /\ revokeOk = 0 /\ form = 0 /\ reset = 0 /\ dropping = 0 /\ busy = 0 /\ loading = 0
    /\ granted = 0 /\ exist = 0 /\ sent = 0 /\ pageActs = 0 /\ pageFails = 0
NoRestorePage ==
    /\ target = 0 /\ profile = 0 /\ capability = 0 /\ create = 0 /\ restore = 0 /\ action = 0
    /\ artifacts = 0 /\ jobs = 0 /\ posts = 0 /\ restoreActs = 0 /\ restoreFails = 0
NoConnectionsPage ==
    /\ profiles = 0 /\ statuses = 0 /\ editor = 0 /\ listing = 0 /\ saving = 0 /\ testing = 0
    /\ prompt = 0 /\ deleting = 0 /\ busyId = 0 /\ kept = 0 /\ truth = 0 /\ asks = 0
    /\ connActs = 0 /\ events = 0
NoDatabasePages ==
    /\ dbKind = 0 /\ dbConn = 0 /\ dbName = 0 /\ known = 0 /\ able = 0 /\ names = 0 /\ opening = 0
    /\ dbFailed = 0 /\ createOpen = 0 /\ renamed = 0 /\ dropped = 0 /\ typed = 0 /\ creating = 0
    /\ renaming = 0 /\ removing = 0 /\ left = 0 /\ dbCalls = 0 /\ dbActs = 0
NoUsersPage ==
    /\ page = 0 /\ users = 0 /\ fetching = 0 /\ loadFailed = 0 /\ submitting = 0 /\ dialog = 0
    /\ pending = 0 /\ asked = 0 /\ userCalls = 0 /\ userActs = 0
NoWorkspace ==
    /\ tabList = 0 /\ active = 0 /\ panels = 0 /\ user = 0 /\ restoring = 0 /\ generation = 0
    /\ timer = 0 /\ lastPersisted = 0 /\ http = 0 /\ session = 0 /\ owner = 0 /\ stored = 0
    /\ exists = 0 /\ by = 0 /\ disturbed = 0 /\ used = 0

AllInit ==
    /\ part \in Parts
    /\ Init
    /\ part # "objects" => engine = "mysql"
    /\ IF part = "explorer" THEN X!Init ELSE NoExplorer
    /\ IF part = "view" THEN V!Init ELSE NoViewPage
    /\ IF part = "security" THEN S!Init ELSE NoSecurityPage
    /\ IF part = "restore" THEN R!Init ELSE NoRestorePage
    /\ IF part = "connections" THEN P!Init ELSE NoConnectionsPage
    /\ IF part = "databases" THEN D!Init ELSE NoDatabasePages
    /\ IF part = "users" THEN U!Init ELSE NoUsersPage
    /\ IF part = "workspace" THEN W!Init ELSE NoWorkspace

\* Bound: of two changes, a fault and a question, three happen to a workspace.
Events == used.changes + used.faults + used.questions

AllNext ==
    \/ part = "objects" /\ Next /\ UNCHANGED <<explorer, pages, workspace, part>>
    \/ part = "explorer" /\ X!Next /\ UNCHANGED <<vars, pages, workspace, part>>
    \/ part = "workspace" /\ W!Next /\ Events' <= 3
       /\ UNCHANGED <<vars, explorer, pages, part>>
    \/ /\ UNCHANGED <<vars, explorer, workspace, part>>
       /\ \/ /\ part = "view" /\ V!Next
             /\ UNCHANGED <<securityPage, restorePage, connectionsPage, databasePages, usersPage>>
          \/ /\ part = "security" /\ S!Next
             /\ UNCHANGED <<viewPage, restorePage, connectionsPage, databasePages, usersPage>>
          \/ /\ part = "restore" /\ R!Next
             /\ UNCHANGED <<viewPage, securityPage, connectionsPage, databasePages, usersPage>>
          \/ /\ part = "connections" /\ P!Next
             /\ UNCHANGED <<viewPage, securityPage, restorePage, databasePages, usersPage>>
          \/ /\ part = "databases" /\ D!Next
             /\ UNCHANGED <<viewPage, securityPage, restorePage, connectionsPage, usersPage>>
          \/ /\ part = "users" /\ U!Next
             /\ UNCHANGED <<viewPage, securityPage, restorePage, connectionsPage, databasePages>>

AllSpec == AllInit /\ [][AllNext]_allVars

Symmetry == Permutations(Requests)

\* Walking a folder or the results of a search shows each entry once, in order, and all of them
\* at the end; a table that stood still is described as it is, and a spinner has a call that
\* will take it away (Explorer, Catalog).
ExplorerIsTrue ==
    part = "explorer" =>
      X!WalkIsComplete /\ X!SearchIsOneWalk /\ X!DescribedIsTrue /\ X!SpinnerMeansCall

\* On every page one operation of a kind is under way at a time, and its buttons are disabled
\* exactly until its end, whatever is opened, chosen or navigated to meanwhile.  Beyond that:
\* a restore's dialog stays open until its answer, and its source was accepted by the server; a
\* password is sent to the connection it was typed for, and the form of a connection stays open
\* until its save or test ended; the dialogs of databases and schemas stay on what they change,
\* and what is dropped was typed; no change of a user is sent twice, and the users shown are of
\* the page that is named.  What a view's page saves, what is applied of privileges and what the
\* restore dialog names is not claimed: SavesItsOwnDefinition (ViewPage), AppliedWasPreviewed
\* (SecurityPage) and RestoresWhatIsShown (RestorePage) are false.
OneOperationAtATime ==
    /\ part = "view" => V!BusyMeansCall
    /\ part = "security" => S!OneChangeAtATime
    /\ part = "restore" => R!RestoreIsTrue
    /\ part = "connections" => P!LifecycleIsTrue
    /\ part = "databases" => D!DialogsAreTrue
    /\ part = "users" => U!ChangesAreTrue

\* What is saved for a user is that user's own work, the client knows what the server
\* keeps, and the active tab of a workspace is one of its tabs (Workspace).
WorkspaceIsTrue ==
    part = "workspace" => W!OwnWorkspace /\ W!PersistedIsStored /\ W!ActiveTabIsOpen
=============================================================================
