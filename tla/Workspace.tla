------------------------------ MODULE Workspace ------------------------------
(***************************************************************************)
(* The workspace of the web client: the tabs a user has open and their     *)
(* layout (WorkspaceStore), the service that loads it at sign-in and saves *)
(* it after changes (WorkspacePersistenceService), the signed-in user      *)
(* (AuthSessionStore, authGuard, AppShell.onLogout) and the server's       *)
(* WorkspaceService with the sanitizing in packages/workspace.             *)
(*                                                                         *)
(* One browser tab.  An HTTP call is a record: it is sent, the server      *)
(* handles it once or it is lost, and its answer arrives when it likes.    *)
(* Calls overtake each other.  A tab descriptor keeps what tells tabs      *)
(* apart: id, type, connection, the table it shows and the stale mark; the *)
(* table reference is in the tab's route, so saving keeps it.  The panels  *)
(* are one value.  Notices, titles and navigation are left out.            *)
(***************************************************************************)
EXTENDS Naturals, FiniteSets, SequencesExt

CONSTANTS
    Users,
    Tables,       \* the tables a data browser tab can show, all of one connection
    MaxTabs,      \* maxItems of the tabs in workspaceStateSchema (100)
    MaxCalls,     \* bound: calls under way at a time
    MaxChanges,   \* bound: changes of the workspace by the user
    MaxQuestions, \* bound: navigations of which the guard asks who is signed in
    MaxSessions,  \* bound: sign-ins
    MaxFaults     \* bound: lost calls and answers, sessions that end, reloads, deletes

Nobody == "nobody"
NoTable == "none"

VARIABLES
    tabs, active, panels,   \* WorkspaceStore
    user,                   \* AuthSessionStore.user and the persistence service's userId
    restoring, generation,  \* restoring, restoreGeneration
    timer, lastPersisted,   \* the debounce timer is set; the snapshot last known as saved
    calls,                  \* HTTP calls under way
    session, owner,         \* the session of the cookie (0: none) and whose it is
    stored,                 \* server: the saved workspace of every user
    exists,                 \* server: the connection of the table tabs exists
    by,                     \* history: whose changes are in the workspace
    disturbed,              \* history: saves overlapped or a call was lost
    used                    \* what the bounds have been spent on

store == <<tabs, active, panels, by>>
service == <<user, restoring, generation, timer, lastPersisted>>
server == <<session, owner, stored, exists>>
vars == <<store, service, calls, server, disturbed, used>>

Page(id) == [id |-> id, type |-> "page", table |-> NoTable, stale |-> FALSE]
TableTab(t) == [id |-> t, type |-> "data-browser", table |-> t, stale |-> FALSE]
Openable == {Page("workspace"), Page("query")} \cup {TableTab(t) : t \in Tables}

\* persistenceSnapshot; by is history and is no part of what is compared.
Snapshot == [tabs |-> tabs, active |-> active, panels |-> panels, by |-> by]
Default == [tabs |-> <<Page("workspace")>>, active |-> "workspace", panels |-> 0, by |-> {}]
NoSnapshot == [Default EXCEPT !.tabs = << >>]
Same(a, b) == a.tabs = b.tabs /\ a.active = b.active /\ a.panels = b.panels
IsSaved(s) == Same(s, lastPersisted)

Ids(s) == {s[i].id : i \in DOMAIN s}
IndexOf(s, P(_)) == CHOOSE i \in DOMAIN s : P(s[i]) /\ \A j \in 1..(i - 1) : ~P(s[j])

TypeOK ==
    /\ Len(tabs) > 0 /\ active \in Ids(tabs) /\ Cardinality(Ids(tabs)) = Len(tabs)
    /\ user \in Users \cup {Nobody} /\ owner \in Users \cup {Nobody}
    /\ timer \in BOOLEAN /\ restoring \in BOOLEAN
    /\ session \in 0..MaxSessions

Init ==
    /\ tabs = Default.tabs /\ active = Default.active /\ panels = 0 /\ by = {}
    /\ user = Nobody /\ restoring = FALSE /\ generation = 0
    /\ timer = FALSE /\ lastPersisted = NoSnapshot
    /\ calls = {}
    /\ session = 0 /\ owner = Nobody
    /\ stored = [u \in Users |-> Default] /\ exists = TRUE
    /\ disturbed = FALSE
    /\ used = [changes |-> 0, questions |-> 0, sessions |-> 0, faults |-> 0]

Spend(what, max) == used[what] < max /\ used' = [used EXCEPT ![what] = @ + 1]

Call(kind, snap, gen, then) ==
    [kind |-> kind, answer |-> "none", snap |-> snap, user |-> user, gen |-> gen,
     session |-> session, owner |-> owner, then |-> then]

-----------------------------------------------------------------------------
(* The server *)

\* inspectWorkspaceState: the schema bounds the number of tabs; the active tab is one of them.
Valid(s) == Len(s.tabs) <= MaxTabs /\ s.active \in Ids(s.tabs)

\* sanitizeWorkspaceState: the tabs of connections that are gone are dropped.
Sanitized(s) ==
    LET kept == SelectSeq(s.tabs, LAMBDA tab : tab.table = NoTable \/ exists)
    IN  IF kept = << >> THEN [Default EXCEPT !.by = s.by]
        ELSE [s EXCEPT !.tabs = kept,
                       !.active = IF @ \in Ids(kept) THEN @ ELSE kept[1].id]

Signed(c) == c.session # 0 /\ c.session = session

Answered(c, snap, answer) ==
    calls' = (calls \ {c}) \cup {[c EXCEPT !.snap = snap, !.answer = answer]}
Unauthorized(c) == Answered(c, c.snap, "401")

\* GET /workspace
HandleLoad(c) ==
    /\ c.kind = "load" /\ c.answer = "none"
    /\ IF Signed(c) THEN Answered(c, Sanitized(stored[c.owner]), "ok") ELSE Unauthorized(c)
    /\ UNCHANGED <<store, service, server, disturbed, used>>

\* PUT /workspace: a state that does not pass inspection is refused.
SaveFor(c) == [stored EXCEPT ![c.owner] = c.snap]
HandleSave(c) ==
    /\ c.kind = "save" /\ c.answer = "none"
    /\ \/ ~Signed(c) /\ Unauthorized(c) /\ UNCHANGED stored
       \/ Signed(c) /\ ~Valid(c.snap) /\ Answered(c, c.snap, "failed") /\ UNCHANGED stored
       \/ Signed(c) /\ Valid(c.snap) /\ Answered(c, c.snap, "ok") /\ stored' = SaveFor(c)
    /\ UNCHANGED <<store, service, session, owner, exists, disturbed, used>>

\* GET /auth/me of the guard, POST /auth/logout.
HandleMe(c) ==
    /\ c.kind = "me" /\ c.answer = "none"
    /\ IF Signed(c) THEN Answered(c, NoSnapshot, "ok") ELSE Unauthorized(c)
    /\ UNCHANGED <<store, service, server, disturbed, used>>
HandleLogout(c) ==
    /\ c.kind = "logout" /\ c.answer = "none"
    /\ IF Signed(c) THEN Answered(c, NoSnapshot, "ok") /\ session' = 0 /\ owner' = Nobody
                    ELSE Unauthorized(c) /\ UNCHANGED <<session, owner>>
    /\ UNCHANGED <<store, service, stored, exists, disturbed, used>>

\* The network loses a call before the server handled it, or the answer to it.
Lose(c) ==
    /\ Spend("faults", MaxFaults)
    /\ c.answer # "failed" /\ Answered(c, c.snap, "failed")
    /\ disturbed' = TRUE
    /\ UNCHANGED <<store, service, server>>

\* The session expires or is revoked; the connection is deleted.
SessionEnds ==
    /\ Spend("faults", MaxFaults)
    /\ session # 0 /\ session' = 0 /\ owner' = Nobody
    /\ UNCHANGED <<store, service, calls, stored, exists, disturbed>>
DeleteConnection ==
    /\ Spend("faults", MaxFaults)
    /\ exists /\ exists' = FALSE
    /\ UNCHANGED <<store, service, calls, session, owner, stored, disturbed>>

-----------------------------------------------------------------------------
(* WorkspacePersistenceService *)

Reset == tabs' = Default.tabs /\ active' = Default.active /\ panels' = 0 /\ by' = {}

\* restoreUser up to its await: nothing of the workspace on the screen is kept.
Restore(u, cs, s, o) ==
    /\ user' = u /\ restoring' = TRUE /\ generation' = generation + 1
    /\ timer' = FALSE /\ lastPersisted' = NoSnapshot
    /\ Reset
    /\ calls' = cs \cup {[Call("load", NoSnapshot, generation + 1, FALSE) EXCEPT
                             !.user = u, !.session = s, !.owner = o]}

\* AuthSessionStore.clear with WorkspacePersistenceService.clear.
Clear ==
    /\ user' = Nobody /\ restoring' = FALSE /\ generation' = generation + 1
    /\ timer' = FALSE /\ lastPersisted' = NoSnapshot
    /\ Reset

\* The answer of a load counts only for the restore that sent it.
IsForUser(c) == user # Nobody
IsLatest(c) == c.gen = generation /\ c.user = user
ReceiveLoad(c) ==
    /\ c.kind = "load" /\ c.answer \in {"ok", "failed"}
    /\ calls' = calls \ {c}
    /\ \/ /\ ~IsLatest(c)
          /\ UNCHANGED <<store, service>>
       \/ /\ IsLatest(c) /\ c.answer = "ok"
          /\ tabs' = c.snap.tabs /\ active' = c.snap.active /\ panels' = c.snap.panels
          /\ by' = c.snap.by
          /\ lastPersisted' = c.snap /\ restoring' = FALSE
          /\ UNCHANGED <<user, generation, timer>>
       \/ /\ IsLatest(c) /\ c.answer = "failed"
          /\ lastPersisted' = Snapshot /\ restoring' = FALSE
          /\ UNCHANGED <<store, user, generation, timer>>
    /\ UNCHANGED <<server, disturbed, used>>

\* flush: what is sent is the snapshot of this moment.  With then the log-out goes on when
\* the save is answered, or at once when nothing has to be saved.
Dirty == user # Nobody /\ ~restoring /\ ~IsSaved(Snapshot)
Flush(cs, then) ==
    /\ timer' = FALSE
    /\ calls' = cs \cup IF Dirty THEN {Call("save", Snapshot, generation, then)}
                        ELSE IF then THEN {Call("logout", NoSnapshot, generation, FALSE)} ELSE {}
    /\ disturbed' = (disturbed \/ (Dirty /\ \E c \in cs : c.kind = "save"))
    /\ UNCHANGED <<user, restoring, generation, lastPersisted>>

TimerFires ==
    /\ timer
    /\ Flush(calls, FALSE)
    /\ UNCHANGED <<store, server, used>>

\* A save that was answered is remembered as persisted, whoever is signed in by now.
Remembered(c) == IF c.answer = "ok" THEN c.snap ELSE lastPersisted
ReceiveSave(c) ==
    /\ c.kind = "save" /\ c.answer \in {"ok", "failed"}
    /\ lastPersisted' = Remembered(c)
    /\ disturbed' = (disturbed \/ c.user # user \/ c.gen # generation)
    /\ calls' = (calls \ {c}) \cup IF c.then THEN {Call("logout", NoSnapshot, generation, FALSE)} ELSE {}
    /\ UNCHANGED <<store, user, restoring, generation, timer, server, used>>

-----------------------------------------------------------------------------
(* Sign-in and sign-out *)

\* The login page: the server opens a session, setUser restores the workspace of its user.
\* The page is reached by a navigation, so the guard's question is no longer under way.
SignIn(u) ==
    /\ Spend("sessions", MaxSessions)
    /\ user = Nobody /\ \A c \in calls : c.kind # "me"
    /\ session' = used.sessions + 1 /\ owner' = u
    /\ Restore(u, calls, session', u)
    /\ UNCHANGED <<stored, exists, disturbed>>

\* authGuard asks who is signed in before a route is entered, and takes the answer over when
\* it arrives: another user than the one on the screen restores that user's workspace.
Navigate ==
    /\ \A c \in calls : c.kind # "me"
    /\ Spend("questions", MaxQuestions)
    /\ calls' = calls \cup {Call("me", NoSnapshot, generation, FALSE)}
    /\ UNCHANGED <<store, service, server, disturbed>>
ReceiveMe(c) ==
    /\ c.kind = "me" /\ c.answer \in {"ok", "failed"}
    /\ IF c.answer = "ok" /\ c.owner # user
       THEN Restore(c.owner, calls \ {c}, session, owner)
       ELSE calls' = calls \ {c} /\ UNCHANGED <<store, service>>
    /\ UNCHANGED <<server, disturbed, used>>

\* onLogout: flush, then POST /auth/logout, then clear.
Logout ==
    /\ user # Nobody
    /\ \A c \in calls : ~c.then /\ c.kind # "logout"
    /\ Flush(calls, TRUE)
    /\ UNCHANGED <<store, server, used>>
ReceiveLogout(c) ==
    /\ c.kind = "logout" /\ c.answer \in {"ok", "failed"}
    /\ calls' = calls \ {c}
    /\ IF c.answer = "ok" THEN Clear ELSE UNCHANGED <<store, service>>
    /\ UNCHANGED <<server, disturbed, used>>

\* A 401 of any call: sessionExpired clears the user and the workspace on the screen.
SessionExpired(c) ==
    /\ c.answer = "401"
    /\ calls' = calls \ {c}
    /\ Clear
    /\ UNCHANGED <<server, disturbed, used>>

\* The page is reloaded: beforeunload sends a last save nobody waits for.
Reload ==
    /\ Spend("faults", MaxFaults)
    /\ user' = Nobody /\ restoring' = FALSE /\ generation' = generation + 1
    /\ timer' = FALSE /\ lastPersisted' = NoSnapshot
    /\ calls' = {c \in calls : c.answer = "none" /\ c.kind = "save"}
                \cup IF Dirty THEN {Call("save", Snapshot, generation, FALSE)} ELSE {}
    /\ disturbed' = TRUE
    /\ Reset
    /\ UNCHANGED server

-----------------------------------------------------------------------------
(* WorkspaceStore: the user's changes.  The effect of the persistence service runs after    *)
(* each of them and (re)starts the debounce timer when the snapshot is not the saved one.   *)

Change(newTabs, newActive, newPanels) ==
    /\ user # Nobody
    /\ Spend("changes", MaxChanges)
    /\ tabs' = newTabs /\ active' = newActive /\ panels' = newPanels /\ by' = by \cup {user}
    /\ timer' = (timer \/ (~restoring /\ ~IsSaved([tabs |-> newTabs, active |-> newActive,
                                                   panels |-> newPanels])))
    /\ UNCHANGED <<user, restoring, generation, lastPersisted, calls, server, disturbed>>

openTab(tab) ==
    Change(IF tab.id \in Ids(tabs) THEN tabs ELSE Append(tabs, tab), tab.id, panels)
activateTab(id) == id \in Ids(tabs) /\ Change(tabs, id, panels)

\* closeTab: the last tab stays; the neighbour on the left, or the first, becomes active.
NextActive(rest, i) == IF i > 1 /\ i - 1 <= Len(rest) THEN rest[i - 1].id ELSE rest[1].id
closeTab(id) ==
    /\ id \in Ids(tabs) /\ Len(tabs) > 1
    /\ LET i == IndexOf(tabs, LAMBDA tab : tab.id = id)
           rest == RemoveAt(tabs, i)
       IN  Change(rest, IF active = id THEN NextActive(rest, i) ELSE active, panels)

\* setSidebarWidth, setBottomHeight, toggleSidebar, toggleBottomPanel.
setPanels(p) == p # panels /\ Change(tabs, active, p)

OnTable(tab, t) == tab.type = "data-browser" /\ tab.table = t
Mapped(F(_)) == [i \in DOMAIN tabs |-> F(tabs[i])]

\* A table was altered or truncated, renamed, or dropped: its tabs follow.
markTableTabsStale(t) ==
    Change(Mapped(LAMBDA tab : IF OnTable(tab, t) THEN [tab EXCEPT !.stale = TRUE] ELSE tab),
           active, panels)
updateTableReferences(t, new) ==
    /\ t # new
    /\ Change(Mapped(LAMBDA tab : IF OnTable(tab, t)
                                  THEN [tab EXCEPT !.table = new, !.stale = FALSE] ELSE tab),
              active, panels)
closeTableTabs(t) ==
    LET rest == SelectSeq(tabs, LAMBDA tab : ~OnTable(tab, t))
        i == IndexOf(tabs, LAMBDA tab : OnTable(tab, t))
    IN  /\ \E j \in DOMAIN tabs : OnTable(tabs[j], t)
        /\ rest # << >>
        /\ Change(rest, IF active \in Ids(rest) THEN active
                        ELSE NextActive(rest, IF i > 1 THEN i ELSE 2), panels)

-----------------------------------------------------------------------------
Step ==
    \/ \E c \in calls :
          \/ HandleLoad(c) \/ HandleSave(c) \/ HandleMe(c) \/ HandleLogout(c) \/ Lose(c)
          \/ ReceiveLoad(c) \/ ReceiveSave(c) \/ ReceiveMe(c) \/ ReceiveLogout(c)
          \/ SessionExpired(c)
    \/ SessionEnds \/ DeleteConnection \/ TimerFires \/ Navigate \/ Logout \/ Reload
    \/ \E u \in Users : SignIn(u)
    \/ \E tab \in Openable : openTab(tab) \/ activateTab(tab.id) \/ closeTab(tab.id)
    \/ \E p \in 0..1 : setPanels(p)
    \/ \E t \in Tables :
          \/ markTableTabsStale(t) \/ closeTableTabs(t)
          \/ \E new \in Tables : updateTableReferences(t, new)

Next == Step /\ Cardinality(calls') <= MaxCalls

Spec == Init /\ [][Next]_vars

-----------------------------------------------------------------------------
(* Properties *)

\* What is saved for a user is made of that user's own changes, whatever loads, saves,
\* log-outs and expiries overtake each other (restoreGeneration, reset before the load).
OwnWorkspace == \A u \in Users : stored[u].by \subseteq {u}

\* The snapshot the service believes saved is the one the server keeps: otherwise it would
\* not save a change back to it.  Not promised while a save is under way, and once saves
\* overlapped, a call was lost or a save outlived its user (see README).
PersistedIsStored ==
    (user # Nobody /\ ~restoring /\ ~disturbed /\ \A c \in calls : c.kind # "save")
        => /\ lastPersisted # NoSnapshot
           /\ (session # 0 /\ owner = user) =>
                  Same(Sanitized(lastPersisted), Sanitized(stored[user]))

\* A workspace the server refuses is never on its way because of its active tab: only the
\* number of tabs can make a save fail (inspectWorkspaceState against closeTab, closeTableTabs).
ActiveTabIsOpen == active \in Ids(tabs) /\ \A u \in Users : stored[u].active \in Ids(stored[u].tabs)
==============================================================================
