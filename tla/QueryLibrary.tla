---------------------------- MODULE QueryLibrary ----------------------------
(***************************************************************************)
(* Query history, saved queries and the settings they depend on:           *)
(* QueryHistoryService (apps/server/src/query), SettingsService with its   *)
(* cache (packages/settings), their tables (packages/internal-sqlite), and *)
(* the history page of the web client, whose list calls may be answered    *)
(* out of order.                                                           *)
(*                                                                         *)
(* Entries are numbered in the order they are written, which is the order  *)
(* of executed_at.  An SQL text is left out; a saved query is its name.    *)
(***************************************************************************)
EXTENDS Naturals, FiniteSets, FiniteSetsExt

CONSTANTS Users,
          Conns,        \* connections, each of the user Owner[c]
          Owner,
          Names,        \* names of saved queries
          Limits,       \* valid values of history.maxEntriesPerUser
          Default,      \* its default
          Reader,       \* the user whose history page is open
          MaxEntries,   \* bound on the entries and queries ever written
          MaxCalls,     \* bound on the list calls of the page
          MaxActs       \* bound on what else happens

VARIABLES conns,        \* table connections: those that exist
          setting,      \* tables settings and preferences, 0 where there is no row
          cache,        \* SettingsService.cache, 0 where there is no entry
          history,      \* table query_history: set of [id, user, conn]
          saved,        \* table saved_queries: set of [id, user, name, conn]
          last,         \* ids handed out
          page,         \* the history page
          calls,        \* its list calls under way
          acts

vars == <<conns, setting, cache, history, saved, last, page, calls, acts>>
tables == <<conns, setting, cache, history, saved, last>>

\* What can be set: history.maxEntriesPerUser by an administrator, and one
\* preference by every user (the page size stands for all of them).
Retention == "history.maxEntriesPerUser"
settingsRegistry == {Retention} \cup Users

NoConn == "no connection"
Blank == ""
Omitted == "omitted"
All == "all"

Spend == acts < MaxActs /\ acts' = acts + 1
OfUser(rows, u) == {r \in rows : r.user = u}

Init ==
  /\ conns = Conns
  /\ setting = [k \in settingsRegistry |-> 0]
  /\ cache = [k \in settingsRegistry |-> 0]
  /\ history = {}
  /\ saved = {}
  /\ last = 0
  /\ page = [filter |-> All, request |-> 0, loading |-> FALSE, timer |-> FALSE,
             shown |-> All, items |-> {}, failed |-> FALSE]
  /\ calls = {}
  /\ acts = 0

-----------------------------------------------------------------------------
(* Settings.                                                               *)

Stored(k) == IF setting[k] = 0 THEN Default ELSE setting[k]

\* getSetting() and getPreference(): the cached value, else the stored one.
getSetting(k) == IF cache[k] # 0 THEN cache[k] ELSE Stored(k)

\* What reading it leaves in the cache.
Read(k) == [cache EXCEPT ![k] = getSetting(k)]

\* The cache is left alone by a write (a mutant).
CacheKept(k) == Read(k)

\* What a write leaves in the cache: the entry is deleted.
CacheAfterSet(k) == [cache EXCEPT ![k] = 0]

\* GET /settings, GET /preferences.
ReadSettings(k) ==
  /\ Spend
  /\ cache' = Read(k)
  /\ UNCHANGED <<conns, setting, history, saved, last, page, calls>>

\* setSetting(): the previous value is read (and cached) for the audit record,
\* which is written in the same transaction; when it fails nothing is stored.
setSetting(v) ==
  /\ Spend
  /\ \/ /\ setting' = [setting EXCEPT ![Retention] = v]
        /\ cache' = CacheAfterSet(Retention)
     \/ /\ cache' = Read(Retention)
        /\ UNCHANGED setting
  /\ UNCHANGED <<conns, history, saved, last, page, calls>>

\* setPreference(): not audited.
setPreference(u, v) ==
  /\ Spend
  /\ setting' = [setting EXCEPT ![u] = v]
  /\ cache' = CacheAfterSet(u)
  /\ UNCHANGED <<conns, history, saved, last, page, calls>>

-----------------------------------------------------------------------------
(* Query history.                                                          *)

\* enforceRetention(): the newest `limit` entries of the user stay.
enforceRetention(rows, u, limit) ==
  {r \in rows : r.user = u => Cardinality({q \in OfUser(rows, u) : q.id > r.id}) < limit}

\* recordHistory() and append() when a run ends; the entry of a connection that
\* was deleted meanwhile cannot be written, which is ignored.
append(u, c) ==
  /\ last < MaxEntries
  /\ Owner[c] = u
  /\ last' = last + 1
  /\ IF c \in conns
     THEN /\ history' = enforceRetention(
               history \cup {[id |-> last + 1, user |-> u, conn |-> c]}, u, getSetting(Retention))
          /\ cache' = Read(Retention)
     ELSE UNCHANGED <<history, cache>>
  /\ UNCHANGED <<conns, setting, saved, page, calls, acts>>

\* filterSql(): the filter of a list call, by connection or none.
filterSql(filter, r) == filter = All \/ r.conn = filter

\* listHistory(): those of the user that match the filter.
listHistory(u, filter) ==
  {r \in OfUser(history, u) : filterSql(filter, r)}

deleteHistoryEntry(u, r) ==
  /\ Spend
  /\ r \in OfUser(history, u)
  /\ history' = history \ {r}
  /\ UNCHANGED <<conns, setting, cache, saved, last, page, calls>>

deleteHistory(u) ==
  /\ Spend
  /\ history' = history \ OfUser(history, u)
  /\ UNCHANGED <<conns, setting, cache, saved, last, page, calls>>

-----------------------------------------------------------------------------
(* Saved queries.                                                          *)

\* assertConnectionOwner().
assertConnectionOwner(u, c) == c # NoConn => c \in conns /\ Owner[c] = u

\* UNIQUE (user_id, name).
NameFree(q) == \A r \in OfUser(saved, q.user) : r.id # q.id => r.name # q.name

\* requiredText(): a name is not blank.
requiredText(n) == n # Blank

\* savedQueryInput(): the body of a POST; savedQueryPatch(): of a PATCH, which
\* may leave fields out but not all of them.
savedQueryInput == [name : Names \cup {Blank}, conn : Conns \cup {NoConn}]
savedQueryPatch ==
  [name : Names \cup {Blank, Omitted}, conn : Conns \cup {NoConn, Omitted}]
    \ {[name |-> Omitted, conn |-> Omitted]}

\* The row a patch makes of another.
Patched(q, patch) ==
  [q EXCEPT !.name = IF patch.name = Omitted THEN @ ELSE patch.name,
            !.conn = IF patch.conn = Omitted THEN @ ELSE patch.conn]

\* ownedSaved(): another user's query is not found.
ownedSaved(u) == OfUser(saved, u)

createSaved(u, input) ==
  LET q == [id |-> last + 1, user |-> u, name |-> input.name, conn |-> input.conn] IN
  /\ Spend
  /\ last < MaxEntries /\ last' = last + 1
  /\ requiredText(q.name) /\ assertConnectionOwner(u, q.conn) /\ NameFree(q)
  /\ saved' = saved \cup {q}
  /\ UNCHANGED <<conns, setting, cache, history, page, calls>>

\* updateSaved(): the connection is checked even when the patch does not name it.
updateSaved(u, q, patch) ==
  LET updated == Patched(q, patch) IN
  /\ Spend
  /\ q \in ownedSaved(u) /\ updated # q
  /\ requiredText(updated.name) /\ assertConnectionOwner(u, updated.conn) /\ NameFree(updated)
  /\ saved' = (saved \ {q}) \cup {updated}
  /\ UNCHANGED <<conns, setting, cache, history, last, page, calls>>

deleteSaved(u, q) ==
  /\ Spend
  /\ q \in ownedSaved(u)
  /\ saved' = saved \ {q}
  /\ UNCHANGED <<conns, setting, cache, history, last, page, calls>>

\* A connection is deleted: connection_id ... ON DELETE SET NULL.
Forget(rows, c) == {IF r.conn = c THEN [r EXCEPT !.conn = NoConn] ELSE r : r \in rows}

ConnectionDeleted(c) ==
  /\ Spend
  /\ c \in conns
  /\ conns' = conns \ {c}
  /\ history' = Forget(history, c)
  /\ saved' = Forget(saved, c)
  /\ UNCHANGED <<setting, cache, last, page, calls>>

-----------------------------------------------------------------------------
(* The history page.                                                       *)

\* loadHistory(): each call takes the next number.
loadHistory(p) ==
  /\ p.request < MaxCalls
  /\ page' = [p EXCEPT !.request = p.request + 1, !.loading = TRUE, !.failed = FALSE]
  /\ calls' = calls \cup {[n |-> p.request + 1, filter |-> p.filter]}

\* onStatus(), onConnectionFilter(), onDateChange(): loaded at once.
onConnectionFilter(f) ==
  /\ f # page.filter
  /\ loadHistory([page EXCEPT !.filter = f])
  /\ UNCHANGED <<tables, acts>>

\* onSearch(): loaded when the user has stopped typing.
onSearch(f) ==
  /\ f # page.filter
  /\ page' = [page EXCEPT !.filter = f, !.timer = TRUE]
  /\ UNCHANGED <<tables, calls, acts>>

SearchTimer ==
  /\ page.timer
  /\ loadHistory([page EXCEPT !.timer = FALSE])
  /\ UNCHANGED <<tables, acts>>

\* deleteHistoryEntry() and clearHistory() of the page load again.
Reloaded ==
  /\ loadHistory(page)
  /\ UNCHANGED <<tables, acts>>

\* Only the answer to the last call counts.
lastRequest(c) == c.n = page.request

\* The answer: what the server has when it handles the call.
Listed(c) ==
  /\ c \in calls
  /\ calls' = calls \ {c}
  /\ page' = IF lastRequest(c)
             THEN [page EXCEPT !.shown = c.filter, !.loading = FALSE,
                               !.items = listHistory(Reader, c.filter)]
             ELSE page
  /\ UNCHANGED <<tables, acts>>

\* The call fails: the list is emptied and the error shown.
ListFailed(c) ==
  /\ c \in calls
  /\ calls' = calls \ {c}
  /\ page' = IF lastRequest(c)
             THEN [page EXCEPT !.items = {}, !.loading = FALSE, !.failed = TRUE]
             ELSE page
  /\ UNCHANGED <<tables, acts>>

-----------------------------------------------------------------------------
Next ==
  \/ \E k \in settingsRegistry : ReadSettings(k)
  \/ \E v \in Limits : setSetting(v) \/ \E u \in Users : setPreference(u, v)
  \/ \E u \in Users :
       \/ \E c \in Conns : append(u, c)
       \/ \E r \in history : deleteHistoryEntry(u, r)
       \/ deleteHistory(u)
       \/ \E input \in savedQueryInput : createSaved(u, input)
       \/ \E q \in saved :
            deleteSaved(u, q) \/ \E patch \in savedQueryPatch : updateSaved(u, q, patch)
  \/ \E c \in Conns : ConnectionDeleted(c)
  \/ \E f \in Conns \cup {All} : onConnectionFilter(f) \/ onSearch(f)
  \/ SearchTimer \/ Reloaded
  \/ \E c \in calls : Listed(c) \/ ListFailed(c)

Spec == Init /\ [][Next]_vars

-----------------------------------------------------------------------------
TypeOK ==
  /\ conns \subseteq Conns
  /\ setting \in [settingsRegistry -> Limits \cup {0}]
  /\ cache \in [settingsRegistry -> Limits \cup {Default, 0}]
  /\ \A r \in history : r.id \in 1..MaxEntries /\ r.user \in Users
  /\ page.filter \in Conns \cup {All} /\ page.shown \in Conns \cup {All}

\* The limit in force is the stored one, not one remembered from before an
\* administrator changed it: whenever an entry is added, the user keeps exactly
\* the newest entries up to the stored limit, whoever read the setting when.
NewestStay ==
  \A e \in history' \ history : e.id > last =>
    LET rows == OfUser(history, e.user) \cup {e} IN
    OfUser(history', e.user)
      = {r \in rows : Cardinality({q \in rows : q.id > r.id}) < Stored(Retention)}

\* The list belongs to the filters above it: with no call and no timer pending,
\* it is the answer to a call made with them, in whatever order answers came.
ListIsForFilter ==
  ~page.loading /\ ~page.timer /\ ~page.failed => page.shown = page.filter
=============================================================================
