------------------------------ MODULE DataGrid ------------------------------
(***************************************************************************)
(* The page that shows a table (data-browser.ts) and the grid in it        *)
(* (result-grid.ts): reading pages, filtering and sorting, ticking rows,   *)
(* and the edits, inserts and deletes that follow.                         *)
(*                                                                         *)
(* A row is its key.  A call is sent, handled by the server once, and      *)
(* answered; a read that is unsubscribed is aborted.  The grid names rows  *)
(* by their index in the page shown, as the code does; ticked and meant    *)
(* record which rows the user meant.  Searching is a filter, choosing the  *)
(* columns keeps or drops the key column.  Page sizes, exports, copying    *)
(* and the editors' text conversions are left out.                         *)
(***************************************************************************)
EXTENDS Naturals, Sequences, FiniteSets, FiniteSetsExt, SequencesExt

CONSTANTS
    Keys,        \* keys of rows
    Filters,     \* what a filter lets through: sets of keys
    Limit,       \* rows of a page
    MaxActs,     \* bound: acts of the user
    MaxCalls,    \* bound: calls under way
    MaxOthers    \* bound: changes by others, and calls that fail

VARIABLES
    table,       \* server: the keys present
    view,        \* what the page asks for: [page, filter, desc, key]
    shown,       \* the response: [rows, more, asked]; rows = << >> and asked = NoView before
    loading, problem,   \* problem: "none", "error" or "canceled"
    grid,        \* ResultGrid: [selected, last, filter, sort]
    deleteRows,  \* the confirmation dialog: the indices it is about, {} when closed
    editing,     \* the cell editor: an index, 0 when closed
    inserting,   \* the form of a new row is open
    calls,       \* HTTP calls under way
    ticked,      \* history: index -> key of the row when the user ticked it
    meant,       \* history: keys of the rows ticked when the confirmation was opened
    acts, others

pageState == <<view, shown, loading, problem>>
dialogs == <<deleteRows, editing, inserting>>
history == <<ticked, meant>>
vars == <<table, pageState, grid, dialogs, calls, history, acts, others>>

NoView == [page |-> 99, filter |-> {}, desc |-> FALSE, key |-> TRUE]
FirstView == [page |-> 0, filter |-> Keys, desc |-> FALSE, key |-> TRUE]
NewGrid == [selected |-> {}, last |-> 0, filter |-> Keys, sort |-> "none"]

TypeOK ==
    /\ table \subseteq Keys
    /\ loading \in BOOLEAN /\ problem \in {"none", "error", "canceled"}
    /\ grid.selected \subseteq 1..Limit /\ deleteRows \subseteq 1..Limit /\ editing \in 0..Limit
    /\ \A c \in calls : c.answer \in {"none", "ok", "failed"}

\* A read of the first page is sent when the page opens.
Init ==
    /\ table \in {Keys, Keys \ {Max(Keys)}}
    /\ view = FirstView /\ shown = [rows |-> << >>, more |-> FALSE, asked |-> NoView]
    /\ loading = TRUE /\ problem = "none"
    /\ grid = NewGrid /\ deleteRows = {} /\ editing = 0 /\ inserting = FALSE
    /\ calls = {[kind |-> "read", view |-> FirstView, keys |-> {}, answer |-> "none", rows |-> << >>, more |-> FALSE]}
    /\ ticked = << >> /\ meant = {}
    /\ acts = 0 /\ others = 0

Act == acts < MaxActs /\ acts' = acts + 1
\* The dialogs are modal: behind one, the page and the grid cannot be used.
NoDialog == deleteRows = {} /\ editing = 0 /\ ~inserting
Ready == shown.asked # NoView
\* The grid is on the screen unless the error panel has replaced it.
GridShown == Ready /\ problem # "error"
Editable == GridShown

-----------------------------------------------------------------------------
(* Calls *)

Sent(kind, v, ks) ==
    [kind |-> kind, view |-> v, keys |-> ks, answer |-> "none", rows |-> << >>, more |-> FALSE]
Reads == {c \in calls : c.kind = "read"}

\* read(): the read under way is unsubscribed before the next one is sent.
readKeepsOld(v, cs) ==
    /\ view' = v /\ loading' = TRUE /\ problem' = "none"
    /\ calls' = cs \cup {Sent("read", v, {})}
read(v, cs) ==
    /\ view' = v /\ loading' = TRUE /\ problem' = "none"
    /\ calls' = (cs \ Reads) \cup {Sent("read", v, {})}

\* The server reads one page, in the order asked for, and looks for one row more.
Matching(v) == LET s == SetToSortSeq(table \cap v.filter, <) IN IF v.desc THEN Reverse(s) ELSE s
PageOf(v) ==
    LET all == Matching(v)
        from == v.page * Limit
    IN  [rows |-> SubSeq(all, from + 1, IF from + Limit < Len(all) THEN from + Limit ELSE Len(all)), more |-> Len(all) > from + Limit]

HandleRead(c) ==
    /\ c.kind = "read" /\ c.answer = "none"
    /\ calls' = (calls \ {c}) \cup {[c EXCEPT !.answer = "ok", !.rows = PageOf(c.view).rows,
                                              !.more = PageOf(c.view).more]}
    /\ UNCHANGED <<table, pageState, grid, dialogs, history, acts, others>>
HandleMutation(c) ==
    /\ c.kind # "read" /\ c.answer = "none"
    /\ calls' = (calls \ {c}) \cup {[c EXCEPT !.answer = "ok"]}
    /\ table' = CASE c.kind = "delete" -> table \ c.keys
                  [] c.kind = "insert" -> table \cup c.keys
                  [] OTHER -> table
    /\ UNCHANGED <<pageState, grid, dialogs, history, acts, others>>
Fail(c) ==
    /\ others < MaxOthers /\ others' = others + 1
    /\ c.answer = "none"
    /\ calls' = (calls \ {c}) \cup {[c EXCEPT !.answer = "failed"]}
    /\ UNCHANGED <<table, pageState, grid, dialogs, history, acts>>

\* Somebody else inserts or deletes a row.
Other(k) ==
    /\ others < MaxOthers /\ others' = others + 1
    /\ table' = IF k \in table THEN table \ {k} ELSE table \cup {k}
    /\ UNCHANGED <<pageState, grid, dialogs, calls, history, acts>>

\* The grid is kept when the next page arrives; an error destroys it.
Destroyed == grid' = NewGrid /\ ticked' = << >>

ReceiveRead(c) ==
    /\ c.kind = "read" /\ c.answer # "none"
    /\ calls' = calls \ {c}
    /\ loading' = FALSE
    /\ \/ /\ c.answer = "ok"
          /\ shown' = [rows |-> c.rows, more |-> c.more, asked |-> c.view]
          /\ UNCHANGED <<problem, grid, ticked>>
       \/ /\ c.answer = "failed"
          /\ problem' = "error" /\ Destroyed
          /\ UNCHANGED shown
    /\ UNCHANGED <<table, view, dialogs, meant, acts, others>>

\* saveInsert, saveEdit, confirmDelete: what their subscriptions do with the answer.
ReceiveMutation(c) ==
    /\ c.kind # "read" /\ c.answer # "none"
    /\ \/ /\ c.answer = "ok"
          /\ deleteRows' = IF c.kind = "delete" THEN {} ELSE deleteRows
          /\ editing' = IF c.kind = "update" THEN 0 ELSE editing
          /\ inserting' = (inserting /\ c.kind # "insert")
          /\ read(view, calls \ {c})
          /\ UNCHANGED <<grid, ticked>>
       \/ /\ c.answer = "failed"
          /\ calls' = calls \ {c}
          /\ IF c.kind = "delete" THEN problem' = "error" /\ Destroyed
                                  ELSE UNCHANGED <<problem, grid, ticked>>
          /\ UNCHANGED <<view, loading, dialogs>>
    /\ UNCHANGED <<table, shown, meant, acts, others>>

-----------------------------------------------------------------------------
(* The page *)

Turn(v) ==
    /\ NoDialog /\ Act
    /\ read(v, calls)
    /\ UNCHANGED <<table, shown, grid, dialogs, history, others>>

previousPage == view.page > 0 /\ ~loading /\ Turn([view EXCEPT !.page = @ - 1])
nextPage == Ready /\ shown.more /\ ~loading /\ Turn([view EXCEPT !.page = @ + 1])
\* updateSearch: the page filters, the grid does not know of it.
updateSearch(f) == Turn([view EXCEPT !.page = 0, !.filter = f])
toggleColumn == Ready /\ Turn([view EXCEPT !.page = 0, !.key = ~@])
retry == (problem = "error" \/ (problem = "canceled" /\ ~Ready)) /\ Turn(view)

\* The grid's own filter and sort act on the rows it has at once, and ask for a new page.
updateFilter(f) ==
    /\ GridShown /\ NoDialog /\ Act
    /\ grid' = [grid EXCEPT !.filter = f]
    /\ read([view EXCEPT !.page = 0, !.filter = f], calls)
    /\ UNCHANGED <<table, shown, dialogs, history, others>>
updateSort ==
    /\ GridShown /\ NoDialog /\ Act
    /\ LET next == CASE grid.sort = "none" -> "asc" [] grid.sort = "asc" -> "desc" [] OTHER -> "none"
       IN  /\ grid' = [grid EXCEPT !.sort = next]
           /\ read([view EXCEPT !.page = 0, !.desc = (next = "desc")], calls)
    /\ UNCHANGED <<table, shown, dialogs, history, others>>

cancelRead ==
    /\ loading /\ NoDialog /\ Act
    /\ calls' = calls \ Reads
    /\ loading' = FALSE /\ problem' = "canceled"
    /\ UNCHANGED <<table, view, shown, grid, dialogs, history, others>>

-----------------------------------------------------------------------------
(* The grid: rows are ticked by their index *)

\* visibleRows: indices of the rows shown, filtered and sorted in the browser.
visibleRows ==
    LET kept == SelectSeq([i \in DOMAIN shown.rows |-> i], LAMBDA i : shown.rows[i] \in grid.filter)
        before(i, j) == IF grid.sort = "desc" THEN shown.rows[i] > shown.rows[j]
                        ELSE shown.rows[i] < shown.rows[j]
    IN  IF grid.sort = "none" THEN kept ELSE SetToSortSeq(Range(kept), before)
Position(i) == CHOOSE p \in DOMAIN visibleRows : visibleRows[p] = i

Tick(added, removed, i) ==
    /\ grid' = [grid EXCEPT !.selected = (@ \cup added) \ removed, !.last = i]
    /\ ticked' = [j \in (DOMAIN ticked \cup added) \ removed |->
                     IF j \in added /\ j \notin grid.selected THEN shown.rows[j] ELSE ticked[j]]
    /\ UNCHANGED <<table, pageState, dialogs, calls, meant, others>>

toggleRow(i) ==
    /\ GridShown /\ NoDialog /\ Act /\ i \in Range(visibleRows)
    /\ IF i \in grid.selected THEN Tick({}, {i}, i) ELSE Tick({i}, {}, i)
\* With the shift key: all rows between the last one and this one, as they are shown.
toggleRange(i) ==
    /\ GridShown /\ NoDialog /\ Act /\ {i, grid.last} \subseteq Range(visibleRows)
    /\ LET ends == {Position(i), Position(grid.last)}
       IN  Tick({visibleRows[p] : p \in Min(ends)..Max(ends)}, {}, i)

\* deleteSelectedRows opens the confirmation for the indices that are rows of this page.
deleteSelectedRows ==
    /\ Editable /\ NoDialog /\ Act
    /\ deleteRows' = grid.selected \cap DOMAIN shown.rows
    /\ deleteRows' # {}
    /\ meant' = {ticked[i] : i \in deleteRows'}
    /\ UNCHANGED <<table, pageState, grid, editing, inserting, calls, ticked, others>>

\* confirmDelete: the identities are read from the page that is shown now.  One that is
\* incomplete (no such row, or the key column is not shown) refuses the whole delete.
identitiesComplete == deleteRows \subseteq DOMAIN shown.rows /\ shown.asked.key
confirmDelete ==
    /\ deleteRows # {} /\ Act
    /\ \/ /\ identitiesComplete
          /\ calls' = calls \cup {Sent("delete", NoView, {shown.rows[i] : i \in deleteRows \cap DOMAIN shown.rows})}
          /\ UNCHANGED <<problem, grid, ticked>>
       \/ /\ ~identitiesComplete
          /\ problem' = "error" /\ Destroyed
          /\ UNCHANGED calls
    /\ UNCHANGED <<table, view, shown, loading, dialogs, meant, others>>
cancelDelete ==
    /\ deleteRows # {} /\ Act /\ deleteRows' = {}
    /\ UNCHANGED <<table, pageState, grid, editing, inserting, calls, history, others>>

-----------------------------------------------------------------------------
(* The editors *)

beginEdit(i) ==
    /\ Editable /\ NoDialog /\ Act /\ i \in Range(visibleRows)
    /\ editing' = i
    /\ UNCHANGED <<table, pageState, grid, deleteRows, inserting, calls, history, others>>
saveEdit ==
    /\ editing # 0 /\ Act
    /\ IF editing \in DOMAIN shown.rows /\ shown.asked.key
       THEN calls' = calls \cup {Sent("update", NoView, {shown.rows[editing]})}
       ELSE UNCHANGED calls
    /\ UNCHANGED <<table, pageState, grid, dialogs, history, others>>
cancelEdit ==
    /\ editing # 0 /\ Act /\ editing' = 0
    /\ UNCHANGED <<table, pageState, grid, deleteRows, inserting, calls, history, others>>
openInsert ==
    /\ NoDialog /\ Act /\ inserting' = TRUE
    /\ UNCHANGED <<table, pageState, grid, deleteRows, editing, calls, history, others>>
cancelInsert ==
    /\ inserting /\ Act /\ inserting' = FALSE
    /\ UNCHANGED <<table, pageState, grid, deleteRows, editing, calls, history, others>>
saveInsert(k) ==
    /\ inserting /\ Act
    /\ calls' = calls \cup {Sent("insert", NoView, {k})}
    /\ UNCHANGED <<table, pageState, grid, dialogs, history, others>>

-----------------------------------------------------------------------------
Step ==
    \/ \E c \in calls :
          HandleRead(c) \/ HandleMutation(c) \/ Fail(c) \/ ReceiveRead(c) \/ ReceiveMutation(c)
    \/ \E k \in Keys : Other(k) \/ saveInsert(k)
    \/ previousPage \/ nextPage \/ toggleColumn \/ retry \/ cancelRead
    \/ \E f \in Filters : updateSearch(f) \/ updateFilter(f)
    \/ updateSort
    \/ \E i \in 1..Limit : toggleRow(i) \/ toggleRange(i) \/ beginEdit(i)
    \/ deleteSelectedRows \/ confirmDelete \/ cancelDelete
    \/ saveEdit \/ cancelEdit \/ openInsert \/ cancelInsert

Next == Step /\ Cardinality(calls') <= MaxCalls

Spec == Init /\ [][Next]_vars

-----------------------------------------------------------------------------
(* Properties *)

\* Once nothing is being loaded, and neither an error nor a cancelled read is shown, the rows
\* on the screen answer the page, filter, order and columns chosen last: a slow answer to an
\* earlier choice never replaces them (read(): unsubscribe before the next request).
ShownIsAsked == (~loading /\ problem = "none") => shown.asked = view

\* A delete names as many rows as its confirmation said, although the page may have been
\* replaced by a shorter one since the dialog was opened (confirmDelete: incomplete identity).
SendsConfirmedCount ==
    \A c \in calls' \ calls :
       (c.kind = "delete" /\ c.answer = "none") => Cardinality(c.keys) = Cardinality(deleteRows)
ConfirmedCount == [][SendsConfirmedCount]_vars

\* spec 0038 AC-4 of a bulk delete "dari seleksi grid": the rows deleted are rows the user
\* ticked.  It fails: the grid keeps indices when the page under them changes.
SendsWhatWasTicked ==
    \A c \in calls' \ calls : (c.kind = "delete" /\ c.answer = "none") => c.keys \subseteq meant
DeletesWhatWasTicked == [][SendsWhatWasTicked]_vars
=============================================================================
