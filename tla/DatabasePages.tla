----------------------------- MODULE DatabasePages -----------------------------
(***************************************************************************)
(* The pages of a database (database-management.ts) and of its schemas     *)
(* (schema-management.ts): the route names a connection and a database,    *)
(* whose properties or schemas are listed, and a database or a schema is   *)
(* created, renamed or dropped in a dialog that covers the page.  A drop   *)
(* needs the name typed (destructive-action-confirmation.ts).              *)
(*                                                                         *)
(* The router may name another database at any time, and any call may      *)
(* fail.  What the forms of a new database and a new name hold, and the    *)
(* messages, are left out.                                                 *)
(***************************************************************************)
EXTENDS Naturals, FiniteSets

CONSTANTS
    Kinds,       \* which of the two pages: "database", "schema"
    Conns,       \* connections
    Names,       \* databases
    Schemas,     \* schemas
    MaxActs,     \* bound: acts of the user and of the router
    MaxCalls     \* bound: calls under way

VARIABLES
    kind,        \* the page
    conn, name,  \* selectedConnectionId, databaseName: None is ""
    known,       \* connections()
    able,        \* the connections whose status says that they have schemas
    rows,        \* database() or schemas(): the names shown
    loading, failed,              \* loading, error
    createOpen, rename, drop,     \* the dialogs: drop is Here for the database of the route
    typed,                        \* what is typed into the confirmation
    creating, renaming, dropping,
    left,        \* the page was left for the explorer
    calls,       \* the HTTP calls under way
    acts

route == <<kind, conn, name>>
dialogs == <<createOpen, rename, drop, typed>>
marks == <<loading, creating, renaming, dropping>>
vars == <<route, known, able, rows, failed, dialogs, marks, left, calls, acts>>

None == "none"
Here == "here"
\* ends names what is over when the call, and what it leads to, is.
Sent(k, c, n, o, t, e) == [kind |-> k, conn |-> c, db |-> n, of |-> o, typed |-> t, ends |-> e, n |-> acts]
Plain(k, c, n, e) == Sent(k, c, n, None, None, e)

Target == IF drop = Here THEN name ELSE drop
Shown == drop # None /\ (kind = "database" => conn \in known)
Covered == createOpen \/ rename # None \/ Shown

TypeOK ==
    /\ kind \in Kinds /\ conn \in Conns \cup {None} /\ name \in Names \cup {None}
    /\ known \subseteq Conns /\ able \subseteq Conns /\ rows \subseteq Names \cup Schemas
    /\ rename \in Schemas \cup {None} /\ drop \in Schemas \cup {None, Here}
    /\ typed \in Names \cup Schemas \cup {None}
    /\ \A m \in {loading, failed, createOpen, creating, renaming, dropping, left} : m \in BOOLEAN

\* The page opens on a route and loads; the route may open the drop of its database.
Init ==
    /\ kind \in Kinds /\ conn \in Conns \cup {None} /\ name \in Names \cup {None}
    /\ known = {} /\ able = {} /\ rows = {} /\ loading = TRUE /\ failed = FALSE
    /\ createOpen = FALSE /\ rename = None /\ typed = None
    /\ drop \in IF kind = "database" THEN {None, Here} ELSE {None}
    /\ creating = FALSE /\ renaming = FALSE /\ dropping = FALSE /\ left = FALSE
    /\ acts = 0 /\ calls = {[kind |-> "list", conn |-> None, db |-> None, of |-> None,
                             typed |-> None, ends |-> "load", n |-> 0]}

Act == ~left /\ acts < MaxActs /\ acts' = acts + 1
Room == Cardinality(calls) < MaxCalls
Body == ~Covered /\ ~loading /\ ~failed
Offered == IF kind = "database" THEN conn \in known ELSE conn \in able

Over(e) ==
    /\ loading' = (loading /\ e # "load") /\ creating' = (creating /\ e # "create")
    /\ renaming' = (renaming /\ e # "rename") /\ dropping' = (dropping /\ e # "drop")

\* load of a database page asks for the options too while the drop dialog is open.
Settled(base, c, e) ==
    IF e = "load" /\ drop = Here /\ c # None
    THEN calls' = base \cup {Plain("options", c, None, e)} /\ UNCHANGED marks
    ELSE calls' = base /\ Over(e)
\* loadDatabase, loadSchemas: nothing is asked for where there is nothing to ask about.
LoadRows(base, c, n, e) ==
    IF c # None /\ n # None /\ (kind = "schema" => c \in able)
    THEN calls' = base \cup {Plain("rows", c, n, e)} /\ UNCHANGED <<rows, marks>>
    ELSE rows' = {} /\ Settled(base, c, e)

-----------------------------------------------------------------------------
(* The route and the page *)

\* What was typed is forgotten with the dialog it was typed into.
Forget == typed' = IF Shown /\ Shown' THEN typed ELSE None

configure(c, n, opens) ==
    /\ Act /\ Room /\ conn' = c /\ name' = n
    /\ opens => kind = "database"
    /\ drop' = IF opens THEN Here ELSE drop
    /\ loading' = TRUE /\ failed' = FALSE
    /\ calls' = calls \cup {Plain("list", None, None, "load")}
    /\ UNCHANGED <<kind, known, able, rows, createOpen, rename, creating, renaming, dropping, left>>
    /\ Forget
refresh ==
    /\ Act /\ Room /\ ~Covered
    /\ IF kind = "database"
       THEN /\ loading' = TRUE /\ failed' = FALSE
            /\ calls' = calls \cup {Plain("list", None, None, "load")}
            /\ UNCHANGED <<rows, creating, renaming, dropping>>
       ELSE LoadRows(calls, conn, name, "") /\ UNCHANGED failed
    /\ UNCHANGED <<route, known, able, dialogs, left>>
onConnectionChange(c) ==
    /\ Act /\ Room /\ Body /\ c \in known /\ conn' = c
    /\ IF kind = "database" /\ name # None
       THEN /\ rows' = {} /\ calls' = calls \cup {Plain("rows", c, name, "")}
            /\ UNCHANGED marks
       ELSE LoadRows(calls, c, name, "")
    /\ UNCHANGED <<kind, name, known, able, failed, dialogs, left>>

-----------------------------------------------------------------------------
(* The dialogs *)

openCreate ==
    /\ Act /\ ~Covered /\ Offered /\ createOpen' = TRUE
    /\ IF kind = "database" THEN Room /\ calls' = calls \cup {Plain("options", conn, None, "")}
                            ELSE UNCHANGED calls
    /\ UNCHANGED <<route, known, able, rows, failed, rename, drop, typed, marks, left>>
\* Also while a creation before it is still loading the page.
closeCreate ==
    /\ Act /\ createOpen /\ ~Shown /\ ~creating /\ createOpen' = FALSE
    /\ UNCHANGED <<route, known, able, rows, failed, rename, drop, typed, marks, left, calls>>
create ==
    /\ Act /\ Room /\ createOpen /\ ~Shown /\ ~creating
    /\ IF kind = "database" THEN conn # None ELSE conn \in able
    /\ creating' = TRUE /\ calls' = calls \cup {Plain("create", conn, name, "create")}
    /\ UNCHANGED <<route, known, able, rows, failed, dialogs, loading, renaming, dropping, left>>

openRename(o) ==
    /\ Act /\ Body /\ kind = "schema" /\ conn \in able /\ o \in rows /\ rename' = o
    /\ UNCHANGED <<route, known, able, rows, failed, createOpen, drop, typed, marks, left, calls>>
closeRename ==
    /\ Act /\ rename # None /\ ~renaming /\ rename' = None
    /\ UNCHANGED <<route, known, able, rows, failed, createOpen, drop, typed, marks, left, calls>>
renameSchema ==
    /\ Act /\ Room /\ rename # None /\ conn \in able /\ ~renaming
    /\ renaming' = TRUE
    /\ calls' = calls \cup {Sent("rename", conn, name, rename, None, "rename")}
    /\ UNCHANGED <<route, known, able, rows, failed, dialogs, loading, creating, dropping, left>>

openDrop(o) ==
    /\ Act /\ Body /\ Offered /\ o \in rows
    /\ drop' = IF kind = "database" THEN Here ELSE o
    /\ typed' = None
    /\ UNCHANGED <<route, known, able, rows, failed, createOpen, rename, marks, left, calls>>
onInput(o) ==
    /\ Act /\ Shown /\ ~dropping /\ typed' = o
    /\ UNCHANGED <<route, known, able, rows, failed, createOpen, rename, drop, marks, left, calls>>
\* closeDrop, and the busy confirmation does not offer it.
mayClose == ~dropping
closeDrop ==
    /\ Act /\ Shown /\ mayClose /\ drop' = None /\ typed' = None
    /\ UNCHANGED <<route, known, able, rows, failed, createOpen, rename, marks, left, calls>>
canConfirm == ~dropping /\ typed = Target
dropDatabase ==
    /\ Act /\ Room /\ Shown /\ canConfirm
    /\ kind = "schema" => conn \in able
    /\ dropping' = TRUE
    /\ calls' = calls \cup {Sent("drop", conn, name, Target, typed, "drop")}
    /\ UNCHANGED <<route, known, able, rows, failed, dialogs, loading, creating, renaming, left>>

-----------------------------------------------------------------------------
(* The answers *)

Rest(k) == calls \ {k}

\* load: the connections; the selected one stays where it is one of them.
Listed(k) ==
    /\ k.kind = "list"
    /\ \/ /\ known' \in SUBSET Conns
          /\ IF kind = "schema"
             THEN calls' = Rest(k) \cup {[k EXCEPT !.kind = "status"]} /\ UNCHANGED <<conn, rows, marks>>
             ELSE /\ conn' \in IF conn \in known' THEN {conn} ELSE IF known' = {} THEN {None} ELSE known'
                  /\ LoadRows(Rest(k), conn', name, "load")
          /\ UNCHANGED failed
       \/ /\ failed' = TRUE /\ calls' = Rest(k) /\ Over("load")
          /\ UNCHANGED <<conn, known, rows>>
    /\ UNCHANGED <<kind, name, able, createOpen, rename, drop, left, acts>>
    /\ Forget
\* The statuses, asked for before the schemas; a failure leaves them as they were.
Refreshed(k) ==
    /\ k.kind = "status" /\ able' \in SUBSET Conns
    /\ conn' \in IF conn \in known THEN {conn} ELSE IF known = {} THEN {None} ELSE known
    /\ IF conn' # None /\ name # None /\ conn' \in able'
       THEN calls' = Rest(k) \cup {Plain("rows", conn', name, "load")} /\ UNCHANGED <<rows, marks>>
       ELSE rows' = {} /\ calls' = Rest(k) /\ Over("load")
    /\ UNCHANGED <<kind, name, known, failed, dialogs, left, acts>>
\* What is shown is what was asked for last to be answered; a failure shows nothing.
Answered(k) ==
    /\ k.kind = "rows"
    /\ \/ rows' \in (IF kind = "database" THEN {{k.db}} ELSE SUBSET Schemas) /\ UNCHANGED failed
       \/ rows' = {} /\ failed' = TRUE
    /\ Settled(Rest(k), k.conn, k.ends)
    /\ UNCHANGED <<route, known, able, dialogs, left, acts>>
Options(k) ==
    /\ k.kind = "options" /\ calls' = Rest(k) /\ Over(k.ends)
    /\ UNCHANGED <<route, known, able, rows, failed, dialogs, left, acts>>
\* A change that was made closes its dialog, and the page is read again, by whatever it
\* names by now; after a refusal the dialog stays open.
Changed(k) ==
    /\ k.kind \in {"create", "rename", "drop"}
    /\ \/ /\ createOpen' = (createOpen /\ k.kind # "create")
          /\ rename' = IF k.kind = "rename" THEN None ELSE rename
          /\ drop' = IF k.kind = "drop" THEN None ELSE drop
          /\ typed' = IF k.kind = "drop" THEN None ELSE typed
          /\ IF k.kind = "drop" /\ kind = "database"
             THEN calls' = Rest(k) \cup {[k EXCEPT !.kind = "navigate"]} /\ UNCHANGED <<rows, marks>>
             ELSE LoadRows(Rest(k), conn, name, k.ends)
       \/ calls' = Rest(k) /\ Over(k.ends) /\ UNCHANGED <<rows, dialogs>>
    /\ UNCHANGED <<route, known, able, failed, left, acts>>
\* A dropped database has no page.
Navigated(k) ==
    /\ k.kind = "navigate" /\ calls' = Rest(k) /\ Over(k.ends) /\ left' \in BOOLEAN
    /\ UNCHANGED <<route, known, able, rows, failed, dialogs, acts>>

-----------------------------------------------------------------------------
Next ==
    \/ refresh \/ openCreate \/ closeCreate \/ create
    \/ closeRename \/ renameSchema \/ closeDrop \/ dropDatabase
    \/ \E c \in Conns \cup {None}, n \in Names \cup {None}, opens \in BOOLEAN : configure(c, n, opens)
    \/ \E c \in Conns : onConnectionChange(c)
    \/ \E o \in Schemas : openRename(o)
    \/ \E o \in Names \cup Schemas : openDrop(o) \/ onInput(o)
    \/ ~left /\ \E k \in calls : Listed(k) \/ Refreshed(k) \/ Answered(k) \/ Options(k)
                                 \/ Changed(k) \/ Navigated(k)

Spec == Init /\ [][Next]_vars

-----------------------------------------------------------------------------
(* Properties *)

Running(e) == {k \in calls : k.ends = e}
One(e, mark) == Cardinality(Running(e)) = (IF mark THEN 1 ELSE 0)

\* One creation, one renaming and one drop at a time, each marked until the page was read
\* again after it, whatever the router does meanwhile (createDatabase, dropSchema).
OneMutationEach == One("create", creating) /\ One("rename", renaming) /\ One("drop", dropping)
\* The dialog of a change stays open on what the change is about until it is answered
\* (closeCreate, closeRename, closeDrop).
DialogWaits ==
    \A k \in calls : /\ k.kind = "create" => createOpen
                     /\ k.kind = "rename" => rename = k.of
                     /\ k.kind = "drop" => drop \in {k.of, Here}
\* What is dropped is what was typed, though the route may have changed the target since.
DropsWhatWasTyped == \A k \in Running("drop") : k.typed = k.of

DialogsAreTrue == OneMutationEach /\ DialogWaits /\ DropsWhatWasTyped
=============================================================================
