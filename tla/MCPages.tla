------------------------------- MODULE MCPages -------------------------------
(***************************************************************************)
(* The instances of what a user works on with queries and tables: of a tab *)
(* that follows its executions, the history with its settings, the data    *)
(* browser of a table and its grid, the table designer and its page.       *)
(* `part` says which of the six a behaviour runs; the others have no state.*)
(***************************************************************************)
EXTENDS Naturals, FiniteSets, TLC

CONSTANTS Parts,                                         \* the parts that run
          Runs, Databases,                               \* of the tab
          Users, Conns, OwnerOf, Limits, DefaultLimit,
          Reader, SavedNames,                            \* of the history
          RowKeys, Vals, Absent, PageSize, Muts,         \* of the rows; Absent is no value
          Filters, GridSize,                             \* of the grid
          Bounds                                         \* a record of all bounds

\* Executions are numbered from 1; history.maxEntriesPerUser is at least 1, as is the size of a
\* page; a key is a number, and a table has finitely many rows.
ASSUME PartsAssumption ==
    /\ Runs \subseteq Nat \ {0}
    /\ Limits \cup {DefaultLimit} \subseteq Nat \ {0}
    /\ RowKeys \subseteq Nat /\ IsFiniteSet(RowKeys)
    /\ PageSize \in Nat \ {0} /\ Bounds.bulk \in Nat
    /\ Absent \notin Vals /\ "same" \notin Vals \cup {Absent}

VARIABLES part,
          srv, tx, wire, answers, watches, editor, commands,                   \* the tab
          conns, setting, cache, entries, kept, last, listPage, lists, changes,  \* the history
          shape, rows, muts, reader, others, changed,                          \* the data browser
          keys, view, shown, loading, problem, grid, deleteRows, editing,
          inserting, reads, ticked, meant, clicks, disturbances,               \* the grid
          engine, table, request, confirm, phase, ddl, pos, saved, original,
          listing, audit, drifted,                                             \* the designer
          base, lastId, page, sent, ended, acts                                \* its page

-----------------------------------------------------------------------------
\* Two executions, followed by events of which one is on the wire, and by two polls each.
E == INSTANCE QueryEditor WITH MaxPolls <- Bounds.polls, MaxEvents <- Bounds.events,
                               MaxActs <- Bounds.commands, calls <- answers, tab <- editor,
                               acts <- commands

\* Each of two users has a connection; the limits are one and two entries.
L == INSTANCE QueryLibrary WITH Owner <- OwnerOf, Names <- SavedNames, Default <- DefaultLimit,
                                MaxEntries <- Bounds.entries,
                                MaxCalls <- Bounds.lists, MaxActs <- Bounds.changes,
                                history <- entries, saved <- kept, page <- listPage,
                                calls <- lists, acts <- changes

\* Two keys and two mutations, interchangeable; pages of one row.
B == INSTANCE DataBrowser WITH Keys <- RowKeys, MaxBulk <- Bounds.bulk, Limit <- PageSize,
                               MaxOthers <- Bounds.others

\* Three rows, and filters that let all or the odd keys through; pages of two rows.
G == INSTANCE DataGrid WITH Keys <- UNION Filters, Limit <- GridSize, MaxActs <- Bounds.clicks,
                            MaxCalls <- Bounds.reads, MaxOthers <- Bounds.others, table <- keys,
                            calls <- reads, acts <- clicks, others <- disturbances

\* The words of the table designer.
C == INSTANCE TableDesigner WITH Names <- {"a", "b"}, Patches <- {}, Given <- {}, Tables <- {},
                                MaxAlter <- 0

\* The tables: two columns; the first may have any shape, the second is absent or
\* plain; every column has properties of its own.
Column(type, dflt, ident, gen) ==
    [a \in C!Aspects |-> CASE a = "type" -> type [] a = "nullable" -> "no" [] a = "dflt" -> dflt
                         [] a = "ident" -> ident [] OTHER -> gen]
MCGiven == {Column("int", "none", "yes", "none"), Column("text", "text", "no", "none"),
            Column("int", "none", "no", "e")}
Plain == Column("text", "text", "no", "none")

Single(a, vs) == {a :> v : v \in vs}
MCPatches ==
    Single("type", {"text"}) \cup Single("nullable", {"yes"}) \cup Single("ident", {"yes", "no"})
    \cup Single("dflt", {"none", "expr"}) \cup Single("gen", {"none"})
    \cup {("dflt" :> "none") @@ ("gen" :> "e"), ("dflt" :> "none") @@ ("ident" :> "yes")}

Unique(n) == C!Constraint(<<"uq", n>>, "unique", n)
Objects ==
    {[idx |-> {}, cons |-> {}], [idx |-> {C!Index(<<"idx", "a">>, "a")}, cons |-> {}],
     [idx |-> C!Backing(Unique("a")), cons |-> {Unique("a")}],
     [idx |-> {C!Index(<<"idx", "a">>, "a")}, cons |-> {C!Constraint(<<"fk", "a">>, "foreignKey", "a")}]}

MCTables ==
    {C!NoTable} \cup
    {t \in {[cols |-> [n \in {"a", "b"} |-> IF n = "a" THEN c ELSE d],
      data |-> [n \in {"a", "b"} |-> IF n = "b" /\ d = C!NoColumn THEN "none" ELSE n],
      own |-> IF d = C!NoColumn THEN {"a"} ELSE {"a", "b"},
      idx |-> o.idx, cons |-> o.cons] :
        c \in {x \in C!Columns : x["nullable"] = "no"}, d \in {C!NoColumn, Plain}, o \in Objects} :
       t.idx = {} \/ t.cols["a"] = Column("int", "none", "no", "none")}

\* Change sets of up to two alterations.
TD == INSTANCE TableDesigner WITH Names <- {"a", "b"}, Patches <- MCPatches, Given <- MCGiven,
                                 Tables <- MCTables, MaxAlter <- Bounds.alter

\* A table of up to three columns and at most one key.
P == INSTANCE DesignerPage WITH Names <- {"a", "b", "c"}, Types <- {"t1", "t2"},
                                KeyNames <- {"k"}, TableNames <- {"x", "y"}, MaxCols <- 3,
                                MaxIds <- 3, MaxActs <- Bounds.acts, table <- base,
                                last <- lastId, calls <- sent

-----------------------------------------------------------------------------
MCOwnerOf == "c1" :> "u1" @@ "c2" :> "u2"
MCBounds == [polls |-> 2, events |-> 1, commands |-> 3, entries |-> 2, lists |-> 2, changes |-> 2,
             bulk |-> 2, others |-> 1, clicks |-> 5, reads |-> 2, alter |-> 2, acts |-> 4]

-----------------------------------------------------------------------------
tabEditor == <<srv, tx, wire, answers, watches, editor, commands>>
library == <<conns, setting, cache, entries, kept, last, listPage, lists, changes>>
browser == <<shape, rows, muts, reader, others, changed>>
gridPage == <<keys, view, shown, loading, problem, grid, deleteRows, editing, inserting, reads,
              ticked, meant, clicks, disturbances>>
tables == <<engine, table, request, confirm, phase, ddl, pos, saved, original, listing, audit,
            drifted>>
designer == <<base, lastId, page, sent, ended, acts>>
allVars == <<tabEditor, library, browser, gridPage, tables, designer, part>>

\* The variables of a part that does not run.
NoEditor ==
    /\ srv = 0 /\ tx = 0 /\ wire = 0 /\ answers = 0 /\ watches = 0 /\ editor = 0 /\ commands = 0
NoLibrary ==
    /\ conns = 0 /\ setting = 0 /\ cache = 0 /\ entries = 0 /\ kept = 0 /\ last = 0
    /\ listPage = 0 /\ lists = 0 /\ changes = 0
NoBrowser == shape = 0 /\ rows = 0 /\ muts = 0 /\ reader = 0 /\ others = 0 /\ changed = 0
NoGrid ==
    /\ keys = 0 /\ view = 0 /\ shown = 0 /\ loading = 0 /\ problem = 0 /\ grid = 0
    /\ deleteRows = 0 /\ editing = 0 /\ inserting = 0 /\ reads = 0 /\ ticked = 0 /\ meant = 0
    /\ clicks = 0 /\ disturbances = 0
NoTables ==
    /\ engine = 0 /\ table = 0 /\ request = 0 /\ confirm = 0 /\ phase = 0 /\ ddl = 0 /\ pos = 0
    /\ saved = 0 /\ original = 0 /\ listing = 0 /\ audit = 0 /\ drifted = 0
NoDesigner == base = 0 /\ lastId = 0 /\ page = 0 /\ sent = 0 /\ ended = 0 /\ acts = 0

\* Bound: the pages are turned beside one mutation, and two mutations run beside each other
\* while no page was read.
PagesBesideOne == reader.seen = << >> \/ \E m \in Muts : muts[m] = B!Idle

AllInit ==
    /\ part \in Parts
    /\ IF part = "editor" THEN E!Init ELSE NoEditor
    /\ IF part = "library" THEN L!Init ELSE NoLibrary
    /\ IF part = "browser" THEN B!Init ELSE NoBrowser
    /\ IF part = "grid" THEN G!Init ELSE NoGrid
    /\ IF part = "tables" THEN TD!Init ELSE NoTables
    /\ IF part = "designer" THEN P!Init ELSE NoDesigner

AllNext ==
    /\ UNCHANGED part
    /\ \/ /\ part = "editor" /\ E!Next
          /\ UNCHANGED <<library, browser, gridPage, tables, designer>>
       \/ /\ part = "library" /\ L!Next
          /\ UNCHANGED <<tabEditor, browser, gridPage, tables, designer>>
       \/ /\ part = "browser" /\ B!Next /\ PagesBesideOne'
          /\ UNCHANGED <<tabEditor, library, gridPage, tables, designer>>
       \/ /\ part = "grid" /\ G!Next
          /\ UNCHANGED <<tabEditor, library, browser, tables, designer>>
       \/ /\ part = "tables" /\ TD!Next
          /\ UNCHANGED <<tabEditor, library, browser, gridPage, designer>>
       \/ /\ part = "designer" /\ P!Next
          /\ UNCHANGED <<tabEditor, library, browser, gridPage, tables>>

AllSpec == AllInit /\ [][AllNext]_allVars

Symmetry == Permutations(Muts)

\* Once a watch has shown its run as ended, the run is not shown as going on again, except by
\* the answer to a cancel (QueryEditor).
EndedStaysShown == [][part = "editor" => E!EndStays]_allVars

\* When an entry is added the user keeps exactly the newest ones up to the limit
\* that is stored, whatever was read and cached before (QueryLibrary).
RetentionFollowsSetting == [][part = "library" => L!NewestStay]_allVars

\* A mutation changes the rows it names, all or none, and leaves no handle open; the pages of an
\* unchanged table with a primary key show every row once (DataBrowser).
MutationsAreWhole ==
    part = "browser" => B!AllOrNothing /\ B!NothingLeftOpen /\ B!PagesPartition

\* The rows shown are the answer to what the controls ask for (DataGrid).
ShownIsAsked == part = "grid" => G!ShownIsAsked

\* What was designed and confirmed is what is applied, or the failure is reported (TableDesigner).
DesignIsTrue == part = "tables" => TD!DesignIsTrue

\* The change set the page sends turns the table into the one designed, and drops
\* nothing the user was not asked about (DesignerPage).
DesignIsReached == part = "designer" => P!DesignIsReached /\ P!NothingDroppedUnasked

\* As documented, a delete from the selection of the grid deletes what was ticked.  It
\* does not: the selection is kept as row numbers while other rows are loaded (DataGrid).
DeletesWhatWasTicked == [][part = "grid" => G!SendsWhatWasTicked]_allVars
=============================================================================
