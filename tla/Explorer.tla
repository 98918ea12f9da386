------------------------------ MODULE Explorer ------------------------------
(***************************************************************************)
(* The object explorer: the tree of the web client (explorer.store.ts,     *)
(* explorer-tree-state.ts), its search (explorer-search-state.ts), and the *)
(* server that answers it page by page (object-explorer.ts over Catalog).  *)
(*                                                                         *)
(* A node's id is its path <<connection, database, schema, type, object,   *)
(* column>>; schema 0 is left out of the tree.  The "load more" child of a *)
(* node is its cursor.  All connections are connected to one server.       *)
(* Connection groups, labels and keyboard focus are left out.  What an     *)
(* awaited call resumes runs before the next event, as a microtask does.   *)
(***************************************************************************)
EXTENDS Catalog

CONSTANTS
    Conns,       \* connections
    Queries,     \* search texts: [match: set of names, exact: a name, short: BOOLEAN]
    MaxActs,     \* bound: acts of the user
    MaxCalls,    \* bound: calls under way
    MaxChanges   \* bound: changes of the catalog, and calls that fail

VARIABLES
    nodes,       \* id -> [expanded, loaded, loading, error, cursor, kids]
    roots,       \* the ids at the top
    focus,       \* focusedId, << >> when none
    search,      \* [conn, query, items, cursor, loading, timer]
    reveal,      \* revealSearchResult under way: [st, path, at, fresh, parent: at as it was found]
    calls,       \* HTTP calls under way
    clean,       \* history: nodes whose children come from one walk over an unchanged catalog
    told,        \* history: the last description answered, and whether the table stood still
    acts, changes

tree == <<nodes, roots>>
vars == <<engine, catalog, cachedPages, tree, focus, search, reveal, calls, clean, told, acts, changes>>

NoId == << >>
NoQuery == [match |-> {}, exact |-> 0, short |-> TRUE]
NewNode == [expanded |-> FALSE, loaded |-> FALSE, loading |-> FALSE, error |-> FALSE,
            cursor |-> NoCursor, kids |-> << >>]
NoReveal == [st |-> "none", path |-> NoId, at |-> NoId, fresh |-> FALSE, parent |-> NewNode]
NewSearch == [conn |-> 0, query |-> NoQuery, items |-> << >>, cursor |-> NoCursor,
              loading |-> FALSE, timer |-> FALSE, walk |-> TRUE]
NoTold == [name |-> 0, cols |-> << >>, idx |-> {}, cons |-> {}, still |-> FALSE]

TypeOK ==
    /\ engine \in {"pg", "mysql"}
    /\ \A id \in DOMAIN nodes : DOMAIN nodes[id] = DOMAIN NewNode
    /\ roots \subseteq DOMAIN nodes \cup {<<c>> : c \in Conns}
    /\ acts \in 0..MaxActs /\ changes \in 0..MaxChanges

\* The kinds of nodes by the length of their path.
kind(id) == <<"connection", "database", "schema", "object-group", "object", "column">>[Len(id)]
Parent(id) == IF Len(id) = 4 /\ id[3] = 0 THEN SubSeq(id, 1, 2) ELSE Front(id)
Chain(id) == {x \in {SubSeq(id, 1, k) : k \in 1..Len(id)} : ~(Len(x) = 3 /\ x[3] = 0)}
Listed(x) == x \in DOMAIN nodes /\ (Len(x) = 1 \/ (Parent(x) \in DOMAIN nodes /\ x \in Range(nodes[Parent(x)].kids)))
\* visibleNodes
Visible(id) ==
    /\ \A x \in Chain(id) : Listed(x) /\ (x = id \/ nodes[x].expanded)
    /\ <<id[1]>> \in roots
\* removeDescendants
Below(id) == {x \in DOMAIN nodes : id \in Chain(x) /\ x # id
                                     /\ \A y \in Chain(x) : Len(y) > Len(id) => Listed(y)}

-----------------------------------------------------------------------------
(* Calls.  One record for all kinds; kids is the node as it was when the   *)
(* call was sent, walk says that it continues a walk that is still clean,  *)
(* fresh that its refresh emptied the cache while nobody was reading.      *)

Call(k, id, append, kids, walk) ==
    [kind |-> k, id |-> id, append |-> append, kids |-> kids, walk |-> walk,
     cursor |-> NoCursor, query |-> NoQuery, step |-> "sent", items |-> << >>, next |-> NoCursor,
     desc |-> NoTold, todo |-> {}, mine |-> FALSE, refresh |-> FALSE, fresh |-> FALSE, pageRead |-> NoPage]
With(cs, c) == cs \cup {c}

\* The reveal goes on at once after the call it waited for, before any other event.
Resuming == reveal.st \in {"go", "failed"}
Act == acts < MaxActs /\ acts' = acts + 1 /\ ~Resuming /\ Cardinality(calls) < MaxCalls
Change == changes < MaxChanges /\ changes' = changes + 1

\* fetchChildren up to its await: nothing if the node is being loaded.
fetchChildren(id, append, again, mine) ==
    LET n == nodes[id]
        c == Call(IF kind(id) = "object" THEN "describe" ELSE "list", id, append, n.kids,
                  IF append THEN id \in clean ELSE TRUE)
    IN  /\ nodes' = [nodes EXCEPT ![id].expanded = TRUE, ![id].loading = TRUE, ![id].error = FALSE]
        /\ calls' = With(calls, [c EXCEPT !.cursor = IF append THEN n.cursor ELSE NoCursor,
                                          !.refresh = again, !.mine = mine])

-----------------------------------------------------------------------------
(* The server *)

\* fetchPage and the routes: which listing a node asks for.  object-explorer.ts maps the
\* items of schemas and objects and so loses their cursor (page() of an array).
dropCursor(p) == [p EXCEPT !.cursor = NoCursor]
Child(id, x) == Append(id, x)
Groups(id, s) == [i \in DOMAIN objectTypes |-> <<id[1], id[2], s, objectTypes[i]>>]
Listing(id) ==
    CASE kind(id) = "connection" -> [i \in DOMAIN listDatabases |-> Child(id, listDatabases[i])]
      [] kind(id) = "database" ->
            IF engine = "pg" THEN [i \in DOMAIN listSchemas(id[2]) |-> Child(id, listSchemas(id[2])[i])]
            ELSE Groups(id, 0)
      [] kind(id) = "schema" -> Groups(id, id[3])
      [] OTHER -> LET o == listObjects(id[2], id[3], id[4]) IN [i \in DOMAIN o |-> Child(id, o[i])]
\* The groups of a schema or of a MySQL database come all at once.
Grouped(id) == kind(id) = "schema" \/ (kind(id) = "database" /\ engine = "mysql")
ListedPage(id, p) == IF kind(id) = "connection" THEN p ELSE dropCursor(p)

Answered(c, d) == calls' = (calls \ {c}) \cup {d}
Server == UNCHANGED <<engine, catalog, tree, focus, search, reveal, clean, told, acts>>

AnswerRoots(c) ==
    /\ c.kind = "roots" /\ c.step = "sent"
    /\ Answered(c, [c EXCEPT !.step = "ok"]) /\ Server /\ UNCHANGED <<cachedPages, changes>>
\* invalidate(): a refresh empties the cache of the connection, before anything is looked for.
Invalidate(c) ==
    /\ c.step = "sent" /\ c.refresh
    /\ Answered(c, [c EXCEPT !.refresh = FALSE, !.fresh = \A d \in calls : d.step # "reading"])
    /\ (IF engine = "pg" THEN invalidateCache ELSE UNCHANGED cachedPages)
    /\ Server /\ UNCHANGED changes
Asked(c, k) == c.kind = k /\ c.step = "sent" /\ ~c.refresh

\* What a call lists, and the answer made of a page: a page read before the catalog changed
\* ends a clean walk, unless a refresh promises that there is none.
keyOf(c) == <<c.id, c.query, c.cursor>>
rowsFor(c) == IF c.kind = "search" THEN searchObjects(c.query.match) ELSE Listing(c.id)
Answer(c, p) ==
    LET l == IF c.kind = "search" THEN [p EXCEPT !.items = rankSearchResults(@, c.query.exact)]
             ELSE ListedPage(c.id, p)
    IN  [c EXCEPT !.step = "ok", !.items = l.items, !.next = l.cursor, !.pageRead = NoPage,
                  !.walk = @ /\ (p.still \/ c.fresh)]
FromCache(c) == Hit(keyOf(c)) /\ Answered(c, Answer(c, cachedPages[keyOf(c)])) /\ UNCHANGED cachedPages
ReadPage(c) ==
    LET p == Page(pageOf(rowsFor(c), c.cursor))
    IN  \/ engine = "mysql" /\ Answered(c, Answer(c, p)) /\ UNCHANGED cachedPages
        \/ engine = "pg" /\ Answered(c, [c EXCEPT !.step = "reading", !.pageRead = p]) /\ Miss(keyOf(c))
RowsCome(c) ==
    /\ c.step = "reading" /\ Answered(c, Answer(c, c.pageRead)) /\ Keep(keyOf(c), c.pageRead)
    /\ Server /\ UNCHANGED changes

AnswerList(c) ==
    /\ Asked(c, "list")
    /\ \/ Grouped(c.id) /\ Answered(c, Answer(c, [NoPage EXCEPT !.items = Listing(c.id)])) /\ UNCHANGED cachedPages
       \/ ~Grouped(c.id) /\ (FromCache(c) \/ ReadPage(c))
    /\ Server /\ UNCHANGED changes
\* The route refuses a text of less than two characters; the client never sends one.
searchInput(q) == ~q.short
AnswerSearch(c) ==
    /\ Asked(c, "search") /\ searchInput(c.query)
    /\ FromCache(c) \/ ReadPage(c)
    /\ Server /\ UNCHANGED changes

\* describeTable: the table is looked up, then its parts are read, one query each: all at
\* once in PostgreSQL, one after the other in MySQL.
Read(c, part) ==
    LET d == c.id[2]  s == c.id[3]  n == c.id[5]
        left == c.todo \ {part}
        now == [c EXCEPT !.todo = left, !.step = IF left = {} THEN "ok" ELSE "parts"]
    IN  CASE part = "columns" -> Answered(c, [now EXCEPT !.desc.cols = listColumns(d, s, n)])
          [] part = "indexes" -> Answered(c, [now EXCEPT !.desc.idx = listIndexes(d, s, n)])
          [] part = "constraints" -> \E cons \in listConstraints(d, s, n) : Answered(c, [now EXCEPT !.desc.cons = cons])
describeTablePg(c) == \E part \in c.todo : Read(c, part)
describeTableMysql(c) ==
    \E part \in c.todo : /\ part = "indexes" => "columns" \notin c.todo
                         /\ part = "constraints" => c.todo = {"constraints"}
                         /\ Read(c, part)
requireTable(id) == id[4] = "table"
DescribeObject(c) ==
    /\ c.kind = "describe"
    /\ \/ /\ Asked(c, "describe")
          /\ Answered(c, IF requireTable(c.id) /\ HasTable(c.id[2], c.id[3], c.id[5])
                         THEN [c EXCEPT !.step = "parts", !.todo = {"columns", "indexes", "constraints"},
                                        !.desc.name = c.id[5], !.desc.still = TRUE]
                         ELSE [c EXCEPT !.step = "failed"])
       \/ c.step = "parts" /\ engine = "pg" /\ describeTablePg(c)
       \/ c.step = "parts" /\ engine = "mysql" /\ describeTableMysql(c)
    /\ Server /\ UNCHANGED <<cachedPages, changes>>

Fail(c) ==
    /\ Change /\ c.step \in {"sent", "reading"}
    /\ Answered(c, [c EXCEPT !.step = "failed", !.pageRead = NoPage]) /\ Server /\ UNCHANGED cachedPages

\* Somebody changes the catalog: a database, a table or what a table looks like.
Ddl ==
    /\ Change
    /\ \/ \E d \in Databases \ {Home} :
             catalog' = [catalog EXCEPT !.dbs = IF d \in @ THEN @ \ {d} ELSE @ \cup {d}]
       \/ \E n \in Names : LET o == <<IF engine = "pg" THEN Min(Schemas) ELSE 0, "table", n>>
                           IN  catalog' = [catalog EXCEPT !.objects = IF o \in @ THEN @ \ {o} ELSE @ \cup {o}]
       \/ \E n \in Names, s \in Shapes : catalog' = [catalog EXCEPT !.shape[n] = s]
    /\ catalog' # catalog
    /\ calls' = {[c EXCEPT !.walk = FALSE, !.desc.still = FALSE, !.pageRead.still = FALSE] : c \in calls}
    /\ cachedPages' = [k \in DOMAIN cachedPages |-> [cachedPages[k] EXCEPT !.still = FALSE]]
    /\ clean' = {} /\ search' = [search EXCEPT !.walk = FALSE]
    /\ told' = NoTold
    /\ UNCHANGED <<engine, tree, focus, reveal, acts>>

-----------------------------------------------------------------------------
(* Answers reach the tree *)

Resumes(c) == reveal' = IF c.mine THEN [reveal EXCEPT !.st = IF c.step = "ok" THEN "go" ELSE "failed"] ELSE reveal
Deliver(c, k) == c \in calls /\ c.kind = k /\ c.step \in {"ok", "failed"} /\ ~Resuming

ReceiveRoots(c) ==
    /\ Deliver(c, "roots")
    /\ calls' = {IF x.append THEN [x EXCEPT !.walk = FALSE] ELSE x : x \in calls \ {c}}
    /\ IF c.step = "ok"
       THEN /\ nodes' = [id \in {<<x>> : x \in Conns} |-> NewNode] /\ roots' = {<<x>> : x \in Conns}
            /\ clean' = {}
       ELSE UNCHANGED <<tree, clean>>
    /\ UNCHANGED <<engine, catalog, cachedPages, focus, search, reveal, told, acts, changes>>

\* The node may have been removed or loaded again since the call was sent.
Put(ns, id, n) == [x \in DOMAIN ns \cup {id} |-> IF x = id THEN n ELSE ns[x]]
Shown(n) == [n EXCEPT !.expanded = TRUE, !.loaded = TRUE, !.loading = FALSE, !.error = FALSE]
Known(id) == IF id \in DOMAIN nodes THEN nodes[id] ELSE NewNode
Filled(ns, ids) == [x \in DOMAIN ns \cup ids |-> IF x \in ids THEN NewNode ELSE ns[x]]
failedNode(id) ==
    IF id \in DOMAIN nodes THEN [nodes EXCEPT ![id].expanded = TRUE, ![id].loading = FALSE, ![id].error = TRUE]
    ELSE nodes

ReceiveList(c) ==
    /\ Deliver(c, "list") /\ calls' = calls \ {c} /\ Resumes(c)
    /\ \/ /\ c.step = "ok"
          /\ LET kids == (IF c.append THEN c.kids ELSE << >>) \o c.items
                 n == [Shown(Known(c.id)) EXCEPT !.cursor = c.next, !.kids = kids]
             IN  nodes' = Put(Filled(nodes, Range(c.items)), c.id, n)
          /\ clean' = IF c.walk THEN clean \cup {c.id} ELSE clean \ {c.id}
       \/ /\ c.step = "failed" /\ nodes' = failedNode(c.id) /\ UNCHANGED clean
    /\ UNCHANGED <<engine, catalog, cachedPages, roots, focus, search, told, acts, changes>>

ReceiveDescription(c) ==
    /\ Deliver(c, "describe") /\ calls' = calls \ {c} /\ Resumes(c)
    /\ \/ /\ c.step = "ok"
          /\ LET kids == [i \in DOMAIN c.desc.cols |-> Child(c.id, c.desc.cols[i])]
                 kept == [x \in DOMAIN nodes \ Range(c.kids) |-> nodes[x]]
             IN  nodes' = Put(Filled(kept, Range(kids)), c.id,
                              [Shown(Known(c.id)) EXCEPT !.cursor = NoCursor, !.kids = kids])
          /\ told' = c.desc
       \/ /\ c.step = "failed" /\ nodes' = failedNode(c.id) /\ UNCHANGED told
    /\ UNCHANGED <<engine, catalog, cachedPages, roots, focus, search, clean, acts, changes>>

-----------------------------------------------------------------------------
(* What the user does in the tree *)

toggle(id) ==
    /\ Act /\ Visible(id) /\ kind(id) # "column" /\ (kind(id) = "object" => id[4] = "table")
    /\ focus' = id
    /\ LET n == nodes[id]
       IN  \/ /\ n.expanded /\ n.loaded /\ ~n.error
              /\ nodes' = [nodes EXCEPT ![id].expanded = FALSE] /\ UNCHANGED calls
           \/ /\ ~(n.expanded /\ n.loaded /\ ~n.error) /\ ~n.loading
              /\ fetchChildren(id, FALSE, FALSE, FALSE)
    /\ UNCHANGED <<engine, catalog, cachedPages, roots, search, reveal, clean, told, changes>>
retry(id) ==
    /\ Act /\ Visible(id) /\ nodes[id].error /\ ~nodes[id].loading
    /\ focus' = id /\ fetchChildren(id, FALSE, FALSE, FALSE)
    /\ UNCHANGED <<engine, catalog, cachedPages, roots, search, reveal, clean, told, changes>>
loadMore(id) ==
    /\ Act /\ Visible(id) /\ nodes[id].expanded /\ nodes[id].cursor # NoCursor /\ ~nodes[id].loading
    /\ focus' = id /\ fetchChildren(id, TRUE, FALSE, FALSE)
    /\ UNCHANGED <<engine, catalog, cachedPages, roots, search, reveal, clean, told, changes>>
\* The node is emptied and loaded again even while an earlier load is under way.
refresh(id) ==
    /\ Act /\ Visible(id) /\ kind(id) # "column" /\ focus' = id
    /\ LET kept == [x \in DOMAIN nodes \ Below(id) |-> nodes[x]]
           late == {c \in calls : c.id = id}
           c == [Call(IF kind(id) = "object" THEN "describe" ELSE "list", id, FALSE, << >>, TRUE)
                   EXCEPT !.refresh = TRUE]
       IN  /\ nodes' = [kept EXCEPT ![id] = [NewNode EXCEPT !.expanded = TRUE, !.loading = TRUE]]
           /\ calls' = With((calls \ late) \cup {[x EXCEPT !.walk = FALSE] : x \in late}, c)
    /\ clean' = clean \ ({id} \cup Below(id))
    /\ UNCHANGED <<engine, catalog, cachedPages, roots, search, reveal, told, changes>>
refreshRoot ==
    /\ Act /\ calls' = With(calls, Call("roots", NoId, FALSE, << >>, TRUE))
    /\ UNCHANGED <<engine, catalog, cachedPages, tree, focus, search, reveal, clean, told, changes>>

-----------------------------------------------------------------------------
(* Search *)

activeConnectionId == IF focus \in DOMAIN nodes THEN focus[1] ELSE 0
Searches == {c \in calls : c.kind = "search"}

\* setQuery: what was pending is cancelled and the state starts over.
setQuery(q) ==
    /\ Act
    /\ search' = [NewSearch EXCEPT !.conn = activeConnectionId, !.query = q,
                                   !.timer = (activeConnectionId # 0 /\ ~q.short)]
    /\ calls' = calls \ Searches
    /\ UNCHANGED <<engine, catalog, cachedPages, tree, focus, reveal, clean, told, changes>>
request(append) ==
    /\ calls' = With(calls, [Call("search", <<search.conn>>, append, << >>, search.walk)
                               EXCEPT !.query = search.query, !.cursor = search.cursor])
    /\ search' = [search EXCEPT !.loading = TRUE, !.timer = FALSE]
Debounced ==
    /\ search.timer /\ request(FALSE)
    /\ UNCHANGED <<engine, catalog, cachedPages, tree, focus, reveal, clean, told, acts, changes>>
moreToLoad == search.conn # 0 /\ search.cursor # NoCursor /\ ~search.loading
loadMoreSearch ==
    /\ Act /\ moreToLoad /\ request(TRUE)
    /\ UNCHANGED <<engine, catalog, cachedPages, tree, focus, reveal, clean, told, changes>>
ReceiveSearch(c) ==
    /\ Deliver(c, "search") /\ calls' = calls \ {c}
    /\ search' = IF c.step = "failed" THEN [search EXCEPT !.loading = FALSE]
                 ELSE [search EXCEPT !.items = IF c.append THEN @ \o c.items ELSE c.items,
                                     !.cursor = c.next, !.loading = FALSE, !.walk = @ /\ c.walk]
    /\ UNCHANGED <<engine, catalog, cachedPages, tree, focus, reveal, clean, told, acts, changes>>

-----------------------------------------------------------------------------
(* revealSearchResult: the tree is opened level by level down to a result. *)

PathOf(c, r) ==
    CASE r.type = "database" -> <<c, r.database>>
      [] r.type = "schema" -> <<c, r.database, r.schema>>
      [] OTHER -> <<c, r.database, r.schema, r.type, r.name>>
openSearchResult(r) ==
    /\ Act /\ reveal.st = "none" /\ activeConnectionId # 0
    /\ reveal' = [NoReveal EXCEPT !.st = "go", !.path = PathOf(activeConnectionId, r), !.at = <<activeConnectionId>>]
    /\ UNCHANGED <<engine, catalog, cachedPages, tree, focus, search, calls, clean, told, changes>>

\* The next level on the way down; the last one is looked for in fresh pages.
NextLevel == LET p == reveal.path  k == Len(reveal.at) + 1
             IN  IF k = 3 /\ p[3] = 0 THEN SubSeq(p, 1, 4) ELSE SubSeq(p, 1, k)
Final == Len(reveal.at) = 4
Lost == reveal' = [reveal EXCEPT !.st = "lost"] /\ UNCHANGED <<nodes, calls>>
\* materializeSearchResult: the object is put into its group as it is, or as it was found if
\* it has been removed; an object that has a node already leaves the group alone.
materialize ==
    LET parent == IF reveal.at \in DOMAIN nodes THEN nodes[reveal.at] ELSE reveal.parent
        kids == IF reveal.path \in Range(parent.kids) THEN parent.kids ELSE Append(parent.kids, reveal.path)
    IN  /\ nodes' = IF reveal.path \in DOMAIN nodes THEN nodes
                    ELSE Put(Filled(nodes, {reveal.path}), reveal.at, [Shown(parent) EXCEPT !.kids = kids])
        /\ reveal' = [reveal EXCEPT !.st = "found", !.at = reveal.path] /\ UNCHANGED calls
\* revealed ?? materializeSearchResult(...): whatever keeps the object from being found.
NotFound == IF Final THEN materialize ELSE Lost
\* A node that is being loaded already is not waited for.
Await(append) == IF nodes[reveal.at].loading THEN NotFound
                 ELSE /\ fetchChildren(reveal.at, append, Final, TRUE)
                      /\ reveal' = [reveal EXCEPT !.st = "wait", !.fresh = Final]

Reveal ==
    /\ \/ reveal.st = "failed" /\ NotFound
       \/ /\ reveal.st = "go"
          /\ LET at == reveal.at  n == nodes[at]
             IN  IF at = reveal.path THEN reveal' = [reveal EXCEPT !.st = "found"] /\ UNCHANGED <<nodes, calls>>
                 ELSE IF at \notin DOMAIN nodes THEN Lost
                 ELSE IF ~n.loaded \/ ~n.expanded \/ n.error \/ (Final /\ ~reveal.fresh) THEN Await(FALSE)
                 ELSE IF NextLevel \in Range(n.kids) \cap DOMAIN nodes
                      THEN /\ reveal' = [reveal EXCEPT !.at = NextLevel, !.parent = nodes[NextLevel]]
                           /\ UNCHANGED <<nodes, calls>>
                 ELSE IF n.cursor # NoCursor THEN Await(TRUE)
                 ELSE NotFound
    /\ clean' = {id \in clean : nodes'[id].kids = nodes[id].kids}
    /\ UNCHANGED <<engine, catalog, cachedPages, roots, focus, search, told, acts, changes>>
\* openSearchResult resumes: the node is focused, or an error is shown.
Revealed ==
    /\ reveal.st \in {"found", "lost"}
    /\ focus' = IF reveal.st = "found" THEN reveal.path ELSE focus
    /\ reveal' = NoReveal
    /\ UNCHANGED <<engine, catalog, cachedPages, tree, search, calls, clean, told, acts, changes>>

-----------------------------------------------------------------------------
(* The tree when the page opens, and a tree as its user has left it: opened *)
(* down to the groups, a search beside it, and PostgreSQL's pages in the    *)
(* cache, the second one of the databases since before one was dropped.     *)

FirstPage(id) ==
    IF Grouped(id) THEN [NoPage EXCEPT !.items = Listing(id)] ELSE Page(pageOf(Listing(id), NoCursor))
OldPage(c) ==
    LET rows == Sorted(Databases \cup {Max(Databases) + 1})
    IN  [Page(pageOf([i \in DOMAIN rows |-> <<c, rows[i]>>], PageSize)) EXCEPT !.still = FALSE]
Fresh ==
    /\ nodes = << >> /\ roots = {} /\ focus = NoId
    /\ search = NewSearch /\ clean = {} /\ cachedPages = << >>
    /\ calls = {Call("roots", NoId, FALSE, << >>, TRUE)}
OpenedBefore ==
    \E c \in Conns, q \in {x \in Queries : ~x.short /\ x.match = {x.exact}} :
        LET open == {<<c>>, <<c, Home>>} \cup {<<c, Home, s>> : s \in catalog.schemas}
            page(id) == ListedPage(id, FirstPage(id))
            shown(id) == [Shown(NewNode) EXCEPT !.kids = page(id).items, !.cursor = page(id).cursor]
            found == pageOf(searchObjects(q.match), NoCursor)
        IN  /\ nodes = [id \in UNION {Range(page(x).items) : x \in open} \cup open |->
                            IF id \in open THEN shown(id) ELSE NewNode]
            /\ roots = {<<x>> : x \in Conns} /\ focus = <<c>> /\ clean = open /\ calls = {}
            /\ search = [NewSearch EXCEPT !.conn = c, !.query = q, !.cursor = found.cursor,
                                          !.items = rankSearchResults(found.items, q.exact)]
            /\ cachedPages = IF engine = "mysql" THEN << >>
                             ELSE [k \in {<<x, NoQuery, NoCursor>> : x \in {y \in open : ~Grouped(y)}}
                                             \cup {<<<<c>>, NoQuery, PageSize>>} |->
                                      IF k[3] = NoCursor THEN FirstPage(k[1]) ELSE OldPage(c)]

Init ==
    /\ engine \in {"pg", "mysql"}
    /\ catalog \in [dbs : {Databases}, schemas : {IF engine = "pg" THEN Schemas ELSE {}},
                    objects : {{<<IF engine = "pg" THEN Min(Schemas) ELSE 0, "table", n>> : n \in Names}},
                    shape : {CHOOSE f \in [Names -> Shapes] : Range(f) = Shapes}]   \* bound: one assignment of shapes
    /\ Fresh \/ OpenedBefore   \* bound: the second starts with one act less
    /\ reveal = NoReveal /\ told = NoTold
    /\ acts = (IF calls = {} THEN 1 ELSE 0) /\ changes = 0

-----------------------------------------------------------------------------
Next ==
    \/ \E c \in calls : AnswerRoots(c) \/ AnswerList(c) \/ AnswerSearch(c) \/ DescribeObject(c)
                       \/ Invalidate(c) \/ RowsCome(c) \/ Fail(c)
    \/ Ddl
    \/ \E c \in calls : ReceiveRoots(c) \/ ReceiveList(c) \/ ReceiveDescription(c) \/ ReceiveSearch(c)
    \/ \E id \in DOMAIN nodes : toggle(id) \/ retry(id) \/ loadMore(id) \/ refresh(id)
    \/ refreshRoot
    \/ \E q \in Queries : setQuery(q)
    \/ Debounced \/ loadMoreSearch
    \/ \E i \in DOMAIN search.items : openSearchResult(search.items[i])
    \/ Reveal \/ Revealed

Spec == Init /\ [][Next]_vars

-----------------------------------------------------------------------------
(* Properties *)

Standing(id) == id \in DOMAIN nodes /\ nodes[id].loaded /\ ~nodes[id].loading /\ ~nodes[id].error
InOrder(id) ==
    /\ IsPrefix(nodes[id].kids, Listing(id))
    /\ nodes[id].cursor = NoCursor => nodes[id].kids = Listing(id)
    /\ Range(nodes[id].kids) \subseteq DOMAIN nodes

\* Walking a folder page by page shows each of its children once, in order, and all of them
\* when there is nothing more to load, as long as the catalog stood still since the pages were
\* read and no refresh came in between (normalizePage, pageOf, fetchChildren with append,
\* findChild).  Pages kept from before a change are excepted, save after a refresh: spec 0031
\* AC-6, "refresh manual per node menginvalidasi cache metadata node itu (spec 0023/0025) dan
\* memuat ulang"; a load that was reading during the refresh may put an old page back.
\* Folders of schemas and objects are held to it only up to one page.
WalkIsComplete ==
    \A id \in clean :
        (Standing(id) /\ (kind(id) = "connection" \/ Len(Listing(id)) <= PageSize)) => InOrder(id)

\* A node that shows a spinner has a call under way that will take it away, whatever was
\* refreshed, replaced or revealed meanwhile (fetchChildren: both ends set loading to false).
SpinnerMeansCall == \A id \in DOMAIN nodes : nodes[id].loading => \E c \in calls : c.id = id

\* The search results are the first ones the current text finds, none twice, and all of them
\* when there is no next page, as long as the catalog stood still since its pages were read
\* (setQuery cancels, loadMore waits for the page before; pages may come from the cache).
SearchIsOneWalk ==
    search.walk =>
        LET all == searchObjects(search.query.match)
            k == Len(search.items)
        IN  /\ Cardinality(Range(search.items)) = k
            /\ k > 0 => /\ Range(search.items) = Range(SubSeq(all, 1, k))
                        /\ search.cursor = NoCursor => k = Len(all)

\* A table that stood still while it was described is described as it is: all columns in
\* order, every index with its columns, and every constraint whose name is its own
\* (describeTable, mapIndexes, mapConstraints).
DescribedIsTrue ==
    told.still =>
        LET t == Table(told.name)
            plain(i) == SelectSeq(i.keys, LAMBDA k : k # 0)
        IN  /\ told.cols = t.cols
            /\ \A i \in t.idx : \E j \in told.idx : j.name = i.name /\ j.unique = i.unique /\ plain(j) = plain(i)
            /\ \A c \in t.cons : (\A x \in t.cons : x.name = c.name => x = c) => c \in told.cons

\* spec 0031 AC-3: "folder besar menampilkan item "Muat lebih banyak" untuk halaman
\* berikutnya".  It fails for schemas and objects, whose cursor the server drops.
FoldersOfferMore == \A id \in clean : Standing(id) => InOrder(id)

\* A search result is opened in the connection it was found in.  It fails: the search keeps
\* its connection, opening takes the one that has the focus now.
OpenedWhereFound ==
    [][(reveal.st = "none" /\ reveal'.st = "go") => reveal'.path[1] = search.conn]_vars
=============================================================================
