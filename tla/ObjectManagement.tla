--------------------------- MODULE ObjectManagement ---------------------------
(***************************************************************************)
(* Databases, schemas, tables, views, principals and grants as the server  *)
(* manages them (apps/server/src/{database-management,schema-management,   *)
(* table-operations,view-management,security,object-explorer}) over the    *)
(* provider ports of packages/database-postgresql and database-mysql.      *)
(*                                                                         *)
(* Every request of a connection uses the ONE handle the connection keeps. *)
(* A PostgreSQL handle is a reserved session, and withTransaction takes a  *)
(* second one from the pool and makes it the handle's transactionClient:   *)
(* until it is put back, the statements of every request go there.  The    *)
(* PostgreSQL metadata adapter also keeps catalog pages for TTL.           *)
(*                                                                         *)
(* A name is a number (its place in the servers' sort order).  What a      *)
(* server makes of a statement (RESTRICT, locks, transactional DDL) is     *)
(* external: Refuses, Effect, Waits.                                       *)
(***************************************************************************)
EXTENDS Integers, FiniteSets, SequencesExt

CONSTANTS
    Engines,       \* the engines explored: a subset of {"postgresql", "mysql"}
    Requests,      \* bound: requests at a time, each asked once
    Menu,          \* bound: what they ask
    Catalogs,      \* bound: the catalogs to start from
    Connected,     \* the name of the database the handle is connected to
    TTL,           \* cacheTtlMs
    PageSize,      \* the page size of the explorer
    MaxTime,       \* bound: the clock
    Offsets,       \* bound: the pages the explorer asks for
    MaxOthers      \* bound: changes by other clients, tabs that open or close

ASSUME ObjectAssumption ==
    /\ TTL \in Nat \ {0} /\ PageSize \in Nat \ {0}
    /\ Engines \subseteq {"postgresql", "mysql"}
\* No request is the name for none, and the changes of a set are a list.
ASSUME MenuAssumption ==
    /\ "none" \notin Requests
    /\ \A q \in Menu : q.kind = "grant" => q.changes \in Seq(Range(q.changes))

VARIABLES
    engine,
    catalog,   \* the committed catalog: the objects there are, and the grants
    req,       \* the requests
    tx,        \* PostgreSQL: the transaction each request opened, and what ran in it
    pointer,   \* session.transactionClient: None or the request whose transaction it is
    cache,     \* the metadata adapter: offset |-> page
    list,      \* the explorer's request
    tabs,      \* the databases active query tabs use
    now,
    history    \* ghost: statements in effect, databases hit, audit records

vars == <<engine, catalog, req, tx, pointer, cache, list, tabs, now, history>>
-------------------------------------------------------------------------------
(* The catalog.  An object is a record; a view uses what it selects from,   *)
(* a table what its foreign keys reference; a grant is an object that uses  *)
(* its table and its principal.  Databases and principals have db 0.        *)

Find(cat, db, name) == {o \in cat : o.name = name /\ o.db = db}
UsersOf(cat, o) == {u \in cat : o.name \in u.uses /\ o.db \in {u.db, 0}}
Inside(cat, o) == {i \in cat : i # o /\ CASE o.kind = "database" -> i.db = o.name
                                          [] o.kind = "schema" -> i.schema = o.name /\ i.db = o.db
                                          [] OTHER -> FALSE}

\* Databases and principals belong to the server, the rest to a database.
Target(s) == IF s.kind \in {"database", "principal"} THEN 0 ELSE s.db

\* The object a statement is about, and whether its schema is there (MySQL has none).
At(cat, s) == {o \in Find(cat, Target(s), s.name) : engine = "mysql" \/ o.schema = s.schema}
Homeless(cat, s) == engine = "postgresql" /\ s.schema # 0 /\ Find(cat, Target(s), s.schema) = {}

\* The servers: what they refuse.  PostgreSQL keeps dependent objects (RESTRICT), MySQL
\* only what foreign keys reference; both refuse a missing object and a name taken.
Refuses(cat, s) ==
    LET here == At(cat, s)
        held(o) == {u \in UsersOf(cat, o) : engine = "postgresql" \/ u.kind = "table"}
    IN  CASE s.do = "create" -> \/ here # {} \/ Homeless(cat, s)
                                \/ \E n \in s.uses : Find(cat, Target(s), n) = {}
          [] s.do = "drop" -> \/ here = {}
                              \/ \E o \in here : \/ held(o) # {}
                                                 \/ o.kind = "schema" /\ Inside(cat, o) # {}
                                                 \/ /\ o.kind = "database" /\ engine = "postgresql"
                                                    /\ o.name \in tabs \cup {Connected}
          [] s.do = "rename" -> here = {} \/ Find(cat, Target(s), s.to) # {}
          [] s.do = "truncate" -> here = {} \/ \E o \in here, u \in cat :
                                      u.kind = "table" /\ o.name \in u.uses
          [] s.do = "replace" -> here = {} \/ \E o \in here : o.shape > s.shape
          [] s.do = "alter" -> here = {}
          [] s.do \in {"grant", "revoke"} -> \/ Find(cat, 0, s.to) = {}
                                             \/ \E n \in s.uses : Find(cat, Target(s), n) = {}

Object(s) == [kind |-> s.kind, name |-> s.name, db |-> Target(s), schema |-> s.schema,
              uses |-> IF s.kind = "grant" THEN s.uses \cup {s.to} ELSE s.uses,
              shape |-> s.shape, rows |-> TRUE]

\* The servers: what a statement they accept does.
Effect(cat, s) ==
    LET here == At(cat, s)
        gone(o) == {o} \cup Inside(cat, o)
    IN  CASE s.do \in {"create", "grant"} -> cat \cup {Object(s)}
          [] s.do \in {"drop", "revoke"} -> cat \ UNION {gone(o) : o \in here}
          [] s.do = "rename" -> {IF o \in here THEN [o EXCEPT !.name = s.to]
                                 ELSE [o EXCEPT !.uses = IF s.name \in @ /\ engine = "postgresql"
                                                         THEN (@ \ {s.name}) \cup {s.to} ELSE @,
                                                !.schema = IF @ = s.name /\ o.db = Target(s)
                                                           THEN s.to ELSE @] : o \in cat}
          [] s.do = "truncate" -> {IF o \in here THEN [o EXCEPT !.rows = FALSE] ELSE o : o \in cat}
          [] s.do \in {"replace", "alter"} ->
                 {IF o \in here THEN [o EXCEPT !.shape = s.shape] ELSE o : o \in cat}
-------------------------------------------------------------------------------
(* The statements a request compiles to.                                    *)

Stmt(do, kind, q, db) ==
    [do |-> do, kind |-> kind, db |-> db, name |-> q.name, to |-> q.to, schema |-> q.schema,
     uses |-> q.uses, shape |-> q.shape]

\* A PostgreSQL statement names schema and object only (tableTarget, viewRef, identifier),
\* so it is about the database the handle is connected to; MySQL qualifies by database.
StmtPg(do, kind, q) == Stmt(do, kind, q, Connected)
StmtMysql(do, kind, q) == Stmt(do, kind, q, q.db)

\* PostgresqlDatabasePort, PostgresqlSchemaPort and PostgresqlTablePort (ALTER TABLE ..
\* RENAME TO, TRUNCATE TABLE, DROP TABLE): one statement each, no CASCADE.
DatabasePg(q) == << StmtPg(q.do, "database", q) >>
SchemaPg(q) == << StmtPg(q.do, "schema", q) >>
TablePg(q) == << StmtPg(q.do, "table", q) >>

\* previewCreate, previewAlter, previewDrop of PostgresqlViewPort.  Whether an ALTER can
\* be a CREATE OR REPLACE is read off a cached page of columns, which may be out of date.
ViewPg(q, compatible) ==
    IF q.do = "alter" /\ ~compatible
    THEN << StmtPg("drop", "view", q), StmtPg("create", "view", q) >>
    ELSE << StmtPg(IF q.do = "alter" THEN "replace" ELSE q.do, "view", q) >>

\* MysqlDatabasePort, MysqlTablePort, MysqlViewPort (ALTER VIEW redefines in place).
DatabaseMysql(q) == << StmtMysql(q.do, "database", q) >>
TableMysql(q) == << StmtMysql(q.do, "table", q) >>
ViewMysql(q) == << StmtMysql(q.do, "view", q) >>

\* CREATE, ALTER and DROP ROLE, and CREATE, ALTER and DROP USER.  A MySQL account gets a
\* new authentication plugin only together with a password: without one, compileAuthClause
\* throws and there is nothing to run.
PrincipalPg(q) == << StmtPg(q.do, "principal", q) >>
PrincipalMysql(q) ==
    IF q.plugin /\ ~q.secret THEN << >> ELSE << StmtMysql(q.do, "principal", q) >>

\* compileGrant for every change of the set, in order.
GrantsPg(q) == [i \in DOMAIN q.changes |-> StmtPg(q.changes[i].do, "grant", q.changes[i])]
GrantsMysql(q) == [i \in DOMAIN q.changes |-> StmtMysql(q.changes[i].do, "grant", q.changes[i])]

Compile(q, compatible) ==
    LET pg == engine = "postgresql"
    IN  CASE q.kind = "database" -> IF pg THEN DatabasePg(q) ELSE DatabaseMysql(q)
          [] q.kind = "schema" -> SchemaPg(q)
          [] q.kind = "table" -> IF pg THEN TablePg(q) ELSE TableMysql(q)
          [] q.kind = "view" -> IF pg THEN ViewPg(q, compatible) ELSE ViewMysql(q)
          [] q.kind = "principal" -> IF pg THEN PrincipalPg(q) ELSE PrincipalMysql(q)
          [] q.kind = "grant" -> IF pg THEN GrantsPg(q) ELSE GrantsMysql(q)

\* A plausible slip: a view is dropped and created again without a transaction.
OnlyGrantsInTransaction(q) == engine = "postgresql" /\ q.kind = "grant"

\* The requests PostgreSQL runs in a transaction.
InTransaction(q) == engine = "postgresql" /\ q.kind \in {"view", "grant"}
-------------------------------------------------------------------------------
NoRequest == [pc |-> "idle"]
None == "none"
NoTx == [state |-> "none", work |-> << >>]

\* The handle, as withConnectedProvider hands it to every request.
Init ==
    /\ engine \in Engines /\ catalog \in Catalogs
    /\ req = [r \in Requests |-> NoRequest]
    /\ tx = [r \in Requests |-> NoTx]
    /\ pointer = None /\ cache = << >> /\ list = [pc |-> "idle"]
    /\ tabs = {} /\ now = 0
    /\ history = [effect |-> {}, hit |-> {}, audit |-> {}, others |-> MaxOthers]

\* strayed: a statement of the request ran elsewhere than where its own belong, or one of
\* another request ran in its transaction and aborted it.
Open(r, q, pc, plan) ==
    [pc |-> pc, q |-> q, plan |-> plan, step |-> 1, report |-> << >>, outcome |-> "none",
     strayed |-> FALSE]
Deny(r, q) == [Open(r, q, "done", << >>) EXCEPT !.outcome = "denied"]

\* An audit record is written in the internal store before the answer.
Record(r, result) == history' = [history EXCEPT !.audit = @ \cup {<<r, result>>}]

\* DatabaseManagementService.drop: the name typed, then the tabs, then the statement.
AskDatabase(r, q) ==
    /\ q.kind = "database"
    /\ IF q.do = "drop" /\ (~q.confirm \/ q.name \in tabs)
       THEN req' = [req EXCEPT ![r] = Deny(r, q)] /\ Record(r, "denied")
       ELSE req' = [req EXCEPT ![r] = Open(r, q, "run", Compile(q, TRUE))] /\ UNCHANGED history

\* SchemaManagementService: the capability first; a drop then counts the objects.
AskSchema(r, q) ==
    /\ q.kind = "schema" /\ engine = "postgresql"
    /\ IF q.do = "drop" /\ ~q.confirm
       THEN req' = [req EXCEPT ![r] = Deny(r, q)] /\ Record(r, "denied")
       ELSE /\ req' = [req EXCEPT ![r] = Open(r, q, IF q.do = "drop" THEN "read" ELSE "run",
                                              Compile(q, TRUE))]
            /\ UNCHANGED history

\* TableOperationsService: assertConfirmation; truncate and drop read the impact first.
AskTable(r, q) ==
    /\ q.kind = "table"
    /\ IF ~q.confirm
       THEN req' = [req EXCEPT ![r] = Deny(r, q)] /\ Record(r, "denied")
       ELSE /\ req' = [req EXCEPT ![r] = Open(r, q, IF q.do = "rename" THEN "run" ELSE "read",
                                              Compile(q, TRUE))]
            /\ UNCHANGED history

\* ViewManagementService.create, alter and drop: a drop needs the name typed before
\* anything is read; all three preview first.
AskView(r, q) ==
    /\ q.kind = "view"
    /\ req' = [req EXCEPT ![r] = IF q.do = "drop" /\ ~q.confirm THEN Deny(r, q)
                                 ELSE Open(r, q, "read", << >>)]
    /\ UNCHANGED history

\* PrincipalSecurityService; the routes check the name typed for a drop, and apply asks
\* for confirmRevoke when the set revokes anything.
AskPrincipal(r, q) ==
    /\ q.kind = "principal"
    /\ req' = [req EXCEPT ![r] = IF q.do = "drop" /\ ~q.confirm THEN Deny(r, q)
                                 ELSE Open(r, q, "run", Compile(q, TRUE))]
    /\ Compile(q, TRUE) # << >> /\ UNCHANGED history

\* The statement does not compile: withAudit records the failure.
AskInvalid(r, q) ==
    /\ q.kind = "principal" /\ Compile(q, TRUE) = << >>
    /\ req' = [req EXCEPT ![r] = [Open(r, q, "done", << >>) EXCEPT !.outcome = "failed"]]
    /\ Record(r, "failure")

AskGrants(r, q) ==
    /\ q.kind = "grant"
    /\ req' = [req EXCEPT ![r] =
                 IF \/ q.changes = << >>
                    \/ ~q.confirm /\ \E i \in DOMAIN q.changes : q.changes[i].do = "revoke"
                 THEN Deny(r, q)
                 ELSE Open(r, q, IF InTransaction(q) THEN "begin" ELSE "run", Compile(q, TRUE))]
    /\ UNCHANGED history

Ask(r) ==
    /\ req[r].pc = "idle"
    /\ \E q \in Menu : \/ AskDatabase(r, q) \/ AskSchema(r, q) \/ AskTable(r, q)
                       \/ AskView(r, q) \/ AskPrincipal(r, q) \/ AskInvalid(r, q) \/ AskGrants(r, q)
    /\ UNCHANGED <<engine, catalog, tx, pointer, cache, list, tabs, now>>
-------------------------------------------------------------------------------
(* The handle.                                                              *)

\* clientFor: where the next statement of any request goes.
Backend == pointer
Dead(b) == b # None /\ tx[b].state = "closed"
Aborted(b) == b # None /\ tx[b].state = "failed"

Applied(cat, w) == FoldLeft(LAMBDA c, e : Effect(c, e.stmt), cat, w)
Seen(b) == IF b = None THEN catalog ELSE Applied(catalog, tx[b].work)

Touches(s) == IF s.kind = "grant" THEN {s.name} \cup s.uses ELSE ({s.name, s.to, s.schema} \cup s.uses) \ {0}
Waits(s, b) == \E t \in Requests \ {b} : /\ tx[t].state \in {"open", "failed"}
                                         /\ \E i \in DOMAIN tx[t].work :
                                                Touches(tx[t].work[i].stmt) \cap Touches(s) # {}

\* withAudit: the operation failed, so does the audit record and the request.
Fails(r, outcome) ==
    /\ req' = [req EXCEPT ![r].pc = "done", ![r].outcome = outcome]
    /\ Record(r, "failure")

\* schema.get and its objectCount; table.impact; previewAlter and its confirmation
\* (allowDropCreate and the name typed).  The answer is used after the await.
Inspect(r) ==
    /\ req[r].pc = "read"
    /\ LET q == req[r].q
           here == At(Seen(Backend), Compile(q, TRUE)[1])
       IN  \/ /\ Dead(Backend) \/ Aborted(Backend) \/ (q.kind # "view" /\ here = {})
              /\ IF q.kind = "view" THEN Fails(r, "failed")
                 ELSE req' = [req EXCEPT ![r].pc = "done", ![r].outcome = "failed"]
                      /\ UNCHANGED history
           \/ /\ ~Dead(Backend) /\ ~Aborted(Backend) /\ q.kind = "schema" /\ here # {}
              /\ IF \E o \in here : Inside(Seen(Backend), o) # {}
                 THEN req' = [req EXCEPT ![r] = Deny(r, q)] /\ Record(r, "denied")
                 ELSE req' = [req EXCEPT ![r].pc = "run"] /\ UNCHANGED history
           \/ /\ ~Dead(Backend) /\ ~Aborted(Backend) /\ q.kind = "table" /\ here # {}
              /\ req' = [req EXCEPT ![r].pc = "run"] /\ UNCHANGED history
           \/ /\ ~Dead(Backend) /\ ~Aborted(Backend) /\ q.kind = "view"
              /\ \E compatible \in BOOLEAN :
                   LET plan == Compile(q, compatible)
                   IN  IF Len(plan) > 1 /\ ~q.confirm THEN Fails(r, "denied")
                       ELSE /\ req' = [req EXCEPT ![r].plan = plan,
                                          ![r].pc = IF InTransaction(q) THEN "begin" ELSE "run"]
                            /\ UNCHANGED history
    /\ UNCHANGED <<engine, catalog, tx, pointer, cache, list, tabs, now>>

\* A statement of r on backend b: refused (which aborts a transaction) or in effect,
\* at once on the reserved session and at COMMIT in a transaction.
Runs(r, b, s) ==
    LET refused == Dead(b) \/ Aborted(b) \/ Refuses(Seen(b), s)
        rep == Append(req[r].report, IF refused THEN "failed" ELSE "applied")
        last == req[r].step = Len(req[r].plan)
        stops == refused /\ ~(engine = "mysql" /\ req[r].q.kind = "grant")
        own == IF InTransaction(req[r].q) THEN r ELSE None
        ends == last \/ stops
    IN  /\ req' = [req EXCEPT ![r].report = rep, ![r].step = @ + 1,
                              ![r].strayed = @ \/ b # own,
                              ![r].pc = IF ~ends THEN "run"
                                        ELSE IF InTransaction(req[r].q) THEN "end" ELSE "audit"]
        /\ catalog' = IF ~refused /\ b = None THEN Effect(catalog, s) ELSE catalog
        /\ tx' = IF b = None \/ Dead(b) THEN tx
                 ELSE IF refused THEN [tx EXCEPT ![b].state = "failed"]
                 ELSE [tx EXCEPT ![b].work = Append(@, [by |-> <<r, req[r].step>>, stmt |-> s])]
        /\ history' = [history EXCEPT
              !.effect = IF ~refused /\ b = None THEN @ \cup {<<r, req[r].step>>} ELSE @,
              !.hit = IF refused \/ Target(s) = 0 THEN @
                      ELSE @ \cup {[by |-> r, db |-> Target(s)]}]

\* PostgresqlConnectionAdapter.withTransaction: begin() reserves a session, makes it the
\* handle's transactionClient and runs the operation up to its first await.
Begin(r) ==
    /\ req[r].pc = "begin"
    /\ LET s == req[r].plan[1]
           refused == Refuses(catalog, s)
       IN  /\ ~Waits(s, r)
           /\ tx' = [tx EXCEPT ![r] = [state |-> IF refused THEN "failed" ELSE "open",
                                       before |-> pointer,
                                       work |-> IF refused THEN << >>
                                                ELSE << [by |-> <<r, 1>>, stmt |-> s] >>]]
           /\ req' = [req EXCEPT ![r].step = 2,
                                 ![r].report = << IF refused THEN "failed" ELSE "applied" >>,
                                 ![r].pc = IF refused \/ Len(req[r].plan) = 1 THEN "end" ELSE "run"]
           /\ history' = [history EXCEPT !.hit = IF refused THEN @
                                                 ELSE @ \cup {[by |-> r, db |-> Target(s)]}]
    /\ pointer' = r
    /\ UNCHANGED <<engine, catalog, cache, list, tabs, now>>

\* execute, executeParameterized and run of the two connection adapters.
Execute(r) ==
    /\ req[r].pc = "run"
    /\ LET s == req[r].plan[req[r].step]
       IN  ~Waits(s, Backend) /\ Runs(r, Backend, s)
    /\ UNCHANGED <<engine, pointer, cache, list, tabs, now>>

\* apply of the security adapter: when withTransaction throws, every statement has failed.
Reported(r, failed) ==
    IF failed THEN [i \in DOMAIN req[r].plan |-> "failed"] ELSE req[r].report

\* The operation is over: transactionClient is what it was when this one began.  When the
\* operation threw, begin() sends ROLLBACK, else COMMIT, which may be lost with its connection.
\* A statement of another request may have aborted the transaction meanwhile: the server then
\* answers COMMIT with a ROLLBACK that is no error, and the request goes on as if committed.
End(r) ==
    /\ req[r].pc = "end"
    /\ \E lost \in BOOLEAN :
         LET failed == lost \/ "failed" \in Range(req[r].report)
             aborted == tx[r].state = "failed"
             kept == ~failed /\ ~aborted
         IN  /\ catalog' = IF kept THEN Applied(catalog, tx[r].work) ELSE catalog
             /\ history' = [history EXCEPT !.effect =
                    IF kept THEN @ \cup {tx[r].work[i].by : i \in DOMAIN tx[r].work} ELSE @]
             /\ req' = [req EXCEPT ![r].pc = "audit", ![r].report = Reported(r, failed),
                                   ![r].strayed = @ \/ (aborted /\ ~failed)]
    /\ pointer' = tx[r].before
    /\ tx' = [tx EXCEPT ![r] = [@ EXCEPT !.state = "closed", !.work = << >>]]
    /\ UNCHANGED <<engine, cache, list, tabs, now>>
-------------------------------------------------------------------------------
(* After the statements: the audit record, the cache, the answer.           *)

\* A plausible slip: the pages stay.
NotInvalidated == cache

\* invalidateCache: every page of this handle goes.
Invalidated == << >>

Failed(r) == "failed" \in Range(req[r].report)

\* A view's operation empties the cache before its audit record is written; the others
\* after it, and not when writing a required record throws; a change set of grants
\* leaves the cache alone and records one result per statement.
Answer(r) ==
    /\ req[r].pc = "audit"
    /\ \E written \in BOOLEAN :
         LET q == req[r].q
             ok == ~Failed(r) \/ q.kind = "grant"
         IN  /\ ok \/ written
             /\ req' = [req EXCEPT ![r].pc = "done",
                           ![r].outcome = IF ~ok THEN "failed" ELSE IF written THEN "ok" ELSE "unaudited"]
             /\ history' = [history EXCEPT !.audit = IF ~written THEN @ ELSE @ \cup
                               (IF q.kind = "grant"
                                THEN {<<r, req[r].report[i]>> : i \in DOMAIN req[r].report}
                                ELSE {<<r, IF ok THEN "applied" ELSE "failure">>})]
             /\ cache' = IF ok /\ (q.kind = "view" \/ (written /\ q.kind \in {"database", "schema", "table"}))
                         THEN Invalidated ELSE cache
    /\ UNCHANGED <<engine, catalog, tx, pointer, list, tabs, now>>
-------------------------------------------------------------------------------
(* The object explorer over the metadata adapter.                           *)

Ttl == IF engine = "postgresql" THEN TTL ELSE 0

\* catalogSelect: what a page lists.  PostgreSQL lists the schemas of the connected
\* database and what is in them, MySQL the tables and views of a database.
ListedPg(cat) == {o \in cat : o.kind \in {"schema", "table", "view"} /\ o.db = Connected}
ListedMysql(cat) == {o \in cat : o.kind \in {"table", "view"} /\ o.db = Connected}

\* In the servers' order: the place of a name is the number of those before it.
NamesIn(cat) ==
    LET names == {o.name : o \in IF engine = "mysql" THEN ListedMysql(cat) ELSE ListedPg(cat)}
    IN  [i \in 1..Cardinality(names) |->
            CHOOSE n \in names : Cardinality({x \in names : x < n}) = i - 1]

\* normalizePage and pageOf: one row more than the page is read to know of a next one.
PageAt(cat, offset) ==
    LET all == NamesIn(cat)
        end == Min({offset + PageSize, Len(all)})
    IN  [items |-> SubSeq(all, offset + 1, end), cursor |-> IF Len(all) > end THEN end ELSE 0]

\* A page shows the statements in effect, and raced with the requests under way while it
\* was loaded; at is when its rows were read.
Loaded(offset) ==
    [page |-> PageAt(Seen(Backend), offset), at |-> now,
     shows |-> history.effect \cup
               IF Backend = None THEN {} ELSE {tx[Backend].work[i].by : i \in DOMAIN tx[Backend].work}]
Over == {r \in Requests : req[r].pc = "done"}
Asked == {r \in Requests : req[r].pc # "idle"}

\* listDatabaseChildren, listSchemaObjects, listObjectGroup: refresh empties the cache;
\* then cached() looks for the page and takes the time, before it loads.
List ==
    /\ list.pc = "idle"
    /\ \E offset \in Offsets, refresh \in BOOLEAN :
         LET pages == IF refresh THEN Invalidated ELSE cache
             hit == offset \in DOMAIN pages /\ pages[offset].expires > now
         IN  /\ cache' = pages
             /\ list' = IF hit THEN list
                        ELSE [pc |-> "load", offset |-> offset, began |-> now, over |-> Over]
    /\ UNCHANGED <<engine, catalog, req, tx, pointer, tabs, now, history>>

\* The catalog query runs on the handle.
Load ==
    /\ list.pc = "load"
    /\ list' = IF Dead(Backend) \/ Aborted(Backend) THEN [pc |-> "idle"]
               ELSE [pc |-> "store", offset |-> list.offset, began |-> list.began,
                     over |-> list.over, loaded |-> Loaded(list.offset)]
    /\ UNCHANGED <<engine, catalog, req, tx, pointer, cache, tabs, now, history>>

\* cached(): the page expires TTL after the call began.
Expires(began) == began + Ttl

Store ==
    /\ list.pc = "store"
    /\ cache' = IF Ttl = 0 THEN cache
                ELSE [o \in DOMAIN cache \cup {list.offset} |->
                        IF o = list.offset
                        THEN [expires |-> Expires(list.began), raced |-> Asked \ list.over,
                              page |-> list.loaded.page, at |-> list.loaded.at,
                              shows |-> list.loaded.shows]
                        ELSE cache[o]]
    /\ list' = [pc |-> "idle"]
    /\ UNCHANGED <<engine, catalog, req, tx, pointer, tabs, now, history>>

\* Other clients of the database server, and this user's query tabs.
Other ==
    /\ history.others > 0
    /\ history' = [history EXCEPT !.others = @ - 1]
    /\ \/ /\ \E q \in Menu : /\ q.kind \in {"table", "view"} /\ q.do \in {"create", "drop"}
                             /\ LET s == Stmt(q.do, q.kind, q, q.db)
                                IN  ~Waits(s, None) /\ ~Refuses(catalog, s) /\ catalog' = Effect(catalog, s)
          /\ UNCHANGED tabs
       \/ /\ \E o \in catalog : o.kind = "database" /\ tabs' = IF o.name \in tabs THEN tabs \ {o.name}
                                                               ELSE tabs \cup {o.name}
          /\ UNCHANGED catalog
    /\ UNCHANGED <<engine, req, tx, pointer, cache, list, now>>

\* Time matters only to the pages that are kept or being loaded.
Tick ==
    /\ now < MaxTime /\ now' = now + 1
    /\ list.pc # "idle" \/ cache # << >>
    /\ UNCHANGED <<engine, catalog, req, tx, pointer, cache, list, tabs, history>>

Next == \/ \E r \in Requests : Ask(r) \/ Inspect(r) \/ Begin(r) \/ Execute(r) \/ End(r) \/ Answer(r)
        \/ List \/ Load \/ Store \/ Other \/ Tick

Spec == Init /\ [][Next]_vars
-------------------------------------------------------------------------------
\* Did request q, as confirmed by its user, ask for the end of o?
AskedFor(q, o) ==
    \/ q.do = "drop" /\ q.confirm /\ o.name = q.name
    \/ q.do = "drop" /\ q.confirm /\ q.kind = "database" /\ o.db = q.name
    \/ q.do = "rename" /\ (o.name = q.name \/ q.kind = "schema")
    \/ q.kind = "grant" /\ \E i \in DOMAIN q.changes : q.changes[i].do = "revoke" /\ o.name = q.changes[i].name

\* An object that a step makes disappear was named by a request, or another client did it.
LostIsNamed ==
    \A o \in catalog :
       Find(catalog', o.db, o.name) = {} =>
          \/ history'.others # history.others
          \/ \E r \in Requests : req[r].pc # "idle" /\ AskedFor(req[r].q, o)

\* No request makes an object disappear that its user did not name and confirm: dependents
\* stay, a schema filled after it was counted stays, and a view that is dropped to be
\* created again is never left dropped, whatever fails and whoever else is at work.
OnlyNamedIsLost == [][LostIsNamed]_vars

\* A cached page of the explorer shows every change that was answered with success, except
\* those that were under way while the page was loaded, ran in a foreign transaction, or were
\* undone because a foreign statement aborted theirs.
OwnChangesAreShown ==
    \A p \in DOMAIN cache, r \in Requests :
       /\ req[r].pc = "done" /\ req[r].outcome = "ok" /\ ~req[r].strayed
       /\ req[r].q.kind \in {"database", "schema", "table", "view"} /\ r \notin cache[p].raced
       => \A i \in DOMAIN req[r].plan : <<r, i>> \in cache[p].shows

\* However stale, a page that may still be served from the cache was read less than TTL
\* ago, also when its load took its time.
AnswersAreRecent == \A p \in DOMAIN cache : cache[p].expires > now => now - cache[p].at < TTL

\* What a request reports is what happened: a statement reported as applied is in effect, one
\* reported as failed is not, and the audit log says the same.  Two kinds of request are
\* excepted, for both of which it is false: one of whose statements ran in another request's
\* transaction (ChangeSetIsAtomic), and one whose transaction was aborted by a statement of
\* another request (AppliedIsInEffect).
ReportIsTrue ==
    \A r \in Requests : req[r].pc = "done" /\ req[r].plan # << >> /\ ~req[r].strayed =>
       /\ \A i \in DOMAIN req[r].report : req[r].report[i] = "applied" <=> <<r, i>> \in history.effect
       /\ <<r, "applied">> \in history.audit => \E i \in DOMAIN req[r].plan : <<r, i>> \in history.effect

\* As documented, a change set on PostgreSQL is one transaction: one that failed left
\* nothing.  It does not hold: two change sets that overlap swap transactionClient.
ChangeSetIsAtomic ==
    \A r \in Requests :
       req[r].pc = "done" /\ InTransaction(req[r].q) /\ "failed" \in Range(req[r].report) =>
          \A i \in DOMAIN req[r].plan : <<r, i>> \notin history.effect

\* As documented, a change set answered statement by statement says what was applied, and what
\* is audited as granted was granted.  It does not hold: a request whose transaction was aborted
\* by a statement of another is answered "applied", and recorded so, with nothing in effect.
AppliedIsInEffect ==
    \A r \in Requests : req[r].pc = "done" =>
       \A i \in DOMAIN req[r].report : req[r].report[i] = "applied" => <<r, i>> \in history.effect

\* As documented, a statement changes the database its request names.  It does not hold
\* on PostgreSQL: it runs where the handle is connected.
RightDatabase == \A h \in history.hit : h.db = req[h.by].q.db

\* The answers of management are true: what it reports of its statements, and what it shows of
\* the objects afterwards, of requests that no other got in the way of on the shared handle.
AnswersAreTrue == OwnChangesAreShown /\ AnswersAreRecent /\ ReportIsTrue
===============================================================================
