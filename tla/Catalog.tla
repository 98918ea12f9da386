------------------------------ MODULE Catalog ------------------------------
(***************************************************************************)
(* What the metadata adapters of the two engines read from a server's      *)
(* catalog: pages of databases, schemas and objects, the parts of a        *)
(* table's description, and the objects a search finds.                    *)
(*                                                                         *)
(* Names are numbers, ordered as the queries order them.  Home is the      *)
(* database the connection is connected to; schema 0 stands for "no        *)
(* schema".  A table is [cols, idx, cons]; the other properties of columns,*)
(* indexes and constraints are left out.  A search pattern is the set of   *)
(* names it matches.  PostgreSQL's adapter keeps the pages it has read for *)
(* thirty seconds; a kept page may have expired whenever it is asked for.  *)
(* System schemas are left out.                                            *)
(***************************************************************************)
EXTENDS Naturals, Sequences, FiniteSets, FiniteSetsExt, SequencesExt

CONSTANTS
    Databases, Schemas, Names,   \* sets of positive numbers
    Shapes,                      \* what a table can look like
    PageSize,
    Home

VARIABLES
    engine,     \* "pg" or "mysql"
    catalog,    \* [dbs, schemas, objects: set of <<schema, type, name>>, shape: name -> shape]
    cachedPages \* PostgreSQL's pages: <<what is listed, offset>> |-> [items, cursor, still]

\* The types an engine lists, in the order its adapter has them.
objectTypes == IF engine = "pg" THEN <<"table", "sequence">> ELSE <<"table", "trigger">>
\* S as a sequence: the place of an element is the number of those before it.
Ranked(S, before(_, _)) ==
    [i \in 1..Cardinality(S) |-> CHOOSE x \in S : Cardinality({y \in S : before(y, x)}) = i - 1]
Sorted(S) == Ranked(S, <)

-----------------------------------------------------------------------------
(* Pages *)

NoCursor == 0
\* One row more than a page is asked for; if it comes there is a next page.
pageOf(rows, offset) ==
    LET got == SubSeq(rows, offset + 1, Min({offset + PageSize + 1, Len(rows)}))
    IN  [items |-> SubSeq(got, 1, Min({PageSize, Len(got)})),
         cursor |-> IF Len(got) > PageSize THEN offset + PageSize ELSE NoCursor]

\* A page as it is read; still says that the catalog has not changed since.
Page(p) == [items |-> p.items, cursor |-> p.cursor, still |-> TRUE]
NoPage == [items |-> << >>, cursor |-> NoCursor, still |-> TRUE]
\* cached(): a kept page is answered; one that has expired is read again, and kept when the
\* rows have come, over what was put there meanwhile.  MySQL's adapter keeps nothing.
Hit(key) == engine = "pg" /\ key \in DOMAIN cachedPages
Miss(key) == cachedPages' = [k \in DOMAIN cachedPages \ {key} |-> cachedPages[k]]
Keep(key, page) ==
    cachedPages' = [k \in DOMAIN cachedPages \cup {key} |-> IF k = key THEN page ELSE cachedPages[k]]
cacheIsKept == UNCHANGED cachedPages
invalidateCache == cachedPages' = << >>

-----------------------------------------------------------------------------
(* Databases, schemas, objects *)

databasesPg == Sorted(catalog.dbs)
databasesMysql == Sorted(catalog.dbs)
listDatabases == IF engine = "pg" THEN databasesPg ELSE databasesMysql

\* PostgreSQL answers from the database it is connected to, whichever is asked about.
schemasPg(database) == Sorted(catalog.schemas)
schemasMysql(database) == << >>
listSchemas(database) == IF engine = "pg" THEN schemasPg(database) ELSE schemasMysql(database)

objectsPg(database, schema, type) ==
    Sorted({o[3] : o \in {x \in catalog.objects : x[1] = schema /\ x[2] = type}})
objectsMysql(database, type) ==
    IF database = Home THEN Sorted({o[3] : o \in {x \in catalog.objects : x[2] = type}}) ELSE << >>
listObjects(database, schema, type) ==
    IF engine = "pg" THEN objectsPg(database, schema, type) ELSE objectsMysql(database, type)

HasTable(database, schema, name) ==
    /\ <<schema, "table", name>> \in catalog.objects
    /\ engine = "pg" \/ database = Home

-----------------------------------------------------------------------------
(* The parts of a table's description *)

Table(name) == catalog.shape[name]
\* A table that is gone has no rows in any of the catalog's relations.
listColumnsPg(d, s, n) == IF HasTable(d, s, n) THEN Table(n).cols ELSE << >>
listColumnsMysql(d, s, n) == IF HasTable(d, s, n) THEN Table(n).cols ELSE << >>

\* An index is [name, unique, keys]; a key that is no column is an expression, 0.
\* PostgreSQL prints it, MySQL's GROUP_CONCAT leaves it out.
listIndexesPg(d, s, n) == IF HasTable(d, s, n) THEN Table(n).idx ELSE {}
mapIndexes(i) == [i EXCEPT !.keys = SelectSeq(@, LAMBDA k : k # 0)]
listIndexesMysql(d, s, n) ==
    IF HasTable(d, s, n) THEN {mapIndexes(i) : i \in Table(n).idx} ELSE {}

\* A constraint is [name, type, cols].  Each of the next operators is the set of answers the
\* query can give.
listConstraintsPg(d, s, n) == {IF HasTable(d, s, n) THEN Table(n).cons ELSE {}}
\* MySQL's rows carry all columns of a constraint.
groupedColumns(c) == c.cols
\* mapConstraints makes one definition per name, with the type of the first row and the
\* columns of the last one; rows of one name come in any order.
listConstraintsMysql(d, s, n) ==
    LET cons == IF HasTable(d, s, n) THEN Table(n).cons ELSE {}
        names == {c.name : c \in cons}
        picks == {f \in [names -> cons] : \A x \in names : f[x].name = x}
    IN  {{[name |-> x, type |-> first[x].type, cols |-> groupedColumns(last[x])] : x \in names} :
            first \in picks, last \in picks}

listColumns(d, s, n) == IF engine = "pg" THEN listColumnsPg(d, s, n) ELSE listColumnsMysql(d, s, n)
listIndexes(d, s, n) == IF engine = "pg" THEN listIndexesPg(d, s, n) ELSE listIndexesMysql(d, s, n)
listConstraints(d, s, n) ==
    IF engine = "pg" THEN listConstraintsPg(d, s, n) ELSE listConstraintsMysql(d, s, n)

-----------------------------------------------------------------------------
(* Search: results are [type, database, schema, name] *)

Result(type, d, s, n) == [type |-> type, database |-> d, schema |-> s, name |-> n]
TypeOrder == <<"database", "schema", "sequence", "table", "trigger">>
Position(type) == CHOOSE i \in DOMAIN TypeOrder : TypeOrder[i] = type

searchablePg ==
    {Result("database", d, 0, d) : d \in catalog.dbs}
        \cup {Result("schema", Home, s, s) : s \in catalog.schemas}
        \cup {Result(o[2], Home, o[1], o[3]) : o \in catalog.objects}
searchableMysql ==
    {Result("database", d, 0, d) : d \in catalog.dbs}
        \cup {Result(o[2], Home, 0, o[3]) : o \in catalog.objects}
\* In the order of the query: database, then schema, then type, then name.
Before(x, y) ==
    LET key(r) == <<r.database, r.schema, Position(r.type), r.name>>
        a == key(x)
        b == key(y)
        i == Min({k \in 1..4 : a[k] # b[k]} \cup {5})
    IN  i < 5 /\ a[i] < b[i]
searchObjectsPg(match) == Ranked({r \in searchablePg : r.name \in match}, Before)
searchObjectsMysql(match) == Ranked({r \in searchableMysql : r.name \in match}, Before)
searchObjects(match) == IF engine = "pg" THEN searchObjectsPg(match) ELSE searchObjectsMysql(match)

\* rankSearchResults: within one page, exact matches first, then by type (a type the list of
\* types does not have comes before the others), then as they came.
SearchRank(type) == CASE type = "database" -> 1 [] type = "schema" -> 2 [] type = "table" -> 3 [] OTHER -> 0
rankSearchResults(items, exact) ==
    LET key(i) == <<IF items[i].name = exact THEN 0 ELSE 1, SearchRank(items[i].type), i>>
        lower(i, j) == LET a == key(i)  b == key(j)  k == Min({x \in 1..3 : a[x] # b[x]} \cup {4})
                       IN  k < 4 /\ a[k] < b[k]
        order == Ranked(DOMAIN items, lower)
    IN  [i \in DOMAIN items |-> items[order[i]]]
=============================================================================
