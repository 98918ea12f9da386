--------------------------- MODULE TableDesigner ---------------------------
(***************************************************************************)
(* The table designer: a change set is compiled to DDL against the         *)
(* metadata of the moment, once for the preview that decides whether a     *)
(* confirmation is needed and once more when it is applied.  PostgreSQL    *)
(* runs the statements in one transaction, MySQL one by one.               *)
(*                                                                         *)
(* A column is its type, nullability, default, identity and generation     *)
(* expression; index and constraint names are tuples, <<kind, column>>     *)
(* being the name generated for a column.  Lists of columns have one       *)
(* element, and sizes and precisions are part of the type.                 *)
(*                                                                         *)
(* Beside what a definition of the application can say, a column of the    *)
(* server may have properties of its own: a character set or collation, in *)
(* MySQL also ON UPDATE CURRENT_TIMESTAMP.  `own` is the set of columns    *)
(* that have any.                                                          *)
(***************************************************************************)
EXTENDS Naturals, SequencesExt, FiniteSets

CONSTANTS Names,       \* column names
          Patches,     \* what a modify may change: functions from aspects to values
          Given,       \* the columns an add or a create may define
          Tables,      \* the tables the server may have when a request comes
          MaxAlter     \* bound: alterations of a change set

VARIABLES
    engine,     \* the server: "postgresql" or "mysql"
    table,      \* the table as the server has it
    request,    \* the change set asked for
    confirm,    \* its confirmDestructive flag
    phase,      \* where the request is
    ddl,        \* the statements of apply()
    pos,        \* the statements that succeeded
    saved,      \* the table when the statements began
    original,   \* history: the table when the preview was compiled
    listing,    \* the cached list of tables: "cached" or "none"
    audit,      \* results recorded in the audit log
    drifted     \* another client altered the table after the preview

vars == <<engine, table, request, confirm, phase, ddl, pos, saved, original,
          listing, audit, drifted>>

Aspects == {"type", "nullable", "dflt", "ident", "gen"}
NoColumn == [a \in Aspects |-> "none"]
Default == "dflt"

\* Columns the server can have: an identity is an integer, and neither it nor a
\* generated column has a default.
IsColumn(c) ==
    /\ ~(c["ident"] = "yes" /\ c["gen"] # "none")
    /\ c["ident"] = "yes" \/ c["gen"] # "none" => c[Default] = "none"
    /\ c["ident"] = "yes" => c["type"] = "int"
    /\ c[Default] = "text" => c["type"] = "text"

Columns ==
    {c \in [Aspects -> {"int", "text", "yes", "no", "none", "expr", "e"}] :
       /\ c["type"] \in {"int", "text"}
       /\ c["nullable"] \in {"yes", "no"}
       /\ c[Default] \in {"none", "expr", "text"}
       /\ c["ident"] \in {"yes", "no"}
       /\ c["gen"] \in {"none", "e"}
       /\ IsColumn(c)}

NoTable == [cols |-> [n \in Names |-> NoColumn], data |-> [n \in Names |-> "none"],
            own |-> {}, idx |-> {}, cons |-> {}]
Exists(t) == \E n \in Names : t.cols[n] # NoColumn
Index(name, col) == [name |-> name, col |-> col, primary |-> FALSE]
Constraint(name, type, col) == [name |-> name, type |-> type, col |-> col]
NamesOf(items) == {i.name : i \in items}
NamePrefix(type) ==
    CASE type = "foreignKey" -> "fk" [] type = "primaryKey" -> "pk"
      [] type = "check" -> "chk" [] OTHER -> "uq"

\* The index a server keeps for a primary key or a unique constraint.
Backing(c) ==
    IF c.type \in {"primaryKey", "unique"}
    THEN {[name |-> c.name, col |-> c.col, primary |-> c.type = "primaryKey"]} ELSE {}

-----------------------------------------------------------------------------
\* mapColumn(): MySQL reports a text default without its
\* quotes; PostgreSQL reports an expression that quotes it.
mapColumn(c) ==
    IF c[Default] = "text"
    THEN [c EXCEPT ![Default] = IF engine = "mysql" THEN "bare" ELSE "quoted"] ELSE c

listColumns(t) == [n \in Names |-> mapColumn(t.cols[n])]

\* The indexes, among them the ones that back a constraint.
listIndexes(t) == t.idx

listConstraints(t) == t.cons

describeTable(t) == [cols |-> listColumns(t), idx |-> listIndexes(t), cons |-> listConstraints(t)]

\* Mutant: the default of the column is not carried over.
columnInputForgets(w) ==
    [w EXCEPT !["ident"] = IF @ = "yes" THEN "yes" ELSE "no", ![Default] = "none"]

\* columnInput(): identity, default and generation come from the metadata fields
\* of a working column, which one added by the same change set does not have.
columnInput(w) == [w EXCEPT !["ident"] = IF @ = "yes" THEN "yes" ELSE "no"]

\* alterationColumn() of PostgreSQL.
alterationColumn(w, patch) ==
    [a \in Aspects |-> IF a \in DOMAIN patch THEN patch[a] ELSE columnInput(w)[a]]

\* mergedColumn() of MySQL, by the same rules.
mergedColumn(w, patch) ==
    [a \in Aspects |-> IF a \in DOMAIN patch THEN patch[a] ELSE columnInput(w)[a]]

\* validateColumn() of PostgreSQL, on servers with identity and generated columns.
validateColumnPg(c) == IsColumn(c)

\* validateColumn() of MySQL.
validateColumnMy(c) == IsColumn(c)
validateColumn(c) == IF engine = "mysql" THEN validateColumnMy(c) ELSE validateColumnPg(c)

\* validateColumnList() for the one column of an index or a constraint.
HasColumn(w, n) == n \in Names /\ w.cols[n] # NoColumn

\* What a working column keeps after an add: the metadata fields are missing.
AddedEntry(c) == [c EXCEPT ![Default] = "none", !["ident"] = "unset", !["gen"] = "none"]

\* ... and after a modify: the metadata fields of before remain.
ModifiedEntry(w, next) == [w EXCEPT !["type"] = next["type"], !["nullable"] = next["nullable"]]

Stmt(op, col, arg) == [op |-> op, col |-> col, arg |-> arg]
Refused(w) == [w EXCEPT !.ok = FALSE]
Emit(w, stmts) == [w EXCEPT !.out = @ \o stmts]
Recreate(n, next) == <<Stmt("dropColumn", n, <<>>), Stmt("addColumn", n, next)>>

\* PostgreSQL's modify: one statement for each aspect that differs, or the column
\* is dropped and added again when its generation changes.  The identity is
\* compared with the metadata field, so that it is dropped where it is absent.
modifyPg(w, n, patch) ==
    LET cur == w.cols[n]
        base == columnInput(cur)
        next == alterationColumn(cur, patch)
        Differs(a) ==
            IF a = "ident"
            THEN next[a] # cur[a] /\ ~(cur[a] = "unset" /\ a \notin DOMAIN patch)
            ELSE next[a] # base[a]
        changed == SelectSeq(<<"type", "nullable", Default, "ident">>, Differs)
    IN  IF ~validateColumn(next) THEN Refused(w)
        ELSE [Emit(w, IF next["gen"] # base["gen"] THEN Recreate(n, next)
                      ELSE [i \in 1 .. Len(changed) |->
                              Stmt("set", n, <<changed[i], next[changed[i]]>>)])
              EXCEPT !.cols[n] = ModifiedEntry(cur, next)]

\* MySQL's modify: the whole column again.
modifyMy(w, n, patch) ==
    LET cur == w.cols[n]
        next == mergedColumn(cur, patch)
    IN  IF ~validateColumn(next) THEN Refused(w)
        ELSE [Emit(w, IF next["gen"] # columnInput(cur)["gen"] THEN Recreate(n, next)
                      ELSE <<Stmt("redefine", n, next)>>)
              EXCEPT !.cols[n] = ModifiedEntry(cur, next)]

\* add, drop and rename of compileAlteration().
addColumn(w, n, c) ==
    IF ~validateColumn(c) \/ HasColumn(w, n) THEN Refused(w)
    ELSE [Emit(w, <<Stmt("addColumn", n, c)>>) EXCEPT !.cols[n] = AddedEntry(c)]

dropColumn(w, n) ==
    [Emit(w, <<Stmt("dropColumn", n, <<>>)>>) EXCEPT !.cols[n] = NoColumn]

renameColumn(w, n, to) ==
    IF HasColumn(w, to) THEN Refused(w)
    ELSE [Emit(w, <<Stmt("rename", n, to)>>)
          EXCEPT !.cols = [@ EXCEPT ![to] = w.cols[n], ![n] = NoColumn]]

\* addIndex: the name must be free among indexes and constraints.
addIndex(w, n) ==
    LET name == <<"idx", n>>
    IN  IF ~HasColumn(w, n) \/ name \in NamesOf(w.idx) \cup NamesOf(w.cons) THEN Refused(w)
        ELSE [Emit(w, <<Stmt("addIndex", n, name)>>) EXCEPT !.idx = @ \cup {Index(name, n)}]

\* dropIndex: not the one of the primary key.
dropIndex(w, name) ==
    IF ~\E i \in w.idx : i.name = name /\ ~i.primary THEN Refused(w)
    ELSE [Emit(w, <<Stmt("dropIndex", "", name)>>) EXCEPT !.idx = {i \in @ : i.name # name}]

\* constraintSql(): the column exists, and has the type of the key a foreign key
\* refers to, which is an integer.
constraintSql(w, n, type) ==
    \/ type = "check"
    \/ HasColumn(w, n) /\ (type = "foreignKey" => w.cols[n]["type"] = "int")

\* hasSupportingIndex() and the index MySQL needs for a foreign key.
Support(w, n, type) ==
    IF engine = "mysql" /\ type = "foreignKey" /\ ~\E i \in w.idx : i.col = n
    THEN <<Stmt("addIndex", n, <<"idx", n>>)>> ELSE <<>>

addConstraint(w, n, type) ==
    LET name == <<NamePrefix(type), n>>
        support == Support(w, n, type)
    IN  IF name \in NamesOf(w.idx) \cup NamesOf(w.cons) THEN Refused(w)
        ELSE IF ~constraintSql(w, n, type) THEN Refused(w)
        ELSE [Emit(w, support \o <<Stmt("addConstraint", n, Constraint(name, type, n))>>)
              EXCEPT !.cons = @ \cup {Constraint(name, type, n)},
                     !.idx = @ \cup IF support = <<>> THEN {} ELSE {Index(<<"idx", n>>, n)}]

dropConstraint(w, name) ==
    IF name \notin NamesOf(w.cons) THEN Refused(w)
    ELSE [Emit(w, <<Stmt("dropConstraint", "", name)>>) EXCEPT !.cons = {c \in @ : c.name # name}]

\* compileAlteration(): what names a column that is not there is refused.
compileAlteration(w, alt) ==
    IF ~w.ok THEN w
    ELSE IF alt.kind \in {"drop", "rename", "modify"} /\ ~HasColumn(w, alt.col) THEN Refused(w)
    ELSE CASE alt.kind = "add" -> addColumn(w, alt.col, alt.def)
           [] alt.kind = "addIndex" -> addIndex(w, alt.col)
           [] alt.kind = "addConstraint" -> addConstraint(w, alt.col, alt.type)
           [] alt.kind = "dropIndex" -> dropIndex(w, alt.name)
           [] alt.kind = "dropConstraint" -> dropConstraint(w, alt.name)
           [] alt.kind = "drop" -> dropColumn(w, alt.col)
           [] alt.kind = "rename" -> renameColumn(w, alt.col, alt.to)
           [] alt.kind = "modify" /\ engine = "mysql" -> modifyMy(w, alt.col, alt.patch)
           [] OTHER -> modifyPg(w, alt.col, alt.patch)

-----------------------------------------------------------------------------
(* What the servers do with a statement: external. *)

\* A statement that names what is not there, or what is there already, fails; so
\* does a text default without quotes, and in MySQL the removal of a column or an
\* index that a foreign key needs.
NeededInMysql(t, n) == engine = "mysql" /\ \E c \in t.cons : c.type = "foreignKey" /\ c.col = n
Accepts(t, s) ==
    CASE s.op = "create" -> ~Exists(t)
      [] s.op = "addColumn" -> ~HasColumn(t, s.col) /\ s.arg[Default] # "bare"
      [] s.op = "dropColumn" -> HasColumn(t, s.col) /\ ~NeededInMysql(t, s.col)
      [] s.op = "rename" -> HasColumn(t, s.col) /\ ~HasColumn(t, s.arg)
      [] s.op = "redefine" -> HasColumn(t, s.col) /\ s.arg[Default] # "bare"
      [] s.op = "set" -> HasColumn(t, s.col)
      [] s.op = "addIndex" -> HasColumn(t, s.col) /\ s.arg \notin NamesOf(t.idx)
      [] s.op = "addConstraint" ->
           /\ s.arg.type # "check" => HasColumn(t, s.col)
           /\ s.arg.name \notin NamesOf(t.idx) \cup NamesOf(t.cons)
           /\ s.arg.type = "primaryKey" => ~\E c \in t.cons : c.type = "primaryKey"
           /\ engine = "mysql" /\ s.arg.type = "foreignKey" => \E i \in t.idx : i.col = s.col
      [] s.op = "dropIndex" ->
           \E i \in t.idx : /\ i.name = s.arg
                            /\ engine = "postgresql" => i.name \notin NamesOf(t.cons)
                            /\ ~NeededInMysql(t, i.col)
      [] OTHER -> s.arg \in NamesOf(t.cons)

Stored(c) == [c EXCEPT ![Default] = IF @ = "quoted" THEN "text" ELSE @]
On(items, n) == {i \in items : n # "" /\ i.col = n}
Moved(items, n, to) == {IF i.col = n THEN [i EXCEPT !.col = to] ELSE i : i \in items}

\* The table after a statement the server accepts.  MODIFY COLUMN gives a column the properties
\* its text names and no others; ALTER COLUMN TYPE without COLLATE, the collation of the type.
Executed(t, s) ==
    CASE s.op = "create" -> s.arg
      [] s.op = "addColumn" ->
           [t EXCEPT !.cols[s.col] = Stored(s.arg), !.data[s.col] = "new"]
      [] s.op = "dropColumn" ->
           [t EXCEPT !.cols[s.col] = NoColumn, !.data[s.col] = "none", !.own = @ \ {s.col},
                     !.idx = @ \ On(@, s.col), !.cons = @ \ On(@, s.col)]
      [] s.op = "rename" ->
           [cols |-> [t.cols EXCEPT ![s.arg] = t.cols[s.col], ![s.col] = NoColumn],
            data |-> [t.data EXCEPT ![s.arg] = t.data[s.col], ![s.col] = "none"],
            own |-> {IF n = s.col THEN s.arg ELSE n : n \in t.own},
            idx |-> Moved(t.idx, s.col, s.arg), cons |-> Moved(t.cons, s.col, s.arg)]
      [] s.op = "redefine" -> [t EXCEPT !.cols[s.col] = Stored(s.arg), !.own = @ \ {s.col}]
      [] s.op = "set" ->
           [t EXCEPT !.cols[s.col] = Stored([@ EXCEPT ![s.arg[1]] = s.arg[2]]),
                     !.own = @ \ IF s.arg[1] = "type" THEN {s.col} ELSE {}]
      [] s.op = "addIndex" -> [t EXCEPT !.idx = @ \cup {Index(s.arg, s.col)}]
      [] s.op = "addConstraint" ->
           [t EXCEPT !.cons = @ \cup {s.arg}, !.idx = @ \cup Backing(s.arg)]
      [] s.op = "dropIndex" ->
           [t EXCEPT !.idx = {i \in @ : i.name # s.arg}, !.cons = {c \in @ : c.name # s.arg}]
      [] OTHER ->
           LET gone == {c \in t.cons : c.name = s.arg}
           IN  [t EXCEPT !.cons = @ \ gone, !.idx = @ \ UNION {Backing(c) : c \in gone}]

-----------------------------------------------------------------------------
Create(cols, types) == [operation |-> "create", cols |-> cols, types |-> types]
Alter(alts) == [operation |-> "alter", alts |-> alts]

\* compile() for a new table: columns, constraints on them and an index of each.
CompileCreate(req) ==
    LET named == {n \in Names : req.cols[n] # NoColumn}
        cons == {Constraint(<<NamePrefix(x[2]), x[1]>>, x[2], x[1]) : x \in req.types}
        made == [cols |-> req.cols, data |-> [n \in Names |-> IF n \in named THEN "new" ELSE "none"],
                 own |-> {}, idx |-> UNION {Backing(c) : c \in cons}, cons |-> cons]
    IN  [ok |-> /\ named # {}
                /\ \A n \in named : validateColumn(req.cols[n])
                /\ ~Exists(table)
                /\ \A c \in cons : c.col \in named,
         out |-> <<Stmt("create", "", made)>>]

\* compile() for an existing table; describeTable() refuses one that is missing.
CompileAlter(req) ==
    FoldLeft(compileAlteration,
             describeTable(table) @@ [ok |-> Exists(table) /\ req.alts # <<>>, out |-> <<>>], req.alts)

Compiled == IF request.operation = "create" THEN CompileCreate(request) ELSE CompileAlter(request)

\* The destructive flag of a preview.
Destructive(out) ==
    \E i \in DOMAIN out : out[i].op \in {"dropColumn", "dropIndex", "dropConstraint"}

Alterations ==
    [kind : {"add"}, col : Names, def : Given]
    \cup [kind : {"drop", "addIndex"}, col : Names]
    \cup {r \in [kind : {"rename"}, col : Names, to : Names] : r.col # r.to}
    \cup [kind : {"modify"}, col : Names, patch : Patches]
    \cup [kind : {"addConstraint"}, col : Names, type : {"primaryKey", "unique", "foreignKey"}]
    \cup [kind : {"addConstraint"}, col : {""}, type : {"check"}]
    \cup [kind : {"dropIndex", "dropConstraint"}, name : {"idx", "uq", "fk"} \X Names]

-----------------------------------------------------------------------------
Init ==
    /\ engine \in {"postgresql", "mysql"}
    /\ table \in Tables
    /\ request = Alter(<<>>)
    /\ confirm = FALSE
    /\ phase = "idle"
    /\ ddl = <<>>
    /\ pos = 0
    /\ saved = NoTable
    /\ original = NoTable
    /\ listing = "cached"
    /\ audit = <<>>
    /\ drifted = FALSE

\* parseAlterations(): a change set of alterations, one by one.
AskAlter(alt) ==
    /\ phase = "idle"
    /\ request.operation = "alter"
    /\ Len(request.alts) < MaxAlter
    /\ request' = Alter(Append(request.alts, alt))
    /\ UNCHANGED <<engine, table, confirm, phase, ddl, pos, saved, original, listing, audit, drifted>>

\* parseChangeSet() of a new table.
AskCreate(cols, types) ==
    /\ phase = "idle"
    /\ request = Alter(<<>>)
    /\ request' = Create(cols, types)
    /\ UNCHANGED <<engine, table, confirm, phase, ddl, pos, saved, original, listing, audit, drifted>>

\* apply() up to the confirmation: the change set is compiled, refused when it is
\* not valid, and denied (with a record) when it destroys and no flag came with it.
Preview(flag) ==
    /\ phase = "idle"
    /\ confirm' = flag
    /\ original' = table
    /\ LET c == Compiled IN
         /\ phase' = IF ~c.ok THEN "refused"
                     ELSE IF Destructive(c.out) /\ ~flag THEN "denied" ELSE "approved"
         /\ audit' = IF phase' = "denied" THEN <<"denied">> ELSE <<>>
    /\ UNCHANGED <<engine, table, request, ddl, pos, saved, listing, drifted>>

\* The provider's apply() compiles again; a change set that is no longer valid is
\* recorded as a failure.
Recompile ==
    /\ phase = "approved"
    /\ LET c == Compiled IN
         /\ phase' = IF c.ok THEN "running" ELSE "failed"
         /\ ddl' = IF c.ok THEN c.out ELSE <<>>
         /\ audit' = IF c.ok THEN audit ELSE <<"failure">>
    /\ saved' = table
    /\ UNCHANGED <<engine, table, request, confirm, pos, original, listing, drifted>>

\* One statement succeeds.
RunStatement ==
    /\ phase = "running"
    /\ pos < Len(ddl)
    /\ Accepts(table, ddl[pos + 1])
    /\ table' = Executed(table, ddl[pos + 1])
    /\ pos' = pos + 1
    /\ UNCHANGED <<engine, request, confirm, phase, ddl, saved, original, listing, audit, drifted>>

Failing ==
    /\ phase = "running"
    /\ pos < Len(ddl)
    /\ phase' = "failed"
    /\ audit' = <<"failure">>
    /\ UNCHANGED <<engine, request, confirm, ddl, pos, saved, original, listing, drifted>>

\* A statement fails in PostgreSQL's apply(), for a reason of the server's or because
\* the connection is lost: the transaction is rolled back.
StatementFailsPg == engine = "postgresql" /\ Failing /\ table' = saved

\* A statement fails in MySQL's apply(): the earlier ones are kept.
StatementFailsMy == engine = "mysql" /\ Failing /\ table' = table

\* All statements succeeded: the success is recorded and the cached list dropped.
Finish ==
    /\ phase = "running"
    /\ pos = Len(ddl)
    /\ phase' = "ok"
    /\ audit' = <<"success">>
    /\ listing' = "none"
    /\ UNCHANGED <<engine, table, request, confirm, ddl, pos, saved, original, drifted>>

\* The statements succeeded but the record of it, which is required, cannot be
\* written: the caller gets an error and the cached list stays.
FinishUnrecorded ==
    /\ phase = "running"
    /\ pos = Len(ddl)
    /\ phase' = "unrecorded"
    /\ UNCHANGED <<engine, table, request, confirm, ddl, pos, saved, original, listing, audit, drifted>>

\* Another client recreates a column between the preview and apply().
Drift(n, c) ==
    /\ phase = "approved"
    /\ ~drifted
    /\ Exists(table)
    /\ table.cols[n] # c
    /\ table' = [table EXCEPT !.cols[n] = c, !.data[n] = n, !.own = @ \ {n}]
    /\ drifted' = TRUE
    /\ UNCHANGED <<engine, request, confirm, phase, ddl, pos, saved, original, listing, audit>>

Next ==
    \/ \E alt \in Alterations : AskAlter(alt)
    \/ \E cols \in [Names -> Given \cup {NoColumn}],
          types \in {{}} \cup {{<<n, t>>} : n \in Names, t \in {"primaryKey", "unique"}} :
         AskCreate(cols, types)
    \/ \E flag \in BOOLEAN : Preview(flag)
    \/ Recompile
    \/ RunStatement
    \/ StatementFailsPg
    \/ StatementFailsMy
    \/ Finish
    \/ FinishUnrecorded
    \/ \E n \in Names, c \in Given : Drift(n, c)

Spec == Init /\ [][Next]_vars

-----------------------------------------------------------------------------
(* What the change set asks for, read as a list of independent edits. *)

\* The columns whose own properties a modify costs.  Nobody asked for that: the whole column is
\* written again from metadata that lacks them (MySQL), or its type is (PostgreSQL).
Forgotten(t, n, next) ==
    IF engine = "mysql" \/ next["type"] # t.cols[n]["type"] \/ next["gen"] # t.cols[n]["gen"]
    THEN {n} ELSE {}

Edited(t, alt) ==
    LET n == alt.col IN
    CASE alt.kind = "add" -> Executed(t, Stmt("addColumn", n, alt.def))
      [] alt.kind = "drop" -> Executed(t, Stmt("dropColumn", n, <<>>))
      [] alt.kind = "rename" -> Executed(t, Stmt("rename", n, alt.to))
      [] alt.kind = "modify" ->
           LET next == alt.patch @@ t.cols[n]
               lost == IF next["gen"] = t.cols[n]["gen"] THEN "" ELSE n
           IN  [t EXCEPT !.cols[n] = next, !.own = @ \ Forgotten(t, n, next),
                         !.idx = @ \ On(@, lost), !.cons = @ \ On(@, lost)]
      [] alt.kind = "addIndex" -> Executed(t, Stmt("addIndex", n, <<"idx", n>>))
      [] alt.kind = "addConstraint" ->
           Executed(t, Stmt("addConstraint", n, Constraint(<<NamePrefix(alt.type), n>>, alt.type, n)))
      [] OTHER -> Executed(t, Stmt(alt.kind, "", alt.name))

\* A column is added or modified once.
EditedOnce ==
    LET touched == SelectSeq(request.alts, LAMBDA a : a.kind \in {"add", "modify"})
    IN  \A i, j \in DOMAIN touched : i # j => touched[i].col # touched[j].col

Succeeded == phase \in {"ok", "unrecorded"} /\ request.operation = "alter" /\ ~drifted

\* A change set that touches no column twice and meets no other client leaves, once it
\* succeeds, exactly the columns and constraints that were designed, and at least the
\* indexes: neither the comparison with metadata nor the rewriting of a whole MySQL
\* column changes an aspect the application knows (type, nullability, default, identity,
\* generation) that nobody asked to change.  What it does not know, the properties of their
\* own that columns have, is lost of the columns that Forgotten names, and of no others
\* (ModifyKeepsTheRest is false).  Only a column whose generation changes is made anew, and
\* its indexes and constraints go with the old one.
DesignedIsApplied ==
    Succeeded /\ EditedOnce =>
        LET wanted == FoldLeft(Edited, original, request.alts)
        IN  /\ table.cols = wanted.cols
            /\ table.cons = wanted.cons
            /\ table.own = wanted.own
            /\ wanted.idx \subseteq table.idx

\* A modify changes the aspects it names and nothing else, as the specification of the designer
\* has it ("perubahan dikumpulkan sebagai change set (add, modify per aspek, drop, rename
\* kolom)").  False: a column loses its character set, its collation and ON UPDATE.
ModifyKeepsTheRest ==
    Succeeded /\ (\A i \in DOMAIN request.alts : request.alts[i].kind = "modify") => table.own = original.own

Held(t) == {t.data[n] : n \in Names} \ {"none", "new"}
NothingLost(old, new) ==
    /\ Held(old) \subseteq Held(new)
    /\ NamesOf(old.idx) \subseteq NamesOf(new.idx)
    /\ NamesOf(old.cons) \subseteq NamesOf(new.cons)

\* Without the flag, no statement at any point of apply() has destroyed the data of a
\* column, an index or a constraint, if no other client changed the table meanwhile.
UnconfirmedKeeps == ~confirm /\ ~drifted /\ phase \in {"running", "ok", "unrecorded"} => NothingLost(original, table)

\* The same with other clients about, as the specification of the designer promises:
\* "Perubahan destructive dalam change set membutuhkan flag konfirmasi yang
\* diverifikasi server."
ConfirmedDrops == ~confirm /\ phase \in {"running", "ok", "unrecorded"} => NothingLost(saved, table)

\* A failed apply() leaves the table as it was (PostgreSQL) or after exactly the
\* statements its result lists as successful (MySQL).
FailureIsReported ==
    phase = "failed" =>
        table = IF engine = "postgresql" THEN saved
                ELSE FoldLeft(Executed, saved, SubSeq(ddl, 1, pos))

\* A design is applied as it was drawn or its failure is reported as it happened, and nothing is
\* lost that the user was not asked about.
DesignIsTrue == DesignedIsApplied /\ UnconfirmedKeeps /\ FailureIsReported
=============================================================================
