---------------------------- MODULE DesignerPage ----------------------------
(***************************************************************************)
(* The table designer in the browser                                       *)
(* (apps/web/src/app/features/table-designer): the page keeps the table as *)
(* it was loaded beside the table as it is being designed, and sends the   *)
(* difference as a change set, first to be previewed and then to be        *)
(* applied.  Calls take time and the user goes on editing.                 *)
(*                                                                         *)
(* How the server compiles a change set is TableDesigner's subject; here   *)
(* the alterations are carried out one after the other.  A column of the   *)
(* database has an identity, so that a dropped and added column is not     *)
(* taken for a kept one.  Indexes and constraints are treated alike by the *)
(* page and are called keys; a key names one column.                       *)
(***************************************************************************)
EXTENDS Naturals, Sequences, FiniteSets, SequencesExt

CONSTANTS Names,        \* column names
          Types,
          KeyNames,
          TableNames,
          MaxCols,      \* bound on the columns being designed
          MaxIds,       \* bound on the columns ever made
          MaxActs       \* bound on what the user and others do

VARIABLES table,        \* the database's table: [there, name, cols, keys]
          last,         \* identities handed out
          page,         \* what the component holds
          calls,        \* calls under way
          ended,        \* the last apply: what was sent, and how it ended
          acts

vars == <<table, last, page, calls, ended, acts>>

None == "none"
NoPreview == [destructive |-> FALSE, set |-> << >>]
NothingSent == [committed |-> FALSE]

Spend == acts < MaxActs /\ acts' = acts + 1

\* freshColumn() and the entry of an index or constraint that is being added.
freshColumn == [name |-> "", orig |-> None, type |-> CHOOSE t \in Types : TRUE]

Ids(cols) == {c.id : c \in cols}
Named(things, n) == {x \in things : x.name = n}

-----------------------------------------------------------------------------
(* The database carries alterations out.                                   *)

\* What one alteration makes of a state [ok, cols, keys, last].
Altered(s, a) ==
  LET fails == [s EXCEPT !.ok = FALSE]
      col == CHOOSE c \in s.cols : c.name = a.name
      missing == a.kind \in {"modify", "rename", "drop"} /\ Named(s.cols, a.name) = {}
  IN IF ~s.ok \/ missing THEN fails
     ELSE CASE a.kind = "add" ->
            IF Named(s.cols, a.name) # {} \/ a.name = "" THEN fails
            ELSE [s EXCEPT !.cols = @ \cup {[name |-> a.name, type |-> a.to, id |-> s.last + 1]},
                           !.last = @ + 1]
       [] a.kind = "modify" ->
            [s EXCEPT !.cols = (@ \ {col}) \cup {[col EXCEPT !.type = a.to]}]
       [] a.kind = "rename" ->
            IF Named(s.cols, a.to) # {} \/ a.to = "" THEN fails
            ELSE [s EXCEPT !.cols = (@ \ {col}) \cup {[col EXCEPT !.name = a.to]}]
       [] a.kind = "drop" ->
            [s EXCEPT !.cols = @ \ {col}, !.keys = {k \in @ : k.id # col.id}]
       [] a.kind = "addKey" ->
            IF Named(s.keys, a.name) # {} \/ Named(s.cols, a.to) = {} THEN fails
            ELSE [s EXCEPT !.keys = @ \cup {[name |-> a.name,
                    id |-> (CHOOSE c \in s.cols : c.name = a.to).id]}]
       [] a.kind = "dropKey" ->
            IF Named(s.keys, a.name) = {} THEN fails
            ELSE [s EXCEPT !.keys = {k \in @ : k.name # a.name}]

Carried(t, set) ==
  FoldLeft(Altered, [ok |-> TRUE, cols |-> t.cols, keys |-> t.keys, last |-> last], set)

-----------------------------------------------------------------------------
(* The page's change set.                                                  *)

Of(kind, name, to) == <<[kind |-> kind, name |-> name, to |-> to]>>

\* A column of the editor: new, or compared with the one it was loaded as.
ofColumn(original, c) ==
  IF c.orig = None THEN Of("add", c.name, c.type)
  ELSE LET current == CHOOSE o \in original : o.name = c.orig IN
       (IF c.type # current.type THEN Of("modify", c.orig, c.type) ELSE << >>)
         \o (IF c.name # c.orig THEN Of("rename", c.orig, c.name) ELSE << >>)

\* Those that were kept are not taken off the list (a mutant).
removedAll(original, things) == original

\* The originals that no column of the editor comes from.
removed(original, things) == {o \in original : \A x \in things : x.orig # o.name}

\* An index or constraint: new, or dropped and added again when it was changed.
ofKey(original, k) ==
  IF k.orig = None THEN Of("addKey", k.name, k.col)
  ELSE IF [name |-> k.name, col |-> k.col] \in original /\ k.name = k.orig THEN << >>
  ELSE Of("dropKey", k.orig, None) \o Of("addKey", k.name, k.col)

Each(things, Op(_)) == FlattenSeq([i \in DOMAIN things |-> Op(things[i])])

changeSet ==
  Each(page.cols, LAMBDA c : ofColumn(page.original, c))
    \o Each(SetToSeq(removed(page.original, Range(page.cols))), LAMBDA o : Of("drop", o.name, None))
    \o Each(SetToSeq(page.keys), LAMBDA k : ofKey(page.originalKeys, k))
    \o Each(SetToSeq(removed(page.originalKeys, page.keys)), LAMBDA o : Of("dropKey", o.name, None))

Destructive(set) == \E i \in DOMAIN set : set[i].kind \in {"drop", "dropKey"}

-----------------------------------------------------------------------------
(* Loading.                                                                *)

\* describeObject(): the names and types of the columns, the keys by name.
Described(t) ==
  [cols |-> {[name |-> c.name, type |-> c.type] : c \in t.cols},
   keys |-> {[name |-> k.name, col |-> (CHOOSE c \in t.cols : c.id = k.id).name] : k \in t.keys}]

\* The editor's copy of what was loaded; each entry knows where it comes from.
Editable(d) ==
  [cols |-> LET s == SetToSeq(d.cols) IN
            [i \in DOMAIN s |-> [name |-> s[i].name, orig |-> s[i].name, type |-> s[i].type]],
   keys |-> {[name |-> k.name, orig |-> k.name, col |-> k.col] : k \in d.keys}]

\* Two columns, numbered 1 and 2.
FirstColumns ==
  LET a == CHOOSE n \in Names : TRUE
      b == CHOOSE n \in Names : n # a
  IN {[name |-> a, type |-> freshColumn.type, id |-> 1],
      [name |-> b, type |-> freshColumn.type, id |-> 2]}

\* constructor(): the page is opened on a table and loads it, or on a new one.
Init ==
  /\ \/ \E keys \in SUBSET KeyNames :
          table = [there |-> TRUE, name |-> CHOOSE n \in TableNames : TRUE, cols |-> FirstColumns,
                   keys |-> {[name |-> k, id |-> 1] : k \in keys}]
     \/ table = [there |-> FALSE, name |-> CHOOSE n \in TableNames : TRUE, cols |-> {}, keys |-> {}]
  /\ last = 2
  /\ page = [open |-> TRUE, create |-> ~table.there, ref |-> table.name, loading |-> TRUE, saving |-> FALSE,
             original |-> {}, originalKeys |-> {}, cols |-> <<freshColumn>>, keys |-> {},
             preview |-> NoPreview, confirm |-> FALSE, operation |-> None]
  /\ calls = {[op |-> "load", ref |-> table.name]}
  /\ ended = NothingSent
  /\ acts = 0

Answered(c) == c \in calls /\ calls' = calls \ {c}

\* load(): the editor is overwritten with what the database has now.
Loaded(c) ==
  /\ Answered(c) /\ c.op = "load"
  /\ ~page.create /\ table.there /\ c.ref = table.name
  /\ LET d == Described(table) IN
     page' = [page EXCEPT !.original = d.cols, !.originalKeys = d.keys,
                          !.cols = Editable(d).cols, !.keys = Editable(d).keys,
                          !.loading = FALSE, !.saving = FALSE]
  /\ UNCHANGED <<table, last, ended, acts>>

\* The call fails and the error is shown over what was there before; or the table
\* is being created and there is nothing to load.
LoadFails(c) ==
  /\ Answered(c) /\ c.op = "load"
  /\ page' = [page EXCEPT !.loading = FALSE, !.saving = FALSE]
  /\ UNCHANGED <<table, last, ended, acts>>

-----------------------------------------------------------------------------
(* Editing: every change throws the preview away.                          *)

Edited(p) ==
  /\ Spend
  /\ page.open /\ ~page.loading
  /\ page' = [p EXCEPT !.preview = NoPreview]
  /\ UNCHANGED <<table, last, calls, ended>>

addColumn ==
  /\ Len(page.cols) < MaxCols
  /\ Edited([page EXCEPT !.cols = Append(@, freshColumn)])

removeColumn(i) ==
  /\ i \in DOMAIN page.cols
  /\ Edited([page EXCEPT !.cols = RemoveAt(@, i)])

\* updateColumn(): the name or the type; updateDefault() and updateGenerated()
\* change other aspects in the same way.
updateColumn(i, n, t) ==
  /\ i \in DOMAIN page.cols
  /\ page.cols[i].name # n \/ page.cols[i].type # t
  /\ Edited([page EXCEPT !.cols[i].name = n, !.cols[i].type = t])

\* addIndex() and addConstraint(), with the fields then filled in.
addKey(n, c) ==
  /\ \A k \in page.keys : k.name # n
  /\ Edited([page EXCEPT !.keys = @ \cup {[name |-> n, orig |-> None, col |-> c]}])

\* removeIndex() and removeConstraint().
removeKey(k) ==
  /\ k \in page.keys
  /\ Edited([page EXCEPT !.keys = @ \ {k}])

\* updateIndex(), dropIndexColumn(), updateConstraintColumns(),
\* updateConstraintField(), chooseTarget(): what the key covers.
updateKey(k, c) ==
  /\ k \in page.keys /\ c # k.col
  /\ Edited([page EXCEPT !.keys = (@ \ {k}) \cup {[k EXCEPT !.col = c]}])

\* updateConstraintType(): the entry forgets where it came from.
updateConstraintType(k) ==
  /\ k \in page.keys /\ k.orig # None
  /\ Edited([page EXCEPT !.keys = (@ \ {k}) \cup {[k EXCEPT !.orig = None]}])

-----------------------------------------------------------------------------
(* Preview and apply.                                                      *)

previewChanges ==
  /\ Spend
  /\ page.open /\ ~page.loading /\ ~page.saving
  /\ calls' = calls \cup {[op |-> "preview", set |-> changeSet]}
  /\ UNCHANGED <<table, last, page, ended>>

\* The preview is of the change set that was sent, whatever is in the editor now.
Previewed(c) ==
  /\ Answered(c) /\ c.op = "preview"
  /\ \/ page' = [page EXCEPT !.preview = [destructive |-> Destructive(c.set), set |-> c.set]]
     \/ UNCHANGED page
  /\ UNCHANGED <<table, last, ended, acts>>

\* A destructive preview is first confirmed.
Asks == page.preview.destructive /\ ~page.confirm

\* applyChanges(): nothing without a preview; the change set is computed again.
\* While it is saving only the button of the dialog is still there.
applyChanges ==
  /\ Spend
  /\ page.open /\ ~page.loading
  /\ page.preview.set # << >>
  /\ page.saving => page.confirm
  /\ IF Asks
     THEN page' = [page EXCEPT !.confirm = TRUE] /\ UNCHANGED calls
     ELSE /\ page' = [page EXCEPT !.saving = TRUE]
          /\ calls' = calls \cup {[op |-> "apply", ref |-> page.ref, create |-> page.create, set |-> changeSet,
                                   confirmed |-> page.preview.destructive, asked |-> page.confirm,
                                   previewed |-> page.preview.set,
                                   original |-> [cols |-> page.original, keys |-> page.originalKeys],
                                   design |-> [cols |-> Range(page.cols), keys |-> page.keys]]}
  /\ UNCHANGED <<table, last, ended>>

cancelConfirmation ==
  /\ page.confirm
  /\ page' = [page EXCEPT !.confirm = FALSE]
  /\ UNCHANGED <<table, last, calls, ended, acts>>

ApplyAnswer(c, ok) == calls' = (calls \ {c}) \cup {[op |-> "applied", ok |-> ok]}

\* The table a change set is for: there, or not there yet.
Meant(c) == c.ref = table.name /\ table.there = ~c.create

\* apply(): compiled again; a destructive change set needs the flag.
ServerApplies(c) ==
  LET r == Carried(table, c.set) IN
  /\ c \in calls /\ c.op = "apply"
  /\ Meant(c)
  /\ Destructive(c.set) => c.confirmed
  /\ r.ok /\ r.last <= MaxIds
  /\ table' = [table EXCEPT !.there = TRUE, !.cols = r.cols, !.keys = r.keys]
  /\ last' = r.last
  /\ ended' = [committed |-> TRUE, sent |-> c, before |-> table]
  /\ ApplyAnswer(c, TRUE)
  /\ UNCHANGED <<page, acts>>

\* It is refused, or a statement fails: PostgreSQL takes everything back, MySQL
\* keeps what went before.
ServerRefuses(c, n) ==
  LET r == Carried(table, SubSeq(c.set, 1, n)) IN
  /\ c \in calls /\ c.op = "apply"
  /\ n <= Len(c.set)
  /\ n > 0 => /\ Meant(c) /\ ~c.create
              /\ Destructive(c.set) => c.confirmed
              /\ r.ok /\ r.last <= MaxIds
  /\ table' = IF n = 0 THEN table ELSE [table EXCEPT !.cols = r.cols, !.keys = r.keys]
  /\ last' = IF n = 0 THEN last ELSE r.last
  /\ ended' = NothingSent
  /\ ApplyAnswer(c, FALSE)
  /\ UNCHANGED <<page, acts>>

\* The answer: on success the page starts over from the database.
Applied(c) ==
  /\ c \in calls /\ c.op = "applied"
  /\ IF c.ok
     THEN /\ calls' = (calls \ {c}) \cup {[op |-> "load", ref |-> page.ref]}
          /\ page' = [page EXCEPT !.preview = NoPreview, !.confirm = FALSE, !.loading = TRUE]
     ELSE /\ calls' = calls \ {c}
          /\ page' = [page EXCEPT !.saving = FALSE]
  /\ UNCHANGED <<table, last, ended, acts>>

-----------------------------------------------------------------------------
(* Rename, truncate and drop, from the same page.                          *)

\* openOperation(): a dialog, with the impact that was loaded first.
openOperation(o) ==
  /\ Spend
  /\ page.open /\ ~page.create /\ page.operation = None
  /\ page' = [page EXCEPT !.operation = o]
  /\ UNCHANGED <<table, last, calls, ended>>

cancelOperation ==
  /\ page.operation # None
  /\ page' = [page EXCEPT !.operation = None]
  /\ UNCHANGED <<table, last, calls, ended, acts>>

\* completeOperation(): carried out while the dialog waits; a failure leaves the
\* dialog open.  A renamed table is followed, a dropped one closes the page; the
\* rows that a truncate removes are not part of the design.
completeOperation(n) ==
  /\ page.operation # None
  /\ table.there /\ page.ref = table.name
  /\ \/ /\ page.operation = "rename" /\ n # table.name
        /\ table' = [table EXCEPT !.name = n]
        /\ page' = [page EXCEPT !.ref = n, !.operation = None]
     \/ /\ page.operation = "truncate"
        /\ page' = [page EXCEPT !.operation = None]
        /\ UNCHANGED table
     \/ /\ page.operation = "drop"
        /\ table' = [table EXCEPT !.there = FALSE]
        /\ page' = [page EXCEPT !.open = FALSE, !.operation = None]
  /\ UNCHANGED <<last, calls, ended, acts>>

\* Somebody else alters the table.
OthersAlter(a) ==
  LET r == Carried(table, <<a>>) IN
  /\ Spend
  /\ table.there /\ r.ok /\ r.last <= MaxIds
  /\ table' = [table EXCEPT !.cols = r.cols, !.keys = r.keys]
  /\ last' = r.last
  /\ UNCHANGED <<page, calls, ended>>

OthersAlterations ==
  [kind : {"rename"}, name : Names, to : Names] \cup [kind : {"drop"}, name : Names, to : {None}]

-----------------------------------------------------------------------------
Editing ==
  \/ addColumn
  \/ \E i \in 1..MaxCols :
       removeColumn(i) \/ \E n \in Names, t \in Types : updateColumn(i, n, t)
  \/ \E n \in KeyNames, c \in Names : addKey(n, c)
  \/ \E k \in page.keys :
       removeKey(k) \/ updateConstraintType(k) \/ \E c \in Names : updateKey(k, c)

Next ==
  \/ Editing \/ previewChanges \/ applyChanges \/ cancelConfirmation \/ cancelOperation
  \/ \E c \in calls :
       \/ Loaded(c) \/ LoadFails(c) \/ Previewed(c) \/ ServerApplies(c) \/ Applied(c)
       \/ \E n \in 0..(MaxActs + 1) : ServerRefuses(c, n)
  \/ \E o \in {"rename", "truncate", "drop"} : openOperation(o)
  \/ \E n \in TableNames : completeOperation(n)
  \/ \E a \in OthersAlterations : OthersAlter(a)

Spec == Init /\ [][Next]_vars

-----------------------------------------------------------------------------
TypeOK ==
  /\ Ids(table.cols) \subseteq 1..MaxIds
  /\ Len(page.cols) <= MaxCols
  /\ page.operation \in {None, "rename", "truncate", "drop"}
  /\ acts \in 0..MaxActs

\* The column of a set that has a name.
The(things, n) == CHOOSE x \in things : x.name = n

\* The difference is the right one: when a change set is committed on the table
\* it was made from, the database has the columns that were designed, those
\* that were kept are the same columns under their new names, and every key
\* whose column stayed covers the column it was designed for.
DesignIsReached ==
  ended.committed /\ Described(ended.before) = ended.sent.original =>
    LET before == ended.before
        after == Carried(before, ended.sent.set)
        design == ended.sent.design
        kept == {k \in design.keys : k.name = k.orig /\ [name |-> k.name, col |-> k.col]
                                                          \in ended.sent.original.keys}
    IN /\ {[name |-> c.name, type |-> c.type] : c \in after.cols}
            = {[name |-> c.name, type |-> c.type] : c \in design.cols}
       /\ \A c \in design.cols : c.orig # None =>
            The(after.cols, c.name).id = The(before.cols, c.orig).id
       /\ \A k \in design.keys \ kept :
            [name |-> k.name, id |-> The(after.cols, k.col).id] \in after.keys
       /\ \A k \in kept : The(before.keys, k.name).id \in Ids(after.cols) =>
            The(before.keys, k.name) \in after.keys

\* Nothing is dropped that nobody was asked about: when an apply loses a column
\* or a key of the database, the dialog had been confirmed, whatever was edited
\* or altered while the preview was under way.
NothingDroppedUnasked ==
  ended.committed /\ Destructive(ended.sent.set) => ended.sent.asked

\* What is applied is what was previewed.  (Not so: an edit made while the
\* preview is under way is applied without having been seen.)
AppliedIsPreviewed == ended.committed => ended.sent.set = ended.sent.previewed
=============================================================================
