----------------------------- MODULE DataBrowser -----------------------------
(***************************************************************************)
(* The data browser: pages of rows, and inserts, updates and deletes that  *)
(* name rows by a primary key or a unique index.  Every mutation opens a   *)
(* handle of its own, runs one transaction on it and closes it.            *)
(*                                                                         *)
(* A row is the number that is its key and a value; the servers keep the   *)
(* writes of an open transaction from everyone else and lock the rows.     *)
(***************************************************************************)
EXTENDS Integers, Sequences, FiniteSets

CONSTANTS Keys,        \* numbers used as keys
          Vals,        \* values of the column that is not the key
          Absent,
          Muts,        \* bound: mutations
          MaxBulk,     \* bound: identities of a bulk delete
          Limit,       \* rows of a page
          MaxOthers    \* bound: changes made by other clients

VARIABLES
    shape,      \* "primary", "unique", "none" (a table) or "view"
    rows,       \* [Keys -> Vals or Absent]: what is committed
    muts,       \* the mutations
    reader,     \* one user who turns the pages
    others,     \* changes other clients have made
    changed     \* history: the keys each mutation changed when it committed

vars == <<shape, rows, muts, reader, others, changed>>

Idle == [pc |-> "new", kind |-> "none", keys |-> <<>>, at |-> 0,
         pend |-> [k \in Keys |-> "same"], open |-> FALSE, result |-> "none", audit |-> "none"]

Init ==
    /\ shape \in {"primary", "unique", "none", "view"}
    /\ rows \in [Keys -> Vals \cup {Absent}]
    /\ muts = [m \in Muts |-> Idle]
    /\ \E vs \in {Vals, {"w"}} :
         reader = [seen |-> <<>>, filter |-> vs, more |-> TRUE, quiet |-> TRUE]
    /\ others = 0
    /\ changed = [m \in Muts |-> {}]

-----------------------------------------------------------------------------
\* mutationInput() and the routes: one key, or the identities of a bulk delete.
Ask(m, kind, keys) ==
    /\ muts[m] = Idle
    /\ muts' = [muts EXCEPT ![m].pc = "opening", ![m].kind = kind, ![m].keys = keys]
    /\ UNCHANGED <<shape, rows, reader, others, changed>>

\* withMutationProvider() opens a handle for this mutation alone.
OpenHandle(m) ==
    /\ muts[m].pc = "opening"
    /\ muts' = [muts EXCEPT ![m].pc = "describing", ![m].open = TRUE]
    /\ UNCHANGED <<shape, rows, reader, others, changed>>

\* The row identity: the primary key, else a unique index without NULLs; a view and a
\* table without either are read only.
resolveRowIdentity(s) == IF s \in {"primary", "unique"} THEN s ELSE "none"

\* The statement is built from what describeTable() says of the table: an insert needs
\* a table, the others a row identity.
Builds(kind) == IF kind = "insert" THEN shape # "view" ELSE resolveRowIdentity(shape) # "none"

Ended(m, result) == [muts[m] EXCEPT !.pc = "closing", !.result = result, !.at = 0, !.pend = Idle.pend]

Describe(m) ==
    /\ muts[m].pc = "describing"
    /\ muts' = [muts EXCEPT ![m] = IF Builds(@.kind) THEN [@ EXCEPT !.pc = "tx"]
                                   ELSE Ended(m, "refused")]
    /\ UNCHANGED <<shape, rows, reader, others, changed>>

\* Mutant: the key goes through a float that cannot hold an odd number.
floatParameter(k) == k - (k % 2)

\* numericParameter(): a key reaches the server as text, digit for digit.
numericParameter(k) == k

Written(m) == {k \in Keys : muts[m].pend[k] # "same"}
Locked(m, k) == \E o \in Muts \ {m} : k \in Written(o)
Visible(m, k) == IF muts[m].pend[k] = "same" THEN rows[k] ELSE muts[m].pend[k]

\* identityWhere(): the row whose key is the parameter, once no other transaction
\* holds it.
Target(m) == numericParameter(muts[m].keys[muts[m].at + 1])
AtRow(m, kind) ==
    /\ muts[m].pc = "tx"
    /\ muts[m].kind = kind
    /\ muts[m].at < Len(muts[m].keys)
    /\ ~Locked(m, Target(m))
Hit(m) == Visible(m, Target(m)) # Absent

\* The transaction of m writes its next row, or ends without a trace.
Writes(m, v) == muts' = [muts EXCEPT ![m].at = @ + 1, ![m].pend[Target(m)] = v]
GivesUp(m, result) == muts' = [muts EXCEPT ![m] = Ended(m, result)]

\* insert(): the server refuses a key that is taken.
Insert(m, v) ==
    /\ AtRow(m, "insert")
    /\ IF Hit(m) THEN GivesUp(m, "failed") ELSE Writes(m, v)
    /\ UNCHANGED <<shape, rows, reader, others, changed>>

\* update(): a row that is gone is a conflict; MySQL counts no change for a row that
\* has the values already, so it is looked up.
Update(m, v) ==
    /\ AtRow(m, "update")
    /\ IF Hit(m) THEN Writes(m, v) ELSE GivesUp(m, "conflict")
    /\ UNCHANGED <<shape, rows, reader, others, changed>>

\* delete()
Delete(m) ==
    /\ AtRow(m, "delete")
    /\ IF Hit(m) THEN Writes(m, Absent) ELSE GivesUp(m, "conflict")
    /\ UNCHANGED <<shape, rows, reader, others, changed>>

\* One row of bulkDelete(): a single one that is gone undoes all.
BulkDelete(m) ==
    /\ AtRow(m, "bulk")
    /\ IF Hit(m) THEN Writes(m, Absent) ELSE GivesUp(m, "conflict")
    /\ UNCHANGED <<shape, rows, reader, others, changed>>

\* A statement fails in the server, or the connection is lost: everything is undone.
Fail(m) ==
    /\ muts[m].pc \in {"opening", "describing", "tx"}
    /\ muts' = [muts EXCEPT ![m] =
         IF @.open THEN Ended(m, "failed") ELSE [@ EXCEPT !.pc = "auditing", !.result = "failed"]]
    /\ UNCHANGED <<shape, rows, reader, others, changed>>

\* A change between two pages of the reader.
Disturbed == [reader EXCEPT !.quiet = reader.more /\ reader.seen = <<>>]

Committed(m) ==
    /\ muts[m].pc = "tx"
    /\ muts[m].at = Len(muts[m].keys)
    /\ rows' = [k \in Keys |-> Visible(m, k)]
    /\ changed' = [changed EXCEPT ![m] = Written(m)]
    /\ reader' = Disturbed
    /\ UNCHANGED <<shape, others>>

Commit(m) == Committed(m) /\ muts' = [muts EXCEPT ![m] = Ended(m, "ok")]

\* The connection is lost after the server committed and before it said so.
CommitLost(m) == Committed(m) /\ muts' = [muts EXCEPT ![m] = Ended(m, "failed")]

\* The handle is closed whatever happened.
CloseHandle(m) ==
    /\ muts[m].pc = "closing"
    /\ muts' = [muts EXCEPT ![m].pc = "auditing", ![m].open = FALSE]
    /\ UNCHANGED <<shape, rows, reader, others, changed>>

\* deleteMutation() records the result; when a success cannot be recorded, the caller
\* gets an error.  Inserts and updates are not recorded.
Audit(m, written) ==
    /\ muts[m].pc = "auditing"
    /\ muts' = [muts EXCEPT ![m].pc = "done",
         ![m].audit = IF muts[m].kind \in {"insert", "update"} \/ ~written THEN "none"
                      ELSE IF muts[m].result = "ok" THEN "success" ELSE "failure",
         ![m].result = IF muts[m].kind \in {"delete", "bulk"} /\ ~written THEN "unrecorded" ELSE @]
    /\ UNCHANGED <<shape, rows, reader, others, changed>>

-----------------------------------------------------------------------------
\* The rows that satisfy the filters.
Matching == {k \in Keys : rows[k] \in reader.filter}

\* buildDataQuery(): the columns of the primary key come after the ones the user sorts
\* by (here: the value, "u" first), so that the order is total.
Ordered(f) ==
    \A i, j \in DOMAIN f : i < j =>
        \/ rows[f[i]] = "u" /\ rows[f[j]] # "u"
        \/ rows[f[i]] = rows[f[j]] /\ (shape = "primary" => f[i] < f[j])

\* The orders in which the server may return the matching rows.
Orders == {f \in [1 .. Cardinality(Matching) -> Matching] :
             (\A i, j \in DOMAIN f : i # j => f[i] # f[j]) /\ Ordered(f)}

\* page(): one row more than the limit is fetched, to know whether there are more.
ReadPage(f) ==
    LET from == Len(reader.seen)
        Upto(n) == SubSeq(f, from + 1, IF n < Len(f) THEN n ELSE Len(f))
    IN  /\ reader.more
        /\ f \in Orders
        /\ reader' = [reader EXCEPT !.seen = @ \o Upto(from + Limit),
                                    !.more = Len(Upto(from + Limit + 1)) > Limit]
        /\ UNCHANGED <<shape, rows, muts, others, changed>>

\* The user starts again.
Reload ==
    /\ ~reader.more
    /\ reader' = [reader EXCEPT !.seen = <<>>, !.more = TRUE, !.quiet = TRUE]
    /\ UNCHANGED <<shape, rows, muts, others, changed>>

\* Another client of the server adds, changes or removes a row.
Other(k, v) ==
    /\ others < MaxOthers
    /\ rows[k] # v
    /\ \A m \in Muts : k \notin Written(m)
    /\ rows' = [rows EXCEPT ![k] = v]
    /\ others' = others + 1
    /\ reader' = Disturbed
    /\ UNCHANGED <<shape, muts, changed>>

Next ==
    \/ \E m \in Muts :
         \/ \E kind \in {"insert", "update", "delete"}, k \in Keys : Ask(m, kind, <<k>>)
         \/ \E n \in 1 .. MaxBulk : \E ks \in [1 .. n -> Keys] : Ask(m, "bulk", ks)
         \/ \E v \in Vals : Insert(m, v) \/ Update(m, v)
         \/ Delete(m) \/ BulkDelete(m)
         \/ OpenHandle(m) \/ Describe(m) \/ Fail(m)
         \/ Commit(m) \/ CommitLost(m) \/ CloseHandle(m)
         \/ \E written \in BOOLEAN : Audit(m, written)
    \/ \E f \in Orders : ReadPage(f)
    \/ Reload
    \/ \E k \in Keys, v \in Vals \cup {Absent} : Other(k, v)

Spec == Init /\ [][Next]_vars

-----------------------------------------------------------------------------
Named(m) == {muts[m].keys[i] : i \in DOMAIN muts[m].keys}

\* A mutation changes only rows it names, and all of them or none: one that ended well
\* changed each, one that was refused or met a conflict none, although the rows of a bulk
\* delete go one by one and other clients and mutations work on the same rows.
AllOrNothing ==
    \A m \in Muts :
        /\ changed[m] \subseteq Named(m)
        /\ muts[m].result = "ok" => changed[m] = Named(m)
        /\ muts[m].result \in {"refused", "conflict"} => changed[m] = {}
        /\ changed[m] # {} => muts[m].pc \in {"closing", "auditing", "done"} /\ changed[m] = Named(m)

\* Every handle opened for a mutation is closed when the mutation is over, and a delete
\* that is recorded as a success did delete.
NothingLeftOpen ==
    \A m \in Muts : muts[m].pc \in {"auditing", "done"} =>
        /\ ~muts[m].open
        /\ muts[m].audit = "success" => changed[m] = Named(m)

\* Turning the pages of a table with a primary key, while nobody changes it, shows every
\* matching row exactly once, whatever order the server prefers.
PagesPartition ==
    shape = "primary" /\ reader.quiet /\ ~reader.more =>
        /\ {reader.seen[i] : i \in DOMAIN reader.seen} = Matching
        /\ Len(reader.seen) = Cardinality(Matching)
=============================================================================
