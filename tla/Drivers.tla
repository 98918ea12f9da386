------------------------------ MODULE Drivers ------------------------------
(***************************************************************************)
(* The connection adapters of the two providers: a client (a pool of the   *)
(* driver) opened with a time limit, its reserved target session, the      *)
(* statements and transactions run on it, the cancel through a second      *)
(* connection of the pool, and the translation of what the server or the   *)
(* driver throws into the categories the application knows.                *)
(*                                                                         *)
(* A backend of the server runs one statement at a time; what is sent to a *)
(* busy one waits in the driver and starts when it is free.  "main" is the *)
(* backend whose id open() read; PostgreSQL's begin() takes another.       *)
(*                                                                         *)
(* The pool belongs to the driver: it hands out at most Max connections    *)
(* and whoever asks for one more waits.  Who uses a client: a query tab    *)
(* ("query") executes and cancels, an import has one transaction and       *)
(* cancels, the registry's session ("shared") is used by any number of     *)
(* requests whose transactions overlap and is never cancelled, and         *)
(* test() asks a single question.                                          *)
(***************************************************************************)
EXTENDS Naturals, FiniteSets

CONSTANTS Engines,      \* {"postgresql", "mysql"}
          Clients,      \* clients an adapter may create
          Statements,   \* statements that may be sent
          Cancels,      \* cancels that may be asked for
          Transactions  \* bound: transactions of a client at one time

VARIABLES engine,
          client,       \* the clients and their sessions
          stmt,         \* the statements
          cancels       \* the cancels under way

vars == <<engine, client, stmt, cancels>>

\* A pool with no connection but the target's (a mutant).
TargetOnly == IF engine = "mysql" THEN 1 ELSE 4

Max == IF engine = "mysql" THEN 2 ELSE 4    \* max of the pool

\* waiting, tx: calls of begin() that wait for a connection, and those that have one.
NoClient == [phase |-> "none", use |-> "", open |-> FALSE, waiting |-> 0, tx |-> 0, category |-> ""]

\* on, at: the client and the backend; happened: "ok", "closed" or the code it failed with.
NoStatement == [state |-> "none", on |-> 0, at |-> "main", happened |-> "", category |-> ""]

\* on: the client; of: the statement somebody wants to end.
NoCancel == [state |-> "none", on |-> 0, of |-> 0]

Init ==
  /\ engine \in Engines
  /\ client = [c \in Clients |-> NoClient]
  /\ stmt = [s \in Statements |-> NoStatement]
  /\ cancels = [k \in Cancels |-> NoCancel]

-----------------------------------------------------------------------------
(* What went wrong, and the category it is reported as.                    *)

\* A native error: the code the server gave, if it is a listed one, and the words of its text,
\* which may quote any name of the database.  "missing" stands for every listed code but that of
\* an interruption.
Natives == [code: {"missing", "interrupted", "none"}, words: SUBSET {"timeout", "tls", "network"}]

\* What the server's code stands for (SQLSTATE, errno).
ByCode == [code \in {"missing", "interrupted"} |->
             IF code = "missing" THEN "not_found" ELSE "cancelled"]

\* mapMysqlError(): code first, then the text; while connecting everything that
\* is left is a failed connection.
mapMysqlError(e, context) ==
  IF e.code \in DOMAIN ByCode THEN ByCode[e.code]
  ELSE IF "timeout" \in e.words THEN "timeout"
  ELSE IF context = "connect" /\ "tls" \in e.words THEN "tls_failed"
  ELSE IF context = "connect" \/ "network" \in e.words THEN "connection_failed"
  ELSE "internal"

\* mapPostgresqlError(): the same order, TLS before timeout, wherever it happens.
mapPostgresqlError(e) ==
  IF e.code \in DOMAIN ByCode THEN ByCode[e.code]
  ELSE IF "tls" \in e.words THEN "tls_failed"
  ELSE IF "timeout" \in e.words THEN "timeout"
  ELSE IF "network" \in e.words THEN "connection_failed"
  ELSE "internal"

Category(e, context) ==
  IF engine = "mysql" THEN mapMysqlError(e, context) ELSE mapPostgresqlError(e)

-----------------------------------------------------------------------------
(* open(), test() and close().                                             *)

\* validateContext(): the descriptor is wrong; nothing is created.
OpenInvalid(c) ==
  /\ client[c].phase = "none"
  /\ client' = [client EXCEPT ![c].phase = "ended", ![c].category = "connection_failed"]
  /\ UNCHANGED <<engine, stmt, cancels>>

\* The client is created and asked for a session of its own.
Open(c) ==
  /\ client[c].phase = "none"
  /\ \E use \in {"query", "import", "shared", "question"} :
       client' = [client EXCEPT ![c].phase = "reserving", ![c].use = use, ![c].open = TRUE]
  /\ UNCHANGED <<engine, stmt, cancels>>

Reserved(c) ==
  /\ client[c].phase = "reserving"
  /\ client' = [client EXCEPT ![c].phase = "asking"]
  /\ UNCHANGED <<engine, stmt, cancels>>

\* The backend's id was read: the session is entered in the map.
Registered(c) ==
  /\ client[c].phase = "asking"
  /\ client' = [client EXCEPT ![c].phase = "registered"]
  /\ UNCHANGED <<engine, stmt, cancels>>

\* The timer wins the race, the session or the question is refused, or the answer is no backend
\* id: the catch of open() releases the session and closes the client.
OpenFails(c) ==
  /\ client[c].phase \in {"reserving", "asking"}
  /\ \E category \in {"timeout"} \cup {Category(e, "connect") : e \in Natives} :
       client' = [client EXCEPT ![c].phase = "ended", ![c].open = FALSE,
                                ![c].category = category]
  /\ UNCHANGED <<engine, stmt, cancels>>

\* What is reported of a statement that fails with one of the errors E.
Reports(E) == {[code |-> e.code, category |-> Category(e, "query")] : e \in E}

\* The statements of S fail, and that is reported as x.
EndedBy(S, x) ==
  [s \in Statements |->
     IF s \in S THEN [stmt[s] EXCEPT !.state = "ended", !.happened = x.code, !.category = x.category]
     ELSE stmt[s]]

\* What the driver itself throws: it has no code of the server.
DriverErrors == {e \in Natives : e.code = "none"}

Active(c) == {s \in Statements : stmt[s].state = "running" /\ stmt[s].on = c}
Running(c, at) == {s \in Active(c) : stmt[s].at = at}

\* close(): the session leaves the map first; what runs on it fails with it.  The finally of a
\* single question closes too, whatever the answer was.
Close(c) ==
  /\ client[c].phase = "registered"
  /\ client' = [client EXCEPT ![c].phase = "ended", ![c].open = FALSE, ![c].waiting = 0, ![c].tx = 0]
  /\ \E x \in Reports(DriverErrors) : stmt' = EndedBy(Active(c), x)
  /\ UNCHANGED <<engine, cancels>>

-----------------------------------------------------------------------------
(* Statements and transactions.                                            *)

\* clientFor(), the target session: where a statement may run.  On a shared client transactions
\* overlap and the pointer to the last of them strays (ObjectManagement): it may be any.
Where(c) == IF client[c].tx = 0 THEN {"main"}
            ELSE IF client[c].use = "shared" THEN {"main", "transaction"} ELSE {"transaction"}

\* Backends of the session there are at a place.
Backends(c, at) == IF at = "main" THEN 1 ELSE client[c].tx

Sending(c) == {k \in Cancels : cancels[k].state = "sending" /\ cancels[k].on = c}

\* Connections of the pool in use: the target, the transactions, the cancels.
InUse(c) == 1 + client[c].tx + Cardinality(Sending(c))

Execute(c, s) ==
  /\ client[c].phase = "registered" /\ stmt[s].state = "none"
  /\ \E at \in Where(c) :
       /\ Cardinality(Running(c, at)) < Backends(c, at)
       /\ stmt' = [stmt EXCEPT ![s] = [NoStatement EXCEPT !.state = "running", !.on = c, !.at = at]]
  /\ UNCHANGED <<engine, client, cancels>>

\* How many transactions a user of the client has at one time.
MayBegin(c) ==
  \/ client[c].use = "import" /\ client[c].waiting + client[c].tx = 0
  \/ client[c].use = "shared" /\ client[c].waiting + client[c].tx < Transactions

\* withTransaction(): PostgreSQL's begin() asks the pool for a connection.  (MySQL's START
\* TRANSACTION, COMMIT and ROLLBACK are statements on the target.)
Begin(c) ==
  /\ engine = "postgresql" /\ client[c].phase = "registered" /\ MayBegin(c)
  /\ client' = [client EXCEPT ![c].waiting = @ + 1]
  /\ UNCHANGED <<engine, stmt, cancels>>

Begun(c) ==
  /\ client[c].waiting > 0 /\ InUse(c) < Max
  /\ client' = [client EXCEPT ![c].waiting = @ - 1, ![c].tx = @ + 1]
  /\ UNCHANGED <<engine, stmt, cancels>>

BeginFails(c) ==
  /\ client[c].waiting > 0
  /\ client' = [client EXCEPT ![c].waiting = @ - 1]
  /\ UNCHANGED <<engine, stmt, cancels>>

\* COMMIT or ROLLBACK on a backend of a transaction that runs nothing.
EndTransaction(c) ==
  /\ 0 < client[c].tx /\ Cardinality(Running(c, "transaction")) < client[c].tx
  /\ client' = [client EXCEPT ![c].tx = @ - 1]
  /\ UNCHANGED <<engine, stmt, cancels>>

Succeeds(s) ==
  /\ stmt[s].state = "running"
  /\ stmt' = [stmt EXCEPT ![s].state = "ended", ![s].happened = "ok"]
  /\ UNCHANGED <<engine, client, cancels>>

\* The server or the connection refuses it, or the server interrupts it on its own account.
Fails(s) ==
  /\ stmt[s].state = "running"
  /\ \E x \in Reports(Natives) : stmt' = EndedBy({s}, x)
  /\ UNCHANGED <<engine, client, cancels>>

-----------------------------------------------------------------------------
(* Cancels.                                                                *)

\* Who cancels: a query tab as often as it is asked to, an import once, when it is aborted.
MayCancel(c) ==
  \/ client[c].use = "query"
  \/ client[c].use = "import" /\ \A k \in Cancels : cancels[k].on # c

\* cancel() of a session, for the sake of statement s or of none.  PostgreSQL first calls the
\* driver's own hook on every active query, which may or may not end it.  Then a connection of
\* the pool is waited for.
Cancel(k, c, s) ==
  /\ cancels[k].state = "none"
  /\ client[c].phase = "registered" /\ MayCancel(c)
  /\ s \in Active(c) \cup {0}
  /\ cancels' = [cancels EXCEPT ![k] = [state |-> "waiting", on |-> c, of |-> s]]
  /\ \/ UNCHANGED stmt
     \/ /\ engine = "postgresql"
        /\ \E x \in Reports(DriverErrors) : stmt' = EndedBy(Active(c), x)
  /\ UNCHANGED <<engine, client>>

Control(k) ==
  /\ cancels[k].state = "waiting"
  /\ client[cancels[k].on].phase = "registered" /\ InUse(cancels[k].on) < Max
  /\ cancels' = [cancels EXCEPT ![k].state = "sending"]
  /\ UNCHANGED <<engine, client, stmt>>

\* The connection is refused or the control query fails: cancel() throws and nothing was ended.
ControlFails(k) ==
  /\ cancels[k].state \in {"waiting", "sending"}
  /\ cancels' = [cancels EXCEPT ![k].state = "rejected"]
  /\ UNCHANGED <<engine, client, stmt>>

\* The session was closed meanwhile.
ControlRefused(k) ==
  /\ cancels[k].state \in {"waiting", "sending"}
  /\ client[cancels[k].on].phase = "ended"
  /\ cancels' = [cancels EXCEPT ![k].state = "rejected"]
  /\ UNCHANGED <<engine, client, stmt>>

\* The control query hits the backend that runs nothing of the session (a mutant).
TargetElsewhere(c) == Running(c, "transaction")

\* pg_cancel_backend, KILL QUERY: whatever the backend of that id runs by now.
Target(c) == Running(c, "main")

\* The words of the interruption quote the statement.
Interrupted == {e \in Natives : e.code = "interrupted"}

Kill(k) ==
  /\ cancels[k].state = "sending" /\ client[cancels[k].on].phase = "registered"
  /\ cancels' = [cancels EXCEPT ![k].state = "done"]
  /\ \E x \in Reports(Interrupted) : stmt' = EndedBy(Target(cancels[k].on), x)
  /\ UNCHANGED <<engine, client>>

-----------------------------------------------------------------------------
Next ==
  \/ \E c \in Clients : OpenInvalid(c) \/ Open(c) \/ Reserved(c) \/ Registered(c)
                        \/ OpenFails(c) \/ Close(c) \/ Begin(c) \/ Begun(c) \/ BeginFails(c)
                        \/ EndTransaction(c)
  \/ \E c \in Clients, s \in Statements : Execute(c, s)
  \/ \E s \in Statements : Succeeds(s) \/ Fails(s)
  \/ \E k \in Cancels, c \in Clients, s \in Statements \cup {0} : Cancel(k, c, s)
  \/ \E k \in Cancels : Control(k) \/ ControlFails(k) \/ ControlRefused(k) \/ Kill(k)

\* The pool serves who waits for it when it has a connection and the server answers a control
\* query; how long a statement takes is the server's business, and nothing obliges it to fail.
Fairness ==
  \A k \in Cancels : WF_vars(Control(k)) /\ WF_vars(ControlRefused(k)) /\ WF_vars(Kill(k))

Spec == Init /\ [][Next]_vars /\ Fairness

-----------------------------------------------------------------------------
TypeOK ==
  /\ engine \in Engines
  /\ \A c \in Clients :
       /\ client[c].phase \in {"none", "reserving", "asking", "registered", "ended"}
       /\ client[c].waiting \in Nat /\ client[c].tx \in Nat
  /\ \A s \in Statements : stmt[s].state \in {"none", "running", "ended"}
  /\ \A k \in Cancels : cancels[k].state \in {"none", "waiting", "sending", "done", "rejected"}

\* A client is open only while it is being opened or its session is in the map,
\* where close() will find it.
ClientsAreOwned ==
  \A c \in Clients : client[c].open <=> client[c].phase \in {"reserving", "asking", "registered"}

\* A cancel never waits for what it is to end: when the pool has no connection for it, another
\* cancel holds one, and not the statement or the import's transaction alone.
CancelsFindRoom ==
  \A k \in Cancels :
    cancels[k].state = "waiting" /\ client[cancels[k].on].open /\ ~(InUse(cancels[k].on) < Max)
      => Sending(cancels[k].on) # {}

\* A statement that failed by a code of the server is reported by that code, whatever words the
\* message happens to quote (a table named session_timeout that does not exist is not a timeout,
\* and an interrupted statement is cancelled though its text speaks of a socket).
ReportedAsHappened ==
  \A s \in Statements :
    stmt[s].happened \in DOMAIN ByCode => stmt[s].category = ByCode[stmt[s].happened]

\* No client of a pool is forgotten, no cancel waits for the statement it is to end, and what is
\* reported of a statement is what happened to it.
AdaptersAreTrue == ClientsAreOwned /\ CancelsFindRoom /\ ReportedAsHappened

\* A cancel that was asked for a statement ends it, though the statement itself might run
\* forever, or is answered with an error.  Statements of a PostgreSQL transaction are excepted:
\* see CancelStops.
CancelEndsStatement ==
  \A k \in Cancels, s \in Statements :
    (cancels[k].of = s /\ cancels[k].state # "none" /\ stmt[s].at = "main")
       ~> (stmt[s].state = "ended" \/ cancels[k].state = "rejected")

\* "The protocol fallback below is the guaranteed cancellation path."  (Not for a
\* statement in a transaction: it runs on another backend than the one whose id
\* open() read.)
CancelStops ==
  \A k \in Cancels : cancels[k].state = "done" /\ cancels[k].of # 0 => stmt[cancels[k].of].state = "ended"
=============================================================================
