------------------------- MODULE ConnectionLifecycle -------------------------
(***************************************************************************)
(* apps/server/src/connections/connection-manager.ts: the registry of      *)
(* provider sessions (ConnectionSessionRegistry) and the operations of     *)
(* ConnectionManagerService that open, use and close them.                 *)
(*                                                                         *)
(* Only the owner of a connection may connect it, so the registry key      *)
(* (userId, connectionId) is the connection.  A request is one HTTP call   *)
(* that awaits: it is split at its awaits, and every other call may run in *)
(* between.  The first of them is the body: routes.ts checks the session,  *)
(* awaits readJson and then calls the manager, which checks that the       *)
(* connection exists and is the actor's, but not that the session still    *)
(* does.  A request opens at most one provider handle, which is named by   *)
(* the request.                                                            *)
(*                                                                         *)
(* Tokens: a token is a fresh number compared only with the token of a     *)
(* reservation, so it is represented by the request that reserved it; a    *)
(* token issued by markDisconnected() belongs to Nobody.                   *)
(***************************************************************************)
EXTENDS Naturals, FiniteSets

CONSTANTS Conns,         \* saved connections
          Users,
          Owner,         \* [Conns -> Users]
          Requests,      \* bound: HTTP calls that await
          Nobody,        \* no request, no handle
          AuditMayFail   \* whether an audit write may throw

ASSUME ConnectionAssumption ==
    /\ Owner \in [Conns -> Users]
    /\ Nobody \notin Requests
    /\ AuditMayFail \in BOOLEAN

VARIABLES
    stored,     \* connections in the store
    active,     \* users with a valid application session
    disposed,
    status,     \* lifecycle status; "absent" when the registry has no entry
    holder,     \* whose token the entry carries
    session,    \* the request whose handle the entry holds
    idle,       \* the entry has seen no activity for idleTimeoutMinutes
    handle,     \* provider handles (external): unused, open, closing, closed
    req         \* the state of every request

vars == <<stored, active, disposed, status, holder, session, idle, handle, req>>
registry == <<status, holder, session, idle>>

Phase == {"new",       \* not yet received
          "received",      \* its session was checked; the route awaits its body
          "closingOld",    \* reconnect() awaits the close of the old session
          "opening",       \* connect() awaits provider.connection.open
          "probing",       \* connect() awaits serverInfo, describe and ping
          "closingFailed", \* openProvider() closes after a failed probe
          "closingLate",   \* connect() closes a handle nobody wants any more
          "pinging",       \* status(), statusInfo() or testConnection() awaits it
          "using",         \* withConnectedProvider() awaits its operation
          "done"}

\* conn: the connection; uses: the handle whose close it awaits; unaudited: its audit record could not be
\* written after complete(); late (history): it reserved when its user's session or the manager
\* had ended already.
Request == [pc : Phase, conn : Conns \cup {Nobody}, uses : Requests \cup {Nobody},
            unaudited : BOOLEAN, late : BOOLEAN]

TypeOK ==
    /\ stored \subseteq Conns
    /\ active \subseteq Users
    /\ disposed \in BOOLEAN
    /\ status \in [Conns -> {"absent", "disconnected", "connecting", "connected", "error"}]
    /\ holder \in [Conns -> Requests \cup {Nobody}]
    /\ session \in [Conns -> Requests \cup {Nobody}]
    /\ idle \in [Conns -> BOOLEAN]
    /\ handle \in [Requests -> {"unused", "open", "closing", "closed"}]
    /\ req \in [Requests -> Request]

Init ==
    /\ stored = Conns
    /\ active = Users
    /\ disposed = FALSE
    /\ status = [c \in Conns |-> "absent"]
    /\ holder = [c \in Conns |-> Nobody]
    /\ session = [c \in Conns |-> Nobody]
    /\ idle = [c \in Conns |-> FALSE]
    /\ handle = [r \in Requests |-> "unused"]
    /\ req = [r \in Requests |-> [pc |-> "new", conn |-> Nobody, uses |-> Nobody,
                                  unaudited |-> FALSE, late |-> FALSE]]

-----------------------------------------------------------------------------
\* close() of every handle in H: the calls are issued now and end later.
Closing(H) == [r \in Requests |-> IF r \in H /\ handle[r] = "open" THEN "closing" ELSE handle[r]]

\* The handles that the registry entries of C hold.
HandlesOf(C) == {session[c] : c \in C} \ {Nobody}

\* markDisconnected() for the entries of C, then close() of their sessions.
\* A connection without an entry is left alone.
DropSessions(C) ==
    LET D == {c \in C : status[c] # "absent"} IN
    /\ status' = [c \in Conns |-> IF c \in D THEN "disconnected" ELSE status[c]]
    /\ holder' = [c \in Conns |-> IF c \in D THEN Nobody ELSE holder[c]]
    /\ session' = [c \in Conns |-> IF c \in D THEN Nobody ELSE session[c]]
    /\ idle' = [c \in Conns |-> idle[c] /\ c \notin D]
    /\ handle' = Closing(HandlesOf(D))

\* reserve(): a new attempt takes the entry.
Reserve(r, c) ==
    /\ status' = [status EXCEPT ![c] = "connecting"]
    /\ holder' = [holder EXCEPT ![c] = r]
    /\ session' = [session EXCEPT ![c] = Nobody]
    /\ idle' = [idle EXCEPT ![c] = FALSE]

\* fail(): the attempt's error is recorded unless its token was superseded.
Fail(r, c) ==
    IF holder[c] = r
    THEN /\ status' = [status EXCEPT ![c] = "error"]
         /\ session' = [session EXCEPT ![c] = Nobody]
         /\ UNCHANGED <<holder, idle>>
    ELSE UNCHANGED registry

\* touch(): activity on a connected entry.
Touch(c) == idle' = [idle EXCEPT ![c] = @ /\ status[c] # "connected"]

At(r, pc) == req[r].pc = pc

Goto(r, pc) == req' = [req EXCEPT ![r].pc = pc]

\* The application session of c's owner, or the manager itself, has ended.
Ended(c) == Owner[c] \notin active \/ disposed

\* Request r goes on as an attempt that takes the entry of c.
Attempt(r, c) ==
    /\ Reserve(r, c)
    /\ req' = [req EXCEPT ![r].pc = "opening", ![r].uses = Nobody, ![r].late = Ended(c)]

-----------------------------------------------------------------------------
\* protectedMutation() finds a session of the owner, and the route awaits the body.  (A route
\* without a body goes on at once.)
Receive(r, c) ==
    /\ At(r, "new")
    /\ ~Ended(c)
    /\ req' = [req EXCEPT ![r].pc = "received", ![r].conn = c]
    /\ UNCHANGED <<stored, active, disposed, registry, handle>>

\* The operation starts: requireConnection() and assertConnectionOwner(), and no look at the
\* session or at disposed.
MayStart(r) == At(r, "received") /\ req[r].conn \in stored

\* The body is invalid, the connection is gone, or the operation answers without an await
\* (nothing to use, already connected, connecting, a secret is missing).
Refused(r) ==
    /\ At(r, "received")
    /\ Goto(r, "done")
    /\ UNCHANGED <<stored, active, disposed, registry, handle>>

\* connect(), or reconnect() of an entry that is not connected, up to its first
\* await.  An entry that is connected or connecting answers at once; a missing
\* secret is refused before reserve().
Connect(r) ==
    LET c == req[r].conn IN
    /\ MayStart(r)
    /\ status[c] \notin {"connected", "connecting"}
    /\ Attempt(r, c)
    /\ UNCHANGED <<stored, active, disposed, handle>>

\* reconnect() of a connected entry: disconnect(), and await the close.
ReconnectClose(r) ==
    LET c == req[r].conn IN
    /\ MayStart(r)
    /\ status[c] = "connected"
    /\ DropSessions({c})
    /\ req' = [req EXCEPT ![r].pc = "closingOld", ![r].uses = session[c]]
    /\ UNCHANGED <<stored, active, disposed>>

\* reconnect() after the close: it calls connect(), which looks the connection
\* and the entry up again, but not whether the user is still logged in.
ReconnectResume(r) ==
    LET c == req[r].conn IN
    /\ At(r, "closingOld")
    /\ handle[req[r].uses] = "closed"
    /\ \/ /\ c \in stored
          /\ status[c] \notin {"connected", "connecting"}
          /\ Attempt(r, c)
       \/ /\ c \notin stored \/ status[c] \in {"connected", "connecting"} \/ AuditMayFail
          /\ req' = [req EXCEPT ![r].pc = "done", ![r].uses = Nobody]
          /\ UNCHANGED registry
    /\ UNCHANGED <<stored, active, disposed, handle>>

\* provider.connection.open resolves or rejects.
OpenResolves(r) ==
    /\ At(r, "opening")
    /\ handle' = [handle EXCEPT ![r] = "open"]
    /\ Goto(r, "probing")
    /\ UNCHANGED <<stored, active, disposed, registry>>

OpenRejects(r) ==
    /\ At(r, "opening")
    /\ Fail(r, req[r].conn)
    /\ Goto(r, "done")
    /\ UNCHANGED <<stored, active, disposed, handle>>

\* serverInfo, describe or ping of the new handle fails: close it first.
ProbeRejects(r) ==
    /\ At(r, "probing")
    /\ handle' = Closing({r})
    /\ Goto(r, "closingFailed")
    /\ UNCHANGED <<stored, active, disposed, registry>>

FailedOpenClosed(r) ==
    /\ At(r, "closingFailed")
    /\ handle[r] = "closed"
    /\ Fail(r, req[r].conn)
    /\ Goto(r, "done")
    /\ UNCHANGED <<stored, active, disposed, handle>>

\* Mutant: complete() that ignores its token.
AlwaysCurrent(r) == TRUE

\* complete() accepts only the attempt whose token the entry still carries.
IsCurrent(r) == holder[req[r].conn] = r /\ status[req[r].conn] = "connecting"

Complete(r) ==
    LET c == req[r].conn IN
    /\ At(r, "probing")
    /\ IsCurrent(r)
    /\ status' = [status EXCEPT ![c] = "connected"]
    /\ session' = [session EXCEPT ![c] = r]
    /\ idle' = [idle EXCEPT ![c] = FALSE]
    /\ Goto(r, "done")
    /\ UNCHANGED <<stored, active, disposed, holder, handle>>

\* The audit write after complete() throws: the catch block calls fail(), whose
\* token is still current.
CompleteAuditThrows(r) ==
    LET c == req[r].conn IN
    /\ AuditMayFail
    /\ At(r, "probing")
    /\ IsCurrent(r)
    /\ status' = [status EXCEPT ![c] = "error"]
    /\ session' = [session EXCEPT ![c] = Nobody]
    /\ req' = [req EXCEPT ![r].pc = "done", ![r].unaudited = TRUE]
    /\ UNCHANGED <<stored, active, disposed, holder, idle, handle>>

\* Mutant: complete() refused and the late handle forgotten.
RefusedNotClosed(r) ==
    /\ At(r, "probing")
    /\ ~IsCurrent(r)
    /\ Goto(r, "done")
    /\ UNCHANGED <<stored, active, disposed, registry, handle>>

\* Mutant: waiting for a close that was never issued.
RefusedWaitsForNothing(r) ==
    /\ At(r, "probing")
    /\ ~IsCurrent(r)
    /\ Goto(r, "closingLate")
    /\ UNCHANGED <<stored, active, disposed, registry, handle>>

\* complete() refused: the late handle is closed.
CompleteRefused(r) ==
    /\ At(r, "probing")
    /\ ~IsCurrent(r)
    /\ handle' = Closing({r})
    /\ Goto(r, "closingLate")
    /\ UNCHANGED <<stored, active, disposed, registry>>

LateOpenClosed(r) ==
    /\ At(r, "closingLate")
    /\ handle[r] = "closed"
    /\ Goto(r, "done")
    /\ UNCHANGED <<stored, active, disposed, registry, handle>>

\* The provider ends a close (external); allSettled ignores how.
HandleClosed(r) ==
    /\ handle[r] = "closing"
    /\ handle' = [handle EXCEPT ![r] = "closed"]
    /\ UNCHANGED <<stored, active, disposed, registry, req>>

-----------------------------------------------------------------------------
\* disconnect() by the owner; after the close it only writes its audit record.
Disconnect(r) ==
    /\ MayStart(r)
    /\ DropSessions({req[r].conn})
    /\ Goto(r, "done")
    /\ UNCHANGED <<stored, active, disposed>>

\* status(), statusInfo() and testConnection() of a connected entry read the
\* session and await the provider.
PingStart(r) ==
    LET c == req[r].conn IN
    /\ MayStart(r)
    /\ status[c] = "connected" /\ session[c] # Nobody
    /\ Goto(r, "pinging")
    /\ UNCHANGED <<stored, active, disposed, registry, handle>>

\* status() and testConnection() touch the entry, statusInfo() does not.
PingResolves(r, touches) ==
    /\ At(r, "pinging")
    /\ IF touches THEN Touch(req[r].conn) ELSE UNCHANGED idle
    /\ Goto(r, "done")
    /\ UNCHANGED <<stored, active, disposed, status, holder, session, handle>>

\* markError(): whatever the entry holds now, it becomes an error and its
\* session is closed.
PingRejects(r) ==
    LET c == req[r].conn IN
    /\ At(r, "pinging")
    /\ status' = [status EXCEPT ![c] = "error"]
    /\ session' = [session EXCEPT ![c] = Nobody]
    /\ handle' = Closing({session[c]})
    /\ Goto(r, "done")
    /\ UNCHANGED <<stored, active, disposed, holder, idle>>

\* withConnectedProvider(): the operation runs on the session read before it.
UseStart(r) ==
    LET c == req[r].conn IN
    /\ MayStart(r)
    /\ status[c] = "connected" /\ session[c] # Nobody
    /\ Goto(r, "using")
    /\ UNCHANGED <<stored, active, disposed, registry, handle>>

UseEnds(r) ==
    /\ At(r, "using")
    /\ Touch(req[r].conn)
    /\ Goto(r, "done")
    /\ UNCHANGED <<stored, active, disposed, status, holder, session, handle>>

-----------------------------------------------------------------------------
\* The clock: idleTimeoutMinutes since the entry's last activity.
IdleElapses(c) ==
    /\ status[c] = "connected"
    /\ ~idle[c]
    /\ idle' = [idle EXCEPT ![c] = TRUE]
    /\ UNCHANGED <<stored, active, disposed, status, holder, session, handle, req>>

\* The idle timer closes every idle connected entry.
SweepIdle ==
    /\ ~disposed
    /\ \E c \in Conns : status[c] = "connected" /\ idle[c]
    /\ DropSessions({c \in Conns : status[c] = "connected" /\ idle[c]})
    /\ UNCHANGED <<stored, active, disposed, req>>

\* deleteConnection(): the transaction, then closeForConnection().
DeleteConnection(c) ==
    /\ ~disposed /\ c \in stored
    /\ stored' = stored \ {c}
    /\ DropSessions({c})
    /\ UNCHANGED <<active, disposed, req>>

\* logout() or the end of an application session: closeForUser().  A user with
\* another session is one who logs in again at once.
SessionEnds(u) ==
    /\ u \in active
    /\ active' = active \ {u}
    /\ DropSessions({c \in Conns : Owner[c] = u})
    /\ UNCHANGED <<stored, disposed, req>>

Login(u) ==
    /\ u \notin active
    /\ active' = active \cup {u}
    /\ UNCHANGED <<stored, disposed, registry, handle, req>>

\* dispose(): closeAll().
Dispose ==
    /\ ~disposed
    /\ disposed' = TRUE
    /\ DropSessions(Conns)
    /\ UNCHANGED <<stored, active, req>>

\* The body arrived and the operation begins.
Starting(r) ==
    Refused(r) \/ Connect(r) \/ ReconnectClose(r) \/ Disconnect(r) \/ PingStart(r) \/ UseStart(r)

\* What the provider and the event loop do with a request once its operation began.
Proceed(r) ==
    \/ ReconnectResume(r)
    \/ OpenResolves(r) \/ OpenRejects(r)
    \/ ProbeRejects(r) \/ FailedOpenClosed(r)
    \/ Complete(r) \/ CompleteAuditThrows(r)
    \/ CompleteRefused(r) \/ LateOpenClosed(r)
    \/ \E touches \in BOOLEAN : PingResolves(r, touches)
    \/ PingRejects(r)
    \/ UseEnds(r)

Next ==
    \/ \E r \in Requests, c \in Conns : Receive(r, c)
    \/ \E r \in Requests : Starting(r)
    \/ \E r \in Requests : Proceed(r)
    \/ \E r \in Requests : HandleClosed(r)
    \/ \E c \in Conns : IdleElapses(c)
    \/ SweepIdle
    \/ \E c \in Conns : DeleteConnection(c)
    \/ \E u \in Users : SessionEnds(u)
    \/ \E u \in Users : Login(u)
    \/ Dispose

\* Provider calls end (drivers have connect timeouts and report lost sockets).  A body may never
\* arrive: nothing is asked of Starting.
Fairness ==
    \A r \in Requests : WF_vars(Proceed(r)) /\ WF_vars(HandleClosed(r))

Spec == Init /\ [][Next]_vars
FairSpec == Spec /\ Fairness

-----------------------------------------------------------------------------
\* No provider session is leaked, however connects, reconnects, deletes, logouts and shutdown
\* interleave: a handle that is open is the session of its connection's entry, or the request
\* that opened it is still deciding.  The one exception is an attempt whose audit record could
\* not be written after complete(): fail() drops the session without closing it.
OnlyAuditLeaks ==
    \A r \in Requests : handle[r] = "open" =>
      session[req[r].conn] = r \/ req[r].pc = "probing" \/ req[r].unaudited

\* The reported status is the truth: connected exactly when the entry holds a
\* session, and that session is open, of this connection and not being closed.
ConnectedIsTrue ==
    \A c \in Conns :
      /\ status[c] = "connected" <=> session[c] # Nobody
      /\ session[c] # Nobody => handle[session[c]] = "open" /\ req[session[c]].conn = c

\* connecting is never a dead end: the attempt whose token the entry carries is
\* still in flight, so no late or superseded attempt leaves the status behind.
ConnectingHasAttempt ==
    \A c \in Conns : status[c] = "connecting" =>
      /\ holder[c] # Nobody
      /\ req[holder[c]].conn = c
      /\ req[holder[c]].pc \in {"opening", "probing", "closingFailed"}

\* The registry is the truth about the provider sessions: it knows every open one (but for the
\* exception above), what it says of a connection is so, and it never waits for nobody.
RegistryIsTrue == OnlyAuditLeaks /\ ConnectedIsTrue /\ ConnectingHasAttempt

\* A deleted connection has no session and no attempt that could create one.
DeletedStaysClosed ==
    \A c \in Conns \ stored : session[c] = Nobody /\ status[c] \notin {"connecting", "connected"}

\* After logout or shutdown every attempt that had reserved is refused by complete(), whatever
\* it waits for.  Only one that reserves afterwards can still open a session: a connect() whose
\* body arrived late, or a reconnect() that was waiting for its old session to close, because
\* neither looks at the session again.
EndedAttemptsAreRefused ==
    \A c \in Conns :
      Ended(c) /\ status[c] \in {"connecting", "connected"} => req[holder[c]].late

\* What was ended stays ended: neither an attempt that overlaps the delete of its connection
\* nor one that had reserved when its user logged out or the manager was disposed of brings a
\* session back.
NothingRevives == DeletedStaysClosed /\ EndedAttemptsAreRefused

\* The state diagram of the connection lifecycle: a disconnected connection becomes connecting
\* and nothing else.  It fails: a ping that rejects after disconnect() marks the entry "error".
DisconnectedOnlyConnects ==
    [][\A c \in Conns : status[c] = "disconnected" => status'[c] \in {"disconnected", "connecting"}]_vars

\* Logout, session expiry or shutdown closes the provider sessions of the user.  It fails: see
\* EndedAttemptsAreRefused.
LogoutClosesSessions ==
    \A c \in Conns : Owner[c] \notin active => session[c] = Nobody

\* Every request whose body has arrived ends: no connect, reconnect or status call waits for
\* ever.
EveryRequestEnds ==
    \A r \in Requests : req[r].pc \notin {"new", "received"} ~> req[r].pc = "done"
=============================================================================
