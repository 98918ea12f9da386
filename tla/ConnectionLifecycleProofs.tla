---------------------- MODULE ConnectionLifecycleProofs ----------------------
(***************************************************************************)
(* Theorems about ConnectionLifecycle, for every set of connections, users *)
(* and requests.  The registry's promises are inductive only together with *)
(* what the phase of a request says about its handle (RequestOK) and what  *)
(* an entry says about the request that holds it (EntryOK).                *)
(*                                                                         *)
(* Beside it, the adapters that open the handles, for any number of        *)
(* clients, statements and cancels: no client of a pool is forgotten, a    *)
(* cancel is kept waiting by other cancels alone, and what is reported of  *)
(* a statement is what happened to it.                                     *)
(***************************************************************************)
EXTENDS MCConnections, FiniteSetTheorems, TLAPS

-----------------------------------------------------------------------------
(* The inductive invariant *)

\* A request that has not opened a handle has none, one that probes its handle has it open,
\* and one that closes it has asked for that.
RequestOK(r) ==
    /\ req[r].pc # "new" => req[r].conn \in Conns
    /\ req[r].pc \in {"new", "received", "closingOld", "opening", "pinging", "using"} => handle[r] = "unused"
    /\ req[r].pc = "closingOld" => req[r].uses \in Requests
    /\ req[r].pc = "probing" => handle[r] = "open"
    /\ req[r].pc \in {"closingFailed", "closingLate"} => handle[r] \in {"closing", "closed"}

\* A token belongs to a request for this connection; a session was completed with the token
\* that the entry still carries, and its handle is open.
EntryOK(c) ==
    /\ holder[c] # Nobody => req[holder[c]].pc \notin {"new", "received"} /\ req[holder[c]].conn = c
    /\ status[c] = "connected" <=> session[c] # Nobody
    /\ session[c] # Nobody =>
         /\ holder[c] = session[c]
         /\ req[session[c]].pc = "done"
         /\ handle[session[c]] = "open"
    /\ status[c] = "connecting" =>
         /\ holder[c] # Nobody
         /\ req[holder[c]].pc \in {"opening", "probing", "closingFailed"}

\* An open handle is a session, is being probed, or was dropped by a failed audit write.
HandleOK(r) ==
    handle[r] = "open" =>
      session[req[r].conn] = r \/ req[r].pc = "probing" \/ req[r].unaudited

\* A deleted connection is neither connected nor connecting, and after logout or shutdown only
\* one whose attempt reserved afterwards is.
LiveOK(c) ==
    status[c] \in {"connecting", "connected"} =>
      /\ c \in stored
      /\ Ended(c) => req[holder[c]].late

ConnectionInv ==
    /\ TypeOK
    /\ \A r \in Requests : RequestOK(r) /\ HandleOK(r)
    /\ \A c \in Conns : EntryOK(c) /\ LiveOK(c)
-----------------------------------------------------------------------------
(* Dropping sessions *)

\* markDisconnected() and the closes after it, for any set of entries: the entries end
\* disconnected and empty, exactly the open handles they held are being closed, and the
\* other entries keep theirs.
LEMMA DropEffect ==
    ASSUME ConnectionInv, NEW C \in SUBSET Conns, DropSessions(C)
    PROVE  /\ status' \in [Conns -> {"absent", "disconnected", "connecting", "connected", "error"}]
           /\ holder' \in [Conns -> Requests \cup {Nobody}]
           /\ session' \in [Conns -> Requests \cup {Nobody}]
           /\ idle' \in [Conns -> BOOLEAN]
           /\ handle' \in [Requests -> {"unused", "open", "closing", "closed"}]
           /\ \A c \in C : /\ status'[c] \in {"absent", "disconnected"}
                           /\ session'[c] = Nobody
                           /\ holder'[c] \in {Nobody, holder[c]}
           /\ \A c \in Conns \ C : /\ status'[c] = status[c]
                                   /\ session'[c] = session[c]
                                   /\ holder'[c] = holder[c]
           /\ \A r \in Requests :
                handle'[r] = IF handle[r] = "open" /\ \E c \in C : session[c] = r
                             THEN "closing" ELSE handle[r]
<1> DEFINE Held == {c \in C : status[c] # "absent"}
<1>1. /\ status' = [c \in Conns |-> IF c \in Held THEN "disconnected" ELSE status[c]]
      /\ holder' = [c \in Conns |-> IF c \in Held THEN Nobody ELSE holder[c]]
      /\ session' = [c \in Conns |-> IF c \in Held THEN Nobody ELSE session[c]]
      /\ idle' = [c \in Conns |-> idle[c] /\ c \notin Held]
      /\ handle' = Closing(HandlesOf(Held))
  BY DEF DropSessions
<1>2. TypeOK
  BY DEF ConnectionInv
<1>3. \A c \in C \ Held : status[c] = "absent" /\ session[c] = Nobody
  BY DEF ConnectionInv, EntryOK
<1>4. handle' = [r \in Requests |-> IF r \in HandlesOf(Held) /\ handle[r] = "open"
                                    THEN "closing" ELSE handle[r]]
  BY <1>1 DEF Closing
<1>5. ASSUME NEW r \in Requests
      PROVE  r \in HandlesOf(Held) <=> \E c \in C : session[c] = r
  BY <1>3, ConnectionAssumption DEF HandlesOf
<1>6. \A r \in Requests :
         handle'[r] = IF handle[r] = "open" /\ \E c \in C : session[c] = r
                      THEN "closing" ELSE handle[r]
  BY <1>4, <1>5
<1>7. handle' \in [Requests -> {"unused", "open", "closing", "closed"}]
  BY <1>2, <1>4 DEF TypeOK
<1>8. idle' \in [Conns -> BOOLEAN]
  BY <1>1
<1>9. /\ status' \in [Conns -> {"absent", "disconnected", "connecting", "connected", "error"}]
      /\ holder' \in [Conns -> Requests \cup {Nobody}]
      /\ session' \in [Conns -> Requests \cup {Nobody}]
  BY <1>1, <1>2 DEF TypeOK
<1>10. \A c \in C : /\ status'[c] \in {"absent", "disconnected"}
                    /\ session'[c] = Nobody
                    /\ holder'[c] \in {Nobody, holder[c]}
  BY <1>1, <1>3
<1>11. \A c \in Conns \ C : /\ status'[c] = status[c]
                            /\ session'[c] = session[c]
                            /\ holder'[c] = holder[c]
  BY <1>1
<1> QED
  BY <1>6, <1>7, <1>8, <1>9, <1>10, <1>11

\* A request is received, or begins to wait or ends without a token or a handle of its own.
Starts(r) ==
    /\ req[r].pc \in {"new", "received"}
    /\ req'[r].pc \in {"received", "closingOld", "pinging", "using", "done"}
    /\ req'[r].conn \in Conns
    /\ req'[r].pc = "closingOld" => req'[r].uses \in Requests

\* disconnect(), the idle sweep, delete, logout, shutdown and the first half of reconnect() keep
\* the invariant: whoever is deleted, logged out or shut down is among those whose sessions are
\* dropped.
LEMMA DroppingKeeps ==
    ASSUME ConnectionInv, NEW C \in SUBSET Conns, DropSessions(C),
           stored' \subseteq Conns, active' \subseteq Users, disposed' \in BOOLEAN,
           \A c \in Conns \ C : /\ c \in stored => c \in stored'
                                /\ Owner[c] \in active => Owner[c] \in active'
                                /\ disposed' => disposed,
           req' \in [Requests -> Request],
           \A q \in Requests : req'[q] = req[q] \/ Starts(q)
    PROVE  ConnectionInv'
<1>1. TypeOK /\ TypeOK'
  BY DropEffect DEF ConnectionInv, TypeOK
<1>0. \A c \in Conns : holder[c] # Nobody => req'[holder[c]] = req[holder[c]]
  BY <1>1 DEF ConnectionInv, EntryOK, TypeOK, Starts
<1>2. ASSUME NEW r \in Requests PROVE RequestOK(r)' /\ HandleOK(r)'
  <2>1. /\ RequestOK(r) /\ HandleOK(r)
        /\ handle'[r] = IF handle[r] = "open" /\ \E c \in C : session[c] = r
                        THEN "closing" ELSE handle[r]
    BY <1>2, DropEffect DEF ConnectionInv
  <2>2. \A c \in Conns : session[c] = r => req[r].pc = "done" /\ req[r].conn = c
    BY <1>1, <1>2, ConnectionAssumption DEF ConnectionInv, EntryOK, TypeOK
  <2>3. RequestOK(r)'
    BY <1>2, <2>1, <2>2 DEF RequestOK, Starts
  <2>4. ASSUME handle'[r] = "open", session[req[r].conn] = r
        PROVE  session'[req[r].conn] = r
    <3>1. handle[r] = "open" /\ \A c \in C : session[c] # r
      BY <2>1, <2>4
    <3>2. req[r].pc # "new" /\ req[r].conn \in Conns
      BY <1>2, <2>1, <3>1 DEF RequestOK
    <3>3. req[r].conn \in Conns \ C
      BY <2>4, <3>1, <3>2
    <3> QED
      BY <2>4, <3>3, DropEffect
  <2>5. handle'[r] = "open" => req'[r] = req[r]
    BY <1>2, <2>1 DEF RequestOK, Starts
  <2>6. HandleOK(r)'
    BY <2>1, <2>4, <2>5 DEF HandleOK
  <2> QED
    BY <2>3, <2>6
<1>3. ASSUME NEW c \in Conns PROVE EntryOK(c)' /\ LiveOK(c)'
  <2>1. /\ EntryOK(c) /\ LiveOK(c)
        /\ holder[c] # Nobody => req'[holder[c]] = req[holder[c]]
    BY <1>3, <1>0 DEF ConnectionInv
  <2>2. CASE c \in C
    BY <2>1, <2>2, DropEffect DEF EntryOK, LiveOK
  <2>3. CASE c \notin C
    <3>1. status'[c] = status[c] /\ session'[c] = session[c] /\ holder'[c] = holder[c]
      BY <1>3, <2>3, DropEffect
    <3>2. ASSUME session[c] # Nobody PROVE handle'[session[c]] = "open"
      <4>1. session[c] \in Requests /\ handle[session[c]] = "open" /\ req[session[c]].conn = c
        BY <1>1, <1>3, <2>1, <3>2 DEF EntryOK, TypeOK
      <4>2. \A b \in C : session[b] # session[c]
        BY <1>3, <2>3, <3>2, <4>1 DEF ConnectionInv, EntryOK
      <4> QED
        BY <4>1, <4>2, DropEffect
    <3>3. EntryOK(c)'
      BY <2>1, <3>1, <3>2 DEF EntryOK
    <3>4. status[c] \in {"connecting", "connected"} => holder[c] # Nobody
      BY <2>1 DEF EntryOK
    <3>5. LiveOK(c)'
      BY <1>3, <2>1, <2>3, <3>1, <3>4 DEF LiveOK, Ended
    <3> QED
      BY <3>3, <3>5
  <2> QED
    BY <2>2, <2>3
<1> QED
  BY <1>1, <1>2, <1>3 DEF ConnectionInv

-----------------------------------------------------------------------------
(* The steps *)

\* connect() of an idle entry, and the second half of reconnect(): reserve() gives the entry
\* to a request that has no handle yet.  Nobody else's token, session or handle is touched.
LEMMA ReservingKeeps ==
    ASSUME ConnectionInv, NEW r \in Requests, NEW c \in stored,
           status[c] \notin {"connected", "connecting"},
           req[r].pc \in {"received", "closingOld"},
           Reserve(r, c),
           req' \in [Requests -> Request],
           \A q \in Requests \ {r} : req'[q] = req[q],
           req'[r].pc = "opening" /\ req'[r].conn = c,
           Ended(c) => req'[r].late,
           \A b \in Conns \ {c} : holder[b] # r,
           UNCHANGED <<stored, active, disposed, handle>>
    PROVE  ConnectionInv'
<1>1. TypeOK /\ c \in Conns
  BY DEF ConnectionInv, TypeOK
<1>2. /\ status' = [status EXCEPT ![c] = "connecting"]
      /\ holder' = [holder EXCEPT ![c] = r]
      /\ session' = [session EXCEPT ![c] = Nobody]
      /\ idle' = [idle EXCEPT ![c] = FALSE]
  BY DEF Reserve
<1>3. TypeOK'
  BY <1>1, <1>2 DEF TypeOK
<1>4. session[c] = Nobody /\ handle[r] = "unused"
  BY <1>1 DEF ConnectionInv, EntryOK, RequestOK
<1>5. ASSUME NEW q \in Requests PROVE RequestOK(q)' /\ HandleOK(q)'
  <2>1. RequestOK(q) /\ HandleOK(q)
    BY DEF ConnectionInv
  <2>2. CASE q = r
    BY <1>1, <1>4, <2>2 DEF RequestOK, HandleOK
  <2>3. CASE q # r
    <3>1. req'[q] = req[q] /\ handle'[q] = handle[q]
      BY <2>3
    <3>2. session[req[q].conn] = q => session'[req[q].conn] = q \/ handle[q] # "open"
      <4>1. CASE req[q].conn \in Conns
        BY <1>1, <1>2, <1>4, <4>1, ConnectionAssumption DEF TypeOK
      <4>2. CASE req[q].conn \notin Conns
        BY <2>1, <4>2 DEF RequestOK
      <4> QED
        BY <4>1, <4>2
    <3> QED
      BY <2>1, <3>1, <3>2 DEF RequestOK, HandleOK
  <2> QED
    BY <2>2, <2>3
<1>6. ASSUME NEW b \in Conns PROVE EntryOK(b)' /\ LiveOK(b)'
  <2>1. EntryOK(b) /\ LiveOK(b)
    BY DEF ConnectionInv
  <2>2. CASE b = c
    <3>1. status'[b] = "connecting" /\ holder'[b] = r /\ session'[b] = Nobody
      BY <1>1, <1>2, <2>2 DEF TypeOK
    <3>2. r # Nobody
      BY ConnectionAssumption
    <3> QED
      BY <2>2, <3>1, <3>2 DEF EntryOK, LiveOK, Ended
  <2>3. CASE b # c
    <3>1. status'[b] = status[b] /\ holder'[b] = holder[b] /\ session'[b] = session[b]
      BY <1>1, <1>2, <2>3 DEF TypeOK
    <3>2. holder[b] \in (Requests \ {r}) \cup {Nobody}
      BY <1>1, <2>3 DEF TypeOK
    <3>3. holder[b] # Nobody => req'[holder[b]] = req[holder[b]]
      BY <3>2
    <3>4. status[b] \in {"connecting", "connected"} => holder[b] # Nobody
      BY <2>1 DEF EntryOK
    <3>5. session[b] # Nobody => req'[session[b]] = req[session[b]]
      BY <2>1, <3>3 DEF EntryOK
    <3> QED
      BY <2>1, <3>1, <3>3, <3>4, <3>5 DEF EntryOK, LiveOK, Ended
  <2> QED
    BY <2>2, <2>3
<1> QED
  BY <1>3, <1>5, <1>6 DEF ConnectionInv

\* A request that goes on without touching an entry keeps the invariant, if it keeps its
\* connection, its handle fits its new phase and, while it holds a connecting entry, it goes
\* on attempting to connect.
LEMMA GoingOnKeeps ==
    ASSUME ConnectionInv, NEW r \in Requests, NEW p \in Phase,
           \/ req' = [req EXCEPT ![r].pc = p]
           \/ req' = [req EXCEPT ![r].pc = p, ![r].uses = Nobody],
           req[r].pc \notin {"new", "received"}, p \notin {"new", "received", "closingOld"},
           req[r].pc = "done" => p = "done",
           handle' \in [Requests -> {"unused", "open", "closing", "closed"}],
           \A q \in Requests \ {r} : handle'[q] = handle[q],
           p \in {"opening", "pinging", "using"} => handle'[r] = "unused",
           p = "probing" <=> handle'[r] = "open",
           p \in {"closingFailed", "closingLate"} => handle'[r] \in {"closing", "closed"},
           \A c \in Conns : holder[c] = r /\ status[c] = "connecting"
                              => p \in {"opening", "probing", "closingFailed"},
           \A c \in Conns : session[c] # r,
           idle' \in [Conns -> BOOLEAN],
           UNCHANGED <<stored, active, disposed, status, holder, session>>
    PROVE  ConnectionInv'
<1>1. TypeOK
  BY DEF ConnectionInv
<1>2. /\ req' \in [Requests -> Request]
      /\ \A q \in Requests : /\ req'[q].conn = req[q].conn
                             /\ req'[q].unaudited = req[q].unaudited
                             /\ req'[q].late = req[q].late
                             /\ q # r => req'[q].uses = req[q].uses
                             /\ req'[q].pc = IF q = r THEN p ELSE req[q].pc
  BY <1>1 DEF TypeOK, Request
<1>3. TypeOK'
  BY <1>1, <1>2 DEF TypeOK
<1>4. ASSUME NEW q \in Requests PROVE RequestOK(q)' /\ HandleOK(q)'
  <2>1. RequestOK(q) /\ HandleOK(q)
    BY DEF ConnectionInv
  <2>2. CASE q = r
    BY <1>2, <2>1, <2>2 DEF RequestOK, HandleOK
  <2>3. CASE q # r
    BY <1>2, <2>1, <2>3 DEF RequestOK, HandleOK
  <2> QED
    BY <2>2, <2>3
<1>5. ASSUME NEW c \in Conns PROVE EntryOK(c)' /\ LiveOK(c)'
  <2>1. EntryOK(c) /\ LiveOK(c)
    BY DEF ConnectionInv
  <2>2. holder[c] \in Requests \cup {Nobody} /\ session[c] \in Requests \cup {Nobody}
    BY <1>1 DEF TypeOK
  <2>3. EntryOK(c)'
    BY <1>2, <2>1, <2>2 DEF EntryOK
  <2>4. status[c] \in {"connecting", "connected"} => holder[c] \in Requests
    BY <2>1, <2>2 DEF EntryOK
  <2>5. LiveOK(c)'
    BY <1>2, <2>1, <2>4 DEF LiveOK, Ended
  <2> QED
    BY <2>3, <2>5
<1> QED
  BY <1>3, <1>4, <1>5 DEF ConnectionInv

\* A status call or a provider operation starts on the session it has read.
LEMMA StartingKeeps ==
    ASSUME ConnectionInv, NEW r \in Requests, Starts(r),
           req' \in [Requests -> Request],
           \A q \in Requests \ {r} : req'[q] = req[q],
           UNCHANGED <<stored, active, disposed, registry, handle>>
    PROVE  ConnectionInv'
<1>1. TypeOK
  BY DEF ConnectionInv
<1>2. handle' = Closing(HandlesOf({}))
  BY <1>1 DEF Closing, HandlesOf, TypeOK
<1>3. /\ status' = [c \in Conns |-> IF c \in {} THEN "disconnected" ELSE status[c]]
      /\ holder' = [c \in Conns |-> IF c \in {} THEN Nobody ELSE holder[c]]
      /\ session' = [c \in Conns |-> IF c \in {} THEN Nobody ELSE session[c]]
  BY <1>1 DEF TypeOK, registry
<1>4. idle' = [c \in Conns |-> idle[c] /\ c \notin {}]
  BY <1>1 DEF TypeOK, registry
<1>5. {c \in {} : status[c] # "absent"} = {}
  OBVIOUS
<1>6. DropSessions({})
  BY <1>2, <1>3, <1>4, <1>5 DEF DropSessions
<1> QED
  BY <1>1, <1>6, DroppingKeeps DEF TypeOK

\* The token of an entry that ends its attempt (fail(), or markError() of whatever it holds):
\* the entry becomes an error without a session, and the handle it held is being closed or was
\* left to an attempt without an audit record.
LEMMA FailingKeeps ==
    ASSUME ConnectionInv, NEW r \in Requests, NEW c \in Conns,
           req[r].conn = c, req[r].pc \notin {"new", "received"},
           status' = [status EXCEPT ![c] = "error"],
           session' = [session EXCEPT ![c] = Nobody],
           req' \in [Requests -> Request],
           \A q \in Requests \ {r} : req'[q] = req[q],
           req'[r].pc = "done" /\ req'[r].conn = c,
           handle' \in [Requests -> {"unused", "open", "closing", "closed"}],
           \A q \in Requests : handle'[q] = IF session[c] = q /\ handle[q] = "open"
                                            THEN "closing" ELSE handle[q],
           handle[r] = "open" => req'[r].unaudited,
           \A b \in Conns \ {c} : holder[b] # r,
           UNCHANGED <<stored, active, disposed, holder>>,
           idle' \in [Conns -> BOOLEAN]
    PROVE  ConnectionInv'
<1>1. TypeOK /\ TypeOK'
  BY DEF ConnectionInv, TypeOK
<1>2. ASSUME NEW q \in Requests PROVE RequestOK(q)' /\ HandleOK(q)'
  <2>1. RequestOK(q) /\ HandleOK(q)
    BY DEF ConnectionInv
  <2>2. CASE q = r
    BY <2>1, <2>2 DEF RequestOK, HandleOK
  <2>3. CASE q # r
    <3>1. req'[q] = req[q]
      BY <2>3
    <3>2. session[c] = q => req[q].pc = "done"
      BY ConnectionAssumption DEF ConnectionInv, EntryOK
    <3>3. RequestOK(q)'
      BY <2>1, <3>1, <3>2 DEF RequestOK
    <3>4. ASSUME handle'[q] = "open", session[req[q].conn] = q PROVE session'[req[q].conn] = q
      <4>1. session[c] # q /\ handle[q] = "open"
        BY <3>4
      <4>2. req[q].conn \in Conns
        BY <2>1, <4>1 DEF RequestOK
      <4> QED
        BY <1>1, <3>4, <4>1, <4>2 DEF TypeOK
    <3> QED
      BY <2>1, <3>1, <3>3, <3>4 DEF HandleOK
  <2> QED
    BY <2>2, <2>3
<1>3. ASSUME NEW b \in Conns PROVE EntryOK(b)' /\ LiveOK(b)'
  <2>1. EntryOK(b) /\ LiveOK(b)
    BY DEF ConnectionInv
  <2>2. CASE b = c
    <3>1. status'[b] = "error" /\ session'[b] = Nobody /\ holder'[b] = holder[b]
      BY <1>1, <2>2 DEF TypeOK
    <3>2. holder[b] # Nobody => holder[b] \in Requests
      BY <1>1 DEF TypeOK
    <3> QED
      BY <2>1, <2>2, <3>1, <3>2 DEF EntryOK, LiveOK
  <2>3. CASE b # c
    <3>1. status'[b] = status[b] /\ session'[b] = session[b] /\ holder'[b] = holder[b]
      BY <1>1, <2>3 DEF TypeOK
    <3>2. holder[b] # Nobody => req'[holder[b]] = req[holder[b]]
      BY <1>1, <2>3 DEF TypeOK
    <3>3. ASSUME session[b] # Nobody PROVE handle'[session[b]] = "open"
      <4>1. session[b] \in Requests /\ handle[session[b]] = "open" /\ req[session[b]].conn = b
        BY <1>1, <2>1, <3>3 DEF EntryOK, TypeOK
      <4>2. session[c] # session[b]
        BY <2>3, <3>3, <4>1 DEF ConnectionInv, EntryOK
      <4> QED
        BY <4>1, <4>2
    <3>4. status[b] \in {"connecting", "connected"} => holder[b] # Nobody
      BY <2>1 DEF EntryOK
    <3>5. EntryOK(b)'
      BY <2>1, <3>1, <3>2, <3>3 DEF EntryOK
    <3> QED
      BY <2>1, <3>1, <3>2, <3>4, <3>5 DEF LiveOK, Ended
  <2> QED
    BY <2>2, <2>3
<1> QED
  BY <1>1, <1>2, <1>3 DEF ConnectionInv

\* The provider ends a close, the clock runs, a user logs in: nothing an entry says changes.
LEMMA QuietKeeps ==
    ASSUME ConnectionInv,
           UNCHANGED <<stored, disposed, status, holder, session, req>>,
           active \subseteq active', active' \subseteq Users,
           idle' \in [Conns -> BOOLEAN],
           handle' \in [Requests -> {"unused", "open", "closing", "closed"}],
           \A r \in Requests : handle'[r] = handle[r]
                              \/ (handle[r] = "closing" /\ handle'[r] = "closed")
    PROVE  ConnectionInv'
<1>1. TypeOK /\ TypeOK'
  BY DEF ConnectionInv, TypeOK
<1>2. ASSUME NEW r \in Requests PROVE RequestOK(r)' /\ HandleOK(r)'
  BY DEF ConnectionInv, RequestOK, HandleOK
<1>3. ASSUME NEW c \in Conns PROVE EntryOK(c)' /\ LiveOK(c)'
  <2>1. EntryOK(c) /\ LiveOK(c)
    BY DEF ConnectionInv
  <2>2. session[c] # Nobody => session[c] \in Requests
    BY <1>1 DEF TypeOK
  <2>3. EntryOK(c)'
    BY <2>1, <2>2 DEF EntryOK
  <2> QED
    BY <2>1, <2>3 DEF LiveOK, Ended
<1> QED
  BY <1>1, <1>2, <1>3 DEF ConnectionInv

\* What every request knows of the entries: a token of it is for its own connection, it is no
\* session before it is done, and a connecting entry that it holds means it is attempting.
LEMMA OwnEntryOnly ==
    ASSUME ConnectionInv, NEW r \in Requests
    PROVE  /\ req[r] \in Request
           /\ \A c \in Conns : holder[c] = r => req[r].pc \notin {"new", "received"} /\ req[r].conn = c
           /\ \A c \in Conns : session[c] = r => req[r].pc = "done"
           /\ \A c \in Conns : holder[c] = r /\ status[c] = "connecting"
                                => req[r].pc \in {"opening", "probing", "closingFailed"}
           /\ \A c \in Conns : holder[c] = r /\ session[c] # Nobody => req[r].pc = "done"
  BY ConnectionAssumption DEF ConnectionInv, EntryOK, TypeOK

\* complete(): the attempt whose token is current becomes the session of its entry.
LEMMA CompleteKeeps ==
    ASSUME ConnectionInv, NEW r \in Requests, Complete(r)
    PROVE  ConnectionInv'
<1> DEFINE c == req[r].conn
<1>1. TypeOK /\ c \in Conns /\ handle[r] = "open" /\ req[r].pc = "probing"
  BY DEF ConnectionInv, RequestOK, Complete, At
<1>2. holder[c] = r /\ status[c] = "connecting" /\ r # Nobody
  BY ConnectionAssumption DEF Complete, IsCurrent
<1>3. /\ status' = [status EXCEPT ![c] = "connected"]
      /\ session' = [session EXCEPT ![c] = r]
      /\ idle' = [idle EXCEPT ![c] = FALSE]
      /\ req' = [req EXCEPT ![r].pc = "done"]
      /\ UNCHANGED <<stored, active, disposed, holder, handle>>
  BY DEF Complete, Goto
<1>4. /\ req' \in [Requests -> Request]
      /\ \A q \in Requests : /\ req'[q].conn = req[q].conn
                             /\ req'[q].unaudited = req[q].unaudited
                             /\ req'[q].late = req[q].late
                             /\ req'[q].uses = req[q].uses
                             /\ req'[q].pc = IF q = r THEN "done" ELSE req[q].pc
  BY <1>1, <1>3 DEF TypeOK, Request, Phase
<1>5. TypeOK'
  BY <1>1, <1>3, <1>4 DEF TypeOK
<1>6. session[c] = Nobody
  BY <1>1, <1>2 DEF ConnectionInv, EntryOK
<1>7. ASSUME NEW q \in Requests PROVE RequestOK(q)' /\ HandleOK(q)'
  <2>1. RequestOK(q) /\ HandleOK(q)
    BY DEF ConnectionInv
  <2>2. RequestOK(q)'
    BY <1>1, <1>3, <1>4, <2>1 DEF RequestOK
  <2>3. CASE q = r
    <3>1. session'[c] = r
      BY <1>1, <1>3 DEF TypeOK
    <3> QED
      BY <1>4, <2>2, <2>3, <3>1 DEF HandleOK
  <2>4. CASE q # r
    <3>1. ASSUME handle[q] = "open", session[req[q].conn] = q PROVE session'[req[q].conn] = q
      <4>1. req[q].conn \in Conns
        BY <2>1, <3>1 DEF RequestOK
      <4> QED
        BY <1>1, <1>3, <1>6, <3>1, <4>1, ConnectionAssumption DEF TypeOK
    <3> QED
      BY <1>3, <1>4, <2>1, <2>2, <2>4, <3>1 DEF HandleOK
  <2> QED
    BY <2>3, <2>4
<1>8. ASSUME NEW b \in Conns PROVE EntryOK(b)' /\ LiveOK(b)'
  <2>1. EntryOK(b) /\ LiveOK(b)
    BY DEF ConnectionInv
  <2>2. CASE b = c
    <3>1. status'[b] = "connected" /\ session'[b] = r /\ holder'[b] = r
      BY <1>1, <1>2, <1>3, <2>2 DEF TypeOK
    <3> QED
      BY <1>1, <1>2, <1>3, <1>4, <2>1, <2>2, <3>1 DEF EntryOK, LiveOK, Ended
  <2>3. CASE b # c
    <3>1. status'[b] = status[b] /\ session'[b] = session[b] /\ holder'[b] = holder[b]
      BY <1>1, <1>3, <2>3 DEF TypeOK
    <3>2. holder[b] # r
      BY <1>2, <2>3, OwnEntryOnly
    <3>3. holder[b] # Nobody => /\ req'[holder[b]].pc = req[holder[b]].pc
                                /\ req'[holder[b]].conn = req[holder[b]].conn
                                /\ req'[holder[b]].late = req[holder[b]].late
      BY <1>1, <1>4, <3>2 DEF TypeOK
    <3>4. status[b] \in {"connecting", "connected"} => holder[b] # Nobody
      BY <2>1 DEF EntryOK
    <3>5. EntryOK(b)'
      BY <1>3, <2>1, <3>1, <3>3 DEF EntryOK
    <3> QED
      BY <1>3, <2>1, <3>1, <3>3, <3>4, <3>5 DEF LiveOK, Ended
  <2> QED
    BY <2>2, <2>3
<1> QED
  BY <1>5, <1>7, <1>8 DEF ConnectionInv

\* The steps of a request that leave the registry alone but for its last activity.
LEMMA ProceedingKeeps ==
    ASSUME ConnectionInv, NEW r \in Requests,
           \/ OpenResolves(r) \/ ProbeRejects(r)
           \/ CompleteRefused(r) \/ LateOpenClosed(r)
           \/ \E touches \in BOOLEAN : PingResolves(r, touches)
           \/ UseEnds(r)
    PROVE  ConnectionInv'
<1>1. TypeOK /\ RequestOK(r) /\ req[r].pc \in Phase
  BY DEF ConnectionInv, TypeOK, Request
<1>2. \A H \in SUBSET Requests :
        /\ Closing(H) \in [Requests -> {"unused", "open", "closing", "closed"}]
        /\ \A q \in Requests :
             Closing(H)[q] = IF q \in H /\ handle[q] = "open" THEN "closing" ELSE handle[q]
  BY <1>1 DEF Closing, TypeOK
<1>3. CASE OpenResolves(r)
  <2>1. req[r].pc = "opening" /\ req' = [req EXCEPT ![r].pc = "probing"]
    BY <1>3 DEF OpenResolves, At, Goto
  <2>2. /\ handle' = [handle EXCEPT ![r] = "open"]
        /\ UNCHANGED <<stored, active, disposed, status, holder, session, idle>>
    BY <1>3 DEF OpenResolves, registry
  <2> QED
    BY <1>1, <2>1, <2>2, GoingOnKeeps, OwnEntryOnly DEF TypeOK, Phase
<1>4. CASE ProbeRejects(r)
  <2>1. req[r].pc = "probing" /\ req' = [req EXCEPT ![r].pc = "closingFailed"]
    BY <1>4 DEF ProbeRejects, At, Goto
  <2>2. /\ handle' = Closing({r})
        /\ UNCHANGED <<stored, active, disposed, status, holder, session, idle>>
    BY <1>4 DEF ProbeRejects, registry
  <2>3. handle[r] = "open"
    BY <1>1, <2>1 DEF RequestOK
  <2>4. /\ handle' \in [Requests -> {"unused", "open", "closing", "closed"}]
        /\ handle'[r] = "closing"
        /\ \A q \in Requests \ {r} : handle'[q] = handle[q]
    BY <1>2, <2>2, <2>3
  <2>5. \A c \in Conns : session[c] # r
    BY <2>1, OwnEntryOnly
  <2>6. UNCHANGED <<stored, active, disposed, status, holder, session>> /\ idle' \in [Conns -> BOOLEAN]
    BY <1>1, <2>2 DEF TypeOK
  <2>7. "closingFailed" \in Phase
    BY DEF Phase
  <2> QED
    BY <2>1, <2>4, <2>5, <2>6, <2>7, GoingOnKeeps
<1>5. CASE CompleteRefused(r)
  <2>1. req[r].pc = "probing" /\ req' = [req EXCEPT ![r].pc = "closingLate"]
    BY <1>5 DEF CompleteRefused, At, Goto
  <2>2. /\ handle' = Closing({r})
        /\ UNCHANGED <<stored, active, disposed, status, holder, session, idle>>
    BY <1>5 DEF CompleteRefused, registry
  <2>3. handle[r] = "open"
    BY <1>1, <2>1 DEF RequestOK
  <2>4. \A c \in Conns : holder[c] = r /\ status[c] = "connecting"
                           => "closingLate" \in {"opening", "probing", "closingFailed"}
    BY <1>5, OwnEntryOnly DEF CompleteRefused, IsCurrent
  <2>5. /\ handle' \in [Requests -> {"unused", "open", "closing", "closed"}]
        /\ handle'[r] = "closing"
        /\ \A q \in Requests \ {r} : handle'[q] = handle[q]
    BY <1>2, <2>2, <2>3
  <2>6. \A c \in Conns : session[c] # r
    BY <2>1, OwnEntryOnly
  <2>7. UNCHANGED <<stored, active, disposed, status, holder, session>> /\ idle' \in [Conns -> BOOLEAN]
    BY <1>1, <2>2 DEF TypeOK
  <2>8. "closingLate" \in Phase
    BY DEF Phase
  <2> QED
    BY <2>1, <2>4, <2>5, <2>6, <2>7, <2>8, GoingOnKeeps
<1>6. CASE LateOpenClosed(r)
  <2>1. req[r].pc = "closingLate" /\ req' = [req EXCEPT ![r].pc = "done"] /\ handle[r] = "closed"
    BY <1>6 DEF LateOpenClosed, At, Goto
  <2>2. UNCHANGED <<stored, active, disposed, status, holder, session, idle, handle>>
    BY <1>6 DEF LateOpenClosed, registry
  <2> QED
    BY <1>1, <2>1, <2>2, GoingOnKeeps, OwnEntryOnly DEF TypeOK, Phase
<1>7. CASE UseEnds(r) \/ \E touches \in BOOLEAN : PingResolves(r, touches)
  <2>1. req[r].pc \in {"using", "pinging"} /\ req' = [req EXCEPT ![r].pc = "done"]
    BY <1>7 DEF UseEnds, PingResolves, At, Goto
  <2>2. UNCHANGED <<stored, active, disposed, status, holder, session, handle>>
    BY <1>7 DEF UseEnds, PingResolves
  <2>3. idle' \in [Conns -> BOOLEAN]
    BY <1>1, <1>7 DEF UseEnds, PingResolves, Touch, TypeOK
  <2>4. handle[r] = "unused"
    BY <1>1, <2>1 DEF RequestOK
  <2> QED
    BY <1>1, <2>1, <2>2, <2>3, <2>4, GoingOnKeeps, OwnEntryOnly DEF TypeOK, Phase
<1> QED
  BY <1>3, <1>4, <1>5, <1>6, <1>7

\* An attempt that fails, before or after its handle was closed, and one whose audit record
\* cannot be written, end in an error only if their token is current.
LEMMA FailedAttemptKeeps ==
    ASSUME ConnectionInv, NEW r \in Requests,
           OpenRejects(r) \/ FailedOpenClosed(r) \/ CompleteAuditThrows(r)
    PROVE  ConnectionInv'
<1>0. /\ TypeOK /\ RequestOK(r) /\ req[r] \in Request
      /\ req[r].pc \in {"opening", "closingFailed", "probing"} /\ req[r].conn \in Conns
  BY DEF ConnectionInv, TypeOK, RequestOK, OpenRejects, FailedOpenClosed, CompleteAuditThrows, At
<1>1. PICK c \in Conns : req[r].conn = c
  BY <1>0
<1>2. \A b \in Conns \ {c} : holder[b] # r
  BY <1>1, OwnEntryOnly
<1>3. holder[c] = r => session[c] = Nobody
  BY <1>0, OwnEntryOnly
<1>4. CASE CompleteAuditThrows(r)
  <2>1. /\ holder[c] = r
        /\ status' = [status EXCEPT ![c] = "error"]
        /\ session' = [session EXCEPT ![c] = Nobody]
        /\ req' = [req EXCEPT ![r].pc = "done", ![r].unaudited = TRUE]
        /\ UNCHANGED <<stored, active, disposed, holder, idle, handle>>
    BY <1>1, <1>4 DEF CompleteAuditThrows, IsCurrent
  <2>2. /\ req' \in [Requests -> Request]
        /\ req'[r].pc = "done" /\ req'[r].conn = c /\ req'[r].unaudited
        /\ \A q \in Requests \ {r} : req'[q] = req[q]
    BY <1>0, <1>1, <2>1 DEF TypeOK, Request, Phase
  <2>3. \A q \in Requests : handle'[q] = IF session[c] = q /\ handle[q] = "open"
                                         THEN "closing" ELSE handle[q]
    BY <1>3, <2>1, ConnectionAssumption
  <2>4. handle' \in [Requests -> {"unused", "open", "closing", "closed"}] /\ idle' \in [Conns -> BOOLEAN]
    BY <1>0, <2>1 DEF TypeOK
  <2>5. UNCHANGED <<stored, active, disposed, holder>>
    BY <2>1
  <2>6. req[r].pc \notin {"new", "received"}
    BY <1>0
  <2>7. status' = [status EXCEPT ![c] = "error"] /\ session' = [session EXCEPT ![c] = Nobody]
    BY <2>1
  <2> QED
    BY <1>1, <1>2, <2>2, <2>3, <2>4, <2>5, <2>6, <2>7, FailingKeeps
<1>5. CASE OpenRejects(r) \/ FailedOpenClosed(r)
  <2>1. /\ Fail(r, c)
        /\ req' = [req EXCEPT ![r].pc = "done"]
        /\ req[r].pc \in {"opening", "closingFailed"}
        /\ req[r].pc = "closingFailed" => handle[r] = "closed"
        /\ UNCHANGED <<stored, active, disposed, handle>>
    BY <1>1, <1>5 DEF OpenRejects, FailedOpenClosed, Goto, At
  <2>2. /\ req' \in [Requests -> Request]
        /\ req'[r].pc = "done" /\ req'[r].conn = c
        /\ \A q \in Requests \ {r} : req'[q] = req[q]
    BY <1>0, <1>1, <2>1 DEF TypeOK, Request, Phase
  <2>3. handle[r] # "open"
    BY <1>0, <2>1 DEF RequestOK
  <2>4. handle' \in [Requests -> {"unused", "open", "closing", "closed"}]
    BY <1>0, <2>1 DEF TypeOK
  <2>5. CASE holder[c] = r
    <3>1. /\ status' = [status EXCEPT ![c] = "error"]
          /\ session' = [session EXCEPT ![c] = Nobody]
          /\ UNCHANGED <<holder, idle>>
      BY <2>1, <2>5 DEF Fail
    <3>2. \A q \in Requests : handle'[q] = IF session[c] = q /\ handle[q] = "open"
                                           THEN "closing" ELSE handle[q]
      BY <1>3, <2>1, <2>5, ConnectionAssumption
    <3>3. idle' \in [Conns -> BOOLEAN]
      BY <1>0, <3>1 DEF TypeOK
    <3>4. UNCHANGED <<stored, active, disposed, holder>> /\ req[r].pc \notin {"new", "received"}
      BY <2>1, <3>1
    <3> QED
      BY <1>1, <1>2, <2>2, <2>3, <2>4, <3>1, <3>2, <3>3, <3>4, FailingKeeps
  <2>6. CASE holder[c] # r
    <3>1. UNCHANGED <<status, holder, session, idle>>
      BY <2>1, <2>6 DEF Fail, registry
    <3>2. /\ \A b \in Conns : session[b] # r
          /\ \A b \in Conns : holder[b] = r /\ status[b] = "connecting"
                                => "done" \in {"opening", "probing", "closingFailed"}
      BY <1>2, <2>1, <2>6, OwnEntryOnly
    <3>3. /\ UNCHANGED <<stored, active, disposed, status, holder, session>>
          /\ idle' \in [Conns -> BOOLEAN]
          /\ \A q \in Requests \ {r} : handle'[q] = handle[q]
          /\ handle'[r] # "open" /\ req[r].pc \notin {"new", "received", "done"}
      BY <1>0, <2>1, <2>3, <3>1 DEF TypeOK
    <3>4. "done" \in Phase /\ req' = [req EXCEPT ![r].pc = "done"]
      BY <2>1 DEF Phase
    <3> QED
      BY <1>0, <2>3, <2>4, <3>1, <3>2, <3>3, <3>4, GoingOnKeeps DEF TypeOK, Phase
  <2> QED
    BY <2>5, <2>6
<1> QED
  BY <1>4, <1>5

\* markError() by a ping that rejects: whatever the entry holds now is dropped and closed, also
\* a session that a later reconnect() has put there.
LEMMA PingRejectsKeeps ==
    ASSUME ConnectionInv, NEW r \in Requests, PingRejects(r)
    PROVE  ConnectionInv'
<1>0. /\ TypeOK /\ RequestOK(r) /\ req[r] \in Request
      /\ req[r].pc = "pinging" /\ req[r].conn \in Conns
  BY DEF ConnectionInv, TypeOK, RequestOK, PingRejects, At
<1>1. PICK c \in Conns : req[r].conn = c
  BY <1>0
<1>2. /\ status' = [status EXCEPT ![c] = "error"]
      /\ session' = [session EXCEPT ![c] = Nobody]
      /\ handle' = Closing({session[c]})
      /\ req' = [req EXCEPT ![r].pc = "done"]
      /\ UNCHANGED <<stored, active, disposed, holder, idle>>
  BY <1>1 DEF PingRejects, Goto
<1>3. /\ req' \in [Requests -> Request]
      /\ req'[r].pc = "done" /\ req'[r].conn = c
      /\ \A q \in Requests \ {r} : req'[q] = req[q]
  BY <1>0, <1>1, <1>2 DEF TypeOK, Request, Phase
<1>4. handle[r] = "unused" /\ req[r].pc \notin {"new", "received"}
  BY <1>0 DEF RequestOK
<1>5. /\ handle' \in [Requests -> {"unused", "open", "closing", "closed"}]
      /\ \A q \in Requests : handle'[q] = IF session[c] = q /\ handle[q] = "open"
                                       THEN "closing" ELSE handle[q]
  BY <1>0, <1>2 DEF Closing, TypeOK
<1>6. \A b \in Conns \ {c} : holder[b] # r
  BY <1>1, OwnEntryOnly
<1>7. /\ UNCHANGED <<stored, active, disposed, holder>> /\ idle' \in [Conns -> BOOLEAN]
      /\ status' = [status EXCEPT ![c] = "error"] /\ session' = [session EXCEPT ![c] = Nobody]
  BY <1>0, <1>2 DEF TypeOK
<1> QED
  BY <1>1, <1>3, <1>4, <1>5, <1>6, <1>7, FailingKeeps

\* connect() of an entry that is neither connected nor connecting.
LEMMA ConnectKeeps ==
    ASSUME ConnectionInv, NEW r \in Requests, Connect(r)
    PROVE  ConnectionInv'
<1>1. /\ TypeOK /\ RequestOK(r) /\ req[r] \in Request
      /\ req[r].pc = "received" /\ req[r].conn \in stored
      /\ UNCHANGED <<stored, active, disposed, handle>>
  BY DEF ConnectionInv, TypeOK, Connect, MayStart, At
<1>2. PICK c \in stored : req[r].conn = c
  BY <1>1
<1>3. /\ status[c] \notin {"connected", "connecting"}
      /\ Reserve(r, c)
      /\ req' = [req EXCEPT ![r].pc = "opening", ![r].uses = Nobody, ![r].late = Ended(c)]
  BY <1>2 DEF Connect, Attempt
<1>4. /\ req' \in [Requests -> Request]
      /\ \A q \in Requests \ {r} : req'[q] = req[q]
      /\ req'[r].pc = "opening" /\ req'[r].conn = c /\ (Ended(c) => req'[r].late)
  BY <1>1, <1>2, <1>3 DEF TypeOK, Request, Phase, Ended
<1>5. \A b \in Conns \ {c} : holder[b] # r
  BY <1>1, OwnEntryOnly
<1> QED
  BY <1>1, <1>3, <1>4, <1>5, ReservingKeeps

\* reconnect() after its await: it reserves the entry again, or ends.
LEMMA ReconnectResumeKeeps ==
    ASSUME ConnectionInv, NEW r \in Requests, ReconnectResume(r)
    PROVE  ConnectionInv'
<1>0. /\ TypeOK /\ RequestOK(r) /\ req[r] \in Request
      /\ req[r].pc = "closingOld" /\ req[r].conn \in Conns
      /\ UNCHANGED <<stored, active, disposed, handle>>
  BY DEF ConnectionInv, TypeOK, RequestOK, ReconnectResume, At
<1>1. PICK c \in Conns : req[r].conn = c
  BY <1>0
<1>2. CASE /\ c \in stored
           /\ status[c] \notin {"connected", "connecting"}
           /\ Attempt(r, c)
  <2>1. /\ req' = [req EXCEPT ![r].pc = "opening", ![r].uses = Nobody, ![r].late = Ended(c)]
        /\ Reserve(r, c)
    BY <1>2 DEF Attempt
  <2>2. /\ req' \in [Requests -> Request]
        /\ \A q \in Requests \ {r} : req'[q] = req[q]
        /\ req'[r].pc = "opening" /\ req'[r].conn = c /\ (Ended(c) => req'[r].late)
    BY <1>0, <1>1, <2>1 DEF TypeOK, Request, Phase, Ended
  <2>3. \A b \in Conns \ {c} : holder[b] # r
    BY <1>1, OwnEntryOnly
  <2>4. c \in stored /\ status[c] \notin {"connected", "connecting"}
    BY <1>2
  <2> QED
    BY <1>0, <2>1, <2>2, <2>3, <2>4, ReservingKeeps
<1>3. CASE req' = [req EXCEPT ![r].pc = "done", ![r].uses = Nobody] /\ UNCHANGED registry
  <2>1. UNCHANGED <<stored, active, disposed, status, holder, session>> /\ idle' \in [Conns -> BOOLEAN]
    BY <1>0, <1>3 DEF registry, TypeOK
  <2>2. /\ \A b \in Conns : session[b] # r
        /\ \A b \in Conns : holder[b] = r /\ status[b] = "connecting"
                              => "done" \in {"opening", "probing", "closingFailed"}
    BY <1>0, OwnEntryOnly
  <2>3. handle'[r] = "unused" /\ handle' \in [Requests -> {"unused", "open", "closing", "closed"}]
    BY <1>0 DEF RequestOK, TypeOK
  <2>4. \A q \in Requests \ {r} : handle'[q] = handle[q]
    BY <1>0
  <2> QED
    BY <1>0, <1>3, <2>1, <2>2, <2>3, <2>4, GoingOnKeeps DEF TypeOK, Phase
<1> QED
  BY <1>1, <1>2, <1>3 DEF ReconnectResume

\* A request is received, is refused, or reads the session of a connected entry.
LEMMA ReadingKeeps ==
    ASSUME ConnectionInv, NEW r \in Requests,
           (\E c \in Conns : Receive(r, c)) \/ Refused(r) \/ PingStart(r) \/ UseStart(r)
    PROVE  ConnectionInv'
<1>1. TypeOK /\ RequestOK(r) /\ UNCHANGED <<stored, active, disposed, registry, handle>>
  BY DEF ConnectionInv, Receive, Refused, PingStart, UseStart
<1>2. CASE \E c \in Conns : Receive(r, c)
  <2>1. PICK c \in Conns : /\ req[r].pc = "new"
                           /\ req' = [req EXCEPT ![r].pc = "received", ![r].conn = c]
    BY <1>2 DEF Receive, At
  <2>2. /\ req' \in [Requests -> Request]
        /\ \A q \in Requests \ {r} : req'[q] = req[q]
        /\ Starts(r)
    BY <1>1, <2>1 DEF TypeOK, Request, Phase, Starts
  <2> QED
    BY <1>1, <2>2, StartingKeeps
<1>3. CASE Refused(r) \/ PingStart(r) \/ UseStart(r)
  <2>1. PICK p \in {"done", "pinging", "using"} :
          req[r].pc = "received" /\ req' = [req EXCEPT ![r].pc = p]
    BY <1>3 DEF Refused, PingStart, UseStart, MayStart, At, Goto
  <2>2. /\ req' \in [Requests -> Request]
        /\ \A q \in Requests \ {r} : req'[q] = req[q]
        /\ Starts(r)
    BY <1>1, <2>1 DEF TypeOK, Request, Phase, Starts, RequestOK
  <2> QED
    BY <1>1, <2>2, StartingKeeps
<1> QED
  BY <1>2, <1>3

\* disconnect(), and the first half of reconnect().
LEMMA DisconnectingKeeps ==
    ASSUME ConnectionInv, NEW r \in Requests, Disconnect(r) \/ ReconnectClose(r)
    PROVE  ConnectionInv'
<1>1. /\ TypeOK /\ RequestOK(r) /\ req[r] \in Request
      /\ req[r].pc = "received" /\ req[r].conn \in stored
      /\ UNCHANGED <<stored, active, disposed>>
  BY DEF ConnectionInv, TypeOK, Disconnect, ReconnectClose, MayStart, At
<1>2. PICK c \in Conns : req[r].conn = c
  BY <1>1 DEF TypeOK
<1>3. DropSessions({c})
  BY <1>2 DEF Disconnect, ReconnectClose
<1>4. /\ req' \in [Requests -> Request]
      /\ \A q \in Requests \ {r} : req'[q] = req[q]
      /\ Starts(r)
  <2>1. CASE Disconnect(r)
    BY <1>1, <1>2, <2>1 DEF Disconnect, Goto, TypeOK, Request, Phase, Starts
  <2>2. CASE ReconnectClose(r)
    <3>1. status[c] = "connected" /\ req' = [req EXCEPT ![r].pc = "closingOld", ![r].uses = session[c]]
      BY <1>2, <2>2 DEF ReconnectClose
    <3>2. session[c] \in Requests
      BY <1>1, <3>1 DEF ConnectionInv, EntryOK, TypeOK
    <3> QED
      BY <1>1, <1>2, <3>1, <3>2 DEF TypeOK, Request, Phase, Starts
  <2> QED
    BY <2>1, <2>2
<1> QED
  BY <1>1, <1>3, <1>4, DroppingKeeps DEF TypeOK

\* What else ends sessions: the idle sweep, deleteConnection(), the end of an application session
\* and dispose().
LEMMA EndingKeeps ==
    ASSUME ConnectionInv,
           \/ \E c \in Conns : DeleteConnection(c)
           \/ SweepIdle
           \/ \E u \in Users : SessionEnds(u)
           \/ Dispose
    PROVE  ConnectionInv'
<1>1. TypeOK /\ UNCHANGED req /\ req' \in [Requests -> Request]
  BY DEF ConnectionInv, TypeOK, DeleteConnection, SweepIdle, SessionEnds, Dispose
<1>2. \A q \in Requests : req'[q] = req[q] \/ Starts(q)
  BY <1>1
<1>4. ASSUME NEW c \in Conns, DeleteConnection(c) PROVE ConnectionInv'
  <2>1. DropSessions({c}) /\ stored' = stored \ {c} /\ UNCHANGED <<active, disposed>>
    BY <1>4 DEF DeleteConnection
  <2> QED
    BY <1>1, <1>2, <2>1, DroppingKeeps DEF TypeOK
<1>5. CASE SweepIdle
  <2>1. /\ DropSessions({c \in Conns : status[c] = "connected" /\ idle[c]})
        /\ UNCHANGED <<stored, active, disposed>>
    BY <1>5 DEF SweepIdle
  <2> QED
    BY <1>1, <1>2, <2>1, DroppingKeeps DEF TypeOK
<1>6. ASSUME NEW u \in Users, SessionEnds(u) PROVE ConnectionInv'
  <2>1. /\ DropSessions({c \in Conns : Owner[c] = u})
        /\ active' = active \ {u} /\ UNCHANGED <<stored, disposed>>
    BY <1>6 DEF SessionEnds
  <2> QED
    BY <1>1, <1>2, <2>1, DroppingKeeps DEF TypeOK
<1>7. CASE Dispose
  <2>1. DropSessions(Conns) /\ disposed' = TRUE /\ UNCHANGED <<stored, active>>
    BY <1>7 DEF Dispose
  <2> QED
    BY <1>1, <1>2, <2>1, DroppingKeeps DEF TypeOK
<1> QED
  BY <1>4, <1>5, <1>6, <1>7

\* The provider's end of a close, the clock and a login.
LEMMA QuietStepKeeps ==
    ASSUME ConnectionInv,
           \/ \E r \in Requests : HandleClosed(r)
           \/ \E c \in Conns : IdleElapses(c)
           \/ \E u \in Users : Login(u)
    PROVE  ConnectionInv'
<1>1. TypeOK
  BY DEF ConnectionInv
<1>2. ASSUME NEW r \in Requests, HandleClosed(r) PROVE ConnectionInv'
  <2>1. /\ UNCHANGED <<stored, disposed, status, holder, session, req>>
        /\ active' = active /\ idle' = idle
        /\ handle[r] = "closing" /\ handle' = [handle EXCEPT ![r] = "closed"]
    BY <1>2 DEF HandleClosed, registry
  <2>2. /\ active \subseteq active' /\ active' \subseteq Users /\ idle' \in [Conns -> BOOLEAN]
        /\ handle' \in [Requests -> {"unused", "open", "closing", "closed"}]
    BY <1>1, <2>1 DEF TypeOK
  <2>3. \A q \in Requests : handle'[q] = handle[q] \/ (handle[q] = "closing" /\ handle'[q] = "closed")
    BY <1>1, <2>1 DEF TypeOK
  <2>4. UNCHANGED <<stored, disposed, status, holder, session, req>>
    BY <2>1
  <2> QED
    BY <2>2, <2>3, <2>4, QuietKeeps
<1>3. ASSUME NEW c \in Conns, IdleElapses(c) PROVE ConnectionInv'
  <2>1. /\ UNCHANGED <<stored, disposed, status, holder, session, req>>
        /\ active' = active /\ handle' = handle
        /\ idle' = [idle EXCEPT ![c] = TRUE]
    BY <1>3 DEF IdleElapses
  <2>2. active \subseteq active' /\ active' \subseteq Users /\ idle' \in [Conns -> BOOLEAN]
    BY <1>1, <2>1 DEF TypeOK
  <2>3. /\ handle' \in [Requests -> {"unused", "open", "closing", "closed"}]
        /\ \A q \in Requests : handle'[q] = handle[q]
    BY <1>1, <2>1 DEF TypeOK
  <2>4. UNCHANGED <<stored, disposed, status, holder, session, req>>
    BY <2>1
  <2> QED
    BY <2>2, <2>3, <2>4, QuietKeeps
<1>4. ASSUME NEW u \in Users, Login(u) PROVE ConnectionInv'
  <2>1. /\ UNCHANGED <<stored, disposed, status, holder, session, req>>
        /\ active' = active \cup {u} /\ handle' = handle /\ idle' = idle
    BY <1>4 DEF Login, registry
  <2>2. active \subseteq active' /\ active' \subseteq Users /\ idle' \in [Conns -> BOOLEAN]
    BY <1>1, <2>1 DEF TypeOK
  <2>3. /\ handle' \in [Requests -> {"unused", "open", "closing", "closed"}]
        /\ \A q \in Requests : handle'[q] = handle[q]
    BY <1>1, <2>1 DEF TypeOK
  <2>4. UNCHANGED <<stored, disposed, status, holder, session, req>>
    BY <2>1
  <2> QED
    BY <2>2, <2>3, <2>4, QuietKeeps
<1> QED
  BY <1>2, <1>3, <1>4

-----------------------------------------------------------------------------
(* The theorems *)

\* At the start no request is received and the registry is empty.
LEMMA ConnectionInit == Init => ConnectionInv
<1> SUFFICES ASSUME Init PROVE ConnectionInv
  OBVIOUS
<1>1. TypeOK
  BY DEF Init, TypeOK, Request, Phase
<1>2. ASSUME NEW r \in Requests PROVE RequestOK(r) /\ HandleOK(r)
  BY DEF Init, RequestOK, HandleOK
<1>3. ASSUME NEW c \in Conns PROVE EntryOK(c) /\ LiveOK(c)
  BY DEF Init, EntryOK, LiveOK
<1> QED
  BY <1>1, <1>2, <1>3 DEF ConnectionInv

\* Every step of every call keeps the invariant, in whatever order the calls interleave.
LEMMA ConnectionStep == ConnectionInv /\ [Next]_vars => ConnectionInv'
<1> SUFFICES ASSUME ConnectionInv, [Next]_vars PROVE ConnectionInv'
  OBVIOUS
<1>1. CASE UNCHANGED vars
  BY <1>1 DEF vars, ConnectionInv, TypeOK, RequestOK, HandleOK, EntryOK, LiveOK, Ended
<1>2. ASSUME NEW r \in Requests, Proceed(r) PROVE ConnectionInv'
  BY <1>2, ReconnectResumeKeeps, ProceedingKeeps, FailedAttemptKeeps, CompleteKeeps, PingRejectsKeeps
     DEF Proceed
<1>3. ASSUME NEW r \in Requests, Starting(r) \/ \E c \in Conns : Receive(r, c)
      PROVE  ConnectionInv'
  BY <1>3, ConnectKeeps, ReadingKeeps, DisconnectingKeeps DEF Starting
<1> QED
  BY <1>1, <1>2, <1>3, EndingKeeps, QuietStepKeeps DEF Next

\* The inductive invariant holds throughout, for any number of connections, users and calls.
THEOREM ConnectionInvariant == Spec => []ConnectionInv
  BY ConnectionInit, ConnectionStep, PTL DEF Spec

\* Every variable keeps its type.
THEOREM ConnectionTypes == Spec => []TypeOK
<1>1. ConnectionInv => TypeOK
  BY DEF ConnectionInv
<1> QED
  BY <1>1, ConnectionInvariant, PTL

\* The registry never lies and never loses a provider session: however connect(), reconnect(),
\* ping, idle sweep, delete, logout and shutdown interleave with the provider's answers, a
\* connected entry holds its own open handle, a connecting entry has an attempt under way, and
\* an open handle is registered, is being decided on, or belongs to the failed audit write.
THEOREM RegistryStaysTrue == Spec => []RegistryIsTrue
<1>1. ConnectionInv => RegistryIsTrue
  BY DEF ConnectionInv, HandleOK, EntryOK, RegistryIsTrue, OnlyAuditLeaks, ConnectedIsTrue,
         ConnectingHasAttempt
<1> QED
  BY <1>1, ConnectionInvariant, PTL

\* No attempt that overlaps a delete brings a session back, and none that had reserved when its
\* user logged out or the manager was disposed of: only a connect() whose body arrives later or a
\* reconnect() that was waiting for its old session to close still can.
THEOREM NothingIsRevived == Spec => []NothingRevives
<1>1. ConnectionInv => NothingRevives
  BY DEF ConnectionInv, EntryOK, LiveOK, NothingRevives, DeletedStaysClosed, EndedAttemptsAreRefused
<1> QED
  BY <1>1, ConnectionInvariant, PTL

-----------------------------------------------------------------------------
(* The adapters: the inductive invariant *)

Categories == {"", "not_found", "cancelled", "timeout", "tls_failed", "connection_failed", "internal"}

Codes == {"missing", "interrupted", "none"}

ClientSet == [phase : {"none", "reserving", "asking", "registered", "ended"},
              use : {"", "query", "import", "shared", "question"}, open : BOOLEAN,
              waiting : Nat, tx : Nat, category : Categories]

StatementSet == [state : {"none", "running", "ended"}, on : Clients \cup {0},
                 at : {"main", "transaction"}, happened : {"", "ok"} \cup Codes, category : Categories]

CancelSet == [state : {"none", "waiting", "sending", "done", "rejected"}, on : Clients \cup {0},
              of : Statements \cup {0}]

DriverTypes ==
  /\ client \in [Clients -> ClientSet]
  /\ stmt \in [Statements -> StatementSet]
  /\ cancels \in [Cancels -> CancelSet]

\* What the phase and the use of a client say of it: it is open while close() will find it; only a registered session of PostgreSQL has
\* transactions on connections of their own, an import has one at most, and a query tab none.
Owned(x) == x.open <=> x.phase \in {"reserving", "asking", "registered"}

PoolFits(x) ==
  /\ (x.waiting = 0 /\ x.tx = 0) \/ (x.phase = "registered" /\ engine = "postgresql")
  /\ x.use = "import" => x.waiting + x.tx <= 1
  /\ x.use \notin {"import", "shared"} => x.waiting = 0 /\ x.tx = 0

Fits(x) == Owned(x) /\ PoolFits(x)

ClientsFit == \A c \in Clients : Fits(client[c])

\* A cancel was asked of a registered session that somebody cancels on.
CancelsFit ==
  \A k \in Cancels : cancels[k].state # "none" =>
    /\ cancels[k].on \in Clients
    /\ client[cancels[k].on].phase \in {"registered", "ended"}
    /\ client[cancels[k].on].use \in {"query", "import"}

DriverInv ==
  /\ DriverTypes
  /\ ClientsFit
  /\ CancelsFit
  /\ D!ReportedAsHappened

-----------------------------------------------------------------------------
(* What the adapters report.                                               *)

\* The codes the application knows, and what they stand for.
LEMMA CodesKnown ==
  /\ DOMAIN D!ByCode = {"missing", "interrupted"}
  /\ \A code \in DOMAIN D!ByCode : D!ByCode[code] \in Categories
BY DEF D!ByCode, Categories

\* A native error is reported as one of the categories.
LEMMA CategoryType ==
  ASSUME NEW e, NEW context
  PROVE  D!Category(e, context) \in Categories
<1>1. D!mapMysqlError(e, context) \in Categories
  BY CodesKnown DEF D!mapMysqlError, Categories
<1>2. D!mapPostgresqlError(e) \in Categories
  BY CodesKnown DEF D!mapPostgresqlError, Categories
<1> QED
  BY <1>1, <1>2 DEF D!Category

\* A code the application knows decides, whatever the words of the error.
LEMMA CodeDecides ==
  ASSUME NEW e, NEW context, e.code \in DOMAIN D!ByCode
  PROVE  D!Category(e, context) = D!ByCode[e.code]
BY DEF D!Category, D!mapMysqlError, D!mapPostgresqlError

\* What is reported of a statement that fails fits the error it fails with.
LEMMA ReportsFit ==
  ASSUME NEW E \in SUBSET D!Natives, NEW x \in D!Reports(E)
  PROVE  /\ x.code \in Codes /\ x.category \in Categories
         /\ x.code \in DOMAIN D!ByCode => x.category = D!ByCode[x.code]
<1>1. PICK e \in E : x = [code |-> e.code, category |-> D!Category(e, "query")]
  BY DEF D!Reports
<1>2. e.code \in Codes
  BY DEF D!Natives, Codes
<1> QED
  BY <1>1, <1>2, CategoryType, CodeDecides

\* Statements that end so are reported as what happened to them.
LEMMA EndedFits ==
  ASSUME DriverInv, NEW S, NEW E \in SUBSET D!Natives, NEW x \in D!Reports(E),
         stmt' = D!EndedBy(S, x)
  PROVE  stmt' \in [Statements -> StatementSet] /\ D!ReportedAsHappened'
<1>1. /\ x.code \in Codes /\ x.category \in Categories
      /\ x.code \in DOMAIN D!ByCode => x.category = D!ByCode[x.code]
  BY ReportsFit
<1>2. stmt \in [Statements -> StatementSet]
  BY DEF DriverInv, DriverTypes
<1>3. ASSUME NEW s \in Statements
      PROVE  stmt'[s] = IF s \in S THEN [stmt[s] EXCEPT !.state = "ended", !.happened = x.code,
                                                        !.category = x.category]
                        ELSE stmt[s]
  BY DEF D!EndedBy
<1>4. ASSUME NEW s \in Statements
      PROVE  /\ stmt'[s] \in StatementSet
             /\ stmt'[s].happened \in DOMAIN D!ByCode => stmt'[s].category = D!ByCode[stmt'[s].happened]
  <2>1. CASE s \in S
    <3>1. stmt'[s] = [stmt[s] EXCEPT !.state = "ended", !.happened = x.code, !.category = x.category]
      BY <1>3, <2>1
    <3>2. stmt'[s].happened = x.code /\ stmt'[s].category = x.category
      BY <1>2, <3>1 DEF StatementSet
    <3>3. stmt'[s] \in StatementSet
      BY <1>1, <1>2, <3>1 DEF StatementSet
    <3> QED
      BY <1>1, <3>2, <3>3
  <2>2. CASE s \notin S
    <3>1. stmt'[s] = stmt[s]
      BY <1>3, <2>2
    <3> QED
      BY <1>2, <3>1 DEF DriverInv, D!ReportedAsHappened
  <2> QED
    BY <2>1, <2>2
<1>5. stmt' \in [Statements -> StatementSet]
  <2>1. stmt' = [s \in Statements |-> stmt'[s]]
    BY DEF D!EndedBy
  <2> QED
    BY <1>4, <2>1
<1>6. D!ReportedAsHappened'
  <2>1. \A s \in Statements :
          stmt'[s].happened \in DOMAIN D!ByCode => stmt'[s].category = D!ByCode[stmt'[s].happened]
    BY <1>4
  <2> QED
    BY <2>1 DEF D!ReportedAsHappened, D!ByCode
<1> QED
  BY <1>5, <1>6

\* The errors of the driver and those of an interruption are errors.
LEMMA ErrorsAreNatives ==
  D!DriverErrors \in SUBSET D!Natives /\ D!Interrupted \in SUBSET D!Natives
    /\ D!Natives \in SUBSET D!Natives
BY DEF D!DriverErrors, D!Interrupted

-----------------------------------------------------------------------------
\* A client that has no transaction has none too many.
LEMMA NoneFits ==
  ASSUME NEW x, x.waiting = 0, x.tx = 0
  PROVE  PoolFits(x)
BY DEF PoolFits

\* No client and no statement yet.
LEMMA InitDrivers == D!Init => DriverInv
<1> SUFFICES ASSUME D!Init
             PROVE  DriverInv
  OBVIOUS
<1> USE DEF D!Init
<1>1. client \in [Clients -> ClientSet] /\ ClientsFit
  <2>1. D!NoClient \in ClientSet
    BY DEF ClientSet, D!NoClient, Categories
  <2>2. PoolFits(D!NoClient)
    <3>1. D!NoClient.waiting = 0 /\ D!NoClient.tx = 0
      BY DEF D!NoClient
    <3> QED
      BY <3>1, NoneFits
  <2>3. Owned(D!NoClient)
    BY DEF Owned, D!NoClient
  <2> QED
    BY <2>1, <2>2, <2>3 DEF ClientsFit, Fits
<1>2. stmt \in [Statements -> StatementSet] /\ D!ReportedAsHappened
  BY CodesKnown DEF StatementSet, D!NoStatement, Categories, D!ReportedAsHappened
<1>3. cancels \in [Cancels -> CancelSet] /\ CancelsFit
  BY DEF CancelSet, D!NoCancel, CancelsFit
<1> QED
  BY <1>1, <1>2, <1>3 DEF DriverInv, DriverTypes

\* A step of one client that leaves the cancels alone: a session that was registered keeps its use.
LEMMA ClientStep ==
  ASSUME DriverInv, UNCHANGED <<engine, cancels>>, NEW c \in Clients,
         stmt' \in [Statements -> StatementSet], D!ReportedAsHappened',
         client' \in [Clients -> ClientSet],
         \A d \in Clients : d # c => client'[d] = client[d],
         Fits(client'[c]),
         client[c].phase \in {"registered", "ended"} =>
           client'[c].phase \in {"registered", "ended"} /\ client'[c].use = client[c].use
  PROVE  DriverInv'
<1>1. DriverTypes'
  BY DEF DriverInv, DriverTypes
<1>2. ClientsFit'
  <2>1. ASSUME NEW d \in Clients
        PROVE  Fits(client'[d])
    BY DEF DriverInv, ClientsFit
  <2> QED
    BY <2>1 DEF ClientsFit, Fits, Owned, PoolFits
<1>3. CancelsFit'
  BY DEF DriverInv, CancelsFit
<1> QED
  BY <1>1, <1>2, <1>3 DEF DriverInv

\* A client is tried: refused, created, or moved on towards its session.
LEMMA OpeningStep ==
  ASSUME DriverInv, NEW c \in Clients,
         D!OpenInvalid(c) \/ D!Open(c) \/ D!Reserved(c) \/ D!Registered(c) \/ D!OpenFails(c)
  PROVE  DriverInv'
<1>1. UNCHANGED <<engine, stmt, cancels>>
  BY DEF D!OpenInvalid, D!Open, D!Reserved, D!Registered, D!OpenFails
<1>2. client \in [Clients -> ClientSet] /\ client[c] \in ClientSet /\ Fits(client[c])
  BY DEF DriverInv, DriverTypes, ClientsFit
<1>3. /\ client' \in [Clients -> ClientSet]
      /\ \A d \in Clients : d # c => client'[d] = client[d]
      /\ Fits(client'[c])
      /\ client[c].phase \in {"none", "reserving", "asking"}
  <2>1. client[c].phase \in {"none", "reserving", "asking"}
    BY DEF D!OpenInvalid, D!Open, D!Reserved, D!Registered, D!OpenFails
  <2>2. /\ client' \in [Clients -> ClientSet]
        /\ \A d \in Clients : d # c => client'[d] = client[d]
        /\ client'[c].waiting = client[c].waiting /\ client'[c].tx = client[c].tx
        /\ Owned(client'[c])
    <3>1. CASE D!OpenInvalid(c)
      BY <1>2, <3>1 DEF D!OpenInvalid, ClientSet, Categories, Fits, Owned
    <3>2. CASE D!Open(c)
      <4>1. PICK use \in {"query", "import", "shared", "question"} :
              client' = [client EXCEPT ![c].phase = "reserving", ![c].use = use, ![c].open = TRUE]
        BY <3>2 DEF D!Open
      <4> QED
        BY <1>2, <4>1 DEF ClientSet, Owned
    <3>3. CASE D!Reserved(c)
      BY <1>2, <3>3 DEF D!Reserved, ClientSet, Fits, Owned
    <3>4. CASE D!Registered(c)
      BY <1>2, <3>4 DEF D!Registered, ClientSet, Fits, Owned
    <3>5. CASE D!OpenFails(c)
      <4>1. PICK category \in {"timeout"} \cup {D!Category(e, "connect") : e \in D!Natives} :
              client' = [client EXCEPT ![c].phase = "ended", ![c].open = FALSE, ![c].category = category]
        BY <3>5 DEF D!OpenFails
      <4>2. category \in Categories
        BY CategoryType DEF Categories
      <4> QED
        BY <1>2, <4>1, <4>2 DEF ClientSet, Owned
    <3> QED
      BY <3>1, <3>2, <3>3, <3>4, <3>5
  <2>3. client[c].waiting = 0 /\ client[c].tx = 0
    BY <1>2, <2>1 DEF Fits, PoolFits
  <2>4. client'[c].waiting = 0 /\ client'[c].tx = 0
    BY <2>2, <2>3
  <2>5. PoolFits(client'[c])
    BY <2>4, NoneFits DEF PoolFits
  <2> QED
    BY <2>1, <2>2, <2>5 DEF Fits
<1>4. stmt' \in [Statements -> StatementSet] /\ D!ReportedAsHappened'
  BY <1>1 DEF DriverInv, DriverTypes, D!ReportedAsHappened
<1> QED
  BY <1>1, <1>3, <1>4, ClientStep

\* A transaction is asked for, gets its connection or not, and gives it back.
LEMMA TransactionStep ==
  ASSUME DriverInv, NEW c \in Clients,
         D!Begin(c) \/ D!Begun(c) \/ D!BeginFails(c) \/ D!EndTransaction(c)
  PROVE  DriverInv'
<1>1. UNCHANGED <<engine, stmt, cancels>>
  BY DEF D!Begin, D!Begun, D!BeginFails, D!EndTransaction
<1>2. client \in [Clients -> ClientSet] /\ client[c] \in ClientSet /\ Fits(client[c])
  BY DEF DriverInv, DriverTypes, ClientsFit
<1>3. /\ client' \in [Clients -> ClientSet]
      /\ \A d \in Clients : d # c => client'[d] = client[d]
      /\ Fits(client'[c])
      /\ client'[c].phase = client[c].phase /\ client'[c].use = client[c].use
  <2> DEFINE w == client[c].waiting
             t == client[c].tx
  <2>1. w \in Nat /\ t \in Nat
    BY <1>2 DEF ClientSet
  <2>2. PICK v \in Nat, u \in Nat :
          /\ client' = [client EXCEPT ![c].waiting = v, ![c].tx = u]
          /\ \/ v = w + 1 /\ u = t /\ engine = "postgresql" /\ client[c].phase = "registered" /\ D!MayBegin(c)
             \/ v + u <= w + t /\ (w > 0 \/ t > 0)
    <3>1. CASE D!Begin(c)
      <4>1. client' = [client EXCEPT ![c].waiting = w + 1, ![c].tx = t]
        BY <1>2, <3>1 DEF D!Begin, ClientSet
      <4>2. w + 1 \in Nat /\ t \in Nat
        BY <2>1
      <4>3. engine = "postgresql" /\ client[c].phase = "registered" /\ D!MayBegin(c)
        BY <3>1 DEF D!Begin
      <4> QED
        BY <4>1, <4>2, <4>3
    <3>2. CASE D!Begun(c)
      <4>1. client' = [client EXCEPT ![c].waiting = w - 1, ![c].tx = t + 1] /\ w > 0
        BY <3>2 DEF D!Begun
      <4>2. w - 1 \in Nat /\ t + 1 \in Nat /\ (w - 1) + (t + 1) <= w + t
        BY <2>1, <4>1
      <4> QED
        BY <4>1, <4>2
    <3>3. CASE D!BeginFails(c)
      <4>1. client' = [client EXCEPT ![c].waiting = w - 1, ![c].tx = t] /\ w > 0
        BY <1>2, <3>3 DEF D!BeginFails, ClientSet
      <4>2. w - 1 \in Nat /\ t \in Nat /\ (w - 1) + t <= w + t
        BY <2>1, <4>1
      <4> QED
        BY <4>1, <4>2
    <3>4. CASE D!EndTransaction(c)
      <4>1. client' = [client EXCEPT ![c].waiting = w, ![c].tx = t - 1] /\ t > 0
        BY <1>2, <2>1, <3>4 DEF D!EndTransaction, ClientSet
      <4>2. w \in Nat /\ t - 1 \in Nat /\ w + (t - 1) <= w + t
        BY <2>1, <4>1
      <4> QED
        BY <4>1, <4>2
    <3> QED
      BY <3>1, <3>2, <3>3, <3>4
  <2>3. /\ client' \in [Clients -> ClientSet]
        /\ \A d \in Clients : d # c => client'[d] = client[d]
        /\ client'[c].waiting = v /\ client'[c].tx = u
        /\ client'[c].phase = client[c].phase /\ client'[c].use = client[c].use
    BY <1>2, <2>2 DEF ClientSet
  <2>4. Owned(client'[c])
    <3>1. client'[c].open = client[c].open
      BY <1>2, <2>2 DEF ClientSet
    <3> QED
      BY <1>2, <2>3, <3>1 DEF Fits, Owned
  <2>5. PoolFits(client'[c])
    <3>1. PoolFits(client[c])
      BY <1>2 DEF Fits
    <3>2. CASE v = w + 1 /\ u = t /\ engine = "postgresql" /\ client[c].phase = "registered" /\ D!MayBegin(c)
      BY <2>1, <2>3, <3>1, <3>2 DEF PoolFits, D!MayBegin
    <3>3. CASE v + u <= w + t /\ (w > 0 \/ t > 0)
      BY <2>1, <2>3, <3>1, <3>3 DEF PoolFits
    <3> QED
      BY <2>2, <3>2, <3>3
  <2> QED
    BY <2>3, <2>4, <2>5 DEF Fits
<1>4. stmt' \in [Statements -> StatementSet] /\ D!ReportedAsHappened'
  BY <1>1 DEF DriverInv, DriverTypes, D!ReportedAsHappened
<1> QED
  BY <1>1, <1>3, <1>4, ClientStep

\* close(): the session is ended and what ran on it fails with it.
LEMMA CloseStep ==
  ASSUME DriverInv, NEW c \in Clients, D!Close(c)
  PROVE  DriverInv'
<1>1. UNCHANGED <<engine, cancels>>
  BY DEF D!Close
<1>2. client \in [Clients -> ClientSet] /\ client[c] \in ClientSet
  BY DEF DriverInv, DriverTypes
<1>3. /\ client' \in [Clients -> ClientSet]
      /\ \A d \in Clients : d # c => client'[d] = client[d]
      /\ Fits(client'[c])
      /\ client'[c].phase = "ended" /\ client'[c].use = client[c].use
  <2>1. client' = [client EXCEPT ![c].phase = "ended", ![c].open = FALSE, ![c].waiting = 0, ![c].tx = 0]
    BY DEF D!Close
  <2>2. client' \in [Clients -> ClientSet] /\ \A d \in Clients : d # c => client'[d] = client[d]
    BY <1>2, <2>1 DEF ClientSet
  <2>3. /\ client'[c].phase = "ended" /\ client'[c].use = client[c].use
        /\ client'[c].waiting = 0 /\ client'[c].tx = 0
    BY <1>2, <2>1 DEF ClientSet
  <2>4. Owned(client'[c])
    BY <1>2, <2>1 DEF ClientSet, Owned
  <2>5. PoolFits(client'[c])
    BY <2>3, NoneFits
  <2> QED
    BY <2>2, <2>3, <2>4, <2>5 DEF Fits
<1>4. PICK x \in D!Reports(D!DriverErrors) : stmt' = D!EndedBy(D!Active(c), x)
  BY DEF D!Close
<1>5. stmt' \in [Statements -> StatementSet] /\ D!ReportedAsHappened'
  BY <1>4, ErrorsAreNatives, EndedFits
<1> QED
  BY <1>1, <1>3, <1>5, ClientStep

\* A statement is sent, or ends.
LEMMA StatementStep ==
  ASSUME DriverInv, NEW s \in Statements,
         (\E c \in Clients : D!Execute(c, s)) \/ D!Succeeds(s) \/ D!Fails(s)
  PROVE  DriverInv'
<1>1. UNCHANGED <<engine, client, cancels>>
  BY DEF D!Execute, D!Succeeds, D!Fails
<1>2. stmt \in [Statements -> StatementSet] /\ D!ReportedAsHappened
  BY DEF DriverInv, DriverTypes
<1>3. stmt' \in [Statements -> StatementSet] /\ D!ReportedAsHappened'
  <2>1. CASE \E c \in Clients : D!Execute(c, s)
    <3>1. PICK c \in Clients : D!Execute(c, s)
      BY <2>1
    <3>2. PICK at \in D!Where(c) :
            stmt' = [stmt EXCEPT ![s] = [D!NoStatement EXCEPT !.state = "running", !.on = c, !.at = at]]
      BY <3>1 DEF D!Execute
    <3>3. at \in {"main", "transaction"}
      BY DEF D!Where
    <3>4. [D!NoStatement EXCEPT !.state = "running", !.on = c, !.at = at] \in StatementSet
      BY <3>3 DEF D!NoStatement, StatementSet, Categories
    <3>5. stmt' \in [Statements -> StatementSet]
      BY <1>2, <3>2, <3>4
    <3>6. ASSUME NEW t \in Statements
          PROVE  stmt'[t].happened \in DOMAIN D!ByCode => stmt'[t].category = D!ByCode[stmt'[t].happened]
      <4>1. CASE t = s
        BY <1>2, <3>2, <4>1, CodesKnown DEF D!NoStatement
      <4>2. CASE t # s
        BY <1>2, <3>2, <4>2 DEF D!ReportedAsHappened
      <4> QED
        BY <4>1, <4>2
    <3> QED
      BY <3>5, <3>6 DEF D!ReportedAsHappened, D!ByCode
  <2>2. CASE D!Succeeds(s)
    <3>1. stmt' = [stmt EXCEPT ![s].state = "ended", ![s].happened = "ok"]
      BY <2>2 DEF D!Succeeds
    <3>2. stmt' \in [Statements -> StatementSet]
      BY <1>2, <3>1 DEF StatementSet
    <3>3. ASSUME NEW t \in Statements
          PROVE  stmt'[t].happened \in DOMAIN D!ByCode => stmt'[t].category = D!ByCode[stmt'[t].happened]
      <4>1. CASE t = s
        BY <1>2, <3>1, <4>1, CodesKnown DEF StatementSet
      <4>2. CASE t # s
        BY <1>2, <3>1, <4>2 DEF D!ReportedAsHappened
      <4> QED
        BY <4>1, <4>2
    <3> QED
      BY <3>2, <3>3 DEF D!ReportedAsHappened, D!ByCode
  <2>3. CASE D!Fails(s)
    <3>1. PICK x \in D!Reports(D!Natives) : stmt' = D!EndedBy({s}, x)
      BY <2>3 DEF D!Fails
    <3> QED
      BY <3>1, ErrorsAreNatives, EndedFits
  <2> QED
    BY <2>1, <2>2, <2>3
<1> QED
  BY <1>1, <1>3 DEF DriverInv, DriverTypes, ClientsFit, Fits, Owned, PoolFits, CancelsFit

\* A cancel is asked for, is given its connection, is answered, and may end what runs by then.
LEMMA CancelStep ==
  ASSUME DriverInv, NEW k \in Cancels,
         \/ \E c \in Clients, s \in Statements \cup {0} : D!Cancel(k, c, s)
         \/ D!Control(k) \/ D!ControlFails(k) \/ D!ControlRefused(k) \/ D!Kill(k)
  PROVE  DriverInv'
<1>1. UNCHANGED <<engine, client>>
  BY DEF D!Cancel, D!Control, D!ControlFails, D!ControlRefused, D!Kill
<1>2. cancels \in [Cancels -> CancelSet] /\ stmt \in [Statements -> StatementSet]
        /\ D!ReportedAsHappened /\ CancelsFit
  BY DEF DriverInv, DriverTypes
<1>3. UNCHANGED stmt => stmt' \in [Statements -> StatementSet] /\ D!ReportedAsHappened'
  BY <1>2 DEF D!ReportedAsHappened
<1>4. /\ stmt' \in [Statements -> StatementSet] /\ D!ReportedAsHappened'
      /\ cancels' \in [Cancels -> CancelSet] /\ CancelsFit'
  <2>1. CASE \E c \in Clients, s \in Statements \cup {0} : D!Cancel(k, c, s)
    <3>1. PICK c \in Clients, s \in Statements \cup {0} : D!Cancel(k, c, s)
      BY <2>1
    <3>2. /\ client[c].phase = "registered" /\ client[c].use \in {"query", "import"}
          /\ cancels' = [cancels EXCEPT ![k] = [state |-> "waiting", on |-> c, of |-> s]]
      BY <3>1 DEF D!Cancel, D!MayCancel
    <3>3. stmt' \in [Statements -> StatementSet] /\ D!ReportedAsHappened'
      <4>1. UNCHANGED stmt \/ \E x \in D!Reports(D!DriverErrors) : stmt' = D!EndedBy(D!Active(c), x)
        BY <3>1 DEF D!Cancel
      <4>2. CASE \E x \in D!Reports(D!DriverErrors) : stmt' = D!EndedBy(D!Active(c), x)
        BY <4>2, ErrorsAreNatives, EndedFits
      <4> QED
        BY <1>3, <4>1, <4>2
    <3>4. cancels' \in [Cancels -> CancelSet] /\ CancelsFit'
      BY <1>1, <1>2, <3>2 DEF CancelSet, CancelsFit
    <3> QED
      BY <3>3, <3>4
  <2>2. CASE D!Control(k) \/ D!ControlFails(k) \/ D!ControlRefused(k)
    <3>1. PICK state \in {"sending", "rejected"} : cancels' = [cancels EXCEPT ![k].state = state]
      BY <2>2 DEF D!Control, D!ControlFails, D!ControlRefused
    <3>2. UNCHANGED stmt /\ cancels[k].state # "none"
      BY <2>2 DEF D!Control, D!ControlFails, D!ControlRefused
    <3> QED
      BY <1>1, <1>2, <1>3, <3>1, <3>2 DEF CancelSet, CancelsFit
  <2>3. CASE D!Kill(k)
    <3>1. cancels[k].state = "sending" /\ cancels' = [cancels EXCEPT ![k].state = "done"]
      BY <2>3 DEF D!Kill
    <3>2. PICK x \in D!Reports(D!Interrupted) : stmt' = D!EndedBy(D!Target(cancels[k].on), x)
      BY <2>3 DEF D!Kill
    <3>3. stmt' \in [Statements -> StatementSet] /\ D!ReportedAsHappened'
      BY <3>2, ErrorsAreNatives, EndedFits
    <3> QED
      BY <1>1, <1>2, <3>1, <3>3 DEF CancelSet, CancelsFit
  <2> QED
    BY <2>1, <2>2, <2>3
<1> QED
  BY <1>1, <1>4 DEF DriverInv, DriverTypes, ClientsFit, Fits, Owned, PoolFits

\* Nothing happens.
LEMMA StutterDrivers ==
  ASSUME DriverInv, UNCHANGED D!vars
  PROVE  DriverInv'
BY DEF DriverInv, DriverTypes, ClientsFit, Fits, Owned, PoolFits, CancelsFit, D!ReportedAsHappened, D!vars

-----------------------------------------------------------------------------
\* Every step of the adapters keeps it.
LEMMA DriverStep == DriverInv /\ [D!Next]_(D!vars) => DriverInv'
<1> SUFFICES ASSUME DriverInv, [D!Next]_(D!vars)
             PROVE  DriverInv'
  OBVIOUS
<1>1. ASSUME NEW c \in Clients,
             D!OpenInvalid(c) \/ D!Open(c) \/ D!Reserved(c) \/ D!Registered(c) \/ D!OpenFails(c)
      PROVE  DriverInv'
  BY <1>1, OpeningStep
<1>2. ASSUME NEW c \in Clients, D!Close(c)
      PROVE  DriverInv'
  BY <1>2, CloseStep
<1>3. ASSUME NEW c \in Clients, D!Begin(c) \/ D!Begun(c) \/ D!BeginFails(c) \/ D!EndTransaction(c)
      PROVE  DriverInv'
  BY <1>3, TransactionStep
<1>4. ASSUME NEW s \in Statements, (\E c \in Clients : D!Execute(c, s)) \/ D!Succeeds(s) \/ D!Fails(s)
      PROVE  DriverInv'
  BY <1>4, StatementStep
<1>5. ASSUME NEW k \in Cancels,
             \/ \E c \in Clients, s \in Statements \cup {0} : D!Cancel(k, c, s)
             \/ D!Control(k) \/ D!ControlFails(k) \/ D!ControlRefused(k) \/ D!Kill(k)
      PROVE  DriverInv'
  BY <1>5, CancelStep
<1>6. CASE UNCHANGED D!vars
  BY <1>6, StutterDrivers
<1> QED
  BY <1>1, <1>2, <1>3, <1>4, <1>5, <1>6 DEF D!Next

\* What the adapters keep of their clients, statements and cancels holds in every
\* reachable state, for any number of them, beside a lifecycle that shares nothing with them.
THEOREM DriverInvariant == AllSpec => []DriverInv
<1>1. AllInit => DriverInv
  BY InitDrivers DEF AllInit
<1>2. DriverInv /\ [AllNext]_allVars => DriverInv'
  BY DriverStep DEF AllNext, allVars, adapters, D!vars
<1> QED
  BY <1>1, <1>2, PTL DEF AllSpec

-----------------------------------------------------------------------------
\* The cardinality the adapters count with.
LEMMA SameCardinality == \A S : D!Cardinality(S) = Cardinality(S)
BY DEF D!Cardinality, Cardinality

\* Whoever cancels has a pool with room beside the target and the one transaction of an import:
\* only other cancels can have taken it.
LEMMA RoomForCancels == DriverInv => D!CancelsFindRoom
<1> SUFFICES ASSUME DriverInv, NEW k \in Cancels, cancels[k].state = "waiting",
                    D!Sending(cancels[k].on) = {}
             PROVE  D!InUse(cancels[k].on) < D!Max
  BY DEF D!CancelsFindRoom
<1> DEFINE c == cancels[k].on
<1>1. c \in Clients /\ client[c].use \in {"query", "import"}
  BY DEF DriverInv, CancelsFit
<1>2. client[c] \in ClientSet /\ Fits(client[c])
  BY <1>1 DEF DriverInv, DriverTypes, ClientsFit
<1>3. client[c].tx \in Nat /\ client[c].tx <= 1 /\ (client[c].tx > 0 => engine = "postgresql")
  <2>1. client[c].tx \in Nat /\ client[c].waiting \in Nat
    BY <1>2 DEF ClientSet
  <2>2. CASE client[c].use = "query"
    BY <1>2, <2>1, <2>2 DEF Fits, PoolFits
  <2>3. CASE client[c].use = "import"
    BY <1>2, <2>1, <2>3 DEF Fits, PoolFits
  <2> QED
    BY <1>1, <2>2, <2>3
<1>4. Cardinality(D!Sending(c)) = 0
  BY FS_EmptySet
<1>5. D!InUse(c) = 1 + client[c].tx + 0
  BY <1>4, SameCardinality DEF D!InUse
<1> QED
  BY <1>3, <1>5 DEF D!Max

\* It says what is promised of the adapters.
LEMMA DriverPromise == DriverInv => D!AdaptersAreTrue
<1> SUFFICES ASSUME DriverInv
             PROVE  D!AdaptersAreTrue
  OBVIOUS
<1>1. D!ClientsAreOwned
  BY DEF DriverInv, ClientsFit, Fits, Owned, D!ClientsAreOwned
<1>2. D!CancelsFindRoom
  BY RoomForCancels
<1> QED
  BY <1>1, <1>2 DEF DriverInv, D!AdaptersAreTrue

\* A client is open only while it is being opened or its session is registered, a cancel that
\* finds no connection in its pool waits for another cancel and not for what it is to end, and
\* every statement that failed is reported by the code it failed with.
THEOREM AdaptersStayTrue == AllSpec => []AdaptersAreTrue
<1>1. DriverInv => AdaptersAreTrue
  BY DriverPromise DEF AdaptersAreTrue
<1> QED
  BY <1>1, DriverInvariant, PTL
=============================================================================
