---------------------------- MODULE RealtimeProofs ----------------------------
(***************************************************************************)
(* A theorem about Realtime, for any number of WebSockets, channels, limits *)
(* and faults: the tab keeps one connection.  The property is inductive     *)
(* once it is known that every WebSocket keeps its fields, so that no step  *)
(* of the server, of the network or of a late event makes an end the tab    *)
(* has let go of look open again.                                           *)
(***************************************************************************)
EXTENDS Realtime, TLAPS

\* What the tab's variables and every WebSocket look like.
RealtimeTypes ==
    /\ manual \in BOOLEAN /\ timer \in BOOLEAN
    /\ socket \in Sockets \cup {NoSocket}
    /\ ws = [s \in Sockets |-> ws[s]]
    /\ \A s \in Sockets : ws[s] = [f \in DOMAIN Fresh |-> ws[s][f]]

RealtimeInv == RealtimeTypes /\ OneSocket

\* No WebSocket of the tab is on its way or open.
AllQuiet == \A s \in Sockets : ws[s].ready \notin {"connecting", "open"}

-----------------------------------------------------------------------------
(* Lemmas *)

\* A WebSocket has a field for each thing either end knows of it.
LEMMA FieldsOf ==
    /\ DOMAIN Fresh = {"ready", "up", "down", "link", "peer", "token", "subs", "refused", "missed"}
    /\ Fresh = [f \in DOMAIN Fresh |-> Fresh[f]] /\ Fresh.ready = "none"
BY DEF Fresh

\* No WebSocket is the one the tab does not have.
LEMMA NoSocketIsNone == NoSocket \notin Sockets
BY DEF NoSocket, Sockets

\* The browser closes its end, and may send a close frame.
LEMMA ShutKeeps ==
    ASSUME NEW w, w = [f \in DOMAIN Fresh |-> w[f]], NEW up
    PROVE  \A v : v = [w EXCEPT !.ready = "closed", !.up = up]
                    => v = [f \in DOMAIN Fresh |-> v[f]] /\ v.ready = "closed"
BY FieldsOf

\* Settling a WebSocket leaves the browser's end as it was, or nothing of it.
LEMMA SettledKeeps ==
    ASSUME NEW w, w = [f \in DOMAIN Fresh |-> w[f]]
    PROVE  /\ Settled(w) = [f \in DOMAIN Fresh |-> Settled(w)[f]]
           /\ Settled(w).ready \in {w.ready, "none"}
<1>1. CASE w.ready = "closed" /\ w.peer = "gone"
  BY <1>1, FieldsOf DEF Settled
<1>2. CASE ~(w.ready = "closed" /\ w.peer = "gone")
  BY <1>2, FieldsOf DEF Settled
<1> QED
  BY <1>1, <1>2

\* The hub lets go of its end: the browser's end is as it was (close(), detach()).
LEMMA ClosedKeeps ==
    ASSUME NEW w, w = [f \in DOMAIN Fresh |-> w[f]], NEW code
    PROVE  /\ Closed(w, code) = [f \in DOMAIN Fresh |-> Closed(w, code)[f]]
           /\ Closed(w, code).ready \in {w.ready, "none"}
<1> DEFINE v == [w EXCEPT !.peer = "gone", !.subs = {}, !.refused = {}, !.missed = 0,
                          !.down = Append(w.down, [type |-> "close", code |-> code])]
<1>1. v = [f \in DOMAIN Fresh |-> v[f]] /\ v.ready = w.ready
  BY FieldsOf
<1>2. Closed(w, code) = Settled(v)
  BY DEF Closed
<1> HIDE DEF v
<1> QED
  BY <1>1, <1>2, SettledKeeps

\* A step that opens nothing and leaves the tab's own variables alone keeps the invariant.
LEMMA FarEndStep ==
    ASSUME RealtimeInv, UNCHANGED <<manual, socket, timer>>,
           ws' = [s \in Sockets |-> ws'[s]],
           \A s \in Sockets : /\ ws'[s] = [f \in DOMAIN Fresh |-> ws'[s][f]]
                              /\ ws'[s].ready \in {ws[s].ready, "none", "closing"}
    PROVE  RealtimeInv'
<1>1. RealtimeTypes'
  BY DEF RealtimeInv, RealtimeTypes
<1>2. OneSocket'
  BY DEF RealtimeInv, OneSocket
<1> QED
  BY <1>1, <1>2 DEF RealtimeInv

\* The same for one WebSocket (the server's end, and messages put into a queue).
LEMMA OneFarEnd ==
    ASSUME RealtimeInv, UNCHANGED <<manual, socket, timer>>, NEW s \in Sockets, NEW w,
           ws' = [ws EXCEPT ![s] = w],
           w = [f \in DOMAIN Fresh |-> w[f]], w.ready \in {ws[s].ready, "none", "closing"}
    PROVE  RealtimeInv'
<1>1. \A q \in Sockets : ws'[q] = IF q = s THEN w ELSE ws[q]
  BY DEF RealtimeInv, RealtimeTypes
<1>2. ws' = [q \in Sockets |-> ws'[q]]
  BY <1>1 DEF RealtimeInv, RealtimeTypes
<1>3. \A q \in Sockets : /\ ws'[q] = [f \in DOMAIN Fresh |-> ws'[q][f]]
                         /\ ws'[q].ready \in {ws[q].ready, "none", "closing"}
  BY <1>1 DEF RealtimeInv, RealtimeTypes
<1> QED
  BY <1>2, <1>3, FarEndStep

\* openSocket(): where no WebSocket is open, the new one is the only one.
LEMMA OpenStep ==
    ASSUME RealtimeInv, AllQuiet, NEW cookie, openSocket(cookie), manual' = FALSE, timer' = FALSE
    PROVE  RealtimeInv'
<1>1. PICK s \in Sockets :
        /\ socket' = s
        /\ ws' = [ws EXCEPT ![s] = [Fresh EXCEPT !.ready = "connecting", !.token = cookie]]
  BY DEF openSocket
<1> DEFINE w == [Fresh EXCEPT !.ready = "connecting", !.token = cookie]
<1>2. w = [f \in DOMAIN Fresh |-> w[f]]
  BY FieldsOf
<1> HIDE DEF w
<1>3. \A q \in Sockets : ws'[q] = IF q = s THEN w ELSE ws[q]
  BY <1>1 DEF w, RealtimeInv, RealtimeTypes
<1>4. ws' = [q \in Sockets |-> ws'[q]]
  BY <1>1 DEF RealtimeInv, RealtimeTypes
<1>5. RealtimeTypes'
  BY <1>1, <1>2, <1>3, <1>4 DEF RealtimeInv, RealtimeTypes
<1>6. OneSocket'
  BY <1>1, <1>3 DEF AllQuiet, OneSocket
<1> QED
  BY <1>5, <1>6 DEF RealtimeInv

\* connect(): a socket that is connecting or open is kept, and then no other is.
LEMMA ConnectStep ==
    ASSUME RealtimeInv, NEW cookie, connect(cookie)
    PROVE  RealtimeInv'
<1>1. CASE Busy
  <2>1. /\ manual' = FALSE /\ UNCHANGED <<socket, timer, ws>> /\ socket # NoSocket
    BY <1>1 DEF connect, Busy, IsOpen
  <2>2. RealtimeTypes' /\ OneSocket'
    BY <2>1 DEF RealtimeInv, RealtimeTypes, OneSocket
  <2> QED
    BY <2>2 DEF RealtimeInv
<1>2. CASE ~Busy
  <2>1. AllQuiet
    BY <1>2, NoSocketIsNone DEF RealtimeInv, OneSocket, AllQuiet, Busy, IsOpen
  <2> QED
    BY <1>2, <2>1, OpenStep DEF connect
<1> QED
  BY <1>1, <1>2

\* disconnect(): the socket is closed and forgotten, and no timer is left.
LEMMA DisconnectStep ==
    ASSUME RealtimeInv, disconnect
    PROVE  RealtimeInv'
<1>1. manual' = TRUE /\ timer' = FALSE /\ socket' = NoSocket
  BY DEF disconnect
<1>2. CASE socket = NoSocket
  <2>1. ws' = ws
    BY <1>2 DEF disconnect
  <2>2. RealtimeTypes' /\ OneSocket'
    BY <1>1, <1>2, <2>1 DEF RealtimeInv, RealtimeTypes, OneSocket
  <2> QED
    BY <2>2 DEF RealtimeInv
<1>3. CASE socket # NoSocket
  <2> DEFINE v == [ws[socket] EXCEPT !.ready = "closed",
                     !.up = Append(ws[socket].up, [type |-> "close", code |-> 1000])]
  <2>1. socket \in Sockets /\ ws' = [ws EXCEPT ![socket] = Settled(v)]
    BY <1>3 DEF disconnect, RealtimeInv, RealtimeTypes
  <2>2. v = [f \in DOMAIN Fresh |-> v[f]] /\ v.ready = "closed"
    <3>1. ws[socket] = [f \in DOMAIN Fresh |-> ws[socket][f]]
      BY <2>1 DEF RealtimeInv, RealtimeTypes
    <3>2. PICK up : up = Append(ws[socket].up, [type |-> "close", code |-> 1000])
      OBVIOUS
    <3>3. v = [ws[socket] EXCEPT !.ready = "closed", !.up = up]
      BY <3>2
    <3> HIDE DEF v
    <3> QED
      BY <3>1, <3>3, ShutKeeps
  <2> HIDE DEF v
  <2> DEFINE w == Settled(v)
  <2>3. w = [f \in DOMAIN Fresh |-> w[f]] /\ w.ready \in {"closed", "none"}
    BY <2>2, SettledKeeps
  <2> HIDE DEF w
  <2>4. \A q \in Sockets : ws'[q] = IF q = socket THEN w ELSE ws[q]
    BY <2>1 DEF w, RealtimeInv, RealtimeTypes
  <2>5. ws' = [q \in Sockets |-> ws'[q]]
    BY <2>1 DEF RealtimeInv, RealtimeTypes
  <2>6. RealtimeTypes'
    BY <1>1, <2>3, <2>4, <2>5 DEF RealtimeInv, RealtimeTypes
  <2>7. OneSocket'
    BY <1>1, <2>3, <2>4 DEF RealtimeInv, OneSocket
  <2> QED
    BY <2>6, <2>7 DEF RealtimeInv
<1> QED
  BY <1>2, <1>3

\* A close or an error reaches a socket: if it is the tab's own, the tab has none, and a timer
\* unless the end is final; if it is an old one, nothing follows.
LEMMA LostStep ==
    ASSUME RealtimeInv, NEW s \in Sockets, NEW final \in BOOLEAN, Abandon(s, final),
           ws[s].ready \in {"connecting", "open"} => s = socket,
           ws' = [ws EXCEPT ![s] = Settled([ws[s] EXCEPT !.ready = "closed"])]
    PROVE  RealtimeInv'
<1> DEFINE v == [ws[s] EXCEPT !.ready = "closed"]
           w == Settled(v)
<1>1. v = [f \in DOMAIN Fresh |-> v[f]] /\ v.ready = "closed"
  BY FieldsOf DEF RealtimeInv, RealtimeTypes
<1>2. w = [f \in DOMAIN Fresh |-> w[f]] /\ w.ready \in {"closed", "none"}
  <2> HIDE DEF v
  <2> QED
    BY <1>1, SettledKeeps
<1> HIDE DEF w
<1>3. \A q \in Sockets : ws'[q] = IF q = s THEN w ELSE ws[q]
  BY DEF w, RealtimeInv, RealtimeTypes
<1>4. ws' = [q \in Sockets |-> ws'[q]]
  BY DEF RealtimeInv, RealtimeTypes
<1>5. CASE s # socket
  <2>1. UNCHANGED <<socket, manual, timer>>
    BY <1>5 DEF Abandon
  <2>2. RealtimeTypes' /\ OneSocket'
    BY <1>2, <1>3, <1>4, <1>5, <2>1 DEF RealtimeInv, RealtimeTypes, OneSocket
  <2> QED
    BY <2>2 DEF RealtimeInv
<1>6. CASE s = socket
  <2>1. socket # NoSocket /\ ~manual /\ ~timer
    BY <1>6, NoSocketIsNone DEF RealtimeInv, RealtimeTypes, OneSocket
  <2>2. /\ socket' = NoSocket /\ manual' \in BOOLEAN /\ timer' \in BOOLEAN
        /\ manual' => ~timer'
    BY <1>6, <2>1 DEF Abandon
  <2>3. RealtimeTypes'
    BY <1>2, <1>3, <1>4, <2>2 DEF RealtimeInv, RealtimeTypes
  <2>4. OneSocket'
    BY <1>2, <1>3, <1>6, <2>2 DEF RealtimeInv, OneSocket
  <2> QED
    BY <2>3, <2>4 DEF RealtimeInv
<1> QED
  BY <1>5, <1>6

\* send(): a message in a queue changes no end.
LEMMA SendStep ==
    ASSUME RealtimeInv, NEW type, NEW c, Send(type, c), UNCHANGED <<manual, socket, timer>>
    PROVE  RealtimeInv'
<1>1. CASE IsOpen
  <2> DEFINE w == [ws[socket] EXCEPT !.up = Append(ws[socket].up, [type |-> type, channel |-> c])]
  <2>1. socket \in Sockets /\ ws' = [ws EXCEPT ![socket] = w]
    BY <1>1 DEF Send, IsOpen, RealtimeInv, RealtimeTypes
  <2>2. w = [f \in DOMAIN Fresh |-> w[f]] /\ w.ready = ws[socket].ready
    BY <2>1, FieldsOf DEF RealtimeInv, RealtimeTypes
  <2> HIDE DEF w
  <2> QED
    BY <2>1, <2>2, OneFarEnd
<1>2. CASE ~IsOpen
  <2>1. ws' = ws
    BY <1>2 DEF Send
  <2>2. RealtimeTypes' /\ OneSocket'
    BY <2>1 DEF RealtimeInv, RealtimeTypes, OneSocket
  <2> QED
    BY <2>2 DEF RealtimeInv
<1> QED
  BY <1>1, <1>2

-----------------------------------------------------------------------------
(* The steps *)

\* The tab: login, sign-out, the timer and the calls that subscribe.
LEMMA TabSteps ==
    ASSUME RealtimeInv,
           \/ Login \/ SignOut \/ ReconnectTimer
           \/ \E c \in Channels : Subscribe(c) \/ Unsubscribe(c) \/ Watch(c)
    PROVE  RealtimeInv'
<1>1. CASE Login
  BY <1>1, ConnectStep DEF Login
<1>2. CASE SignOut
  BY <1>2, DisconnectStep DEF SignOut
<1>3. CASE ReconnectTimer
  <2>1. timer /\ ~manual /\ socket = NoSocket /\ manual' = manual /\ timer' = FALSE
    BY <1>3 DEF ReconnectTimer, RealtimeInv, RealtimeTypes, OneSocket
  <2>2. AllQuiet
    BY <2>1, NoSocketIsNone DEF RealtimeInv, OneSocket, AllQuiet
  <2>3. openSocket(session) /\ manual' = FALSE
    BY <1>3, <2>1 DEF ReconnectTimer, RealtimeInv, RealtimeTypes
  <2> QED
    BY <2>1, <2>2, <2>3, OpenStep
<1>4. ASSUME NEW c \in Channels, Subscribe(c) \/ Unsubscribe(c)
      PROVE  RealtimeInv'
  BY <1>4, SendStep DEF Subscribe, Unsubscribe
<1>5. ASSUME NEW c \in Channels, Watch(c)
      PROVE  RealtimeInv'
  BY <1>5, ConnectStep DEF Watch
<1> QED
  BY <1>1, <1>2, <1>3, <1>4, <1>5

\* What the browser tells the tab of a WebSocket.
LEMMA EventSteps ==
    ASSUME RealtimeInv, NEW s \in Sockets, onopen(s) \/ onmessage(s) \/ onclose(s) \/ onerror(s)
    PROVE  RealtimeInv'
<1>1. ws[s] = [f \in DOMAIN Fresh |-> ws[s][f]]
  BY DEF RealtimeInv, RealtimeTypes
<1>2. CASE onopen(s)
  <2>1. PICK order \in SetToSeqs(handlers) :
          ws' = [ws EXCEPT ![s].ready = "open", ![s].up = ws[s].up \o resubscribe(s, order)]
    BY <1>2 DEF onopen
  <2>2. PICK up : up = ws[s].up \o resubscribe(s, order)
    OBVIOUS
  <2>3. ws' = [ws EXCEPT ![s].ready = "open", ![s].up = up]
    BY <2>1, <2>2
  <2>4. /\ ws' = [q \in Sockets |-> ws'[q]] /\ \A q \in Sockets : q # s => ws'[q] = ws[q]
        /\ ws'[s] = [ws[s] EXCEPT !.ready = "open", !.up = up]
    BY <2>3 DEF RealtimeInv, RealtimeTypes
  <2>5. ws'[s] = [f \in DOMAIN Fresh |-> ws'[s][f]]
    BY <1>1, <2>4, FieldsOf
  <2>6. s = socket /\ UNCHANGED <<manual, socket, timer>>
    BY <1>2 DEF onopen, client, RealtimeInv, OneSocket
  <2>7. RealtimeTypes' /\ OneSocket'
    BY <2>4, <2>5, <2>6 DEF RealtimeInv, RealtimeTypes, OneSocket
  <2> QED
    BY <2>7 DEF RealtimeInv
<1>3. CASE onmessage(s)
  <2>1. UNCHANGED <<manual, socket, timer>>
    BY <1>3 DEF onmessage, client
  <2>2. CASE ws' = [ws EXCEPT ![s].ready = "closing"]
    <3>1. ws' = [ws EXCEPT ![s] = [ws[s] EXCEPT !.ready = "closing"]]
      BY <2>2
    <3> DEFINE w == [ws[s] EXCEPT !.ready = "closing"]
    <3>2. w = [f \in DOMAIN Fresh |-> w[f]] /\ w.ready = "closing"
      BY <1>1, FieldsOf
    <3>3. ws' = [ws EXCEPT ![s] = w]
      BY <3>1
    <3> HIDE DEF w
    <3> QED
      BY <2>1, <3>2, <3>3, OneFarEnd
  <2>3. CASE ws' = [ws EXCEPT ![s].down = Tail(ws[s].down)]
    <3> DEFINE w == [ws[s] EXCEPT !.down = Tail(ws[s].down)]
    <3>2. w = [f \in DOMAIN Fresh |-> w[f]] /\ w.ready = ws[s].ready
      BY <1>1, FieldsOf
    <3>3. ws' = [ws EXCEPT ![s] = w]
      BY <2>3
    <3> HIDE DEF w
    <3> QED
      BY <2>1, <3>2, <3>3, OneFarEnd
  <2> QED
    BY <1>3, <2>2, <2>3 DEF onmessage
<1>4. CASE onclose(s)
  <2> DEFINE final == Head(ws[s].down).code = 4001
  <2>1. final \in BOOLEAN
    OBVIOUS
  <2>2. Abandon(s, final)
    BY <1>4 DEF onclose
  <2>3. /\ ws' = [ws EXCEPT ![s] = Settled([ws[s] EXCEPT !.ready = "closed"])]
        /\ ws[s].ready = "closing"
    BY <1>4 DEF onclose
  <2> HIDE DEF final
  <2> QED
    BY <2>1, <2>2, <2>3, LostStep
<1>5. CASE onerror(s)
  <2>1. ws[s].ready \in {"connecting", "open"} => s = socket
    BY DEF RealtimeInv, OneSocket
  <2>2. /\ ws' = [ws EXCEPT ![s] = Settled([ws[s] EXCEPT !.ready = "closed"])]
        /\ Abandon(s, FALSE) /\ FALSE \in BOOLEAN
    BY <1>5 DEF onerror
  <2> QED
    BY <2>1, <2>2, LostStep
<1> QED
  BY <1>2, <1>3, <1>4, <1>5

\* The hub's end of one WebSocket.
LEMMA ServerSteps ==
    ASSUME RealtimeInv, NEW s \in Sockets, Server(s)
    PROVE  RealtimeInv'
<1> DEFINE Whole(w) == w = [f \in DOMAIN Fresh |-> w[f]] /\ w.ready \in {ws[s].ready, "none"}
<1>1. ASSUME NEW w, Only(s, w), Whole(w)
      PROVE  RealtimeInv'
  <2>1. ws' = [ws EXCEPT ![s] = w] /\ UNCHANGED <<manual, socket, timer>>
    BY <1>1 DEF Only, client
  <2> QED
    BY <1>1, <2>1, OneFarEnd
<1>2. Whole(ws[s])
  BY DEF RealtimeInv, RealtimeTypes
<1>3. ASSUME NEW w, Whole(w), NEW code
      PROVE  Whole(Closed(w, code))
  BY <1>3, ClosedKeeps
<1>4. CASE beforeHandle(s)
  <2>1. PICK peer : Only(s, Settled([ws[s] EXCEPT !.peer = peer]))
    BY <1>4 DEF beforeHandle
  <2> DEFINE v == [ws[s] EXCEPT !.peer = peer]
  <2>2. Whole(v)
    BY <1>2, FieldsOf
  <2>3. Only(s, Settled(v))
    BY <2>1
  <2> HIDE DEF v
  <2>4. Whole(Settled(v))
    BY <2>2, SettledKeeps
  <2> QED
    BY <1>1, <2>3, <2>4
<1>5. CASE open(s)
  <2>1. Whole([ws[s] EXCEPT !.peer = "live"])
    BY <1>2, FieldsOf
  <2>2. \/ Only(s, Closed(ws[s], 4001)) \/ Only(s, Closed(ws[s], 4008))
        \/ Only(s, [ws[s] EXCEPT !.peer = "live"])
    BY <1>5 DEF open
  <2> HIDE DEF Whole
  <2> QED
    BY <1>1, <1>2, <1>3, <2>1, <2>2
<1>6. CASE receive(s)
  <2> DEFINE m == Head(ws[s].up)
             w == [ws[s] EXCEPT !.up = Tail(ws[s].up)]
  <2>1. Whole(w)
    BY <1>2, FieldsOf
  <2>2. \/ Only(s, Closed(w, 1000)) \/ Only(s, Closed(w, 4001)) \/ Only(s, Subscribed(w, m.channel))
        \/ Only(s, [w EXCEPT !.subs = w.subs \ {m.channel}, !.refused = w.refused \ {m.channel}])
    BY <1>6 DEF receive
  <2>3. PICK c : c = m.channel
    OBVIOUS
  <2> HIDE DEF w, m
  <2>4. Whole(Subscribed(w, c))
    <3> DEFINE a == [w EXCEPT !.refused = w.refused \cup {c},
                              !.down = Append(w.down, [type |-> "error", channel |-> c])]
               b == [w EXCEPT !.subs = w.subs \cup {c}, !.refused = w.refused \ {c}]
    <3>1. Subscribed(w, c) \in {a, b}
      BY DEF Subscribed
    <3>2. Whole(a) /\ Whole(b)
      BY <2>1, FieldsOf
    <3> HIDE DEF Whole, a, b
    <3> QED
      BY <3>1, <3>2
  <2>5. Whole([w EXCEPT !.subs = w.subs \ {c}, !.refused = w.refused \ {c}])
    BY <2>1, FieldsOf
  <2> HIDE DEF Whole
  <2> QED
    BY <1>1, <1>3, <2>1, <2>2, <2>3, <2>4, <2>5
<1>7. CASE heartbeatTick(s) \/ checkSession(s)
  <2>1. Whole([ws[s] EXCEPT !.missed = 1])
    BY <1>2, FieldsOf
  <2>2. \/ Only(s, Closed(ws[s], 4009)) \/ Only(s, Closed(ws[s], 4001))
        \/ Only(s, [ws[s] EXCEPT !.missed = 1])
    BY <1>7 DEF heartbeatTick, checkSession
  <2> HIDE DEF Whole
  <2> QED
    BY <1>1, <1>2, <1>3, <2>1, <2>2
<1> QED
  BY <1>4, <1>5, <1>6, <1>7 DEF Server

\* An event goes to every subscribed connection, and those whose send fails are closed.
LEMMA PublishStep ==
    ASSUME RealtimeInv, NEW c \in Channels, publish(c)
    PROVE  RealtimeInv'
<1>1. UNCHANGED <<manual, socket, timer>>
  BY DEF publish, client
<1>2. PICK bad \in SUBSET Receivers(c) :
        ws' = [s \in Sockets |->
                 IF s \in bad THEN Closed(ws[s], 1013)
                 ELSE IF s \in Receivers(c)
                 THEN [ws[s] EXCEPT !.down = Append(ws[s].down, [type |-> "event", channel |-> c])]
                 ELSE ws[s]]
  BY DEF publish
<1>3. ws' = [s \in Sockets |-> ws'[s]]
  BY <1>2
<1>4. ASSUME NEW s \in Sockets
      PROVE  /\ ws'[s] = [f \in DOMAIN Fresh |-> ws'[s][f]]
             /\ ws'[s].ready \in {ws[s].ready, "none", "closing"}
  <2> DEFINE w == ws[s]
             a == Closed(w, 1013)
             b == [w EXCEPT !.down = Append(w.down, [type |-> "event", channel |-> c])]
  <2>1. ws'[s] = a \/ ws'[s] = b \/ ws'[s] = w
    BY <1>2
  <2>2. w = [f \in DOMAIN Fresh |-> w[f]]
    BY DEF RealtimeInv, RealtimeTypes
  <2>3. b = [f \in DOMAIN Fresh |-> b[f]] /\ b.ready = w.ready
    BY <2>2, FieldsOf
  <2> HIDE DEF w
  <2>4. a = [f \in DOMAIN Fresh |-> a[f]] /\ a.ready \in {w.ready, "none"}
    BY <2>2, ClosedKeeps
  <2>5. w.ready = ws[s].ready
    BY DEF w
  <2> HIDE DEF a, b
  <2> QED
    BY <2>1, <2>2, <2>3, <2>4, <2>5
<1> QED
  BY <1>1, <1>3, <1>4, FarEndStep

-----------------------------------------------------------------------------
(* The theorem *)

\* Every step of the tab, the hub and the network keeps the invariant.
LEMMA RealtimeStep == RealtimeInv /\ [Next]_vars => RealtimeInv'
<1> SUFFICES ASSUME RealtimeInv, [Next]_vars PROVE RealtimeInv'
  OBVIOUS
<1>1. ASSUME UNCHANGED <<manual, socket, timer, ws>>
      PROVE  RealtimeInv'
  BY <1>1 DEF RealtimeInv, RealtimeTypes, OneSocket
<1>2. CASE UNCHANGED vars
  BY <1>1, <1>2 DEF vars, client
<1>3. CASE Client
  BY <1>3, TabSteps, EventSteps DEF Client
<1>4. CASE EndSession
  BY <1>1, <1>4 DEF EndSession, client
<1>5. ASSUME NEW s \in Sockets, CutLink(s)
      PROVE  RealtimeInv'
  <2> DEFINE w == [ws[s] EXCEPT !.link = FALSE]
  <2>1. ws' = [ws EXCEPT ![s] = w] /\ UNCHANGED <<manual, socket, timer>>
    BY <1>5 DEF CutLink, client
  <2>2. w = [f \in DOMAIN Fresh |-> w[f]] /\ w.ready = ws[s].ready
    BY FieldsOf DEF RealtimeInv, RealtimeTypes
  <2> HIDE DEF w
  <2> QED
    BY <2>1, <2>2, OneFarEnd
<1>6. ASSUME NEW c \in Channels, Authorize(c)
      PROVE  RealtimeInv'
  BY <1>1, <1>6 DEF Authorize, client
<1> QED
  BY <1>2, <1>3, <1>4, <1>5, <1>6, ServerSteps, PublishStep DEF Next

\* The tab keeps one connection, whatever order connect(), disconnect(), the reconnect timer,
\* the answers of the hub and the late events of an old WebSocket come in: a timer and a socket
\* are never there together, after disconnect() or a 4001 there is neither, and no WebSocket
\* but this.socket is connecting or open.
THEOREM OneSocketAtATime == Spec => []OneSocket
<1>1. Init => RealtimeInv
  <2> SUFFICES ASSUME Init PROVE RealtimeInv
    OBVIOUS
  <2>1. /\ ws = [s \in Sockets |-> Fresh] /\ manual = TRUE /\ timer = FALSE /\ socket = NoSocket
    BY DEF Init
  <2>2. \A s \in Sockets : ws[s] = Fresh
    BY <2>1
  <2>3. RealtimeTypes
    BY <2>1, <2>2, FieldsOf DEF RealtimeTypes
  <2>4. OneSocket
    BY <2>1, <2>2, FieldsOf DEF OneSocket
  <2> QED
    BY <2>3, <2>4 DEF RealtimeInv
<1>2. RealtimeInv /\ [Next]_vars => RealtimeInv'
  BY RealtimeStep
<1>3. RealtimeInv => OneSocket
  BY DEF RealtimeInv
<1> QED
  BY <1>1, <1>2, <1>3, PTL DEF Spec
=============================================================================
