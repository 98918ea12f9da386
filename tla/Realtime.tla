------------------------------- MODULE Realtime -------------------------------
(***************************************************************************)
(* The realtime channel of one browser tab: RealtimeClientService          *)
(* (packages/sdk-angular/src/realtime/realtime-client.ts), the WebSocket   *)
(* between the tab and the server, and RealtimeHub                         *)
(* (apps/server/src/realtime/websocket.ts) behind its route.               *)
(*                                                                         *)
(* A WebSocket is a pair of FIFO queues with two ends that learn of its    *)
(* death separately: the link may be cut (or a send may fail on the        *)
(* server) MaxFaults times; the browser then notices when it likes, and    *)
(* the hub only through its heartbeat.  Payloads are left out: an event is *)
(* its channel.  Time is the order in which timers fire; a heartbeat tick  *)
(* stands for a whole interval, so a healthy peer has answered the ping.   *)
(***************************************************************************)
EXTENDS Naturals, FiniteSets, SequencesExt

CONSTANTS
    MaxSockets,      \* bound: WebSockets at a time; the identity of a dead one is used again
    Channels,        \* jobs.<id>, query.<id>, connections.status
    MaxConnections,  \* maxConnectionsPerUser
    MaxSubscriptions,\* maxSubscriptionsPerConnection
    MaxLogins,       \* bound: sessions opened
    MaxChanges,      \* bound: subscribe, unsubscribe and watch calls
    MaxFaults        \* bound: cut links, failed sends and channels that come or go

ASSUME RealtimeAssumption ==
    /\ MaxConnections \in Nat \ {0} /\ MaxSubscriptions \in Nat \ {0}
    /\ MaxSockets \in Nat /\ MaxSockets > MaxConnections

Sockets == 1..MaxSockets
NoSocket == 0

VARIABLES
    manual,     \* client: manuallyDisconnected
    socket,     \* client: this.socket
    timer,      \* client: reconnectTimer is set
    handlers,   \* client: the channels that have a handler
    signed,     \* AuthSessionStore: the tab has a current user
    ws,         \* every WebSocket, both ends of it
    session,    \* the user's valid session, 0 when there is none
    allowed,    \* the channels authorized() accepts for this user
    used        \* what the bounds have been spent on

client == <<manual, socket, timer, handlers, signed>>
vars == <<client, ws, session, allowed, used>>

Messages == [type : {"subscribe", "unsubscribe", "event", "error"}, channel : Channels]
            \cup [type : {"close"}, code : {1000, 1013, 4001, 4008, 4009}]

\* A WebSocket: the browser's readyState, the two queues and whether the network still
\* carries them; the cookie it was asked for with; the server's end and, while it is a
\* connection of the hub ("live"), its subscriptions and the intervals without a pong.
\* refused: channels whose last subscribe was answered by an error.
Fresh == [ready |-> "none", up |-> << >>, down |-> << >>, link |-> TRUE, peer |-> "none",
          token |-> 0, subs |-> {}, refused |-> {}, missed |-> 0]

TypeOK ==
    /\ manual \in BOOLEAN /\ timer \in BOOLEAN /\ signed \in BOOLEAN
    /\ socket \in Sockets \cup {NoSocket}
    /\ handlers \subseteq Channels /\ allowed \subseteq Channels
    /\ \A s \in Sockets :
          /\ DOMAIN ws[s] = DOMAIN Fresh
          /\ ws[s].ready \in {"none", "connecting", "open", "closing", "closed"}
          /\ ws[s].up \in Seq(Messages) /\ ws[s].down \in Seq(Messages)
          /\ ws[s].link \in BOOLEAN
          /\ ws[s].peer \in {"none", "upgraded", "live", "gone"}
          /\ ws[s].subs \cup ws[s].refused \subseteq Channels
          /\ ws[s].missed \in 0..1
    /\ session \in 0..MaxLogins

Init ==
    /\ manual = TRUE /\ socket = NoSocket /\ timer = FALSE /\ handlers = {} /\ signed = FALSE
    /\ ws = [s \in Sockets |-> Fresh]
    /\ session = 0 /\ allowed \in SUBSET Channels
    /\ used = [logins |-> 0, changes |-> 0, faults |-> 0]

Spend(what, max) == used[what] < max /\ used' = [used EXCEPT ![what] = @ + 1]

\* The hub's connections: the maps connections and byUser, which only open() and detach() change.
Connections == {s \in Sockets : ws[s].peer = "live"}

\* A WebSocket both ends have let go of.
Dead(s) == s # socket /\ ws[s].ready \in {"none", "closed"} /\ ws[s].peer \in {"none", "gone"}

\* What an end that is gone would have received is lost; nothing is left of a dead WebSocket.
Settled(w) ==
    IF w.ready = "closed" /\ w.peer = "gone" THEN Fresh
    ELSE [w EXCEPT !.up = IF w.peer = "gone" THEN << >> ELSE @,
                   !.down = IF w.ready = "closed" THEN << >> ELSE @]

IsOpen == socket # NoSocket /\ ws[socket].ready = "open"
Busy == IsOpen \/ (socket # NoSocket /\ ws[socket].ready = "connecting")

-----------------------------------------------------------------------------
(* The client service *)

\* openSocket: a new WebSocket, asked for with the browser's cookie, becomes this.socket.
openSocket(cookie) ==
    \E s \in Sockets :
        /\ Dead(s)
        /\ socket' = s
        /\ ws' = [ws EXCEPT ![s] = [Fresh EXCEPT !.ready = "connecting", !.token = cookie]]

\* connect: a socket that is connecting or open is kept, otherwise a new one replaces it.
connectKeepsTimer(cookie) ==
    /\ manual' = FALSE
    /\ UNCHANGED timer
    /\ IF Busy THEN UNCHANGED <<socket, ws>> ELSE openSocket(cookie)
connect(cookie) ==
    /\ manual' = FALSE
    /\ IF Busy THEN UNCHANGED <<socket, timer, ws>>
               ELSE timer' = FALSE /\ openSocket(cookie)

\* disconnect: no timer is left, the socket loses its handlers and is closed; the server
\* hears of it if the link carries the close frame.
disconnect ==
    /\ manual' = TRUE /\ timer' = FALSE /\ socket' = NoSocket
    /\ ws' = IF socket = NoSocket THEN ws
             ELSE [ws EXCEPT ![socket] = Settled(
                      [ws[socket] EXCEPT !.ready = "closed",
                                         !.up = Append(@, [type |-> "close", code |-> 1000])])]

\* AuthClient.login and AuthSessionStore.setUser: there is a session, then connect().
Login ==
    /\ ~signed /\ signed' = TRUE
    /\ Spend("logins", MaxLogins)
    /\ session' = used.logins + 1
    /\ connect(used.logins + 1)
    /\ UNCHANGED <<handlers, allowed>>

\* The session ends on the server: logout, expiry, a password reset, a deactivated user.
EndSession ==
    /\ session # 0 /\ session' = 0
    /\ UNCHANGED <<client, ws, allowed, used>>

\* The tab learns of it: the answer to its logout, or a 401 (sessionExpired, clear()).
SignOut ==
    /\ session = 0 /\ signed /\ signed' = FALSE
    /\ disconnect
    /\ UNCHANGED <<handlers, session, allowed, used>>

\* send: only an open socket takes a message.
Send(type, c) ==
    ws' = IF IsOpen THEN [ws EXCEPT ![socket].up = Append(@, [type |-> type, channel |-> c])]
                    ELSE ws

\* subscribe: the first handler of a channel asks the server for it.
Subscribe(c) ==
    /\ c \notin handlers /\ Spend("changes", MaxChanges)
    /\ handlers' = handlers \cup {c}
    /\ Send("subscribe", c)
    /\ UNCHANGED <<manual, socket, timer, signed, session, allowed>>

\* The function subscribe() returns, called for the last handler of the channel.
Unsubscribe(c) ==
    /\ c \in handlers /\ Spend("changes", MaxChanges)
    /\ handlers' = handlers \ {c}
    /\ Send("unsubscribe", c)
    /\ UNCHANGED <<manual, socket, timer, signed, session, allowed>>

\* QueryClient.watch: subscribe, then connect(); the answer to execute() that leads to it
\* may also come after the tab has signed out.
Watch(c) ==
    /\ c \notin handlers /\ ~Busy /\ Spend("changes", MaxChanges)
    /\ handlers' = handlers \cup {c}
    /\ connect(session)
    /\ UNCHANGED <<signed, session, allowed>>

\* The reconnect timer.
ReconnectTimer ==
    /\ timer /\ timer' = FALSE
    /\ IF manual THEN UNCHANGED <<socket, ws>> ELSE openSocket(session)
    /\ UNCHANGED <<manual, handlers, signed, session, allowed, used>>

\* socket.onopen: every channel with a handler is asked for again.
resubscribeNone(s, order) == << >>
resubscribe(s, order) ==
    IF s = socket THEN [i \in DOMAIN order |-> [type |-> "subscribe", channel |-> order[i]]]
                  ELSE << >>
onopen(s) ==
    /\ ws[s].ready = "connecting" /\ ws[s].link
    /\ ws[s].peer \in {"upgraded", "live"} \/ ws[s].down # << >>
    /\ \E order \in SetToSeqs(handlers) :
          ws' = [ws EXCEPT ![s].ready = "open", ![s].up = @ \o resubscribe(s, order)]
    /\ UNCHANGED <<client, session, allowed, used>>

\* socket.onmessage: an event reaches its handlers, an error envelope nobody; a close frame
\* starts the closing handshake.
onmessage(s) ==
    /\ ws[s].ready = "open" /\ ws[s].link /\ ws[s].down # << >>
    /\ ws' = IF Head(ws[s].down).type = "close"
             THEN [ws EXCEPT ![s].ready = "closing"]
             ELSE [ws EXCEPT ![s].down = Tail(@)]
    /\ UNCHANGED <<client, session, allowed, used>>

\* socket.onclose: 4001 is final, any other code is followed by scheduleReconnect().
Abandon(s, final) ==
    IF s # socket THEN UNCHANGED <<socket, manual, timer>>
    ELSE /\ socket' = NoSocket
         /\ manual' = (manual \/ final)
         /\ timer' = (timer \/ ~manual')

onclose(s) ==
    /\ ws[s].ready = "closing"
    /\ ws' = [ws EXCEPT ![s] = Settled([ws[s] EXCEPT !.ready = "closed"])]
    /\ Abandon(s, Head(ws[s].down).code = 4001)
    /\ UNCHANGED <<handlers, signed, session, allowed, used>>

\* socket.onerror, send() that throws and an abnormal close (1006): handleSocketFailure().
Failed(s) == ~ws[s].link \/ (ws[s].peer = "gone" /\ ws[s].down = << >>)
onerror(s) ==
    /\ ws[s].ready \in {"connecting", "open"} /\ Failed(s)
    /\ ws' = [ws EXCEPT ![s] = Settled([ws[s] EXCEPT !.ready = "closed"])]
    /\ Abandon(s, FALSE)
    /\ UNCHANGED <<handlers, signed, session, allowed, used>>

Client ==
    \/ Login \/ SignOut \/ ReconnectTimer
    \/ \E c \in Channels : Subscribe(c) \/ Unsubscribe(c) \/ Watch(c)
    \/ \E s \in Sockets : onopen(s) \/ onmessage(s) \/ onclose(s) \/ onerror(s)

-----------------------------------------------------------------------------
(* The hub *)

\* hub.close: detach() and safeClose().
Closed(w, code) ==
    Settled([w EXCEPT !.peer = "gone", !.subs = {}, !.refused = {}, !.missed = 0,
                      !.down = Append(@, [type |-> "close", code |-> code])])

Only(s, w) == ws' = [ws EXCEPT ![s] = w] /\ UNCHANGED <<client, session, allowed, used>>

\* validateSession() of the cookie the WebSocket came with.
AnySession(s) == session # 0
ValidSession(s) == session # 0 /\ ws[s].token = session

\* The route's beforeHandle: without a session the upgrade is answered 401.
beforeHandle(s) ==
    /\ ws[s].ready \in {"connecting", "closed"} /\ ws[s].peer = "none" /\ ws[s].link
    /\ Only(s, Settled([ws[s] EXCEPT !.peer = IF ValidSession(s) THEN "upgraded" ELSE "gone"]))

\* The route's open and hub.open: the session is looked at again, then the user's limit.
open(s) ==
    /\ ws[s].peer = "upgraded"
    /\ Only(s, CASE ~ValidSession(s) -> Closed(ws[s], 4001)
                 [] ValidSession(s) /\ Cardinality(Connections) >= MaxConnections -> Closed(ws[s], 4008)
                 [] OTHER -> [ws[s] EXCEPT !.peer = "live"])

\* authorized(): canSubscribeJob, canSubscribeQuery, connections.status.
\* subscribe: not allowed, already there, over the limit, added.
Subscribed(w, c) ==
    CASE c \notin allowed \/ (c \notin w.subs /\ Cardinality(w.subs) >= MaxSubscriptions) ->
            [w EXCEPT !.refused = @ \cup {c}, !.down = Append(@, [type |-> "error", channel |-> c])]
      [] OTHER -> [w EXCEPT !.subs = @ \cup {c}, !.refused = @ \ {c}]

\* receive: a session that is no longer valid closes the connection before the message counts.
receive(s) ==
    /\ ws[s].peer = "live" /\ ws[s].link /\ ws[s].up # << >>
    /\ LET m == Head(ws[s].up)
           w == [ws[s] EXCEPT !.up = Tail(@)]
       IN Only(s, CASE m.type = "close" -> Closed(w, 1000)
                    [] m.type # "close" /\ ~ValidSession(s) -> Closed(w, 4001)
                    [] m.type = "subscribe" /\ ValidSession(s) -> Subscribed(w, m.channel)
                    [] OTHER -> [w EXCEPT !.subs = @ \ {m.channel}, !.refused = @ \ {m.channel}])

\* heartbeatTick: two intervals without a pong close the connection; a peer that is still
\* there answers the ping within the interval (receivePong).
heartbeatTick(s) ==
    /\ ws[s].peer = "live"
    /\ ~(ws[s].link /\ ws[s].ready \in {"connecting", "open"})
    /\ Only(s, IF ws[s].missed = 1 THEN Closed(ws[s], 4009)
                                   ELSE [ws[s] EXCEPT !.missed = 1])

\* checkSession: the session timer of the connection.
checkSession(s) ==
    /\ ws[s].peer = "live" /\ ~ValidSession(s)
    /\ Only(s, Closed(ws[s], 4001))

\* publish: to every connection of the user that is subscribed and still authorized; a send
\* that fails or meets backpressure closes that connection.
Receivers(c) == {s \in Connections : c \in ws[s].subs /\ c \in allowed}
publish(c) ==
    /\ Receivers(c) # {}
    /\ \A s \in Receivers(c) : Len(ws[s].down) = 0
    /\ \E bad \in SUBSET Receivers(c) :
          /\ IF bad = {} THEN UNCHANGED used ELSE Spend("faults", MaxFaults)
          /\ ws' = [s \in Sockets |->
                       IF s \in bad THEN Closed(ws[s], 1013)
                       ELSE IF s \in Receivers(c)
                       THEN [ws[s] EXCEPT !.down = Append(@, [type |-> "event", channel |-> c])]
                       ELSE ws[s]]
    /\ UNCHANGED <<client, session, allowed>>

\* A job or an execution of the user appears or is forgotten.
Authorize(c) ==
    /\ Spend("faults", MaxFaults)
    /\ allowed' = IF c \in allowed THEN allowed \ {c} ELSE allowed \cup {c}
    /\ UNCHANGED <<client, ws, session>>

\* The network stops carrying a WebSocket; neither end is told.
CutLink(s) ==
    /\ ws[s].link /\ ~Dead(s) /\ Spend("faults", MaxFaults)
    /\ ws' = [ws EXCEPT ![s].link = FALSE]
    /\ UNCHANGED <<client, session, allowed>>

Server(s) == beforeHandle(s) \/ open(s) \/ receive(s) \/ heartbeatTick(s) \/ checkSession(s)

Next ==
    \/ Client \/ EndSession
    \/ \E s \in Sockets : Server(s) \/ CutLink(s)
    \/ \E c \in Channels : publish(c) \/ Authorize(c)

\* The browser's and the server's event loops take what is due; users and faults owe nothing.
Fairness ==
    /\ WF_vars(ReconnectTimer)
    /\ \A s \in Sockets :
          /\ WF_vars(onopen(s)) /\ WF_vars(onmessage(s))
          /\ WF_vars(onclose(s)) /\ WF_vars(onerror(s))
          /\ WF_vars(beforeHandle(s)) /\ WF_vars(open(s)) /\ WF_vars(receive(s))
          /\ WF_vars(heartbeatTick(s)) /\ WF_vars(checkSession(s))

Spec == Init /\ [][Next]_vars /\ Fairness

-----------------------------------------------------------------------------
(* Properties *)

\* One multiplexed connection: a reconnect timer and a socket are never there together, after
\* disconnect() or a 4001 there is neither, and no WebSocket but this.socket is kept open by
\* the tab, whatever order connect(), disconnect(), the timer and late close events come in.
OneSocket ==
    /\ timer => socket = NoSocket
    /\ manual => socket = NoSocket /\ ~timer
    /\ \A s \in Sockets : ws[s].ready \in {"connecting", "open"} => s = socket

\* The connection the tab uses carries the tab's subscriptions, but for those the server refused.
InStep ==
    /\ socket \in Connections /\ ws[socket].link /\ ws[socket].ready = "open"
    /\ ws[socket].subs \cup ws[socket].refused = handlers

\* A tab that stays signed in ends up connected and subscribed to exactly what it listens to,
\* after cut links, connections the hub still counts for dead sockets, backpressure and
\* subscriptions that change while the socket is down (spec 0029 AC-6).
Resubscribed == <>[](session # 0) => <>[]InStep

\* A session that has ended cuts off the connections opened with it: the hub does not keep
\* delivering to them (spec 0029 AC-1).
EndedIsCutOff ==
    \A s \in Sockets :
        (s \in Connections /\ ws[s].token # session) ~> (s \notin Connections)

=============================================================================
