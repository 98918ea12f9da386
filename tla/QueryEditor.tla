---------------------------- MODULE QueryEditor ----------------------------
(***************************************************************************)
(* One query tab in the browser: the editor component                      *)
(* (apps/web/src/app/features/query-editor) and QueryClient.watch()        *)
(* (packages/sdk-angular), which follows an execution by realtime events   *)
(* and by polling at the same time.                                        *)
(*                                                                         *)
(* Of the server only what the tab can see is kept: the executions of the  *)
(* tab, whose states are numbered in the order they are gone through, and  *)
(* the transaction its session has open.  An event reaches the tab in the  *)
(* order it was sent or is lost with the socket; the answer to an HTTP     *)
(* call is made at one moment and arrives at a later one, or not at all.   *)
(* What the server does with the executions is QueryExecution's subject.   *)
(***************************************************************************)
EXTENDS Naturals, Sequences, FiniteSets

CONSTANTS Runs,         \* executions of the tab, 1..n
          Databases,
          MaxPolls,     \* polls of one watch that may be under way at once
          MaxEvents,    \* events on the wire
          MaxActs       \* bound on what the user does

VARIABLES srv,          \* run -> its state at the server
          tx,           \* the server session of the tab has a transaction open
          wire,         \* realtime events under way
          calls,        \* HTTP calls under way
          watches,      \* runs followed by an active watch
          tab,          \* what the component holds
          acts

vars == <<srv, tx, wire, calls, watches, tab, acts>>

None == 0
Queued == 1
Running == 2
Cancelling == 3
Ended == 4

Snapshot == [run : Runs \cup {0}, state : 0..4, tx : BOOLEAN]
NoExecution == [run |-> 0, state |-> 0, tx |-> FALSE]

\* The snapshot of a run that the server would send now.
snapshot(r) == [run |-> r, state |-> srv[r], tx |-> tx]

isTerminal(state) == state = Ended

\* busy: the Run buttons are disabled (the keyboard shortcut is not).
busy == tab.shown.state \in {Queued, Running, Cancelling}

Spend == acts < MaxActs /\ acts' = acts + 1

\* The tab's context names a database when it is opened.
FirstDatabase == CHOOSE d \in Databases : TRUE

Init ==
  /\ srv = [r \in Runs |-> None]
  /\ tx = FALSE
  /\ wire = << >>
  /\ calls = {}
  /\ watches = {}
  /\ tab = [shown |-> NoExecution, stop |-> 0, open |-> TRUE, asking |-> FALSE,
            database |-> FirstDatabase, pending |-> FirstDatabase]
  /\ acts = 0

-----------------------------------------------------------------------------
(* QueryClient.watch().                                                    *)

\* stop(): the timer and the subscription go away, late answers are ignored.
stop(r) == watches \ {r}

\* A late answer is still applied (a mutant).
applyAlways(snap) ==
  /\ tab' = [tab EXCEPT !.shown = snap]
  /\ watches' = IF isTerminal(snap.state) THEN stop(snap.run) ELSE watches

\* apply(): an inactive watch ignores it, a terminal state ends the watch.
apply(snap) ==
  IF snap.run \in watches
  THEN /\ tab' = [tab EXCEPT !.shown = snap]
       /\ watches' = IF isTerminal(snap.state) THEN stop(snap.run) ELSE watches
  ELSE UNCHANGED <<tab, watches>>

Polls(r) == {c \in calls : c.op = "poll" /\ c.snap.run = r}

\* Only realtime events are listened to (a mutant).
pollNever(r) == FALSE /\ UNCHANGED vars

\* poll(): at once and on every tick of the timer; the answer is what the server
\* knows when it handles the request.
poll(r) ==
  /\ r \in watches
  /\ Cardinality(Polls(r)) < MaxPolls
  /\ [op |-> "poll", snap |-> snapshot(r)] \notin calls
  /\ calls' = calls \cup {[op |-> "poll", snap |-> snapshot(r)]}
  /\ UNCHANGED <<srv, tx, wire, watches, tab, acts>>

Polled(c) ==
  /\ c \in calls /\ c.op = "poll"
  /\ calls' = calls \ {c}
  /\ apply(c.snap)
  /\ UNCHANGED <<srv, tx, wire, acts>>

\* The poll failed: nothing is done about it.
PollFailed(c) ==
  /\ c \in calls /\ c.op = "poll"
  /\ calls' = calls \ {c}
  /\ UNCHANGED <<srv, tx, wire, watches, tab, acts>>

\* The channel's handler: an event of the run that is watched.
EventArrives ==
  /\ wire # << >>
  /\ wire' = Tail(wire)
  /\ apply(Head(wire))
  /\ UNCHANGED <<srv, tx, calls, acts>>

\* The socket drops and what was under way is lost.
EventsLost ==
  /\ wire # << >>
  /\ wire' = << >>
  /\ UNCHANGED <<srv, tx, calls, watches, tab, acts>>

-----------------------------------------------------------------------------
(* The server, as the tab sees it.                                         *)

\* A run of the tab goes on: those before it have ended.  A statement may open
\* or close a transaction.
RunGoesOn(r, state, open) ==
  /\ srv[r] \in {Queued, Running, Cancelling}
  /\ \A q \in Runs : q < r => srv[q] \in {None, Ended}
  /\ \/ srv[r] = Queued /\ state = Running /\ open = tx
     \/ srv[r] \in {Running, Cancelling} /\ state = Ended
     \/ srv[r] = Cancelling /\ state = Running /\ open = tx
  /\ srv' = [srv EXCEPT ![r] = state]
  /\ tx' = open
  /\ wire' = IF Len(wire) < MaxEvents
             THEN Append(wire, [run |-> r, state |-> state, tx |-> open]) ELSE wire
  /\ UNCHANGED <<calls, watches, tab, acts>>

-----------------------------------------------------------------------------
(* The editor.                                                             *)

\* execute() and transactionCommand(): the watch before is stopped first.
execute ==
  /\ Spend
  /\ tab.open
  /\ \E r \in Runs : srv[r] = None
  /\ watches' = stop(tab.stop)
  /\ calls' = calls \cup {[op |-> "execute", snap |-> NoExecution]}
  /\ UNCHANGED <<srv, tx, wire, tab>>

\* The server takes the run and the tab watches it.
Accepted(r) ==
  /\ [op |-> "execute", snap |-> NoExecution] \in calls
  /\ srv[r] = None /\ \A q \in Runs : q < r => srv[q] # None
  /\ calls' = calls \ {[op |-> "execute", snap |-> NoExecution]}
  /\ srv' = [srv EXCEPT ![r] = Queued]
  /\ watches' = watches \cup {r}
  /\ tab' = [tab EXCEPT !.stop = r]
  /\ UNCHANGED <<tx, wire, acts>>

\* The request is refused (not connected, no network): a message is shown.
Refused ==
  /\ [op |-> "execute", snap |-> NoExecution] \in calls
  /\ calls' = calls \ {[op |-> "execute", snap |-> NoExecution]}
  /\ UNCHANGED <<srv, tx, wire, watches, tab, acts>>

\* cancelExecution(): the server marks the run; its answer is a snapshot.
cancelExecution ==
  LET r == tab.shown.run IN
  /\ Spend
  /\ tab.open /\ tab.shown.state = Running
  /\ srv' = IF srv[r] = Running THEN [srv EXCEPT ![r] = Cancelling] ELSE srv
  /\ calls' = calls \cup {[op |-> "cancel", snap |-> [run |-> r, state |-> srv'[r], tx |-> tx]]}
  /\ UNCHANGED <<tx, wire, watches, tab>>

\* The answer is shown as it is.
CancelAnswered(c) ==
  /\ c \in calls /\ c.op = "cancel"
  /\ calls' = calls \ {c}
  /\ tab' = [tab EXCEPT !.shown = c.snap]
  /\ UNCHANGED <<srv, tx, wire, watches, acts>>

\* onDatabaseChange(): asks first when the run shown left a transaction open.
onDatabaseChange(d) ==
  /\ Spend
  /\ tab.open /\ d # tab.database /\ ~tab.asking
  /\ tab' = IF tab.shown.tx THEN [tab EXCEPT !.pending = d, !.asking = TRUE]
                            ELSE [tab EXCEPT !.database = d, !.pending = d]
  /\ UNCHANGED <<srv, tx, wire, calls, watches>>

cancelDatabaseChange ==
  /\ tab.asking
  /\ tab' = [tab EXCEPT !.asking = FALSE, !.pending = tab.database]
  /\ UNCHANGED <<srv, tx, wire, calls, watches, acts>>

\* confirmDatabaseChange(): the watch is stopped, then the session is closed, by
\* force: a run that is going on does not hold it up.  When the call fails the
\* question stays and nothing follows the run any more.
confirmDatabaseChange ==
  /\ tab.asking
  /\ watches' = stop(tab.stop)
  /\ \/ /\ tx' = FALSE
        /\ tab' = [tab EXCEPT !.shown = NoExecution, !.database = tab.pending, !.asking = FALSE]
     \/ UNCHANGED <<tab, tx>>
  /\ UNCHANGED <<srv, wire, calls, acts>>

\* The component is destroyed: the watch it knows of is stopped.
Destroyed ==
  /\ tab.open
  /\ tab' = [tab EXCEPT !.open = FALSE]
  /\ watches' = stop(tab.stop)
  /\ UNCHANGED <<srv, tx, wire, calls, acts>>

-----------------------------------------------------------------------------
Next ==
  \/ execute \/ Refused \/ cancelExecution \/ EventArrives \/ EventsLost
  \/ cancelDatabaseChange \/ confirmDatabaseChange \/ Destroyed
  \/ \E r \in Runs :
       \/ Accepted(r)
       \/ poll(r)
       \/ \E s \in {Running, Ended}, open \in BOOLEAN : RunGoesOn(r, s, open)
  \/ \E c \in calls : Polled(c) \/ PollFailed(c) \/ CancelAnswered(c)
  \/ \E d \in Databases : onDatabaseChange(d)

\* The timer ticks, every call ends, and of the polls some are answered.
Fairness ==
  \A r \in Runs :
    /\ WF_vars(poll(r))
    /\ WF_vars(\E c \in Polls(r) : Polled(c) \/ PollFailed(c))
    /\ SF_vars(\E c \in calls : c.snap.run = r /\ c.snap.state = Ended /\ Polled(c))

Spec == Init /\ [][Next]_vars /\ Fairness

-----------------------------------------------------------------------------
TypeOK ==
  /\ srv \in [Runs -> 0..4]
  /\ tx \in BOOLEAN
  /\ watches \subseteq Runs
  /\ tab.shown \in Snapshot
  /\ acts \in 0..MaxActs

\* A tab is not stranded by a lost socket: the watch of a run that ended at the
\* server comes to an end too, having shown it or having been stopped, whatever
\* happens to the events, as long as a poll gets through now and then.
TabNotStranded ==
  \A r \in Runs : (r \in watches /\ srv[r] = Ended) ~> (r \notin watches)

\* Once a watch has shown its run as ended, the run is not shown as going on
\* again: not by a poll answered earlier and delivered later, nor by an event
\* that was overtaken.  (The answer to a cancel is the exception: it is shown
\* whenever it arrives.)
EndStays ==
  tab.shown.state = Ended /\ tab.shown.run \notin watches /\ tab'.shown.run = tab.shown.run
    => tab'.shown.state = Ended \/ \E c \in calls : CancelAnswered(c)
=============================================================================
