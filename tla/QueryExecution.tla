--------------------------- MODULE QueryExecution ---------------------------
(***************************************************************************)
(* apps/server/src/query/query-execution.ts: SQL executions on one         *)
(* provider session per editor tab, their cancellation, and the explain    *)
(* and autocomplete calls that share the tab's session.                    *)
(*                                                                         *)
(* Calls are numbered in the order in which they arrive.  A call is split  *)
(* at its awaits.  A call opens at most one session, which is named by the *)
(* call.  The pair (connectionId, database) is one value, db.              *)
(***************************************************************************)
EXTENDS Integers, Sequences, FiniteSets

CONSTANTS MaxCalls,       \* bound: start(), explain() and autocomplete() calls
          MaxStatements,  \* bound: statements of one execution
          Tabs,           \* tab sessions of one user
          Dbs

ASSUME QueryAssumption == MaxCalls \in Nat /\ MaxStatements \in Nat

Calls == 1..MaxCalls
Nobody == 0

VARIABLES
    kind, tab, db,   \* what each call asked for; explain() and autocomplete() look up
    pc,              \* where each call is
    awaits,          \* the session a call waits for, closes or uses
    state,           \* execution.state
    stmts,           \* execution.statements: their states
    cancelRequested,
    cancelCall,      \* execution.cancelPromise: the provider's cancel
    interrupted,     \* the running statement was hit by a cancel (external)
    history,         \* status written by recordHistory()
    sessions,        \* [Tabs -> session]
    opening,         \* [Tabs -> the call whose open is in flight]
    handle,          \* provider sessions (external)
    idle,            \* no activity on the session for idleTimeoutMs
    disposal         \* dispose(): no, closing, done

callVars == <<kind, tab, db>>
runVars == <<state, stmts, cancelRequested, history>>
sessionVars == <<sessions, opening, handle, idle>>
vars == <<callVars, pc, awaits, runVars, cancelCall, interrupted, sessionVars, disposal>>

ExecutionState == {"queued", "running", "cancelling", "completed", "failed", "cancelled"}
Terminal == {"completed", "failed", "cancelled"}
StatementState == {"pending", "running", "done", "error", "skipped"}

Phase == {"new",
          "chained",    \* queueExecution() waits for the tab's previous run
          "closing",    \* sessionFor() closes a session of another database
          "awaiting",   \* sessionFor() awaits a session
          "executing",  \* run() awaits query.execute
          "working",    \* explain() or autocomplete() awaits the provider
          "done"}

TypeOK ==
    /\ kind \in [Calls -> {"none", "execute", "lookup"}]
    /\ tab \in [Calls -> Tabs \cup {"none"}]
    /\ db \in [Calls -> Dbs \cup {"none"}]
    /\ pc \in [Calls -> Phase]
    /\ awaits \in [Calls -> Calls \cup {Nobody}]
    /\ state \in [Calls -> ExecutionState \cup {"none"}]
    /\ stmts \in [Calls -> Seq(StatementState)]
    /\ \A c \in Calls : Len(stmts[c]) <= MaxStatements
    /\ cancelRequested \in [Calls -> BOOLEAN]
    /\ cancelCall \in [Calls -> {"none", "sent", "delivered", "settled"}]
    /\ interrupted \in [Calls -> BOOLEAN]
    /\ history \in [Calls -> ExecutionState \cup {"none"}]
    /\ sessions \in [Tabs -> Calls \cup {Nobody}]
    /\ opening \in [Tabs -> Calls \cup {Nobody}]
    /\ handle \in [Calls -> {"unused", "opening", "failed", "open", "closing", "closed"}]
    /\ idle \in [Calls -> BOOLEAN]
    /\ disposal \in {"no", "closing", "done"}

Init ==
    /\ kind = [c \in Calls |-> "none"]
    /\ tab = [c \in Calls |-> "none"]
    /\ db = [c \in Calls |-> "none"]
    /\ pc = [c \in Calls |-> "new"]
    /\ awaits = [c \in Calls |-> Nobody]
    /\ state = [c \in Calls |-> "none"]
    /\ stmts = [c \in Calls |-> <<>>]
    /\ cancelRequested = [c \in Calls |-> FALSE]
    /\ cancelCall = [c \in Calls |-> "none"]
    /\ interrupted = [c \in Calls |-> FALSE]
    /\ history = [c \in Calls |-> "none"]
    /\ sessions = [t \in Tabs |-> Nobody]
    /\ opening = [t \in Tabs |-> Nobody]
    /\ handle = [c \in Calls |-> "unused"]
    /\ idle = [c \in Calls |-> FALSE]
    /\ disposal = "no"

-----------------------------------------------------------------------------
\* The executions that explain(), closeSession() and sweepIdle() call active.
IsActive(c) == state[c] \in {"queued", "running", "cancelling"}

TabBusy(t) == \E c \in Calls : tab[c] = t /\ IsActive(c)

\* sessionFor() after the lookup: join the open in flight or start one.
OpenOrJoin(c, t) ==
    /\ pc' = [pc EXCEPT ![c] = "awaiting"]
    /\ IF opening[t] # Nobody
       THEN /\ awaits' = [awaits EXCEPT ![c] = opening[t]]
            /\ UNCHANGED <<opening, handle>>
       ELSE /\ awaits' = [awaits EXCEPT ![c] = c]
            /\ opening' = [opening EXCEPT ![t] = c]
            /\ handle' = [handle EXCEPT ![c] = "opening"]

\* sessionFor() up to its first await.  d is the database that call c wants.
SessionFor(c, t, d) ==
    LET current == sessions[t] IN
    \/ /\ current # Nobody /\ db[current] = d
       /\ pc' = [pc EXCEPT ![c] = "awaiting"]
       /\ awaits' = [awaits EXCEPT ![c] = current]
       /\ idle' = [idle EXCEPT ![current] = FALSE]
       /\ UNCHANGED <<sessions, opening, handle>>
    \/ /\ current # Nobody /\ db[current] # d
       /\ pc' = [pc EXCEPT ![c] = "closing"]
       /\ awaits' = [awaits EXCEPT ![c] = current]
       /\ sessions' = [sessions EXCEPT ![t] = Nobody]
       /\ handle' = [handle EXCEPT ![current] = "closing"]
       /\ idle' = [idle EXCEPT ![current] = FALSE]
       /\ UNCHANGED opening
    \/ /\ current = Nobody
       /\ OpenOrJoin(c, t)
       /\ UNCHANGED <<sessions, idle>>

\* run() leaves through its finally block in state s.
EndRun(c, s) ==
    /\ state' = [state EXCEPT ![c] = s]
    /\ history' = [history EXCEPT ![c] = s]
    /\ pc' = [pc EXCEPT ![c] = "done"]

\* sessionFor() rejects: run() fails, explain() and autocomplete() throw.
Throws(c) ==
    IF kind[c] = "execute"
    THEN EndRun(c, "failed") /\ UNCHANGED <<stmts, cancelRequested>>
    ELSE pc' = [pc EXCEPT ![c] = "done"] /\ UNCHANGED runVars

\* A call arrives.
Arrives(c, k, t, d) ==
    /\ pc[c] = "new"
    /\ \A b \in 1..(c - 1) : pc[b] # "new"
    /\ kind' = [kind EXCEPT ![c] = k]
    /\ tab' = [tab EXCEPT ![c] = t]
    /\ db' = [db EXCEPT ![c] = d]

\* start(): the execution is queued behind the tab's tail.
Start(c, t, d) ==
    /\ Arrives(c, "execute", t, d)
    /\ disposal = "no"
    /\ state' = [state EXCEPT ![c] = "queued"]
    /\ pc' = [pc EXCEPT ![c] = "chained"]
    /\ UNCHANGED <<awaits, stmts, cancelRequested, history, cancelCall, interrupted,
                   sessionVars, disposal>>

\* explain(): refused while the tab has an active execution.
Explain(c, t, d) ==
    /\ Arrives(c, "lookup", t, d)
    /\ disposal = "no"
    /\ ~TabBusy(t)
    /\ SessionFor(c, t, d)
    /\ UNCHANGED <<runVars, cancelCall, interrupted, disposal>>

\* autocomplete(): checks neither the tab nor disposed.
Autocomplete(c, t, d) ==
    /\ Arrives(c, "lookup", t, d)
    /\ SessionFor(c, t, d)
    /\ UNCHANGED <<runVars, cancelCall, interrupted, disposal>>

-----------------------------------------------------------------------------

\* Mutant: a run that waits for the reported state of the previous one.
TurnByState(c) ==
    \A b \in 1..(c - 1) : kind[b] = "execute" /\ tab[b] = tab[c] => state[b] \in Terminal

\* The tab's tail: every earlier execution of the tab has left run().
IsTurn(c) ==
    \A b \in 1..(c - 1) : kind[b] = "execute" /\ tab[b] = tab[c] => pc[b] = "done"

\* run() of an execution that was cancelled while it was queued.
RunCancelled(c) ==
    /\ pc[c] = "chained"
    /\ IsTurn(c)
    /\ state[c] = "cancelled"
    /\ EndRun(c, "cancelled")
    /\ UNCHANGED <<callVars, awaits, stmts, cancelRequested, cancelCall, interrupted,
                   sessionVars, disposal>>

RunStarts(c) ==
    /\ pc[c] = "chained"
    /\ IsTurn(c)
    /\ state[c] # "cancelled"
    /\ state' = [state EXCEPT ![c] = "running"]
    /\ SessionFor(c, tab[c], db[c])
    /\ UNCHANGED <<callVars, stmts, cancelRequested, history, cancelCall, interrupted, disposal>>

\* sessionFor() after the close of the session of another database.
OldSessionClosed(c) ==
    /\ pc[c] = "closing"
    /\ handle[awaits[c]] = "closed"
    /\ OpenOrJoin(c, tab[c])
    /\ UNCHANGED <<callVars, runVars, cancelCall, interrupted, sessions, idle, disposal>>

OldCloseRejected(c) ==
    /\ pc[c] = "closing"
    /\ handle[awaits[c]] = "closed"
    /\ Throws(c)
    /\ UNCHANGED <<callVars, awaits, cancelCall, interrupted, sessionVars, disposal>>

\* openQuerySession settles.
OpenResolves(h) ==
    /\ handle[h] = "opening"
    /\ handle' = [handle EXCEPT ![h] = "open"]
    /\ idle' = [idle EXCEPT ![h] = FALSE]
    /\ sessions' = [sessions EXCEPT ![tab[h]] = h]
    /\ opening' = [opening EXCEPT ![tab[h]] = Nobody]
    /\ UNCHANGED <<callVars, pc, awaits, runVars, cancelCall, interrupted, disposal>>

OpenRejects(h) ==
    /\ handle[h] = "opening"
    /\ handle' = [handle EXCEPT ![h] = "failed"]
    /\ opening' = [opening EXCEPT ![tab[h]] = Nobody]
    /\ UNCHANGED <<callVars, pc, awaits, runVars, cancelCall, interrupted, sessions, idle, disposal>>

HandleCloses(h) ==
    /\ handle[h] = "closing"
    /\ handle' = [handle EXCEPT ![h] = "closed"]
    /\ UNCHANGED <<callVars, pc, awaits, runVars, cancelCall, interrupted, sessions, opening,
                   idle, disposal>>

\* sessionFor() has resolved for call c.
Resolved(c) == pc[c] = "awaiting" /\ handle[awaits[c]] \in {"open", "closing", "closed"}

SessionRejected(c) ==
    /\ pc[c] = "awaiting"
    /\ handle[awaits[c]] = "failed"
    /\ Throws(c)
    /\ UNCHANGED <<callVars, awaits, cancelCall, interrupted, sessionVars, disposal>>

\* run() finds that it was cancelled while it waited for the session.
RunStopsEarly(c) ==
    /\ Resolved(c)
    /\ kind[c] = "execute"
    /\ cancelRequested[c]
    /\ EndRun(c, state[c])
    /\ UNCHANGED <<callVars, awaits, stmts, cancelRequested, cancelCall, interrupted,
                   sessionVars, disposal>>

\* run() splits the SQL into n statements and sends the first one.
RunSplits(c, n) ==
    /\ Resolved(c)
    /\ kind[c] = "execute"
    /\ ~cancelRequested[c]
    /\ IF n = 0
       THEN EndRun(c, "failed") /\ UNCHANGED stmts
       ELSE /\ stmts' = [stmts EXCEPT ![c] = [i \in 1..n |-> IF i = 1 THEN "running" ELSE "pending"]]
            /\ pc' = [pc EXCEPT ![c] = "executing"]
            /\ UNCHANGED <<state, history>>
    /\ UNCHANGED <<callVars, awaits, cancelRequested, cancelCall, interrupted, sessionVars, disposal>>

\* The statement that query.execute is working on: execution.currentIndex.
Current(c) == CHOOSE i \in 1..Len(stmts[c]) : stmts[c][i] = "running"

\* finishQueuedCancellation(): what has not finished is skipped.
SkipUnfinished(s) == [i \in 1..Len(s) |-> IF s[i] \in {"pending", "running"} THEN "skipped" ELSE s[i]]

\* Mutant: the loop ends one statement early.
DoneEndsEarly(c) ==
    LET k == Current(c)
        s == [stmts[c] EXCEPT ![k] = "done"]
    IN
    /\ pc[c] = "executing"
    /\ interrupted' = [interrupted EXCEPT ![c] = FALSE]
    /\ idle' = [idle EXCEPT ![awaits[c]] = FALSE]
    /\ stmts' = [stmts EXCEPT ![c] = s]
    /\ EndRun(c, IF state[c] = "running" THEN "completed" ELSE state[c])
    /\ UNCHANGED <<callVars, awaits, cancelRequested, cancelCall, sessions, opening, handle, disposal>>

\* query.execute resolves: the next statement is sent, unless a cancel() came
\* in, or the run ends.
StatementDone(c) ==
    LET k == Current(c)
        s == [stmts[c] EXCEPT ![k] = "done"]
    IN
    /\ pc[c] = "executing"
    /\ handle[awaits[c]] # "closed"
    /\ interrupted' = [interrupted EXCEPT ![c] = FALSE]
    /\ idle' = [idle EXCEPT ![awaits[c]] = FALSE]
    /\ \/ /\ k = Len(s)
          /\ stmts' = [stmts EXCEPT ![c] = s]
          /\ EndRun(c, IF state[c] = "running" THEN "completed" ELSE state[c])
       \/ /\ k < Len(s) /\ cancelRequested[c]
          /\ stmts' = [stmts EXCEPT ![c] = SkipUnfinished(s)]
          /\ EndRun(c, "cancelled")
       \/ /\ k < Len(s) /\ ~cancelRequested[c]
          /\ stmts' = [stmts EXCEPT ![c] = [s EXCEPT ![k + 1] = "running"]]
          /\ UNCHANGED <<pc, state, history>>
    /\ UNCHANGED <<callVars, awaits, cancelRequested, cancelCall, sessions, opening, handle, disposal>>

\* query.execute rejects: the rest is skipped and the run ends.
StatementFails(c, category) ==
    LET k == Current(c) IN
    /\ pc[c] = "executing"
    /\ category = "cancelled" => interrupted[c]
    /\ stmts' = [stmts EXCEPT ![c] = [i \in 1..Len(@) |-> IF i = k THEN "error"
                                                          ELSE IF i > k THEN "skipped" ELSE @[i]]]
    /\ EndRun(c, IF cancelRequested[c] /\ category = "cancelled" THEN "cancelled" ELSE "failed")
    /\ interrupted' = [interrupted EXCEPT ![c] = FALSE]
    /\ UNCHANGED <<callVars, awaits, cancelRequested, cancelCall, sessionVars, disposal>>

\* explain() or autocomplete() has its session and asks the provider.
WorkStarts(c) ==
    /\ Resolved(c)
    /\ kind[c] # "execute"
    /\ pc' = [pc EXCEPT ![c] = "working"]
    /\ UNCHANGED <<callVars, awaits, runVars, cancelCall, interrupted, sessionVars, disposal>>

WorkEnds(c) ==
    /\ pc[c] = "working"
    /\ pc' = [pc EXCEPT ![c] = "done"]
    /\ idle' = [idle EXCEPT ![awaits[c]] = FALSE]
    /\ UNCHANGED <<callVars, awaits, runVars, cancelCall, interrupted, sessions, opening,
                   handle, disposal>>

-----------------------------------------------------------------------------
\* cancel(): a terminal execution and a second cancel() change nothing, and
\* a provider that cannot cancel leaves the execution running.
MayCancel(c) == IsActive(c) /\ cancelCall[c] = "none" /\ disposal # "done"

CancelQueued(c) ==
    /\ MayCancel(c)
    /\ pc[c] # "executing"
    /\ cancelRequested' = [cancelRequested EXCEPT ![c] = TRUE]
    /\ state' = [state EXCEPT ![c] = "cancelled"]
    /\ stmts' = [stmts EXCEPT ![c] = SkipUnfinished(@)]
    /\ UNCHANGED <<callVars, pc, awaits, history, cancelCall, interrupted, sessionVars, disposal>>

CancelRunning(c) ==
    /\ MayCancel(c)
    /\ pc[c] = "executing"
    /\ cancelRequested' = [cancelRequested EXCEPT ![c] = TRUE]
    /\ state' = [state EXCEPT ![c] = "cancelling"]
    /\ cancelCall' = [cancelCall EXCEPT ![c] = "sent"]
    /\ UNCHANGED <<callVars, pc, awaits, stmts, history, interrupted, sessionVars, disposal>>

\* The provider's cancel reaches the server (external): it names a session,
\* not a statement, and hits whatever runs there by then.
CancelArrives(c) ==
    /\ cancelCall[c] = "sent"
    /\ cancelCall' = [cancelCall EXCEPT ![c] = "delivered"]
    /\ interrupted' = [b \in Calls |-> interrupted[b] \/ (pc[b] = "executing" /\ awaits[b] = awaits[c])]
    /\ UNCHANGED <<callVars, pc, awaits, runVars, sessionVars, disposal>>

CancelResolves(c) ==
    /\ cancelCall[c] = "delivered"
    /\ cancelCall' = [cancelCall EXCEPT ![c] = "settled"]
    /\ UNCHANGED <<callVars, pc, awaits, runVars, interrupted, sessionVars, disposal>>

\* Mutant: the rejected cancel does not look whether the execution ended.
RejectAlwaysResumes(c) ==
    /\ cancelCall[c] \in {"sent", "delivered"}
    /\ cancelCall' = [cancelCall EXCEPT ![c] = "settled"]
    /\ cancelRequested' = [cancelRequested EXCEPT ![c] = FALSE]
    /\ state' = [state EXCEPT ![c] = "running"]
    /\ UNCHANGED <<callVars, pc, awaits, stmts, history, interrupted, sessionVars, disposal>>

\* The provider's cancel rejects: an execution that has not ended is running
\* again.
CancelRejects(c) ==
    /\ cancelCall[c] \in {"sent", "delivered"}
    /\ cancelCall' = [cancelCall EXCEPT ![c] = "settled"]
    /\ IF state[c] \in Terminal
       THEN UNCHANGED <<state, cancelRequested>>
       ELSE /\ cancelRequested' = [cancelRequested EXCEPT ![c] = FALSE]
            /\ state' = [state EXCEPT ![c] = "running"]
    /\ UNCHANGED <<callVars, pc, awaits, stmts, history, interrupted, sessionVars, disposal>>

-----------------------------------------------------------------------------
\* The sessions of the tabs in T leave the map and are closed.
CloseSessions(T) ==
    LET H == {sessions[t] : t \in T} \ {Nobody} IN
    /\ sessions' = [t \in Tabs |-> IF t \in T THEN Nobody ELSE sessions[t]]
    /\ handle' = [c \in Calls |-> IF c \in H THEN "closing" ELSE handle[c]]
    /\ idle' = [c \in Calls |-> idle[c] /\ c \notin H]
    /\ UNCHANGED opening

\* closeSession(): without force only when the tab has no active execution.
CloseSession(t, force) ==
    /\ sessions[t] # Nobody
    /\ TabBusy(t) /\ disposal # "done" => force
    /\ CloseSessions({t})
    /\ UNCHANGED <<callVars, pc, awaits, runVars, cancelCall, interrupted, disposal>>

\* The clock: idleTimeoutMs since the session's last activity.
IdleElapses(h) ==
    /\ h \in {sessions[t] : t \in Tabs}
    /\ ~idle[h]
    /\ idle' = [idle EXCEPT ![h] = TRUE]
    /\ UNCHANGED <<callVars, pc, awaits, runVars, cancelCall, interrupted, sessions, opening,
                   handle, disposal>>

\* Mutant: a sweep that closes the sessions and leaves them in the map.
SweepKeepsEntry ==
    /\ disposal = "no"
    /\ handle' = [c \in Calls |-> IF handle[c] = "open" /\ idle[c] /\ ~TabBusy(tab[c])
                                  THEN "closing" ELSE handle[c]]
    /\ handle' # handle
    /\ UNCHANGED <<callVars, pc, awaits, runVars, cancelCall, interrupted, sessions, opening,
                   idle, disposal>>

\* sweepIdle(): the idle sessions of tabs without an active execution.
SweepIdle ==
    LET T == {t \in Tabs : sessions[t] # Nobody /\ idle[sessions[t]] /\ ~TabBusy(t)} IN
    /\ disposal = "no"
    /\ T # {}
    /\ CloseSessions(T)
    /\ UNCHANGED <<callVars, pc, awaits, runVars, cancelCall, interrupted, disposal>>

\* dispose(): close every session, then forget the executions.
Dispose ==
    /\ disposal = "no"
    /\ disposal' = "closing"
    /\ CloseSessions(Tabs)
    /\ UNCHANGED <<callVars, pc, awaits, runVars, cancelCall, interrupted>>

DisposeEnds ==
    /\ disposal = "closing"
    /\ \A h \in Calls : handle[h] # "closing"
    /\ disposal' = "done"
    /\ UNCHANGED <<callVars, pc, awaits, runVars, cancelCall, interrupted, sessionVars>>

\* What the event loop and the provider do with a call that has arrived.
Proceed(c) ==
    \/ RunCancelled(c) \/ RunStarts(c)
    \/ OldSessionClosed(c) \/ OldCloseRejected(c)
    \/ SessionRejected(c) \/ RunStopsEarly(c)
    \/ \E n \in 0..MaxStatements : RunSplits(c, n)
    \/ StatementDone(c)
    \/ \E category \in {"other", "cancelled"} : StatementFails(c, category)
    \/ WorkStarts(c) \/ WorkEnds(c)

Provider(h) == OpenResolves(h) \/ OpenRejects(h) \/ HandleCloses(h)

Next ==
    \/ \E c \in Calls, t \in Tabs, d \in Dbs : Start(c, t, d)
    \/ \E c \in Calls, t \in Tabs, d \in Dbs : Explain(c, t, d)
    \/ \E c \in Calls, t \in Tabs, d \in Dbs : Autocomplete(c, t, d)
    \/ \E c \in Calls : Proceed(c)
    \/ \E h \in Calls : Provider(h)
    \/ \E c \in Calls : CancelQueued(c) \/ CancelRunning(c)
    \/ \E c \in Calls : CancelArrives(c) \/ CancelResolves(c) \/ CancelRejects(c)
    \/ \E t \in Tabs, force \in BOOLEAN : CloseSession(t, force)
    \/ \E h \in Calls : IdleElapses(h)
    \/ SweepIdle
    \/ Dispose
    \/ DisposeEnds

\* Provider calls settle and the event loop runs what is ready.
Fairness == \A c \in Calls : WF_vars(Proceed(c)) /\ WF_vars(Provider(c))

Spec == Init /\ [][Next]_vars
FairSpec == Spec /\ Fairness

-----------------------------------------------------------------------------
InRun(c) == kind[c] = "execute" /\ pc[c] \in {"closing", "awaiting", "executing"}

\* The executions of a tab never overlap, whatever state a cancel() has
\* reported for the earlier one: the tail waits for run() itself.
OneRunPerTab ==
    \A a, b \in Calls : InRun(a) /\ InRun(b) /\ tab[a] = tab[b] => a = b

\* An execution reported as cancelled runs nothing on the server any more.
CancelledDoesNotExecute ==
    \A c \in Calls : state[c] = "cancelled" => pc[c] # "executing"

\* Statements run in order and stop at the first error: the finished ones come
\* first, then at most one that runs or failed, then pending or skipped ones.
\* A run that has ended leaves none pending or running.
StatementsInOrder ==
    \A c \in Calls : \A i \in 1..Len(stmts[c]) :
      /\ stmts[c][i] # "done" =>
           \A j \in (i + 1)..Len(stmts[c]) :
             stmts[c][j] = (IF stmts[c][i] \in {"pending", "running"} THEN "pending" ELSE "skipped")
      /\ pc[c] = "done" => stmts[c][i] \notin {"pending", "running"}

\* completed is the truth: every statement was executed.
CompletedIsTrue ==
    \A c \in Calls : state[c] = "completed" =>
      stmts[c] # <<>> /\ \A i \in 1..Len(stmts[c]) : stmts[c][i] = "done"

\* What is reported of a run is what its statements did, and the runs of a tab follow each
\* other.
RunsAreTrue == OneRunPerTab /\ CancelledDoesNotExecute /\ StatementsInOrder /\ CompletedIsTrue

\* sessions never holds a session that is closing or closed, or one of another
\* tab: a call that reuses a session is given a live one.
SessionsAreOpen ==
    \A t \in Tabs : sessions[t] # Nobody => handle[sessions[t]] = "open" /\ tab[sessions[t]] = t

\* At most one open is in flight per tab, and opening knows it.
OneOpenPerTab ==
    \A h \in Calls : handle[h] = "opening" => opening[tab[h]] = h

\* The sessions that calls are given are live and their tab's, and two opens never race for one
\* tab: a second session would replace the first in the map, and nobody would close that.
SessionsAreTrue == SessionsAreOpen /\ OneOpenPerTab

\* The idle sweep never closes the session of a statement that is executing.
IdleSparesRunning ==
    [][SweepIdle => \A c \in Calls : pc[c] = "executing" =>
                      handle'[awaits[c]] = handle[awaits[c]]]_vars

\* A reported end stands: a late answer of the provider's cancel never rewrites
\* it, and only the failure of a run that was cancelled while it waited for its
\* session turns cancelled into failed, before the run ends.
EndedIsFinal ==
    [][\A c \in Calls : state[c] \in Terminal /\ state'[c] # state[c] =>
         /\ state[c] = "cancelled" /\ state'[c] = "failed"
         /\ pc[c] \in {"closing", "awaiting"}]_vars

\* What a single step may never do: rewrite an end that was reported, or close the session under
\* an executing statement because it looks idle.
StepsAreSafe == EndedIsFinal /\ IdleSparesRunning

\* Every call ends, however cancels, closes and shutdown interleave with it.
EveryCallEnds == \A c \in Calls : pc[c] # "new" ~> pc[c] = "done"

-----------------------------------------------------------------------------
\* An execution whose run has ended is completed, failed or cancelled.
RunEndsTerminal ==
    \A c \in Calls : kind[c] = "execute" /\ pc[c] = "done" => state[c] \in Terminal

\* A cancel hits only the statement of its own execution.
CancelIsTargeted ==
    [][\A c \in Calls : CancelArrives(c) =>
         \A b \in Calls \ {c} : interrupted'[b] = interrupted[b]]_vars

\* A statement runs in the database its execution named.
RightDatabase ==
    \A c \in Calls : pc[c] = "executing" => db[awaits[c]] = db[c]

\* A tab has one session: an open one is the tab's, where closing the tab or
\* the idle sweep finds it.
NoLeakedSession ==
    \A h \in Calls : handle[h] = "open" => sessions[tab[h]] = h
=============================================================================
