----------------------------- MODULE JobManager -----------------------------
(***************************************************************************)
(* The in-memory FIFO job queue of packages/jobs/src/index.ts: bounded     *)
(* workers, cooperative cancellation, throttled progress, idle waiters.    *)
(*                                                                         *)
(* The server is one JavaScript event loop, so a synchronous method is one *)
(* action, with the pump() it ends in.  execute() is split where the code  *)
(* awaits: the executor callback runs in a later microtask (StartExecutor),*)
(* the executor's promise settles (ExecutorSettles), the handler that sets *)
(* executionSettled runs (MarkSettled), and the continuation after the     *)
(* await ends the job (Finish).  Any other call may fall in between.       *)
(***************************************************************************)
EXTENDS Integers, Sequences, FiniteSets

CONSTANTS MaxJobs,      \* bound: number of submit() calls
          Concurrency,  \* options.concurrency
          MaxProgress,  \* bound: reportProgress() calls per job
          Reporters,    \* bound: jobs whose executors report progress
          Waiters       \* callers of whenIdle()

ASSUME JobManagerAssumption ==
    /\ MaxJobs \in Nat
    /\ Concurrency \in Nat \ {0}
    /\ MaxProgress \in Nat

\* Ids in creation order: createUuidV7 never repeats an id.
Jobs == 1..MaxJobs

JobState == {"queued", "running", "completed", "failed", "cancelling", "cancelled"}
Terminal == {"completed", "failed", "cancelled"}

\* The transitions table; a state is never left for itself.
canTransitionJob(from, to) ==
    \/ from = "queued"     /\ to \in {"running", "cancelled"}
    \/ from = "running"    /\ to \in {"completed", "failed", "cancelling"}
    \/ from = "cancelling" /\ to = "cancelled"

VARIABLES
    entries,       \* ids in the entries map
    state,         \* job.state; "none" before submit()
    cancellable,   \* job.cancellable
    aborted,       \* controller.signal.aborted
    task,          \* how far execute() has come
    outcome,       \* how the executor's promise settled
    queue,         \* ids waiting for a worker
    runningCount,
    disposed,
    waiting,       \* idleWaiters: whenIdle() promises not yet resolved
    progress,      \* version of job.progress: number of accepted reports
    emitted,       \* version in the last event a listener received
    throttled,     \* less than progressThrottleMs since the last progress event
    timer          \* progressTimer is armed

jobVars == <<entries, state, cancellable, aborted, task, outcome>>
poolVars == <<queue, runningCount, disposed, waiting>>
progressVars == <<progress, emitted, throttled, timer>>
vars == <<jobVars, poolVars, progressVars>>

TaskPhase == {"none", "scheduled", "working", "finished", "settled", "released"}

\* execute() has been entered and has not reached its finally block.
InFlight == {"scheduled", "working", "finished", "settled"}

Executing == {j \in Jobs : task[j] \in InFlight}

Active == {"running", "cancelling"}

TypeOK ==
    /\ entries \subseteq Jobs
    /\ state \in [Jobs -> JobState \cup {"none"}]
    /\ cancellable \in [Jobs -> BOOLEAN]
    /\ aborted \in [Jobs -> BOOLEAN]
    /\ task \in [Jobs -> TaskPhase]
    /\ outcome \in [Jobs -> {"none", "ok", "error"}]
    /\ queue \in Seq(Jobs)
    /\ runningCount \in 0..Concurrency
    /\ disposed \in BOOLEAN
    /\ waiting \subseteq Waiters
    /\ progress \in [Jobs -> 0..MaxProgress]
    /\ emitted \in [Jobs -> 0..MaxProgress]
    /\ throttled \in [Jobs -> BOOLEAN]
    /\ timer \in [Jobs -> BOOLEAN]

Init ==
    /\ entries = {}
    /\ state = [j \in Jobs |-> "none"]
    /\ cancellable = [j \in Jobs |-> FALSE]
    /\ aborted = [j \in Jobs |-> FALSE]
    /\ task = [j \in Jobs |-> "none"]
    /\ outcome = [j \in Jobs |-> "none"]
    /\ queue = <<>>
    /\ runningCount = 0
    /\ disposed = FALSE
    /\ waiting = {}
    /\ progress = [j \in Jobs |-> 0]
    /\ emitted = [j \in Jobs |-> 0]
    /\ throttled = [j \in Jobs |-> FALSE]
    /\ timer = [j \in Jobs |-> FALSE]

-----------------------------------------------------------------------------
\* The jobs that pump() starts when it shifts the first n ids off queue q:
\* an id whose entry is gone or no longer queued is dropped.
Started(q, n, st, ent) == {j \in ent : st[j] = "queued" /\ \E i \in 1..n : q[i] = j}

\* The loop of pump() runs exactly n times on queue q with rc busy workers.
PumpShifts(q, n, st, ent, rc) ==
    /\ n > 0 => rc + Cardinality(Started(q, n - 1, st, ent)) < Concurrency
    /\ n = Len(q) \/ rc + Cardinality(Started(q, n, st, ent)) >= Concurrency

\* Mutant: the waiters are never resolved.
WaitersForgotten(len, rc) == waiting

\* resolveIdleWaiters() with queue length len and rc busy workers.
WaitersLeft(len, rc) == IF ~disposed /\ (len > 0 \/ rc > 0) THEN waiting ELSE {}

\* pump() on the values its caller has just assigned.  Starting a job is
\* transition(entry, "running") followed by execute() up to its first await.
pump(q, st, ent, tk, rc) ==
    \E n \in 0..Len(q) :
      LET S == Started(q, n, st, ent) IN
      /\ PumpShifts(q, n, st, ent, rc)
      /\ queue' = SubSeq(q, n + 1, Len(q))
      /\ state' = [j \in Jobs |-> IF j \in S THEN "running" ELSE st[j]]
      /\ task' = [j \in Jobs |-> IF j \in S THEN "scheduled" ELSE tk[j]]
      /\ runningCount' = rc + Cardinality(S)
      /\ waiting' = WaitersLeft(Len(q) - n, rc + Cardinality(S))

\* submit(): refused once disposed.
Submit(j, c) ==
    /\ ~disposed
    /\ state[j] = "none"
    /\ \A i \in 1..(j - 1) : state[i] # "none"
    /\ entries' = entries \cup {j}
    /\ cancellable' = [cancellable EXCEPT ![j] = c]
    /\ pump(Append(queue, j), [state EXCEPT ![j] = "queued"], entries \cup {j},
            task, runningCount)
    /\ UNCHANGED <<aborted, outcome, disposed, progressVars>>

\* cancelEntry(): the cases that change nothing (not found, not cancellable,
\* already finished, already settled, already cancelling) are the guard.
MayCancel(j) ==
    /\ j \in entries
    /\ cancellable[j]
    /\ state[j] \notin Terminal
    /\ task[j] # "settled"          \* executionSettled

CancelQueued(j) ==
    /\ MayCancel(j)
    /\ state[j] = "queued"
    /\ aborted' = [aborted EXCEPT ![j] = TRUE]
    /\ emitted' = [emitted EXCEPT ![j] = progress[j]]
    /\ pump(queue, [state EXCEPT ![j] = "cancelled"], entries, task, runningCount)
    /\ UNCHANGED <<entries, cancellable, outcome, disposed, progress, throttled, timer>>

CancelRunning(j) ==
    /\ MayCancel(j)
    /\ state[j] = "running"
    /\ state' = [state EXCEPT ![j] = "cancelling"]
    /\ aborted' = [aborted EXCEPT ![j] = TRUE]
    /\ emitted' = [emitted EXCEPT ![j] = progress[j]]
    /\ UNCHANGED <<entries, cancellable, task, outcome, poolVars, progress, throttled, timer>>

-----------------------------------------------------------------------------
\* The microtask that calls entry.executor.
StartExecutor(j) ==
    /\ task[j] = "scheduled"
    /\ task' = [task EXCEPT ![j] = "working"]
    /\ UNCHANGED <<entries, state, cancellable, aborted, outcome, poolVars, progressVars>>

\* The executor (external: export, import, backup, restore) ends.  An aborted
\* signal is a request: the executor may still return a result.
ExecutorSettles(j, o) ==
    /\ task[j] = "working"
    /\ task' = [task EXCEPT ![j] = "finished"]
    /\ outcome' = [outcome EXCEPT ![j] = o]
    /\ UNCHANGED <<entries, state, cancellable, aborted, poolVars, progressVars>>

\* The handlers that set executionSettled.
MarkSettled(j) ==
    /\ task[j] = "finished"
    /\ task' = [task EXCEPT ![j] = "settled"]
    /\ UNCHANGED <<entries, state, cancellable, aborted, outcome, poolVars, progressVars>>

\* Mutant: the outcome of the executor wins over the cancellation.
EndIgnoresCancel(j) ==
    IF disposed THEN state[j] ELSE IF outcome[j] = "error" THEN "failed" ELSE "completed"

\* The state execute() ends the job in after its await.
EndState(j) ==
    CASE disposed -> state[j]
      [] ~disposed /\ state[j] = "cancelling" -> "cancelled"
      [] ~disposed /\ state[j] # "cancelling" /\ outcome[j] = "error" -> "failed"
      [] ~disposed /\ state[j] = "running" /\ outcome[j] = "ok" -> "completed"
      [] OTHER -> state[j]

\* Mutant: execute() without the decrement.
FinishKeepsSlot(j) ==
    /\ task[j] = "settled"
    /\ timer' = [timer EXCEPT ![j] = FALSE]
    /\ emitted' = [emitted EXCEPT ![j] = progress[j]]
    /\ pump(queue, [state EXCEPT ![j] = EndState(j)], entries,
            [task EXCEPT ![j] = "released"], runningCount)
    /\ UNCHANGED <<entries, cancellable, aborted, outcome, disposed, progress, throttled>>

\* Mutant: execute() without the pump() at its end.
FinishWithoutPump(j) ==
    /\ task[j] = "settled"
    /\ timer' = [timer EXCEPT ![j] = FALSE]
    /\ emitted' = [emitted EXCEPT ![j] = progress[j]]
    /\ state' = [state EXCEPT ![j] = EndState(j)]
    /\ task' = [task EXCEPT ![j] = "released"]
    /\ runningCount' = runningCount - 1
    /\ UNCHANGED <<entries, cancellable, aborted, outcome, disposed, progress, throttled,
                   queue, waiting>>

\* The rest of execute(): result or error, then the finally block.
Finish(j) ==
    LET st == [state EXCEPT ![j] = EndState(j)]
        tk == [task EXCEPT ![j] = "released"]
        rc == IF runningCount > 0 THEN runningCount - 1 ELSE 0
    IN
    /\ task[j] = "settled"
    /\ timer' = [timer EXCEPT ![j] = FALSE]
    /\ emitted' = IF disposed THEN emitted ELSE [emitted EXCEPT ![j] = progress[j]]
    /\ IF disposed
       THEN /\ state' = st /\ task' = tk /\ runningCount' = rc
            /\ UNCHANGED <<queue, waiting>>
       ELSE pump(queue, st, entries, tk, rc)
    /\ UNCHANGED <<entries, cancellable, aborted, outcome, disposed, progress, throttled>>

-----------------------------------------------------------------------------
\* Mutant: a throttled report arms no timer.
ReportDropped(j) ==
    /\ j \in Reporters /\ task[j] \notin {"none", "scheduled"}
    /\ ~disposed
    /\ state[j] \in Active
    /\ progress[j] < MaxProgress
    /\ progress' = [progress EXCEPT ![j] = @ + 1]
    /\ IF throttled[j]
       THEN UNCHANGED <<emitted, throttled>>
       ELSE /\ emitted' = [emitted EXCEPT ![j] = progress[j] + 1]
            /\ throttled' = [throttled EXCEPT ![j] = TRUE]
    /\ UNCHANGED <<jobVars, poolVars, timer>>

\* reportProgress() from a started executor; a report that arrives after the
\* job ended is ignored.
ReportProgress(j) ==
    /\ j \in Reporters /\ task[j] \notin {"none", "scheduled"}
    /\ ~disposed
    /\ state[j] \in Active
    /\ progress[j] < MaxProgress
    /\ progress' = [progress EXCEPT ![j] = @ + 1]
    /\ IF throttled[j]
       THEN /\ timer' = [timer EXCEPT ![j] = TRUE]
            /\ UNCHANGED <<emitted, throttled>>
       ELSE /\ emitted' = [emitted EXCEPT ![j] = progress[j] + 1]
            /\ throttled' = [throttled EXCEPT ![j] = TRUE]
            /\ UNCHANGED timer
    /\ UNCHANGED <<jobVars, poolVars>>

\* The clock: progressThrottleMs have passed since the last progress event.
ThrottleElapses(j) ==
    /\ throttled[j]
    /\ throttled' = [throttled EXCEPT ![j] = FALSE]
    /\ UNCHANGED <<jobVars, poolVars, progress, emitted, timer>>

\* The trailing timer: it emits, or arms itself again when it fired early.
ProgressTimer(j) ==
    /\ timer[j]
    /\ IF disposed \/ state[j] \notin Active
       THEN timer' = [timer EXCEPT ![j] = FALSE] /\ UNCHANGED <<emitted, throttled>>
       ELSE /\ ~throttled[j]
            /\ timer' = [timer EXCEPT ![j] = FALSE]
            /\ emitted' = [emitted EXCEPT ![j] = progress[j]]
            /\ throttled' = [throttled EXCEPT ![j] = TRUE]
    /\ UNCHANGED <<jobVars, poolVars, progress>>

-----------------------------------------------------------------------------
\* whenIdle(): a caller that finds work waits.
WhenIdle(w) ==
    /\ w \notin waiting
    /\ ~disposed
    /\ queue # <<>> \/ runningCount > 0
    /\ waiting' = waiting \cup {w}
    /\ UNCHANGED <<jobVars, queue, runningCount, disposed, progressVars>>

\* The cleanup interval drops terminal jobs older than retentionMs; which of
\* them are old enough is the clock's choice.
Cleanup(old) ==
    /\ old # {}
    /\ old \subseteq {j \in entries : state[j] \in Terminal}
    /\ ~disposed
    /\ entries' = entries \ old
    /\ timer' = [j \in Jobs |-> timer[j] /\ j \notin old]
    /\ UNCHANGED <<state, cancellable, aborted, task, outcome, poolVars,
                   progress, emitted, throttled>>

Dispose ==
    /\ ~disposed
    /\ disposed' = TRUE
    /\ queue' = <<>>
    /\ aborted' = [j \in Jobs |-> aborted[j] \/ j \in entries]
    /\ timer' = [j \in Jobs |-> timer[j] /\ j \notin entries]
    /\ entries' = {}
    /\ waiting' = {}
    /\ UNCHANGED <<state, cancellable, task, outcome, runningCount,
                   progress, emitted, throttled>>

Microtask(j) == StartExecutor(j) \/ MarkSettled(j) \/ Finish(j)

Next ==
    \/ \E j \in Jobs, c \in BOOLEAN : Submit(j, c)
    \/ \E j \in Jobs : CancelQueued(j)
    \/ \E j \in Jobs : CancelRunning(j)
    \/ \E j \in Jobs : Microtask(j)
    \/ \E j \in Jobs, o \in {"ok", "error"} : ExecutorSettles(j, o)
    \/ \E j \in Jobs : ReportProgress(j)
    \/ \E j \in Jobs : ThrottleElapses(j)
    \/ \E j \in Jobs : ProgressTimer(j)
    \/ \E w \in Waiters : WhenIdle(w)
    \/ \E old \in SUBSET entries : Cleanup(old)
    \/ Dispose

\* The event loop runs every microtask and timer it is given, and executors
\* end.  Nothing obliges a client to submit, cancel or wait.
Fairness ==
    \A j \in Jobs :
      /\ WF_vars(Microtask(j))
      /\ WF_vars(\E o \in {"ok", "error"} : ExecutorSettles(j, o))
      /\ WF_vars(ThrottleElapses(j))
      /\ WF_vars(ProgressTimer(j))

Spec == Init /\ [][Next]_vars
FairSpec == Spec /\ Fairness

-----------------------------------------------------------------------------
\* runningCount counts exactly the executions between pump() and the finally
\* block, and stays within the limit: no slot is lost or released twice,
\* whichever way execute() ends and also when the manager is disposed.
SlotAccounting ==
    /\ runningCount = Cardinality(Executing)
    /\ runningCount <= Concurrency

\* No queued job waits while a worker is free, and none is forgotten: every
\* submit, cancel and finish ends in a pump() that leaves this true.
WorkConserving ==
    (~disposed /\ \E j \in entries : state[j] = "queued") => runningCount = Concurrency

\* The queue holds every queued job, once, in submission order.  Ids of jobs
\* cancelled while queued may still be in it.
QueueHoldsQueued ==
    /\ \A a, b \in 1..Len(queue) : a < b => queue[a] < queue[b]
    /\ ~disposed => \A j \in Jobs : state[j] = "queued" => \E i \in 1..Len(queue) : queue[i] = j

\* A whenIdle() caller is left waiting only while there is work whose end will
\* wake it: no lost wake-up, whichever operation empties the manager.
NoLostWakeup == waiting # {} => ~disposed /\ (queue # <<>> \/ runningCount > 0)

\* A terminal state is the truth about the executor: a job is reported
\* completed, failed or cancelled only when its executor is no longer running
\* (or never ran), and completed only if the executor succeeded.
TerminalMeansStopped ==
    \A j \in Jobs : state[j] \in Terminal =>
      /\ task[j] \in {"none", "released"}
      /\ state[j] = "completed" => outcome[j] = "ok"
      /\ state[j] = "failed" => outcome[j] = "error"
      /\ task[j] = "none" => state[j] = "cancelled"

\* An execution that is over has been accounted for: unless the manager was
\* disposed, a released job is in a terminal state and never stuck in
\* running or cancelling.
ReleasedMeansTerminal ==
    ~disposed => \A j \in Jobs : task[j] = "released" => state[j] \in Terminal

\* A cancel() that was accepted is not undone by an executor that returns or
\* throws afterwards: the job ends as cancelled.
CancelSticks ==
    ~disposed => \A j \in Jobs : aborted[j] => state[j] \in {"cancelling", "cancelled"}

\* A listener that has not seen the latest progress of a job is owed an event
\* by an armed timer; terminal events carry the final progress.
ProgressNotLost ==
    ~disposed => \A j \in Jobs : progress[j] # emitted[j] => timer[j]

\* No timer outlives its job or the manager.
NoStrayTimer ==
    \A j \in Jobs : timer[j] => ~disposed /\ j \in entries /\ state[j] \in Active

\* The pool as a whole: no slot is lost, no queued job waits for nothing, none is missing from
\* the queue and nobody waits for an idle manager, whatever order of submits, cancels, ends
\* and dispose led there.
PoolIsSound == SlotAccounting /\ WorkConserving /\ QueueHoldsQueued /\ NoLostWakeup

\* What a caller reads of a job's end is true: the executor has stopped, it ended that way, no
\* ended execution is still shown as running, and an accepted cancel is not undone.
EndsAreTrue == TerminalMeansStopped /\ ReleasedMeansTerminal /\ CancelSticks

\* The progress a caller has not seen is owed by a timer, and no timer is left behind.
ProgressIsTrue == ProgressNotLost /\ NoStrayTimer

\* assertJobTransition() never throws: every change of a job's state is in the
\* transitions table (and so terminal states are final).
LegalTransitions ==
    [][\A j \in Jobs : state[j] # "none" /\ state'[j] # state[j]
                         => canTransitionJob(state[j], state'[j])]_vars

\* Jobs start in the order of submission: when one starts, no job submitted
\* before it is still queued.
StartInOrder ==
    [][\A i, j \in Jobs :
         i < j /\ task[j] = "none" /\ task'[j] = "scheduled" => state'[i] # "queued"]_vars

\* What execute(), pump() and the cancellations do is what JobService promises: the queue, the
\* microtasks and the timers are not seen by a caller, and every worker is given back.
Service == INSTANCE JobService WITH Limit <- Concurrency, holding <- Executing, down <- disposed
ImplementsService == Service!ServiceSpec
StepsAsService == Service!ServiceSafety

\* Every whenIdle() promise is resolved once submissions stop.
EveryWaiterServed ==
    \A w \in Waiters : w \in waiting ~> w \notin waiting
=============================================================================
