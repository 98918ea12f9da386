-------------------------- MODULE JobManagerProofs --------------------------
(***************************************************************************)
(* Proofs about JobManager, for every number of jobs, every concurrency    *)
(* limit and every set of idle waiters.                                    *)
(***************************************************************************)
EXTENDS JobManager, FiniteSetTheorems, TLAPS

\* How a job's state and the progress of its execute() call go together: a
\* worker is held exactly while the job is running or cancelling, except that
\* execute() of a disposed manager leaves the state as it was.
StateMatchesTask ==
    \A j \in Jobs :
      /\ state[j] \in {"none", "queued"} => task[j] = "none"
      /\ task[j] \in InFlight => state[j] \in Active
      /\ state[j] \in Active => task[j] \in InFlight \/ (disposed /\ task[j] = "released")
      /\ task[j] \in {"finished", "settled"} => outcome[j] # "none"

\* Ids are handed out in order, and an id in the queue was handed out.
SubmittedInOrder ==
    /\ \A i, j \in Jobs : i < j /\ state[j] # "none" => state[i] # "none"
    /\ \A k \in 1..Len(queue) : state[queue[k]] # "none"
    /\ disposed => queue = <<>> /\ entries = {}
    /\ ~disposed => \A j \in Jobs : state[j] = "queued" => j \in entries

\* The queue drains completely unless every worker is taken: the loop of
\* pump() has no other way to stop.
QueueWaitsForWorker == queue # <<>> => runningCount = Concurrency

\* The inductive invariant.
JobInv ==
    /\ TypeOK
    /\ StateMatchesTask
    /\ SubmittedInOrder
    /\ QueueWaitsForWorker
    /\ SlotAccounting
    /\ QueueHoldsQueued
    /\ NoLostWakeup
    /\ TerminalMeansStopped
    /\ ReleasedMeansTerminal
    /\ CancelSticks

-----------------------------------------------------------------------------
\* Sets of jobs are finite, so Cardinality counts them.
LEMMA JobsFinite ==
  ASSUME NEW S, S \subseteq Jobs
  PROVE  IsFiniteSet(S) /\ Cardinality(S) \in Nat
<1>1. IsFiniteSet(Jobs)
  BY FS_Interval, JobManagerAssumption DEF Jobs
<1>2. IsFiniteSet(S)
  BY <1>1, FS_Subset
<1> QED
  BY <1>2, FS_CardinalityType

\* Shifting one more id off the queue starts at most one more job.
LEMMA OneStartPerShift ==
  ASSUME NEW q \in Seq(Jobs), NEW n \in 1..Len(q), NEW st, NEW ent, ent \subseteq Jobs
  PROVE  Cardinality(Started(q, n, st, ent)) <= Cardinality(Started(q, n - 1, st, ent)) + 1
<1> DEFINE A == Started(q, n - 1, st, ent)
           B == Started(q, n, st, ent)
<1>1. A \subseteq Jobs /\ B \subseteq Jobs
  BY DEF Started
<1>2. IsFiniteSet(A) /\ IsFiniteSet(B) /\ Cardinality(A) \in Nat /\ Cardinality(B) \in Nat
  BY <1>1, JobsFinite
<1>3. B \subseteq A \cup {q[n]}
  <2> SUFFICES ASSUME NEW j \in B, j # q[n]
               PROVE  j \in A
    OBVIOUS
  <2>1. PICK i \in 1..n : q[i] = j
    BY DEF Started
  <2>2. i # n
    BY <2>1
  <2>3. i \in 1..(n - 1)
    BY <2>2
  <2> QED
    BY <2>1, <2>3 DEF Started
<1>4. IsFiniteSet(A \cup {q[n]}) /\ Cardinality(A \cup {q[n]}) <= Cardinality(A) + 1
  <2> HIDE DEF A
  <2>1. /\ IsFiniteSet(A \cup {q[n]})
        /\ Cardinality(A \cup {q[n]}) =
             IF q[n] \in A THEN Cardinality(A) ELSE Cardinality(A) + 1
    BY <1>2, FS_AddElement
  <2> QED
    BY <1>2, <2>1
<1>5. Cardinality(B) <= Cardinality(A \cup {q[n]})
  BY <1>3, <1>4, FS_Subset
<1>6. Cardinality(A \cup {q[n]}) \in Nat
  BY <1>4, FS_CardinalityType
<1> HIDE DEF A, B
<1>7. Cardinality(B) <= Cardinality(A) + 1
  BY <1>2, <1>4, <1>5, <1>6
<1> QED
  BY <1>7 DEF A, B

\* The step that pump() takes when it starts the jobs of S: it leaves a suffix
\* of the queue, and leaves it only when no worker is free.
PumpResult(S, q, st, ent, tk, rc) ==
    /\ \A j \in S : st[j] = "queued" /\ \E k \in 1..Len(q) : q[k] = j
    /\ state' = [j \in Jobs |-> IF j \in S THEN "running" ELSE st[j]]
    /\ task' = [j \in Jobs |-> IF j \in S THEN "scheduled" ELSE tk[j]]
    /\ runningCount' = rc + Cardinality(S)
    /\ runningCount' \in 0..Concurrency
    /\ \E n \in 0..Len(q) :
         /\ queue' = SubSeq(q, n + 1, Len(q))
         /\ S = Started(q, n, st, ent)
         /\ n = Len(q) \/ runningCount' = Concurrency
         /\ waiting' = WaitersLeft(Len(q) - n, runningCount')

\* What pump() does, as its callers see it.
LEMMA PumpEffect ==
  ASSUME NEW q \in Seq(Jobs), NEW st, NEW ent, ent \subseteq Jobs, NEW tk,
         NEW rc \in 0..Concurrency,
         pump(q, st, ent, tk, rc)
  PROVE  \E S \in SUBSET ent : PumpResult(S, q, st, ent, tk, rc)
<1>1. PICK n \in 0..Len(q) :
        LET S == Started(q, n, st, ent) IN
        /\ PumpShifts(q, n, st, ent, rc)
        /\ queue' = SubSeq(q, n + 1, Len(q))
        /\ state' = [j \in Jobs |-> IF j \in S THEN "running" ELSE st[j]]
        /\ task' = [j \in Jobs |-> IF j \in S THEN "scheduled" ELSE tk[j]]
        /\ runningCount' = rc + Cardinality(S)
        /\ waiting' = WaitersLeft(Len(q) - n, rc + Cardinality(S))
  BY DEF pump
<1> DEFINE S == Started(q, n, st, ent)
<1>2. S \in SUBSET ent
  BY DEF Started
<1>3. \A j \in S : st[j] = "queued" /\ \E k \in 1..Len(q) : q[k] = j
  BY DEF Started
<1>4. Cardinality(S) \in Nat
  BY <1>2, JobsFinite
<1>5. rc + Cardinality(S) <= Concurrency
  <2>1. CASE n = 0
    <3>1. S = {}
      BY <2>1 DEF Started
    <3> QED
      BY <3>1, FS_EmptySet, JobManagerAssumption
  <2>2. CASE n > 0
    <3>1. n \in 1..Len(q)
      BY <2>2
    <3>2. Cardinality(S) <= Cardinality(Started(q, n - 1, st, ent)) + 1
      BY <3>1, OneStartPerShift
    <3>3. Started(q, n - 1, st, ent) \subseteq Jobs
      BY DEF Started
    <3>4. Cardinality(Started(q, n - 1, st, ent)) \in Nat
      BY <3>3, JobsFinite
    <3>5. rc + Cardinality(Started(q, n - 1, st, ent)) < Concurrency
      BY <1>1, <2>2 DEF PumpShifts
    <3> HIDE DEF S
    <3> QED
      BY <3>2, <3>4, <3>5, <1>4, JobManagerAssumption
  <2> QED
    BY <2>1, <2>2
<1>6. n = Len(q) \/ rc + Cardinality(S) = Concurrency
  <2>1. n = Len(q) \/ rc + Cardinality(S) >= Concurrency
    BY <1>1 DEF PumpShifts
  <2> HIDE DEF S
  <2> QED
    BY <2>1, <1>4, <1>5, JobManagerAssumption
<1>7. runningCount' = rc + Cardinality(S) /\ waiting' = WaitersLeft(Len(q) - n, runningCount')
  BY <1>1
<1>8. runningCount' \in 0..Concurrency
  <2> HIDE DEF S
  <2> QED
    BY <1>4, <1>5, <1>7, JobManagerAssumption
<1>9. /\ queue' = SubSeq(q, n + 1, Len(q))
      /\ state' = [j \in Jobs |-> IF j \in S THEN "running" ELSE st[j]]
      /\ task' = [j \in Jobs |-> IF j \in S THEN "scheduled" ELSE tk[j]]
  BY <1>1
<1>10. n = Len(q) \/ runningCount' = Concurrency
  BY <1>6, <1>7
<1>11. S = Started(q, n, st, ent)
  OBVIOUS
<1> HIDE DEF S
<1> QED
  BY <1>2, <1>3, <1>7, <1>8, <1>9, <1>10, <1>11 DEF PumpResult

-----------------------------------------------------------------------------
\* The part of the invariant about one job, on the values a method has just
\* assigned and while the manager is not disposed.
JobOK(st, tk, oc, ab) ==
    /\ st \in {"none", "queued"} => tk = "none"
    /\ tk \in InFlight <=> st \in Active
    /\ tk \in {"finished", "settled"} => oc # "none"
    /\ st \in Terminal =>
         /\ tk \in {"none", "released"}
         /\ st = "completed" => oc = "ok"
         /\ st = "failed" => oc = "error"
         /\ tk = "none" => st = "cancelled"
    /\ tk = "released" => st \in Terminal
    /\ ab => st \in {"cancelling", "cancelled"}

\* The invariant between the assignments of a method and the pump() it ends
\* in: everything but the promise that the queue waits only for a worker.
MidInv(q, st, ent, tk, rc, oc, ab) ==
    /\ ent \subseteq Jobs
    /\ st \in [Jobs -> JobState \cup {"none"}]
    /\ tk \in [Jobs -> TaskPhase]
    /\ q \in Seq(Jobs)
    /\ rc \in 0..Concurrency
    /\ rc = Cardinality({j \in Jobs : tk[j] \in InFlight})
    /\ \A j \in Jobs : JobOK(st[j], tk[j], oc[j], ab[j])
    /\ \A i, j \in Jobs : i < j /\ st[j] # "none" => st[i] # "none"
    /\ \A k \in 1..Len(q) : st[q[k]] # "none"
    /\ \A a, b \in 1..Len(q) : a < b => q[a] < q[b]
    /\ \A j \in Jobs : st[j] = "queued" => j \in ent /\ \E k \in 1..Len(q) : q[k] = j

\* The invariant of a manager that is not disposed, part by part.
LEMMA InvIsMidInv ==
  ASSUME JobInv, ~disposed
  PROVE  MidInv(queue, state, entries, task, runningCount, outcome, aborted)
<1>1. \A j \in Jobs : JobOK(state[j], task[j], outcome[j], aborted[j])
  BY DEF JobInv, JobOK, StateMatchesTask, TerminalMeansStopped, ReleasedMeansTerminal, CancelSticks
<1>2. runningCount = Cardinality({j \in Jobs : task[j] \in InFlight})
  BY DEF JobInv, SlotAccounting, Executing
<1> QED
  BY <1>1, <1>2 DEF JobInv, MidInv, TypeOK, SubmittedInOrder, QueueHoldsQueued

\* The suffix that pump() leaves in the queue, by index.
LEMMA SuffixIndex ==
  ASSUME NEW q \in Seq(Jobs), NEW n \in 0..Len(q)
  PROVE  /\ SubSeq(q, n + 1, Len(q)) \in Seq(Jobs)
         /\ Len(SubSeq(q, n + 1, Len(q))) = Len(q) - n
         /\ \A k \in 1..(Len(q) - n) : SubSeq(q, n + 1, Len(q))[k] = q[n + k]
  OBVIOUS

\* pump() re-establishes the invariant from the mid-method invariant.
LEMMA PumpEstablishesInv ==
  ASSUME NEW q, NEW st, NEW ent, NEW tk, NEW rc, NEW oc, NEW ab,
         MidInv(q, st, ent, tk, rc, oc, ab),
         pump(q, st, ent, tk, rc),
         waiting \subseteq Waiters, ~disposed
  PROVE  /\ MidInv(queue', state', ent, task', runningCount', oc, ab)
         /\ queue' # <<>> => runningCount' = Concurrency
         /\ waiting' \subseteq Waiters
         /\ waiting' # {} => queue' # <<>> \/ runningCount' > 0
<1>1. q \in Seq(Jobs) /\ ent \subseteq Jobs /\ rc \in 0..Concurrency
  BY DEF MidInv
<1>0. PICK S \in SUBSET ent : PumpResult(S, q, st, ent, tk, rc)
  BY <1>1, PumpEffect
<1>2. /\ \A j \in S : st[j] = "queued" /\ \E k \in 1..Len(q) : q[k] = j
      /\ state' = [j \in Jobs |-> IF j \in S THEN "running" ELSE st[j]]
      /\ task' = [j \in Jobs |-> IF j \in S THEN "scheduled" ELSE tk[j]]
      /\ runningCount' = rc + Cardinality(S)
      /\ runningCount' \in 0..Concurrency
      /\ \E n \in 0..Len(q) :
           /\ queue' = SubSeq(q, n + 1, Len(q))
           /\ S = Started(q, n, st, ent)
           /\ n = Len(q) \/ runningCount' = Concurrency
           /\ waiting' = WaitersLeft(Len(q) - n, runningCount')
  BY <1>0 DEF PumpResult
<1>3. PICK n \in 0..Len(q) :
        /\ queue' = SubSeq(q, n + 1, Len(q))
        /\ S = Started(q, n, st, ent)
        /\ n = Len(q) \/ runningCount' = Concurrency
        /\ waiting' = WaitersLeft(Len(q) - n, runningCount')
  BY <1>2
<1>4. /\ queue' \in Seq(Jobs)
      /\ Len(queue') = Len(q) - n
      /\ \A k \in 1..Len(queue') : queue'[k] = q[n + k]
  BY <1>1, <1>3, SuffixIndex
<1>5. state' \in [Jobs -> JobState \cup {"none"}] /\ task' \in [Jobs -> TaskPhase]
  BY <1>2 DEF MidInv, JobState, TaskPhase
<1>6. runningCount' = Cardinality({j \in Jobs : task'[j] \in InFlight})
  <2> DEFINE E == {j \in Jobs : tk[j] \in InFlight}
             F == {j \in Jobs : task'[j] \in InFlight}
  <2>1. F = E \cup S
    BY <1>1, <1>2 DEF InFlight
  <2>2. E \cap S = {}
    <3>1. \A j \in S : tk[j] = "none"
      BY <1>1, <1>2 DEF MidInv, JobOK
    <3> QED
      BY <3>1 DEF InFlight
  <2>3. E \subseteq Jobs /\ S \subseteq Jobs
    BY <1>1
  <2>4. IsFiniteSet(E) /\ IsFiniteSet(S) /\ Cardinality(E) \in Nat /\ Cardinality(S) \in Nat
    BY <2>3, JobsFinite
  <2>5. rc = Cardinality(E)
    BY DEF MidInv
  <2> HIDE DEF E, F
  <2>6. Cardinality(E \cup S) = Cardinality(E) + Cardinality(S) - Cardinality(E \cap S)
    BY <2>4, FS_Union
  <2>7. Cardinality(F) = Cardinality(E) + Cardinality(S)
    <3>1. Cardinality(E \cap S) = 0
      BY <2>2, FS_EmptySet
    <3> QED
      BY <2>1, <2>4, <2>6, <3>1
  <2>8. runningCount' = Cardinality(F)
    BY <1>2, <2>5, <2>7
  <2> QED
    BY <2>8 DEF F
<1>7. \A j \in Jobs : JobOK(state'[j], task'[j], oc[j], ab[j])
  <2> TAKE j \in Jobs
  <2>1. JobOK(st[j], tk[j], oc[j], ab[j])
    BY DEF MidInv
  <2>2. CASE j \in S
    <3>1. st[j] = "queued" /\ state'[j] = "running" /\ task'[j] = "scheduled"
      BY <1>2, <2>2
    <3> QED
      BY <2>1, <3>1 DEF JobOK, InFlight, Active, Terminal
  <2>3. CASE j \notin S
    <3>1. state'[j] = st[j] /\ task'[j] = tk[j]
      BY <1>2, <2>3
    <3> QED
      BY <2>1, <3>1
  <2> QED
    BY <2>2, <2>3
<1>8. \A j \in Jobs : state'[j] = "none" <=> st[j] = "none"
  BY <1>2
<1>9. \A i, j \in Jobs : i < j /\ state'[j] # "none" => state'[i] # "none"
  BY <1>8 DEF MidInv
<1>10. \A k \in 1..Len(queue') : n + k \in 1..Len(q) /\ queue'[k] = q[n + k] /\ q[n + k] \in Jobs
  <2> TAKE k \in 1..Len(queue')
  <2>1. n + k \in 1..Len(q)
    BY <1>1, <1>4
  <2> QED
    BY <1>1, <1>4, <2>1
<1>11. \A k \in 1..Len(queue') : state'[queue'[k]] # "none"
  BY <1>8, <1>10 DEF MidInv
<1>12. \A a, b \in 1..Len(queue') : a < b => queue'[a] < queue'[b]
  <2> TAKE a, b \in 1..Len(queue')
  <2> HAVE a < b
  <2>1. n + a < n + b /\ n + a \in 1..Len(q) /\ n + b \in 1..Len(q)
    BY <1>4, <1>10
  <2> QED
    BY <1>10, <2>1 DEF MidInv
<1>13. ASSUME NEW j \in Jobs, state'[j] = "queued"
       PROVE  j \in ent /\ \E k \in 1..Len(queue') : queue'[k] = j
  <2>1. j \notin S /\ st[j] = "queued"
    BY <1>2, <1>13
  <2>2. j \in ent /\ \E k \in 1..Len(q) : q[k] = j
    BY <2>1 DEF MidInv
  <2>3. PICK k \in 1..Len(q) : q[k] = j
    BY <2>2
  <2>4. k \notin 1..n
    BY <1>3, <2>1, <2>2, <2>3 DEF Started
  <2>5. k - n \in 1..Len(queue') /\ queue'[k - n] = q[n + (k - n)] /\ n + (k - n) = k
    BY <1>1, <1>4, <2>4
  <2> QED
    BY <2>2, <2>3, <2>5
<1>14. MidInv(queue', state', ent, task', runningCount', oc, ab)
  BY <1>1, <1>2, <1>4, <1>5, <1>6, <1>7, <1>9, <1>11, <1>12, <1>13 DEF MidInv
<1>15. queue' # <<>> => runningCount' = Concurrency
  <2>1. n = Len(q) => queue' = <<>>
    BY <1>1, <1>4
  <2> QED
    BY <1>3, <2>1
<1>16. waiting' \subseteq Waiters
  BY <1>3 DEF WaitersLeft
<1>17. waiting' # {} => queue' # <<>> \/ runningCount' > 0
  <2> HAVE waiting' # {}
  <2>1. Len(q) - n > 0 \/ runningCount' > 0
    BY <1>3 DEF WaitersLeft
  <2> QED
    BY <1>4, <2>1
<1> QED
  BY <1>14, <1>15, <1>16, <1>17

-----------------------------------------------------------------------------
\* The types of the variables that pump() does not touch.
OtherTypes ==
    /\ cancellable \in [Jobs -> BOOLEAN]
    /\ aborted \in [Jobs -> BOOLEAN]
    /\ outcome \in [Jobs -> {"none", "ok", "error"}]
    /\ disposed \in BOOLEAN
    /\ progress \in [Jobs -> 0..MaxProgress]
    /\ emitted \in [Jobs -> 0..MaxProgress]
    /\ throttled \in [Jobs -> BOOLEAN]
    /\ timer \in [Jobs -> BOOLEAN]

\* The converse of InvIsMidInv, for the state after a step.
LEMMA MidInvIsInv ==
  ASSUME ~disposed', OtherTypes',
         MidInv(queue', state', entries', task', runningCount', outcome', aborted'),
         queue' # <<>> => runningCount' = Concurrency,
         waiting' \subseteq Waiters,
         waiting' # {} => queue' # <<>> \/ runningCount' > 0
  PROVE  JobInv'
<1>1. \A j \in Jobs : JobOK(state'[j], task'[j], outcome'[j], aborted'[j])
  BY DEF MidInv
<1>2. TypeOK'
  BY DEF TypeOK, MidInv, OtherTypes
<1>3. StateMatchesTask' /\ TerminalMeansStopped' /\ ReleasedMeansTerminal' /\ CancelSticks'
  BY <1>1 DEF StateMatchesTask, TerminalMeansStopped, ReleasedMeansTerminal, CancelSticks, JobOK
<1>4. SubmittedInOrder' /\ QueueHoldsQueued'
  BY DEF SubmittedInOrder, QueueHoldsQueued, MidInv
<1>5. SlotAccounting'
  <2>1. /\ runningCount' = Cardinality({j \in Jobs : task'[j] \in InFlight})
        /\ runningCount' \in 0..Concurrency
    BY DEF MidInv
  <2> QED
    BY <2>1, JobManagerAssumption DEF SlotAccounting, Executing
<1>6. QueueWaitsForWorker' /\ NoLostWakeup'
  BY DEF QueueWaitsForWorker, NoLostWakeup
<1> QED
  BY <1>2, <1>3, <1>4, <1>5, <1>6 DEF JobInv

\* One step's share of StartInOrder.
InOrderStep ==
    \A i, j \in Jobs : i < j /\ task[j] = "none" /\ task'[j] = "scheduled" => state'[i] # "queued"

\* A job is started by pump() only when no earlier job is left queued.
LEMMA PumpStartsInOrder ==
  ASSUME NEW q, NEW st, NEW ent, NEW tk, NEW rc, NEW oc, NEW ab,
         MidInv(q, st, ent, tk, rc, oc, ab), pump(q, st, ent, tk, rc),
         NEW i \in Jobs, NEW j \in Jobs, i < j, tk[j] # "scheduled", task'[j] = "scheduled"
  PROVE  state'[i] # "queued"
<1>1. PICK n \in 0..Len(q) :
        /\ state' = [k \in Jobs |-> IF k \in Started(q, n, st, ent) THEN "running" ELSE st[k]]
        /\ task' = [k \in Jobs |-> IF k \in Started(q, n, st, ent) THEN "scheduled" ELSE tk[k]]
  BY DEF pump
<1>2. j \in Started(q, n, st, ent)
  BY <1>1
<1>3. SUFFICES ASSUME st[i] = "queued"
               PROVE  i \in Started(q, n, st, ent)
  BY <1>1
<1>4. PICK b \in 1..n : q[b] = j
  BY <1>2 DEF Started
<1>5. q \in Seq(Jobs) /\ i \in ent /\ \E a \in 1..Len(q) : q[a] = i
  BY <1>3 DEF MidInv
<1>6. PICK a \in 1..Len(q) : q[a] = i
  BY <1>5
<1>7. a < b
  <2>1. b \in 1..Len(q) /\ Len(q) \in Nat
    BY <1>4, <1>5
  <2>2. b < a => q[b] < q[a]
    BY <1>6, <2>1 DEF MidInv
  <2>3. ~(b < a) /\ a # b
    BY <1>4, <1>6, <2>2, JobManagerAssumption DEF Jobs
  <2> QED
    BY <1>6, <2>1, <2>3
<1>8. a \in 1..n
  BY <1>4, <1>7
<1> QED
  BY <1>3, <1>5, <1>6, <1>8 DEF Started

\* What pump() does to the reported states and the workers is what the abstract service calls
\* serving: free workers go to the oldest waiting jobs, and none stays free while a job waits.
Serves(st, tk) == Service!Serve(st, {j \in Jobs : tk[j] \in InFlight})

\* The service counts as the manager does.
LEMMA SameCount == \A S : Service!Cardinality(S) = Cardinality(S)
  BY DEF Service!Cardinality, Cardinality

\* pump() starts the oldest queued jobs, as many as there are free workers.
LEMMA PumpServes ==
  ASSUME NEW q, NEW st, NEW ent, NEW tk, NEW rc, NEW oc, NEW ab,
         MidInv(q, st, ent, tk, rc, oc, ab), pump(q, st, ent, tk, rc)
  PROVE  Serves(st, tk)
<1> DEFINE held == {j \in Jobs : tk[j] \in InFlight}
           waits == {j \in Jobs : st[j] = "queued"}
<1>1. q \in Seq(Jobs) /\ ent \subseteq Jobs /\ rc \in 0..Concurrency /\ rc = Cardinality(held)
  BY DEF MidInv
<1>2. PICK S \in SUBSET ent : PumpResult(S, q, st, ent, tk, rc)
  BY <1>1, PumpEffect
<1>3. /\ state' = [j \in Jobs |-> IF j \in S THEN "running" ELSE st[j]]
      /\ task' = [j \in Jobs |-> IF j \in S THEN "scheduled" ELSE tk[j]]
      /\ runningCount' = rc + Cardinality(S)
      /\ runningCount' \in 0..Concurrency
      /\ \A j \in S : st[j] = "queued"
  BY <1>2 DEF PumpResult
<1>4. PICK n \in 0..Len(q) : /\ S = Started(q, n, st, ent)
                             /\ n = Len(q) \/ runningCount' = Concurrency
  BY <1>2 DEF PumpResult
<1>5. S \in SUBSET waits
  BY <1>1, <1>3
<1>6. ASSUME NEW j \in waits \ S PROVE \E k \in (n + 1)..Len(q) : q[k] = j
  <2>1. j \in Jobs /\ st[j] = "queued"
    BY <1>6
  <2>2. j \in ent /\ \E k \in 1..Len(q) : q[k] = j
    BY <2>1 DEF MidInv
  <2>3. PICK k \in 1..Len(q) : q[k] = j
    BY <2>2
  <2>4. k \notin 1..n
    BY <1>4, <1>6, <2>1, <2>2, <2>3 DEF Started
  <2> QED
    BY <1>1, <2>3, <2>4
<1>7. ASSUME NEW i \in S, NEW j \in waits \ S PROVE i < j
  <2>1. PICK a \in 1..n : q[a] = i
    BY <1>4 DEF Started
  <2>2. PICK b \in (n + 1)..Len(q) : q[b] = j
    BY <1>6
  <2>3. a \in 1..Len(q) /\ b \in 1..Len(q) /\ a < b
    BY <1>1, <2>1, <2>2
  <2> QED
    BY <2>1, <2>2, <2>3 DEF MidInv
<1>8. Cardinality(held) + Cardinality(S) <= Concurrency
  BY <1>1, <1>3, JobManagerAssumption
<1>9. Cardinality(held) + Cardinality(S) = Concurrency \/ S = waits
  <2>1. CASE runningCount' = Concurrency
    BY <1>1, <1>3, <2>1
  <2>2. CASE n = Len(q)
    <3>1. \A j \in waits \ S : FALSE
      BY <1>1, <1>6, <2>2
    <3> QED
      BY <1>5, <3>1
  <2> QED
    BY <1>4, <2>1, <2>2
<1>10. Executing' = held \cup S
  <2>1. \A j \in Jobs : task'[j] = IF j \in S THEN "scheduled" ELSE tk[j]
    BY <1>3
  <2>2. S \subseteq Jobs
    BY <1>1
  <2> QED
    BY <2>1, <2>2 DEF Executing, InFlight
<1> HIDE DEF held, waits
<1>11. \E T \in SUBSET waits :
         /\ \A i \in T, j \in waits \ T : i < j
         /\ Cardinality(held) + Cardinality(T) <= Concurrency
         /\ Cardinality(held) + Cardinality(T) = Concurrency \/ T = waits
         /\ state' = [j \in Jobs |-> IF j \in T THEN "running" ELSE st[j]]
         /\ Executing' = held \cup T
  BY <1>3, <1>5, <1>7, <1>8, <1>9, <1>10
<1> QED
  BY <1>11, SameCount DEF Serves, Service!Serve, held, waits

\* A method that assigns st, ent, tk, rc and the abort flags and then pumps
\* preserves the invariant if what it assigned satisfies the mid invariant.
LEMMA PumpingStep ==
  ASSUME JobInv, ~disposed, ~disposed', OtherTypes',
         NEW q, NEW st, NEW tk, NEW rc,
         MidInv(q, st, entries', tk, rc, outcome', aborted'),
         pump(q, st, entries', tk, rc),
         \A j \in Jobs : task[j] = "none" => tk[j] = "none"
  PROVE  JobInv' /\ InOrderStep /\ Serves(st, tk)
<1>1. waiting \subseteq Waiters
  BY DEF JobInv, TypeOK
<1>2. /\ MidInv(queue', state', entries', task', runningCount', outcome', aborted')
      /\ queue' # <<>> => runningCount' = Concurrency
      /\ waiting' \subseteq Waiters
      /\ waiting' # {} => queue' # <<>> \/ runningCount' > 0
  BY <1>1, PumpEstablishesInv
<1>3. InOrderStep
  BY PumpStartsInOrder DEF InOrderStep
<1>4. Serves(st, tk)
  BY PumpServes
<1> QED
  BY <1>2, <1>3, <1>4, MidInvIsInv

\* The types of what pump() does not touch.
LEMMA InvOtherTypes == JobInv => OtherTypes
  BY DEF JobInv, TypeOK, OtherTypes

\* submit() keeps the invariant: the new id is the largest, at the end of the queue.
LEMMA SubmitKeepsInv ==
  ASSUME JobInv, NEW j \in Jobs, NEW c \in BOOLEAN, Submit(j, c)
  PROVE  JobInv' /\ InOrderStep /\ Serves([state EXCEPT ![j] = "queued"], task)
<1> DEFINE q == Append(queue, j)
           st == [state EXCEPT ![j] = "queued"]
<1>1. /\ ~disposed /\ ~disposed' /\ state[j] = "none"
      /\ \A i \in 1..(j - 1) : state[i] # "none"
      /\ entries' = entries \cup {j}
      /\ pump(q, st, entries', task, runningCount)
      /\ outcome' = outcome /\ aborted' = aborted
  BY DEF Submit
<1>2. OtherTypes'
  BY InvOtherTypes DEF Submit, OtherTypes, progressVars
<1>3. MidInv(queue, state, entries, task, runningCount, outcome, aborted)
  BY <1>1, InvIsMidInv
<1>4. state \in [Jobs -> JobState \cup {"none"}] /\ queue \in Seq(Jobs)
  BY <1>3 DEF MidInv
<1>5. /\ q \in Seq(Jobs) /\ Len(q) = Len(queue) + 1 /\ q[Len(queue) + 1] = j
      /\ \A k \in 1..Len(queue) : q[k] = queue[k] /\ queue[k] \in Jobs
  BY <1>4
<1>6. st \in [Jobs -> JobState \cup {"none"}] /\ st[j] = "queued" /\ \A i \in Jobs \ {j} : st[i] = state[i]
  BY <1>4 DEF JobState
<1>7. \A i \in Jobs : JobOK(st[i], task[i], outcome[i], aborted[i])
  <2> TAKE i \in Jobs
  <2>1. JobOK(state[i], task[i], outcome[i], aborted[i])
    BY <1>3 DEF MidInv
  <2>2. CASE i = j
    BY <1>1, <1>6, <2>1, <2>2 DEF JobOK, InFlight, Active, Terminal
  <2>3. CASE i # j
    BY <1>6, <2>1, <2>3
  <2> QED
    BY <2>2, <2>3
<1>8. \A i, k \in Jobs : i < k /\ st[k] # "none" => st[i] # "none"
  <2> TAKE i, k \in Jobs
  <2> HAVE i < k /\ st[k] # "none"
  <2>1. CASE k = j
    <3>1. i \in 1..(j - 1)
      BY <2>1, JobManagerAssumption DEF Jobs
    <3> QED
      BY <1>1, <1>6, <3>1
  <2>2. CASE k # j
    BY <1>3, <1>6, <2>2 DEF MidInv
  <2> QED
    BY <2>1, <2>2
<1>9. \A k \in 1..Len(queue) : queue[k] < j
  <2> TAKE k \in 1..Len(queue)
  <2>1. queue[k] \in Jobs /\ state[queue[k]] # "none"
    BY <1>3, <1>5 DEF MidInv
  <2>2. queue[k] # j /\ ~(j < queue[k])
    BY <1>1, <1>3, <2>1 DEF MidInv
  <2> QED
    BY <2>1, <2>2, JobManagerAssumption DEF Jobs
<1>10. \A a, b \in 1..Len(q) : a < b => q[a] < q[b]
  <2> TAKE a, b \in 1..Len(q)
  <2> HAVE a < b
  <2>1. a \in 1..Len(queue)
    BY <1>4, <1>5
  <2>2. CASE b = Len(queue) + 1
    BY <1>5, <1>9, <2>1, <2>2
  <2>3. CASE b # Len(queue) + 1
    <3>1. b \in 1..Len(queue)
      BY <1>4, <1>5, <2>3
    <3> QED
      BY <1>3, <1>5, <2>1, <3>1 DEF MidInv
  <2> QED
    BY <2>2, <2>3
<1>11. \A k \in 1..Len(q) : st[q[k]] # "none"
  <2> TAKE k \in 1..Len(q)
  <2>1. CASE k = Len(queue) + 1
    BY <1>5, <1>6, <2>1
  <2>2. CASE k # Len(queue) + 1
    <3>1. k \in 1..Len(queue)
      BY <1>4, <1>5, <2>2
    <3>2. q[k] = queue[k] /\ queue[k] \in Jobs \ {j} /\ state[queue[k]] # "none"
      BY <1>1, <1>3, <1>5, <3>1 DEF MidInv
    <3> QED
      BY <1>6, <3>2
  <2> QED
    BY <2>1, <2>2
<1>12. \A i \in Jobs : st[i] = "queued" => i \in entries' /\ \E k \in 1..Len(q) : q[k] = i
  <2> TAKE i \in Jobs
  <2> HAVE st[i] = "queued"
  <2>1. CASE i = j
    <3>1. Len(queue) + 1 \in 1..Len(q)
      BY <1>4, <1>5
    <3> QED
      BY <1>1, <1>5, <2>1, <3>1
  <2>2. CASE i # j
    <3>1. i \in entries /\ \E k \in 1..Len(queue) : queue[k] = i
      BY <1>3, <1>6, <2>2 DEF MidInv
    <3>2. PICK k \in 1..Len(queue) : queue[k] = i
      BY <3>1
    <3>3. k \in 1..Len(q) /\ q[k] = i
      BY <1>4, <1>5, <3>2
    <3> QED
      BY <1>1, <3>1, <3>3
  <2> QED
    BY <2>1, <2>2
<1> HIDE DEF q, st
<1>13. MidInv(q, st, entries', task, runningCount, outcome', aborted')
  <2>1. entries' \subseteq Jobs
    BY <1>1, <1>3 DEF MidInv
  <2>2. task \in [Jobs -> TaskPhase] /\ runningCount \in 0..Concurrency
        /\ runningCount = Cardinality({i \in Jobs : task[i] \in InFlight})
    BY <1>3 DEF MidInv
  <2> QED
    BY <1>1, <1>5, <1>6, <1>7, <1>8, <1>10, <1>11, <1>12, <2>1, <2>2 DEF MidInv
<1> QED
  BY <1>1, <1>2, <1>13, PumpingStep DEF st

\* cancel() of a queued job keeps the invariant; its id may stay in the queue.
LEMMA CancelQueuedKeepsInv ==
  ASSUME JobInv, NEW j \in Jobs, CancelQueued(j)
  PROVE  JobInv' /\ InOrderStep /\ Serves([state EXCEPT ![j] = "cancelled"], task)
<1> DEFINE st == [state EXCEPT ![j] = "cancelled"]
<1>1. /\ j \in entries /\ state[j] = "queued"
      /\ pump(queue, st, entries, task, runningCount)
      /\ aborted' = [aborted EXCEPT ![j] = TRUE]
      /\ outcome' = outcome /\ entries' = entries /\ disposed' = disposed
  BY DEF CancelQueued, MayCancel
<1>2. ~disposed /\ ~disposed'
  BY <1>1 DEF JobInv, SubmittedInOrder
<1>3. MidInv(queue, state, entries, task, runningCount, outcome, aborted) /\ OtherTypes
  BY <1>2, InvIsMidInv, InvOtherTypes
<1>4. OtherTypes'
  BY <1>3 DEF CancelQueued, OtherTypes
<1>5. /\ st \in [Jobs -> JobState \cup {"none"}]
      /\ st[j] = "cancelled" /\ aborted'[j] = TRUE
      /\ \A i \in Jobs \ {j} : st[i] = state[i] /\ aborted'[i] = aborted[i]
  BY <1>1, <1>3 DEF MidInv, JobState, OtherTypes
<1>6. \A i \in Jobs : JobOK(st[i], task[i], outcome[i], aborted'[i])
  <2> TAKE i \in Jobs
  <2>1. JobOK(state[i], task[i], outcome[i], aborted[i])
    BY <1>3 DEF MidInv
  <2>2. CASE i = j
    BY <1>1, <1>5, <2>1, <2>2 DEF JobOK, InFlight, Active, Terminal
  <2>3. CASE i # j
    BY <1>5, <2>1, <2>3
  <2> QED
    BY <2>2, <2>3
<1>7. \A i \in Jobs : st[i] = "none" <=> state[i] = "none"
  BY <1>1, <1>5
<1>8. \A i \in Jobs : st[i] = "queued" => state[i] = "queued"
  BY <1>5
<1>9. \A k \in 1..Len(queue) : queue[k] \in Jobs
  BY <1>3 DEF MidInv
<1> HIDE DEF st
<1>10. MidInv(queue, st, entries', task, runningCount, outcome', aborted')
  BY <1>1, <1>3, <1>5, <1>6, <1>7, <1>8, <1>9 DEF MidInv
<1> QED
  BY <1>1, <1>2, <1>4, <1>10, PumpingStep DEF st

\* The end of execute() keeps the invariant: one slot is released and refilled.
LEMMA FinishKeepsInv ==
  ASSUME JobInv, NEW j \in Jobs, Finish(j), ~disposed
  PROVE  /\ JobInv' /\ InOrderStep
         /\ Serves([state EXCEPT ![j] = EndState(j)], [task EXCEPT ![j] = "released"])
<1> DEFINE st == [state EXCEPT ![j] = EndState(j)]
           tk == [task EXCEPT ![j] = "released"]
           rc == IF runningCount > 0 THEN runningCount - 1 ELSE 0
<1>1. /\ task[j] = "settled"
      /\ pump(queue, st, entries, tk, rc)
      /\ aborted' = aborted /\ outcome' = outcome /\ entries' = entries /\ ~disposed'
  BY DEF Finish
<1>2. MidInv(queue, state, entries, task, runningCount, outcome, aborted) /\ OtherTypes
  BY InvIsMidInv, InvOtherTypes
<1>3. OtherTypes'
  BY <1>2 DEF Finish, OtherTypes
<1>4. JobOK(state[j], task[j], outcome[j], aborted[j])
  BY <1>2 DEF MidInv
<1>5. state[j] \in Active /\ outcome[j] \in {"ok", "error"}
  BY <1>1, <1>2, <1>4 DEF JobOK, InFlight, OtherTypes
<1>6. /\ EndState(j) \in Terminal
      /\ EndState(j) = "completed" => outcome[j] = "ok" /\ state[j] = "running"
      /\ EndState(j) = "failed" => outcome[j] = "error" /\ state[j] = "running"
  BY <1>5 DEF EndState, Terminal, Active
<1>7. /\ st \in [Jobs -> JobState \cup {"none"}] /\ tk \in [Jobs -> TaskPhase]
      /\ st[j] = EndState(j) /\ tk[j] = "released"
      /\ \A i \in Jobs \ {j} : st[i] = state[i] /\ tk[i] = task[i]
  BY <1>2, <1>6 DEF MidInv, JobState, TaskPhase, Terminal
<1>8. \A i \in Jobs : JobOK(st[i], tk[i], outcome[i], aborted[i])
  <2> TAKE i \in Jobs
  <2>1. JobOK(state[i], task[i], outcome[i], aborted[i])
    BY <1>2 DEF MidInv
  <2>2. CASE i = j
    <3>1. aborted[j] => EndState(j) = "cancelled"
      BY <1>4, <1>5, <1>6 DEF JobOK, Active, Terminal
    <3> HIDE DEF st, tk
    <3> QED
      BY <1>6, <1>7, <2>2, <3>1 DEF JobOK, InFlight, Active, Terminal
  <2>3. CASE i # j
    BY <1>7, <2>1, <2>3
  <2> QED
    BY <2>2, <2>3
<1>9. rc \in 0..Concurrency /\ rc = Cardinality({i \in Jobs : tk[i] \in InFlight})
  <2> DEFINE E == {i \in Jobs : task[i] \in InFlight}
             F == {i \in Jobs : tk[i] \in InFlight}
  <2>1. F = E \ {j}
    BY <1>7 DEF InFlight
  <2>2. j \in E
    BY <1>1 DEF InFlight
  <2>3. IsFiniteSet(E) /\ Cardinality(E) \in Nat
    BY JobsFinite
  <2>4. runningCount = Cardinality(E) /\ runningCount \in 0..Concurrency
    BY <1>2 DEF MidInv
  <2> HIDE DEF E, F
  <2>5. Cardinality(E) # 0
    BY <2>2, <2>3, FS_EmptySet
  <2>6. Cardinality(F) = Cardinality(E) - 1
    BY <2>1, <2>2, <2>3, FS_RemoveElement
  <2>7. rc = Cardinality(F) /\ rc \in 0..Concurrency
    BY <2>3, <2>4, <2>5, <2>6, JobManagerAssumption
  <2> QED
    BY <2>7 DEF F
<1>10. \A i \in Jobs : st[i] = "none" <=> state[i] = "none"
  BY <1>5, <1>6, <1>7 DEF Terminal, Active
<1>11. \A i \in Jobs : st[i] = "queued" => state[i] = "queued"
  BY <1>6, <1>7 DEF Terminal
<1>12. \A k \in 1..Len(queue) : queue[k] \in Jobs
  BY <1>2 DEF MidInv
<1> HIDE DEF st, tk, rc
<1>13. MidInv(queue, st, entries', tk, rc, outcome', aborted')
  BY <1>1, <1>2, <1>7, <1>8, <1>9, <1>10, <1>11, <1>12 DEF MidInv
<1>14. \A i \in Jobs : task[i] = "none" => tk[i] = "none"
  BY <1>1, <1>7
<1> QED
  BY <1>1, <1>3, <1>13, <1>14, PumpingStep DEF st, tk

\* Once disposed, nothing but the executions in flight moves.
LEMMA DisposedFinishKeepsInv ==
  ASSUME JobInv, NEW j \in Jobs, Finish(j), disposed
  PROVE  JobInv'
<1>1. /\ task[j] = "settled" /\ task' = [task EXCEPT ![j] = "released"]
      /\ state' = [state EXCEPT ![j] = EndState(j)]
      /\ runningCount' = IF runningCount > 0 THEN runningCount - 1 ELSE 0
      /\ UNCHANGED <<queue, waiting, entries, cancellable, aborted, outcome, disposed,
                     progress, throttled, emitted>>
      /\ timer' = [timer EXCEPT ![j] = FALSE]
  BY DEF Finish
<1>2. EndState(j) = state[j]
  BY DEF EndState
<1>3. state' = state
  BY <1>1, <1>2 DEF JobInv, TypeOK
<1>4. TypeOK'
  BY <1>1, <1>3, JobManagerAssumption DEF JobInv, TypeOK, TaskPhase
<1>5. runningCount' = Cardinality(Executing')
  <2>1. Executing' = Executing \ {j} /\ j \in Executing /\ Executing \subseteq Jobs
    BY <1>1 DEF Executing, InFlight, JobInv, TypeOK
  <2>2. IsFiniteSet(Executing) /\ Cardinality(Executing) \in Nat
    BY <2>1, JobsFinite
  <2>3. Cardinality(Executing) # 0
    BY <2>1, <2>2, FS_EmptySet
  <2>4. Cardinality(Executing') = Cardinality(Executing) - 1
    BY <2>1, <2>2, FS_RemoveElement
  <2> QED
    BY <1>1, <2>2, <2>3, <2>4 DEF JobInv, SlotAccounting
<1>6. SlotAccounting' /\ QueueWaitsForWorker'
  BY <1>1, <1>4, <1>5, JobManagerAssumption
     DEF SlotAccounting, QueueWaitsForWorker, JobInv, SubmittedInOrder, TypeOK
<1>7. StateMatchesTask' /\ TerminalMeansStopped'
  BY <1>1, <1>3 DEF JobInv, TypeOK, StateMatchesTask, TerminalMeansStopped, InFlight, Active, Terminal
<1>8. SubmittedInOrder' /\ QueueHoldsQueued' /\ ReleasedMeansTerminal' /\ CancelSticks' /\ NoLostWakeup'
  BY <1>1, <1>3 DEF JobInv, SubmittedInOrder, QueueHoldsQueued, ReleasedMeansTerminal,
                    CancelSticks, NoLostWakeup
<1> QED
  BY <1>4, <1>6, <1>7, <1>8 DEF JobInv

\* The steps of execute() before its last await move a job from one in-flight
\* phase to the next and touch nothing else but the outcome.
LEMMA AdvanceKeepsInv ==
  ASSUME JobInv, NEW j \in Jobs, NEW next \in {"working", "finished", "settled"},
         NEW o \in {"none", "ok", "error"},
         task[j] \in InFlight, task' = [task EXCEPT ![j] = next],
         outcome' = [outcome EXCEPT ![j] = o],
         next \in {"finished", "settled"} => o # "none",
         UNCHANGED <<entries, state, cancellable, aborted, poolVars, progressVars>>
  PROVE  JobInv'
<1>1. TypeOK'
  BY DEF JobInv, TypeOK, TaskPhase, poolVars, progressVars
<1>2. Executing' = Executing
  BY DEF Executing, InFlight, JobInv, TypeOK
<1>3. SlotAccounting' /\ QueueWaitsForWorker'
  BY <1>2 DEF SlotAccounting, QueueWaitsForWorker, JobInv, poolVars
<1>4. StateMatchesTask' /\ TerminalMeansStopped' /\ ReleasedMeansTerminal'
  BY DEF JobInv, TypeOK, StateMatchesTask, TerminalMeansStopped, ReleasedMeansTerminal,
         InFlight, Active, Terminal, poolVars
<1>5. SubmittedInOrder' /\ QueueHoldsQueued' /\ CancelSticks' /\ NoLostWakeup'
  BY DEF JobInv, SubmittedInOrder, QueueHoldsQueued, CancelSticks, NoLostWakeup, poolVars
<1> QED
  BY <1>1, <1>3, <1>4, <1>5 DEF JobInv

\* Every continuation of execute() keeps the invariant.
LEMMA MicrotaskKeepsInv ==
  ASSUME JobInv, NEW j \in Jobs, Microtask(j)
  PROVE  JobInv'
<1>1. CASE StartExecutor(j)
  <2>1. outcome' = [outcome EXCEPT ![j] = outcome[j]] /\ outcome[j] \in {"none", "ok", "error"}
    BY <1>1 DEF StartExecutor, JobInv, TypeOK
  <2> QED
    BY <1>1, <2>1, AdvanceKeepsInv DEF StartExecutor, InFlight
<1>2. CASE MarkSettled(j)
  <2>1. outcome' = [outcome EXCEPT ![j] = outcome[j]] /\ outcome[j] \in {"none", "ok", "error"}
    BY <1>2 DEF MarkSettled, JobInv, TypeOK
  <2>2. outcome[j] # "none"
    BY <1>2 DEF MarkSettled, JobInv, StateMatchesTask
  <2> QED
    BY <1>2, <2>1, <2>2, AdvanceKeepsInv DEF MarkSettled, InFlight
<1>3. CASE Finish(j)
  BY <1>3, FinishKeepsInv, DisposedFinishKeepsInv
<1> QED
  BY <1>1, <1>2, <1>3 DEF Microtask

\* cancel() of a running job keeps the invariant: the slot stays taken.
LEMMA CancelRunningKeepsInv ==
  ASSUME JobInv, NEW j \in Jobs, CancelRunning(j)
  PROVE  JobInv'
<1>1. TypeOK'
  BY DEF CancelRunning, JobInv, TypeOK, JobState, poolVars
<1>2. SlotAccounting' /\ QueueWaitsForWorker' /\ NoLostWakeup'
  BY DEF CancelRunning, JobInv, SlotAccounting, Executing, QueueWaitsForWorker, NoLostWakeup, poolVars
<1>3. StateMatchesTask' /\ TerminalMeansStopped' /\ ReleasedMeansTerminal' /\ CancelSticks'
  BY DEF CancelRunning, JobInv, TypeOK, StateMatchesTask, TerminalMeansStopped,
         ReleasedMeansTerminal, CancelSticks, InFlight, Active, Terminal, poolVars
<1>4. SubmittedInOrder' /\ QueueHoldsQueued'
  BY DEF CancelRunning, JobInv, TypeOK, SubmittedInOrder, QueueHoldsQueued, poolVars
<1> QED
  BY <1>1, <1>2, <1>3, <1>4 DEF JobInv

\* The invariant says nothing about progress but its type.
LEMMA ProgressKeepsInv ==
  ASSUME JobInv, UNCHANGED <<jobVars, poolVars>>, OtherTypes'
  PROVE  JobInv'
<1>1. TypeOK'
  BY DEF JobInv, TypeOK, OtherTypes, jobVars, poolVars
<1>2. /\ StateMatchesTask' /\ SubmittedInOrder' /\ QueueWaitsForWorker' /\ SlotAccounting'
      /\ QueueHoldsQueued' /\ NoLostWakeup' /\ TerminalMeansStopped' /\ ReleasedMeansTerminal'
      /\ CancelSticks'
  BY DEF JobInv, StateMatchesTask, SubmittedInOrder, QueueWaitsForWorker, SlotAccounting, Executing,
         QueueHoldsQueued, NoLostWakeup, TerminalMeansStopped, ReleasedMeansTerminal, CancelSticks,
         jobVars, poolVars
<1> QED
  BY <1>1, <1>2 DEF JobInv

\* Progress, throttling and its timer keep the types.
LEMMA ProgressTypes ==
  ASSUME JobInv, NEW j \in Jobs, ReportProgress(j) \/ ThrottleElapses(j) \/ ProgressTimer(j)
  PROVE  OtherTypes' /\ UNCHANGED <<jobVars, poolVars>>
<1>1. OtherTypes
  BY InvOtherTypes
<1>2. CASE ReportProgress(j)
  <2>1. progress[j] + 1 \in 0..MaxProgress
    BY <1>1, <1>2, JobManagerAssumption DEF ReportProgress, OtherTypes
  <2> QED
    BY <1>1, <1>2, <2>1 DEF ReportProgress, OtherTypes, jobVars, poolVars
<1>3. CASE ThrottleElapses(j)
  BY <1>1, <1>3 DEF ThrottleElapses, OtherTypes, jobVars, poolVars
<1>4. CASE ProgressTimer(j)
  BY <1>1, <1>4 DEF ProgressTimer, OtherTypes, jobVars, poolVars
<1> QED
  BY <1>2, <1>3, <1>4

\* whenIdle() keeps the invariant: it waits only while there is work.
LEMMA WhenIdleKeepsInv ==
  ASSUME JobInv, NEW w \in Waiters, WhenIdle(w)
  PROVE  JobInv'
<1>1. TypeOK'
  BY DEF WhenIdle, JobInv, TypeOK, jobVars, progressVars
<1>2. /\ StateMatchesTask' /\ SubmittedInOrder' /\ QueueWaitsForWorker' /\ SlotAccounting'
      /\ QueueHoldsQueued' /\ NoLostWakeup' /\ TerminalMeansStopped' /\ ReleasedMeansTerminal'
      /\ CancelSticks'
  BY DEF WhenIdle, JobInv, StateMatchesTask, SubmittedInOrder, QueueWaitsForWorker, SlotAccounting,
         Executing, QueueHoldsQueued, NoLostWakeup, TerminalMeansStopped, ReleasedMeansTerminal,
         CancelSticks, jobVars
<1> QED
  BY <1>1, <1>2 DEF JobInv

\* The retention sweep keeps the invariant: it drops only terminal jobs.
LEMMA CleanupKeepsInv ==
  ASSUME JobInv, NEW old \in SUBSET entries, Cleanup(old)
  PROVE  JobInv'
<1>1. TypeOK'
  BY DEF Cleanup, JobInv, TypeOK, poolVars
<1>2. SubmittedInOrder'
  BY DEF Cleanup, JobInv, SubmittedInOrder, Terminal, poolVars
<1>3. /\ StateMatchesTask' /\ QueueWaitsForWorker' /\ SlotAccounting'
      /\ QueueHoldsQueued' /\ NoLostWakeup' /\ TerminalMeansStopped' /\ ReleasedMeansTerminal'
      /\ CancelSticks'
  BY DEF Cleanup, JobInv, StateMatchesTask, QueueWaitsForWorker, SlotAccounting,
         Executing, QueueHoldsQueued, NoLostWakeup, TerminalMeansStopped, ReleasedMeansTerminal,
         CancelSticks, poolVars
<1> QED
  BY <1>1, <1>2, <1>3 DEF JobInv

\* dispose() keeps the invariant.
LEMMA DisposeKeepsInv ==
  ASSUME JobInv, Dispose
  PROVE  JobInv'
<1>1. TypeOK'
  BY DEF Dispose, JobInv, TypeOK
<1>2. SubmittedInOrder' /\ QueueHoldsQueued' /\ QueueWaitsForWorker' /\ NoLostWakeup'
  BY DEF Dispose, JobInv, SubmittedInOrder, QueueHoldsQueued, QueueWaitsForWorker, NoLostWakeup
<1>3. /\ StateMatchesTask' /\ SlotAccounting' /\ TerminalMeansStopped' /\ ReleasedMeansTerminal'
      /\ CancelSticks'
  BY DEF Dispose, JobInv, StateMatchesTask, SlotAccounting, Executing, TerminalMeansStopped,
         ReleasedMeansTerminal, CancelSticks
<1> QED
  BY <1>1, <1>2, <1>3 DEF JobInv

-----------------------------------------------------------------------------

\* The empty manager satisfies the invariant.
LEMMA InitInv == Init => JobInv
<1> SUFFICES ASSUME Init PROVE JobInv
  OBVIOUS
<1>1. TypeOK
  <2>1. queue \in Seq(Jobs) /\ runningCount \in 0..Concurrency
    BY JobManagerAssumption DEF Init
  <2>2. progress \in [Jobs -> 0..MaxProgress] /\ emitted \in [Jobs -> 0..MaxProgress]
    BY JobManagerAssumption DEF Init
  <2> QED
    BY <2>1, <2>2 DEF Init, TypeOK, TaskPhase
<1>2. SlotAccounting
  <2>1. Executing = {}
    BY DEF Init, Executing, InFlight
  <2> QED
    BY <2>1, FS_EmptySet, JobManagerAssumption DEF Init, SlotAccounting
<1>3. /\ StateMatchesTask /\ SubmittedInOrder /\ QueueWaitsForWorker
      /\ QueueHoldsQueued /\ NoLostWakeup /\ TerminalMeansStopped /\ ReleasedMeansTerminal
      /\ CancelSticks
  BY DEF Init, StateMatchesTask, SubmittedInOrder, QueueWaitsForWorker, QueueHoldsQueued,
         NoLostWakeup, TerminalMeansStopped, ReleasedMeansTerminal, CancelSticks,
         InFlight, Active, Terminal
<1> QED
  BY <1>1, <1>2, <1>3 DEF JobInv

\* Every step keeps the invariant.
LEMMA NextKeepsInv == JobInv /\ [Next]_vars => JobInv'
<1> SUFFICES ASSUME JobInv, [Next]_vars PROVE JobInv'
  OBVIOUS
<1>1. ASSUME NEW j \in Jobs, NEW c \in BOOLEAN, Submit(j, c) PROVE JobInv'
  BY <1>1, SubmitKeepsInv
<1>2. ASSUME NEW j \in Jobs, CancelQueued(j) PROVE JobInv'
  BY <1>2, CancelQueuedKeepsInv
<1>3. ASSUME NEW j \in Jobs, CancelRunning(j) PROVE JobInv'
  BY <1>3, CancelRunningKeepsInv
<1>4. ASSUME NEW j \in Jobs, Microtask(j) PROVE JobInv'
  BY <1>4, MicrotaskKeepsInv
<1>5. ASSUME NEW j \in Jobs, NEW o \in {"ok", "error"}, ExecutorSettles(j, o) PROVE JobInv'
  BY <1>5, AdvanceKeepsInv DEF ExecutorSettles, InFlight
<1>6. ASSUME NEW j \in Jobs, ReportProgress(j) \/ ThrottleElapses(j) \/ ProgressTimer(j)
      PROVE  JobInv'
  BY <1>6, ProgressTypes, ProgressKeepsInv
<1>7. ASSUME NEW w \in Waiters, WhenIdle(w) PROVE JobInv'
  BY <1>7, WhenIdleKeepsInv
<1>8. ASSUME NEW old \in SUBSET entries, Cleanup(old) PROVE JobInv'
  BY <1>8, CleanupKeepsInv
<1>9. CASE Dispose
  BY <1>9, DisposeKeepsInv
<1>10. CASE UNCHANGED vars
  <2>1. UNCHANGED <<jobVars, poolVars>>
    BY <1>10 DEF vars
  <2>2. OtherTypes'
    BY <1>10, InvOtherTypes DEF vars, jobVars, poolVars, progressVars, OtherTypes
  <2> QED
    BY <2>1, <2>2, ProgressKeepsInv
<1> QED
  BY <1>1, <1>2, <1>3, <1>4, <1>5, <1>6, <1>7, <1>8, <1>9, <1>10 DEF Next

\* The inductive invariant holds in every reachable state.
THEOREM JobInvariant == Spec => []JobInv
  BY InitInv, NextKeepsInv, PTL DEF Spec

\* Type correctness, for every number of jobs and every concurrency limit.
THEOREM TypeCorrect == Spec => []TypeOK
<1>1. JobInv => TypeOK
  BY DEF JobInv
<1> QED
  BY <1>1, JobInvariant, PTL

\* submit(), cancel(), dispose() and every way out of execute() keep the count
\* of busy workers exact and within the limit.
THEOREM SlotsAreAccounted == Spec => []SlotAccounting
<1>1. JobInv => SlotAccounting
  BY DEF JobInv
<1> QED
  BY <1>1, JobInvariant, PTL

\* A queued job waits only because all workers are taken.
THEOREM NoJobWaitsForNothing == Spec => []WorkConserving
<1>1. JobInv => WorkConserving
  BY DEF JobInv, WorkConserving, QueueWaitsForWorker, QueueHoldsQueued, TypeOK
<1> QED
  BY <1>1, JobInvariant, PTL

\* The queue holds every queued job once, in submission order.
THEOREM QueueIsComplete == Spec => []QueueHoldsQueued
<1>1. JobInv => QueueHoldsQueued
  BY DEF JobInv
<1> QED
  BY <1>1, JobInvariant, PTL

\* whenIdle() never misses the moment the manager becomes idle.
THEOREM WakeupsAreNotLost == Spec => []NoLostWakeup
<1>1. JobInv => NoLostWakeup
  BY DEF JobInv
<1> QED
  BY <1>1, JobInvariant, PTL

\* A job reported as ended has no executor running, and an executor that has
\* ended leaves its job ended.
THEOREM TerminalIsTruthful == Spec => [](TerminalMeansStopped /\ ReleasedMeansTerminal)
<1>1. JobInv => TerminalMeansStopped /\ ReleasedMeansTerminal
  BY DEF JobInv
<1> QED
  BY <1>1, JobInvariant, PTL

\* An accepted cancellation is final whatever the executor does afterwards.
THEOREM CancellationIsFinal == Spec => []CancelSticks
<1>1. JobInv => CancelSticks
  BY DEF JobInv
<1> QED
  BY <1>1, JobInvariant, PTL

-----------------------------------------------------------------------------
\* One step of a job's state.
LegalStep(j) == state[j] # "none" /\ state'[j] # state[j] => canTransitionJob(state[j], state'[j])

\* pump() only takes jobs from queued to running.
LEMMA PumpTransitions ==
  ASSUME NEW q, NEW st, NEW ent, NEW tk, NEW rc, pump(q, st, ent, tk, rc), NEW j \in Jobs
  PROVE  state'[j] = st[j] \/ (st[j] = "queued" /\ state'[j] = "running")
  BY DEF pump, Started

\* Every step changes job states along the transitions table.
LEMMA StepsAreLegal ==
  ASSUME JobInv, [Next]_vars, NEW j \in Jobs
  PROVE  LegalStep(j)
<1> USE DEF LegalStep, canTransitionJob
<1>1. CASE UNCHANGED state
  BY <1>1
<1>2. ASSUME NEW i \in Jobs, NEW c \in BOOLEAN, Submit(i, c) PROVE LegalStep(j)
  <2> DEFINE st == [state EXCEPT ![i] = "queued"]
  <2>1. state[i] = "none" /\ (state'[j] = st[j] \/ (st[j] = "queued" /\ state'[j] = "running"))
    BY <1>2, PumpTransitions DEF Submit
  <2>2. j # i => st[j] = state[j]
    BY DEF JobInv, TypeOK
  <2> QED
    BY <2>1, <2>2
<1>3. ASSUME NEW i \in Jobs, CancelQueued(i) PROVE LegalStep(j)
  <2> DEFINE st == [state EXCEPT ![i] = "cancelled"]
  <2>1. state[i] = "queued" /\ (state'[j] = st[j] \/ (st[j] = "queued" /\ state'[j] = "running"))
    BY <1>3, PumpTransitions DEF CancelQueued
  <2>2. /\ j # i => st[j] = state[j]
        /\ j = i => st[j] = "cancelled"
    BY DEF JobInv, TypeOK
  <2> QED
    BY <2>1, <2>2
<1>4. ASSUME NEW i \in Jobs, CancelRunning(i) PROVE LegalStep(j)
  BY <1>4 DEF CancelRunning, JobInv, TypeOK
<1>5. ASSUME NEW i \in Jobs, Finish(i) PROVE LegalStep(j)
  <2> DEFINE st == [state EXCEPT ![i] = EndState(i)]
  <2>1. state'[j] = st[j] \/ (st[j] = "queued" /\ state'[j] = "running")
    BY <1>5, PumpTransitions DEF Finish
  <2>2. /\ j # i => st[j] = state[j]
        /\ j = i => st[j] = EndState(i)
    BY DEF JobInv, TypeOK
  <2>3. state[i] \in Active /\ outcome[i] \in {"ok", "error"}
    BY <1>5 DEF Finish, JobInv, StateMatchesTask, InFlight, TypeOK
  <2>4. EndState(i) = state[i] \/ canTransitionJob(state[i], EndState(i))
    BY <2>3 DEF EndState, Active
  <2>5. EndState(i) # "queued"
    BY <2>3 DEF EndState, Active
  <2> QED
    BY <2>1, <2>2, <2>4, <2>5
<1>6. ASSUME NEW i \in Jobs, Microtask(i) PROVE LegalStep(j)
  BY <1>1, <1>5, <1>6 DEF Microtask, StartExecutor, MarkSettled
<1> QED
  BY <1>1, <1>2, <1>3, <1>4, <1>6
     DEF Next, ExecutorSettles, ReportProgress, ThrottleElapses, ProgressTimer, WhenIdle, Cleanup,
         Dispose, vars, jobVars

\* assertJobTransition() never throws.
THEOREM TransitionsAreLegal == Spec => LegalTransitions
<1>1. JobInv /\ [Next]_vars
      => [\A j \in Jobs : state[j] # "none" /\ state'[j] # state[j]
                            => canTransitionJob(state[j], state'[j])]_vars
  BY StepsAreLegal DEF LegalStep
<1> QED
  BY <1>1, JobInvariant, PTL DEF Spec, LegalTransitions

\* Every step starts jobs in the order of submission.
LEMMA StepsAreInOrder ==
  ASSUME JobInv, [Next]_vars
  PROVE  InOrderStep
<1>1. ASSUME NEW j \in Jobs, NEW c \in BOOLEAN, Submit(j, c) PROVE InOrderStep
  BY <1>1, SubmitKeepsInv
<1>2. ASSUME NEW j \in Jobs, CancelQueued(j) PROVE InOrderStep
  BY <1>2, CancelQueuedKeepsInv
<1>3. ASSUME NEW j \in Jobs, Finish(j) PROVE InOrderStep
  <2>1. CASE disposed
    BY <1>3, <2>1 DEF Finish, InOrderStep, JobInv, TypeOK
  <2>2. CASE ~disposed
    BY <1>3, <2>2, FinishKeepsInv
  <2> QED
    BY <2>1, <2>2
<1>4. ASSUME NEW j \in Jobs, StartExecutor(j) \/ MarkSettled(j) PROVE InOrderStep
  BY <1>4 DEF StartExecutor, MarkSettled, InOrderStep, JobInv, TypeOK
<1>5. ASSUME NEW j \in Jobs, NEW o \in {"ok", "error"}, ExecutorSettles(j, o) PROVE InOrderStep
  BY <1>5 DEF ExecutorSettles, InOrderStep, JobInv, TypeOK
<1>6. CASE UNCHANGED task
  BY <1>6 DEF InOrderStep
<1> QED
  BY <1>1, <1>2, <1>3, <1>4, <1>5, <1>6
     DEF Next, Microtask, CancelRunning, ReportProgress, ThrottleElapses, ProgressTimer, WhenIdle,
         Cleanup, Dispose, vars, jobVars

\* Workers take jobs strictly in the order of submission.
THEOREM JobsStartInOrder == Spec => StartInOrder
<1>1. JobInv /\ [Next]_vars
      => [\A i, j \in Jobs :
            i < j /\ task[j] = "none" /\ task'[j] = "scheduled" => state'[i] # "queued"]_vars
  BY StepsAreInOrder DEF InOrderStep
<1> QED
  BY <1>1, JobInvariant, PTL DEF Spec, StartInOrder

-----------------------------------------------------------------------------
\* What the progress events of job j need to survive a step: the two properties
\* for j, and that the entry of an unfinished job is kept by cleanup().
ProgressOK(j) ==
    /\ ~disposed /\ state[j] \in Active => j \in entries
    /\ ~disposed /\ progress[j] # emitted[j] => timer[j]
    /\ timer[j] => ~disposed /\ j \in entries /\ state[j] \in Active

ProgressInv == \A j \in Jobs : ProgressOK(j)

\* Every step keeps the progress invariant of every job.
LEMMA StepsKeepProgress ==
  ASSUME JobInv, ProgressInv, [Next]_vars, NEW j \in Jobs
  PROVE  ProgressOK(j)'
<1>1. ProgressOK(j) /\ TypeOK
  BY DEF ProgressInv, JobInv
<1>2. ASSUME NEW i \in Jobs, NEW c \in BOOLEAN, Submit(i, c) PROVE ProgressOK(j)'
  <2> DEFINE st == [state EXCEPT ![i] = "queued"]
  <2>1. state[i] = "none" /\ (state'[j] = st[j] \/ (st[j] = "queued" /\ state'[j] = "running"))
    BY <1>2, PumpTransitions DEF Submit
  <2>2. j # i => st[j] = state[j]
    BY <1>1 DEF TypeOK
  <2>3. /\ entries' = entries \cup {i} /\ disposed' = disposed /\ ~disposed
        /\ UNCHANGED progressVars
    BY <1>2 DEF Submit
  <2>4. state[j] = "queued" => j \in entries
    BY <2>3 DEF JobInv, SubmittedInOrder
  <2> QED
    BY <1>1, <2>1, <2>2, <2>3, <2>4 DEF ProgressOK, progressVars, Active
<1>3. ASSUME NEW i \in Jobs, CancelQueued(i) PROVE ProgressOK(j)'
  <2> DEFINE st == [state EXCEPT ![i] = "cancelled"]
  <2>1. state[i] = "queued" /\ (state'[j] = st[j] \/ (st[j] = "queued" /\ state'[j] = "running"))
    BY <1>3, PumpTransitions DEF CancelQueued
  <2>2. /\ j # i => st[j] = state[j]
        /\ j = i => st[j] = "cancelled"
    BY <1>1 DEF TypeOK
  <2>3. UNCHANGED <<entries, disposed, timer, progress>> /\ emitted' = [emitted EXCEPT ![i] = progress[i]]
    BY <1>3 DEF CancelQueued
  <2>4. state[j] = "queued" /\ ~disposed => j \in entries
    BY DEF JobInv, SubmittedInOrder
  <2>5. emitted'[j] = IF j = i THEN progress[i] ELSE emitted[j]
    BY <1>1, <2>3 DEF TypeOK
  <2> QED
    BY <1>1, <2>1, <2>2, <2>3, <2>4, <2>5 DEF ProgressOK, Active
<1>4. ASSUME NEW i \in Jobs, CancelRunning(i) PROVE ProgressOK(j)'
  BY <1>1, <1>4 DEF CancelRunning, ProgressOK, TypeOK, Active, poolVars
<1>5. ASSUME NEW i \in Jobs, Finish(i) PROVE ProgressOK(j)'
  <2> DEFINE st == [state EXCEPT ![i] = EndState(i)]
  <2>1. state'[j] = st[j] \/ (st[j] = "queued" /\ state'[j] = "running")
    BY <1>5, PumpTransitions DEF Finish
  <2>2. j # i => st[j] = state[j]
    BY <1>1 DEF TypeOK
  <2>3. /\ UNCHANGED <<entries, disposed, progress>>
        /\ timer' = [timer EXCEPT ![i] = FALSE]
        /\ ~disposed => emitted' = [emitted EXCEPT ![i] = progress[i]]
    BY <1>5 DEF Finish
  <2>4. /\ timer'[j] = IF j = i THEN FALSE ELSE timer[j]
        /\ ~disposed => emitted'[j] = IF j = i THEN progress[i] ELSE emitted[j]
    BY <1>1, <2>3 DEF TypeOK
  <2>5. state[j] = "queued" /\ ~disposed => j \in entries
    BY DEF JobInv, SubmittedInOrder
  <2>6. state[i] \in Active
    BY <1>5 DEF Finish, JobInv, StateMatchesTask, InFlight
  <2> QED
    BY <1>1, <2>1, <2>2, <2>3, <2>4, <2>5, <2>6 DEF ProgressOK, Active
<1>6. ASSUME NEW i \in Jobs, ReportProgress(i) PROVE ProgressOK(j)'
  BY <1>1, <1>6 DEF ReportProgress, ProgressOK, ProgressInv, TypeOK, jobVars, poolVars
<1>7. ASSUME NEW i \in Jobs, ProgressTimer(i) PROVE ProgressOK(j)'
  <2>1. ~disposed /\ state[i] \in Active
    BY <1>7 DEF ProgressTimer, ProgressInv, ProgressOK
  <2>2. UNCHANGED <<entries, state, disposed, progress>>
    BY <1>7 DEF ProgressTimer, jobVars, poolVars
  <2>3. /\ timer'[j] = IF j = i THEN FALSE ELSE timer[j]
        /\ emitted'[j] = IF j = i THEN progress[i] ELSE emitted[j]
    BY <1>1, <1>7, <2>1 DEF ProgressTimer, TypeOK
  <2> QED
    BY <1>1, <2>2, <2>3 DEF ProgressOK
<1>8. ASSUME NEW old \in SUBSET entries, Cleanup(old) PROVE ProgressOK(j)'
  BY <1>1, <1>8 DEF Cleanup, ProgressOK, Active, Terminal, TypeOK, poolVars
<1>9. CASE Dispose
  BY <1>1, <1>9 DEF Dispose, ProgressOK
<1>10. CASE UNCHANGED <<entries, state, disposed, progress, emitted, timer>>
  BY <1>1, <1>10 DEF ProgressOK
<1>11. ASSUME NEW i \in Jobs, Microtask(i) PROVE ProgressOK(j)'
  BY <1>5, <1>10, <1>11 DEF Microtask, StartExecutor, MarkSettled, poolVars, progressVars
<1> QED
  BY <1>2, <1>3, <1>4, <1>6, <1>7, <1>8, <1>9, <1>10, <1>11
     DEF Next, ExecutorSettles, ThrottleElapses, WhenIdle, vars, jobVars, poolVars, progressVars

\* Throttled progress is owed by an armed timer, and no timer outlives its job,
\* however reports, timers, the end of the job, cleanup() and dispose() interleave.
THEOREM ProgressIsKept == Spec => [](ProgressNotLost /\ NoStrayTimer)
<1>1. Init => ProgressInv
  BY DEF Init, ProgressInv, ProgressOK, Active
<1>2. JobInv /\ ProgressInv /\ [Next]_vars => ProgressInv'
  BY StepsKeepProgress DEF ProgressInv
<1>3. ProgressInv => ProgressNotLost /\ NoStrayTimer
  BY DEF ProgressInv, ProgressOK, ProgressNotLost, NoStrayTimer
<1> QED
  BY <1>1, <1>2, <1>3, JobInvariant, PTL DEF Spec

-----------------------------------------------------------------------------
(* The properties of the runs, which combine these *)

\* No slot is lost, no queued job waits for nothing, none is missing from the queue and nobody
\* waits for an idle manager: what submit(), cancel(), execute(), pump() and whenIdle() keep
\* between them.
THEOREM PoolStaysSound == Spec => []PoolIsSound
<1>1. SlotAccounting /\ WorkConserving /\ QueueHoldsQueued /\ NoLostWakeup => PoolIsSound
  BY DEF PoolIsSound
<1> QED
  BY <1>1, SlotsAreAccounted, NoJobWaitsForNothing, QueueIsComplete, WakeupsAreNotLost, PTL

\* The state in which execute() or cancel() ends a job is the truth about its executor.
THEOREM EndsStayTrue == Spec => []EndsAreTrue
<1>1. TerminalMeansStopped /\ ReleasedMeansTerminal /\ CancelSticks => EndsAreTrue
  BY DEF EndsAreTrue
<1> QED  BY <1>1, TerminalIsTruthful, CancellationIsFinal, PTL

\* Unseen progress is owed by an armed timer of reportProgress(), and no timer is left behind.
THEOREM ProgressStaysTrue == Spec => []ProgressIsTrue
<1>1. ProgressNotLost /\ NoStrayTimer => ProgressIsTrue
  BY DEF ProgressIsTrue
<1> QED  BY <1>1, ProgressIsKept, PTL

-----------------------------------------------------------------------------
(* The job manager implements the job service *)

\* A step that changes neither a reported state, nor a worker, nor disposed, is not seen.
LEMMA UnseenStep ==
  ASSUME UNCHANGED <<state, disposed>>, Executing' = Executing
  PROVE  UNCHANGED Service!serviceVars
  BY DEF Service!serviceVars

\* A job that moves on inside execute() keeps its worker.
LEMMA WorkersKept ==
  ASSUME JobInv, NEW j \in Jobs, NEW next \in InFlight,
         task[j] \in InFlight, task' = [task EXCEPT ![j] = next]
  PROVE  Executing' = Executing
  BY DEF Executing, JobInv, TypeOK

\* Each method of the manager is one operation of the service, or a step that its callers do
\* not see.
LEMMA StepsAreServiceSteps ==
  ASSUME JobInv, [Next]_vars
  PROVE  [Service!ServiceNext]_(Service!serviceVars)
<1> USE DEF Service!ServiceNext
<1>0. TypeOK /\ StateMatchesTask
  BY DEF JobInv
<1>1. ASSUME NEW j \in Jobs, NEW c \in BOOLEAN, Submit(j, c) PROVE Service!Accept(j)
  <2>1. /\ ~disposed /\ state[j] = "none" /\ disposed' = disposed
        /\ \A i \in 1..(j - 1) : state[i] # "none"
    BY <1>1 DEF Submit
  <2>2. \A i \in Jobs : i < j => i \in 1..(j - 1)
    BY JobManagerAssumption DEF Jobs
  <2>3. Service!Serve([state EXCEPT ![j] = "queued"], Executing)
    BY <1>1, SubmitKeepsInv DEF Serves, Executing
  <2> QED
    BY <2>1, <2>2, <2>3 DEF Service!Accept
<1>2. ASSUME NEW j \in Jobs, CancelQueued(j) PROVE Service!CancelWaiting(j)
  <2>1. ~disposed /\ state[j] = "queued" /\ disposed' = disposed
    BY <1>2 DEF CancelQueued, MayCancel, JobInv, SubmittedInOrder
  <2>2. Service!Serve([state EXCEPT ![j] = "cancelled"], Executing)
    BY <1>2, CancelQueuedKeepsInv DEF Serves, Executing
  <2> QED
    BY <2>1, <2>2 DEF Service!CancelWaiting
<1>3. ASSUME NEW j \in Jobs, CancelRunning(j) PROVE Service!CancelWorking(j)
  <2>1. /\ ~disposed /\ state[j] = "running"
        /\ state' = [state EXCEPT ![j] = "cancelling"]
        /\ disposed' = disposed /\ task' = task
    BY <1>3 DEF CancelRunning, MayCancel, JobInv, SubmittedInOrder, poolVars
  <2>2. j \in Executing
    BY <1>0, <2>1 DEF StateMatchesTask, Active, Executing
  <2>3. Executing' = Executing
    BY <2>1 DEF Executing
  <2> QED
    BY <2>1, <2>2, <2>3 DEF Service!CancelWorking
<1>4. ASSUME NEW j \in Jobs, Finish(j) PROVE Service!End(j)
  <2>1. /\ task[j] = "settled" /\ j \in Executing /\ disposed' = disposed
    BY <1>4 DEF Finish, Executing, InFlight
  <2>2. {i \in Jobs : [task EXCEPT ![j] = "released"][i] \in InFlight} = Executing \ {j}
    BY <1>0 DEF Executing, InFlight, TypeOK
  <2>3. CASE disposed
    <3>1. state' = [state EXCEPT ![j] = state[j]] /\ task' = [task EXCEPT ![j] = "released"]
      BY <1>4, <2>3 DEF Finish, EndState
    <3>2. state' = state
      BY <1>0, <3>1 DEF TypeOK
    <3>3. Executing' = Executing \ {j}
      BY <2>2, <3>1 DEF Executing
    <3> QED
      BY <2>1, <2>3, <3>2, <3>3 DEF Service!End
  <2>4. CASE ~disposed
    <3>1. state[j] \in Active /\ outcome[j] \in {"ok", "error"}
      BY <1>0, <2>1 DEF StateMatchesTask, InFlight, TypeOK
    <3>2. EndState(j) \in IF state[j] = "cancelling" THEN {"cancelled"} ELSE {"completed", "failed"}
      BY <2>4, <3>1 DEF EndState, Active
    <3>3. Service!Serve([state EXCEPT ![j] = EndState(j)], Executing \ {j})
      BY <1>4, <2>2, <2>4, FinishKeepsInv DEF Serves
    <3> QED
      BY <2>1, <2>4, <3>2, <3>3 DEF Service!End
  <2> QED
    BY <2>3, <2>4
<1>5. ASSUME NEW j \in Jobs, StartExecutor(j) \/ MarkSettled(j) PROVE UNCHANGED Service!serviceVars
  <2>1. PICK next \in InFlight : task[j] \in InFlight /\ task' = [task EXCEPT ![j] = next]
    BY <1>5 DEF StartExecutor, MarkSettled, InFlight
  <2>2. UNCHANGED <<state, disposed>>
    BY <1>5 DEF StartExecutor, MarkSettled, poolVars
  <2> QED
    BY <2>1, <2>2, WorkersKept, UnseenStep
<1>6. ASSUME NEW j \in Jobs, NEW o \in {"ok", "error"}, ExecutorSettles(j, o)
      PROVE  UNCHANGED Service!serviceVars
  <2>1. PICK next \in InFlight : task[j] \in InFlight /\ task' = [task EXCEPT ![j] = next]
    BY <1>6 DEF ExecutorSettles, InFlight
  <2>2. UNCHANGED <<state, disposed>>
    BY <1>6 DEF ExecutorSettles, poolVars
  <2> QED
    BY <2>1, <2>2, WorkersKept, UnseenStep
<1>7. CASE UNCHANGED <<state, task, disposed>>
  <2>1. Executing' = Executing
    BY <1>7 DEF Executing
  <2> QED
    BY <1>7, <2>1, UnseenStep
<1>8. CASE Dispose
  <2>1. ~disposed /\ disposed' = TRUE /\ state' = state /\ Executing' = Executing
    BY <1>8 DEF Dispose, Executing
  <2> QED
    BY <2>1 DEF Service!ShutDown
<1>9. ASSUME NEW j \in Jobs, Microtask(j)
      PROVE  Service!End(j) \/ UNCHANGED Service!serviceVars
  BY <1>4, <1>5, <1>9 DEF Microtask
<1> QED
  BY <1>1, <1>2, <1>3, <1>6, <1>7, <1>8, <1>9
     DEF Next, ReportProgress, ThrottleElapses, ProgressTimer, WhenIdle, Cleanup, vars, jobVars,
         poolVars

\* The safety part of ImplementsService: whatever the queue, the microtasks and the timers do,
\* a caller of the manager sees the job service.
THEOREM ServiceIsImplemented == Spec => StepsAsService
<1>1. Init => Service!ServiceInit
  <2>1. ASSUME Init PROVE Executing = {} /\ state = [j \in Jobs |-> "none"] /\ disposed = FALSE
    BY <2>1 DEF Init, Executing, InFlight
  <2> QED
    BY <2>1 DEF Service!ServiceInit
<1>2. JobInv /\ [Next]_vars => [Service!ServiceNext]_(Service!serviceVars)
  BY StepsAreServiceSteps
<1> QED
  BY <1>1, <1>2, JobInvariant, PTL DEF Spec, StepsAsService, Service!ServiceSafety
=============================================================================
