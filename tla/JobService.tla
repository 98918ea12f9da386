----------------------------- MODULE JobService -----------------------------
(***************************************************************************)
(* What the job manager promises its callers, without its queue, its       *)
(* microtasks, its entries and its timers: a job waits for one of a fixed  *)
(* number of workers, runs, and ends; the oldest waiting job is served     *)
(* first and at once; a cancelled job ends as cancelled, and its worker is *)
(* taken until its executor has really stopped.                            *)
(***************************************************************************)
EXTENDS Naturals, FiniteSets

CONSTANTS Jobs,      \* numbers, in the order of submission
          Limit      \* workers

VARIABLES state,     \* of every job
          holding,   \* jobs that hold a worker
          down       \* the service has been shut down

serviceVars == <<state, holding, down>>

ServiceInit ==
    /\ state = [j \in Jobs |-> "none"]
    /\ holding = {}
    /\ down = FALSE

\* Free workers are given to the oldest waiting jobs, in the same step.
Serve(st, held) ==
    LET waiting == {j \in Jobs : st[j] = "queued"}
        Takes(S) ==
            /\ \A i \in S, j \in waiting \ S : i < j
            /\ Cardinality(held) + Cardinality(S) <= Limit
            /\ Cardinality(held) + Cardinality(S) = Limit \/ S = waiting
    IN  \E S \in SUBSET waiting :
          /\ Takes(S)
          /\ state' = [j \in Jobs |-> IF j \in S THEN "running" ELSE st[j]]
          /\ holding' = held \cup S

Accept(j) ==
    /\ ~down /\ state[j] = "none"
    /\ \A i \in Jobs : i < j => state[i] # "none"
    /\ Serve([state EXCEPT ![j] = "queued"], holding)
    /\ UNCHANGED down

CancelWaiting(j) ==
    /\ ~down /\ state[j] = "queued"
    /\ Serve([state EXCEPT ![j] = "cancelled"], holding)
    /\ UNCHANGED down

CancelWorking(j) ==
    /\ ~down /\ state[j] = "running" /\ j \in holding
    /\ state' = [state EXCEPT ![j] = "cancelling"]
    /\ UNCHANGED <<holding, down>>

\* The executor has stopped: the job ends and its worker is free again.
End(j) ==
    /\ j \in holding
    /\ IF down
       THEN holding' = holding \ {j} /\ UNCHANGED state
       ELSE \E s \in IF state[j] = "cancelling" THEN {"cancelled"} ELSE {"completed", "failed"} :
              Serve([state EXCEPT ![j] = s], holding \ {j})
    /\ UNCHANGED down

ShutDown ==
    /\ ~down /\ down' = TRUE
    /\ UNCHANGED <<state, holding>>

ServiceNext ==
    \/ \E j \in Jobs : Accept(j) \/ CancelWaiting(j) \/ CancelWorking(j) \/ End(j)
    \/ ShutDown

ServiceSafety == ServiceInit /\ [][ServiceNext]_serviceVars

\* Every worker is given back.
ServiceSpec ==
    /\ ServiceSafety
    /\ \A j \in Jobs : WF_serviceVars(End(j))
=============================================================================
