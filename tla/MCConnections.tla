----------------------------- MODULE MCConnections -----------------------------
(***************************************************************************)
(* The instance of the connection lifecycle and, beside it, of the         *)
(* provider adapters it opens its handles with: `part` says which of the   *)
(* two a behaviour runs; the other stays in its initial state.             *)
(***************************************************************************)
EXTENDS ConnectionLifecycle, TLC

CONSTANTS c1, u1,
          Engines, Clients, Statements, Cancels, Transactions   \* of the adapters

VARIABLES part,
          engine, client, stmt, cancels   \* of the adapters

MCOwner == c1 :> u1

\* The .cfg takes one client (clients share nothing), two statements, two cancels and enough
\* transactions to exhaust PostgreSQL's pool.
D == INSTANCE Drivers

adapters == <<engine, client, stmt, cancels>>
allVars == <<vars, adapters, part>>

AllInit ==
    /\ part \in {"lifecycle", "adapters"}
    /\ Init
    /\ D!Init
    /\ part = "lifecycle" => engine = "mysql"

AllNext ==
    \/ part = "lifecycle" /\ Next /\ UNCHANGED <<adapters, part>>
    \/ part = "adapters" /\ D!Next /\ UNCHANGED <<vars, part>>

AllSpec == AllInit /\ [][AllNext]_allVars /\ Fairness /\ D!Fairness

\* Clients of the pools are never forgotten, no cancel waits for the statement it is to end, and
\* a statement that failed or was cut short is reported as what happened to it (Drivers).
AdaptersAreTrue == D!AdaptersAreTrue

\* A cancel ends the statement it was asked about, though the statement itself
\* might run for ever, or is answered with an error (Drivers).
CancelEndsStatement == D!CancelEndsStatement
=============================================================================
