------------------------ MODULE QueryExecutionProofs ------------------------
(***************************************************************************)
(* Theorems about QueryExecution, for any number of calls, statements,     *)
(* tabs and databases.  What is reported of a run is inductive only        *)
(* together with what each phase of run() says of the reported state, of   *)
(* the statements and of the runs before it; the session map only together *)
(* with what a call's phase says of the session it asked for.              *)
(***************************************************************************)
EXTENDS QueryExecution, MCPages, SequenceTheorems, FiniteSetTheorems, WellFoundedInduction, TLAPS

-----------------------------------------------------------------------------
(* The inductive invariant *)

\* Statement k is running, those before it are done, those after it pending.
Running(s, k) ==
    /\ s[k] = "running"
    /\ \A i \in 1..(k - 1) : s[i] = "done"
    /\ \A i \in (k + 1)..Len(s) : s[i] = "pending"

\* Statements that will not go on: done ones, then at most one error, then skipped ones.
Stopped(s) ==
    \A i \in 1..Len(s) :
      /\ s[i] \in {"done", "error", "skipped"}
      /\ s[i] # "done" => \A j \in (i + 1)..Len(s) : s[j] = "skipped"

\* Calls arrive in the order of their numbers, and a call waits for, closes or uses only a
\* session of its own tab.
CallOK(c) ==
    /\ pc[c] # "new" => \A b \in 1..(c - 1) : pc[b] # "new"
    /\ pc[c] = "new" => kind[c] = "none" /\ state[c] = "none"
    /\ pc[c] # "new" => kind[c] # "none" /\ tab[c] \in Tabs
    /\ pc[c] \in {"closing", "awaiting", "executing", "working"} =>
         awaits[c] \in Calls /\ pc[awaits[c]] # "new" /\ tab[awaits[c]] = tab[c]

\* A call has a provider session only after it asked for one, and an open in flight is the one
\* that opening knows.
HandleOK(c) ==
    /\ pc[c] \in {"new", "chained", "closing"} => handle[c] = "unused"
    /\ handle[c] = "opening" => opening[tab[c]] = c

\* What a call reports in each phase of run(), and that a run waited for its turn.
RunOK(c) ==
    /\ pc[c] = "chained" => kind[c] = "execute" /\ state[c] \in {"queued", "cancelled"}
    /\ pc[c] \in {"closing", "awaiting"} /\ kind[c] = "execute" => state[c] \in {"running", "cancelled"}
    /\ pc[c] \in {"chained", "closing", "awaiting"} /\ state[c] = "cancelled" => cancelRequested[c]
    /\ pc[c] = "executing" => kind[c] = "execute" /\ state[c] \in {"running", "cancelling"}
    /\ kind[c] # "execute" => state[c] = "none"
    /\ kind[c] = "execute" /\ pc[c] # "chained" => IsTurn(c)
    /\ cancelCall[c] # "none" => pc[c] \in {"executing", "done"} /\ kind[c] = "execute"

\* The statements in each phase of run().
StatementsOK(c) ==
    /\ pc[c] \notin {"executing", "done"} => Len(stmts[c]) = 0
    /\ pc[c] = "executing" => \E k \in 1..Len(stmts[c]) : Running(stmts[c], k)
    /\ pc[c] = "done" => Stopped(stmts[c])
    /\ state[c] = "completed" =>
         /\ pc[c] = "done" /\ Len(stmts[c]) # 0
         /\ \A i \in 1..Len(stmts[c]) : stmts[c][i] = "done"

\* The session of a tab is open, its open in flight is not yet, and both are of this tab.
TabOK(t) ==
    /\ sessions[t] # Nobody => handle[sessions[t]] = "open" /\ tab[sessions[t]] = t
    /\ opening[t] # Nobody => handle[opening[t]] = "opening" /\ tab[opening[t]] = t

RunsOK == \A c \in Calls : CallOK(c) /\ RunOK(c) /\ StatementsOK(c)

SessionsOK == /\ \A c \in Calls : HandleOK(c)
              /\ \A t \in Tabs : TabOK(t)

QueryInv == TypeOK /\ RunsOK /\ SessionsOK

-----------------------------------------------------------------------------
(* Statements *)

\* The statement that query.execute is working on is the running one.
LEMMA CurrentRuns ==
    ASSUME NEW c \in Calls, NEW k \in 1..Len(stmts[c]), Running(stmts[c], k),
           stmts[c] \in Seq(StatementState)
    PROVE  Current(c) = k
<1>1. \A i \in 1..Len(stmts[c]) : stmts[c][i] = "running" => i = k
  <2> SUFFICES ASSUME NEW i \in 1..Len(stmts[c]), i # k PROVE stmts[c][i] # "running"
    OBVIOUS
  <2>1. Len(stmts[c]) \in Nat
    BY DEF Calls
  <2>2. i \in 1..(k - 1) \/ i \in (k + 1)..Len(stmts[c])
    BY <2>1
  <2> QED
    BY <2>2 DEF Running
<1>2. stmts[c][k] = "running"
  BY DEF Running
<1> QED
  BY <1>1, <1>2 DEF Current

\* Skipping what has not finished keeps the length; statements of which none is running or
\* pending stay as they are.
LEMMA SkipEffect ==
    ASSUME NEW s \in Seq(StatementState)
    PROVE  /\ SkipUnfinished(s) \in Seq(StatementState)
           /\ Len(SkipUnfinished(s)) = Len(s)
           /\ \A i \in 1..Len(s) : SkipUnfinished(s)[i] =
                IF s[i] \in {"pending", "running"} THEN "skipped" ELSE s[i]
           /\ Stopped(s) => Stopped(SkipUnfinished(s))
<1> DEFINE u == SkipUnfinished(s)
<1>1. /\ Len(s) \in Nat
      /\ \A i \in 1..Len(s) : s[i] \in StatementState
  BY ElementOfSeq
<1>2. u = [i \in 1..Len(s) |-> IF s[i] \in {"pending", "running"} THEN "skipped" ELSE s[i]]
  BY DEF SkipUnfinished
<1>3. u \in [1..Len(s) -> StatementState]
  BY <1>1, <1>2 DEF StatementState
<1>4. u \in Seq(StatementState) /\ Len(u) = Len(s)
  BY <1>1, <1>3
<1>5. \A i \in 1..Len(s) : u[i] = IF s[i] \in {"pending", "running"} THEN "skipped" ELSE s[i]
  BY <1>2
<1>6. Stopped(s) => Stopped(u)
  BY <1>1, <1>4, <1>5 DEF Stopped
<1> QED
  BY <1>4, <1>5, <1>6

\* When the running statement succeeds and it is the last, all are done; otherwise either the
\* rest is skipped or the next one runs.
LEMMA DoneEffect ==
    ASSUME NEW s \in Seq(StatementState), NEW k \in 1..Len(s), Running(s, k)
    PROVE  LET u == [s EXCEPT ![k] = "done"]
               v == [u EXCEPT ![k + 1] = "running"]
           IN  /\ u \in Seq(StatementState) /\ Len(u) = Len(s)
               /\ SkipUnfinished(u) \in Seq(StatementState)
               /\ Len(SkipUnfinished(u)) = Len(s)
               /\ Stopped(SkipUnfinished(u))
               /\ k = Len(s) => Stopped(u) /\ \A i \in 1..Len(s) : u[i] = "done"
               /\ k < Len(s) => /\ v \in Seq(StatementState) /\ Len(v) = Len(s)
                                /\ k + 1 \in 1..Len(v) /\ Running(v, k + 1)
<1> DEFINE u == [s EXCEPT ![k] = "done"]
           v == [u EXCEPT ![k + 1] = "running"]
<1> "done" \in StatementState /\ "running" \in StatementState
  BY DEF StatementState
<1>1. Len(s) \in Nat
  OBVIOUS
<1>2. /\ u \in Seq(StatementState) /\ Len(u) = Len(s)
      /\ \A i \in 1..Len(s) : u[i] = IF i = k THEN "done" ELSE s[i]
  BY ExceptSeq
<1>3. \A i \in 1..Len(s) : u[i] = IF i <= k THEN "done" ELSE "pending"
  BY <1>1, <1>2 DEF Running
<1> HIDE DEF u
<1>4. /\ SkipUnfinished(u) \in Seq(StatementState)
      /\ Len(SkipUnfinished(u)) = Len(s)
      /\ \A i \in 1..Len(s) : SkipUnfinished(u)[i] =
           IF u[i] \in {"pending", "running"} THEN "skipped" ELSE u[i]
  BY <1>2, SkipEffect
<1>5. Stopped(SkipUnfinished(u))
  BY <1>1, <1>3, <1>4 DEF Stopped
<1>6. ASSUME k = Len(s) PROVE Stopped(u) /\ \A i \in 1..Len(s) : u[i] = "done"
  BY <1>1, <1>2, <1>3, <1>6 DEF Stopped
<1>7. ASSUME k < Len(s)
      PROVE  /\ v \in Seq(StatementState) /\ Len(v) = Len(s)
             /\ k + 1 \in 1..Len(v) /\ Running(v, k + 1)
  <2>1. k + 1 \in 1..Len(u)
    BY <1>1, <1>2, <1>7
  <2>2. /\ v \in Seq(StatementState) /\ Len(v) = Len(s)
        /\ \A i \in 1..Len(s) : v[i] = IF i = k + 1 THEN "running" ELSE u[i]
    BY <1>2, <2>1, ExceptSeq
  <2>3. Running(v, k + 1)
    BY <1>1, <1>3, <1>7, <2>2 DEF Running
  <2> QED
    BY <1>2, <2>1, <2>2, <2>3
<1>8. QED
  BY <1>2, <1>4, <1>5, <1>6, <1>7 DEF u, v

\* When the running statement fails, those before it are done and those after it skipped.
LEMMA FailureEffect ==
    ASSUME NEW s \in Seq(StatementState), NEW k \in 1..Len(s), Running(s, k)
    PROVE  LET u == [i \in 1..Len(s) |-> IF i = k THEN "error" ELSE IF i > k THEN "skipped" ELSE s[i]]
           IN  u \in Seq(StatementState) /\ Len(u) = Len(s) /\ Stopped(u)
<1> DEFINE u == [i \in 1..Len(s) |-> IF i = k THEN "error" ELSE IF i > k THEN "skipped" ELSE s[i]]
<1>1. Len(s) \in Nat
  OBVIOUS
<1>2. \A i \in 1..Len(s) : u[i] = IF i = k THEN "error" ELSE IF i > k THEN "skipped" ELSE "done"
  BY <1>1 DEF Running
<1>3. u \in [1..Len(s) -> StatementState]
  BY <1>2 DEF StatementState
<1>4. u \in Seq(StatementState) /\ Len(u) = Len(s)
  BY <1>1, <1>3
<1>5. Stopped(u)
  BY <1>1, <1>2, <1>4 DEF Stopped
<1> QED
  BY <1>4, <1>5

-----------------------------------------------------------------------------
(* Frames *)

\* A step that changes only call c's own record, and in which c neither arrives again nor
\* leaves its end, keeps what holds of every other call.
OnlyMoves(c) ==
    /\ \A b \in Calls \ {c} :
         /\ kind'[b] = kind[b] /\ tab'[b] = tab[b] /\ pc'[b] = pc[b]
         /\ awaits'[b] = awaits[b] /\ state'[b] = state[b]
         /\ stmts'[b] = stmts[b] /\ cancelCall'[b] = cancelCall[b]
         /\ cancelRequested'[b] = cancelRequested[b]
    /\ pc'[c] # "new"
    /\ pc[c] = "new" => \A b \in 1..(c - 1) : pc[b] # "new"
    /\ pc[c] # "new" => kind'[c] = kind[c] /\ tab'[c] = tab[c]
    /\ pc[c] = "done" => pc'[c] = "done"

LEMMA OthersKeep ==
    ASSUME QueryInv, NEW c \in Calls, OnlyMoves(c), NEW b \in Calls, b # c
    PROVE  CallOK(b)' /\ RunOK(b)' /\ StatementsOK(b)'
<1>1. TypeOK /\ CallOK(b) /\ RunOK(b) /\ StatementsOK(b) /\ CallOK(c)
  BY DEF QueryInv, RunsOK
<1>2. /\ kind'[b] = kind[b] /\ tab'[b] = tab[b] /\ pc'[b] = pc[b]
      /\ awaits'[b] = awaits[b] /\ state'[b] = state[b]
      /\ stmts'[b] = stmts[b] /\ cancelCall'[b] = cancelCall[b]
      /\ cancelRequested'[b] = cancelRequested[b]
  BY DEF OnlyMoves
<1>3. \A a \in Calls : pc[a] # "new" => pc'[a] # "new" /\ tab'[a] = tab[a]
  BY DEF OnlyMoves
<1>4. 1..(b - 1) \subseteq Calls
  BY QueryAssumption DEF Calls
<1>5. CallOK(b)'
  BY <1>1, <1>2, <1>3, <1>4 DEF CallOK
<1>6. ASSUME kind[b] = "execute", pc[b] # "chained" PROVE IsTurn(b)'
  <2>1. IsTurn(b) /\ pc[b] # "new"
    BY <1>1, <1>6 DEF RunOK, CallOK
  <2>2. \A a \in 1..(b - 1) : pc[a] # "new"
    BY <1>1, <2>1 DEF CallOK
  <2>3. \A a \in 1..(b - 1) : /\ kind'[a] = kind[a] /\ tab'[a] = tab[a]
                              /\ pc[a] = "done" => pc'[a] = "done"
    BY <1>4, <2>2 DEF OnlyMoves
  <2> QED
    BY <1>2, <2>1, <2>3 DEF IsTurn
<1>7. RunOK(b)'
  BY <1>1, <1>2, <1>6 DEF RunOK
<1>8. StatementsOK(b)'
  BY <1>1, <1>2 DEF StatementsOK, Running, Stopped
<1> QED
  BY <1>5, <1>7, <1>8

\* The tail of the tab: the runs before c have ended, and c does not change that.
LEMMA TurnKept ==
    ASSUME QueryInv, NEW c \in Calls, OnlyMoves(c), IsTurn(c), pc[c] # "new"
    PROVE  IsTurn(c)'
<1>1. \A a \in 1..(c - 1) : /\ kind'[a] = kind[a] /\ tab'[a] = tab[a] /\ pc'[a] = pc[a]
  BY QueryAssumption DEF OnlyMoves, Calls
<1>2. tab'[c] = tab[c]
  BY DEF OnlyMoves
<1> QED
  BY <1>1, <1>2 DEF IsTurn

\* A step that changes neither sessions nor opens keeps the session part, if c moves on to a
\* phase in which it may have a handle, or had none.
LEMMA SessionsKept ==
    ASSUME QueryInv, NEW c \in Calls, UNCHANGED <<sessions, opening, handle>>,
           \A b \in Calls \ {c} : pc'[b] = pc[b] /\ tab'[b] = tab[b],
           pc[c] # "new" => tab'[c] = tab[c],
           pc'[c] \in {"new", "chained", "closing"} => handle[c] = "unused"
    PROVE  SessionsOK'
<1>1. TypeOK
  BY DEF QueryInv
<1>2. ASSUME NEW b \in Calls PROVE HandleOK(b)'
  <2>1. HandleOK(b) /\ (handle[b] # "unused" => tab'[b] = tab[b])
    BY DEF QueryInv, SessionsOK, HandleOK
  <2> QED
    BY <2>1 DEF HandleOK
<1>3. ASSUME NEW t \in Tabs PROVE TabOK(t)'
  <2>1. TabOK(t)
    BY DEF QueryInv, SessionsOK
  <2>2. \A b \in Calls : handle[b] # "unused" => tab'[b] = tab[b]
    BY DEF QueryInv, SessionsOK, HandleOK
  <2>3. sessions[t] \in Calls \cup {Nobody} /\ opening[t] \in Calls \cup {Nobody}
    BY <1>1 DEF TypeOK
  <2> QED
    BY <2>1, <2>2, <2>3 DEF TabOK
<1> QED
  BY <1>2, <1>3 DEF SessionsOK

-----------------------------------------------------------------------------
(* Sessions *)

\* Call c asks sessionFor() for a session of its tab: it closes or awaits one that is there,
\* or its own.
Asks(c) ==
    /\ pc' \in [Calls -> Phase] /\ awaits' \in [Calls -> Calls \cup {Nobody}]
    /\ \A b \in Calls \ {c} : pc'[b] = pc[b] /\ awaits'[b] = awaits[b]
    /\ pc'[c] \in {"closing", "awaiting"}
    /\ awaits'[c] \in Calls
    /\ awaits'[c] # c => pc[awaits'[c]] # "new" /\ tab[awaits'[c]] = tab'[c]
    /\ sessions' \in [Tabs -> Calls \cup {Nobody}]
    /\ opening' \in [Tabs -> Calls \cup {Nobody}]
    /\ handle' \in [Calls -> {"unused", "opening", "failed", "open", "closing", "closed"}]
    /\ idle' \in [Calls -> BOOLEAN]
    /\ SessionsOK'

\* A call that has no handle yet: its own record may change, no session knows of it.
Fresh(c) ==
    /\ pc[c] \in {"new", "chained", "closing"}
    /\ pc[c] # "new" => tab'[c] = tab[c]
    /\ \A b \in Calls \ {c} : tab'[b] = tab[b]

\* A call without a handle is in neither map, and what the maps hold has arrived.
LEMMA FreshIsUnknown ==
    ASSUME QueryInv, NEW c \in Calls, Fresh(c), NEW t \in Tabs
    PROVE  /\ handle[c] = "unused" /\ sessions[t] # c /\ opening[t] # c
           /\ sessions[t] # Nobody => sessions[t] \in Calls /\ pc[sessions[t]] # "new"
           /\ opening[t] # Nobody => opening[t] \in Calls /\ pc[opening[t]] # "new"
<1>1. /\ sessions[t] \in Calls \cup {Nobody} /\ opening[t] \in Calls \cup {Nobody}
      /\ Nobody \notin Calls
  BY QueryAssumption DEF QueryInv, TypeOK, Calls, Nobody
<1>2. TabOK(t) /\ \A b \in Calls : HandleOK(b)
  BY DEF QueryInv, SessionsOK
<1>3. handle[c] = "unused"
  BY <1>2 DEF Fresh, HandleOK
<1> QED
  BY <1>1, <1>2, <1>3 DEF TabOK, HandleOK

\* sessionFor() without a session joins the open in flight or starts the only one.
LEMMA OpenOrJoinAsks ==
    ASSUME QueryInv, NEW c \in Calls, NEW t \in Tabs, Fresh(c), tab'[c] = t,
           OpenOrJoin(c, t), UNCHANGED <<sessions, idle>>
    PROVE  Asks(c)
<1>1. TypeOK
  BY DEF QueryInv
<1>2. pc' = [pc EXCEPT ![c] = "awaiting"] /\ Nobody \notin Calls
  BY QueryAssumption DEF OpenOrJoin, Calls, Nobody
<1>3. pc'[c] = "awaiting" /\ \A b \in Calls \ {c} : pc'[b] = pc[b]
  BY <1>1, <1>2 DEF TypeOK
<1>4. /\ handle[c] = "unused"
      /\ \A u \in Tabs : /\ sessions[u] # c /\ opening[u] # c
                         /\ sessions[u] # Nobody => sessions[u] \in Calls /\ pc[sessions[u]] # "new"
                         /\ opening[u] # Nobody => opening[u] \in Calls /\ pc[opening[u]] # "new"
  BY FreshIsUnknown
<1>5. /\ \A b \in Calls : HandleOK(b)
      /\ \A u \in Tabs : TabOK(u)
  BY DEF QueryInv, SessionsOK
<1>6. CASE opening[t] # Nobody
  <2>1. awaits' = [awaits EXCEPT ![c] = opening[t]] /\ UNCHANGED <<opening, handle>>
    BY <1>6 DEF OpenOrJoin
  <2>2. awaits'[c] = opening[t]
    BY <1>1, <2>1 DEF TypeOK
  <2>3. opening[t] \in Calls /\ pc[opening[t]] # "new" /\ tab[opening[t]] = t
    BY <1>4, <1>5, <1>6 DEF TabOK
  <2>4. SessionsOK'
    <3>1. \A b \in Calls \ {c} : pc'[b] = pc[b] /\ tab'[b] = tab[b]
      BY <1>3 DEF Fresh
    <3>2. pc[c] # "new" => tab'[c] = tab[c]
      BY DEF Fresh
    <3>3. pc'[c] \in {"new", "chained", "closing"} => handle[c] = "unused"
      BY <1>3
    <3> QED
      BY <2>1, <3>1, <3>2, <3>3, SessionsKept
  <2> QED
    BY <1>1, <1>2, <1>3, <2>1, <2>2, <2>3, <2>4 DEF Asks, TypeOK, Phase
<1>7. CASE opening[t] = Nobody
  <2>1. /\ awaits' = [awaits EXCEPT ![c] = c]
        /\ opening' = [opening EXCEPT ![t] = c]
        /\ handle' = [handle EXCEPT ![c] = "opening"]
    BY <1>7 DEF OpenOrJoin
  <2>2. /\ awaits'[c] = c /\ opening'[t] = c /\ handle'[c] = "opening"
        /\ \A b \in Calls \ {c} : handle'[b] = handle[b]
        /\ \A u \in Tabs \ {t} : opening'[u] = opening[u]
    BY <1>1, <2>1 DEF TypeOK
  <2>3. ASSUME NEW b \in Calls PROVE HandleOK(b)'
    <3>1. CASE b = c
      BY <1>3, <2>2, <3>1 DEF HandleOK
    <3>2. CASE b # c
      <4>1. HandleOK(b) /\ pc'[b] = pc[b] /\ handle'[b] = handle[b] /\ tab'[b] = tab[b]
        BY <1>3, <1>5, <2>2, <3>2 DEF Fresh
      <4>2. handle[b] = "opening" => pc[b] # "new"
        BY <4>1 DEF HandleOK
      <4>3. pc[b] # "new" => tab[b] \in Tabs
        BY DEF QueryInv, RunsOK, CallOK
      <4>4. handle[b] = "opening" => opening'[tab[b]] = b
        BY <1>2, <1>7, <2>2, <4>1, <4>2, <4>3 DEF HandleOK
      <4> QED
        BY <4>1, <4>4 DEF HandleOK
    <3> QED
      BY <3>1, <3>2
  <2>4. ASSUME NEW u \in Tabs PROVE TabOK(u)'
    <3>1. /\ sessions[u] # Nobody => sessions[u] \in Calls \ {c}
          /\ u # t /\ opening[u] # Nobody => opening[u] \in Calls \ {c}
      BY <1>4
    <3>2. TabOK(u)
      BY <1>5
    <3> QED
      BY <2>2, <3>1, <3>2 DEF TabOK, Fresh
  <2>5. SessionsOK'
    BY <2>3, <2>4 DEF SessionsOK
  <2> QED
    BY <1>1, <1>2, <1>3, <2>1, <2>2, <2>5 DEF Asks, TypeOK, Phase
<1> QED
  BY <1>6, <1>7

\* sessionFor() up to its first await: it reuses the tab's session, takes one of another
\* database out of the map and closes it, or joins or starts an open.
LEMMA SessionForAsks ==
    ASSUME QueryInv, NEW c \in Calls, NEW t \in Tabs, NEW d, Fresh(c), tab'[c] = t,
           pc[c] # "closing", SessionFor(c, t, d)
    PROVE  Asks(c)
<1>1. TypeOK
  BY DEF QueryInv
<1>2. /\ handle[c] = "unused"
      /\ \A u \in Tabs : /\ sessions[u] # c /\ opening[u] # c
                         /\ sessions[u] # Nobody => sessions[u] \in Calls /\ pc[sessions[u]] # "new"
                         /\ opening[u] # Nobody => opening[u] \in Calls /\ pc[opening[u]] # "new"
  BY FreshIsUnknown
<1>3. /\ \A b \in Calls : HandleOK(b)
      /\ \A u \in Tabs : TabOK(u)
  BY DEF QueryInv, SessionsOK
<1>4. ASSUME sessions[t] # Nobody
      PROVE  sessions[t] \in Calls /\ pc[sessions[t]] # "new" /\ tab[sessions[t]] = t
  BY <1>2, <1>3, <1>4 DEF TabOK
<1>5. CASE /\ sessions[t] # Nobody
           /\ pc' = [pc EXCEPT ![c] = "awaiting"]
           /\ awaits' = [awaits EXCEPT ![c] = sessions[t]]
           /\ idle' = [idle EXCEPT ![sessions[t]] = FALSE]
           /\ UNCHANGED <<sessions, opening, handle>>
  <2>1. /\ pc'[c] = "awaiting" /\ awaits'[c] = sessions[t]
        /\ \A b \in Calls \ {c} : pc'[b] = pc[b]
    BY <1>1, <1>5 DEF TypeOK
  <2>2. SessionsOK'
    <3>1. \A b \in Calls \ {c} : pc'[b] = pc[b] /\ tab'[b] = tab[b]
      BY <2>1 DEF Fresh
    <3>2. pc[c] # "new" => tab'[c] = tab[c]
      BY DEF Fresh
    <3>3. pc'[c] \in {"new", "chained", "closing"} => handle[c] = "unused"
      BY <2>1
    <3> QED
      BY <1>5, <3>1, <3>2, <3>3, SessionsKept
  <2>3. idle' \in [Calls -> BOOLEAN]
    BY <1>1, <1>5 DEF TypeOK
  <2> QED
    BY <1>1, <1>4, <1>5, <2>1, <2>2, <2>3 DEF Asks, TypeOK, Phase
<1>6. CASE /\ sessions[t] # Nobody
           /\ pc' = [pc EXCEPT ![c] = "closing"]
           /\ awaits' = [awaits EXCEPT ![c] = sessions[t]]
           /\ sessions' = [sessions EXCEPT ![t] = Nobody]
           /\ handle' = [handle EXCEPT ![sessions[t]] = "closing"]
           /\ idle' = [idle EXCEPT ![sessions[t]] = FALSE]
           /\ UNCHANGED opening
  <2> DEFINE h == sessions[t]
  <2>1. h \in Calls /\ h # c /\ pc[h] # "new" /\ tab[h] = t /\ handle[h] = "open"
    BY <1>2, <1>3, <1>6 DEF TabOK
  <2>2. /\ pc'[c] = "closing" /\ awaits'[c] = h
        /\ \A b \in Calls \ {c} : pc'[b] = pc[b]
        /\ handle'[h] = "closing"
        /\ \A b \in Calls \ {h} : handle'[b] = handle[b]
        /\ sessions'[t] = Nobody
        /\ \A u \in Tabs \ {t} : sessions'[u] = sessions[u]
    BY <1>1, <1>6, <2>1 DEF TypeOK
  <2>3. pc[h] \notin {"new", "chained", "closing"}
    BY <1>3, <2>1 DEF HandleOK
  <2> HIDE DEF h
  <2>4. ASSUME NEW b \in Calls PROVE HandleOK(b)'
    <3>1. HandleOK(b)
      BY <1>3
    <3>2. CASE b = c
      BY <1>2, <2>1, <2>2, <3>2 DEF HandleOK
    <3>3. CASE b = h
      BY <2>1, <2>2, <2>3, <3>3 DEF HandleOK
    <3>4. CASE b # c /\ b # h
      <4>1. pc'[b] = pc[b] /\ handle'[b] = handle[b] /\ tab'[b] = tab[b]
        BY <2>2, <3>4 DEF Fresh
      <4> QED
        BY <1>6, <3>1, <4>1 DEF HandleOK
    <3> QED
      BY <3>2, <3>3, <3>4
  <2>5. ASSUME NEW u \in Tabs PROVE TabOK(u)'
    <3>1. TabOK(u)
      BY <1>3
    <3>2. u # t /\ sessions[u] # Nobody => sessions[u] \in Calls \ {c, h}
      BY <1>2, <2>1, <3>1 DEF TabOK
    <3>3. opening[u] # Nobody => opening[u] \in Calls \ {c, h}
      BY <1>2, <2>1, <3>1 DEF TabOK
    <3>4. sessions'[u] # Nobody => /\ handle'[sessions'[u]] = "open"
                                   /\ tab'[sessions'[u]] = u
      BY <2>2, <3>1, <3>2 DEF TabOK, Fresh
    <3>5. opening'[u] # Nobody => /\ handle'[opening'[u]] = "opening"
                                  /\ tab'[opening'[u]] = u
      BY <1>6, <2>2, <3>1, <3>3 DEF TabOK, Fresh
    <3> QED
      BY <3>4, <3>5 DEF TabOK
  <2>6. SessionsOK'
    BY <2>4, <2>5 DEF SessionsOK
  <2>7. idle' \in [Calls -> BOOLEAN]
    BY <1>1, <1>6 DEF TypeOK
  <2>8. /\ handle' \in [Calls -> {"unused", "opening", "failed", "open", "closing", "closed"}]
        /\ sessions' \in [Tabs -> Calls \cup {Nobody}]
    BY <1>1, <1>6 DEF TypeOK
  <2> QED
    BY <1>1, <1>6, <2>1, <2>2, <2>6, <2>7, <2>8 DEF Asks, TypeOK, Phase
<1>7. CASE OpenOrJoin(c, t) /\ UNCHANGED <<sessions, idle>>
  BY <1>7, OpenOrJoinAsks
<1> QED
  BY <1>5, <1>6, <1>7 DEF SessionFor

\* The session that a call waits for or uses is of a call that has arrived, of the same tab.
LEMMA CallOKAfterAsking ==
    ASSUME QueryInv, NEW c \in Calls, Asks(c), OnlyMoves(c),
           kind'[c] # "none", tab'[c] \in Tabs
    PROVE  CallOK(c)'
<1>1. TypeOK /\ CallOK(c)
  BY DEF QueryInv, RunsOK
<1>2. \A b \in 1..(c - 1) : pc[b] # "new" /\ pc'[b] = pc[b]
  BY <1>1, QueryAssumption DEF OnlyMoves, CallOK, Calls
<1>3. /\ pc'[c] \in {"closing", "awaiting"} /\ awaits'[c] \in Calls
      /\ awaits'[c] # c => pc[awaits'[c]] # "new" /\ tab[awaits'[c]] = tab'[c]
  BY DEF Asks
<1>4. \A b \in Calls \ {c} : pc'[b] = pc[b] /\ tab'[b] = tab[b]
  BY DEF OnlyMoves
<1> QED
  BY <1>2, <1>3, <1>4 DEF CallOK

\* The sessions of any set of tabs leave the map and are closed.
LEMMA ClosingKeeps ==
    ASSUME QueryInv, NEW T \in SUBSET Tabs, CloseSessions(T),
           UNCHANGED <<callVars, pc, awaits, runVars, cancelCall, interrupted>>,
           disposal' \in {"no", "closing", "done"}
    PROVE  QueryInv'
<1>1. TypeOK /\ Nobody \notin Calls
  BY QueryAssumption DEF QueryInv, Calls, Nobody
<1> DEFINE H == {sessions[t] : t \in T} \ {Nobody}
<1>2. /\ sessions' = [t \in Tabs |-> IF t \in T THEN Nobody ELSE sessions[t]]
      /\ handle' = [c \in Calls |-> IF c \in H THEN "closing" ELSE handle[c]]
      /\ idle' = [c \in Calls |-> idle[c] /\ c \notin H]
      /\ opening' = opening
  BY DEF CloseSessions
<1>3. /\ \A b \in Calls : HandleOK(b)
      /\ \A u \in Tabs : TabOK(u)
  BY DEF QueryInv, SessionsOK
<1>4. \A h \in H : h \in Calls /\ handle[h] = "open" /\ tab[h] \in T /\ sessions[tab[h]] = h
  BY <1>1, <1>3 DEF TabOK, TypeOK
<1> HIDE DEF H
<1>5. TypeOK'
  <2>1. idle' \in [Calls -> BOOLEAN]
    BY <1>2
  <2>2. /\ handle' \in [Calls -> {"unused", "opening", "failed", "open", "closing", "closed"}]
        /\ sessions' \in [Tabs -> Calls \cup {Nobody}]
    BY <1>1, <1>2 DEF TypeOK
  <2> QED
    BY <1>1, <1>2, <2>1, <2>2 DEF TypeOK, callVars, runVars
<1>6. RunsOK'
  BY DEF QueryInv, RunsOK, CallOK, RunOK, StatementsOK, IsTurn, callVars, runVars
<1>7. ASSUME NEW b \in Calls PROVE HandleOK(b)'
  <2>1. handle'[b] = IF b \in H THEN "closing" ELSE handle[b]
    BY <1>2
  <2>2. b \in H => pc[b] \notin {"new", "chained", "closing"}
    BY <1>3, <1>4 DEF HandleOK
  <2> QED
    BY <1>2, <1>3, <2>1, <2>2 DEF HandleOK, callVars
<1>8. ASSUME NEW u \in Tabs PROVE TabOK(u)'
  <2>1. TabOK(u) /\ sessions[u] \in Calls \cup {Nobody} /\ opening[u] \in Calls \cup {Nobody}
    BY <1>1, <1>3 DEF TypeOK
  <2>2. sessions'[u] = IF u \in T THEN Nobody ELSE sessions[u]
    BY <1>2
  <2>3. opening[u] # Nobody => handle'[opening[u]] = "opening"
    BY <1>2, <1>4, <2>1 DEF TabOK
  <2>4. u \notin T /\ sessions[u] # Nobody => handle'[sessions[u]] = "open"
    BY <1>2, <1>4, <2>1 DEF TabOK
  <2> QED
    BY <1>2, <2>1, <2>2, <2>3, <2>4 DEF TabOK, callVars
<1> QED
  BY <1>5, <1>6, <1>7, <1>8 DEF QueryInv, SessionsOK

-----------------------------------------------------------------------------
(* The steps *)

LEMMA InitOK == Init => QueryInv
<1> SUFFICES ASSUME Init PROVE QueryInv
  OBVIOUS
<1>1. <<>> \in Seq(StatementState) /\ Len(<<>>) = 0
  OBVIOUS
<1>2. TypeOK
  BY <1>1, QueryAssumption DEF Init, TypeOK, Phase, ExecutionState
<1>3. RunsOK
  BY <1>1 DEF Init, RunsOK, CallOK, RunOK, StatementsOK
<1>4. SessionsOK
  BY DEF Init, SessionsOK, HandleOK, TabOK
<1> QED
  BY <1>2, <1>3, <1>4 DEF QueryInv

\* What arriving does to the call's own record.
LEMMA ArrivesEffect ==
    ASSUME QueryInv, NEW c \in Calls, NEW k \in {"execute", "lookup"}, NEW t \in Tabs,
           NEW d \in Dbs, Arrives(c, k, t, d)
    PROVE  /\ pc[c] = "new" /\ \A b \in 1..(c - 1) : pc[b] # "new"
           /\ kind' \in [Calls -> {"none", "execute", "lookup"}]
           /\ tab' \in [Calls -> Tabs \cup {"none"}]
           /\ db' \in [Calls -> Dbs \cup {"none"}]
           /\ kind'[c] = k /\ tab'[c] = t
           /\ \A b \in Calls \ {c} : kind'[b] = kind[b] /\ tab'[b] = tab[b]
           /\ Fresh(c)
           /\ state[c] = "none" /\ Len(stmts[c]) = 0 /\ cancelCall[c] = "none"
<1>1. TypeOK /\ CallOK(c) /\ StatementsOK(c) /\ RunOK(c)
  BY DEF QueryInv, RunsOK
<1>2. /\ pc[c] = "new" /\ \A b \in 1..(c - 1) : pc[b] # "new"
      /\ kind' = [kind EXCEPT ![c] = k]
      /\ tab' = [tab EXCEPT ![c] = t]
      /\ db' = [db EXCEPT ![c] = d]
  BY DEF Arrives
<1>3. /\ kind' \in [Calls -> {"none", "execute", "lookup"}]
      /\ tab' \in [Calls -> Tabs \cup {"none"}]
      /\ db' \in [Calls -> Dbs \cup {"none"}]
  BY <1>1, <1>2 DEF TypeOK
<1>4. /\ kind'[c] = k /\ tab'[c] = t
      /\ \A b \in Calls \ {c} : kind'[b] = kind[b] /\ tab'[b] = tab[b]
  BY <1>1, <1>2 DEF TypeOK
<1>5. state[c] = "none" /\ Len(stmts[c]) = 0 /\ cancelCall[c] = "none"
  BY <1>1, <1>2 DEF CallOK, StatementsOK, RunOK
<1> QED
  BY <1>2, <1>3, <1>4, <1>5 DEF Fresh

LEMMA StartKeeps ==
    ASSUME QueryInv, NEW c \in Calls, NEW t \in Tabs, NEW d \in Dbs, Start(c, t, d)
    PROVE  QueryInv'
<1>1. TypeOK
  BY DEF QueryInv
<1>2. Arrives(c, "execute", t, d)
  BY DEF Start
<1>3. /\ state' = [state EXCEPT ![c] = "queued"]
      /\ pc' = [pc EXCEPT ![c] = "chained"]
      /\ UNCHANGED <<awaits, stmts, cancelRequested, history, cancelCall, interrupted,
                     sessions, opening, handle, idle, disposal>>
  BY DEF Start, sessionVars
<1>4. /\ pc'[c] = "chained" /\ state'[c] = "queued"
      /\ \A b \in Calls \ {c} : pc'[b] = pc[b] /\ state'[b] = state[b]
  BY <1>1, <1>3 DEF TypeOK
<1>5. /\ pc[c] = "new" /\ \A b \in 1..(c - 1) : pc[b] # "new"
      /\ kind'[c] = "execute" /\ tab'[c] = t
      /\ \A b \in Calls \ {c} : kind'[b] = kind[b] /\ tab'[b] = tab[b]
      /\ Len(stmts[c]) = 0 /\ cancelCall[c] = "none" /\ handle[c] = "unused"
  BY <1>2, ArrivesEffect, FreshIsUnknown
<1>6. TypeOK'
  <2>1. /\ kind' \in [Calls -> {"none", "execute", "lookup"}]
        /\ tab' \in [Calls -> Tabs \cup {"none"}]
        /\ db' \in [Calls -> Dbs \cup {"none"}]
    BY <1>2, ArrivesEffect
  <2> QED
    BY <1>1, <1>3, <2>1 DEF TypeOK, Phase, ExecutionState
<1>7. OnlyMoves(c)
  BY <1>3, <1>4, <1>5 DEF OnlyMoves
<1>8. CallOK(c)' /\ RunOK(c)' /\ StatementsOK(c)'
  <2>1. \A b \in 1..(c - 1) : pc'[b] # "new"
    BY <1>4, <1>5, QueryAssumption DEF Calls
  <2> QED
    BY <1>3, <1>4, <1>5, <2>1 DEF CallOK, RunOK, StatementsOK
<1>9. SessionsOK'
  BY <1>3, <1>4, <1>5, SessionsKept
<1> QED
  BY <1>6, <1>7, <1>8, <1>9, OthersKeep DEF QueryInv, RunsOK

\* explain() and autocomplete() arrive and ask for the tab's session.
LEMMA LookupKeeps ==
    ASSUME QueryInv, NEW c \in Calls, NEW t \in Tabs, NEW d \in Dbs,
           Arrives(c, "lookup", t, d), SessionFor(c, t, d),
           UNCHANGED <<runVars, cancelCall, interrupted, disposal>>
    PROVE  QueryInv'
<1>1. TypeOK
  BY DEF QueryInv
<1>2. /\ pc[c] = "new" /\ \A b \in 1..(c - 1) : pc[b] # "new"
      /\ kind'[c] = "lookup" /\ tab'[c] = t
      /\ \A b \in Calls \ {c} : kind'[b] = kind[b] /\ tab'[b] = tab[b]
      /\ Fresh(c)
      /\ state[c] = "none" /\ Len(stmts[c]) = 0 /\ cancelCall[c] = "none"
  BY ArrivesEffect
<1>3. Asks(c)
  BY <1>2, SessionForAsks
<1>4. /\ UNCHANGED <<state, stmts, cancelRequested, history, cancelCall, interrupted, disposal>>
      /\ pc'[c] \in {"closing", "awaiting"}
      /\ \A b \in Calls \ {c} : pc'[b] = pc[b] /\ awaits'[b] = awaits[b]
  BY <1>3 DEF Asks, runVars
<1>6. TypeOK'
  <2>1. /\ kind' \in [Calls -> {"none", "execute", "lookup"}]
        /\ tab' \in [Calls -> Tabs \cup {"none"}]
        /\ db' \in [Calls -> Dbs \cup {"none"}]
    BY ArrivesEffect
  <2> QED
    BY <1>1, <1>3, <1>4, <2>1 DEF TypeOK, Asks
<1>5. OnlyMoves(c)
  BY <1>2, <1>4 DEF OnlyMoves
<1>7. CallOK(c)'
  BY <1>2, <1>3, <1>5, CallOKAfterAsking
<1>8. RunOK(c)' /\ StatementsOK(c)'
  BY <1>2, <1>4 DEF RunOK, StatementsOK
<1> QED
  BY <1>3, <1>5, <1>6, <1>7, <1>8, OthersKeep DEF QueryInv, RunsOK, Asks

\* A call that has its session moves on to phase p without touching the session map: it is
\* enough that its own state and statements fit p.
LEMMA MovingKeeps ==
    ASSUME QueryInv, NEW c \in Calls, NEW p \in {"executing", "working", "done"},
           pc' = [pc EXCEPT ![c] = p],
           pc[c] \notin {"new", "done"},
           p = "executing" => pc[c] \in {"awaiting", "executing"} /\ kind[c] = "execute",
           p = "working" => pc[c] = "awaiting",
           kind[c] = "execute" => IsTurn(c),
           UNCHANGED <<kind, tab, db, awaits, cancelRequested, cancelCall, sessions, opening,
                       handle, disposal>>,
           state' \in [Calls -> ExecutionState \cup {"none"}],
           \A b \in Calls \ {c} : state'[b] = state[b],
           kind[c] # "execute" => state'[c] = "none",
           p = "executing" => state'[c] \in {"running", "cancelling"},
           stmts' \in [Calls -> Seq(StatementState)],
           \A b \in Calls \ {c} : stmts'[b] = stmts[b],
           Len(stmts'[c]) <= MaxStatements,
           p = "working" => Len(stmts'[c]) = 0,
           p = "executing" => \E k \in 1..Len(stmts'[c]) : Running(stmts'[c], k),
           p = "done" => Stopped(stmts'[c]),
           state'[c] = "completed" => /\ p = "done" /\ Len(stmts'[c]) # 0
                                      /\ \A i \in 1..Len(stmts'[c]) : stmts'[c][i] = "done",
           history' \in [Calls -> ExecutionState \cup {"none"}],
           interrupted' \in [Calls -> BOOLEAN],
           idle' \in [Calls -> BOOLEAN]
    PROVE  QueryInv'
<1>1. TypeOK /\ CallOK(c) /\ RunOK(c)
  BY DEF QueryInv, RunsOK
<1>2. pc' \in [Calls -> Phase] /\ pc'[c] = p /\ \A b \in Calls \ {c} : pc'[b] = pc[b]
  BY <1>1 DEF TypeOK, Phase
<1>3. \A b \in Calls : Len(stmts'[b]) <= MaxStatements
  BY <1>1 DEF TypeOK
<1>4. TypeOK'
  BY <1>1, <1>2, <1>3 DEF TypeOK
<1>5. OnlyMoves(c)
  BY <1>2 DEF OnlyMoves
<1>6. CallOK(c)'
  <2>1. \A b \in 1..(c - 1) : pc'[b] # "new"
    BY <1>1, <1>2, QueryAssumption DEF CallOK, Calls
  <2>2. p # "done" => awaits[c] \in Calls /\ pc'[awaits[c]] # "new" /\ tab[awaits[c]] = tab[c]
    BY <1>1, <1>2 DEF CallOK
  <2> QED
    BY <1>1, <1>2, <2>1, <2>2 DEF CallOK
<1>7. RunOK(c)'
  <2>1. kind[c] = "execute" => IsTurn(c)'
    BY <1>5, TurnKept
  <2>2. cancelCall[c] # "none" => pc[c] = "executing" /\ kind[c] = "execute"
    BY <1>1 DEF RunOK
  <2> QED
    BY <1>2, <2>1, <2>2 DEF RunOK
<1>8. StatementsOK(c)'
  BY <1>2 DEF StatementsOK, Running, Stopped
<1>9. SessionsOK'
  <2>1. \A b \in Calls \ {c} : pc'[b] = pc[b] /\ tab'[b] = tab[b]
    BY <1>2
  <2>2. tab'[c] = tab[c] /\ pc'[c] \notin {"new", "chained", "closing"}
    BY <1>2
  <2> QED
    BY <2>1, <2>2, SessionsKept
<1> QED
  BY <1>4, <1>5, <1>6, <1>7, <1>8, <1>9, OthersKeep DEF QueryInv, RunsOK

\* A call that has not sent a statement has none, and none that will not go on.
LEMMA NothingSent ==
    ASSUME QueryInv, NEW c \in Calls, pc[c] \notin {"executing", "done"}
    PROVE  /\ Len(stmts[c]) = 0 /\ Stopped(stmts[c]) /\ state[c] # "completed"
           /\ stmts \in [Calls -> Seq(StatementState)] /\ Len(stmts[c]) <= MaxStatements
<1>1. TypeOK /\ StatementsOK(c)
  BY DEF QueryInv, RunsOK
<1> QED
  BY <1>1 DEF TypeOK, StatementsOK, Stopped

\* run() leaves in state s before it has sent a statement.
LEMMA EndingKeeps ==
    ASSUME QueryInv, NEW c \in Calls, NEW s \in ExecutionState \ {"completed"},
           EndRun(c, s), pc[c] \in {"chained", "closing", "awaiting"},
           kind[c] = "execute", IsTurn(c),
           UNCHANGED <<callVars, awaits, stmts, cancelRequested, cancelCall, interrupted,
                       sessionVars, disposal>>
    PROVE  QueryInv'
<1>1. TypeOK
  BY DEF QueryInv
<1>2. /\ state' = [state EXCEPT ![c] = s]
      /\ history' = [history EXCEPT ![c] = s]
      /\ pc' = [pc EXCEPT ![c] = "done"]
      /\ UNCHANGED <<kind, tab, db, awaits, cancelRequested, cancelCall, sessions, opening,
                     handle, disposal>>
      /\ UNCHANGED <<stmts, interrupted, idle>>
  BY DEF EndRun, callVars, sessionVars
<1>3. /\ state' \in [Calls -> ExecutionState \cup {"none"}]
      /\ history' \in [Calls -> ExecutionState \cup {"none"}]
      /\ state'[c] = s
      /\ \A b \in Calls \ {c} : state'[b] = state[b]
  BY <1>1, <1>2 DEF TypeOK
<1>4. Stopped(stmts[c]) /\ stmts \in [Calls -> Seq(StatementState)] /\ Len(stmts[c]) <= MaxStatements
  BY NothingSent
<1>5. /\ interrupted' \in [Calls -> BOOLEAN]
      /\ idle' \in [Calls -> BOOLEAN]
  BY <1>1, <1>2 DEF TypeOK
<1>6. Stopped(stmts'[c]) /\ stmts' \in [Calls -> Seq(StatementState)] /\ Len(stmts'[c]) <= MaxStatements
      /\ \A b \in Calls \ {c} : stmts'[b] = stmts[b]
  BY <1>2, <1>4
<1>7. state'[c] # "completed"
  BY <1>3
<1>8. pc[c] \notin {"new", "done"}
  OBVIOUS
<1> QED
  BY <1>2, <1>3, <1>5, <1>6, <1>7, <1>8, MovingKeeps

\* An execution is past its queue only when it is its turn.
LEMMA TurnReached ==
    ASSUME QueryInv, NEW c \in Calls, kind[c] = "execute", pc[c] # "chained"
    PROVE  IsTurn(c)
  BY DEF QueryInv, RunsOK, RunOK

LEMMA RunCancelledKeeps ==
    ASSUME QueryInv, NEW c \in Calls, RunCancelled(c)
    PROVE  QueryInv'
<1>1. kind[c] = "execute"
  BY DEF QueryInv, RunsOK, RunOK, RunCancelled
<1>2. "cancelled" \in ExecutionState \ {"completed"}
  BY DEF ExecutionState
<1>3. /\ EndRun(c, "cancelled") /\ pc[c] \in {"chained", "closing", "awaiting"} /\ IsTurn(c)
      /\ UNCHANGED <<callVars, awaits, stmts, cancelRequested, cancelCall, interrupted,
                     sessionVars, disposal>>
  BY DEF RunCancelled
<1> QED
  BY <1>1, <1>2, <1>3, EndingKeeps

\* sessionFor() rejects: a run fails, a lookup throws.
LEMMA ThrowingKeeps ==
    ASSUME QueryInv, NEW c \in Calls, pc[c] \in {"closing", "awaiting"}, Throws(c),
           UNCHANGED <<callVars, awaits, cancelCall, interrupted, sessionVars, disposal>>
    PROVE  QueryInv'
<1>1. TypeOK /\ RunOK(c)
  BY DEF QueryInv, RunsOK
<1>2. CASE kind[c] = "execute"
  <2>1. "failed" \in ExecutionState \ {"completed"}
    BY DEF ExecutionState
  <2>2. EndRun(c, "failed") /\ UNCHANGED <<stmts, cancelRequested>>
    BY <1>2 DEF Throws
  <2>3. IsTurn(c)
    BY <1>2, TurnReached
  <2> QED
    BY <1>2, <2>1, <2>2, <2>3, EndingKeeps
<1>3. CASE kind[c] # "execute"
  <2>1. /\ pc' = [pc EXCEPT ![c] = "done"]
        /\ UNCHANGED <<kind, tab, db, awaits, cancelRequested, cancelCall, sessions, opening,
                       handle, disposal>>
        /\ UNCHANGED <<state, stmts, history, interrupted, idle>>
    BY <1>3 DEF Throws, runVars, callVars, sessionVars
  <2>2. /\ state' \in [Calls -> ExecutionState \cup {"none"}]
        /\ history' \in [Calls -> ExecutionState \cup {"none"}]
        /\ interrupted' \in [Calls -> BOOLEAN]
        /\ idle' \in [Calls -> BOOLEAN]
    BY <1>1, <2>1 DEF TypeOK
  <2>3. \A b \in Calls \ {c} : state'[b] = state[b] /\ stmts'[b] = stmts[b]
    BY <2>1
  <2>4. Stopped(stmts'[c]) /\ stmts' \in [Calls -> Seq(StatementState)] /\ Len(stmts'[c]) <= MaxStatements
    <3>1. Stopped(stmts[c]) /\ stmts \in [Calls -> Seq(StatementState)] /\ Len(stmts[c]) <= MaxStatements
      BY NothingSent
    <3> QED
      BY <2>1, <3>1
  <2>5. state'[c] = "none" /\ pc[c] \notin {"new", "done"}
    BY <1>1, <1>3, <2>1 DEF RunOK
  <2> QED
    BY <1>3, <2>1, <2>2, <2>3, <2>4, <2>5, MovingKeeps
<1> QED
  BY <1>2, <1>3

\* run() reaches its turn and asks for the tab's session.
LEMMA RunStartsKeeps ==
    ASSUME QueryInv, NEW c \in Calls, RunStarts(c)
    PROVE  QueryInv'
<1>1. TypeOK /\ CallOK(c) /\ RunOK(c)
  BY DEF QueryInv, RunsOK
<1>2. /\ pc[c] = "chained" /\ IsTurn(c)
      /\ state' = [state EXCEPT ![c] = "running"]
      /\ SessionFor(c, tab[c], db[c])
      /\ UNCHANGED <<kind, tab, db, stmts, cancelRequested, history, cancelCall, interrupted,
                     disposal>>
  BY DEF RunStarts, callVars
<1>3. kind[c] = "execute" /\ tab[c] \in Tabs /\ cancelCall[c] = "none"
  BY <1>1, <1>2 DEF CallOK, RunOK
<1>4. Asks(c)
  <2>1. Fresh(c) /\ tab'[c] = tab[c] /\ pc[c] # "closing"
    BY <1>2 DEF Fresh
  <2> QED
    BY <1>2, <1>3, <2>1, SessionForAsks
<1>5. /\ state' \in [Calls -> ExecutionState \cup {"none"}]
      /\ state'[c] = "running" /\ \A b \in Calls \ {c} : state'[b] = state[b]
  BY <1>1, <1>2 DEF TypeOK, ExecutionState
<1>6. /\ pc'[c] \in {"closing", "awaiting"}
      /\ \A b \in Calls \ {c} : pc'[b] = pc[b] /\ awaits'[b] = awaits[b]
  BY <1>4 DEF Asks
<1>7. TypeOK'
  BY <1>1, <1>2, <1>4, <1>5 DEF TypeOK, Asks
<1>8. OnlyMoves(c)
  BY <1>2, <1>5, <1>6 DEF OnlyMoves
<1>9. CallOK(c)'
  BY <1>2, <1>3, <1>4, <1>8, CallOKAfterAsking
<1>10. RunOK(c)' /\ StatementsOK(c)'
  <2>1. IsTurn(c)'
    BY <1>2, <1>8, TurnKept
  <2>2. Len(stmts[c]) = 0
    BY <1>2, NothingSent
  <2> QED
    BY <1>2, <1>3, <1>5, <1>6, <2>1, <2>2 DEF RunOK, StatementsOK
<1> QED
  BY <1>4, <1>7, <1>8, <1>9, <1>10, OthersKeep DEF QueryInv, RunsOK, Asks

\* The session of the other database is closed, and the call asks for one of its own.
LEMMA OldSessionClosedKeeps ==
    ASSUME QueryInv, NEW c \in Calls, OldSessionClosed(c)
    PROVE  QueryInv'
<1>1. TypeOK /\ CallOK(c) /\ RunOK(c)
  BY DEF QueryInv, RunsOK
<1>2. /\ pc[c] = "closing" /\ OpenOrJoin(c, tab[c])
      /\ UNCHANGED <<kind, tab, db, state, stmts, cancelRequested, history, cancelCall,
                     interrupted, sessions, idle, disposal>>
  BY DEF OldSessionClosed, callVars, runVars
<1>3. kind[c] # "none" /\ tab[c] \in Tabs /\ cancelCall[c] = "none"
  BY <1>1, <1>2 DEF CallOK, RunOK
<1>4. Asks(c)
  <2>1. Fresh(c) /\ tab'[c] = tab[c]
    BY <1>2 DEF Fresh
  <2> QED
    BY <1>2, <1>3, <2>1, OpenOrJoinAsks
<1>5. /\ pc'[c] \in {"closing", "awaiting"}
      /\ \A b \in Calls \ {c} : pc'[b] = pc[b] /\ awaits'[b] = awaits[b]
  BY <1>4 DEF Asks
<1>6. TypeOK'
  BY <1>1, <1>2, <1>4 DEF TypeOK, Asks
<1>7. OnlyMoves(c)
  BY <1>2, <1>5 DEF OnlyMoves
<1>8. CallOK(c)'
  BY <1>2, <1>3, <1>4, <1>7, CallOKAfterAsking
<1>9. RunOK(c)' /\ StatementsOK(c)'
  <2>1. kind[c] = "execute" => IsTurn(c)'
    BY <1>2, <1>7, TurnReached, TurnKept
  <2>2. Len(stmts[c]) = 0 /\ state[c] # "completed"
    BY <1>2, NothingSent
  <2> QED
    BY <1>1, <1>2, <1>3, <1>5, <2>1, <2>2 DEF RunOK, StatementsOK
<1> QED
  BY <1>4, <1>6, <1>7, <1>8, <1>9, OthersKeep DEF QueryInv, RunsOK, Asks

LEMMA RunStopsEarlyKeeps ==
    ASSUME QueryInv, NEW c \in Calls, RunStopsEarly(c)
    PROVE  QueryInv'
<1>1. /\ pc[c] = "awaiting" /\ kind[c] = "execute" /\ EndRun(c, state[c])
      /\ UNCHANGED <<callVars, awaits, stmts, cancelRequested, cancelCall, interrupted,
                     sessionVars, disposal>>
  BY DEF RunStopsEarly, Resolved
<1>2. state[c] \in ExecutionState \ {"completed"}
  BY <1>1 DEF QueryInv, RunsOK, RunOK, ExecutionState
<1>3. IsTurn(c)
  BY <1>1, TurnReached
<1> QED
  BY <1>1, <1>2, <1>3, EndingKeeps

\* run() fails on an empty SQL text, or sends the first statement.
LEMMA RunSplitsKeeps ==
    ASSUME QueryInv, NEW c \in Calls, NEW n \in 0..MaxStatements, RunSplits(c, n)
    PROVE  QueryInv'
<1>1. TypeOK /\ RunOK(c)
  BY DEF QueryInv, RunsOK
<1>2. /\ pc[c] = "awaiting" /\ kind[c] = "execute"
      /\ UNCHANGED <<callVars, awaits, cancelRequested, cancelCall, interrupted, sessionVars,
                     disposal>>
      /\ UNCHANGED <<kind, tab, db, awaits, cancelRequested, cancelCall, sessions, opening,
                     handle, disposal>>
      /\ UNCHANGED <<interrupted, idle>>
  BY DEF RunSplits, Resolved, callVars, sessionVars
<1>3. IsTurn(c)
  BY <1>2, TurnReached
<1>4. CASE n = 0
  <2>1. EndRun(c, "failed") /\ UNCHANGED stmts
    BY <1>4 DEF RunSplits
  <2>2. "failed" \in ExecutionState \ {"completed"}
    BY DEF ExecutionState
  <2> QED
    BY <1>2, <1>3, <2>1, <2>2, EndingKeeps
<1>5. CASE n # 0
  <2> DEFINE u == [i \in 1..n |-> IF i = 1 THEN "running" ELSE "pending"]
  <2>1. /\ stmts' = [stmts EXCEPT ![c] = u]
        /\ pc' = [pc EXCEPT ![c] = "executing"]
        /\ UNCHANGED <<state, history>>
    BY <1>5 DEF RunSplits
  <2>2. n \in Nat /\ n <= MaxStatements /\ 1 \in 1..n
    BY <1>5, QueryAssumption
  <2>3. u \in [1..n -> StatementState]
    BY DEF StatementState
  <2>4. u \in Seq(StatementState) /\ Len(u) = n /\ Running(u, 1)
    BY <2>2, <2>3 DEF Running
  <2> HIDE DEF u
  <2>5. /\ stmts'[c] = u
        /\ stmts' \in [Calls -> Seq(StatementState)]
        /\ \A b \in Calls \ {c} : stmts'[b] = stmts[b]
    BY <1>1, <2>1, <2>4 DEF TypeOK
  <2>6. Len(stmts'[c]) <= MaxStatements /\ \E k \in 1..Len(stmts'[c]) : Running(stmts'[c], k)
    BY <2>2, <2>4, <2>5
  <2>7. /\ state' \in [Calls -> ExecutionState \cup {"none"}]
        /\ history' \in [Calls -> ExecutionState \cup {"none"}]
        /\ interrupted' \in [Calls -> BOOLEAN]
        /\ idle' \in [Calls -> BOOLEAN]
        /\ \A b \in Calls \ {c} : state'[b] = state[b]
    BY <1>1, <1>2, <2>1 DEF TypeOK
  <2>8. state'[c] = "running"
    BY <1>1, <1>2, <2>1 DEF RunSplits, RunOK
  <2>9. pc[c] \notin {"new", "done"}
    BY <1>2
  <2> QED
    BY <1>2, <1>3, <2>1, <2>5, <2>6, <2>7, <2>8, <2>9, MovingKeeps
<1> QED
  BY <1>4, <1>5

\* What is known of a call while query.execute works on its statement.
LEMMA ExecutingFacts ==
    ASSUME QueryInv, NEW c \in Calls, pc[c] = "executing"
    PROVE  /\ kind[c] = "execute" /\ IsTurn(c) /\ state[c] \in {"running", "cancelling"}
           /\ stmts[c] \in Seq(StatementState) /\ Len(stmts[c]) <= MaxStatements
           /\ Current(c) \in 1..Len(stmts[c]) /\ Running(stmts[c], Current(c))
<1>1. TypeOK /\ RunOK(c) /\ StatementsOK(c)
  BY DEF QueryInv, RunsOK
<1>2. stmts[c] \in Seq(StatementState) /\ Len(stmts[c]) <= MaxStatements
  BY <1>1 DEF TypeOK
<1>3. PICK k \in 1..Len(stmts[c]) : Running(stmts[c], k)
  BY <1>1 DEF StatementsOK
<1>4. Current(c) = k
  BY <1>2, <1>3, CurrentRuns
<1> QED
  BY <1>1, <1>2, <1>3, <1>4 DEF RunOK

\* query.execute resolves.
LEMMA StatementDoneKeeps ==
    ASSUME QueryInv, NEW c \in Calls, StatementDone(c)
    PROVE  QueryInv'
<1> DEFINE k == Current(c)
           u == [stmts[c] EXCEPT ![k] = "done"]
           v == [u EXCEPT ![k + 1] = "running"]
<1>1. TypeOK
  BY DEF QueryInv
<1>2. /\ pc[c] = "executing"
      /\ interrupted' = [interrupted EXCEPT ![c] = FALSE]
      /\ idle' = [idle EXCEPT ![awaits[c]] = FALSE]
      /\ UNCHANGED <<kind, tab, db, awaits, cancelRequested, cancelCall, sessions, opening,
                     handle, disposal>>
  BY DEF StatementDone, callVars
<1>3. /\ kind[c] = "execute" /\ IsTurn(c) /\ state[c] \in {"running", "cancelling"}
      /\ stmts[c] \in Seq(StatementState) /\ Len(stmts[c]) <= MaxStatements
      /\ k \in 1..Len(stmts[c]) /\ Running(stmts[c], k)
  BY <1>2, ExecutingFacts
<1>4. /\ u \in Seq(StatementState) /\ Len(u) = Len(stmts[c])
      /\ SkipUnfinished(u) \in Seq(StatementState)
      /\ Len(SkipUnfinished(u)) = Len(stmts[c])
      /\ Stopped(SkipUnfinished(u))
      /\ k = Len(stmts[c]) => Stopped(u) /\ \A i \in 1..Len(stmts[c]) : u[i] = "done"
      /\ k < Len(stmts[c]) => /\ v \in Seq(StatementState) /\ Len(v) = Len(stmts[c])
                              /\ k + 1 \in 1..Len(v) /\ Running(v, k + 1)
  BY <1>3, DoneEffect
<1>5. /\ interrupted' \in [Calls -> BOOLEAN] /\ idle' \in [Calls -> BOOLEAN]
  BY <1>1, <1>2 DEF TypeOK
<1>6. \/ /\ k = Len(u)
         /\ stmts' = [stmts EXCEPT ![c] = u]
         /\ EndRun(c, IF state[c] = "running" THEN "completed" ELSE state[c])
      \/ /\ k < Len(u) /\ cancelRequested[c]
         /\ stmts' = [stmts EXCEPT ![c] = SkipUnfinished(u)]
         /\ EndRun(c, "cancelled")
      \/ /\ k < Len(u) /\ ~cancelRequested[c]
         /\ stmts' = [stmts EXCEPT ![c] = v]
         /\ UNCHANGED <<pc, state, history>>
  BY DEF StatementDone
<1>7. pc[c] \notin {"new", "done"} /\ pc[c] \in {"awaiting", "executing"}
  BY <1>2
<1> HIDE DEF k, u, v
<1>8. CASE /\ k = Len(u)
           /\ stmts' = [stmts EXCEPT ![c] = u]
           /\ EndRun(c, IF state[c] = "running" THEN "completed" ELSE state[c])
  <2>1. /\ pc' = [pc EXCEPT ![c] = "done"]
        /\ state' = [state EXCEPT ![c] = IF state[c] = "running" THEN "completed" ELSE state[c]]
        /\ history' = [history EXCEPT ![c] = IF state[c] = "running" THEN "completed" ELSE state[c]]
    BY <1>8 DEF EndRun
  <2>2. (IF state[c] = "running" THEN "completed" ELSE state[c]) \in ExecutionState
    BY <1>3 DEF ExecutionState
  <2>3. /\ state' \in [Calls -> ExecutionState \cup {"none"}]
        /\ history' \in [Calls -> ExecutionState \cup {"none"}]
        /\ \A b \in Calls \ {c} : state'[b] = state[b]
    BY <1>1, <2>1, <2>2 DEF TypeOK
  <2>4. /\ stmts'[c] = u /\ stmts' \in [Calls -> Seq(StatementState)]
        /\ \A b \in Calls \ {c} : stmts'[b] = stmts[b]
    BY <1>1, <1>4, <1>8 DEF TypeOK
  <2>5. /\ Len(stmts'[c]) <= MaxStatements /\ Stopped(stmts'[c]) /\ Len(stmts'[c]) # 0
        /\ \A i \in 1..Len(stmts'[c]) : stmts'[c][i] = "done"
    BY <1>3, <1>4, <1>8, <2>4
  <2> QED
    BY <1>2, <1>3, <1>5, <1>7, <2>1, <2>3, <2>4, <2>5, MovingKeeps
<1>9. CASE /\ k < Len(u) /\ cancelRequested[c]
           /\ stmts' = [stmts EXCEPT ![c] = SkipUnfinished(u)]
           /\ EndRun(c, "cancelled")
  <2>1. /\ pc' = [pc EXCEPT ![c] = "done"]
        /\ state' = [state EXCEPT ![c] = "cancelled"]
        /\ history' = [history EXCEPT ![c] = "cancelled"]
    BY <1>9 DEF EndRun
  <2>2. /\ state' \in [Calls -> ExecutionState \cup {"none"}]
        /\ history' \in [Calls -> ExecutionState \cup {"none"}]
        /\ \A b \in Calls \ {c} : state'[b] = state[b]
        /\ state'[c] = "cancelled"
    BY <1>1, <2>1 DEF TypeOK, ExecutionState
  <2>3. /\ stmts'[c] = SkipUnfinished(u) /\ stmts' \in [Calls -> Seq(StatementState)]
        /\ \A b \in Calls \ {c} : stmts'[b] = stmts[b]
    BY <1>1, <1>4, <1>9 DEF TypeOK
  <2>4. Len(stmts'[c]) <= MaxStatements /\ Stopped(stmts'[c])
    BY <1>3, <1>4, <2>3
  <2> QED
    BY <1>2, <1>3, <1>5, <1>7, <2>1, <2>2, <2>3, <2>4, MovingKeeps
<1>10. CASE /\ k < Len(u) /\ ~cancelRequested[c]
            /\ stmts' = [stmts EXCEPT ![c] = v]
            /\ UNCHANGED <<pc, state, history>>
  <2>1. pc' = [pc EXCEPT ![c] = "executing"]
    BY <1>1, <1>2, <1>10 DEF TypeOK
  <2>2. /\ state' \in [Calls -> ExecutionState \cup {"none"}]
        /\ history' \in [Calls -> ExecutionState \cup {"none"}]
        /\ \A b \in Calls \ {c} : state'[b] = state[b]
        /\ state'[c] \in {"running", "cancelling"}
    BY <1>1, <1>3, <1>10 DEF TypeOK
  <2>3. /\ stmts'[c] = v /\ stmts' \in [Calls -> Seq(StatementState)]
        /\ \A b \in Calls \ {c} : stmts'[b] = stmts[b]
    BY <1>1, <1>4, <1>10 DEF TypeOK
  <2>4. Len(stmts'[c]) <= MaxStatements /\ \E i \in 1..Len(stmts'[c]) : Running(stmts'[c], i)
    BY <1>3, <1>4, <1>10, <2>3
  <2> QED
    BY <1>2, <1>3, <1>5, <1>7, <2>1, <2>2, <2>3, <2>4, MovingKeeps
<1> QED
  BY <1>6, <1>8, <1>9, <1>10

\* query.execute rejects.
LEMMA StatementFailsKeeps ==
    ASSUME QueryInv, NEW c \in Calls, NEW g, StatementFails(c, g)
    PROVE  QueryInv'
<1> DEFINE k == Current(c)
           u == [i \in 1..Len(stmts[c]) |-> IF i = k THEN "error"
                                            ELSE IF i > k THEN "skipped" ELSE stmts[c][i]]
           e == IF cancelRequested[c] /\ g = "cancelled" THEN "cancelled" ELSE "failed"
<1>1. TypeOK
  BY DEF QueryInv
<1>2. /\ pc[c] = "executing"
      /\ interrupted' = [interrupted EXCEPT ![c] = FALSE]
      /\ UNCHANGED <<kind, tab, db, awaits, cancelRequested, cancelCall, sessions, opening,
                     handle, disposal>>
      /\ UNCHANGED idle
      /\ stmts' = [stmts EXCEPT ![c] = u]
      /\ EndRun(c, e)
  BY DEF StatementFails, callVars, sessionVars
<1>3. /\ kind[c] = "execute" /\ IsTurn(c)
      /\ stmts[c] \in Seq(StatementState) /\ Len(stmts[c]) <= MaxStatements
      /\ k \in 1..Len(stmts[c]) /\ Running(stmts[c], k)
  BY <1>2, ExecutingFacts
<1>4. u \in Seq(StatementState) /\ Len(u) = Len(stmts[c]) /\ Stopped(u)
  BY <1>3, FailureEffect
<1>5. e \in {"cancelled", "failed"}
  OBVIOUS
<1> HIDE DEF k, u, e
<1>6. /\ pc' = [pc EXCEPT ![c] = "done"]
      /\ state' = [state EXCEPT ![c] = e]
      /\ history' = [history EXCEPT ![c] = e]
  BY <1>2 DEF EndRun
<1>7. /\ state' \in [Calls -> ExecutionState \cup {"none"}]
      /\ history' \in [Calls -> ExecutionState \cup {"none"}]
      /\ \A b \in Calls \ {c} : state'[b] = state[b]
      /\ state'[c] = e
  BY <1>1, <1>5, <1>6 DEF TypeOK, ExecutionState
<1>8. /\ stmts'[c] = u /\ stmts' \in [Calls -> Seq(StatementState)]
      /\ \A b \in Calls \ {c} : stmts'[b] = stmts[b]
  BY <1>1, <1>2, <1>4 DEF TypeOK
<1>9. Len(stmts'[c]) <= MaxStatements /\ Stopped(stmts'[c]) /\ state'[c] # "completed"
  BY <1>3, <1>4, <1>5, <1>7, <1>8
<1>10. /\ interrupted' \in [Calls -> BOOLEAN] /\ idle' \in [Calls -> BOOLEAN]
       /\ pc[c] \notin {"new", "done"}
  BY <1>1, <1>2 DEF TypeOK
<1> QED
  BY <1>2, <1>3, <1>6, <1>7, <1>8, <1>9, <1>10, MovingKeeps

\* explain() and autocomplete() have their session, and ask the provider.
LEMMA WorkKeeps ==
    ASSUME QueryInv, NEW c \in Calls, WorkStarts(c) \/ WorkEnds(c)
    PROVE  QueryInv'
<1>1. TypeOK /\ RunOK(c)
  BY DEF QueryInv, RunsOK
<1>2. PICK p \in {"working", "done"} :
        /\ pc' = [pc EXCEPT ![c] = p]
        /\ pc[c] \in {"awaiting", "working"}
        /\ p = "working" => pc[c] = "awaiting"
        /\ kind[c] = "execute" => IsTurn(c)
  BY <1>1 DEF WorkStarts, WorkEnds, Resolved, RunOK
<1>3. /\ UNCHANGED <<kind, tab, db, awaits, cancelRequested, cancelCall, sessions, opening,
                     handle, disposal>>
      /\ UNCHANGED <<state, stmts, history, interrupted>>
  BY DEF WorkStarts, WorkEnds, callVars, runVars, sessionVars
<1>4. /\ state' \in [Calls -> ExecutionState \cup {"none"}]
      /\ history' \in [Calls -> ExecutionState \cup {"none"}]
      /\ interrupted' \in [Calls -> BOOLEAN]
      /\ idle' \in [Calls -> BOOLEAN]
      /\ \A b \in Calls \ {c} : state'[b] = state[b] /\ stmts'[b] = stmts[b]
  BY <1>1, <1>3 DEF TypeOK, WorkStarts, WorkEnds, sessionVars
<1>5. /\ Len(stmts[c]) = 0 /\ Stopped(stmts[c]) /\ state[c] # "completed"
      /\ stmts \in [Calls -> Seq(StatementState)] /\ Len(stmts[c]) <= MaxStatements
  BY <1>2, NothingSent
<1>6. /\ Len(stmts'[c]) = 0 /\ Stopped(stmts'[c]) /\ state'[c] # "completed"
      /\ stmts' \in [Calls -> Seq(StatementState)] /\ Len(stmts'[c]) <= MaxStatements
  BY <1>3, <1>5
<1>7. /\ kind[c] # "execute" => state'[c] = "none"
      /\ pc[c] \notin {"new", "done"} /\ p \in {"executing", "working", "done"} /\ p # "executing"
  BY <1>1, <1>2, <1>3 DEF RunOK
<1> QED
  BY <1>2, <1>3, <1>4, <1>6, <1>7, MovingKeeps

\* A step that touches only provider sessions, and the maps, keeps what holds of the runs.
LEMMA RunsUntouched ==
    ASSUME QueryInv, UNCHANGED <<kind, tab, pc, awaits, state, stmts, cancelRequested, cancelCall>>
    PROVE  RunsOK'
  BY DEF QueryInv, RunsOK, CallOK, RunOK, StatementsOK, IsTurn

\* openQuerySession resolves: the session takes the place of the open.
LEMMA OpenResolvesKeeps ==
    ASSUME QueryInv, NEW h \in Calls, OpenResolves(h)
    PROVE  QueryInv'
<1>1. TypeOK /\ HandleOK(h) /\ CallOK(h)
  BY DEF QueryInv, RunsOK, SessionsOK
<1>2. /\ handle[h] = "opening"
      /\ handle' = [handle EXCEPT ![h] = "open"]
      /\ idle' = [idle EXCEPT ![h] = FALSE]
      /\ sessions' = [sessions EXCEPT ![tab[h]] = h]
      /\ opening' = [opening EXCEPT ![tab[h]] = Nobody]
      /\ UNCHANGED <<kind, tab, db, pc, awaits, state, stmts, cancelRequested, history,
                     cancelCall, interrupted, disposal>>
  BY DEF OpenResolves, callVars, runVars
<1>3. tab[h] \in Tabs /\ opening[tab[h]] = h /\ pc[h] \notin {"new", "chained", "closing"}
  BY <1>1, <1>2 DEF HandleOK, CallOK
<1>4. Nobody \notin Calls
  BY QueryAssumption DEF Calls, Nobody
<1>5. TypeOK'
  BY <1>1, <1>2, <1>3 DEF TypeOK
<1>6. RunsOK'
  BY <1>2, RunsUntouched
<1>7. /\ handle'[h] = "open" /\ \A b \in Calls \ {h} : handle'[b] = handle[b]
      /\ sessions'[tab[h]] = h /\ opening'[tab[h]] = Nobody
      /\ \A t \in Tabs \ {tab[h]} : sessions'[t] = sessions[t] /\ opening'[t] = opening[t]
  BY <1>1, <1>2, <1>3 DEF TypeOK
<1>8. ASSUME NEW b \in Calls PROVE HandleOK(b)'
  <2>1. HandleOK(b) /\ CallOK(b)
    BY DEF QueryInv, RunsOK, SessionsOK
  <2>2. CASE b = h
    BY <1>2, <1>3, <1>7, <2>2 DEF HandleOK
  <2>3. CASE b # h
    <3>1. handle[b] = "opening" => tab[b] \in Tabs \ {tab[h]}
      BY <1>3, <2>1, <2>3 DEF HandleOK, CallOK
    <3> QED
      BY <1>2, <1>7, <2>1, <2>3, <3>1 DEF HandleOK
  <2> QED
    BY <2>2, <2>3
<1>9. ASSUME NEW t \in Tabs PROVE TabOK(t)'
  <2>1. TabOK(t) /\ sessions[t] \in Calls \cup {Nobody} /\ opening[t] \in Calls \cup {Nobody}
    BY <1>1 DEF QueryInv, SessionsOK, TypeOK
  <2>2. CASE t = tab[h]
    BY <1>2, <1>7, <2>2 DEF TabOK
  <2>3. CASE t # tab[h]
    <3>1. sessions[t] # h /\ opening[t] # h
      BY <1>2, <1>4, <2>1, <2>3 DEF TabOK
    <3> QED
      BY <1>2, <1>7, <2>1, <2>3, <3>1 DEF TabOK
  <2> QED
    BY <2>2, <2>3
<1> QED
  BY <1>5, <1>6, <1>8, <1>9 DEF QueryInv, SessionsOK

\* openQuerySession rejects.
LEMMA OpenRejectsKeeps ==
    ASSUME QueryInv, NEW h \in Calls, OpenRejects(h)
    PROVE  QueryInv'
<1>1. TypeOK /\ HandleOK(h) /\ CallOK(h)
  BY DEF QueryInv, RunsOK, SessionsOK
<1>2. /\ handle[h] = "opening"
      /\ handle' = [handle EXCEPT ![h] = "failed"]
      /\ opening' = [opening EXCEPT ![tab[h]] = Nobody]
      /\ UNCHANGED <<kind, tab, db, pc, awaits, state, stmts, cancelRequested, history,
                     cancelCall, interrupted, sessions, idle, disposal>>
  BY DEF OpenRejects, callVars, runVars
<1>3. tab[h] \in Tabs /\ opening[tab[h]] = h /\ pc[h] \notin {"new", "chained", "closing"}
  BY <1>1, <1>2 DEF HandleOK, CallOK
<1>4. Nobody \notin Calls
  BY QueryAssumption DEF Calls, Nobody
<1>5. TypeOK'
  BY <1>1, <1>2, <1>3 DEF TypeOK
<1>6. RunsOK'
  BY <1>2, RunsUntouched
<1>7. /\ handle'[h] = "failed" /\ \A b \in Calls \ {h} : handle'[b] = handle[b]
      /\ opening'[tab[h]] = Nobody
      /\ \A t \in Tabs \ {tab[h]} : opening'[t] = opening[t]
  BY <1>1, <1>2, <1>3 DEF TypeOK
<1>8. ASSUME NEW b \in Calls PROVE HandleOK(b)'
  <2>1. HandleOK(b) /\ CallOK(b)
    BY DEF QueryInv, RunsOK, SessionsOK
  <2>2. CASE b = h
    BY <1>2, <1>3, <1>7, <2>2 DEF HandleOK
  <2>3. CASE b # h
    <3>1. handle[b] = "opening" => tab[b] \in Tabs \ {tab[h]}
      BY <1>3, <2>1, <2>3 DEF HandleOK, CallOK
    <3> QED
      BY <1>2, <1>7, <2>1, <2>3, <3>1 DEF HandleOK
  <2> QED
    BY <2>2, <2>3
<1>9. ASSUME NEW t \in Tabs PROVE TabOK(t)'
  <2>1. TabOK(t) /\ sessions[t] \in Calls \cup {Nobody} /\ opening[t] \in Calls \cup {Nobody}
    BY <1>1 DEF QueryInv, SessionsOK, TypeOK
  <2>2. sessions[t] # h
    BY <1>2, <1>4, <2>1 DEF TabOK
  <2>3. t # tab[h] => opening[t] # h
    BY <1>2, <1>4, <2>1 DEF TabOK
  <2> QED
    BY <1>2, <1>7, <2>1, <2>2, <2>3 DEF TabOK
<1> QED
  BY <1>5, <1>6, <1>8, <1>9 DEF QueryInv, SessionsOK

LEMMA HandleClosesKeeps ==
    ASSUME QueryInv, NEW h \in Calls, HandleCloses(h)
    PROVE  QueryInv'
<1>1. TypeOK /\ HandleOK(h)
  BY DEF QueryInv, SessionsOK
<1>2. /\ handle[h] = "closing"
      /\ handle' = [handle EXCEPT ![h] = "closed"]
      /\ UNCHANGED <<kind, tab, db, pc, awaits, state, stmts, cancelRequested, history,
                     cancelCall, interrupted, sessions, opening, idle, disposal>>
  BY DEF HandleCloses, callVars, runVars
<1>3. TypeOK'
  BY <1>1, <1>2 DEF TypeOK
<1>4. RunsOK'
  BY <1>2, RunsUntouched
<1>5. handle'[h] = "closed" /\ \A b \in Calls \ {h} : handle'[b] = handle[b]
  BY <1>1, <1>2 DEF TypeOK
<1>6. ASSUME NEW b \in Calls PROVE HandleOK(b)'
  <2>1. HandleOK(b)
    BY DEF QueryInv, SessionsOK
  <2> QED
    BY <1>2, <1>5, <2>1 DEF HandleOK
<1>7. ASSUME NEW t \in Tabs PROVE TabOK(t)'
  <2>1. TabOK(t) /\ sessions[t] \in Calls \cup {Nobody} /\ opening[t] \in Calls \cup {Nobody}
    BY <1>1 DEF QueryInv, SessionsOK, TypeOK
  <2>2. sessions[t] # h \/ sessions[t] = Nobody
    BY <1>2, <2>1 DEF TabOK
  <2>3. opening[t] # h \/ opening[t] = Nobody
    BY <1>2, <2>1 DEF TabOK
  <2> QED
    BY <1>2, <1>5, <2>1, <2>2, <2>3 DEF TabOK
<1> QED
  BY <1>3, <1>4, <1>6, <1>7 DEF QueryInv, SessionsOK

\* Only the report of call c changes: its phase, its session and the calls beside it stay.
LEMMA ReportingKeeps ==
    ASSUME QueryInv, NEW c \in Calls, pc[c] # "new",
           UNCHANGED <<kind, tab, pc, awaits, sessions, opening, handle>>,
           \A b \in Calls \ {c} : /\ state'[b] = state[b] /\ stmts'[b] = stmts[b]
                                  /\ cancelRequested'[b] = cancelRequested[b]
                                  /\ cancelCall'[b] = cancelCall[b],
           TypeOK', RunOK(c)', StatementsOK(c)'
    PROVE  QueryInv'
<1>1. OnlyMoves(c)
  BY DEF OnlyMoves
<1>2. CallOK(c)'
  BY DEF QueryInv, RunsOK, CallOK
<1>3. SessionsOK'
  BY DEF QueryInv, SessionsOK, HandleOK, TabOK
<1> QED
  BY <1>1, <1>2, <1>3, OthersKeep DEF QueryInv, RunsOK

\* IsTurn() of an execution does not depend on what is reported.
LEMMA TurnUnreported ==
    ASSUME NEW c \in Calls, IsTurn(c), UNCHANGED <<kind, tab, pc>>
    PROVE  IsTurn(c)'
  BY DEF IsTurn

\* cancel() of an execution that has not sent a statement.
LEMMA CancelQueuedKeeps ==
    ASSUME QueryInv, NEW c \in Calls, CancelQueued(c)
    PROVE  QueryInv'
<1>1. TypeOK /\ CallOK(c) /\ RunOK(c) /\ StatementsOK(c)
  BY DEF QueryInv, RunsOK
<1>2. /\ state[c] \in {"queued", "running", "cancelling"} /\ pc[c] # "executing"
      /\ cancelRequested' = [cancelRequested EXCEPT ![c] = TRUE]
      /\ state' = [state EXCEPT ![c] = "cancelled"]
      /\ stmts' = [stmts EXCEPT ![c] = SkipUnfinished(stmts[c])]
      /\ UNCHANGED <<kind, tab, db, pc, awaits, history, cancelCall, interrupted, sessions,
                     opening, handle, idle, disposal>>
  BY DEF CancelQueued, MayCancel, IsActive, callVars, sessionVars
<1>3. stmts[c] \in Seq(StatementState) /\ Len(stmts[c]) <= MaxStatements
  BY <1>1 DEF TypeOK
<1>4. /\ SkipUnfinished(stmts[c]) \in Seq(StatementState)
      /\ Len(SkipUnfinished(stmts[c])) = Len(stmts[c])
      /\ Stopped(stmts[c]) => Stopped(SkipUnfinished(stmts[c]))
  BY <1>3, SkipEffect
<1>5. /\ state'[c] = "cancelled" /\ cancelRequested'[c] = TRUE
      /\ stmts'[c] = SkipUnfinished(stmts[c])
      /\ \A b \in Calls \ {c} : /\ state'[b] = state[b] /\ stmts'[b] = stmts[b]
                                /\ cancelRequested'[b] = cancelRequested[b]
                                /\ cancelCall'[b] = cancelCall[b]
  BY <1>1, <1>2 DEF TypeOK
<1>6. TypeOK'
  <2>1. /\ stmts' \in [Calls -> Seq(StatementState)]
        /\ \A b \in Calls : Len(stmts'[b]) <= MaxStatements
    BY <1>1, <1>2, <1>3, <1>4, <1>5 DEF TypeOK
  <2>2. state' \in [Calls -> ExecutionState \cup {"none"}] /\ cancelRequested' \in [Calls -> BOOLEAN]
    BY <1>1, <1>2 DEF TypeOK, ExecutionState
  <2> QED
    BY <1>1, <1>2, <2>1, <2>2 DEF TypeOK
<1>7. pc[c] # "new" /\ kind[c] = "execute"
  BY <1>1, <1>2 DEF CallOK, RunOK
<1>8. RunOK(c)'
  <2>1. pc[c] # "chained" => IsTurn(c)'
    BY <1>2, <1>7, TurnReached, TurnUnreported
  <2> QED
    BY <1>1, <1>2, <1>5, <1>7, <2>1 DEF RunOK
<1>9. StatementsOK(c)'
  BY <1>1, <1>2, <1>4, <1>5 DEF StatementsOK
<1> QED
  BY <1>2, <1>5, <1>6, <1>7, <1>8, <1>9, ReportingKeeps

\* cancel() of an execution whose statement is running.
LEMMA CancelRunningKeeps ==
    ASSUME QueryInv, NEW c \in Calls, CancelRunning(c)
    PROVE  QueryInv'
<1>1. TypeOK /\ RunOK(c) /\ StatementsOK(c)
  BY DEF QueryInv, RunsOK
<1>2. /\ pc[c] = "executing"
      /\ cancelRequested' = [cancelRequested EXCEPT ![c] = TRUE]
      /\ state' = [state EXCEPT ![c] = "cancelling"]
      /\ cancelCall' = [cancelCall EXCEPT ![c] = "sent"]
      /\ UNCHANGED <<kind, tab, db, pc, awaits, stmts, history, interrupted, sessions,
                     opening, handle, idle, disposal>>
  BY DEF CancelRunning, callVars, sessionVars
<1>3. /\ state'[c] = "cancelling"
      /\ \A b \in Calls \ {c} : /\ state'[b] = state[b] /\ stmts'[b] = stmts[b]
                                /\ cancelRequested'[b] = cancelRequested[b]
                                /\ cancelCall'[b] = cancelCall[b]
  BY <1>1, <1>2 DEF TypeOK
<1>4. TypeOK'
  BY <1>1, <1>2 DEF TypeOK, ExecutionState
<1>5. RunOK(c)'
  <2>1. IsTurn(c)'
    BY <1>1, <1>2, TurnUnreported DEF RunOK
  <2> QED
    BY <1>1, <1>2, <1>3, <2>1 DEF RunOK
<1>6. StatementsOK(c)'
  BY <1>1, <1>2, <1>3 DEF StatementsOK, Running
<1> QED
  BY <1>2, <1>3, <1>4, <1>5, <1>6, ReportingKeeps

\* The provider's cancel arrives, or resolves.
LEMMA CancelAnsweredKeeps ==
    ASSUME QueryInv, NEW c \in Calls, CancelArrives(c) \/ CancelResolves(c)
    PROVE  QueryInv'
<1>1. TypeOK /\ RunOK(c) /\ StatementsOK(c)
  BY DEF QueryInv, RunsOK
<1>2. PICK a \in {"delivered", "settled"} : cancelCall' = [cancelCall EXCEPT ![c] = a]
  BY DEF CancelArrives, CancelResolves
<1>3. /\ cancelCall[c] # "none"
      /\ UNCHANGED <<kind, tab, db, pc, awaits, state, stmts, cancelRequested, history, sessions,
                     opening, handle, idle, disposal>>
      /\ interrupted' \in [Calls -> BOOLEAN]
  <2>1. CASE CancelArrives(c)
    <3>1. interrupted' = [b \in Calls |-> interrupted[b] \/ (pc[b] = "executing" /\ awaits[b] = awaits[c])]
      BY <2>1 DEF CancelArrives
    <3>2. interrupted' \in [Calls -> BOOLEAN]
      BY <3>1
    <3> QED
      BY <2>1, <3>2 DEF CancelArrives, callVars, runVars, sessionVars
  <2>2. CASE CancelResolves(c)
    BY <1>1, <2>2 DEF CancelResolves, callVars, runVars, sessionVars, TypeOK
  <2> QED
    BY <2>1, <2>2
<1>4. \A b \in Calls \ {c} : /\ state'[b] = state[b] /\ stmts'[b] = stmts[b]
                             /\ cancelRequested'[b] = cancelRequested[b]
                             /\ cancelCall'[b] = cancelCall[b]
  BY <1>1, <1>2, <1>3 DEF TypeOK
<1>5. TypeOK'
  BY <1>1, <1>2, <1>3 DEF TypeOK
<1>6. pc[c] \in {"executing", "done"} /\ kind[c] = "execute"
  BY <1>1, <1>3 DEF RunOK
<1>7. RunOK(c)'
  <2>1. IsTurn(c)'
    BY <1>3, <1>6, TurnReached, TurnUnreported
  <2> QED
    BY <1>1, <1>3, <1>6, <2>1 DEF RunOK
<1>8. StatementsOK(c)'
  BY <1>1, <1>3 DEF StatementsOK, Running, Stopped
<1> QED
  BY <1>3, <1>4, <1>5, <1>6, <1>7, <1>8, ReportingKeeps

\* The provider's cancel rejects.
LEMMA CancelRejectsKeeps ==
    ASSUME QueryInv, NEW c \in Calls, CancelRejects(c)
    PROVE  QueryInv'
<1>1. TypeOK /\ RunOK(c) /\ StatementsOK(c)
  BY DEF QueryInv, RunsOK
<1>2. /\ cancelCall[c] # "none"
      /\ cancelCall' = [cancelCall EXCEPT ![c] = "settled"]
      /\ UNCHANGED <<kind, tab, db, pc, awaits, stmts, history, interrupted, sessions,
                     opening, handle, idle, disposal>>
  BY DEF CancelRejects, callVars, sessionVars
<1>3. \/ UNCHANGED <<state, cancelRequested>>
      \/ /\ cancelRequested' = [cancelRequested EXCEPT ![c] = FALSE]
         /\ state' = [state EXCEPT ![c] = "running"]
  BY DEF CancelRejects
<1>4. /\ state'[c] \in {state[c], "running"}
      /\ \A b \in Calls \ {c} : /\ state'[b] = state[b] /\ stmts'[b] = stmts[b]
                                /\ cancelRequested'[b] = cancelRequested[b]
                                /\ cancelCall'[b] = cancelCall[b]
  BY <1>1, <1>2, <1>3 DEF TypeOK
<1>5. TypeOK'
  BY <1>1, <1>2, <1>3 DEF TypeOK, ExecutionState
<1>6. pc[c] \in {"executing", "done"} /\ kind[c] = "execute"
  BY <1>1, <1>2 DEF RunOK
<1>7. RunOK(c)'
  <2>1. IsTurn(c)'
    BY <1>2, <1>6, TurnReached, TurnUnreported
  <2> QED
    BY <1>1, <1>2, <1>4, <1>6, <2>1 DEF RunOK
<1>8. StatementsOK(c)'
  BY <1>1, <1>2, <1>4 DEF StatementsOK, Running, Stopped
<1> QED
  BY <1>2, <1>4, <1>5, <1>6, <1>7, <1>8, ReportingKeeps

\* A step that changes neither calls, maps nor handles.
LEMMA ClockKeeps ==
    ASSUME QueryInv, idle' \in [Calls -> BOOLEAN], disposal' \in {"no", "closing", "done"},
           UNCHANGED <<callVars, pc, awaits, runVars, cancelCall, interrupted, sessions, opening, handle>>
    PROVE  QueryInv'
<1>1. UNCHANGED <<kind, tab, db, pc, awaits, state, stmts, cancelRequested, history, cancelCall,
                  interrupted, sessions, opening, handle>>
  BY DEF callVars, runVars
<1>2. TypeOK'
  BY <1>1 DEF QueryInv, TypeOK
<1>3. RunsOK'
  BY <1>1, RunsUntouched
<1>4. SessionsOK'
  BY <1>1 DEF QueryInv, SessionsOK, HandleOK, TabOK
<1> QED
  BY <1>2, <1>3, <1>4 DEF QueryInv

LEMMA ProceedKeeps ==
    ASSUME QueryInv, NEW c \in Calls, Proceed(c)
    PROVE  QueryInv'
<1>1. CASE RunCancelled(c)
  BY <1>1, RunCancelledKeeps
<1>2. CASE RunStarts(c)
  BY <1>2, RunStartsKeeps
<1>3. CASE OldSessionClosed(c)
  BY <1>3, OldSessionClosedKeeps
<1>4. CASE OldCloseRejected(c)
  BY <1>4, ThrowingKeeps DEF OldCloseRejected
<1>5. CASE SessionRejected(c)
  BY <1>5, ThrowingKeeps DEF SessionRejected
<1>6. CASE RunStopsEarly(c)
  BY <1>6, RunStopsEarlyKeeps
<1>7. CASE \E n \in 0..MaxStatements : RunSplits(c, n)
  BY <1>7, RunSplitsKeeps
<1>8. CASE StatementDone(c)
  BY <1>8, StatementDoneKeeps
<1>9. CASE \E g \in {"other", "cancelled"} : StatementFails(c, g)
  BY <1>9, StatementFailsKeeps
<1>10. CASE WorkStarts(c) \/ WorkEnds(c)
  BY <1>10, WorkKeeps
<1> QED
  BY <1>1, <1>2, <1>3, <1>4, <1>5, <1>6, <1>7, <1>8, <1>9, <1>10 DEF Proceed

LEMMA NextKeeps == QueryInv /\ [Next]_vars => QueryInv'
<1> SUFFICES ASSUME QueryInv, [Next]_vars PROVE QueryInv'
  OBVIOUS
<1> USE DEF QueryInv
<1>1. ASSUME NEW c \in Calls, NEW t \in Tabs, NEW d \in Dbs, Start(c, t, d) PROVE QueryInv'
  BY <1>1, StartKeeps
<1>2. ASSUME NEW c \in Calls, NEW t \in Tabs, NEW d \in Dbs, Explain(c, t, d) PROVE QueryInv'
  BY <1>2, LookupKeeps DEF Explain
<1>3. ASSUME NEW c \in Calls, NEW t \in Tabs, NEW d \in Dbs, Autocomplete(c, t, d) PROVE QueryInv'
  BY <1>3, LookupKeeps DEF Autocomplete
<1>4. ASSUME NEW c \in Calls, Proceed(c) PROVE QueryInv'
  BY <1>4, ProceedKeeps
<1>5. ASSUME NEW h \in Calls, Provider(h) PROVE QueryInv'
  BY <1>5, OpenResolvesKeeps, OpenRejectsKeeps, HandleClosesKeeps DEF Provider
<1>6. ASSUME NEW c \in Calls, CancelQueued(c) \/ CancelRunning(c) PROVE QueryInv'
  BY <1>6, CancelQueuedKeeps, CancelRunningKeeps
<1>7. ASSUME NEW c \in Calls, CancelArrives(c) \/ CancelResolves(c) \/ CancelRejects(c) PROVE QueryInv'
  BY <1>7, CancelAnsweredKeeps, CancelRejectsKeeps
<1>8. ASSUME NEW t \in Tabs, NEW force \in BOOLEAN, CloseSession(t, force) PROVE QueryInv'
  <2>1. {t} \in SUBSET Tabs /\ CloseSessions({t}) /\ disposal' \in {"no", "closing", "done"}
        /\ UNCHANGED <<callVars, pc, awaits, runVars, cancelCall, interrupted>>
    BY <1>8 DEF CloseSession, TypeOK
  <2> QED
    BY <2>1, ClosingKeeps
<1>9. ASSUME NEW h \in Calls, IdleElapses(h) PROVE QueryInv'
  BY <1>9, ClockKeeps DEF IdleElapses, TypeOK
<1>10. CASE SweepIdle
  <2> DEFINE T == {t \in Tabs : sessions[t] # Nobody /\ idle[sessions[t]] /\ ~TabBusy(t)}
  <2>1. T \in SUBSET Tabs /\ CloseSessions(T) /\ disposal' \in {"no", "closing", "done"}
        /\ UNCHANGED <<callVars, pc, awaits, runVars, cancelCall, interrupted>>
    BY <1>10 DEF SweepIdle, TypeOK
  <2> QED
    BY <2>1, ClosingKeeps
<1>11. CASE Dispose
  <2>1. Tabs \in SUBSET Tabs /\ CloseSessions(Tabs) /\ disposal' \in {"no", "closing", "done"}
        /\ UNCHANGED <<callVars, pc, awaits, runVars, cancelCall, interrupted>>
    BY <1>11 DEF Dispose
  <2> QED
    BY <2>1, ClosingKeeps
<1>12. CASE DisposeEnds
  BY <1>12, ClockKeeps DEF DisposeEnds, sessionVars, TypeOK
<1>13. CASE UNCHANGED vars
  BY <1>13, ClockKeeps DEF vars, sessionVars, TypeOK
<1> QED
  BY <1>1, <1>2, <1>3, <1>4, <1>5, <1>6, <1>7, <1>8, <1>9, <1>10, <1>11, <1>12, <1>13 DEF Next

-----------------------------------------------------------------------------
(* The theorems *)

\* The inductive invariant of query-execution.ts: the types, what each phase of a call says of
\* its report, its statements and the runs before it, and the session map.
THEOREM QueryInvariant == Spec => []QueryInv
<1>1. Init => QueryInv
  BY InitOK
<1>2. QueryInv /\ [Next]_vars => QueryInv'
  BY NextKeeps
<1> QED
  BY <1>1, <1>2, PTL DEF Spec

\* The invariant implies that the runs of a tab follow each other and that their reports are
\* true: the one-line conditions on the phase of a call carry it.
LEMMA InvImpliesRuns == QueryInv => RunsAreTrue
<1> SUFFICES ASSUME QueryInv PROVE RunsAreTrue
  OBVIOUS
<1>1. OneRunPerTab
  <2>1. ASSUME NEW a \in Calls, NEW b \in Calls, InRun(a), InRun(b), tab[a] = tab[b], a < b
        PROVE  FALSE
    <3>1. IsTurn(b) /\ kind[a] = "execute" /\ pc[a] # "done"
      BY <2>1, TurnReached DEF InRun
    <3>2. a \in 1..(b - 1)
      BY <2>1, QueryAssumption DEF Calls
    <3> QED
      BY <2>1, <3>1, <3>2 DEF IsTurn
  <2>2. \A a, b \in Calls : a # b => a < b \/ b < a
    BY QueryAssumption DEF Calls
  <2> QED
    BY <2>1, <2>2 DEF OneRunPerTab
<1>2. CancelledDoesNotExecute
  BY DEF CancelledDoesNotExecute, QueryInv, RunsOK, RunOK
<1>3. StatementsInOrder
  <2> SUFFICES ASSUME NEW c \in Calls, NEW i \in 1..Len(stmts[c])
               PROVE  /\ stmts[c][i] # "done" =>
                           \A j \in (i + 1)..Len(stmts[c]) :
                             stmts[c][j] = (IF stmts[c][i] \in {"pending", "running"}
                                            THEN "pending" ELSE "skipped")
                      /\ pc[c] = "done" => stmts[c][i] \notin {"pending", "running"}
    BY DEF StatementsInOrder
  <2>1. StatementsOK(c) /\ Len(stmts[c]) \in Nat
    BY DEF QueryInv, RunsOK, TypeOK
  <2>2. CASE pc[c] = "executing"
    <3>1. PICK k \in 1..Len(stmts[c]) : Running(stmts[c], k)
      BY <2>1, <2>2 DEF StatementsOK
    <3>2. \A j \in 1..Len(stmts[c]) :
             stmts[c][j] = IF j < k THEN "done" ELSE IF j = k THEN "running" ELSE "pending"
      BY <2>1, <3>1 DEF Running
    <3> QED
      BY <2>1, <2>2, <3>2
  <2>3. CASE pc[c] = "done"
    <3>1. Stopped(stmts[c])
      BY <2>1, <2>3 DEF StatementsOK
    <3> QED
      BY <3>1 DEF Stopped
  <2>4. CASE pc[c] \notin {"executing", "done"}
    BY <2>1, <2>4 DEF StatementsOK
  <2> QED
    BY <2>2, <2>3, <2>4
<1>4. CompletedIsTrue
  <2> SUFFICES ASSUME NEW c \in Calls, state[c] = "completed"
               PROVE  stmts[c] # <<>> /\ \A i \in 1..Len(stmts[c]) : stmts[c][i] = "done"
    BY DEF CompletedIsTrue
  <2>1. StatementsOK(c)
    BY DEF QueryInv, RunsOK
  <2> QED
    BY <2>1 DEF StatementsOK
<1> QED
  BY <1>1, <1>2, <1>3, <1>4 DEF RunsAreTrue

\* The runs of a tab never overlap, a cancelled execution runs nothing, statements run in
\* order and stop at the first error, and completed means that all of them were executed:
\* run(), finishQueuedCancellation() and cancel() in every interleaving.
THEOREM RunsStayTrue == Spec => []RunsAreTrue
<1>1. QueryInv => RunsAreTrue
  BY InvImpliesRuns
<1> QED
  BY <1>1, QueryInvariant, PTL

\* Every session in the map is open and of its tab, and at most one open per tab is in flight:
\* what sessionFor(), closeSession(), sweepIdle() and dispose() do to the map between awaits.
THEOREM SessionsStayTrue == Spec => []SessionsAreTrue
<1>1. QueryInv => SessionsAreTrue
  <2>1. ASSUME QueryInv PROVE SessionsAreOpen
    BY <2>1 DEF QueryInv, SessionsOK, TabOK, SessionsAreOpen
  <2>2. ASSUME QueryInv PROVE OneOpenPerTab
    BY <2>2 DEF QueryInv, SessionsOK, HandleOK, OneOpenPerTab
  <2> QED
    BY <2>1, <2>2 DEF SessionsAreTrue
<1> QED
  BY <1>1, QueryInvariant, PTL

\* A call that is not at an end yet, or only at one that its failure may overwrite.
LEMMA EndsKept ==
    ASSUME QueryInv, Next, NEW c \in Calls, state[c] \in Terminal, state'[c] # state[c]
    PROVE  /\ state[c] = "cancelled" /\ state'[c] = "failed"
           /\ pc[c] \in {"closing", "awaiting"}
<1> DEFINE Goal == /\ state[c] = "cancelled" /\ state'[c] = "failed"
                   /\ pc[c] \in {"closing", "awaiting"}
<1> SUFFICES Goal
  OBVIOUS
<1>1. TypeOK /\ CallOK(c) /\ RunOK(c)
  BY DEF QueryInv, RunsOK
<1>2. pc[c] \notin {"new", "executing"} /\ kind[c] = "execute" /\ state[c] \in {"completed", "failed", "cancelled"}
  BY <1>1 DEF CallOK, RunOK, Terminal
<1>3. ASSUME NEW b \in Calls, NEW s, state' = [state EXCEPT ![b] = s] PROVE b = c /\ state'[c] = s
  BY <1>1, <1>3 DEF TypeOK
<1>4. ASSUME NEW b \in Calls, NEW t \in Tabs, NEW d \in Dbs, Start(b, t, d) PROVE Goal
  BY <1>2, <1>3, <1>4 DEF Start, Arrives
<1>5. ASSUME NEW b \in Calls, NEW t \in Tabs, NEW d \in Dbs,
             Explain(b, t, d) \/ Autocomplete(b, t, d)
      PROVE  Goal
  BY <1>5 DEF Explain, Autocomplete, runVars
<1>6. ASSUME NEW b \in Calls, Proceed(b) PROVE Goal
  <2>1. CASE RunCancelled(b)
    <3>1. state' = [state EXCEPT ![b] = "cancelled"] /\ state[b] = "cancelled"
      BY <2>1 DEF RunCancelled, EndRun
    <3> QED
      BY <1>3, <3>1
  <2>2. CASE RunStarts(b)
    <3>1. state' = [state EXCEPT ![b] = "running"] /\ pc[b] = "chained" /\ state[b] # "cancelled"
      BY <2>2 DEF RunStarts
    <3>2. RunOK(b)
      BY DEF QueryInv, RunsOK
    <3> QED
      BY <1>2, <1>3, <3>1, <3>2 DEF RunOK
  <2>3. CASE OldSessionClosed(b)
    BY <2>3 DEF OldSessionClosed, runVars
  <2>4. CASE OldCloseRejected(b) \/ SessionRejected(b)
    <3>1. Throws(b) /\ pc[b] \in {"closing", "awaiting"}
      BY <2>4 DEF OldCloseRejected, SessionRejected
    <3>2. CASE kind[b] = "execute"
      <4>1. state' = [state EXCEPT ![b] = "failed"]
        BY <3>1, <3>2 DEF Throws, EndRun
      <4>2. b = c /\ state'[c] = "failed"
        BY <1>3, <4>1
      <4> QED
        BY <1>1, <1>2, <3>1, <4>2 DEF RunOK
    <3>3. CASE kind[b] # "execute"
      BY <3>1, <3>3 DEF Throws, runVars
    <3> QED
      BY <3>2, <3>3
  <2>5. CASE RunStopsEarly(b)
    <3>1. state' = [state EXCEPT ![b] = state[b]]
      BY <2>5 DEF RunStopsEarly, EndRun
    <3> QED
      BY <1>3, <3>1
  <2>6. CASE \E n \in 0..MaxStatements : RunSplits(b, n)
    <3>1. /\ pc[b] = "awaiting"
          /\ state' = [state EXCEPT ![b] = "failed"] \/ state' = state
      BY <2>6 DEF RunSplits, Resolved, EndRun
    <3>2. b = c /\ state'[c] = "failed"
      BY <1>3, <3>1
    <3> QED
      BY <1>1, <1>2, <3>1, <3>2 DEF RunOK
  <2>7. CASE StatementDone(b) \/ \E g \in {"other", "cancelled"} : StatementFails(b, g)
    <3>1. pc[b] = "executing"
      BY <2>7 DEF StatementDone, StatementFails
    <3>2. state' = state \/ \E s : state' = [state EXCEPT ![b] = s]
      BY <2>7 DEF StatementDone, StatementFails, EndRun
    <3> QED
      BY <1>2, <1>3, <3>1, <3>2
  <2>8. CASE WorkStarts(b) \/ WorkEnds(b)
    BY <2>8 DEF WorkStarts, WorkEnds, runVars
  <2> QED
    BY <1>6, <2>1, <2>2, <2>3, <2>4, <2>5, <2>6, <2>7, <2>8 DEF Proceed
<1>7. ASSUME NEW h \in Calls, Provider(h) PROVE Goal
  BY <1>7 DEF Provider, OpenResolves, OpenRejects, HandleCloses, runVars
<1>8. ASSUME NEW b \in Calls, CancelQueued(b) \/ CancelRunning(b) PROVE Goal
  <2>1. state[b] \notin Terminal /\ \E s : state' = [state EXCEPT ![b] = s]
    BY <1>8 DEF CancelQueued, CancelRunning, MayCancel, IsActive, Terminal
  <2> QED
    BY <1>3, <2>1
<1>9. ASSUME NEW b \in Calls, CancelArrives(b) \/ CancelResolves(b) PROVE Goal
  BY <1>9 DEF CancelArrives, CancelResolves, runVars
<1>10. ASSUME NEW b \in Calls, CancelRejects(b) PROVE Goal
  <2>1. state' = state \/ (state[b] \notin Terminal /\ state' = [state EXCEPT ![b] = "running"])
    BY <1>10 DEF CancelRejects
  <2> QED
    BY <1>3, <2>1
<1>11. CASE \/ \E t \in Tabs, force \in BOOLEAN : CloseSession(t, force)
            \/ \E h \in Calls : IdleElapses(h)
            \/ SweepIdle \/ Dispose \/ DisposeEnds
  BY <1>11 DEF CloseSession, IdleElapses, SweepIdle, Dispose, DisposeEnds, runVars
<1> QED
  BY <1>4, <1>5, <1>6, <1>7, <1>8, <1>9, <1>10, <1>11 DEF Next

\* The idle sweep takes the sessions of tabs without an active execution, and a call that
\* executes on a session keeps the session's tab busy.
LEMMA SweepSpares ==
    ASSUME QueryInv, SweepIdle, NEW c \in Calls, pc[c] = "executing"
    PROVE  handle'[awaits[c]] = handle[awaits[c]]
<1> DEFINE T == {t \in Tabs : sessions[t] # Nobody /\ idle[sessions[t]] /\ ~TabBusy(t)}
           H == {sessions[t] : t \in T} \ {Nobody}
<1>1. CallOK(c) /\ RunOK(c) /\ \A t \in Tabs : TabOK(t)
  BY DEF QueryInv, RunsOK, SessionsOK
<1>2. awaits[c] \in Calls /\ tab[awaits[c]] = tab[c] /\ TabBusy(tab[c])
  BY <1>1 DEF CallOK, RunOK, TabBusy, IsActive
<1>3. awaits[c] \notin H
  BY <1>1, <1>2 DEF TabOK
<1>4. handle' = [b \in Calls |-> IF b \in H THEN "closing" ELSE handle[b]]
  BY DEF SweepIdle, CloseSessions
<1> QED
  BY <1>2, <1>3, <1>4

\* A late answer of the provider's cancel never rewrites a reported end, and the idle sweep
\* never closes the session of a running statement.
THEOREM StepsStaySafe == Spec => StepsAreSafe
<1>1. QueryInv /\ [Next]_vars =>
        [\A c \in Calls : state[c] \in Terminal /\ state'[c] # state[c] =>
           /\ state[c] = "cancelled" /\ state'[c] = "failed"
           /\ pc[c] \in {"closing", "awaiting"}]_vars
  BY EndsKept
<1>2. QueryInv /\ [Next]_vars =>
        [SweepIdle => \A c \in Calls : pc[c] = "executing" =>
           handle'[awaits[c]] = handle[awaits[c]]]_vars
  BY SweepSpares
<1> QED
  BY <1>1, <1>2, QueryInvariant, PTL DEF Spec, StepsAreSafe, EndedIsFinal, IdleSparesRunning

-----------------------------------------------------------------------------
(* The tab that follows its executions *)

\* Snapshots that name an execution if they tell a state.
Named == {s \in E!Snapshot : s.state # 0 => s.run \in Runs}

\* What is shown, on the wire or in an answer under way names the execution it is of.
EditorInv ==
    /\ srv \in [Runs -> 0..4]
    /\ tx \in BOOLEAN
    /\ watches \subseteq Runs
    /\ "shown" \in DOMAIN editor /\ editor.shown \in Named
    /\ wire \in Seq(Named)
    /\ \A c \in answers : c.op \in {"poll", "cancel"} => c.snap \in Named

\* An empty tab shows the snapshot that names none.
LEMMA EmptyIsNamed == E!NoExecution \in Named
BY DEF Named, E!NoExecution, E!Snapshot

\* The tab opens empty.
LEMMA InitEditor == E!Init => EditorInv
<1> SUFFICES ASSUME E!Init
             PROVE  EditorInv
  OBVIOUS
<1>1. srv \in [Runs -> 0..4]
  <2>1. srv = [r \in Runs |-> 0]
    BY DEF E!Init, E!None
  <2> QED
    BY <2>1
<1>4. tx \in BOOLEAN /\ watches \subseteq Runs /\ answers = {}
  BY DEF E!Init
<1>2. wire \in Seq(Named)
  BY DEF E!Init
<1>3. "shown" \in DOMAIN editor /\ editor.shown \in Named
  BY EmptyIsNamed DEF E!Init
<1> QED
  BY <1>1, <1>2, <1>3, <1>4 DEF EditorInv

\* The snapshot the server would send names its execution.
LEMMA SnapshotIsNamed ==
  ASSUME EditorInv, NEW r \in Runs
  PROVE  E!snapshot(r) \in Named
BY DEF EditorInv, Named, E!snapshot, E!Snapshot

\* apply() shows the snapshot it is given, or nothing new.
LEMMA ApplyKeeps ==
  ASSUME EditorInv, NEW s \in Named, E!apply(s)
  PROVE  /\ watches' \subseteq Runs
         /\ "shown" \in DOMAIN editor' /\ editor'.shown \in Named
BY DEF EditorInv, E!apply, E!stop

\* Polls and events.
LEMMA FollowKeeps ==
  ASSUME EditorInv,
         \/ E!EventArrives \/ E!EventsLost
         \/ \E r \in Runs : E!poll(r)
         \/ \E c \in answers : E!Polled(c) \/ E!PollFailed(c) \/ E!CancelAnswered(c)
  PROVE  EditorInv'
<1>1. CASE E!EventArrives
  <2>1. wire # << >> /\ wire' = Tail(wire) /\ E!apply(Head(wire)) /\ UNCHANGED <<srv, tx, answers>>
    BY <1>1 DEF E!EventArrives
  <2>2. Head(wire) \in Named /\ wire' \in Seq(Named)
    BY <2>1, HeadTailProperties DEF EditorInv
  <2> QED
    BY <2>1, <2>2, ApplyKeeps DEF EditorInv
<1>2. CASE E!EventsLost
  BY <1>2 DEF EditorInv, E!EventsLost
<1>3. ASSUME NEW r \in Runs, E!poll(r)
      PROVE  EditorInv'
  BY <1>3, SnapshotIsNamed DEF EditorInv, E!poll
<1>4. ASSUME NEW c \in answers, E!Polled(c)
      PROVE  EditorInv'
  <2>1. c.snap \in Named
    BY <1>4 DEF EditorInv, E!Polled
  <2> QED
    BY <1>4, <2>1, ApplyKeeps DEF EditorInv, E!Polled
<1>5. ASSUME NEW c \in answers, E!PollFailed(c)
      PROVE  EditorInv'
  BY <1>5 DEF EditorInv, E!PollFailed
<1>6. ASSUME NEW c \in answers, E!CancelAnswered(c)
      PROVE  EditorInv'
  BY <1>6 DEF EditorInv, E!CancelAnswered
<1> QED
  BY <1>1, <1>2, <1>3, <1>4, <1>5, <1>6

\* The server goes on with an execution.
LEMMA GoesOnKeeps ==
  ASSUME EditorInv, NEW r \in Runs, NEW s \in {E!Running, E!Ended}, NEW open \in BOOLEAN,
         E!RunGoesOn(r, s, open)
  PROVE  EditorInv'
<1>1. [run |-> r, state |-> s, tx |-> open] \in Named
  BY DEF Named, E!Snapshot, E!Running, E!Ended
<1>2. wire' \in Seq(Named)
  BY <1>1, AppendProperties DEF E!RunGoesOn, EditorInv
<1>3. srv' \in [Runs -> 0..4]
  BY DEF E!RunGoesOn, EditorInv, E!Running, E!Ended
<1> QED
  BY <1>2, <1>3 DEF E!RunGoesOn, EditorInv

\* What the user does, and the answers to it.
LEMMA UserKeeps ==
  ASSUME EditorInv,
         \/ E!execute \/ E!Refused \/ E!cancelExecution
         \/ E!cancelDatabaseChange \/ E!confirmDatabaseChange \/ E!Destroyed
         \/ \E r \in Runs : E!Accepted(r)
         \/ \E d \in Databases : E!onDatabaseChange(d)
  PROVE  EditorInv'
<1>1. CASE E!execute \/ E!Refused
  BY <1>1 DEF EditorInv, E!execute, E!Refused, E!stop
<1>2. CASE E!cancelExecution
  <2>1. editor.shown.run \in Runs
    BY <1>2 DEF EditorInv, E!cancelExecution, Named, E!Running
  <2>2. srv' \in [Runs -> 0..4]
    BY <1>2, <2>1 DEF EditorInv, E!cancelExecution, E!Cancelling
  <2>3. [run |-> editor.shown.run, state |-> srv'[editor.shown.run], tx |-> tx] \in Named
    BY <2>1, <2>2 DEF EditorInv, Named, E!Snapshot
  <2> QED
    BY <1>2, <2>2, <2>3 DEF EditorInv, E!cancelExecution
<1>3. CASE E!cancelDatabaseChange
  BY <1>3 DEF EditorInv, E!cancelDatabaseChange
<1>4. CASE E!confirmDatabaseChange
  BY <1>4, EmptyIsNamed DEF EditorInv, E!confirmDatabaseChange, E!stop
<1>5. CASE E!Destroyed
  BY <1>5 DEF EditorInv, E!Destroyed, E!stop
<1>6. ASSUME NEW r \in Runs, E!Accepted(r)
      PROVE  EditorInv'
  BY <1>6 DEF EditorInv, E!Accepted, E!Queued
<1>7. ASSUME NEW d \in Databases, E!onDatabaseChange(d)
      PROVE  EditorInv'
  BY <1>7 DEF EditorInv, E!onDatabaseChange
<1> QED
  BY <1>1, <1>2, <1>3, <1>4, <1>5, <1>6, <1>7

\* Every step of the tab keeps it.
LEMMA NextEditor == EditorInv /\ [E!Next]_(E!vars) => EditorInv'
<1>1. EditorInv /\ UNCHANGED E!vars => EditorInv'
  BY DEF EditorInv, E!vars
<1>2. EditorInv /\ E!Next => EditorInv'
  BY FollowKeeps, GoesOnKeeps, UserKeeps DEF E!Next
<1> QED
  BY <1>1, <1>2

\* apply() leaves alone an execution that is not watched.
LEMMA ApplyStays ==
  ASSUME EditorInv, NEW s, E!apply(s), editor.shown.run \notin watches,
         editor'.shown.run = editor.shown.run
  PROVE  editor'.shown = editor.shown
BY DEF EditorInv, E!apply

\* An execution that was shown as ended and is not watched stays shown as ended.
LEMMA EndStaysShown == EditorInv /\ [E!Next]_(E!vars) => E!EndStays
<1> SUFFICES ASSUME EditorInv, [E!Next]_(E!vars),
                    editor.shown.state = E!Ended, editor.shown.run \notin watches,
                    editor'.shown.run = editor.shown.run
             PROVE  editor'.shown.state = E!Ended \/ \E c \in answers : E!CancelAnswered(c)
  BY DEF E!EndStays
<1>1. CASE E!EventArrives
  BY <1>1, ApplyStays DEF E!EventArrives
<1>2. ASSUME NEW c \in answers, E!Polled(c)
      PROVE  editor'.shown.state = E!Ended
  BY <1>2, ApplyStays DEF E!Polled
<1>3. CASE E!confirmDatabaseChange
  <2>1. editor.shown.run # 0
    BY PartsAssumption DEF EditorInv, Named, E!Ended
  <2>2. editor'.shown = E!NoExecution \/ editor' = editor
    BY <1>3 DEF E!confirmDatabaseChange, EditorInv
  <2> QED
    BY <2>1, <2>2 DEF E!NoExecution
<1>4. ASSUME \/ UNCHANGED E!vars \/ E!execute \/ E!Refused \/ E!cancelExecution \/ E!EventsLost
             \/ E!cancelDatabaseChange \/ E!Destroyed
             \/ \E r \in Runs : E!Accepted(r) \/ E!poll(r)
                  \/ \E s \in {E!Running, E!Ended}, open \in BOOLEAN : E!RunGoesOn(r, s, open)
             \/ \E c \in answers : E!PollFailed(c)
             \/ \E d \in Databases : E!onDatabaseChange(d)
      PROVE  editor'.shown = editor.shown
  BY <1>4 DEF EditorInv, E!vars, E!execute, E!Refused, E!cancelExecution, E!EventsLost,
     E!cancelDatabaseChange, E!Destroyed, E!Accepted, E!poll, E!RunGoesOn, E!PollFailed,
     E!onDatabaseChange
<1> QED
  BY <1>1, <1>2, <1>3, <1>4 DEF E!Next

-----------------------------------------------------------------------------
(* The history and its setting *)

\* What the cache of the settings holds is what is stored, and ids are given out in order.
LibraryInv ==
    /\ setting \in [L!settingsRegistry -> Nat]
    /\ cache \in [L!settingsRegistry -> Nat]
    /\ \A k \in L!settingsRegistry : cache[k] # 0 => cache[k] = L!Stored(k)
    /\ last \in Nat
    /\ \A r \in entries : {"id", "user"} \subseteq DOMAIN r /\ r.id \in 0..last

\* The tables are empty at first.
LEMMA InitLibrary == L!Init => LibraryInv
BY DEF L!Init, LibraryInv

\* The setting of the history is one of the registry.
LEMMA RetentionIsSet == L!Retention \in L!settingsRegistry
BY DEF L!settingsRegistry

\* What is read is what is stored, and stays cached as that.
LEMMA ReadIsStored ==
  ASSUME LibraryInv, NEW k \in L!settingsRegistry
  PROVE  /\ L!getSetting(k) = L!Stored(k) /\ L!Stored(k) \in Nat
         /\ L!Read(k) \in [L!settingsRegistry -> Nat]
         /\ \A j \in L!settingsRegistry : L!Read(k)[j] # 0 => L!Read(k)[j] = L!Stored(j)
<1>1. L!getSetting(k) = L!Stored(k) /\ L!Stored(k) \in Nat
  BY PartsAssumption DEF LibraryInv, L!getSetting, L!Stored
<1> QED
  BY <1>1 DEF LibraryInv, L!Read

\* Settings and preferences.
LEMMA SettingKeeps ==
  ASSUME LibraryInv,
         \/ \E k \in L!settingsRegistry : L!ReadSettings(k)
         \/ \E v \in Limits : L!setSetting(v) \/ \E u \in Users : L!setPreference(u, v)
  PROVE  LibraryInv'
<1>1. ASSUME NEW k \in L!settingsRegistry, cache' = L!Read(k), UNCHANGED <<setting, last, entries>>
      PROVE  LibraryInv'
  BY <1>1, ReadIsStored DEF LibraryInv, L!Stored
<1>2. ASSUME NEW k \in L!settingsRegistry, NEW v \in Limits,
             setting' = [setting EXCEPT ![k] = v], cache' = [cache EXCEPT ![k] = 0],
             UNCHANGED <<last, entries>>
      PROVE  LibraryInv'
  <2>1. v \in Nat
    BY PartsAssumption
  <2> QED
    BY <1>2, <2>1 DEF LibraryInv, L!Stored
<1>3. ASSUME NEW u \in Users
      PROVE  u \in L!settingsRegistry
  BY DEF L!settingsRegistry
<1> QED
  BY <1>1, <1>2, <1>3, RetentionIsSet
  DEF L!ReadSettings, L!setSetting, L!setPreference, L!CacheAfterSet

\* A new entry has a number of its own.
LEMMA AppendKeeps ==
  ASSUME LibraryInv, NEW u, NEW c, L!append(u, c)
  PROVE  LibraryInv' /\ L!NewestStay
<1>1. last' = last + 1 /\ UNCHANGED setting
  BY DEF L!append
<1>2. CASE c \notin conns
  BY <1>1, <1>2 DEF L!append, LibraryInv, L!Stored, L!NewestStay
<1>3. CASE c \in conns
  <2> DEFINE e == [id |-> last + 1, user |-> u, conn |-> c]
             limit == L!getSetting(L!Retention)
  <2>1. /\ entries' = L!enforceRetention(entries \cup {e}, u, limit)
        /\ cache' = L!Read(L!Retention)
    BY <1>3 DEF L!append
  <2>2. limit = L!Stored(L!Retention)
    BY ReadIsStored, RetentionIsSet
  <2>3. entries' \subseteq entries \cup {e}
    BY <2>1 DEF L!enforceRetention
  <2>4. LibraryInv'
    <3>1. /\ cache' \in [L!settingsRegistry -> Nat]
          /\ \A j \in L!settingsRegistry : cache'[j] # 0 => cache'[j] = L!Stored(j)
      BY <2>1, ReadIsStored, RetentionIsSet
    <3>2. \A r \in entries' : {"id", "user"} \subseteq DOMAIN r /\ r.id \in 0..last'
      BY <1>1, <2>3 DEF LibraryInv
    <3> QED
      BY <1>1, <3>1, <3>2 DEF LibraryInv, L!Stored
  <2>5. L!OfUser(entries', u)
          = {r \in L!OfUser(entries, u) \cup {e} :
               L!Cardinality({q \in L!OfUser(entries, u) \cup {e} : q.id > r.id}) < limit}
    <3>1. L!OfUser(entries \cup {e}, u) = L!OfUser(entries, u) \cup {e}
      BY DEF L!OfUser
    <3>2. entries' = {r \in entries \cup {e} : r.user = u =>
                        L!Cardinality({q \in L!OfUser(entries \cup {e}, u) : q.id > r.id}) < limit}
      BY <2>1 DEF L!enforceRetention
    <3>3. e.user = u
      OBVIOUS
    <3> HIDE DEF e, limit
    <3> QED
      BY <3>1, <3>2, <3>3 DEF L!OfUser
  <2>6. \A r \in entries' \ entries : r = e
    BY <2>3
  <2>7. e.user = u
    OBVIOUS
  <2> HIDE DEF e, limit
  <2>8. L!NewestStay
    BY <2>2, <2>5, <2>6, <2>7 DEF L!NewestStay
  <2> QED
    BY <2>4, <2>8
<1> QED
  BY <1>2, <1>3

\* A step that adds no entry with a new number.
LEMMA NothingNew ==
  ASSUME LibraryInv, UNCHANGED <<setting, cache>>, last' \in Nat, last' >= last,
         \A r \in entries' : {"id", "user"} \subseteq DOMAIN r /\ r.id \in 0..last
  PROVE  LibraryInv' /\ L!NewestStay
<1>1. LibraryInv'
  BY DEF LibraryInv, L!Stored
<1>2. \A r \in entries' : ~(r.id > last)
  BY DEF LibraryInv
<1> QED
  BY <1>1, <1>2 DEF L!NewestStay

\* Every other step of the library.
LEMMA LibraryKeeps ==
  ASSUME LibraryInv,
         \/ UNCHANGED L!vars
         \/ \E u \in Users :
              \/ \E r \in entries : L!deleteHistoryEntry(u, r)
              \/ L!deleteHistory(u)
              \/ \E input \in L!savedQueryInput : L!createSaved(u, input)
              \/ \E q \in kept :
                   L!deleteSaved(u, q) \/ \E patch \in L!savedQueryPatch : L!updateSaved(u, q, patch)
         \/ \E c \in Conns : L!ConnectionDeleted(c)
         \/ \E f \in Conns \cup {L!All} : L!onConnectionFilter(f) \/ L!onSearch(f)
         \/ L!SearchTimer \/ L!Reloaded
         \/ \E c \in lists : L!Listed(c) \/ L!ListFailed(c)
  PROVE  LibraryInv' /\ L!NewestStay
<1>1. UNCHANGED <<setting, cache>>
  BY DEF L!vars, L!tables, L!deleteHistoryEntry, L!deleteHistory, L!createSaved, L!deleteSaved,
     L!updateSaved, L!ConnectionDeleted, L!onConnectionFilter, L!onSearch, L!SearchTimer,
     L!Reloaded, L!Listed, L!ListFailed
<1>2. last' \in {last, last + 1}
  BY DEF L!vars, L!tables, L!deleteHistoryEntry, L!deleteHistory, L!createSaved, L!deleteSaved,
     L!updateSaved, L!ConnectionDeleted, L!onConnectionFilter, L!onSearch, L!SearchTimer,
     L!Reloaded, L!Listed, L!ListFailed
<1>3. entries' \subseteq entries \/ \E c \in Conns : entries' = L!Forget(entries, c)
  BY DEF L!vars, L!tables, L!deleteHistoryEntry, L!deleteHistory, L!createSaved, L!deleteSaved,
     L!updateSaved, L!ConnectionDeleted, L!onConnectionFilter, L!onSearch, L!SearchTimer,
     L!Reloaded, L!Listed, L!ListFailed
<1>4. \A r \in entries' : {"id", "user"} \subseteq DOMAIN r /\ r.id \in 0..last
  BY <1>3 DEF L!Forget, LibraryInv
<1> QED
  BY <1>1, <1>2, <1>4, NothingNew DEF LibraryInv

\* A setting adds no entry.
LEMMA SettingAddsNothing ==
  ASSUME \/ \E k \in L!settingsRegistry : L!ReadSettings(k)
         \/ \E v \in Limits : L!setSetting(v) \/ \E u \in Users : L!setPreference(u, v)
  PROVE  L!NewestStay
BY DEF L!ReadSettings, L!setSetting, L!setPreference, L!NewestStay

\* Every step keeps the invariant and the newest entries.
LEMMA NextLibrary == LibraryInv /\ [L!Next]_(L!vars) => LibraryInv' /\ L!NewestStay
<1> SUFFICES ASSUME LibraryInv, [L!Next]_(L!vars)
             PROVE  LibraryInv' /\ L!NewestStay
  OBVIOUS
<1> QED
  BY SettingKeeps, SettingAddsNothing, AppendKeeps, LibraryKeeps DEF L!Next

-----------------------------------------------------------------------------
(* The grid of the data browser *)

\* A call of the page that is not a read, or one for what the page asks for now.
IsCall(c) == {"kind", "view"} \subseteq DOMAIN c
ForView(c, v) == IsCall(c) /\ (c.kind = "read" => c.view = v)

\* Every read that is under way asks for what the controls ask for: what comes is what is shown.
GridInv ==
    /\ \A c \in reads : ForView(c, view)
    /\ G!ShownIsAsked

\* The page opens with such a read.
LEMMA InitGrid == G!Init => GridInv
BY DEF G!Init, GridInv, G!ShownIsAsked, ForView, IsCall

\* read(): the read under way is given up, so that none asks for something else.
LEMMA ReadKeeps ==
  ASSUME GridInv, NEW v, NEW cs \in SUBSET reads, G!read(v, cs)
  PROVE  GridInv'
<1>1. view' = v /\ loading' = TRUE /\ reads' = (cs \ G!Reads) \cup {G!Sent("read", v, {})}
  BY DEF G!read
<1>2. \A c \in cs \ G!Reads : IsCall(c) /\ c.kind # "read"
  BY DEF GridInv, ForView, G!Reads
<1>3. ForView(G!Sent("read", v, {}), v)
  BY DEF G!Sent, ForView, IsCall
<1> QED
  BY <1>1, <1>2, <1>3 DEF GridInv, G!ShownIsAsked, ForView, IsCall

\* A step that changes nothing of the page and sends no read.
LEMMA PageStays ==
  ASSUME GridInv, UNCHANGED <<view, shown, loading>>, problem' = "none" => problem = "none",
         \A c \in reads' : c \in reads \/ ForView(c, view)
  PROVE  GridInv'
BY DEF GridInv, G!ShownIsAsked, ForView, IsCall

\* An answer is written into the call it belongs to.
LEMMA HandleKeeps ==
  ASSUME GridInv, NEW c \in reads, G!HandleRead(c) \/ G!HandleMutation(c) \/ G!Fail(c)
  PROVE  GridInv'
<1>1. ForView(c, view)
  BY DEF GridInv
<1>2. ASSUME NEW a, NEW r, NEW m
      PROVE  /\ ForView([c EXCEPT !.answer = a, !.rows = r, !.more = m], view)
             /\ ForView([c EXCEPT !.answer = a], view)
  <2>1. ASSUME NEW d, ForView(d, view), NEW f \in {"answer", "rows", "more"}, NEW x
        PROVE  ForView([d EXCEPT ![f] = x], view)
    BY <2>1 DEF ForView, IsCall
  <2> QED
    BY <1>1, <2>1
<1>3. CASE G!HandleRead(c)
  <2>1. PICK a, r, m : reads' = (reads \ {c}) \cup {[c EXCEPT !.answer = a, !.rows = r, !.more = m]}
    BY <1>3 DEF G!HandleRead
  <2>2. UNCHANGED <<view, shown, loading, problem>>
    BY <1>3 DEF G!HandleRead, G!pageState
  <2>3. ForView([c EXCEPT !.answer = a, !.rows = r, !.more = m], view)
    BY <1>2
  <2>4. \A d \in reads' : d \in reads \/ ForView(d, view)
    BY <2>1, <2>3
  <2> QED
    BY <2>2, <2>4, PageStays
<1>4. CASE G!HandleMutation(c) \/ G!Fail(c)
  <2>1. PICK a : reads' = (reads \ {c}) \cup {[c EXCEPT !.answer = a]}
    BY <1>4 DEF G!HandleMutation, G!Fail
  <2>2. UNCHANGED <<view, shown, loading, problem>>
    BY <1>4 DEF G!HandleMutation, G!Fail, G!pageState
  <2>3. ForView([c EXCEPT !.answer = a], view)
    BY <1>2
  <2>4. \A d \in reads' : d \in reads \/ ForView(d, view)
    BY <2>1, <2>3
  <2> QED
    BY <2>2, <2>4, PageStays
<1> QED
  BY <1>3, <1>4

\* The answer to a read answers what is asked for; one to a mutation leads to a read.
LEMMA ReceiveCallKeeps ==
  ASSUME GridInv, NEW c \in reads, G!ReceiveRead(c) \/ G!ReceiveMutation(c)
  PROVE  GridInv'
<1>1. CASE G!ReceiveRead(c)
  <2>1. c.view = view /\ UNCHANGED view /\ reads' = reads \ {c}
    BY <1>1 DEF G!ReceiveRead, GridInv, ForView
  <2>2. shown'.asked = view \/ problem' = "error"
    BY <1>1, <2>1 DEF G!ReceiveRead
  <2> QED
    BY <2>1, <2>2 DEF GridInv, G!ShownIsAsked, ForView, IsCall
<1>2. CASE G!ReceiveMutation(c) /\ c.answer = "ok"
  <2>1. G!read(view, reads \ {c})
    BY <1>2 DEF G!ReceiveMutation
  <2> QED
    BY <2>1, ReadKeeps
<1>3. CASE G!ReceiveMutation(c) /\ c.answer # "ok"
  BY <1>3, PageStays DEF G!ReceiveMutation
<1> QED
  BY <1>1, <1>2, <1>3

\* What the user does with the controls is a read.
LEMMA ControlKeeps ==
  ASSUME GridInv,
         \/ G!previousPage \/ G!nextPage \/ G!toggleColumn \/ G!retry \/ G!updateSort
         \/ \E f \in Filters : G!updateSearch(f) \/ G!updateFilter(f)
  PROVE  GridInv'
<1>1. \E v : G!read(v, reads)
  BY DEF G!previousPage, G!nextPage, G!toggleColumn, G!retry, G!updateSort, G!updateSearch,
         G!updateFilter, G!Turn
<1> QED
  BY <1>1, ReadKeeps

\* The dialogs send no read, and the selection is no call.
LEMMA DialogKeeps ==
  ASSUME GridInv,
         \/ G!deleteSelectedRows \/ G!confirmDelete \/ G!cancelDelete
         \/ G!saveEdit \/ G!cancelEdit \/ G!openInsert \/ G!cancelInsert
         \/ \E i \in 1..GridSize : G!toggleRow(i) \/ G!toggleRange(i) \/ G!beginEdit(i)
         \/ \E k \in UNION Filters : G!Other(k) \/ G!saveInsert(k)
  PROVE  GridInv'
<1>1. ASSUME NEW what, what # "read", NEW v, NEW ks
      PROVE  ForView(G!Sent(what, v, ks), view)
  BY <1>1 DEF G!Sent, ForView, IsCall
<1>2. CASE G!confirmDelete
  <2>1. UNCHANGED <<view, shown, loading>> /\ (problem' = problem \/ problem' = "error")
    BY <1>2 DEF G!confirmDelete
  <2>2. reads' = reads \/ \E ks : reads' = reads \cup {G!Sent("delete", G!NoView, ks)}
    BY <1>2 DEF G!confirmDelete
  <2>3. \A ks : ForView(G!Sent("delete", G!NoView, ks), view)
    BY <1>1
  <2> QED
    BY <2>1, <2>2, <2>3, PageStays
<1>3. CASE G!saveEdit
  <2>1. UNCHANGED <<view, shown, loading, problem>>
    BY <1>3 DEF G!saveEdit, G!pageState
  <2>2. reads' = reads \/ \E ks : reads' = reads \cup {G!Sent("update", G!NoView, ks)}
    BY <1>3 DEF G!saveEdit
  <2>3. \A ks : ForView(G!Sent("update", G!NoView, ks), view)
    BY <1>1
  <2> QED
    BY <2>1, <2>2, <2>3, PageStays
<1>4. ASSUME NEW k \in UNION Filters, G!saveInsert(k)
      PROVE  GridInv'
  <2>1. UNCHANGED <<view, shown, loading, problem>>
    BY <1>4 DEF G!saveInsert, G!pageState
  <2>2. reads' = reads \cup {G!Sent("insert", G!NoView, {k})}
    BY <1>4 DEF G!saveInsert
  <2>3. ForView(G!Sent("insert", G!NoView, {k}), view)
    BY <1>1
  <2> QED
    BY <2>1, <2>2, <2>3, PageStays
<1>5. ASSUME \/ G!deleteSelectedRows \/ G!cancelDelete \/ G!cancelEdit \/ G!openInsert \/ G!cancelInsert
             \/ \E i \in 1..GridSize : G!toggleRow(i) \/ G!toggleRange(i) \/ G!beginEdit(i)
             \/ \E k \in UNION Filters : G!Other(k)
      PROVE  GridInv'
  <2>1. UNCHANGED <<view, shown, loading, problem, reads>>
    BY <1>5 DEF G!deleteSelectedRows, G!cancelDelete, G!cancelEdit, G!openInsert, G!cancelInsert,
         G!toggleRow, G!toggleRange, G!beginEdit, G!Other, G!Tick, G!pageState
  <2> QED
    BY <2>1, PageStays
<1> QED
  BY <1>2, <1>3, <1>4, <1>5

\* Every step keeps it.
LEMMA NextGrid == GridInv /\ [G!Next]_(G!vars) => GridInv'
<1> SUFFICES ASSUME GridInv, [G!Next]_(G!vars)
             PROVE  GridInv'
  OBVIOUS
<1>1. CASE UNCHANGED G!vars
  BY <1>1, PageStays DEF G!vars, G!pageState
<1>2. CASE G!cancelRead
  <2>1. /\ UNCHANGED <<view, shown>> /\ problem' = "canceled"
        /\ reads' \subseteq reads
    BY <1>2 DEF G!cancelRead
  <2> QED
    BY <2>1 DEF GridInv, G!ShownIsAsked, ForView, IsCall
<1>3. G!Step \/ UNCHANGED G!vars
  BY DEF G!Next
<1> QED
  BY <1>1, <1>2, <1>3, HandleKeeps, ReceiveCallKeeps, ControlKeeps, DialogKeeps DEF G!Step

-----------------------------------------------------------------------------
(* The data browser: mutations *)

\* What a mutation record holds.
Mutation == [pc : {"new", "opening", "describing", "tx", "closing", "auditing", "done"},
             kind : {"none", "insert", "update", "delete", "bulk"},
             keys : Seq(RowKeys), at : Nat,
             pend : [RowKeys -> Vals \cup {Absent, "same"}], open : BOOLEAN,
             result : {"none", "ok", "refused", "conflict", "failed", "unrecorded"},
             audit : {"none", "success", "failure"}]

\* The rows its transaction has written, those of its first n keys, and those it names.
Wrote(r) == {k \in RowKeys : r.pend[k] # "same"}
First(r, n) == {r.keys[i] : i \in 1..n}
All(r) == {r.keys[i] : i \in DOMAIN r.keys}

\* Before its end it has changed nothing and its transaction has written the rows of its keys so
\* far; then it has changed the rows it names or none; and it has a handle from the opening to
\* the closing.
MutationOK(r, c) ==
    /\ r.pc \in {"new", "opening", "describing", "tx"} =>
          r.result = "none" /\ r.audit = "none" /\ c = {}
    /\ r.pc # "tx" => r.at = 0 /\ Wrote(r) = {}
    /\ r.pc = "tx" => r.at <= Len(r.keys) /\ Wrote(r) = First(r, r.at)
    /\ r.pc \in {"new", "opening", "auditing", "done"} => ~r.open
    /\ r.pc \in {"describing", "tx"} => r.open
    /\ c = {} \/ c = All(r)
    /\ r.result = "ok" => c = All(r)
    /\ r.result \in {"refused", "conflict"} => c = {}
    /\ r.audit = "success" => c = All(r)

MutationsInv ==
    /\ muts \in [Muts -> Mutation]
    /\ changed \in [Muts -> SUBSET RowKeys]
    /\ \A m \in Muts : MutationOK(muts[m], changed[m])

\* It says that mutations are whole.
LEMMA MutationsAreTrue == MutationsInv => B!AllOrNothing /\ B!NothingLeftOpen
<1> SUFFICES ASSUME MutationsInv, NEW m \in Muts
             PROVE  /\ changed[m] \subseteq B!Named(m)
                    /\ muts[m].result = "ok" => changed[m] = B!Named(m)
                    /\ muts[m].result \in {"refused", "conflict"} => changed[m] = {}
                    /\ changed[m] # {} => muts[m].pc \in {"closing", "auditing", "done"} /\ changed[m] = B!Named(m)
                    /\ muts[m].pc \in {"auditing", "done"} =>
                         ~muts[m].open /\ (muts[m].audit = "success" => changed[m] = B!Named(m))
  BY DEF B!AllOrNothing, B!NothingLeftOpen
<1>1. MutationOK(muts[m], changed[m]) /\ muts[m] \in Mutation
  BY DEF MutationsInv
<1>2. B!Named(m) = All(muts[m])
  BY DEF B!Named, All
<1> QED
  BY <1>1, <1>2 DEF MutationOK, Mutation

\* A mutation that has not been asked for.
LEMMA IdleIsOK == B!Idle \in Mutation /\ MutationOK(B!Idle, {})
<1>1. B!Idle \in Mutation
  BY DEF B!Idle, Mutation
<1>2. Wrote(B!Idle) = {}
  BY DEF B!Idle, Wrote
<1> QED
  BY <1>1, <1>2 DEF B!Idle, MutationOK

\* None has been asked for at first.
LEMMA InitMutations == B!Init => MutationsInv
BY IdleIsOK DEF B!Init, MutationsInv

\* A step of one mutation that has changed nothing yet, or changes nothing more.
LEMMA OneMutationSteps ==
  ASSUME MutationsInv, NEW m \in Muts, NEW r \in Mutation, MutationOK(r, changed[m]),
         muts' = [muts EXCEPT ![m] = r], UNCHANGED changed
  PROVE  MutationsInv'
BY DEF MutationsInv

\* What Ended() makes of a mutation.
LEMMA EndedIsOK ==
  ASSUME MutationsInv, NEW m \in Muts, NEW c,
         NEW res \in {"ok", "refused", "conflict", "failed"},
         muts[m].pc \in {"describing", "tx"},
         c = {} \/ c = All(muts[m]), res = "ok" => c = All(muts[m]),
         res \in {"refused", "conflict"} => c = {}
  PROVE  B!Ended(m, res) \in Mutation /\ MutationOK(B!Ended(m, res), c)
<1> DEFINE r == B!Ended(m, res)
<1>1. muts[m] \in Mutation /\ MutationOK(muts[m], changed[m])
  BY DEF MutationsInv
<1>2. /\ r.pc = "closing" /\ r.result = res /\ r.at = 0 /\ r.pend = B!Idle.pend
      /\ r.keys = muts[m].keys /\ r.open = muts[m].open /\ r.audit = muts[m].audit
      /\ r.kind = muts[m].kind
  BY <1>1 DEF B!Ended, Mutation
<1>3. B!Idle.pend \in [RowKeys -> Vals \cup {Absent, "same"}]
  BY DEF B!Idle
<1>4. r \in Mutation
  BY <1>1, <1>3 DEF B!Ended, Mutation
<1>5. Wrote(r) = {}
  BY <1>2 DEF Wrote, B!Idle
<1>6. All(r) = All(muts[m])
  BY <1>2 DEF All
<1>7. muts[m].audit = "none"
  BY <1>1 DEF MutationOK
<1> HIDE DEF r
<1>8. MutationOK(r, c)
  BY <1>2, <1>5, <1>6, <1>7 DEF MutationOK
<1> QED
  BY <1>4, <1>8 DEF r

\* A request is taken.
LEMMA AskKeeps ==
  ASSUME MutationsInv, NEW m \in Muts, NEW what \in {"insert", "update", "delete", "bulk"},
         NEW ks \in Seq(RowKeys), B!Ask(m, what, ks)
  PROVE  MutationsInv'
<1> DEFINE r == [muts[m] EXCEPT !.pc = "opening", !.kind = what, !.keys = ks]
<1>1. muts[m] \in Mutation /\ muts[m] = B!Idle /\ changed[m] = {}
  BY DEF MutationsInv, MutationOK, B!Ask, B!Idle
<1>2. /\ r.pc = "opening" /\ r.kind = what /\ r.keys = ks /\ r.at = 0 /\ r.pend = B!Idle.pend
      /\ r.open = FALSE /\ r.result = "none" /\ r.audit = "none"
  BY <1>1 DEF B!Idle
<1>3. r \in Mutation
  BY <1>1 DEF Mutation
<1>4. Wrote(r) = {}
  BY <1>2 DEF Wrote, B!Idle
<1>5. muts' = [muts EXCEPT ![m] = r] /\ UNCHANGED changed
  BY DEF B!Ask, MutationsInv
<1> HIDE DEF r
<1>6. MutationOK(r, changed[m])
  BY <1>1, <1>2, <1>4 DEF MutationOK
<1> QED
  BY <1>3, <1>5, <1>6, OneMutationSteps

\* The handle is opened, the table described, the handle closed, the result recorded.
LEMMA HandleSteps ==
  ASSUME MutationsInv, NEW m \in Muts,
         \/ B!OpenHandle(m) \/ B!Describe(m) \/ B!CloseHandle(m)
         \/ \E written \in BOOLEAN : B!Audit(m, written)
  PROVE  MutationsInv'
<1>1. muts[m] \in Mutation /\ MutationOK(muts[m], changed[m])
  BY DEF MutationsInv
<1>2. CASE B!OpenHandle(m)
  <2> DEFINE r == [muts[m] EXCEPT !.pc = "describing", !.open = TRUE]
  <2>1. /\ r.pc = "describing" /\ r.open = TRUE /\ r.keys = muts[m].keys /\ r.at = muts[m].at
        /\ r.pend = muts[m].pend /\ r.result = muts[m].result /\ r.audit = muts[m].audit
    BY <1>1 DEF Mutation
  <2>2. r \in Mutation
    BY <1>1 DEF Mutation
  <2>3. Wrote(r) = Wrote(muts[m]) /\ All(r) = All(muts[m])
    BY <2>1 DEF Wrote, All
  <2>4. muts[m].pc = "opening" /\ muts' = [muts EXCEPT ![m] = r] /\ UNCHANGED changed
    BY <1>2 DEF B!OpenHandle, MutationsInv
  <2> HIDE DEF r
  <2>5. MutationOK(r, changed[m])
    BY <1>1, <2>1, <2>3, <2>4 DEF MutationOK
  <2> QED
    BY <2>2, <2>4, <2>5, OneMutationSteps
<1>3. CASE B!Describe(m) /\ B!Builds(muts[m].kind)
  <2> DEFINE r == [muts[m] EXCEPT !.pc = "tx"]
  <2>1. /\ r.pc = "tx" /\ r.open = muts[m].open /\ r.keys = muts[m].keys /\ r.at = muts[m].at
        /\ r.pend = muts[m].pend /\ r.result = muts[m].result /\ r.audit = muts[m].audit
    BY <1>1 DEF Mutation
  <2>2. r \in Mutation
    BY <1>1 DEF Mutation
  <2>3. Wrote(r) = Wrote(muts[m]) /\ All(r) = All(muts[m]) /\ First(r, 0) = {}
    BY <2>1 DEF Wrote, All, First
  <2>4. muts[m].pc = "describing" /\ muts' = [muts EXCEPT ![m] = r] /\ UNCHANGED changed
    BY <1>3 DEF B!Describe, MutationsInv
  <2>5. 0 <= Len(r.keys)
    BY <2>2 DEF Mutation
  <2> HIDE DEF r
  <2>6. MutationOK(r, changed[m])
    BY <1>1, <2>1, <2>3, <2>4, <2>5 DEF MutationOK
  <2> QED
    BY <2>2, <2>4, <2>6, OneMutationSteps
<1>4. CASE B!Describe(m) /\ ~B!Builds(muts[m].kind)
  <2>1. /\ muts[m].pc = "describing" /\ muts' = [muts EXCEPT ![m] = B!Ended(m, "refused")]
        /\ UNCHANGED changed
    BY <1>4 DEF B!Describe, MutationsInv
  <2>2. changed[m] = {}
    BY <1>1, <2>1 DEF MutationOK
  <2> QED
    BY <2>1, <2>2, EndedIsOK, OneMutationSteps
<1>5. CASE B!CloseHandle(m)
  <2> DEFINE r == [muts[m] EXCEPT !.pc = "auditing", !.open = FALSE]
  <2>1. /\ r.pc = "auditing" /\ r.open = FALSE /\ r.keys = muts[m].keys /\ r.at = muts[m].at
        /\ r.pend = muts[m].pend /\ r.result = muts[m].result /\ r.audit = muts[m].audit
    BY <1>1 DEF Mutation
  <2>2. r \in Mutation
    BY <1>1 DEF Mutation
  <2>3. Wrote(r) = Wrote(muts[m]) /\ All(r) = All(muts[m])
    BY <2>1 DEF Wrote, All
  <2>4. muts[m].pc = "closing" /\ muts' = [muts EXCEPT ![m] = r] /\ UNCHANGED changed
    BY <1>5 DEF B!CloseHandle, MutationsInv
  <2> HIDE DEF r
  <2>5. MutationOK(r, changed[m])
    BY <1>1, <2>1, <2>3, <2>4 DEF MutationOK
  <2> QED
    BY <2>2, <2>4, <2>5, OneMutationSteps
<1>6. ASSUME NEW written \in BOOLEAN, B!Audit(m, written)
      PROVE  MutationsInv'
  <2>1. PICK a \in {"none", "success", "failure"}, res \in {muts[m].result, "unrecorded"} :
          /\ muts' = [muts EXCEPT ![m].pc = "done", ![m].audit = a, ![m].result = res]
          /\ a = "success" => muts[m].result = "ok"
    BY <1>6 DEF B!Audit, MutationsInv
  <2> DEFINE r == [muts[m] EXCEPT !.pc = "done", !.audit = a, !.result = res]
  <2>2. /\ r.pc = "done" /\ r.audit = a /\ r.result = res /\ r.keys = muts[m].keys
        /\ r.at = muts[m].at /\ r.pend = muts[m].pend /\ r.open = muts[m].open
    BY <1>1 DEF Mutation
  <2>3. r \in Mutation
    BY <1>1 DEF Mutation
  <2>4. Wrote(r) = Wrote(muts[m]) /\ All(r) = All(muts[m])
    BY <2>2 DEF Wrote, All
  <2>5. muts[m].pc = "auditing" /\ muts' = [muts EXCEPT ![m] = r] /\ UNCHANGED changed
    BY <1>6, <2>1 DEF B!Audit, MutationsInv
  <2> HIDE DEF r
  <2>6. MutationOK(r, changed[m])
    BY <1>1, <2>1, <2>2, <2>4, <2>5 DEF MutationOK
  <2> QED
    BY <2>3, <2>5, <2>6, OneMutationSteps
<1> QED
  BY <1>2, <1>3, <1>4, <1>5, <1>6

\* One row is written: the next key.
LEMMA WritesKeeps ==
  ASSUME MutationsInv, NEW m \in Muts, NEW v \in Vals \cup {Absent}, muts[m].pc = "tx",
         muts[m].at < Len(muts[m].keys), B!Writes(m, v), UNCHANGED changed
  PROVE  MutationsInv'
<1>1. muts[m] \in Mutation /\ MutationOK(muts[m], changed[m])
  BY DEF MutationsInv
<1> DEFINE k == muts[m].keys[muts[m].at + 1]
           r == [muts[m] EXCEPT !.at = muts[m].at + 1, !.pend = [muts[m].pend EXCEPT ![k] = v]]
<1>2. B!Target(m) = k /\ k \in RowKeys /\ muts[m].at \in Nat
  BY <1>1 DEF B!Target, B!numericParameter, Mutation
<1>3. /\ r.pc = "tx" /\ r.at = muts[m].at + 1 /\ r.pend = [muts[m].pend EXCEPT ![k] = v]
      /\ r.keys = muts[m].keys /\ r.open = muts[m].open /\ r.result = muts[m].result
      /\ r.audit = muts[m].audit
  BY <1>1 DEF Mutation
<1>4. r \in Mutation
  <2>1. [muts[m].pend EXCEPT ![k] = v] \in [RowKeys -> Vals \cup {Absent, "same"}]
    BY <1>1 DEF Mutation
  <2>2. muts[m].at + 1 \in Nat
    BY <1>2
  <2>3. ASSUME NEW n \in Nat, NEW q \in [RowKeys -> Vals \cup {Absent, "same"}]
        PROVE  [muts[m] EXCEPT !.at = n, !.pend = q] \in Mutation
    BY <1>1 DEF Mutation
  <2> QED
    BY <2>1, <2>2, <2>3
<1>5. Wrote(r) = Wrote(muts[m]) \cup {k}
  <2>1. muts[m].pend \in [RowKeys -> Vals \cup {Absent, "same"}] /\ v # "same"
    BY <1>1, PartsAssumption DEF Mutation
  <2> HIDE DEF k, r
  <2> QED
    BY <1>2, <1>3, <2>1 DEF Wrote
<1>6. First(r, r.at) = First(muts[m], muts[m].at) \cup {k}
  <2>1. muts[m].at \in Nat /\ k = muts[m].keys[muts[m].at + 1]
    BY <1>2
  <2> HIDE DEF k, r
  <2> QED
    BY <1>3, <2>1 DEF First
<1>7. muts' = [muts EXCEPT ![m] = r]
  BY <1>2 DEF B!Writes, MutationsInv
<1>8. r.at <= Len(r.keys) /\ All(r) = All(muts[m])
  BY <1>1, <1>3 DEF Mutation, All
<1> HIDE DEF k, r
<1>9. MutationOK(r, changed[m])
  BY <1>1, <1>3, <1>5, <1>6, <1>8 DEF MutationOK
<1> QED
  BY <1>4, <1>7, <1>9, OneMutationSteps

\* A statement finds its row and writes it, or the transaction is given up; so it is when the
\* connection fails.
LEMMA StatementKeeps ==
  ASSUME MutationsInv, NEW m \in Muts,
         \/ \E v \in Vals : B!Insert(m, v) \/ B!Update(m, v)
         \/ B!Delete(m) \/ B!BulkDelete(m) \/ B!Fail(m)
  PROVE  MutationsInv'
<1>1. muts[m] \in Mutation /\ MutationOK(muts[m], changed[m])
  BY DEF MutationsInv
<1>2. ASSUME B!Fail(m), muts[m].open
      PROVE  MutationsInv'
  <2>1. /\ muts[m].pc \in {"describing", "tx"} /\ muts' = [muts EXCEPT ![m] = B!Ended(m, "failed")]
        /\ UNCHANGED changed
    BY <1>1, <1>2 DEF B!Fail, MutationsInv, MutationOK
  <2>2. changed[m] = {}
    BY <1>1, <2>1 DEF MutationOK
  <2> QED
    BY <2>1, <2>2, EndedIsOK, OneMutationSteps
<1>3. ASSUME B!Fail(m), ~muts[m].open
      PROVE  MutationsInv'
  <2> DEFINE r == [muts[m] EXCEPT !.pc = "auditing", !.result = "failed"]
  <2>1. /\ r.pc = "auditing" /\ r.result = "failed" /\ r.open = muts[m].open
        /\ r.keys = muts[m].keys /\ r.at = muts[m].at /\ r.pend = muts[m].pend
        /\ r.audit = muts[m].audit
    BY <1>1 DEF Mutation
  <2>2. r \in Mutation
    BY <1>1 DEF Mutation
  <2>3. Wrote(r) = Wrote(muts[m]) /\ All(r) = All(muts[m])
    BY <2>1 DEF Wrote, All
  <2>4. muts[m].pc = "opening" /\ muts' = [muts EXCEPT ![m] = r] /\ UNCHANGED changed
    BY <1>1, <1>3 DEF B!Fail, MutationsInv, MutationOK
  <2> HIDE DEF r
  <2>5. MutationOK(r, changed[m])
    BY <1>1, <2>1, <2>3, <2>4 DEF MutationOK
  <2> QED
    BY <2>2, <2>4, <2>5, OneMutationSteps
<1>4. ASSUME NEW v \in Vals, B!Insert(m, v) \/ B!Update(m, v) \/ B!Delete(m) \/ B!BulkDelete(m)
      PROVE  MutationsInv'
  <2>1. muts[m].pc = "tx" /\ muts[m].at < Len(muts[m].keys) /\ UNCHANGED changed
    BY <1>4 DEF B!Insert, B!Update, B!Delete, B!BulkDelete, B!AtRow
  <2>2. \/ \E w \in Vals \cup {Absent} : B!Writes(m, w)
        \/ \E res \in {"failed", "conflict"} : B!GivesUp(m, res)
    BY <1>4 DEF B!Insert, B!Update, B!Delete, B!BulkDelete
  <2>3. changed[m] = {}
    BY <1>1, <2>1 DEF MutationOK
  <2>4. ASSUME NEW res \in {"failed", "conflict"}, B!GivesUp(m, res)
        PROVE  MutationsInv'
    <3>1. muts' = [muts EXCEPT ![m] = B!Ended(m, res)]
      BY <2>4 DEF B!GivesUp
    <3>2. B!Ended(m, res) \in Mutation /\ MutationOK(B!Ended(m, res), changed[m])
      BY <2>1, <2>3, EndedIsOK
    <3> QED
      BY <2>1, <3>1, <3>2, OneMutationSteps
  <2> QED
    BY <2>1, <2>2, <2>4, WritesKeeps
<1>5. ASSUME B!Delete(m) \/ B!BulkDelete(m)
      PROVE  MutationsInv'
  <2>1. muts[m].pc = "tx" /\ muts[m].at < Len(muts[m].keys) /\ UNCHANGED changed
    BY <1>5 DEF B!Delete, B!BulkDelete, B!AtRow
  <2>2. B!Writes(m, Absent) \/ B!GivesUp(m, "conflict")
    BY <1>5 DEF B!Delete, B!BulkDelete
  <2>3. changed[m] = {}
    BY <1>1, <2>1 DEF MutationOK
  <2>4. B!Ended(m, "conflict") \in Mutation /\ MutationOK(B!Ended(m, "conflict"), changed[m])
    BY <2>1, <2>3, EndedIsOK
  <2> QED
    BY <2>1, <2>2, <2>4, WritesKeeps, OneMutationSteps DEF B!GivesUp
<1> QED
  BY <1>2, <1>3, <1>4, <1>5

\* The transaction has written every row it names when it commits, whether the answer comes or not.
LEMMA CommitKeeps ==
  ASSUME MutationsInv, NEW m \in Muts, B!Commit(m) \/ B!CommitLost(m)
  PROVE  MutationsInv'
<1>1. muts[m] \in Mutation /\ MutationOK(muts[m], changed[m])
  BY DEF MutationsInv
<1>2. /\ muts[m].pc = "tx" /\ muts[m].at = Len(muts[m].keys)
      /\ changed' = [changed EXCEPT ![m] = B!Written(m)]
  BY DEF B!Commit, B!CommitLost, B!Committed
<1>3. PICK res \in {"ok", "failed"} : muts' = [muts EXCEPT ![m] = B!Ended(m, res)]
  BY DEF B!Commit, B!CommitLost
<1>4. B!Written(m) = All(muts[m])
  <2>1. B!Written(m) = Wrote(muts[m])
    BY DEF B!Written, Wrote
  <2>2. DOMAIN muts[m].keys = 1..Len(muts[m].keys)
    BY <1>1 DEF Mutation
  <2>3. First(muts[m], muts[m].at) = All(muts[m])
    BY <1>2, <2>2 DEF First, All
  <2> QED
    BY <1>1, <1>2, <2>1, <2>3 DEF MutationOK
<1>5. B!Ended(m, res) \in Mutation /\ MutationOK(B!Ended(m, res), All(muts[m]))
  BY <1>2, EndedIsOK
<1>6. B!Written(m) \subseteq RowKeys
  BY DEF B!Written
<1> QED
  BY <1>2, <1>3, <1>4, <1>5, <1>6 DEF MutationsInv

-----------------------------------------------------------------------------
(* The data browser: pages *)

\* Row a comes before row b in the order of the pages of a table with a primary key.
Before(a, b) ==
    \/ rows[a] = "u" /\ rows[b] # "u"
    \/ rows[a] = rows[b] /\ a < b

\* What such an order is.
LEMMA OrderIsTotal ==
  ASSUME shape = "primary", NEW f \in B!Orders
  PROVE  /\ f \in [1..Cardinality(B!Matching) -> B!Matching]
         /\ \A i, j \in 1..Cardinality(B!Matching) : i < j => Before(f[i], f[j])
         /\ \A i, j \in 1..Cardinality(B!Matching) : i # j => f[i] # f[j]
<1>1. B!Cardinality(B!Matching) = Cardinality(B!Matching)
  BY DEF B!Cardinality, Cardinality
<1>2. f \in [1..Cardinality(B!Matching) -> B!Matching]
  BY <1>1 DEF B!Orders
<1>3. DOMAIN f = 1..Cardinality(B!Matching)
  BY <1>2
<1>4. \A i, j \in DOMAIN f : i # j => f[i] # f[j]
  BY DEF B!Orders
<1>5. \A i, j \in DOMAIN f : i < j => Before(f[i], f[j])
  BY DEF B!Orders, B!Ordered, Before
<1> QED
  BY <1>2, <1>3, <1>4, <1>5

\* Matching rows are finitely many.
LEMMA MatchingIsFinite ==
  /\ B!Matching \subseteq RowKeys
  /\ IsFiniteSet(B!Matching)
  /\ Cardinality(B!Matching) \in Nat
<1>1. B!Matching \subseteq RowKeys
  BY DEF B!Matching
<1>2. IsFiniteSet(B!Matching)
  BY <1>1, PartsAssumption, FS_Subset
<1> QED
  BY <1>1, <1>2, FS_CardinalityType

\* Every matching row is in it.
LEMMA OrderIsComplete ==
  ASSUME shape = "primary", NEW f \in B!Orders
  PROVE  \A k \in B!Matching : \E i \in 1..Cardinality(B!Matching) : f[i] = k
<1> DEFINE n == Cardinality(B!Matching)
<1>1. n \in Nat /\ IsFiniteSet(B!Matching)
  BY MatchingIsFinite
<1>2. f \in Injection(1..n, B!Matching)
  BY OrderIsTotal DEF Injection, IsInjective
<1>3. Cardinality(1..n) = n
  BY <1>1, FS_Interval
<1>4. f \in Surjection(1..n, B!Matching)
  BY <1>1, <1>2, <1>3, FS_Injection
<1> QED
  BY <1>4 DEF Surjection

\* A set of numbers that is not empty has a least one.
LEMMA LeastNumber ==
  ASSUME NEW T \in SUBSET Nat, T # {}
  PROVE  \E x \in T : \A y \in T : x <= y
<1>1. PICK x \in T : \A y \in T : ~(<<y, x>> \in OpToRel(<, Nat))
  BY NatLessThanWellFounded, WFMin
<1>2. \A y \in T : ~(y < x)
  BY <1>1 DEF OpToRel
<1>3. \A y \in T : x \in Nat /\ y \in Nat
  OBVIOUS
<1> QED
  BY <1>2, <1>3

\* There is only one order: at the first place where two differ each of the two rows would come
\* before the other.
LEMMA OneOrder ==
  ASSUME shape = "primary", NEW f \in B!Orders, NEW g \in B!Orders
  PROVE  f = g
<1> DEFINE n == Cardinality(B!Matching)
           D == {i \in 1..n : f[i] # g[i]}
<1>1. n \in Nat /\ f \in [1..n -> B!Matching] /\ g \in [1..n -> B!Matching]
  BY MatchingIsFinite, OrderIsTotal
<1>2. ASSUME D # {}
      PROVE  FALSE
  <2>1. PICK i \in D : \A j \in D : i <= j
    <3>1. D \in SUBSET Nat
      BY <1>1
    <3> QED
      BY <1>2, <3>1, LeastNumber
  <2>2. i \in 1..n /\ f[i] # g[i] /\ \A j \in 1..n : j < i => f[j] = g[j]
    BY <2>1, <1>1
  <2>3. PICK j \in 1..n : g[j] = f[i]
    BY <1>1, <2>2, OrderIsComplete
  <2>4. PICK k \in 1..n : f[k] = g[i]
    BY <1>1, <2>2, OrderIsComplete
  <2>5. j > i
    <3>1. j # i /\ (j < i => g[j] = f[j])
      BY <2>2, <2>3
    <3>2. j < i => f[j] # f[i]
      BY <2>2, OrderIsTotal
    <3> QED
      BY <1>1, <2>2, <2>3, <3>1, <3>2
  <2>6. k > i
    <3>1. k # i /\ (k < i => g[k] = f[k])
      BY <2>2, <2>4
    <3>2. k < i => g[k] # g[i]
      BY <2>2, OrderIsTotal
    <3> QED
      BY <1>1, <2>2, <2>4, <3>1, <3>2
  <2>7. Before(g[i], f[i])
    BY <2>2, <2>3, <2>5, OrderIsTotal
  <2>8. Before(f[i], g[i])
    BY <2>2, <2>4, <2>6, OrderIsTotal
  <2>9. f[i] \in Nat /\ g[i] \in Nat
    BY <1>1, <2>2, MatchingIsFinite, PartsAssumption
  <2> QED
    BY <2>7, <2>8, <2>9 DEF Before
<1> QED
  BY <1>1, <1>2

\* The rows read so far are the first ones of the order, and all of them at the end.
PrefixOf(f) ==
    /\ Len(reader.seen) <= Len(f)
    /\ \A i \in 1..Len(reader.seen) : reader.seen[i] = f[i]
    /\ reader.more \/ Len(reader.seen) = Len(f)

\* While nobody changes the rows, the pages are those of one order - of which there is one, so
\* that the next page goes on with it.
PagesInv ==
    /\ reader \in [seen : Seq(RowKeys), filter : {Vals, {"w"}}, more : BOOLEAN, quiet : BOOLEAN]
    /\ shape = "primary" /\ reader.quiet =>
          \/ reader.seen = << >> /\ reader.more
          \/ \E f \in B!Orders : PrefixOf(f)

\* An order is a sequence as long as there are matching rows.
LEMMA OrderIsASequence ==
  ASSUME NEW f \in B!Orders
  PROVE  f \in Seq(RowKeys) /\ Len(f) = Cardinality(B!Matching)
<1>1. B!Cardinality(B!Matching) = Cardinality(B!Matching)
  BY DEF B!Cardinality, Cardinality
<1>2. f \in [1..Cardinality(B!Matching) -> RowKeys]
  BY <1>1, MatchingIsFinite DEF B!Orders
<1> QED
  BY <1>2, MatchingIsFinite

\* At the end every matching row was shown once.
LEMMA PagesAreTrue == PagesInv => B!PagesPartition
<1> SUFFICES ASSUME PagesInv, shape = "primary", reader.quiet, ~reader.more
             PROVE  /\ {reader.seen[i] : i \in DOMAIN reader.seen} = B!Matching
                    /\ Len(reader.seen) = B!Cardinality(B!Matching)
  BY DEF B!PagesPartition
<1>1. PICK f \in B!Orders : PrefixOf(f)
  BY DEF PagesInv
<1>2. B!Cardinality(B!Matching) = Cardinality(B!Matching)
  BY DEF B!Cardinality, Cardinality
<1> DEFINE n == Cardinality(B!Matching)
<1>3. Len(f) = n /\ n \in Nat /\ f \in [1..n -> B!Matching]
  BY OrderIsASequence, OrderIsTotal, MatchingIsFinite
<1>4. Len(reader.seen) = n /\ \A i \in 1..n : reader.seen[i] = f[i]
  BY <1>1, <1>3 DEF PrefixOf
<1>5. DOMAIN reader.seen = 1..n
  BY <1>4 DEF PagesInv
<1>6. \A k \in B!Matching : \E i \in 1..n : f[i] = k
  BY OrderIsComplete
<1> HIDE DEF n
<1>7. {reader.seen[i] : i \in DOMAIN reader.seen} = B!Matching
  BY <1>3, <1>4, <1>5, <1>6
<1> QED
  BY <1>2, <1>4, <1>7 DEF n

\* Nothing was read at first.
LEMMA InitPages == B!Init => PagesInv
BY DEF B!Init, PagesInv

\* The next page goes on where the last one ended.
LEMMA ReadPageKeeps ==
  ASSUME PagesInv, NEW g \in B!Orders, B!ReadPage(g)
  PROVE  PagesInv'
<1> DEFINE n == Len(g)
           from == Len(reader.seen)
           upto == IF from + PageSize < n THEN from + PageSize ELSE n
           one == IF from + PageSize + 1 < n THEN from + PageSize + 1 ELSE n
           got == SubSeq(g, from + 1, upto)
<1>1. n \in Nat /\ from \in Nat /\ PageSize \in Nat \ {0} /\ reader.seen \in Seq(RowKeys)
  BY OrderIsASequence, PartsAssumption DEF PagesInv
<1>2. /\ reader' = [reader EXCEPT !.seen = reader.seen \o got,
                                  !.more = Len(SubSeq(g, from + 1, one)) > PageSize]
      /\ UNCHANGED <<shape, rows>> /\ reader.more
  BY DEF B!ReadPage
<1>3. \A i \in 1..n : g[i] \in RowKeys
  BY <1>1, OrderIsASequence
<1>4. /\ got \in Seq(RowKeys)
      /\ Len(got) = IF from + 1 <= upto THEN upto - from ELSE 0
      /\ \A i \in 1..(upto - from) : got[i] = g[from + i]
  <2>1. from + 1 \in Int /\ upto \in Int /\ upto <= n /\ from + 1 >= 1
    BY <1>1
  <2>2. \A i \in (from + 1)..upto : g[i] \in RowKeys
    BY <1>1, <1>3, <2>1
  <2> HIDE DEF n, from, upto
  <2>3. /\ SubSeq(g, from + 1, upto) \in Seq(RowKeys)
        /\ Len(SubSeq(g, from + 1, upto))
             = IF from + 1 <= upto THEN upto - (from + 1) + 1 ELSE 0
        /\ \A i \in 1..(upto - (from + 1) + 1) :
              SubSeq(g, from + 1, upto)[i] = g[(from + 1) + i - 1]
    BY <2>1, <2>2, SubSeqProperties
  <2>4. from \in Int /\ upto \in Int
    BY <1>1, <2>1
  <2>5. upto - (from + 1) + 1 = upto - from
    BY <2>4
  <2>6. \A i \in 1..(upto - from) : (from + 1) + i - 1 = from + i
    BY <2>4
  <2> QED
    BY <2>3, <2>5, <2>6
<1>5. Len(SubSeq(g, from + 1, one)) = IF from + 1 <= one THEN one - from ELSE 0
  <2>1. from + 1 \in Int /\ one \in Int /\ one <= n /\ from + 1 >= 1
    BY <1>1
  <2>2. \A i \in (from + 1)..one : g[i] \in RowKeys
    BY <1>1, <1>3, <2>1
  <2> HIDE DEF n, from, one
  <2>3. Len(SubSeq(g, from + 1, one)) = IF from + 1 <= one THEN one - (from + 1) + 1 ELSE 0
    BY <2>1, <2>2, SubSeqProperties
  <2> QED
    BY <1>1, <2>1, <2>3
<1> HIDE DEF n, from, upto, one, got
<1>6. reader' \in [seen : Seq(RowKeys), filter : {Vals, {"w"}}, more : BOOLEAN, quiet : BOOLEAN]
  <2>1. reader.seen \o got \in Seq(RowKeys)
    BY <1>1, <1>4
  <2>2. (Len(SubSeq(g, from + 1, one)) > PageSize) \in BOOLEAN
    OBVIOUS
  <2>3. ASSUME NEW q \in Seq(RowKeys), NEW b \in BOOLEAN
        PROVE  [reader EXCEPT !.seen = q, !.more = b]
                 \in [seen : Seq(RowKeys), filter : {Vals, {"w"}}, more : BOOLEAN, quiet : BOOLEAN]
    BY DEF PagesInv
  <2> QED
    BY <1>2, <2>1, <2>2, <2>3
<1>7. /\ reader'.seen = reader.seen \o got /\ reader'.filter = reader.filter
      /\ reader'.quiet = reader.quiet
      /\ reader'.more <=> Len(SubSeq(g, from + 1, one)) > PageSize
  BY <1>2 DEF PagesInv
<1>8. B!Orders' = B!Orders
  BY <1>2, <1>7 DEF B!Orders, B!Matching, B!Ordered
<1>9. ASSUME shape = "primary", reader.quiet
      PROVE  /\ from <= n
             /\ \A i \in 1..from : reader.seen[i] = g[i]
  <2>1. CASE reader.seen = << >>
    BY <1>1, <2>1 DEF from
  <2>2. CASE \E f \in B!Orders : PrefixOf(f)
    BY <1>9, <2>2, OneOrder DEF PrefixOf, from, n
  <2> QED
    BY <1>9, <2>1, <2>2 DEF PagesInv
<1>10. ASSUME shape = "primary", reader.quiet
       PROVE  PrefixOf(g)'
  <2>1. from <= n /\ \A i \in 1..from : reader.seen[i] = g[i]
    BY <1>9, <1>10
  <2>2. upto \in Nat /\ from <= upto /\ upto <= n /\ (upto = from + PageSize \/ upto = n)
    BY <1>1, <2>1 DEF upto
  <2>3. Len(got) = upto - from
    BY <1>1, <1>4, <2>2
  <2>4. /\ Len(reader.seen \o got) = upto
        /\ \A i \in 1..upto : (reader.seen \o got)[i]
               = IF i <= from THEN reader.seen[i] ELSE got[i - from]
    <3>1. /\ Len(reader.seen \o got) = Len(reader.seen) + Len(got)
          /\ \A i \in 1..(Len(reader.seen) + Len(got)) : (reader.seen \o got)[i]
                = IF i <= Len(reader.seen) THEN reader.seen[i] ELSE got[i - Len(reader.seen)]
      BY <1>1, <1>4, ConcatProperties
    <3>2. Len(reader.seen) = from
      BY DEF from
    <3>3. from + (upto - from) = upto
      BY <1>1, <2>2
    <3> QED
      BY <2>3, <3>1, <3>2, <3>3
  <2>5. \A i \in 1..upto : (reader.seen \o got)[i] = g[i]
    <3> SUFFICES ASSUME NEW i \in 1..upto
                 PROVE  (reader.seen \o got)[i] = g[i]
      OBVIOUS
    <3>1. i \in Int /\ from \in Int /\ upto \in Int
      BY <1>1, <2>2
    <3>2. CASE i <= from
      BY <1>1, <2>1, <2>4, <3>2
    <3>3. CASE ~(i <= from)
      <4>1. i - from \in 1..(upto - from) /\ from + (i - from) = i
        BY <3>1, <3>3
      <4> QED
        BY <1>1, <1>4, <2>2, <2>4, <3>3, <4>1
    <3> QED
      BY <3>2, <3>3
  <2>6. ~reader'.more => upto = n
    BY <1>1, <1>5, <1>7, <2>1 DEF upto, one
  <2> QED
    BY <1>7, <2>2, <2>4, <2>5, <2>6 DEF PrefixOf, n
<1> QED
  BY <1>2, <1>6, <1>7, <1>8, <1>10 DEF PagesInv

\* A change between two pages ends the promise, and one before the first does no harm.
LEMMA DisturbedKeeps ==
  ASSUME PagesInv, reader' = B!Disturbed, UNCHANGED shape
  PROVE  PagesInv'
<1>1. /\ reader'.seen = reader.seen /\ reader'.more = reader.more
      /\ reader'.quiet => reader.more /\ reader.seen = << >>
  BY DEF PagesInv, B!Disturbed
<1>2. reader' \in [seen : Seq(RowKeys), filter : {Vals, {"w"}}, more : BOOLEAN, quiet : BOOLEAN]
  <2>1. (reader.more /\ reader.seen = << >>) \in BOOLEAN
    OBVIOUS
  <2>2. ASSUME NEW b \in BOOLEAN
        PROVE  [reader EXCEPT !.quiet = b]
                 \in [seen : Seq(RowKeys), filter : {Vals, {"w"}}, more : BOOLEAN, quiet : BOOLEAN]
    BY DEF PagesInv
  <2> QED
    BY <2>1, <2>2 DEF B!Disturbed
<1> QED
  BY <1>1, <1>2 DEF PagesInv

\* The rows and the reader stay as they are.
LEMMA PagesStay ==
  ASSUME PagesInv, UNCHANGED <<shape, rows, reader>>
  PROVE  PagesInv'
<1>1. B!Orders' = B!Orders
  BY DEF B!Orders, B!Matching, B!Ordered
<1> QED
  BY <1>1 DEF PagesInv, PrefixOf

-----------------------------------------------------------------------------
(* The data browser: both *)

BrowserInv == MutationsInv /\ PagesInv

\* A step of a mutation.
LEMMA MutationSteps ==
  ASSUME BrowserInv, NEW m \in Muts,
         \/ \E what \in {"insert", "update", "delete"}, k \in RowKeys : B!Ask(m, what, <<k>>)
         \/ \E n \in 1..Bounds.bulk : \E ks \in [1..n -> RowKeys] : B!Ask(m, "bulk", ks)
         \/ \E v \in Vals : B!Insert(m, v) \/ B!Update(m, v)
         \/ B!Delete(m) \/ B!BulkDelete(m)
         \/ B!OpenHandle(m) \/ B!Describe(m) \/ B!Fail(m)
         \/ B!Commit(m) \/ B!CommitLost(m) \/ B!CloseHandle(m)
         \/ \E written \in BOOLEAN : B!Audit(m, written)
  PROVE  BrowserInv'
<1>1. MutationsInv'
  <2>1. ASSUME NEW what \in {"insert", "update", "delete"}, NEW k \in RowKeys,
               B!Ask(m, what, <<k>>)
        PROVE  MutationsInv'
    <3>1. <<k>> \in Seq(RowKeys) /\ what \in {"insert", "update", "delete", "bulk"}
      OBVIOUS
    <3> QED
      BY <2>1, <3>1, AskKeeps DEF BrowserInv
  <2>2. ASSUME NEW n \in 1..Bounds.bulk, NEW ks \in [1..n -> RowKeys], B!Ask(m, "bulk", ks)
        PROVE  MutationsInv'
    <3>1. ks \in Seq(RowKeys)
      BY PartsAssumption
    <3> QED
      BY <2>2, <3>1, AskKeeps DEF BrowserInv
  <2> QED
    BY <2>1, <2>2, HandleSteps, StatementKeeps, CommitKeeps DEF BrowserInv
<1>2. PagesInv'
  <2>1. CASE B!Commit(m) \/ B!CommitLost(m)
    BY <2>1, DisturbedKeeps DEF B!Commit, B!CommitLost, B!Committed, BrowserInv
  <2>2. CASE ~(B!Commit(m) \/ B!CommitLost(m))
    <3>1. UNCHANGED <<shape, rows, reader>>
      BY <2>2 DEF B!Ask, B!Insert, B!Update, B!Delete, B!BulkDelete, B!OpenHandle, B!Describe,
         B!Fail, B!CloseHandle, B!Audit
    <3> QED
      BY <3>1, PagesStay DEF BrowserInv
  <2> QED
    BY <2>1, <2>2
<1> QED
  BY <1>1, <1>2 DEF BrowserInv

\* Every step of the data browser keeps both.
LEMMA NextBrowser == BrowserInv /\ [B!Next]_(B!vars) => BrowserInv'
<1> SUFFICES ASSUME BrowserInv, [B!Next]_(B!vars)
             PROVE  BrowserInv'
  OBVIOUS
<1>1. CASE UNCHANGED B!vars
  BY <1>1, PagesStay DEF B!vars, BrowserInv, MutationsInv
<1>2. ASSUME NEW f \in B!Orders, B!ReadPage(f)
      PROVE  BrowserInv'
  <2>1. UNCHANGED <<muts, changed>>
    BY <1>2 DEF B!ReadPage
  <2> QED
    BY <1>2, <2>1, ReadPageKeeps DEF BrowserInv, MutationsInv
<1>3. CASE B!Reload
  <2>1. UNCHANGED <<muts, changed>>
    BY <1>3 DEF B!Reload
  <2>2. PagesInv'
    <3>1. reader' = [reader EXCEPT !.seen = << >>, !.more = TRUE, !.quiet = TRUE]
      BY <1>3 DEF B!Reload
    <3>2. reader'.seen = << >> /\ reader'.more
      BY <3>1 DEF PagesInv, BrowserInv
    <3>3. reader' \in [seen : Seq(RowKeys), filter : {Vals, {"w"}}, more : BOOLEAN, quiet : BOOLEAN]
      <4>1. ASSUME NEW q \in Seq(RowKeys), NEW b \in BOOLEAN, NEW c \in BOOLEAN
            PROVE  [reader EXCEPT !.seen = q, !.more = b, !.quiet = c]
                     \in [seen : Seq(RowKeys), filter : {Vals, {"w"}}, more : BOOLEAN, quiet : BOOLEAN]
        BY DEF PagesInv, BrowserInv
      <4>2. << >> \in Seq(RowKeys)
        OBVIOUS
      <4> QED
        BY <3>1, <4>1, <4>2
    <3> QED
      BY <3>2, <3>3 DEF PagesInv
  <2> QED
    BY <2>1, <2>2 DEF BrowserInv, MutationsInv
<1>4. ASSUME NEW k \in RowKeys, NEW v \in Vals \cup {Absent}, B!Other(k, v)
      PROVE  BrowserInv'
  <2>1. UNCHANGED <<muts, changed>>
    BY <1>4 DEF B!Other
  <2> QED
    BY <1>4, <2>1, DisturbedKeeps DEF B!Other, BrowserInv, MutationsInv
<1> QED
  BY <1>1, <1>2, <1>3, <1>4, MutationSteps DEF B!Next

-----------------------------------------------------------------------------
(* The instance *)

\* Every part that runs keeps its invariant.
InstanceInv ==
    /\ part = "editor" => EditorInv
    /\ part = "library" => LibraryInv
    /\ part = "browser" => BrowserInv
    /\ part = "grid" => GridInv

\* The instance starts where its part starts.
LEMMA InitInstance == AllInit => InstanceInv
  BY InitEditor, InitLibrary, InitMutations, InitPages, InitGrid DEF AllInit, InstanceInv, BrowserInv

\* A step of the instance is a step of the part that runs.
LEMMA PartSteps ==
  ASSUME [AllNext]_allVars
  PROVE  /\ part' = part
         /\ part = "editor" => [E!Next]_(E!vars)
         /\ part = "library" => [L!Next]_(L!vars)
         /\ part = "browser" => [B!Next]_(B!vars)
         /\ part = "grid" => [G!Next]_(G!vars)
<1>1. CASE UNCHANGED allVars
  <2>1. /\ part' = part /\ UNCHANGED tabEditor /\ UNCHANGED library /\ UNCHANGED browser
        /\ UNCHANGED gridPage
    BY <1>1 DEF allVars
  <2>2. UNCHANGED E!vars
    BY <2>1 DEF tabEditor, E!vars
  <2>3. UNCHANGED L!vars
    BY <2>1 DEF library, L!vars
  <2>4. UNCHANGED B!vars
    BY <2>1 DEF browser, B!vars
  <2>5. UNCHANGED G!vars
    BY <2>1 DEF gridPage, G!vars, G!pageState, G!dialogs, G!history
  <2> QED
    BY <2>1, <2>2, <2>3, <2>4, <2>5
<1>2. CASE AllNext
  BY <1>2 DEF AllNext
<1> QED
  BY <1>1, <1>2

\* Each part keeps its invariant.
LEMMA NextInstance == InstanceInv /\ [AllNext]_allVars => InstanceInv'
<1> SUFFICES ASSUME InstanceInv, [AllNext]_allVars
             PROVE  InstanceInv'
  OBVIOUS
<1>1. /\ part' = part
      /\ part = "editor" => [E!Next]_(E!vars)
      /\ part = "library" => [L!Next]_(L!vars)
      /\ part = "browser" => [B!Next]_(B!vars)
      /\ part = "grid" => [G!Next]_(G!vars)
  BY PartSteps
<1> QED
  BY <1>1, NextEditor, NextLibrary, NextBrowser, NextGrid DEF InstanceInv

\* What a watch tells names an execution, the settings cache holds what is stored, a transaction
\* has written the rows of its first keys and a read under way asks for the view in force.
THEOREM PagesInvariant == AllSpec => []InstanceInv
<1> QED
  BY InitInstance, NextInstance, PTL DEF AllSpec

\* For any rows, keys and number of mutations: a mutation changes the rows it names, all or none,
\* keeps no handle and records no success it did not have, and the pages of an unchanged table
\* with a primary key show every matching row once.
THEOREM MutationsStayWhole == AllSpec => []MutationsAreWhole
<1>1. InstanceInv => MutationsAreWhole
  BY MutationsAreTrue, PagesAreTrue DEF InstanceInv, BrowserInv, MutationsAreWhole
<1> QED
  BY <1>1, PagesInvariant, PTL

\* For any rows and filters, and any number of reads under way: the rows shown are the answer to
\* what the controls ask for, however late an earlier read answers.
THEOREM ShownStaysAsked == AllSpec => []ShownIsAsked
<1>1. InstanceInv => ShownIsAsked
  BY DEF InstanceInv, GridInv, ShownIsAsked
<1> QED
  BY <1>1, PagesInvariant, PTL

\* For any number of executions, polls and events on the wire: once a watch has shown its run as
\* ended, it shows it as going on again only in the answer to a cancel.
THEOREM EndStaysEnded == AllSpec => EndedStaysShown
<1>1. InstanceInv /\ [AllNext]_allVars => [part = "editor" => E!EndStays]_allVars
  BY PartSteps, EndStaysShown DEF InstanceInv
<1> QED
  BY <1>1, PagesInvariant, PTL DEF AllSpec, EndedStaysShown

\* For any users, connections and limits: an entry added leaves its user exactly the newest
\* entries up to the limit that is stored, whatever a cache read before a change still holds.
THEOREM RetentionStaysSet == AllSpec => RetentionFollowsSetting
<1>1. InstanceInv /\ [AllNext]_allVars => [part = "library" => L!NewestStay]_allVars
  BY PartSteps, NextLibrary DEF InstanceInv
<1> QED
  BY <1>1, PagesInvariant, PTL DEF AllSpec, RetentionFollowsSetting
=============================================================================
