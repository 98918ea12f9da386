--------------------------- MODULE ConnectionsPage ---------------------------
(***************************************************************************)
(* The page of saved connections (connections.ts) and the store of their   *)
(* statuses it reads (connection-status.store.ts): loading the list,       *)
(* saving, testing, duplicating and deleting a connection, and connecting, *)
(* reconnecting and disconnecting, with a prompt where no password is      *)
(* kept.                                                                   *)
(*                                                                         *)
(* Any call may fail, and an answer says what the server knows or knew     *)
(* before.  A dialog covers the page; the form of a connection does not.   *)
(* Groups, the fields of the form, latencies, messages and which           *)
(* connection is the active one are left out.                              *)
(***************************************************************************)
EXTENDS Naturals, FiniteSets

CONSTANTS
    Conns,       \* connections
    Keeping,     \* connections whose password is saved
    MaxActs,     \* bound: acts of the user
    MaxCalls,    \* bound: calls under way
    MaxEvents    \* bound: pushed statuses

VARIABLES
    rows,        \* connections(): what is listed
    statuses,    \* the store's statuses(), "disconnected" where there is none
    form,        \* editorOpen
    loading, saving, testing,
    prompt,      \* [of, action, secret]: lifecycleTarget, lifecycleAction, whose password is typed
    deleting,    \* deleteTarget
    busyId,      \* lifecycleBusyId
    stored,      \* server: the connections there are
    truth,       \* server: their statuses
    calls,       \* the HTTP calls under way
    acts, events

marks == <<loading, saving, testing>>
server == <<stored, truth>>
vars == <<rows, statuses, form, marks, prompt, deleting, busyId, server, calls, acts, events>>

None == "none"
Status == {"disconnected", "connecting", "connected", "error"}
NoPrompt == [of |-> None, action |-> "connect", secret |-> None]
\* ends names what is over when the call, and what it leads to, is.
Sent(kind, c, secret, ends) == [kind |-> kind, conn |-> c, secret |-> secret, ends |-> ends, n |-> acts]
ListCall(ends) == Sent("list", None, None, ends)

TypeOK ==
    /\ rows \subseteq Conns /\ statuses \in [Conns -> Status]
    /\ form \in BOOLEAN /\ loading \in BOOLEAN /\ saving \in BOOLEAN /\ testing \in BOOLEAN
    /\ prompt.of \in Conns \cup {None} /\ prompt.secret \in Conns \cup {None}
    /\ deleting \in Conns \cup {None} /\ busyId \in Conns \cup {None}

\* The page begins its load; the store began to listen when the user signed in.
Init ==
    /\ rows = {} /\ statuses = [c \in Conns |-> "disconnected"]
    /\ form = FALSE /\ loading = TRUE /\ saving = FALSE /\ testing = FALSE
    /\ prompt = NoPrompt /\ deleting = None /\ busyId = None
    /\ stored = Conns /\ truth = [c \in Conns |-> "disconnected"]
    /\ acts = 0 /\ events = 0
    /\ calls = {ListCall("load"), Sent("status", None, None, "")}

Act == acts < MaxActs /\ acts' = acts + 1
Room == Cardinality(calls) < MaxCalls
Send(call) == Room /\ calls' = calls \cup {call}
Uncovered == prompt.of = None /\ deleting = None
\* The list is shown once it is loaded.
Row(c) == Uncovered /\ ~loading /\ c \in rows

-----------------------------------------------------------------------------
(* The form *)

\* The error that offers it may come while a load is under way.
load ==
    /\ Act /\ Uncovered
    /\ loading' = TRUE /\ Send(ListCall("load"))
    /\ UNCHANGED <<rows, statuses, form, saving, testing, prompt, deleting, busyId, server, events>>
\* openCreate, openEdit: also while the form before is being saved.
openForm ==
    /\ Act /\ Uncovered /\ form' = TRUE
    /\ UNCHANGED <<rows, statuses, marks, prompt, deleting, busyId, calls, server, events>>
closeEditor ==
    /\ Act /\ Uncovered /\ form /\ ~saving /\ ~testing /\ form' = FALSE
    /\ UNCHANGED <<rows, statuses, marks, prompt, deleting, busyId, calls, server, events>>
\* The buttons are disabled while either is under way.
saveConnection ==
    /\ Act /\ Uncovered /\ form /\ ~saving /\ ~testing
    /\ saving' = TRUE /\ Send(Sent("save", None, None, "save"))
    /\ UNCHANGED <<rows, statuses, form, loading, testing, prompt, deleting, busyId, server, events>>
testCurrentConnection ==
    /\ Act /\ Uncovered /\ form /\ ~saving /\ ~testing
    /\ testing' = TRUE /\ Send(Sent("test", None, None, "test"))
    /\ UNCHANGED <<rows, statuses, form, loading, saving, prompt, deleting, busyId, server, events>>
duplicate(c) ==
    /\ Act /\ Row(c) /\ Send(Sent("duplicate", c, None, "load"))
    /\ UNCHANGED <<rows, statuses, form, marks, prompt, deleting, busyId, server, events>>
confirmDelete(c) ==
    /\ Act /\ Row(c) /\ deleting' = c
    /\ UNCHANGED <<rows, statuses, form, marks, prompt, busyId, calls, server, events>>
closeDelete ==
    /\ Act /\ deleting # None /\ deleting' = None
    /\ UNCHANGED <<rows, statuses, form, marks, prompt, busyId, calls, server, events>>
deleteConnection ==
    /\ Act /\ deleting # None /\ Send(Sent("delete", deleting, None, "load"))
    /\ UNCHANGED <<rows, statuses, form, marks, prompt, deleting, busyId, server, events>>

-----------------------------------------------------------------------------
(* Connecting *)

\* Which of the three a row offers; its buttons are disabled while it is the busy one.
Offers(c, action) ==
    /\ busyId # c
    /\ action \in CASE statuses[c] = "connected" -> {"disconnect", "reconnect"}
                    [] statuses[c] = "error" -> {"reconnect"}
                    [] statuses[c] = "connecting" -> {}
                    [] OTHER -> {"connect"}
\* disconnect and beginLifecycle do nothing while one is under way, for any connection.
idle == busyId = None
alwaysIdle == TRUE

performLifecycle(c, action, secret) == busyId' = c /\ Send(Sent(action, c, secret, "lifecycle"))
disconnect(c) ==
    /\ Act /\ Row(c) /\ Offers(c, "disconnect") /\ idle
    /\ performLifecycle(c, "disconnect", None)
    /\ UNCHANGED <<rows, statuses, form, marks, prompt, deleting, server, events>>
beginLifecycle(c, action) ==
    /\ Act /\ Row(c) /\ Offers(c, action) /\ idle
    /\ IF c \in Keeping
       THEN performLifecycle(c, action, None) /\ UNCHANGED prompt
       ELSE /\ prompt' = [of |-> c, action |-> action, secret |-> None]
            /\ UNCHANGED <<busyId, calls>>
    /\ UNCHANGED <<rows, statuses, form, marks, deleting, server, events>>
onSecret ==
    /\ Act /\ prompt.of # None /\ prompt' = [prompt EXCEPT !.secret = prompt.of]
    /\ UNCHANGED <<rows, statuses, form, marks, deleting, busyId, calls, server, events>>
\* closeLifecyclePrompt keeps the prompt and its password while busy.
Closed == IF idle THEN [prompt EXCEPT !.of = None, !.secret = None] ELSE prompt
closeLifecyclePrompt ==
    /\ Act /\ prompt.of # None /\ prompt' = Closed
    /\ UNCHANGED <<rows, statuses, form, marks, deleting, busyId, calls, server, events>>
submitLifecycle ==
    /\ Act /\ prompt.of # None /\ prompt.secret # None
    /\ prompt' = Closed /\ performLifecycle(prompt.of, prompt.action, prompt.secret)
    /\ UNCHANGED <<rows, statuses, form, marks, deleting, server, events>>

-----------------------------------------------------------------------------
(* The answers *)

\* The operation e is over; a saved form is closed.
Over(e) ==
    /\ loading' = (loading /\ e \notin {"load", "save"})
    /\ saving' = (saving /\ e # "save") /\ testing' = (testing /\ e # "test")
    /\ form' = (form /\ e # "save")
    /\ busyId' = IF e = "lifecycle" THEN None ELSE busyId
Then(k, next) == calls' = (calls \ {k}) \cup {next}
Gone(k) == calls' = calls \ {k}

\* load: the list, then the statuses, and the end either way.
Listed(k) ==
    /\ k.kind = "list"
    /\ \/ rows' \in {stored, Conns} /\ Then(k, [k EXCEPT !.kind = "status"])
          /\ UNCHANGED <<form, marks, busyId>>
       \/ UNCHANGED rows /\ Gone(k) /\ Over(k.ends)
    /\ UNCHANGED <<statuses, prompt, deleting, server, acts, events>>
\* refresh: what the server reports replaces what is known; a failure changes nothing.
Refreshed(k) ==
    /\ k.kind = "status"
    /\ \E old \in SUBSET Conns :
          statuses' = [c \in Conns |-> IF c \in old THEN statuses[c] ELSE truth[c]]
    /\ Gone(k) /\ Over(k.ends)
    /\ UNCHANGED <<rows, prompt, deleting, server, acts, events>>
\* A save, a copy or a deletion that succeeded loads the list again.
Changed(k) ==
    /\ k.kind \in {"save", "duplicate", "delete"}
    /\ \/ /\ loading' = TRUE /\ Then(k, [k EXCEPT !.kind = "list"])
          /\ deleting' = IF k.kind = "delete" THEN None ELSE deleting
          /\ stored' = IF k.kind = "delete" THEN stored \ {k.conn} ELSE stored
          /\ UNCHANGED <<form, saving, testing>>
       \/ /\ Gone(k) /\ saving' = (saving /\ k.kind # "save")
          /\ UNCHANGED <<form, loading, testing, deleting, stored>>
    /\ UNCHANGED <<rows, statuses, prompt, busyId, truth, acts, events>>
Tested(k) ==
    /\ k.kind = "test" /\ Gone(k) /\ Over(k.ends)
    /\ UNCHANGED <<rows, statuses, prompt, deleting, server, acts, events>>
\* The connection is busy until the statuses were asked for again.
SessionAnswered(k) ==
    /\ k.kind \in {"connect", "reconnect", "disconnect"}
    /\ \/ /\ truth' = [truth EXCEPT ![k.conn] = IF k.kind = "disconnect" THEN "disconnected" ELSE "connected"]
          /\ Then(k, [k EXCEPT !.kind = "status"]) /\ UNCHANGED <<form, marks, busyId>>
       \/ /\ truth' \in {truth, [truth EXCEPT ![k.conn] = "error"]} /\ Gone(k) /\ Over(k.ends)
    /\ UNCHANGED <<rows, statuses, prompt, deleting, stored, acts, events>>
\* The status of a connection changes and is pushed (startListening): it replaces a status
\* the store has, which may have none of a connection that looks disconnected.
StatusPushed(c) ==
    /\ events < MaxEvents /\ events' = events + 1
    /\ \E s \in Status : /\ truth' = [truth EXCEPT ![c] = s]
                        /\ \/ statuses' = [statuses EXCEPT ![c] = s]
                           \/ statuses[c] = "disconnected" /\ UNCHANGED statuses
    /\ UNCHANGED <<rows, form, marks, prompt, deleting, busyId, stored, calls, acts>>

-----------------------------------------------------------------------------
Next ==
    \/ load \/ openForm \/ closeEditor \/ saveConnection \/ testCurrentConnection
    \/ closeDelete \/ deleteConnection
    \/ onSecret \/ closeLifecyclePrompt \/ submitLifecycle
    \/ \E c \in Conns : duplicate(c) \/ confirmDelete(c) \/ disconnect(c) \/ StatusPushed(c)
    \/ \E c \in Conns, action \in {"connect", "reconnect"} : beginLifecycle(c, action)
    \/ \E k \in calls : Listed(k) \/ Refreshed(k) \/ Changed(k) \/ Tested(k) \/ SessionAnswered(k)

Spec == Init /\ [][Next]_vars

-----------------------------------------------------------------------------
(* Properties *)

Running(e) == {k \in calls : k.ends = e}

\* One connection connects or disconnects at a time, though only its own buttons are
\* disabled, and it is the one that is marked (beginLifecycle, disconnect).
OneLifecycleAtATime ==
    /\ Cardinality(Running("lifecycle")) = (IF busyId = None THEN 0 ELSE 1)
    /\ \A k \in Running("lifecycle") : k.conn = busyId
\* A typed password is sent for the connection it was asked for and is forgotten when its
\* prompt goes away (submitLifecycle, closeLifecyclePrompt).
SecretFollowsItsPrompt ==
    /\ prompt.secret \in {None, prompt.of}
    /\ \A k \in calls : k.secret \in {None, k.conn}
\* The form is saved or tested once at a time, and stays open until that ended.
FormWaits ==
    /\ Cardinality(Running("save") \cup Running("test")) = (IF saving \/ testing THEN 1 ELSE 0)
    /\ saving \/ testing => form

LifecycleIsTrue == OneLifecycleAtATime /\ SecretFollowsItsPrompt /\ FormWaits
=============================================================================
