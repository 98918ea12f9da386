------------------------------- MODULE UsersPage -------------------------------
(***************************************************************************)
(* The page of users (user-management.ts): a page of the directory is      *)
(* listed, and a user is created, changed or given a new password after a  *)
(* confirmation.                                                           *)
(*                                                                         *)
(* A request is the number of the act that asked for it.  Any call may     *)
(* fail.  The users and their fields, the rules of the forms and what the  *)
(* server makes of a request (AuthSessions) are left out.                  *)
(***************************************************************************)
EXTENDS Naturals, FiniteSets

CONSTANTS
    Pages,       \* pages of the directory
    MaxActs,     \* bound: acts of the user
    MaxCalls     \* bound: calls under way

VARIABLES
    page,        \* page()
    users,       \* the page whose users are shown, 0 when there are none yet
    loading, loadFailed, submitting,
    dialog,      \* which of createOpen, resetOpen, confirmOpen is open
    pending,     \* the request to be confirmed, 0 when there is none
    sent,        \* the requests that were sent
    calls,       \* the HTTP calls under way
    acts

vars == <<page, users, loading, loadFailed, submitting, dialog, pending, sent, calls, acts>>

None == "none"
\* ends: a change is over with the call.
Load(p, ends) == [kind |-> "list", of |-> p, ends |-> ends, n |-> acts]

TypeOK ==
    /\ page \in Pages /\ users \in Pages \cup {0}
    /\ loading \in BOOLEAN /\ loadFailed \in BOOLEAN /\ submitting \in BOOLEAN
    /\ dialog \in {None, "create", "reset", "confirm"}
    /\ pending \in 0 .. MaxActs /\ sent \subseteq 1 .. MaxActs

Init ==
    /\ page = 1 /\ users = 0 /\ loading = TRUE /\ loadFailed = FALSE /\ submitting = FALSE
    /\ dialog = None /\ pending = 0 /\ sent = {} /\ acts = 0
    /\ calls = {[kind |-> "list", of |-> 1, ends |-> FALSE, n |-> 0]}

Act == acts < MaxActs /\ acts' = acts + 1
Room == Cardinality(calls) < MaxCalls
\* A dialog covers the page; the directory is shown when it was loaded.
Uncovered == dialog = None
Directory == Uncovered /\ users # 0 /\ ~loadFailed

-----------------------------------------------------------------------------
(* The directory *)

loadUsers(p, base, ends) ==
    /\ loading' = TRUE /\ loadFailed' = FALSE
    /\ calls' = base \cup {Load(p, ends)}
tryAgain ==
    /\ Act /\ Room /\ Uncovered /\ loadFailed /\ loadUsers(page, calls, FALSE)
    /\ UNCHANGED <<page, users, submitting, dialog, pending, sent>>
\* The pagination sets the page before it is loaded.
pageChange(p) ==
    /\ Act /\ Room /\ Uncovered /\ users # 0 /\ p # page
    /\ page' = p /\ loadUsers(p, calls, FALSE)
    /\ UNCHANGED <<users, submitting, dialog, pending, sent>>

-----------------------------------------------------------------------------
(* A change *)

openCreateDialog ==
    /\ Act /\ Uncovered /\ dialog' = "create"
    /\ UNCHANGED <<page, users, loading, loadFailed, submitting, pending, sent, calls>>
requestReset ==
    /\ Act /\ Directory /\ ~submitting /\ dialog' = "reset"
    /\ UNCHANGED <<page, users, loading, loadFailed, submitting, pending, sent, calls>>
cancelDialog ==
    /\ Act /\ dialog \in {"create", "reset"} /\ dialog' = None
    /\ UNCHANGED <<page, users, loading, loadFailed, submitting, pending, sent, calls>>

Ask == /\ dialog' = "confirm" /\ pending' = acts'
       /\ UNCHANGED <<page, users, loading, loadFailed, submitting, sent, calls>>
\* requestCreate, requestResetSubmit, once the form is valid.
submitForm == Act /\ dialog \in {"create", "reset"} /\ Ask
\* The role may be changed while another change is under way, the status may not.
requestRoleChange == Act /\ Directory /\ Ask
requestStatusChange == Act /\ Directory /\ ~submitting /\ Ask

cancelMutation ==
    /\ Act /\ Room /\ dialog = "confirm"
    /\ dialog' = None /\ pending' = 0 /\ loadUsers(page, calls, FALSE)
    /\ UNCHANGED <<page, users, submitting, sent>>
\* The button is disabled while a change is under way.
mayConfirm == ~submitting
confirmMutation ==
    /\ Act /\ Room /\ dialog = "confirm" /\ mayConfirm /\ pending # 0
    /\ dialog' = None /\ submitting' = TRUE /\ sent' = sent \cup {pending}
    /\ calls' = calls \cup {[kind |-> "change", of |-> pending, ends |-> TRUE, n |-> acts]}
    /\ UNCHANGED <<page, users, loading, loadFailed, pending>>
\* Nothing is left to confirm: the change before it took it away.
confirmNothing ==
    /\ Act /\ dialog = "confirm" /\ mayConfirm /\ pending = 0 /\ dialog' = None
    /\ UNCHANGED <<page, users, loading, loadFailed, submitting, pending, sent, calls>>

-----------------------------------------------------------------------------
(* The answers *)

\* Made or refused, what is pending is dropped and the page shown by now is loaded.
Changed(k) ==
    /\ k.kind = "change"
    /\ pending' = 0 /\ loadUsers(page, calls \ {k}, TRUE)
    /\ UNCHANGED <<page, users, submitting, dialog, sent, acts>>
Listed(k) ==
    /\ k.kind = "list"
    /\ loading' = FALSE /\ calls' = calls \ {k}
    /\ submitting' = (submitting /\ ~k.ends)
    /\ \/ page' = k.of /\ users' = k.of /\ UNCHANGED loadFailed
       \/ loadFailed' = TRUE /\ UNCHANGED <<page, users>>
    /\ UNCHANGED <<dialog, pending, sent, acts>>

-----------------------------------------------------------------------------
Next ==
    \/ tryAgain \/ openCreateDialog \/ requestReset \/ cancelDialog \/ submitForm
    \/ requestRoleChange \/ requestStatusChange
    \/ cancelMutation \/ confirmMutation \/ confirmNothing
    \/ \E p \in Pages : pageChange(p)
    \/ \E k \in calls : Changed(k) \/ Listed(k)

Spec == Init /\ [][Next]_vars

-----------------------------------------------------------------------------
(* Properties *)

Running == {k \in calls : k.ends}

\* One change is under way at a time, and it is until the directory was loaded after it.
OneChange == Cardinality(Running) = (IF submitting THEN 1 ELSE 0)
\* What an enabled confirmation would send was never sent, though its dialog may have been
\* opened while the change before it was under way (confirmMutation).
NothingIsSentTwice == ~submitting => pending \notin sent
\* The users shown are those of the page that is named, though answers may overtake one
\* another (loadUsers).
UsersOfThePage == users # 0 /\ ~loading /\ ~loadFailed => users = page

ChangesAreTrue == OneChange /\ NothingIsSentTwice /\ UsersOfThePage
=============================================================================
