---------------------------- MODULE SecurityPage ----------------------------
(***************************************************************************)
(* The page of a database server's principals and privileges               *)
(* (security.ts): choosing a connection and a principal, ticking           *)
(* privileges, previewing and applying the changes, and creating,          *)
(* editing, resetting and dropping principals.                             *)
(*                                                                         *)
(* There is one object whose privileges are edited, so scope and table     *)
(* search are left out.  A call is sent, answered or refused by the server *)
(* once, and received.                                                     *)
(***************************************************************************)
EXTENDS Naturals, FiniteSets

CONSTANTS
    Conns,       \* connections
    Capable,     \* connections whose server offers principals and grants
    Principals,  \* names of principals
    Privileges,  \* privileges of the object
    MaxActs, MaxCalls, MaxFails   \* bounds

VARIABLES
    conn,        \* selectedConnection
    listed,      \* principals(): the names shown
    grantee,     \* grantPrincipal, None when none is chosen
    grants,      \* grants(): [of, set], the principal they were read for and its privileges
    ticked,      \* grantPrivileges
    preview,     \* grantPreview: the changes the server was asked about, NoPreview when none
    revokeOk,    \* grantConfirmRevoke
    form,        \* [open, editing]: the editor of principals
    reset, dropping,   \* the principals of the reset and the drop dialog
    busy, loading,
    granted,     \* server: connection -> principal -> privileges
    exist,       \* server: connection -> principals
    calls, acts, fails

shown == <<listed, grantee, grants>>
matrix == <<ticked, preview, revokeOk>>
dialogs == <<form, reset, dropping>>
server == <<granted, exist>>
vars == <<conn, shown, matrix, dialogs, busy, loading, server, calls, acts, fails>>

None == "none"
NoPreview == [asked |-> FALSE, grant |-> {}, revoke |-> {}]
Closed == [open |-> FALSE, editing |-> None]
\* ends names the load or the change that is over when this call is: "", "load", "reload", "apply".
Sent(kind, about, ends) ==
    [kind |-> kind, conn |-> conn, about |-> about, ends |-> ends, answer |-> "none", got |-> {}]

TypeOK ==
    /\ conn \in Conns /\ listed \subseteq Principals /\ grantee \in Principals \cup {None}
    /\ grants.set \subseteq Privileges /\ ticked \subseteq Privileges
    /\ busy \in BOOLEAN /\ loading \in BOOLEAN

\* loadConnections has chosen the first connection and loads what is known of its principals.
Init ==
    /\ conn \in Capable
    /\ listed = {} /\ grantee = None /\ grants = [of |-> None, set |-> {}]
    /\ ticked = {} /\ preview = NoPreview /\ revokeOk = FALSE
    /\ form = Closed /\ reset = None /\ dropping = None
    /\ busy = FALSE /\ loading = TRUE
    /\ exist = [c \in Conns |-> Principals]
    /\ granted \in [Conns -> {[p \in Principals |-> Privileges], [p \in Principals |-> {}]}]
    /\ calls = {Sent("principals", None, "load")}
    /\ acts = 0 /\ fails = 0

Act == acts < MaxActs /\ acts' = acts + 1
\* The buttons of the operations are disabled while busy().
alwaysEnabled == TRUE
enabled == ~busy

-----------------------------------------------------------------------------
(* The matrix of privileges *)

\* grantChanges: what is ticked against what the page knows to be granted.
grantChanges ==
    LET current == IF grants.of = grantee THEN grants.set ELSE {}
    IN  [asked |-> TRUE, grant |-> ticked \ current, revoke |-> current \ ticked]
Changes == grantee # None /\ grantChanges.grant \cup grantChanges.revoke # {}

\* selectConnection keeps the principal, the ticks and the preview of the connection before.
selectConnection(c) ==
    /\ Act /\ conn' = c /\ form' = Closed
    /\ IF c \in Capable
       THEN loading' = TRUE /\ calls' = calls \cup {[Sent("principals", None, "load") EXCEPT !.conn = c]}
       ELSE UNCHANGED <<loading, calls>>
    /\ UNCHANGED <<shown, matrix, reset, dropping, busy, server, fails>>
setGrantPrincipal(p) ==
    /\ Act /\ p \in listed /\ conn \in Capable
    /\ grantee' = p /\ preview' = NoPreview
    /\ calls' = calls \cup {Sent("grants", p, "")}
    /\ UNCHANGED <<conn, listed, grants, ticked, revokeOk, dialogs, busy, loading, server, fails>>
togglePrivilege(v) ==
    /\ Act /\ grantee # None /\ conn \in Capable
    /\ ticked' = IF v \in ticked THEN ticked \ {v} ELSE ticked \cup {v}
    /\ preview' = NoPreview
    /\ UNCHANGED <<conn, shown, revokeOk, dialogs, busy, loading, server, calls, fails>>
setGrantConfirmRevoke ==
    /\ Act /\ Changes /\ revokeOk' = ~revokeOk
    /\ UNCHANGED <<conn, shown, ticked, preview, dialogs, busy, loading, server, calls, fails>>

Begin(kind, about) ==
    /\ enabled /\ conn \in Capable /\ Act
    /\ busy' = TRUE /\ calls' = calls \cup {Sent(kind, about, "")}
    /\ UNCHANGED <<conn, shown, matrix, dialogs, loading, server, fails>>
previewGrants == Changes /\ Begin("preview", grantChanges)
\* applyGrants computes the changes again; the preview only has to be there.
applyGrants ==
    /\ Changes /\ preview.asked
    /\ grantChanges.revoke # {} => revokeOk
    /\ Begin("apply", [p |-> grantee, change |-> grantChanges, seen |-> preview])

-----------------------------------------------------------------------------
(* The principals *)

Show == UNCHANGED <<conn, shown, matrix, busy, loading, server, calls, fails>>
openCreate ==
    /\ Act /\ conn \in Capable /\ form' = [open |-> TRUE, editing |-> None]
    /\ UNCHANGED <<reset, dropping>> /\ Show
openEdit(p) ==
    /\ Act /\ p \in listed /\ form' = [open |-> TRUE, editing |-> p]
    /\ UNCHANGED <<reset, dropping>> /\ Show
closeEditor ==
    /\ Act /\ form.open /\ ~busy /\ form' = [form EXCEPT !.open = FALSE]
    /\ UNCHANGED <<reset, dropping>> /\ Show
startReset(p) == Act /\ p \in listed /\ reset' = p /\ dropping' = None /\ UNCHANGED form /\ Show
startDrop(p) == Act /\ p \in listed /\ dropping' = p /\ reset' = None /\ UNCHANGED form /\ Show
cancelReset == Act /\ reset # None /\ ~busy /\ reset' = None /\ UNCHANGED <<form, dropping>> /\ Show
cancelDrop == Act /\ dropping # None /\ ~busy /\ dropping' = None /\ UNCHANGED <<form, reset>> /\ Show

savePrincipal(p) ==
    /\ form.open
    /\ IF form.editing = None THEN Begin("create", p) ELSE p = form.editing /\ Begin("update", p)
resetPassword == reset # None /\ Begin("reset", reset)
\* The name of the principal has been typed into the dialog.
drop == dropping # None /\ Begin("drop", dropping)

-----------------------------------------------------------------------------
(* The server *)

Refused(c) ==
    \/ c.kind = "create" /\ c.about \in exist[c.conn]
    \/ c.kind \in {"grants", "update", "reset", "drop"} /\ c.about \notin exist[c.conn]
    \/ c.kind = "apply" /\ c.about.p \notin exist[c.conn]
Applied(c) == (granted[c.conn][c.about.p] \cup c.about.change.grant) \ c.about.change.revoke
Handle(c) ==
    /\ c.answer = "none" /\ ~Refused(c)
    /\ exist' = CASE c.kind = "create" -> [exist EXCEPT ![c.conn] = @ \cup {c.about}]
                  [] c.kind = "drop" -> [exist EXCEPT ![c.conn] = @ \ {c.about}]
                  [] OTHER -> exist
    /\ granted' = CASE c.kind = "apply" -> [granted EXCEPT ![c.conn][c.about.p] = Applied(c)]
                    [] c.kind \in {"create", "drop"} -> [granted EXCEPT ![c.conn][c.about] = {}]
                    [] OTHER -> granted
    /\ calls' = (calls \ {c}) \cup
                   {[c EXCEPT !.answer = "ok",
                              !.got = CASE c.kind = "principals" -> exist[c.conn]
                                        [] c.kind = "grants" -> granted[c.conn][c.about]
                                        [] OTHER -> {}]}
    /\ UNCHANGED <<conn, shown, matrix, dialogs, busy, loading, acts, fails>>
Refuse(c) ==
    /\ c.answer = "none"
    /\ \/ Refused(c) /\ UNCHANGED fails
       \/ ~Refused(c) /\ fails < MaxFails /\ fails' = fails + 1
    /\ calls' = (calls \ {c}) \cup {[c EXCEPT !.answer = "failed"]}
    /\ UNCHANGED <<conn, shown, matrix, dialogs, busy, loading, server, acts>>

-----------------------------------------------------------------------------
(* The answers: none is compared with what the page shows by now *)

\* The end of a load, and of the change that caused it.
Ends(ends) ==
    /\ loading' = (loading /\ ends \notin {"load", "reload"})
    /\ busy' = (busy /\ ends \notin {"reload", "apply"})
    /\ IF ends = "apply" THEN preview' = NoPreview /\ revokeOk' = FALSE
                         ELSE UNCHANGED <<preview, revokeOk>>

\* loadSecurity goes on with the grants of the principal.
loadSecurity(c) ==
    /\ c.kind = "principals" /\ c.answer # "none"
    /\ LET p == IF grantee # None THEN grantee
                ELSE IF c.got # {} THEN CHOOSE q \in c.got : TRUE ELSE None
           more == c.answer = "ok" /\ p # None /\ conn \in Capable
       IN  /\ listed' = c.got
           /\ grantee' = IF c.answer = "ok" THEN p ELSE grantee
           /\ calls' = (calls \ {c}) \cup IF more THEN {Sent("grants", p, c.ends)} ELSE {}
           /\ Ends(IF more THEN "" ELSE c.ends)
    /\ UNCHANGED <<conn, grants, ticked, dialogs, server, acts, fails>>
loadGrants(c) ==
    /\ c.kind = "grants" /\ c.answer # "none"
    /\ grants' = [of |-> c.about, set |-> c.got]
    /\ calls' = calls \ {c}
    /\ Ends(c.ends)
    /\ UNCHANGED <<conn, listed, grantee, ticked, dialogs, server, acts, fails>>
previewAnswered(c) ==
    /\ c.kind = "preview" /\ c.answer # "none"
    /\ preview' = IF c.answer = "ok" THEN c.about ELSE preview
    /\ busy' = FALSE /\ calls' = calls \ {c}
    /\ UNCHANGED <<conn, shown, ticked, revokeOk, dialogs, loading, server, acts, fails>>
\* After a success the grants are read again, then the confirmation of revokes is taken back;
\* it stays after a failure.
applyAnswered(c) ==
    /\ c.kind = "apply" /\ c.answer # "none"
    /\ IF c.answer = "ok" /\ conn \in Capable
       THEN calls' = (calls \ {c}) \cup {Sent("grants", grantee, "apply")} /\ Ends("")
       ELSE /\ calls' = calls \ {c}
            /\ IF c.answer = "ok" THEN Ends("apply") ELSE busy' = FALSE /\ UNCHANGED <<loading, preview, revokeOk>>
    /\ UNCHANGED <<conn, shown, ticked, dialogs, server, acts, fails>>
resetAnswered(c) ==
    /\ c.kind = "reset" /\ c.answer # "none"
    /\ reset' = IF c.answer = "ok" THEN None ELSE reset
    /\ busy' = FALSE /\ calls' = calls \ {c}
    /\ UNCHANGED <<conn, shown, matrix, form, dropping, loading, server, acts, fails>>
\* save and drop: the list of the connection they were sent for is loaded before busy ends.
savedOrDropped(c) ==
    /\ c.kind \in {"create", "update", "drop"} /\ c.answer # "none"
    /\ form' = IF c.answer = "ok" /\ c.kind # "drop" THEN [form EXCEPT !.open = FALSE] ELSE form
    /\ dropping' = IF c.answer = "ok" /\ c.kind = "drop" THEN None ELSE dropping
    /\ IF c.answer = "ok"
       THEN /\ calls' = (calls \ {c}) \cup {[Sent("principals", None, "reload") EXCEPT !.conn = c.conn]}
            /\ loading' = TRUE /\ UNCHANGED busy
       ELSE calls' = calls \ {c} /\ busy' = FALSE /\ UNCHANGED loading
    /\ UNCHANGED <<conn, shown, matrix, reset, server, acts, fails>>

-----------------------------------------------------------------------------
Step ==
    \/ \E c \in Conns : selectConnection(c)
    \/ \E p \in Principals :
          setGrantPrincipal(p) \/ openEdit(p) \/ startReset(p) \/ startDrop(p) \/ savePrincipal(p)
    \/ \E v \in Privileges : togglePrivilege(v)
    \/ setGrantConfirmRevoke \/ previewGrants \/ applyGrants
    \/ openCreate \/ closeEditor \/ cancelReset \/ cancelDrop \/ resetPassword \/ drop
    \/ \E c \in calls :
          \/ Handle(c) \/ Refuse(c) \/ loadSecurity(c) \/ loadGrants(c) \/ previewAnswered(c)
          \/ applyAnswered(c) \/ resetAnswered(c) \/ savedOrDropped(c)

Next == Step /\ Cardinality(calls') <= MaxCalls

Spec == Init /\ [][Next]_vars

-----------------------------------------------------------------------------
(* Properties *)

\* One change of principals or privileges is under way at a time, and busy() tells it, until
\* the list it leads to has been loaded: whatever is opened, toggled or selected meanwhile,
\* its end never releases the buttons while another change runs.
OneChangeAtATime ==
    LET changing == {c \in calls : c.kind \notin {"principals", "grants"} \/ c.ends \in {"reload", "apply"}}
    IN  Cardinality(changing) = (IF busy THEN 1 ELSE 0)

\* spec 0046 AC-3: "perubahan dikumpulkan sebagai change set -> pratinjau statement
\* GRANT/REVOKE -> terapkan".  What is applied was previewed.  It fails: the boxes stay
\* enabled while a preview is under way, and its answer serves for the boxes ticked since.
AppliedWasPreviewed ==
    \A c \in calls : c.kind = "apply" => c.about.change = c.about.seen
=============================================================================
