------------------------------ MODULE ViewPage ------------------------------
(***************************************************************************)
(* The page that edits a view (view-editor.ts): the route names the view,  *)
(* its definition is loaded, and validated, previewed, saved or dropped.   *)
(*                                                                         *)
(* A definition is the name of the view it belongs to: the one it was      *)
(* loaded from, or the one the user was editing while typing.  There is    *)
(* one connection, which may not be chosen.  The editor widget, dialects   *)
(* and completions are left out; messages and error positions too.         *)
(***************************************************************************)
EXTENDS Naturals, FiniteSets

CONSTANTS
    Views,       \* names of views
    MaxActs,     \* bound: acts of the user and of the router
    MaxFails     \* bound: calls the server refuses

VARIABLES
    route,       \* [name, mode]: the name and mode the page shows
    connected,   \* a connection is chosen
    text,        \* definitionSql: the view it belongs to, or the Default text
    loading,     \* busy(): an operation is under way
    confirm,     \* [open, name, about]: the confirmation, what is typed, whose change set is shown
    saved,       \* the saved mark
    views,       \* server: view -> the view its definition belongs to, None when there is none
    call,        \* the HTTP calls under way
    acts, fails

vars == <<route, connected, text, loading, confirm, saved, views, call, acts, fails>>

None == "none"
Default == "select 1"   \* what the editor starts with
NotAsked == [open |-> FALSE, name |-> None, about |-> None]
Sent(kind, v, t, c) == [kind |-> kind, view |-> v, text |-> t, confirmed |-> c, answer |-> "none", got |-> None]

TypeOK ==
    /\ route.name \in Views \cup {None} /\ route.mode \in {"create", "edit", "drop"}
    /\ text \in Views \cup {Default} /\ loading \in BOOLEAN
    /\ confirm.name \in Views \cup {None}

\* The page opens on the route of a new view.
Init ==
    /\ route = [name |-> None, mode |-> "create"] /\ connected = TRUE
    /\ text = Default /\ loading = FALSE /\ confirm = NotAsked /\ saved = FALSE
    /\ views \in {f \in [Views -> Views \cup {None}] : \A v \in Views : f[v] \in {v, None}}
    /\ call = {} /\ acts = 0 /\ fails = 0

Act == acts < MaxActs /\ acts' = acts + 1
\* The buttons are disabled while busy().
notBusy == ~loading

-----------------------------------------------------------------------------
(* The route and the fields *)

\* configure: a new route while something is under way changes the name, and loads nothing.
loadsDefinition(v, mode) ==
    IF v # None /\ connected' /\ ~loading
    THEN call' = call \cup {Sent("load", v, None, FALSE)} /\ loading' = TRUE
    ELSE UNCHANGED <<call, loading>>
configure(v, mode) ==
    /\ Act
    /\ mode \in IF v = None THEN {"create", "drop"} ELSE {"edit", "drop"}
    /\ route' = [name |-> v, mode |-> mode] /\ connected' \in BOOLEAN
    /\ loadsDefinition(v, mode)
    /\ UNCHANGED <<text, confirm, saved, views, fails>>
onConnectionChange ==
    /\ Act /\ connected' = ~connected
    /\ UNCHANGED <<route, text, loading, confirm, saved, views, call, fails>>
\* The user names another view on purpose: the text is meant for it from now on.
onNameChange(v) ==
    /\ Act /\ route.mode # "drop"
    /\ route' = [route EXCEPT !.name = v]
    /\ text' = IF text = Default THEN Default ELSE v
    /\ UNCHANGED <<connected, loading, confirm, saved, views, call, fails>>
onType ==
    /\ Act /\ route.name # None
    /\ text' = route.name /\ saved' = FALSE
    /\ UNCHANGED <<route, connected, loading, confirm, views, call, fails>>
onConfirmNameChange ==
    /\ Act /\ confirm.open /\ confirm' = [confirm EXCEPT !.name = route.name]
    /\ UNCHANGED <<route, connected, text, loading, saved, views, call, fails>>
cancelConfirmation ==
    /\ Act /\ confirm.open /\ confirm' = [confirm EXCEPT !.open = FALSE, !.name = None]
    /\ UNCHANGED <<route, connected, text, loading, saved, views, call, fails>>

-----------------------------------------------------------------------------
(* The operations *)

\* startOperation, and the request built from ref() and definitionSql().
Start(kind, c) ==
    /\ notBusy /\ connected /\ route.name # None /\ Act
    /\ call' = call \cup {Sent(kind, route.name, text, c)}
    /\ loading' = TRUE
    /\ UNCHANGED <<route, connected, text, confirm, saved, views, fails>>

validate == route.mode # "drop" /\ Start("validate", FALSE)
preview == route.mode # "drop" /\ Start("preview", FALSE)
save == route.mode # "drop" /\ Start(IF route.mode = "create" THEN "create" ELSE "update", FALSE)
\* The Confirm button updates in every mode but "drop".
confirmUpdate ==
    /\ confirm.open /\ route.mode # "drop" /\ confirm.name = route.name
    /\ Start("update", TRUE)
drop ==
    /\ route.mode # "create"
    /\ IF confirm.open THEN confirm.name = route.name /\ Start("drop", TRUE)
                       ELSE Start("previewDrop", FALSE)

-----------------------------------------------------------------------------
(* The server, and the answers *)

\* The view must exist, or for create must not.
Refused(c) ==
    \/ c.kind \in {"load", "update", "drop"} /\ views[c.view] = None
    \/ c.kind = "create" /\ views[c.view] # None
Answered(c, a, got) == call' = (call \ {c}) \cup {[c EXCEPT !.answer = a, !.got = got]}
\* An update that needs drop and create is answered by a question until it is confirmed.
Handle(c) ==
    /\ c.answer = "none" /\ ~Refused(c)
    /\ \/ /\ Answered(c, "ok", IF c.kind = "load" THEN views[c.view] ELSE None)
          /\ views' = CASE c.kind \in {"create", "update"} -> [views EXCEPT ![c.view] = c.text]
                        [] c.kind = "drop" -> [views EXCEPT ![c.view] = None]
                        [] OTHER -> views
       \/ c.kind = "update" /\ ~c.confirmed /\ Answered(c, "confirm", None) /\ UNCHANGED views
    /\ UNCHANGED <<route, connected, text, loading, confirm, saved, acts, fails>>
Refuse(c) ==
    /\ c.answer = "none"
    /\ \/ Refused(c) /\ UNCHANGED fails
       \/ ~Refused(c) /\ fails < MaxFails /\ fails' = fails + 1
    /\ Answered(c, "failed", None)
    /\ UNCHANGED <<route, connected, text, loading, confirm, saved, views, acts>>

\* loadDefinition puts the definition under whatever name the page shows by now.
loadDefinition(c) ==
    /\ c.kind = "load" /\ c.answer # "none"
    /\ text' = IF c.answer = "ok" THEN c.got ELSE text
    /\ loading' = FALSE /\ call' = call \ {c}
    /\ UNCHANGED <<route, connected, confirm, saved, views, acts, fails>>
Finish(c) ==
    /\ c.kind # "load" /\ c.answer # "none"
    /\ saved' = (saved \/ (c.answer = "ok" /\ c.kind \in {"create", "update"}))
    /\ confirm' =
          IF c.answer = "failed" THEN confirm
          ELSE IF c.kind = "previewDrop" \/ c.answer = "confirm"
          THEN [confirm EXCEPT !.open = TRUE, !.about = c.view]
          ELSE CASE c.kind = "preview" -> [confirm EXCEPT !.about = c.view]
                 [] c.kind \in {"create", "update", "drop"} -> [confirm EXCEPT !.open = FALSE]
                 [] OTHER -> confirm
    /\ loading' = FALSE /\ call' = call \ {c}
    /\ UNCHANGED <<route, connected, text, views, acts, fails>>

-----------------------------------------------------------------------------
Next ==
    \/ \E v \in Views \cup {None}, mode \in {"create", "edit", "drop"} : configure(v, mode)
    \/ onConnectionChange \/ onType \/ onConfirmNameChange \/ cancelConfirmation
    \/ \E v \in Views : onNameChange(v)
    \/ validate \/ preview \/ save \/ confirmUpdate \/ drop
    \/ \E c \in call : Handle(c) \/ Refuse(c) \/ loadDefinition(c) \/ Finish(c)

Spec == Init /\ [][Next]_vars

-----------------------------------------------------------------------------
(* Properties *)

\* The page is busy exactly while an operation is under way, and there is one at a time, also
\* when the route changes in the middle of one: its end cannot release the buttons while
\* another one runs (configure's guard, finally of every operation).
BusyMeansCall == Cardinality(call) = (IF loading THEN 1 ELSE 0)

\* spec 0044 AC-3, PUT /views/:ref: what is saved as the definition of a view was loaded from that
\* view or typed for it.  It fails: a route that changes while the definition of the view
\* before is loading does not load its own, and the other definition appears under its name.
SavesItsOwnDefinition ==
    \A c \in call : c.kind = "update" => c.text \in {c.view, Default}
=============================================================================
