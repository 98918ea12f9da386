----------------------------- MODULE CatalogProofs -----------------------------
(***************************************************************************)
(* That one operation of a page is under way at a time, and that its       *)
(* dialog or form waits for its answer, on each of the six pages of        *)
(* MCCatalog; that what object management answers is true; and that a      *)
(* user's workspace is that user's.                                        *)
(*                                                                         *)
(* The inductive invariant of a page says of its calls what their answers  *)
(* may do: at most one of them ends each kind of operation, the mark of    *)
(* that kind is set exactly while there is one, and the dialog it was sent *)
(* from is still open.  An answer that leads to another call hands its end *)
(* on, so that the mark outlives the first answer.                         *)
(*                                                                         *)
(* Of management the invariant says where a request's statements are while *)
(* it runs: in its own transaction if it has one, in effect if not, and    *)
(* nowhere else - unless it strayed, when a statement of it ran in a       *)
(* foreign transaction on the shared handle, or a foreign one aborted its  *)
(* own: then the server undid what the request goes on to report.          *)
(*                                                                         *)
(* Of the workspace it says that a call made in a session carries that     *)
(* session's user: what is saved for a user, and what a load brings back,  *)
(* is made of that user's own changes.                                     *)
(***************************************************************************)
EXTENDS MCCatalog, FiniteSetTheorems, TLAPS

\* T has at most one element, and b says whether it has one.
One(T, b) ==
    /\ \A x, y \in T : x = y
    /\ b <=> T # {}

\* What that says of the number of its elements.
LEMMA OneIsCounted ==
  ASSUME NEW T, NEW b \in BOOLEAN, One(T, b)
  PROVE  Cardinality(T) = (IF b THEN 1 ELSE 0)
<1>1. CASE b
  <2>1. PICK x : T = {x}
    BY <1>1 DEF One
  <2> QED
    BY <1>1, <2>1, FS_Singleton
<1>2. CASE ~b
  BY <1>2, FS_EmptySet DEF One
<1> QED
  BY <1>1, <1>2

-----------------------------------------------------------------------------
(* The page of a view *)

ViewInv == busyView \in BOOLEAN /\ One(call, busyView)

\* The page opens with nothing under way.
LEMMA InitView == V!Init => ViewInv
BY DEF V!Init, ViewInv, One

\* A validation, preview, save or drop starts only while none is under way, and its answer or
\* the definition that is loaded after it takes the mark away.
LEMMA NextView == ViewInv /\ [V!Next]_(V!vars) => ViewInv'
<1> SUFFICES ASSUME ViewInv, [V!Next]_(V!vars)
             PROVE  ViewInv'
  OBVIOUS
<1> USE DEF ViewInv, One
<1>1. CASE UNCHANGED V!vars
  BY <1>1 DEF V!vars
<1>2. ASSUME NEW v \in Views \cup {V!None}, NEW mode \in {"create", "edit", "drop"},
             V!configure(v, mode)
      PROVE  ViewInv'
  BY <1>2 DEF V!configure, V!loadsDefinition
<1>3. ASSUME \/ V!onConnectionChange \/ V!onType \/ V!onConfirmNameChange \/ V!cancelConfirmation
             \/ \E v \in Views : V!onNameChange(v)
      PROVE  ViewInv'
  BY <1>3 DEF V!onConnectionChange, V!onType, V!onConfirmNameChange, V!cancelConfirmation,
              V!onNameChange
<1>4. ASSUME NEW kind, NEW c, V!Start(kind, c)
      PROVE  ViewInv'
  BY <1>4 DEF V!Start, V!notBusy
<1>5. ASSUME NEW c \in call, V!Handle(c) \/ V!Refuse(c)
      PROVE  ViewInv'
  <2>1. \E d : call' = (call \ {c}) \cup {d}
    BY <1>5 DEF V!Handle, V!Refuse, V!Answered
  <2>2. busyView' = busyView
    BY <1>5 DEF V!Handle, V!Refuse
  <2> QED
    BY <2>1, <2>2
<1>6. ASSUME NEW c \in call, V!loadDefinition(c) \/ V!Finish(c)
      PROVE  ViewInv'
  BY <1>6 DEF V!loadDefinition, V!Finish
<1> QED
  BY <1>1, <1>2, <1>3, <1>4, <1>5, <1>6
  DEF V!Next, V!validate, V!preview, V!save, V!confirmUpdate, V!drop

\* The invariant says what the run asks of the page.
LEMMA ViewIsTrue == ViewInv => V!BusyMeansCall
<1>1. V!Cardinality(call) = Cardinality(call)
  BY DEF V!Cardinality, Cardinality
<1> QED
  BY <1>1, OneIsCounted DEF ViewInv, V!BusyMeansCall

-----------------------------------------------------------------------------
(* The page of principals and privileges *)

\* A call that ends a change, or the load after it; a load of the page does not.
Changing(k) == k.kind \notin {"principals", "grants"} \/ k.ends \in {"reload", "apply"}
CallFields == {"kind", "ends", "answer", "got"}
SecurityInv ==
    /\ \A k \in sent : CallFields \subseteq DOMAIN k
    /\ busy \in BOOLEAN
    /\ One({k \in sent : Changing(k)}, busy)

\* What a call that is sent says.
LEMMA SecuritySent ==
  ASSUME NEW kind, NEW about, NEW ends
  PROVE  LET d == S!Sent(kind, about, ends)
         IN  CallFields \subseteq DOMAIN d /\ d.kind = kind /\ d.ends = ends
BY DEF S!Sent, CallFields

\* The page opens with its load under way.
LEMMA InitSecurity == S!Init => SecurityInv
<1> SUFFICES ASSUME S!Init
             PROVE  SecurityInv
  OBVIOUS
<1> DEFINE d == S!Sent("principals", S!None, "load")
<1>1. busy = FALSE /\ sent = {d}
  BY DEF S!Init
<1>2. CallFields \subseteq DOMAIN d /\ d.kind = "principals" /\ d.ends = "load"
  BY SecuritySent
<1> HIDE DEF d
<1> QED
  BY <1>1, <1>2 DEF SecurityInv, One, Changing

\* A call is replaced by another about the same, or is gone.
LEMMA NextSecurity == SecurityInv /\ [S!Next]_(S!vars) => SecurityInv'
<1> SUFFICES ASSUME SecurityInv, [S!Next]_(S!vars)
             PROVE  SecurityInv'
  OBVIOUS
<1> USE DEF SecurityInv, One, Changing
<1>1. CASE UNCHANGED S!vars
  BY <1>1 DEF S!vars
<1>2. ASSUME NEW c \in Servers, S!selectConnection(c)
      PROVE  SecurityInv'
  <2> DEFINE d == [S!Sent("principals", S!None, "load") EXCEPT !.conn = c]
  <2>1. sent' \in {sent, sent \cup {d}} /\ busy' = busy
    BY <1>2 DEF S!selectConnection
  <2>2. CallFields \subseteq DOMAIN d /\ d.kind = "principals" /\ d.ends = "load"
    BY SecuritySent DEF CallFields
  <2> HIDE DEF d
  <2> QED
    BY <2>1, <2>2
<1>3. ASSUME NEW p \in Principals, S!setGrantPrincipal(p)
      PROVE  SecurityInv'
  <2> DEFINE d == S!Sent("grants", p, "")
  <2>1. sent' = sent \cup {d} /\ busy' = busy
    BY <1>3 DEF S!setGrantPrincipal
  <2>2. CallFields \subseteq DOMAIN d /\ d.kind = "grants" /\ d.ends = ""
    BY ONLY DEF S!Sent, CallFields
  <2> HIDE DEF d
  <2> QED
    BY <2>1, <2>2
<1>4. ASSUME \/ \E v \in Privileges : S!togglePrivilege(v)
             \/ \E p \in Principals : S!openEdit(p) \/ S!startReset(p) \/ S!startDrop(p)
             \/ S!setGrantConfirmRevoke \/ S!openCreate \/ S!closeEditor \/ S!cancelReset
             \/ S!cancelDrop
      PROVE  SecurityInv'
  <2>1. UNCHANGED <<sent, busy>>
    BY <1>4 DEF S!togglePrivilege, S!setGrantConfirmRevoke, S!openEdit, S!startReset, S!startDrop,
                S!openCreate, S!closeEditor, S!cancelReset, S!cancelDrop, S!Show
  <2> QED
    BY <2>1
<1>5. ASSUME NEW kind, kind \notin {"principals", "grants"}, NEW about, S!Begin(kind, about)
      PROVE  SecurityInv'
  <2> DEFINE d == S!Sent(kind, about, "")
  <2>1. sent' = sent \cup {d} /\ busy = FALSE /\ busy' = TRUE
    BY <1>5 DEF S!Begin, S!enabled
  <2>2. CallFields \subseteq DOMAIN d /\ d.kind = kind
    BY ONLY SecuritySent
  <2> HIDE DEF d
  <2> QED
    BY <1>5, <2>1, <2>2
<1>6. ASSUME NEW c \in sent, S!Handle(c) \/ S!Refuse(c)
      PROVE  SecurityInv'
  <2>1. PICK d : /\ sent' = (sent \ {c}) \cup {d}
                 /\ CallFields \subseteq DOMAIN d /\ d.kind = c.kind /\ d.ends = c.ends
    <3>1. CallFields \subseteq DOMAIN c
      OBVIOUS
    <3>2. CASE S!Handle(c)
      <4> DEFINE d == [c EXCEPT !.answer = "ok",
                                !.got = CASE c.kind = "principals" -> exist[c.conn]
                                          [] c.kind = "grants" -> granted[c.conn][c.about]
                                          [] OTHER -> {}]
      <4>1. sent' = (sent \ {c}) \cup {d}
        BY <3>2 DEF S!Handle
      <4>2. CallFields \subseteq DOMAIN d /\ d.kind = c.kind /\ d.ends = c.ends
        BY <3>1 DEF CallFields
      <4> HIDE DEF d
      <4> QED
        BY <4>1, <4>2
    <3>3. CASE S!Refuse(c)
      <4> DEFINE d == [c EXCEPT !.answer = "failed"]
      <4>1. sent' = (sent \ {c}) \cup {d}
        BY <3>3 DEF S!Refuse
      <4>2. CallFields \subseteq DOMAIN d /\ d.kind = c.kind /\ d.ends = c.ends
        BY <3>1 DEF CallFields
      <4> HIDE DEF d
      <4> QED
        BY <4>1, <4>2
    <3> QED
      BY <1>6, <3>2, <3>3
  <2>2. busy' = busy
    BY <1>6 DEF S!Handle, S!Refuse
  <2> QED
    BY <2>1, <2>2
<1>7. ASSUME NEW c \in sent, S!loadSecurity(c)
      PROVE  SecurityInv'
  <2>1. \/ /\ \E d : /\ sent' = (sent \ {c}) \cup {d}
                     /\ CallFields \subseteq DOMAIN d /\ d.kind = "grants" /\ d.ends = c.ends
           /\ busy' = busy
        \/ sent' = sent \ {c} /\ busy' = (busy /\ c.ends \notin {"reload", "apply"})
    <3> DEFINE p == IF grantee # S!None THEN grantee
                    ELSE IF c.got # {} THEN CHOOSE q \in c.got : TRUE ELSE S!None
               more == c.answer = "ok" /\ p # S!None /\ conn \in Capable
               d == S!Sent("grants", p, c.ends)
    <3>1. CallFields \subseteq DOMAIN d /\ d.kind = "grants" /\ d.ends = c.ends
      BY SecuritySent
    <3>2. /\ sent' = (sent \ {c}) \cup IF more THEN {d} ELSE {}
          /\ S!Ends(IF more THEN "" ELSE c.ends)
      BY <1>7 DEF S!loadSecurity
    <3> HIDE DEF d, more
    <3> QED
      BY <3>1, <3>2 DEF S!Ends
  <2>2. c.kind = "principals"
    BY <1>7 DEF S!loadSecurity
  <2> QED
    <3>1. ASSUME NEW d, sent' = (sent \ {c}) \cup {d}, busy' = busy,
                 CallFields \subseteq DOMAIN d, d.kind = "grants", d.ends = c.ends
          PROVE  SecurityInv'
      <4>1. Changing(d) <=> Changing(c)
        BY <2>2, <3>1
      <4> QED
        BY <3>1, <4>1
    <3>2. ASSUME sent' = sent \ {c}, busy' = (busy /\ c.ends \notin {"reload", "apply"})
          PROVE  SecurityInv'
      BY <2>2, <3>2
    <3> QED
      BY <2>1, <3>1, <3>2
<1>8. ASSUME NEW c \in sent, S!loadGrants(c)
      PROVE  SecurityInv'
  BY <1>8 DEF S!loadGrants, S!Ends
<1>9. ASSUME NEW c \in sent, S!previewAnswered(c) \/ S!resetAnswered(c)
      PROVE  SecurityInv'
  BY <1>9 DEF S!previewAnswered, S!resetAnswered
<1>10. ASSUME NEW c \in sent, S!applyAnswered(c)
       PROVE  SecurityInv'
  <2>1. c.kind = "apply"
    BY <1>10 DEF S!applyAnswered
  <2> DEFINE d == S!Sent("grants", grantee, "apply")
  <2>2. \/ sent' = (sent \ {c}) \cup {d} /\ busy' = busy
        \/ sent' = sent \ {c} /\ busy' = FALSE
    BY <1>10 DEF S!applyAnswered, S!Ends
  <2>3. CallFields \subseteq DOMAIN d /\ d.kind = "grants" /\ d.ends = "apply"
    BY SecuritySent
  <2> HIDE DEF d
  <2> QED
    BY <2>1, <2>2, <2>3
<1>11. ASSUME NEW c \in sent, S!savedOrDropped(c)
       PROVE  SecurityInv'
  <2> DEFINE d == [S!Sent("principals", S!None, "reload") EXCEPT !.conn = c.conn]
  <2>1. \/ sent' = (sent \ {c}) \cup {d} /\ busy' = busy
        \/ sent' = sent \ {c} /\ busy' = FALSE
    BY <1>11 DEF S!savedOrDropped
  <2>2. CallFields \subseteq DOMAIN d /\ d.kind = "principals" /\ d.ends = "reload"
    BY SecuritySent DEF CallFields
  <2>3. c.kind \in {"create", "update", "drop"}
    BY <1>11 DEF S!savedOrDropped
  <2> HIDE DEF d
  <2> QED
    BY <2>1, <2>2, <2>3
<1> QED
  BY <1>1, <1>2, <1>3, <1>4, <1>5, <1>6, <1>7, <1>8, <1>9, <1>10, <1>11
  DEF S!Next, S!Step, S!savePrincipal, S!previewGrants, S!applyGrants, S!resetPassword, S!drop

\* The invariant says what the run asks of the page.
LEMMA SecurityIsTrue == SecurityInv => S!OneChangeAtATime
<1> DEFINE changing == {k \in sent : Changing(k)}
<1>1. S!Cardinality(changing) = Cardinality(changing)
  BY DEF S!Cardinality, Cardinality
<1> QED
  BY <1>1, OneIsCounted DEF SecurityInv, S!OneChangeAtATime, Changing

-----------------------------------------------------------------------------
(* The page of backups *)

PostFields == {"kind", "about", "answer", "artifacts", "jobs"}
DialogFields == {"open", "busy", "uploading", "source", "validation", "target", "confirm"}
Restoring(k) == k.kind = "restore"
\* At most one restore, and the dialog that waits for it is open and busy.
RestoreInv ==
    /\ \A k \in posts : PostFields \subseteq DOMAIN k
    /\ DialogFields \subseteq DOMAIN restore
    /\ \A k \in posts : Restoring(k) => restore.open /\ restore.busy
    /\ \A k, l \in posts : Restoring(k) /\ Restoring(l) => k = l

\* What a call that is sent says.
LEMMA RestoreSent ==
  ASSUME NEW kind, NEW about
  PROVE  LET d == R!Sent(kind, about)
         IN  PostFields \subseteq DOMAIN d /\ d.kind = kind
BY DEF R!Sent, PostFields

\* A step that sends nothing but other calls, and closes no dialog that waits.
LEMMA RestoreKept ==
  ASSUME RestoreInv,
         \A k \in posts' : k \in posts \/ (PostFields \subseteq DOMAIN k /\ ~Restoring(k)),
         DialogFields \subseteq DOMAIN restore',
         restore.open /\ restore.busy => restore'.open /\ restore'.busy
  PROVE  RestoreInv'
BY DEF RestoreInv, Restoring

\* The page opens with its load under way.
LEMMA InitRestore == R!Init => RestoreInv
<1> SUFFICES ASSUME R!Init
             PROVE  RestoreInv
  OBVIOUS
<1> DEFINE d == R!Sent("load", R!None)
<1>1. posts = {d} /\ restore = R!NoRestore
  BY DEF R!Init
<1>2. PostFields \subseteq DOMAIN d /\ d.kind = "load"
  BY ONLY DEF R!Sent, PostFields
<1>3. DialogFields \subseteq DOMAIN R!NoRestore
  BY DEF DialogFields, R!NoRestore
<1> HIDE DEF d
<1> QED
  BY <1>1, <1>2, <1>3 DEF RestoreInv, Restoring

\* Every step of the page keeps the one restore and the dialog that waits for it.
LEMMA NextRestore == RestoreInv /\ [R!Next]_(R!vars) => RestoreInv'
<1> SUFFICES ASSUME RestoreInv, [R!Next]_(R!vars)
             PROVE  RestoreInv'
  OBVIOUS
<1>1. CASE UNCHANGED R!vars
  BY <1>1, RestoreKept DEF R!vars, RestoreInv
<1>2. ASSUME \/ R!openCreate \/ R!closeCreate \/ \E n \in Databases : R!typeDatabase(n)
      PROVE  RestoreInv'
  <2>1. UNCHANGED <<posts, restore>>
    BY <1>2 DEF R!openCreate, R!closeCreate, R!typeDatabase
  <2> QED
    BY <2>1, RestoreKept DEF RestoreInv
<1>3. ASSUME NEW kind, NEW about, kind # "restore", R!Send(kind, about), UNCHANGED restore
      PROVE  RestoreInv'
  <2> DEFINE d == R!Sent(kind, about)
  <2>1. posts' = posts \cup {d}
    BY <1>3 DEF R!Send
  <2>2. PostFields \subseteq DOMAIN d /\ d.kind = kind
    BY ONLY RestoreSent
  <2> HIDE DEF d
  <2> QED
    BY <1>3, <2>1, <2>2, RestoreKept DEF RestoreInv, Restoring
<1>4. ASSUME \/ R!createBackup \/ R!refresh \/ R!retry
             \/ \E j \in target.jobs : R!cancelJob(j)
             \/ \E a \in Artifacts : R!download(a) \/ R!deleteArtifact(a)
      PROVE  RestoreInv'
  <2>1. UNCHANGED restore
    BY <1>4 DEF R!createBackup, R!refresh, R!retry, R!cancelJob, R!download, R!deleteArtifact
  <2>2. \E kind, about : kind # "restore" /\ R!Send(kind, about)
    <3>1. CASE R!createBackup
      BY <3>1 DEF R!createBackup
    <3>2. CASE R!refresh \/ R!retry
      BY <3>2 DEF R!refresh, R!retry
    <3>3. CASE \E j \in target.jobs : R!cancelJob(j)
      BY <3>3 DEF R!cancelJob
    <3>4. CASE \E a \in Artifacts : R!download(a) \/ R!deleteArtifact(a)
      BY <3>4 DEF R!download, R!deleteArtifact
    <3> QED
      BY <1>4, <3>1, <3>2, <3>3, <3>4
  <2> QED
    BY <2>1, <2>2, <1>3
<1>5. ASSUME NEW id \in Servers, R!pickConnection(id)
      PROVE  RestoreInv'
  <2>1. R!Send("capability", id) /\ UNCHANGED restore
    BY <1>5 DEF R!pickConnection, R!selectConnection, R!Send
  <2> QED
    BY <2>1, <1>3
<1>6. ASSUME NEW a \in Artifacts \cup {R!None}, R!openRestore(a) \/ R!onRestoreArtifactChange(a)
      PROVE  RestoreInv'
  <2> DEFINE d == R!Sent("validate", a)
  <2>1. posts' \in {posts, posts \cup {d}}
    BY <1>6 DEF R!openRestore, R!onRestoreArtifactChange
  <2>2. PostFields \subseteq DOMAIN d /\ d.kind = "validate"
    BY ONLY RestoreSent
  <2>3. /\ DialogFields \subseteq DOMAIN restore'
        /\ restore'.busy = restore.busy /\ (restore.open => restore'.open)
    <3>1. DialogFields \subseteq DOMAIN restore
      BY DEF RestoreInv
    <3>2. CASE R!openRestore(a)
      BY <3>1, <3>2 DEF R!openRestore, DialogFields
    <3>3. CASE R!onRestoreArtifactChange(a)
      BY <3>1, <3>3 DEF R!onRestoreArtifactChange, DialogFields
    <3> QED
      BY <1>6, <3>2, <3>3
  <2> HIDE DEF d
  <2> QED
    BY <2>1, <2>2, <2>3, RestoreKept DEF Restoring
<1>7. ASSUME R!onRestoreFileChange
      PROVE  RestoreInv'
  <2> DEFINE d == R!Sent("upload", R!Upload)
  <2>1. posts' = posts \cup {d}
    BY <1>7 DEF R!onRestoreFileChange, R!Send
  <2>2. PostFields \subseteq DOMAIN d /\ d.kind = "upload"
    BY ONLY RestoreSent
  <2>3. /\ DialogFields \subseteq DOMAIN restore'
        /\ restore'.busy = restore.busy /\ restore'.open = restore.open
    BY <1>7 DEF R!onRestoreFileChange, DialogFields, RestoreInv
  <2> HIDE DEF d
  <2> QED
    BY <2>1, <2>2, <2>3, RestoreKept DEF Restoring
<1>8. ASSUME R!closeRestore
      PROVE  RestoreInv'
  <2>1. posts' = posts /\ ~restore.busy /\ DialogFields \subseteq DOMAIN restore'
    BY <1>8 DEF R!closeRestore, R!mayClose, DialogFields, RestoreInv
  <2> QED
    BY <2>1, RestoreKept
<1>9. ASSUME R!onRestoreConfirmInput \/ \E n \in Databases : R!onRestoreTargetInput(n)
      PROVE  RestoreInv'
  <2>1. /\ posts' = posts /\ DialogFields \subseteq DOMAIN restore'
        /\ restore'.busy = restore.busy /\ restore'.open = restore.open
    BY <1>9 DEF R!onRestoreConfirmInput, R!onRestoreTargetInput, DialogFields, RestoreInv
  <2> QED
    BY <2>1, RestoreKept
<1>10. ASSUME R!startRestore
       PROVE  RestoreInv'
  <2>1. PICK about : posts' = posts \cup {R!Sent("restore", about)}
    BY <1>10 DEF R!startRestore, R!Send
  <2> DEFINE d == R!Sent("restore", about)
  <2>2. PostFields \subseteq DOMAIN d /\ d.kind = "restore"
    BY ONLY RestoreSent
  <2>3. /\ restore.open /\ ~restore.busy /\ DialogFields \subseteq DOMAIN restore'
        /\ restore'.open = restore.open /\ restore'.busy = TRUE
    BY <1>10 DEF R!startRestore, R!canRestore, DialogFields, RestoreInv
  <2> HIDE DEF d
  <2> QED
    BY <2>1, <2>2, <2>3 DEF RestoreInv, Restoring, d
<1>11. ASSUME NEW c \in posts, R!Handle(c) \/ R!Refuse(c)
       PROVE  RestoreInv'
  <2>1. PostFields \subseteq DOMAIN c
    BY DEF RestoreInv
  <2>2. PICK d : /\ posts' = (posts \ {c}) \cup {d}
                 /\ PostFields \subseteq DOMAIN d /\ d.kind = c.kind
    <3>1. CASE R!Handle(c)
      <4> DEFINE d == [c EXCEPT !.answer = "ok", !.artifacts = artifacts, !.jobs = jobs]
      <4>1. posts' = (posts \ {c}) \cup {d}
        BY <3>1 DEF R!Handle
      <4>2. PostFields \subseteq DOMAIN d /\ d.kind = c.kind
        BY <2>1 DEF PostFields
      <4> HIDE DEF d
      <4> QED
        BY <4>1, <4>2
    <3>2. CASE R!Refuse(c)
      <4> DEFINE d == [c EXCEPT !.answer = "failed"]
      <4>1. posts' = (posts \ {c}) \cup {d}
        BY <3>2 DEF R!Refuse
      <4>2. PostFields \subseteq DOMAIN d /\ d.kind = c.kind
        BY <2>1 DEF PostFields
      <4> HIDE DEF d
      <4> QED
        BY <4>1, <4>2
    <3> QED
      BY <1>11, <3>1, <3>2
  <2>3. restore' = restore
    BY <1>11 DEF R!Handle, R!Refuse
  <2> QED
    BY <2>2, <2>3 DEF RestoreInv, Restoring
\* An answer that leads to another call, or to none.
<1>12. ASSUME NEW c \in posts, NEW kind, NEW about, kind # "restore", UNCHANGED restore,
              posts' \in {posts \ {c}, (posts \ {c}) \cup {R!Sent(kind, about)}}
       PROVE  RestoreInv'
  <2> DEFINE d == R!Sent(kind, about)
  <2>1. PostFields \subseteq DOMAIN d /\ d.kind = kind
    BY ONLY RestoreSent
  <2>2. posts' \in {posts \ {c}, (posts \ {c}) \cup {d}}
    BY <1>12
  <2> HIDE DEF d
  <2> QED
    BY <1>12, <2>1, <2>2, RestoreKept DEF RestoreInv, Restoring
<1>13. ASSUME NEW c \in posts,
              \/ R!loadAnswered(c) \/ R!loadFailed(c) \/ R!loadArtifactsAndJobs(c)
              \/ R!loadCapability(c) \/ R!createAnswered(c) \/ R!actionAnswered(c)
       PROVE  RestoreInv'
  <2>1. UNCHANGED restore
    BY <1>13 DEF R!loadAnswered, R!loadFailed, R!loadArtifactsAndJobs, R!loadCapability,
                 R!createAnswered, R!actionAnswered
  <2>2. \/ posts' = posts \ {c}
        \/ posts' = (posts \ {c}) \cup {R!Sent("lists", R!None)}
        \/ posts' = (posts \ {c}) \cup {R!Sent("capability", R!First(Servers))}
    BY <1>13 DEF R!loadAnswered, R!loadFailed, R!loadArtifactsAndJobs, R!loadCapability,
                 R!createAnswered, R!actionAnswered, R!selectConnection
  <2> QED
    BY <2>1, <2>2, <1>12
<1>14. ASSUME NEW c \in posts, R!validateRestoreArtifact(c) \/ R!uploadAnswered(c)
       PROVE  RestoreInv'
  <2>1. /\ posts' = posts \ {c} /\ DialogFields \subseteq DOMAIN restore'
        /\ restore'.busy = restore.busy /\ restore'.open = restore.open
    <3>1. DialogFields \subseteq DOMAIN restore
      BY DEF RestoreInv
    <3>2. CASE R!validateRestoreArtifact(c)
      BY <3>1, <3>2 DEF R!validateRestoreArtifact, DialogFields
    <3>3. CASE R!uploadAnswered(c)
      BY <3>1, <3>3 DEF R!uploadAnswered, DialogFields
    <3> QED
      BY <1>14, <3>2, <3>3
  <2> QED
    BY <2>1, RestoreKept
<1>15. ASSUME NEW c \in posts, R!restoreAnswered(c)
       PROVE  RestoreInv'
  <2> DEFINE d == R!Sent("lists", R!None)
  <2>1. /\ posts' \in {posts \ {c}, (posts \ {c}) \cup {d}} /\ Restoring(c)
        /\ DialogFields \subseteq DOMAIN restore'
    BY <1>15 DEF R!restoreAnswered, DialogFields, Restoring, RestoreInv
  <2>2. PostFields \subseteq DOMAIN d /\ d.kind = "lists"
    BY ONLY RestoreSent
  <2> HIDE DEF d
  <2> QED
    BY <2>1, <2>2 DEF RestoreInv, Restoring
<1> QED
  BY <1>1, <1>2, <1>4, <1>5, <1>6, <1>7, <1>8, <1>9, <1>10, <1>11, <1>13, <1>14, <1>15
  DEF R!Next, R!Step

\* The invariant says what the run asks of the page.
LEMMA RestoreIsTrue == RestoreInv => R!AnswerFindsItsDialog
<1> SUFFICES ASSUME RestoreInv
             PROVE  R!AnswerFindsItsDialog
  OBVIOUS
<1> DEFINE S1 == {k \in posts : k.kind = "restore"}
<1>1. R!Cardinality(S1) = Cardinality(S1)
  BY DEF R!Cardinality, Cardinality
<1>2. One(S1, S1 # {}) /\ \A k \in S1 : restore.open /\ restore.busy
  BY DEF One, RestoreInv, Restoring
<1>3. Cardinality(S1) \in {0, 1}
  BY <1>2, OneIsCounted
<1> QED
  BY <1>1, <1>2, <1>3 DEF R!AnswerFindsItsDialog

-----------------------------------------------------------------------------
(* What the server has accepted *)

Accepting(k) == k.kind \in {"validate", "upload"} /\ k.answer = "ok"
Honest(k) ==
    /\ Accepting(k) => k.about \notin Invalid
    /\ k.kind = "upload" => k.about = R!Upload
    /\ Restoring(k) => k.about.source \notin Invalid
\* A good answer is about a source the server accepts, and so is the validation kept of it.
AcceptedInv ==
    /\ restore.validation # R!None => restore.validation \notin Invalid
    /\ \A k \in posts : Honest(k)

\* A call that is sent has no answer yet; if it is no restore, that is all.
LEMMA SentIsHonest ==
  ASSUME NEW kind, NEW about, kind # "restore", kind = "upload" => about = R!Upload
  PROVE  Honest(R!Sent(kind, about))
BY DEF R!Sent, Honest, Accepting, Restoring

\* A step that adds honest calls, and no validation of its own.
LEMMA AcceptedKept ==
  ASSUME AcceptedInv,
         \A k \in posts' : k \in posts \/ Honest(k),
         restore'.validation \in {restore.validation, R!None}
  PROVE  AcceptedInv'
BY DEF AcceptedInv, Honest, Accepting, Restoring

\* The page opens with its load under way.
LEMMA InitAccepted == R!Init => AcceptedInv
<1> SUFFICES ASSUME R!Init
             PROVE  AcceptedInv
  OBVIOUS
<1>1. posts = {R!Sent("load", R!None)} /\ restore = R!NoRestore
  BY DEF R!Init
<1>2. Honest(R!Sent("load", R!None))
  BY SentIsHonest
<1>3. R!NoRestore.validation = R!None
  BY DEF R!NoRestore
<1> QED
  BY <1>1, <1>2, <1>3 DEF AcceptedInv

\* Only the server's good answers make a validation, and only a validation is restored.
LEMMA NextAccepted == RestoreInv /\ AcceptedInv /\ [R!Next]_(R!vars) => AcceptedInv'
<1> SUFFICES ASSUME RestoreInv, AcceptedInv, [R!Next]_(R!vars)
             PROVE  AcceptedInv'
  OBVIOUS
<1>0. DialogFields \subseteq DOMAIN restore
  BY DEF RestoreInv
<1>1. CASE UNCHANGED R!vars
  BY <1>1, AcceptedKept DEF R!vars
<1>2. ASSUME \/ R!openCreate \/ R!closeCreate \/ \E n \in Databases : R!typeDatabase(n)
      PROVE  AcceptedInv'
  <2>1. UNCHANGED <<posts, restore>>
    BY <1>2 DEF R!openCreate, R!closeCreate, R!typeDatabase
  <2> QED
    BY <2>1, AcceptedKept
<1>3. ASSUME NEW kind, NEW about, kind # "restore", kind = "upload" => about = R!Upload,
             posts' \in {posts, posts \cup {R!Sent(kind, about)}},
             restore'.validation \in {restore.validation, R!None}
      PROVE  AcceptedInv'
  <2>1. Honest(R!Sent(kind, about))
    BY <1>3, SentIsHonest
  <2> QED
    BY <1>3, <2>1, AcceptedKept
<1>4. ASSUME \/ R!createBackup \/ R!refresh \/ R!retry
             \/ \E j \in target.jobs : R!cancelJob(j)
             \/ \E a \in Artifacts : R!download(a) \/ R!deleteArtifact(a)
             \/ \E id \in Servers : R!pickConnection(id)
      PROVE  AcceptedInv'
  <2>1. UNCHANGED restore
    BY <1>4 DEF R!createBackup, R!refresh, R!retry, R!cancelJob, R!download, R!deleteArtifact,
                R!pickConnection
  <2>2. \E kind, about : kind \notin {"restore", "upload"} /\ posts' = posts \cup {R!Sent(kind, about)}
    <3>1. CASE R!createBackup
      BY <3>1 DEF R!createBackup, R!Send
    <3>2. CASE R!refresh \/ R!retry
      BY <3>2 DEF R!refresh, R!retry, R!Send
    <3>3. CASE \E j \in target.jobs : R!cancelJob(j)
      BY <3>3 DEF R!cancelJob, R!Send
    <3>4. CASE \E a \in Artifacts : R!download(a) \/ R!deleteArtifact(a)
      BY <3>4 DEF R!download, R!deleteArtifact, R!Send
    <3>5. CASE \E id \in Servers : R!pickConnection(id)
      BY <3>5 DEF R!pickConnection, R!selectConnection
    <3> QED
      BY <1>4, <3>1, <3>2, <3>3, <3>4, <3>5
  <2> QED
    BY <2>1, <2>2, <1>3
<1>5. ASSUME NEW a \in Artifacts \cup {R!None}, R!openRestore(a) \/ R!onRestoreArtifactChange(a)
      PROVE  AcceptedInv'
  <2>1. posts' \in {posts, posts \cup {R!Sent("validate", a)}}
    BY <1>5 DEF R!openRestore, R!onRestoreArtifactChange
  <2>2. restore'.validation = R!None
    <3>1. CASE R!openRestore(a)
      BY <1>0, <3>1 DEF R!openRestore, DialogFields
    <3>2. CASE R!onRestoreArtifactChange(a)
      BY <1>0, <3>2 DEF R!onRestoreArtifactChange, DialogFields
    <3> QED
      BY <1>5, <3>1, <3>2
  <2> QED
    BY <2>1, <2>2, <1>3
<1>6. ASSUME R!onRestoreFileChange
      PROVE  AcceptedInv'
  <2>1. posts' = posts \cup {R!Sent("upload", R!Upload)}
    BY <1>6 DEF R!onRestoreFileChange, R!Send
  <2>2. restore'.validation = R!None
    BY <1>0, <1>6 DEF R!onRestoreFileChange, DialogFields
  <2> QED
    BY <2>1, <2>2, <1>3
<1>7. ASSUME R!closeRestore \/ R!onRestoreConfirmInput \/ \E n \in Databases : R!onRestoreTargetInput(n)
      PROVE  AcceptedInv'
  <2>1. posts' = posts /\ restore'.validation = restore.validation
    BY <1>0, <1>7 DEF R!closeRestore, R!onRestoreConfirmInput, R!onRestoreTargetInput, DialogFields
  <2> QED
    BY <2>1, AcceptedKept
<1>8. ASSUME R!startRestore
      PROVE  AcceptedInv'
  <2> DEFINE about == [conn |-> profile, source |-> restore.validation, shown |-> restore.source,
                       target |-> restore.target, typed |-> restore.confirm]
  <2>1. posts' = posts \cup {R!Sent("restore", about)}
    BY <1>8 DEF R!startRestore, R!Send
  <2>2. restore.validation \notin Invalid
    <3>1. restore.validation # R!None
      BY <1>8, Zenon DEF R!startRestore, R!canRestore
    <3> QED
      BY <3>1, Zenon DEF AcceptedInv
  <2>3. Honest(R!Sent("restore", about))
    BY <2>2 DEF R!Sent, Honest, Accepting, Restoring
  <2>4. restore'.validation = restore.validation
    BY <1>0, <1>8 DEF R!startRestore, DialogFields
  <2> QED
    BY <2>1, <2>3, <2>4, AcceptedKept
<1>9. ASSUME NEW c \in posts, R!Handle(c) \/ R!Refuse(c)
      PROVE  AcceptedInv'
  <2>1. PostFields \subseteq DOMAIN c /\ Honest(c)
    BY DEF RestoreInv, AcceptedInv
  <2>2. PICK d : posts' = (posts \ {c}) \cup {d} /\ Honest(d)
    <3>1. CASE R!Handle(c)
      <4> DEFINE d == [c EXCEPT !.answer = "ok", !.artifacts = artifacts, !.jobs = jobs]
      <4>1. posts' = (posts \ {c}) \cup {d}
        BY <3>1 DEF R!Handle
      <4>2. d.kind = c.kind /\ d.about = c.about
        BY <2>1 DEF PostFields
      <4>3. c.kind \in {"validate", "upload"} => c.about \notin Invalid
        BY <3>1 DEF R!Handle, R!Refused
      <4> HIDE DEF d
      <4> QED
        BY <2>1, <4>1, <4>2, <4>3 DEF Honest, Accepting, Restoring
    <3>2. CASE R!Refuse(c)
      <4> DEFINE d == [c EXCEPT !.answer = "failed"]
      <4>1. posts' = (posts \ {c}) \cup {d}
        BY <3>2 DEF R!Refuse
      <4>2. d.kind = c.kind /\ d.about = c.about /\ d.answer = "failed"
        BY <2>1 DEF PostFields
      <4> HIDE DEF d
      <4> QED
        BY <2>1, <4>1, <4>2 DEF Honest, Accepting, Restoring
    <3> QED
      BY <1>9, <3>1, <3>2
  <2>3. restore' = restore
    BY <1>9 DEF R!Handle, R!Refuse
  <2> QED
    BY <2>2, <2>3, AcceptedKept
\* An answer that leads to another call, or to none, and makes no validation.
<1>10. ASSUME NEW c \in posts, NEW kind, NEW about, kind \notin {"restore", "upload"},
              restore'.validation = restore.validation,
              posts' \in {posts \ {c}, (posts \ {c}) \cup {R!Sent(kind, about)}}
       PROVE  AcceptedInv'
  <2>1. Honest(R!Sent(kind, about))
    BY <1>10, SentIsHonest
  <2> QED
    BY <1>10, <2>1, AcceptedKept
<1>11. ASSUME NEW c \in posts,
              \/ R!loadAnswered(c) \/ R!loadFailed(c) \/ R!loadArtifactsAndJobs(c)
              \/ R!loadCapability(c) \/ R!createAnswered(c) \/ R!actionAnswered(c)
       PROVE  AcceptedInv'
  <2>1. UNCHANGED restore
    BY <1>11 DEF R!loadAnswered, R!loadFailed, R!loadArtifactsAndJobs, R!loadCapability,
                 R!createAnswered, R!actionAnswered
  <2>2. \/ posts' = posts \ {c}
        \/ posts' = (posts \ {c}) \cup {R!Sent("lists", R!None)}
        \/ posts' = (posts \ {c}) \cup {R!Sent("capability", R!First(Servers))}
    BY <1>11 DEF R!loadAnswered, R!loadFailed, R!loadArtifactsAndJobs, R!loadCapability,
                 R!createAnswered, R!actionAnswered, R!selectConnection
  <2> QED
    BY <2>1, <2>2, <1>10
<1>12. ASSUME NEW c \in posts, R!validateRestoreArtifact(c) \/ R!uploadAnswered(c)
       PROVE  AcceptedInv'
  <2>1. Honest(c) /\ posts' = posts \ {c}
    BY <1>12 DEF AcceptedInv, R!validateRestoreArtifact, R!uploadAnswered
  <2>2. \/ restore'.validation \in {restore.validation, R!None}
        \/ restore'.validation = c.about /\ Accepting(c)
    <3>1. CASE R!validateRestoreArtifact(c)
      BY <1>0, <3>1 DEF R!validateRestoreArtifact, DialogFields, Accepting
    <3>2. CASE R!uploadAnswered(c)
      BY <1>0, <2>1, <3>2 DEF R!uploadAnswered, DialogFields, Accepting, Honest
    <3> QED
      BY <1>12, <3>1, <3>2
  <2> QED
    BY <2>1, <2>2, AcceptedKept DEF AcceptedInv, Honest
<1>13. ASSUME NEW c \in posts, R!restoreAnswered(c)
       PROVE  AcceptedInv'
  <2>1. /\ posts' \in {posts \ {c}, (posts \ {c}) \cup {R!Sent("lists", R!None)}}
        /\ restore'.validation = restore.validation
    BY <1>0, <1>13 DEF R!restoreAnswered, DialogFields
  <2> QED
    BY <2>1, <1>10
<1> QED
  BY <1>1, <1>2, <1>4, <1>5, <1>6, <1>7, <1>8, <1>9, <1>11, <1>12, <1>13 DEF R!Next, R!Step

\* The invariants say what the run asks of the page.
LEMMA RestoresAreTrue == RestoreInv /\ AcceptedInv => R!RestoreIsTrue
BY RestoreIsTrue DEF AcceptedInv, Honest, Restoring, R!RestoreIsTrue, R!RestoresOnlyAccepted

-----------------------------------------------------------------------------
\* Of the calls T at most one ends e, and b says whether there is one.
Marked(T, e, b) ==
    /\ \A x, y \in T : x.ends = e /\ y.ends = e => x = y
    /\ b <=> \E x \in T : x.ends = e

\* A call whose answer leads to another with the same end stays marked.
LEMMA MarkedThen ==
  ASSUME NEW T, NEW e, NEW b, Marked(T, e, b), NEW k \in T, NEW d, d.ends = k.ends
  PROVE  Marked((T \ {k}) \cup {d}, e, b)
BY DEF Marked

\* A call that is over takes the mark of its end away.
LEMMA MarkedOver ==
  ASSUME NEW T, NEW e, NEW b, Marked(T, e, b), NEW k \in T
  PROVE  Marked(T \ {k}, e, b /\ k.ends # e)
BY DEF Marked

\* A call is sent and marked where no mark is, or ends something else.
LEMMA MarkedSent ==
  ASSUME NEW T, NEW e, NEW b, Marked(T, e, b), NEW d
  PROVE  /\ d.ends = e /\ ~b => Marked(T \cup {d}, e, TRUE)
         /\ d.ends # e => Marked(T \cup {d}, e, b)
BY DEF Marked

\* What a mark says of the number of calls.
LEMMA MarkedCounts ==
  ASSUME NEW T, NEW e, NEW b \in BOOLEAN, Marked(T, e, b)
  PROVE  Cardinality({k \in T : k.ends = e}) = (IF b THEN 1 ELSE 0)
<1>1. One({k \in T : k.ends = e}, b)
  BY DEF One, Marked
<1> QED
  BY <1>1, OneIsCounted

-----------------------------------------------------------------------------
(* The page of connections *)

AskFields == {"kind", "conn", "secret", "ends", "n"}
Actions == {"connect", "reconnect", "disconnect"}
PromptFields == {"of", "action", "secret"}
\* Of one call: its secret is of its connection, and its end is the one of its kind.
AskIsTrue(k) ==
    /\ AskFields \subseteq DOMAIN k
    /\ k.secret \in {P!None, k.conn}
    /\ k.kind \in {"save", "test"} => k.ends = k.kind
    /\ k.kind \in {"duplicate", "delete"} => k.ends = "load"
    /\ k.kind \in Actions => k.ends = "lifecycle"
\* A prompt is open only while no connection is busy.
ConnectionsInv ==
    /\ \A k \in asks : AskIsTrue(k)
    /\ saving \in BOOLEAN /\ testing \in BOOLEAN
    /\ Marked(asks, "save", saving) /\ Marked(asks, "test", testing)
    /\ ~(saving /\ testing) /\ (saving \/ testing => editor)
    /\ Marked(asks, "lifecycle", busyId # P!None)
    /\ \A k \in asks : k.ends = "lifecycle" => k.conn = busyId
    /\ PromptFields \subseteq DOMAIN prompt /\ prompt.action \in Actions
    /\ prompt.secret \in {P!None, prompt.of}
    /\ prompt.of # P!None => busyId = P!None

\* What a call that is sent says.
LEMMA AskSent ==
  ASSUME NEW kind, NEW c, NEW secret, NEW ends
  PROVE  LET d == P!Sent(kind, c, secret, ends)
         IN  /\ AskFields \subseteq DOMAIN d
             /\ d.kind = kind /\ d.conn = c /\ d.secret = secret /\ d.ends = ends
BY DEF P!Sent, AskFields

\* A call that goes on keeps everything but its kind.
LEMMA AskGoesOn ==
  ASSUME NEW k, AskIsTrue(k), NEW kind \in {"list", "status"}
  PROVE  LET d == [k EXCEPT !.kind = kind]
         IN  AskIsTrue(d) /\ d.ends = k.ends /\ d.conn = k.conn
<1> DEFINE d == [k EXCEPT !.kind = kind]
<1>1. /\ DOMAIN d = DOMAIN k /\ d.kind = kind
      /\ d.conn = k.conn /\ d.secret = k.secret /\ d.ends = k.ends
  BY DEF AskIsTrue, AskFields
<1> HIDE DEF d
<1>2. AskIsTrue(d) /\ d.ends = k.ends /\ d.conn = k.conn
  BY <1>1 DEF AskIsTrue, Actions
<1> QED
  BY <1>2 DEF d

\* The page opens with its load under way, and the store with that of the statuses.
LEMMA InitConnections == P!Init => ConnectionsInv
<1> SUFFICES ASSUME P!Init
             PROVE  ConnectionsInv
  OBVIOUS
<1> DEFINE d == P!Sent("list", P!None, P!None, "load")
           f == P!Sent("status", P!None, P!None, "")
<1>1. asks = {d, f} /\ saving = FALSE /\ testing = FALSE /\ busyId = P!None /\ prompt = P!NoPrompt
  BY DEF P!Init, P!ListCall
<1>2. AskFields \subseteq DOMAIN d /\ d.kind = "list" /\ d.secret = P!None /\ d.ends = "load"
  BY ONLY AskSent
<1>3. AskFields \subseteq DOMAIN f /\ f.kind = "status" /\ f.secret = P!None /\ f.ends = ""
  BY ONLY DEF P!Sent, AskFields
<1>4. /\ PromptFields \subseteq DOMAIN P!NoPrompt /\ P!NoPrompt.action \in Actions
      /\ P!NoPrompt.secret = P!None /\ P!NoPrompt.of = P!None
  BY DEF P!NoPrompt, PromptFields, Actions
<1> HIDE DEF d, f
<1> QED
  BY <1>1, <1>2, <1>3, <1>4 DEF ConnectionsInv, AskIsTrue, Actions, Marked

\* A step that leaves calls and marks alone, and opens a prompt only where none is busy.
LEMMA ConnectionsKept ==
  ASSUME ConnectionsInv, UNCHANGED <<asks, saving, testing, busyId>>,
         saving \/ testing => editor',
         PromptFields \subseteq DOMAIN prompt', prompt'.action \in Actions,
         prompt'.secret \in {P!None, prompt'.of},
         prompt'.of # P!None => busyId = P!None
  PROVE  ConnectionsInv'
BY DEF ConnectionsInv

\* A step that sends a call which no mark stands for.
LEMMA ConnectionsSent ==
  ASSUME ConnectionsInv, UNCHANGED <<saving, testing, busyId, prompt, editor>>,
         NEW kind \in {"list", "duplicate", "delete"}, NEW c,
         asks' = asks \cup {P!Sent(kind, c, P!None, "load")}
  PROVE  ConnectionsInv'
<1> DEFINE d == P!Sent(kind, c, P!None, "load")
<1>1. AskFields \subseteq DOMAIN d /\ d.kind = kind /\ d.secret = P!None /\ d.ends = "load"
  BY ONLY AskSent
<1>2. asks' = asks \cup {d}
  OBVIOUS
<1> HIDE DEF d
<1>3. AskIsTrue(d)
  BY <1>1 DEF AskIsTrue, Actions
<1>4. /\ Marked(asks', "save", saving) /\ Marked(asks', "test", testing)
      /\ Marked(asks', "lifecycle", busyId # P!None)
  BY <1>1, <1>2 DEF ConnectionsInv, Marked
<1> QED
  BY <1>1, <1>2, <1>3, <1>4 DEF ConnectionsInv

\* A step that begins to save or to test the form.
LEMMA FormSent ==
  ASSUME ConnectionsInv, UNCHANGED <<busyId, prompt, editor>>, editor, ~saving, ~testing,
         NEW e \in {"save", "test"}, saving' = (e = "save"), testing' = (e = "test"),
         asks' = asks \cup {P!Sent(e, P!None, P!None, e)}
  PROVE  ConnectionsInv'
<1> DEFINE d == P!Sent(e, P!None, P!None, e)
<1>1. AskFields \subseteq DOMAIN d /\ d.kind = e /\ d.secret = P!None /\ d.ends = e
  BY ONLY AskSent
<1>2. asks' = asks \cup {d}
  OBVIOUS
<1> HIDE DEF d
<1>3. AskIsTrue(d)
  BY <1>1 DEF AskIsTrue, Actions
<1>4. Marked(asks', "lifecycle", busyId # P!None)
  <2>1. Marked(asks, "lifecycle", busyId # P!None)
    BY DEF ConnectionsInv
  <2> QED
    BY <1>1, <1>2, <2>1 DEF Marked
<1>5. Marked(asks', "save", saving') /\ Marked(asks', "test", testing')
  <2>1. Marked(asks, "save", saving) /\ Marked(asks, "test", testing)
    BY DEF ConnectionsInv
  <2> QED
    BY <1>1, <1>2, <2>1 DEF Marked
<1> QED
  BY <1>1, <1>2, <1>3, <1>4, <1>5 DEF ConnectionsInv

\* A step that connects, reconnects or disconnects (performLifecycle).
LEMMA LifecycleSent ==
  ASSUME ConnectionsInv, UNCHANGED <<saving, testing, editor>>, busyId = P!None,
         NEW how \in Actions, NEW c, c # P!None,
         NEW secret \in {P!None, c}, P!performLifecycle(c, how, secret),
         PromptFields \subseteq DOMAIN prompt', prompt'.action \in Actions,
         prompt'.secret = P!None, prompt'.of = P!None
  PROVE  ConnectionsInv'
<1> DEFINE d == P!Sent(how, c, secret, "lifecycle")
<1>1. /\ AskFields \subseteq DOMAIN d /\ d.kind = how /\ d.conn = c
      /\ d.secret = secret /\ d.ends = "lifecycle"
  BY ONLY AskSent
<1>2. asks' = asks \cup {d} /\ busyId' = c
  BY DEF P!performLifecycle, P!Send
<1> HIDE DEF d
<1>3. AskIsTrue(d)
  BY <1>1 DEF AskIsTrue, Actions
<1>4. Marked(asks', "save", saving) /\ Marked(asks', "test", testing)
  BY <1>1, <1>2, MarkedSent DEF ConnectionsInv
<1>5. Marked(asks', "lifecycle", busyId' # P!None) /\ \A k \in asks' : k.ends = "lifecycle" => k = d
  <2>1. Marked(asks, "lifecycle", busyId # P!None)
    BY DEF ConnectionsInv
  <2> QED
    BY <1>1, <1>2, <2>1 DEF Marked
<1> QED
  BY <1>1, <1>2, <1>3, <1>4, <1>5 DEF ConnectionsInv

\* An answer that leads to the next call of the same operation.
LEMMA ConnectionsThen ==
  ASSUME ConnectionsInv, UNCHANGED <<saving, testing, busyId, prompt, editor>>,
         NEW k \in asks, NEW kind \in {"list", "status"}, P!Then(k, [k EXCEPT !.kind = kind])
  PROVE  ConnectionsInv'
<1> DEFINE d == [k EXCEPT !.kind = kind]
<1>1. AskIsTrue(d) /\ d.ends = k.ends /\ d.conn = k.conn
  BY AskGoesOn DEF ConnectionsInv
<1>2. asks' = (asks \ {k}) \cup {d}
  BY DEF P!Then
<1> HIDE DEF d
<1>3. Marked(asks', "save", saving) /\ Marked(asks', "test", testing)
      /\ Marked(asks', "lifecycle", busyId # P!None)
  BY <1>1, <1>2, MarkedThen DEF ConnectionsInv
<1> QED
  BY <1>1, <1>2, <1>3 DEF ConnectionsInv

\* An answer that ends its operation.
LEMMA ConnectionsOver ==
  ASSUME ConnectionsInv, UNCHANGED prompt, NEW k \in asks, P!Gone(k), P!Over(k.ends)
  PROVE  ConnectionsInv'
<1>1. asks' = asks \ {k}
  BY DEF P!Gone
<1>2. /\ saving' = (saving /\ k.ends # "save") /\ testing' = (testing /\ k.ends # "test")
      /\ editor' = (editor /\ k.ends # "save")
      /\ busyId' = IF k.ends = "lifecycle" THEN P!None ELSE busyId
  BY DEF P!Over
<1>3. Marked(asks', "save", saving') /\ Marked(asks', "test", testing')
  BY <1>1, <1>2, MarkedOver DEF ConnectionsInv
<1>4. Marked(asks', "lifecycle", busyId # P!None /\ k.ends # "lifecycle")
  BY <1>1, MarkedOver DEF ConnectionsInv
<1>5. Marked(asks', "lifecycle", busyId' # P!None)
  BY <1>2, <1>4 DEF Marked
<1>6. k.ends = "save" => saving
  BY DEF ConnectionsInv, Marked
<1>7. \A l \in asks' : l.ends = "lifecycle" => l.conn = busyId'
  BY <1>1, <1>2, <1>5 DEF ConnectionsInv, Marked
<1> QED
  BY <1>1, <1>2, <1>3, <1>5, <1>6, <1>7 DEF ConnectionsInv

\* Every step of the page keeps its operations apart.
LEMMA NextConnections == ConnectionsInv /\ [P!Next]_(P!vars) => ConnectionsInv'
<1> SUFFICES ASSUME ConnectionsInv, [P!Next]_(P!vars)
             PROVE  ConnectionsInv'
  OBVIOUS
<1>1. CASE UNCHANGED P!vars
  <2>1. UNCHANGED <<asks, saving, testing, busyId, prompt, editor>>
    BY <1>1 DEF P!vars, P!marks
  <2> QED
    BY <2>1, ConnectionsKept DEF ConnectionsInv
<1>2. ASSUME \/ P!openForm \/ P!closeEditor \/ P!closeDelete
             \/ \E c \in Saved : P!confirmDelete(c) \/ P!StatusPushed(c)
      PROVE  ConnectionsInv'
  <2>1. /\ UNCHANGED <<asks, saving, testing, busyId, prompt>>
        /\ saving \/ testing => editor'
    BY <1>2 DEF P!openForm, P!closeEditor, P!closeDelete, P!confirmDelete, P!StatusPushed,
                P!marks, ConnectionsInv
  <2> QED
    BY <2>1, ConnectionsKept DEF ConnectionsInv
<1>3. ASSUME P!onSecret \/ P!closeLifecyclePrompt
      PROVE  ConnectionsInv'
  <2>1. UNCHANGED <<asks, saving, testing, busyId, editor>>
    BY <1>3 DEF P!onSecret, P!closeLifecyclePrompt, P!marks
  <2>2. /\ PromptFields \subseteq DOMAIN prompt' /\ prompt'.action \in Actions
        /\ prompt'.secret \in {P!None, prompt'.of}
        /\ prompt'.of # P!None => busyId = P!None
    BY <1>3 DEF P!onSecret, P!closeLifecyclePrompt, P!Closed, P!idle, PromptFields, ConnectionsInv
  <2> QED
    BY <2>1, <2>2, ConnectionsKept DEF ConnectionsInv
<1>4. ASSUME P!load \/ P!deleteConnection \/ \E c \in Saved : P!duplicate(c)
      PROVE  ConnectionsInv'
  <2>1. UNCHANGED <<saving, testing, busyId, prompt, editor>>
    BY <1>4 DEF P!load, P!deleteConnection, P!duplicate, P!marks
  <2>2. \E kind \in {"list", "duplicate", "delete"} : \E c :
           asks' = asks \cup {P!Sent(kind, c, P!None, "load")}
    BY <1>4 DEF P!load, P!deleteConnection, P!duplicate, P!Send, P!ListCall
  <2> QED
    BY <2>1, <2>2, ConnectionsSent
<1>5. ASSUME P!saveConnection \/ P!testCurrentConnection
      PROVE  ConnectionsInv'
  <2>1. UNCHANGED <<busyId, prompt, editor>> /\ editor /\ ~saving /\ ~testing
    BY <1>5 DEF P!saveConnection, P!testCurrentConnection
  <2>2. saving = FALSE /\ testing = FALSE
    BY <2>1 DEF ConnectionsInv
  <2>3. \E e \in {"save", "test"} : /\ saving' = (e = "save") /\ testing' = (e = "test")
                                   /\ asks' = asks \cup {P!Sent(e, P!None, P!None, e)}
    BY <1>5, <2>2 DEF P!saveConnection, P!testCurrentConnection, P!Send
  <2> QED
    BY <2>1, <2>3, FormSent
<1>6. ASSUME NEW c \in Saved, P!disconnect(c)
      PROVE  ConnectionsInv'
  <2>1. /\ UNCHANGED <<saving, testing, editor, prompt>> /\ busyId = P!None
        /\ P!performLifecycle(c, "disconnect", P!None) /\ prompt.of = P!None
    BY <1>6 DEF P!disconnect, P!marks, P!idle, P!Row, P!Uncovered
  <2>2. /\ PromptFields \subseteq DOMAIN prompt' /\ prompt'.action \in Actions
        /\ prompt'.secret = P!None /\ prompt'.of = P!None
    BY <2>1 DEF ConnectionsInv
  <2>3. c # P!None /\ "disconnect" \in Actions /\ P!None \in {P!None, c}
    BY NamesAssumption DEF P!None, Actions
  <2> QED
    BY <2>1, <2>2, <2>3, LifecycleSent
<1>7. ASSUME NEW c \in Saved, NEW how \in {"connect", "reconnect"}, P!beginLifecycle(c, how)
      PROVE  ConnectionsInv'
  <2>1. /\ UNCHANGED <<saving, testing, editor>> /\ busyId = P!None /\ prompt.of = P!None
    BY <1>7 DEF P!beginLifecycle, P!marks, P!idle, P!Row, P!Uncovered
  <2>2. CASE c \in Keeping
    <3>1. P!performLifecycle(c, how, P!None) /\ UNCHANGED prompt
      BY <1>7, <2>2 DEF P!beginLifecycle
    <3>2. /\ PromptFields \subseteq DOMAIN prompt' /\ prompt'.action \in Actions
          /\ prompt'.secret = P!None /\ prompt'.of = P!None
      BY <2>1, <3>1 DEF ConnectionsInv
    <3>3. c # P!None /\ how \in Actions /\ P!None \in {P!None, c}
      BY NamesAssumption DEF P!None, Actions
    <3> QED
      BY <2>1, <3>1, <3>2, <3>3, LifecycleSent
  <2>3. CASE c \notin Keeping
    <3>1. /\ prompt' = [of |-> c, action |-> how, secret |-> P!None]
          /\ UNCHANGED <<busyId, asks>>
      BY <1>7, <2>3 DEF P!beginLifecycle
    <3>2. /\ PromptFields \subseteq DOMAIN prompt' /\ prompt'.action \in Actions
          /\ prompt'.secret = P!None
      BY <3>1 DEF PromptFields, Actions
    <3> QED
      BY <2>1, <3>1, <3>2, ConnectionsKept DEF ConnectionsInv
  <2> QED
    BY <2>2, <2>3
<1>8. ASSUME P!submitLifecycle
      PROVE  ConnectionsInv'
  <2>1. /\ UNCHANGED <<saving, testing, editor>> /\ prompt.of # P!None /\ prompt.secret # P!None
        /\ P!performLifecycle(prompt.of, prompt.action, prompt.secret) /\ prompt' = P!Closed
    BY <1>8 DEF P!submitLifecycle, P!marks
  <2>2. busyId = P!None /\ prompt.secret \in {P!None, prompt.of}
    BY <2>1 DEF ConnectionsInv
  <2>3. /\ PromptFields \subseteq DOMAIN prompt' /\ prompt'.action \in Actions
        /\ prompt'.secret = P!None /\ prompt'.of = P!None
    BY <2>1, <2>2 DEF P!Closed, P!idle, PromptFields, ConnectionsInv
  <2>4. prompt.action \in Actions
    BY DEF ConnectionsInv
  <2> QED
    BY <2>1, <2>2, <2>3, <2>4, LifecycleSent
<1>9. ASSUME NEW k \in asks, P!Listed(k) \/ P!SessionAnswered(k)
      PROVE  ConnectionsInv'
  <2>1. UNCHANGED prompt
    BY <1>9 DEF P!Listed, P!SessionAnswered
  <2>2. \/ P!Then(k, [k EXCEPT !.kind = "status"]) /\ UNCHANGED <<saving, testing, busyId, editor>>
        \/ P!Gone(k) /\ P!Over(k.ends)
    BY <1>9 DEF P!Listed, P!SessionAnswered, P!marks
  <2> QED
    BY <2>1, <2>2, ConnectionsThen, ConnectionsOver
<1>10. ASSUME NEW k \in asks, P!Refreshed(k) \/ P!Tested(k)
       PROVE  ConnectionsInv'
  <2>1. UNCHANGED prompt /\ P!Gone(k) /\ P!Over(k.ends)
    BY <1>10 DEF P!Refreshed, P!Tested
  <2> QED
    BY <2>1, ConnectionsOver
<1>11. ASSUME NEW k \in asks, P!Changed(k)
       PROVE  ConnectionsInv'
  <2>1. UNCHANGED <<prompt, busyId, editor, testing>>
    BY <1>11 DEF P!Changed
  <2>2. CASE P!Then(k, [k EXCEPT !.kind = "list"]) /\ UNCHANGED saving
    BY <2>1, <2>2, ConnectionsThen
  <2>3. CASE P!Gone(k) /\ saving' = (saving /\ k.kind # "save")
    <3>1. asks' = asks \ {k} /\ k.kind \in {"save", "duplicate", "delete"}
      BY <1>11, <2>3 DEF P!Gone, P!Changed
    <3>2. AskIsTrue(k)
      BY DEF ConnectionsInv
    <3>3. k.kind = "save" <=> k.ends = "save"
      BY <3>1, <3>2 DEF AskIsTrue
    <3>4. k.ends \notin {"test", "lifecycle"}
      BY <3>1, <3>2 DEF AskIsTrue
    <3>5. /\ Marked(asks', "save", saving /\ k.ends # "save")
          /\ Marked(asks', "test", testing /\ k.ends # "test")
          /\ Marked(asks', "lifecycle", busyId # P!None /\ k.ends # "lifecycle")
      BY <3>1 DEF ConnectionsInv, Marked
    <3>6. Marked(asks', "save", saving')
      BY <2>3, <3>3, <3>5
    <3>7. Marked(asks', "test", testing) /\ Marked(asks', "lifecycle", busyId # P!None)
      BY <3>4, <3>5 DEF Marked
    <3> QED
      BY <2>1, <2>3, <3>1, <3>6, <3>7 DEF ConnectionsInv
  <2> QED
    BY <1>11, <2>2, <2>3 DEF P!Changed
<1> QED
  BY <1>1, <1>2, <1>3, <1>4, <1>5, <1>6, <1>7, <1>8, <1>9, <1>10, <1>11 DEF P!Next

\* The invariant says what the run asks of the page.
LEMMA ConnectionsAreTrue == ConnectionsInv => P!LifecycleIsTrue
<1> SUFFICES ASSUME ConnectionsInv
             PROVE  P!LifecycleIsTrue
  OBVIOUS
<1>1. P!OneLifecycleAtATime
  <2> DEFINE b == busyId # P!None
  <2>0. Marked(asks, "lifecycle", b) /\ b \in BOOLEAN
    BY DEF ConnectionsInv
  <2> HIDE DEF b
  <2> DEFINE L == {k \in asks : k.ends = "lifecycle"}
  <2>1. Cardinality(L) = (IF b THEN 1 ELSE 0)
    BY <2>0, MarkedCounts
  <2>2. P!Cardinality(L) = Cardinality(L)
    BY DEF P!Cardinality, Cardinality
  <2> QED
    BY <2>1, <2>2 DEF P!OneLifecycleAtATime, P!Running, ConnectionsInv, b
<1>2. P!SecretFollowsItsPrompt
  BY DEF P!SecretFollowsItsPrompt, ConnectionsInv, AskIsTrue
<1>3. P!FormWaits
  <2> DEFINE F == {k \in asks : k.ends = "save"} \cup {k \in asks : k.ends = "test"}
  <2>1. One(F, saving \/ testing)
    BY DEF ConnectionsInv, Marked, One
  <2>2. Cardinality(F) = (IF saving \/ testing THEN 1 ELSE 0)
    BY <2>1, OneIsCounted DEF ConnectionsInv
  <2>3. P!Cardinality(F) = Cardinality(F)
    BY DEF P!Cardinality, Cardinality
  <2> QED
    BY <2>2, <2>3 DEF P!FormWaits, P!Running, ConnectionsInv
<1> QED
  BY <1>1, <1>2, <1>3 DEF P!LifecycleIsTrue

-----------------------------------------------------------------------------
(* The pages of databases and schemas *)

Changes == {"create", "rename", "drop"}
DbFields == {"kind", "conn", "db", "of", "typed", "ends", "n"}
\* Of one call: its end is the one of its kind, and a drop is of what was typed.
DbCallIsTrue(k) ==
    /\ DbFields \subseteq DOMAIN k
    /\ k.kind \in Changes => k.ends = k.kind
    /\ k.kind \in {"list", "status"} => k.ends = "load"
    /\ k.kind = "navigate" => k.ends = "drop"
    /\ k.ends = "drop" => k.typed = k.of
\* The dialog a change was sent from is still open on it.
DbWaits(k) ==
    /\ k.kind = "create" => createOpen
    /\ k.kind = "rename" => renamed = k.of /\ renamed # D!None
    /\ k.kind = "drop" => /\ dropped \in {k.of, D!Here}
                          /\ dbKind = "schema" => dropped # D!None
DatabasesInv ==
    /\ \A k \in dbCalls : DbCallIsTrue(k) /\ DbWaits(k)
    /\ dbKind \in {"database", "schema"}
    /\ creating \in BOOLEAN /\ renaming \in BOOLEAN /\ removing \in BOOLEAN
    /\ Marked(dbCalls, "create", creating)
    /\ Marked(dbCalls, "rename", renaming)
    /\ Marked(dbCalls, "drop", removing)

\* What becomes of the end e when the other calls are `rest`: another call, or its mark goes.
Follows(rest, e) ==
    \/ /\ \E d : /\ dbCalls' = rest \cup {d} /\ DbCallIsTrue(d)
                 /\ d.kind \notin Changes /\ d.ends = e
       /\ UNCHANGED <<creating, renaming, removing>>
    \/ dbCalls' = rest /\ D!Over(e)

\* A call that only reads follows.
LEMMA PlainFollows ==
  ASSUME NEW rest, NEW kind, NEW c, NEW nm, NEW e,
         kind \in {"list", "rows", "options"}, kind # "list" \/ e = "load",
         dbCalls' = rest \cup {D!Plain(kind, c, nm, e)},
         UNCHANGED <<creating, renaming, removing>>
  PROVE  Follows(rest, e)
<1> DEFINE d == D!Plain(kind, c, nm, e)
<1>1. /\ DbFields \subseteq DOMAIN d
      /\ d.kind = kind /\ d.of = D!None /\ d.typed = D!None /\ d.ends = e
  BY ONLY DEF D!Plain, D!Sent, DbFields
<1>2. dbCalls' = rest \cup {d}
  OBVIOUS
<1> HIDE DEF d
<1>3. DbCallIsTrue(d) /\ d.kind \notin Changes
  BY <1>1 DEF DbCallIsTrue, Changes
<1> QED
  BY <1>1, <1>2, <1>3 DEF Follows

\* A call that goes on with its end follows.
LEMMA CallFollows ==
  ASSUME NEW rest, NEW k, DbCallIsTrue(k),
         NEW kind \in {"status", "navigate"},
         kind = "status" => k.kind = "list", kind = "navigate" => k.kind = "drop",
         dbCalls' = rest \cup {[k EXCEPT !.kind = kind]},
         UNCHANGED <<creating, renaming, removing>>
  PROVE  Follows(rest, k.ends)
<1> DEFINE d == [k EXCEPT !.kind = kind]
<1>1. /\ DbFields \subseteq DOMAIN d
      /\ d.kind = kind /\ d.of = k.of /\ d.typed = k.typed /\ d.ends = k.ends
  BY DEF DbCallIsTrue, DbFields
<1>2. dbCalls' = rest \cup {d}
  OBVIOUS
<1> HIDE DEF d
<1>3. DbCallIsTrue(d) /\ d.kind \notin Changes
  BY <1>1 DEF DbCallIsTrue, Changes
<1> QED
  BY <1>1, <1>2, <1>3 DEF Follows

\* A read of the rows or of the options follows whatever end it is given.
LEMMA RowsOrOptions ==
  ASSUME NEW rest, NEW kind \in {"rows", "options"}, NEW c, NEW nm, NEW e,
         dbCalls' = rest \cup {D!Plain(kind, c, nm, e)},
         UNCHANGED <<creating, renaming, removing>>
  PROVE  Follows(rest, e)
BY PlainFollows

\* What load does last follows: it asks for the options of an open drop dialog, or is over.
LEMMA SettledFollows ==
  ASSUME NEW rest, NEW c, NEW e, D!Settled(rest, c, e)
  PROVE  Follows(rest, e)
<1>1. \/ /\ dbCalls' = rest \cup {D!Plain("options", c, D!None, e)}
         /\ UNCHANGED <<creating, renaming, removing>>
      \/ dbCalls' = rest /\ D!Over(e)
  BY DEF D!Settled, D!marks
<1>2. CASE /\ dbCalls' = rest \cup {D!Plain("options", c, D!None, e)}
           /\ UNCHANGED <<creating, renaming, removing>>
  BY <1>2, RowsOrOptions
<1> QED
  BY <1>1, <1>2 DEF Follows

\* loadDatabase and loadSchemas, with what load does after them, follow.
LEMMA RowsFollow ==
  ASSUME NEW rest, NEW c, NEW nm, NEW e, D!LoadRows(rest, c, nm, e)
  PROVE  Follows(rest, e)
<1>1. \/ /\ dbCalls' = rest \cup {D!Plain("rows", c, nm, e)}
         /\ UNCHANGED <<creating, renaming, removing>>
      \/ D!Settled(rest, c, e)
  BY DEF D!LoadRows, D!marks
<1>2. CASE /\ dbCalls' = rest \cup {D!Plain("rows", c, nm, e)}
           /\ UNCHANGED <<creating, renaming, removing>>
  BY <1>2, RowsOrOptions
<1> QED
  BY <1>1, <1>2, SettledFollows

\* A step that leaves calls and marks alone.
LEMMA DatabasesKept ==
  ASSUME DatabasesInv, UNCHANGED <<dbCalls, creating, renaming, removing, dbKind>>,
         \A k \in dbCalls : DbWaits(k)'
  PROVE  DatabasesInv'
BY DEF DatabasesInv

\* A step that asks for something which ends no change.
LEMMA DatabasesAsked ==
  ASSUME DatabasesInv, NEW e \in {"", "load"}, Follows(dbCalls, e), UNCHANGED dbKind,
         \A k \in dbCalls : DbWaits(k)'
  PROVE  DatabasesInv'
<1>1. CASE dbCalls' = dbCalls /\ D!Over(e)
  <2>1. UNCHANGED <<creating, renaming, removing>>
    BY <1>1 DEF D!Over, DatabasesInv
  <2> QED
    BY <1>1, <2>1, DatabasesKept
<1>2. ASSUME NEW d, dbCalls' = dbCalls \cup {d}, DbCallIsTrue(d), d.kind \notin Changes, d.ends = e,
             UNCHANGED <<creating, renaming, removing>>
      PROVE  DatabasesInv'
  <2>1. DbWaits(d)'
    BY <1>2 DEF DbWaits, Changes
  <2>2. /\ Marked(dbCalls', "create", creating) /\ Marked(dbCalls', "rename", renaming)
        /\ Marked(dbCalls', "drop", removing)
    BY <1>2 DEF DatabasesInv, Marked
  <2> QED
    BY <1>2, <2>1, <2>2 DEF DatabasesInv
<1> QED
  BY <1>1, <1>2 DEF Follows

\* An answer, after which its end goes on or is over.
LEMMA DatabasesAnswered ==
  ASSUME DatabasesInv, NEW k \in dbCalls, Follows(dbCalls \ {k}, k.ends), UNCHANGED dbKind,
         \A j \in dbCalls \ {k} : DbWaits(j)'
  PROVE  DatabasesInv'
<1>1. CASE dbCalls' = dbCalls \ {k} /\ D!Over(k.ends)
  <2>1. /\ creating' = (creating /\ k.ends # "create")
        /\ renaming' = (renaming /\ k.ends # "rename")
        /\ removing' = (removing /\ k.ends # "drop")
    BY <1>1 DEF D!Over
  <2>2. /\ Marked(dbCalls', "create", creating') /\ Marked(dbCalls', "rename", renaming')
        /\ Marked(dbCalls', "drop", removing')
    BY <1>1, <2>1, MarkedOver DEF DatabasesInv
  <2> QED
    BY <1>1, <2>1, <2>2 DEF DatabasesInv
<1>2. ASSUME NEW d, dbCalls' = (dbCalls \ {k}) \cup {d}, DbCallIsTrue(d), d.kind \notin Changes,
             d.ends = k.ends, UNCHANGED <<creating, renaming, removing>>
      PROVE  DatabasesInv'
  <2>1. DbWaits(d)'
    BY <1>2 DEF DbWaits, Changes
  <2>2. /\ Marked(dbCalls', "create", creating) /\ Marked(dbCalls', "rename", renaming)
        /\ Marked(dbCalls', "drop", removing)
    BY <1>2, MarkedThen DEF DatabasesInv
  <2> QED
    BY <1>2, <2>1, <2>2 DEF DatabasesInv
<1> QED
  BY <1>1, <1>2 DEF Follows

\* A change is sent from its dialog, which waits for it.
LEMMA ChangeSent ==
  ASSUME DatabasesInv, NEW e \in Changes, NEW o, NEW t,
         dbCalls' = dbCalls \cup {D!Sent(e, dbConn, dbName, o, t, e)},
         e = "create" => ~creating, e = "rename" => ~renaming, e = "drop" => ~removing,
         creating' = (creating \/ e = "create"), renaming' = (renaming \/ e = "rename"),
         removing' = (removing \/ e = "drop"),
         UNCHANGED <<createOpen, renamed, dropped, dbKind>>,
         e = "create" => createOpen,
         e = "rename" => renamed = o /\ renamed # D!None,
         e = "drop" => t = o /\ dropped \in {o, D!Here} /\ dropped # D!None
  PROVE  DatabasesInv'
<1> DEFINE f == D!Sent(e, dbConn, dbName, o, t, e)
<1>1. /\ DbFields \subseteq DOMAIN f
      /\ f.kind = e /\ f.of = o /\ f.typed = t /\ f.ends = e
  BY ONLY DEF D!Sent, DbFields
<1> HIDE DEF f
<1>2. PICK d : /\ dbCalls' = dbCalls \cup {d} /\ DbFields \subseteq DOMAIN d
               /\ d.kind = e /\ d.of = o /\ d.typed = t /\ d.ends = e
  BY <1>1 DEF f
<1>3. DbCallIsTrue(d) /\ DbWaits(d)'
  BY <1>2 DEF DbCallIsTrue, DbWaits, Changes
<1>4. Marked(dbCalls', "create", creating')
  <2>1. Marked(dbCalls, "create", creating)
    BY DEF DatabasesInv
  <2> QED
    BY <1>2, <2>1 DEF Marked
<1>5. Marked(dbCalls', "rename", renaming')
  <2>1. Marked(dbCalls, "rename", renaming)
    BY DEF DatabasesInv
  <2> QED
    BY <1>2, <2>1 DEF Marked
<1>6. Marked(dbCalls', "drop", removing')
  <2>1. Marked(dbCalls, "drop", removing)
    BY DEF DatabasesInv
  <2> QED
    BY <1>2, <2>1 DEF Marked
<1>7. \A k \in dbCalls : DbWaits(k)'
  BY DEF DatabasesInv, DbWaits
<1> QED
  BY <1>2, <1>3, <1>4, <1>5, <1>6, <1>7 DEF DatabasesInv

\* The page opens with its load under way.
LEMMA InitDatabases == D!Init => DatabasesInv
<1> SUFFICES ASSUME D!Init
             PROVE  DatabasesInv
  OBVIOUS
<1> DEFINE d == [kind |-> "list", conn |-> D!None, db |-> D!None, of |-> D!None,
                 typed |-> D!None, ends |-> "load", n |-> 0]
<1>1. dbCalls = {d} /\ creating = FALSE /\ renaming = FALSE /\ removing = FALSE
  BY DEF D!Init
<1>2. DbFields \subseteq DOMAIN d /\ d.kind = "list" /\ d.ends = "load"
  BY DEF DbFields
<1>3. dbKind \in {"database", "schema"}
  BY DEF D!Init
<1> HIDE DEF d
<1> QED
  BY <1>1, <1>2, <1>3 DEF DatabasesInv, DbCallIsTrue, DbWaits, Changes, Marked

\* What the marks say of the calls that wait.
LEMMA ChangeIsMarked ==
  ASSUME DatabasesInv, NEW k \in dbCalls
  PROVE  /\ k.kind = "create" => creating
         /\ k.kind = "rename" => renaming
         /\ k.kind = "drop" => removing
BY DEF DatabasesInv, DbCallIsTrue, Marked, Changes

\* Every step of the pages keeps their changes apart and their dialogs open.
LEMMA NextDatabases == DatabasesInv /\ [D!Next]_(D!vars) => DatabasesInv'
<1> SUFFICES ASSUME DatabasesInv, [D!Next]_(D!vars)
             PROVE  DatabasesInv'
  OBVIOUS
<1>w. \A k \in dbCalls : DbWaits(k)
  BY DEF DatabasesInv
<1>1. CASE UNCHANGED D!vars
  <2>1. UNCHANGED <<dbCalls, creating, renaming, removing, createOpen, renamed, dropped, dbKind>>
    BY <1>1 DEF D!vars, D!marks, D!dialogs, D!route
  <2> QED
    BY <2>1, <1>w, DatabasesKept DEF DbWaits
<1>2. ASSUME NEW c \in Saved \cup {D!None}, NEW nm \in Databases \cup {D!None},
             NEW opens \in BOOLEAN, D!configure(c, nm, opens)
      PROVE  DatabasesInv'
  <2>1. /\ dbCalls' = dbCalls \cup {D!Plain("list", D!None, D!None, "load")}
        /\ UNCHANGED <<creating, renaming, removing, createOpen, renamed, dbKind>>
        /\ \/ dropped' = dropped
           \/ dropped' = D!Here /\ dbKind = "database"
    BY <1>2 DEF D!configure
  <2>2. Follows(dbCalls, "load")
    BY <2>1, PlainFollows
  <2>3. \A k \in dbCalls : DbWaits(k)'
    BY <2>1, <1>w DEF DbWaits
  <2> QED
    BY <2>1, <2>2, <2>3, DatabasesAsked
<1>3. CASE D!refresh
  <2>1. UNCHANGED <<createOpen, renamed, dropped, dbKind>>
    BY <1>3 DEF D!refresh, D!dialogs, D!route
  <2>2. \/ /\ dbCalls' = dbCalls \cup {D!Plain("list", D!None, D!None, "load")}
           /\ UNCHANGED <<creating, renaming, removing>>
        \/ D!LoadRows(dbCalls, dbConn, dbName, "")
    BY <1>3 DEF D!refresh
  <2>3. \E e \in {"", "load"} : Follows(dbCalls, e)
    <3>1. CASE /\ dbCalls' = dbCalls \cup {D!Plain("list", D!None, D!None, "load")}
               /\ UNCHANGED <<creating, renaming, removing>>
      <4>1. Follows(dbCalls, "load")
        BY <3>1, PlainFollows
      <4> QED
        BY <4>1
    <3>2. CASE D!LoadRows(dbCalls, dbConn, dbName, "")
      <4>1. Follows(dbCalls, "")
        BY <3>2, RowsFollow
      <4> QED
        BY <4>1
    <3> QED
      BY <2>2, <3>1, <3>2
  <2> QED
    BY <2>1, <2>3, <1>w, DatabasesAsked DEF DbWaits
<1>4. ASSUME NEW c \in Saved, D!onConnectionChange(c)
      PROVE  DatabasesInv'
  <2>1. UNCHANGED <<createOpen, renamed, dropped, dbKind>>
    BY <1>4 DEF D!onConnectionChange, D!dialogs
  <2>2. \/ /\ dbCalls' = dbCalls \cup {D!Plain("rows", c, dbName, "")}
           /\ UNCHANGED <<creating, renaming, removing>>
        \/ D!LoadRows(dbCalls, c, dbName, "")
    BY <1>4 DEF D!onConnectionChange, D!marks
  <2>3. Follows(dbCalls, "")
    <3>1. CASE /\ dbCalls' = dbCalls \cup {D!Plain("rows", c, dbName, "")}
               /\ UNCHANGED <<creating, renaming, removing>>
      BY <3>1, RowsOrOptions
    <3> QED
      BY <2>2, <3>1, RowsFollow
  <2> QED
    BY <2>1, <2>3, <1>w, DatabasesAsked DEF DbWaits
<1>5. CASE D!openCreate
  <2>1. UNCHANGED <<creating, renaming, removing, renamed, dropped, dbKind>> /\ createOpen'
    BY <1>5 DEF D!openCreate, D!marks, D!route
  <2>2. \/ dbCalls' = dbCalls \cup {D!Plain("options", dbConn, D!None, "")}
        \/ dbCalls' = dbCalls
    BY <1>5 DEF D!openCreate
  <2>3. \A k \in dbCalls : DbWaits(k)'
    BY <2>1, <1>w DEF DbWaits
  <2>4. CASE dbCalls' = dbCalls
    BY <2>1, <2>3, <2>4, DatabasesKept
  <2>5. CASE dbCalls' = dbCalls \cup {D!Plain("options", dbConn, D!None, "")}
    <3>1. Follows(dbCalls, "")
      BY <2>1, <2>5, RowsOrOptions
    <3> QED
      BY <2>1, <3>1, <2>3, DatabasesAsked
  <2> QED
    BY <2>2, <2>4, <2>5
<1>6. ASSUME D!closeCreate \/ D!closeRename \/ D!closeDrop
      PROVE  DatabasesInv'
  <2>1. UNCHANGED <<dbCalls, creating, renaming, removing, dbKind>>
    BY <1>6 DEF D!closeCreate, D!closeRename, D!closeDrop, D!marks, D!route
  <2>2. /\ createOpen' = createOpen \/ ~creating
        /\ renamed' = renamed \/ ~renaming
        /\ dropped' = dropped \/ ~removing
    BY <1>6 DEF D!closeCreate, D!closeRename, D!closeDrop, D!mayClose
  <2>3. \A k \in dbCalls : DbWaits(k)'
    BY <2>1, <2>2, <1>w, ChangeIsMarked DEF DbWaits
  <2> QED
    BY <2>1, <2>3, DatabasesKept
<1>7. ASSUME NEW o, D!openRename(o)
      PROVE  DatabasesInv'
  <2>1. /\ UNCHANGED <<dbCalls, creating, renaming, removing, createOpen, dropped, dbKind>>
        /\ renamed = D!None
    BY <1>7 DEF D!openRename, D!marks, D!route, D!Body, D!Covered
  <2>2. \A k \in dbCalls : DbWaits(k)'
    BY <2>1, <1>w DEF DbWaits
  <2> QED
    BY <2>1, <2>2, DatabasesKept
<1>8. ASSUME NEW o, D!openDrop(o)
      PROVE  DatabasesInv'
  <2>1. /\ UNCHANGED <<dbCalls, creating, renaming, removing, createOpen, renamed, dbKind>>
        /\ dbKind = "database" => dropped' = D!Here
        /\ dbKind # "database" => dropped = D!None
    BY <1>8 DEF D!openDrop, D!marks, D!route, D!Body, D!Covered, D!Shown
  <2>2. dbKind \in {"database", "schema"}
    BY DEF DatabasesInv
  <2>3. \A k \in dbCalls : DbWaits(k)'
    BY <2>1, <2>2, <1>w DEF DbWaits
  <2> QED
    BY <2>1, <2>3, DatabasesKept
<1>9. ASSUME NEW o, D!onInput(o)
      PROVE  DatabasesInv'
  <2>1. UNCHANGED <<dbCalls, creating, renaming, removing, createOpen, renamed, dropped, dbKind>>
    BY <1>9 DEF D!onInput, D!marks, D!route
  <2> QED
    BY <2>1, <1>w, DatabasesKept DEF DbWaits
<1>10. CASE D!create
  <2>1. /\ createOpen /\ creating = FALSE /\ creating' = TRUE
        /\ UNCHANGED <<createOpen, renamed, dropped, dbKind, renaming, removing>>
        /\ dbCalls' = dbCalls \cup {D!Sent("create", dbConn, dbName, D!None, D!None, "create")}
    BY <1>10 DEF D!create, D!dialogs, D!route, D!Plain, DatabasesInv
  <2>2. renaming \in BOOLEAN /\ removing \in BOOLEAN /\ "create" \in Changes
    BY DEF DatabasesInv, Changes
  <2>3. /\ creating' = (creating \/ "create" = "create")
        /\ renaming' = (renaming \/ "create" = "rename")
        /\ removing' = (removing \/ "create" = "drop")
    BY <2>1, <2>2
  <2> QED
    BY <2>1, <2>2, <2>3, ChangeSent
<1>11. CASE D!renameSchema
  <2>1. /\ renamed # D!None /\ renaming = FALSE /\ renaming' = TRUE
        /\ UNCHANGED <<createOpen, renamed, dropped, dbKind, creating, removing>>
        /\ dbCalls' = dbCalls \cup {D!Sent("rename", dbConn, dbName, renamed, D!None, "rename")}
    BY <1>11 DEF D!renameSchema, D!dialogs, D!route, DatabasesInv
  <2>2. creating \in BOOLEAN /\ removing \in BOOLEAN /\ "rename" \in Changes
    BY DEF DatabasesInv, Changes
  <2>3. /\ creating' = (creating \/ "rename" = "create")
        /\ renaming' = (renaming \/ "rename" = "rename")
        /\ removing' = (removing \/ "rename" = "drop")
    BY <2>1, <2>2
  <2> QED
    BY <2>1, <2>2, <2>3, ChangeSent
<1>12. CASE D!dropDatabase
  <2>1. /\ dropped # D!None /\ removing = FALSE /\ removing' = TRUE /\ typed = D!Target
        /\ UNCHANGED <<createOpen, renamed, dropped, dbKind, creating, renaming>>
        /\ dbCalls' = dbCalls \cup {D!Sent("drop", dbConn, dbName, D!Target, typed, "drop")}
    BY <1>12 DEF D!dropDatabase, D!dialogs, D!route, D!Shown, D!canConfirm, DatabasesInv
  <2>2. creating \in BOOLEAN /\ renaming \in BOOLEAN /\ "drop" \in Changes
    BY DEF DatabasesInv, Changes
  <2>3. /\ creating' = (creating \/ "drop" = "create")
        /\ renaming' = (renaming \/ "drop" = "rename")
        /\ removing' = (removing \/ "drop" = "drop")
    BY <2>1, <2>2
  <2>4. dropped \in {D!Target, D!Here}
    BY DEF D!Target
  <2> QED
    BY <2>1, <2>2, <2>3, <2>4, ChangeSent
<1>13. ASSUME NEW k \in dbCalls, D!Listed(k) \/ D!Refreshed(k) \/ D!Answered(k) \/ D!Options(k)
                                 \/ D!Navigated(k)
       PROVE  DatabasesInv'
  <2>1. UNCHANGED <<createOpen, renamed, dropped, dbKind>>
    BY <1>13 DEF D!Listed, D!Refreshed, D!Answered, D!Options, D!Navigated, D!dialogs, D!route
  <2>2. DbCallIsTrue(k)
    BY DEF DatabasesInv
  <2>3. Follows(dbCalls \ {k}, k.ends)
    <3>1. CASE D!Listed(k)
      <4>1. k.kind = "list" /\ k.ends = "load"
        BY <3>1, <2>2 DEF D!Listed, DbCallIsTrue
      <4>2. \/ /\ dbCalls' = (dbCalls \ {k}) \cup {[k EXCEPT !.kind = "status"]}
               /\ UNCHANGED <<creating, renaming, removing>>
            \/ D!LoadRows(dbCalls \ {k}, dbConn', dbName, "load")
            \/ dbCalls' = dbCalls \ {k} /\ D!Over("load")
        BY <3>1 DEF D!Listed, D!Rest, D!marks
      <4>3. CASE /\ dbCalls' = (dbCalls \ {k}) \cup {[k EXCEPT !.kind = "status"]}
                 /\ UNCHANGED <<creating, renaming, removing>>
        BY <4>1, <4>3, <2>2, CallFollows
      <4>4. CASE D!LoadRows(dbCalls \ {k}, dbConn', dbName, "load")
        BY <4>1, <4>4, RowsFollow
      <4>5. CASE dbCalls' = dbCalls \ {k} /\ D!Over("load")
        BY <4>1, <4>5 DEF Follows
      <4> QED
        BY <4>2, <4>3, <4>4, <4>5
    <3>2. CASE D!Refreshed(k)
      <4>1. k.ends = "load"
        BY <3>2, <2>2 DEF D!Refreshed, DbCallIsTrue
      <4>2. \/ /\ dbCalls' = (dbCalls \ {k}) \cup {D!Plain("rows", dbConn', dbName, "load")}
               /\ UNCHANGED <<creating, renaming, removing>>
            \/ dbCalls' = dbCalls \ {k} /\ D!Over("load")
        BY <3>2 DEF D!Refreshed, D!Rest, D!marks
      <4>3. CASE /\ dbCalls' = (dbCalls \ {k}) \cup {D!Plain("rows", dbConn', dbName, "load")}
                 /\ UNCHANGED <<creating, renaming, removing>>
        <5>1. Follows(dbCalls \ {k}, "load")
          BY <4>3, RowsOrOptions
        <5> QED
          BY <5>1, <4>1
      <4> QED
        BY <4>1, <4>2, <4>3 DEF Follows
    <3>3. CASE D!Answered(k)
      <4>1. D!Settled(dbCalls \ {k}, k.conn, k.ends)
        BY <3>3 DEF D!Answered, D!Rest
      <4> QED
        BY <4>1, SettledFollows
    <3>4. CASE D!Options(k) \/ D!Navigated(k)
      BY <3>4 DEF D!Options, D!Navigated, D!Rest, Follows
    <3> QED
      BY <1>13, <3>1, <3>2, <3>3, <3>4
  <2>4. \A j \in dbCalls \ {k} : DbWaits(j)'
    BY <2>1, <1>w DEF DbWaits
  <2> QED
    BY <2>1, <2>3, <2>4, DatabasesAnswered
<1>14. ASSUME NEW k \in dbCalls, D!Changed(k)
       PROVE  DatabasesInv'
  <2>1. DbCallIsTrue(k) /\ k.kind \in Changes /\ UNCHANGED dbKind
    BY <1>14 DEF D!Changed, D!route, DatabasesInv, Changes
  <2>2. Follows(dbCalls \ {k}, k.ends)
    <3>1. \/ /\ k.kind = "drop"
             /\ dbCalls' = (dbCalls \ {k}) \cup {[k EXCEPT !.kind = "navigate"]}
             /\ UNCHANGED <<creating, renaming, removing>>
          \/ D!LoadRows(dbCalls \ {k}, dbConn, dbName, k.ends)
          \/ dbCalls' = dbCalls \ {k} /\ D!Over(k.ends)
      BY <1>14 DEF D!Changed, D!Rest, D!marks
    <3>2. CASE /\ k.kind = "drop"
               /\ dbCalls' = (dbCalls \ {k}) \cup {[k EXCEPT !.kind = "navigate"]}
               /\ UNCHANGED <<creating, renaming, removing>>
      BY <2>1, <3>2, CallFollows
    <3>3. CASE D!LoadRows(dbCalls \ {k}, dbConn, dbName, k.ends)
      BY <3>3, RowsFollow
    <3> QED
      BY <3>1, <3>2, <3>3 DEF Follows
  <2>3. \A j \in dbCalls \ {k} : j.kind # k.kind
    BY <2>1 DEF DatabasesInv, DbCallIsTrue, Marked, Changes
  <2>4. /\ createOpen => createOpen' \/ k.kind = "create"
        /\ renamed' = renamed \/ k.kind = "rename"
        /\ dropped' = dropped \/ k.kind = "drop"
    <3>1. CASE UNCHANGED D!dialogs
      BY <3>1 DEF D!dialogs
    <3>2. CASE /\ createOpen' = (createOpen /\ k.kind # "create")
               /\ renamed' = IF k.kind = "rename" THEN D!None ELSE renamed
               /\ dropped' = IF k.kind = "drop" THEN D!None ELSE dropped
      BY <3>2, <2>1 DEF Changes
    <3> QED
      BY <1>14, <3>1, <3>2 DEF D!Changed
  <2>5. \A j \in dbCalls \ {k} : DbWaits(j)'
    BY <2>1, <2>3, <2>4, <1>w DEF DbWaits
  <2> QED
    BY <2>1, <2>2, <2>5, DatabasesAnswered
<1> QED
  BY <1>1, <1>2, <1>3, <1>4, <1>5, <1>6, <1>7, <1>8, <1>9, <1>10, <1>11, <1>12, <1>13, <1>14
  DEF D!Next

\* The invariant says what the run asks of the pages.
LEMMA DatabasesAreTrue == DatabasesInv => D!DialogsAreTrue
<1> SUFFICES ASSUME DatabasesInv
             PROVE  D!DialogsAreTrue
  OBVIOUS
<1>1. ASSUME NEW e, NEW b \in BOOLEAN, Marked(dbCalls, e, b)
      PROVE  D!One(e, b)
  <2>1. Cardinality({k \in dbCalls : k.ends = e}) = (IF b THEN 1 ELSE 0)
    BY <1>1, MarkedCounts
  <2>2. D!Cardinality({k \in dbCalls : k.ends = e}) = Cardinality({k \in dbCalls : k.ends = e})
    BY DEF D!Cardinality, Cardinality
  <2> QED
    BY <2>1, <2>2 DEF D!One, D!Running
<1>2. D!OneMutationEach
  BY <1>1 DEF D!OneMutationEach, DatabasesInv
<1>3. D!DialogWaits
  BY DEF D!DialogWaits, DatabasesInv, DbWaits
<1>4. D!DropsWhatWasTyped
  BY DEF D!DropsWhatWasTyped, D!Running, DatabasesInv, DbCallIsTrue
<1> QED
  BY <1>2, <1>3, <1>4 DEF D!DialogsAreTrue

-----------------------------------------------------------------------------
(* The page of users *)

UserFields == {"kind", "of", "ends", "n"}
\* Of one call: a change ends itself, and goes on as the list that is loaded after it.
UserCallIsTrue(k) ==
    /\ UserFields \subseteq DOMAIN k /\ k.ends \in BOOLEAN
    /\ k.kind = "change" => k.ends = TRUE
\* What was sent is not pending any more once its change was answered; the users are those
\* of the page whenever no load is under way and the last one did not fail.
UsersInv ==
    /\ \A k \in userCalls : UserCallIsTrue(k)
    /\ submitting \in BOOLEAN /\ Marked(userCalls, TRUE, submitting)
    /\ userActs \in Nat /\ asked \subseteq 1 .. userActs /\ pending \in 0 .. userActs
    /\ pending \in asked => \E k \in userCalls : k.kind = "change"
    /\ users # 0 /\ ~fetching /\ ~loadFailed => users = page

\* What a load that is sent says.
LEMMA LoadSent ==
  ASSUME NEW p, NEW b \in BOOLEAN
  PROVE  LET d == U!Load(p, b)
         IN  UserCallIsTrue(d) /\ d.kind = "list" /\ d.ends = b
BY DEF U!Load, UserCallIsTrue, UserFields

\* The page opens with its load under way.
LEMMA InitUsers == U!Init => UsersInv
<1> SUFFICES ASSUME U!Init
             PROVE  UsersInv
  OBVIOUS
<1> DEFINE d == [kind |-> "list", of |-> 1, ends |-> FALSE, n |-> 0]
<1>1. /\ userCalls = {d} /\ submitting = FALSE /\ userActs = 0 /\ asked = {} /\ pending = 0
      /\ users = 0
  BY DEF U!Init
<1>2. UserCallIsTrue(d) /\ d.ends = FALSE
  BY DEF UserCallIsTrue, UserFields
<1> HIDE DEF d
<1>3. \A k \in userCalls : UserCallIsTrue(k)
  BY <1>1, <1>2
<1>4. Marked(userCalls, TRUE, submitting)
  BY <1>1, <1>2 DEF Marked
<1>5. userActs \in Nat /\ asked \subseteq 1 .. userActs /\ pending \in 0 .. userActs
  BY <1>1
<1> QED
  BY <1>1, <1>3, <1>4, <1>5 DEF UsersInv

\* A step of the user that sends nothing, and what it asks for anew was never sent.
LEMMA UsersKept ==
  ASSUME UsersInv, UNCHANGED <<userCalls, submitting, asked, users, fetching, loadFailed, page>>,
         userActs' \in {userActs, userActs + 1}, pending' \in {pending, userActs'},
         pending' = pending \/ userActs' = userActs + 1
  PROVE  UsersInv'
<1>1. userActs \in Nat /\ asked \subseteq 1 .. userActs /\ pending \in 0 .. userActs
  BY DEF UsersInv
<1>2. userActs' \in Nat /\ asked \subseteq 1 .. userActs' /\ pending' \in 0 .. userActs'
  BY <1>1
<1>3. pending' # pending => pending' \notin asked
  BY <1>1
<1> QED
  BY <1>2, <1>3 DEF UsersInv

\* A step that loads the directory, beside the calls under way.
LEMMA UsersLoaded ==
  ASSUME UsersInv, UNCHANGED <<submitting, asked>>, NEW p, U!loadUsers(p, userCalls, FALSE),
         userActs' = userActs + 1, pending' \in {pending, 0}
  PROVE  UsersInv'
<1> DEFINE f == U!Load(p, FALSE)
<1>1. UserCallIsTrue(f) /\ f.kind = "list" /\ f.ends = FALSE
  BY ONLY LoadSent
<1>2. userCalls' = userCalls \cup {f} /\ fetching' = TRUE
  BY DEF U!loadUsers
<1> HIDE DEF f
<1>3. Marked(userCalls', TRUE, submitting)
  BY <1>1, <1>2 DEF UsersInv, Marked
<1>4. /\ userActs' \in Nat /\ asked \subseteq 1 .. userActs' /\ pending' \in 0 .. userActs'
      /\ 0 \notin asked
  BY DEF UsersInv
<1>5. PICK d : userCalls' = userCalls \cup {d} /\ UserCallIsTrue(d)
  BY <1>1, <1>2
<1> QED
  BY <1>2, <1>3, <1>4, <1>5 DEF UsersInv

\* Every step of the page keeps its changes apart.
LEMMA NextUsers == UsersInv /\ [U!Next]_(U!vars) => UsersInv'
<1> SUFFICES ASSUME UsersInv, [U!Next]_(U!vars)
             PROVE  UsersInv'
  OBVIOUS
<1>1. CASE UNCHANGED U!vars
  BY <1>1, UsersKept DEF U!vars
<1>2. ASSUME \/ U!openCreateDialog \/ U!requestReset \/ U!cancelDialog \/ U!confirmNothing
             \/ U!submitForm \/ U!requestRoleChange \/ U!requestStatusChange
      PROVE  UsersInv'
  <2>1. /\ UNCHANGED <<userCalls, submitting, asked, users, fetching, loadFailed, page>>
        /\ userActs' = userActs + 1 /\ pending' \in {pending, userActs'}
    BY <1>2 DEF U!openCreateDialog, U!requestReset, U!cancelDialog, U!confirmNothing,
                U!submitForm, U!requestRoleChange, U!requestStatusChange, U!Act, U!Ask
  <2> QED
    BY <2>1, UsersKept
<1>3. ASSUME U!tryAgain \/ U!cancelMutation \/ \E p \in Pages : U!pageChange(p)
      PROVE  UsersInv'
  <2>1. /\ UNCHANGED <<submitting, asked>> /\ userActs' = userActs + 1
        /\ pending' \in {pending, 0} /\ \E p : U!loadUsers(p, userCalls, FALSE)
    BY <1>3 DEF U!tryAgain, U!cancelMutation, U!pageChange, U!Act
  <2> QED
    BY <2>1, UsersLoaded
<1>4. CASE U!confirmMutation
  <2> DEFINE f == [kind |-> "change", of |-> pending, ends |-> TRUE, n |-> userActs]
  <2>1. /\ userCalls' = userCalls \cup {f} /\ submitting = FALSE /\ submitting' = TRUE
        /\ asked' = asked \cup {pending} /\ pending # 0 /\ userActs' = userActs + 1
        /\ UNCHANGED <<users, fetching, loadFailed, page, pending>>
    BY <1>4 DEF U!confirmMutation, U!mayConfirm, U!Act, UsersInv
  <2>2. UserCallIsTrue(f) /\ f.kind = "change" /\ f.ends = TRUE
    BY DEF UserCallIsTrue, UserFields
  <2> HIDE DEF f
  <2>3. PICK d : /\ userCalls' = userCalls \cup {d}
                 /\ UserCallIsTrue(d) /\ d.kind = "change" /\ d.ends = TRUE
    BY <2>1, <2>2
  <2>4. Marked(userCalls', TRUE, submitting')
    BY <2>1, <2>3 DEF UsersInv, Marked
  <2>5. userActs' \in Nat /\ asked' \subseteq 1 .. userActs' /\ pending' \in 0 .. userActs'
    BY <2>1 DEF UsersInv
  <2> QED
    BY <2>1, <2>3, <2>4, <2>5 DEF UsersInv
<1>5. ASSUME NEW k \in userCalls, U!Changed(k)
      PROVE  UsersInv'
  <2> DEFINE f == U!Load(page, TRUE)
  <2>1. /\ userCalls' = (userCalls \ {k}) \cup {f} /\ fetching' = TRUE /\ pending' = 0
        /\ k.kind = "change" /\ UNCHANGED <<submitting, asked, userActs>>
    BY <1>5 DEF U!Changed, U!loadUsers
  <2>2. UserCallIsTrue(f) /\ f.ends = TRUE
    BY ONLY LoadSent
  <2> HIDE DEF f
  <2>3. PICK d : /\ userCalls' = (userCalls \ {k}) \cup {d}
                 /\ UserCallIsTrue(d) /\ d.ends = TRUE
    BY <2>1, <2>2
  <2>4. k.ends = TRUE
    BY <2>1 DEF UsersInv, UserCallIsTrue
  <2>5. Marked(userCalls', TRUE, submitting)
    BY <2>3, <2>4, MarkedThen DEF UsersInv
  <2>6. pending' \in 0 .. userActs /\ 0 \notin asked
    BY <2>1 DEF UsersInv
  <2> QED
    BY <2>1, <2>3, <2>5, <2>6 DEF UsersInv
<1>6. ASSUME NEW k \in userCalls, U!Listed(k)
      PROVE  UsersInv'
  <2>1. /\ userCalls' = userCalls \ {k} /\ k.kind = "list"
        /\ submitting' = (submitting /\ ~k.ends) /\ UNCHANGED <<pending, asked, userActs>>
        /\ users' = page' \/ loadFailed' = TRUE
    BY <1>6 DEF U!Listed
  <2>2. UserCallIsTrue(k)
    BY DEF UsersInv
  <2>3. Marked(userCalls', TRUE, submitting') /\ submitting' \in BOOLEAN
    BY <2>1, <2>2 DEF UsersInv, Marked, UserCallIsTrue
  <2> QED
    BY <2>1, <2>3 DEF UsersInv
<1> QED
  BY <1>1, <1>2, <1>3, <1>4, <1>5, <1>6 DEF U!Next

\* The invariant says what the run asks of the page.
LEMMA UsersAreTrue == UsersInv => U!ChangesAreTrue
<1> SUFFICES ASSUME UsersInv
             PROVE  U!ChangesAreTrue
  OBVIOUS
<1>1. U!OneChange
  <2> DEFINE C == {k \in userCalls : k.ends = TRUE}
  <2>1. Cardinality(C) = (IF submitting THEN 1 ELSE 0)
    BY MarkedCounts DEF UsersInv
  <2>2. {k \in userCalls : k.ends} = C
    BY DEF UsersInv, UserCallIsTrue
  <2>3. U!Cardinality(C) = Cardinality(C)
    BY DEF U!Cardinality, Cardinality
  <2> QED
    BY <2>1, <2>2, <2>3 DEF U!OneChange, U!Running
<1>2. U!NothingIsSentTwice
  BY DEF U!NothingIsSentTwice, UsersInv, UserCallIsTrue, Marked
<1>3. U!UsersOfThePage
  BY DEF U!UsersOfThePage, UsersInv
<1> QED
  BY <1>1, <1>2, <1>3 DEF U!ChangesAreTrue

-----------------------------------------------------------------------------
(* Object management *)

\* The statements in the work of a transaction.
Bys(w) == {w[i].by : i \in DOMAIN w}
ByOf(t) == {tx[t].work[i].by : i \in DOMAIN tx[t].work}
Clean(r, T) == \A e \in T : e[1] # r
\* What a request reported of its statements so far is what T holds of them.
Tally(r, T) ==
    /\ \A i \in DOMAIN req[r].report : req[r].report[i] = "applied" <=> <<r, i>> \in T
    /\ \A e \in T : e[1] = r => e[2] \in DOMAIN req[r].report

ReqFields == {"pc", "q", "plan", "step", "report", "outcome", "strayed"}
Shapes(r) ==
    /\ ReqFields \subseteq DOMAIN req[r]
    /\ req[r].report \in Seq({"applied", "failed"})
    /\ req[r].plan \in Seq(Range(req[r].plan))
    /\ req[r].strayed \in BOOLEAN
\* Nothing of a request that runs no statement yet is anywhere.
Fresh(r) ==
    /\ Clean(r, history.effect) /\ \A t \in Requests : Clean(r, ByOf(t))
    /\ req[r].pc # "idle" => req[r].step = 1 /\ req[r].report = << >> /\ req[r].strayed = FALSE
    /\ req[r].pc = "begin" \/ (req[r].pc = "read" /\ req[r].q.kind # "view") => req[r].plan # << >>
\* While it runs, its statements are in its own transaction or in effect, as it reports.
Running(r) ==
    /\ req[r].step \in DOMAIN req[r].plan /\ Len(req[r].report) = req[r].step - 1
Ends(r) ==
    /\ req[r].plan # << >> /\ DOMAIN req[r].report \subseteq DOMAIN req[r].plan
    /\ "failed" \notin Range(req[r].report) => DOMAIN req[r].report = DOMAIN req[r].plan
Places(r) ==
    IF InTransaction(req[r].q)
    THEN /\ Tally(r, ByOf(r)) /\ Clean(r, history.effect)
         /\ \A t \in Requests \ {r} : Clean(r, ByOf(t))
    ELSE Tally(r, history.effect) /\ \A t \in Requests : Clean(r, ByOf(t))
Settles(r) ==
    /\ \A t \in Requests : Clean(r, ByOf(t))
    /\ \A i \in DOMAIN req[r].report : req[r].report[i] = "applied" <=> <<r, i>> \in history.effect
Objects == {"database", "schema", "table", "view"}
Succeeded(r) == req[r].pc = "done" /\ req[r].outcome = "ok" /\ req[r].q.kind \in Objects

ReqOK(r) ==
    /\ req[r].pc \in {"idle", "read", "begin", "run", "end", "audit", "done"}
    /\ req[r].pc # "idle" => Shapes(r)
    /\ req[r].pc \in {"idle", "read", "begin"} => Fresh(r)
    /\ req[r].pc = "run" => Running(r)
    /\ req[r].pc \in {"end", "audit"} => Ends(r)
    /\ req[r].pc \in {"begin", "end"} => InTransaction(req[r].q)
    /\ req[r].pc \in {"run", "end"} /\ ~req[r].strayed => Places(r)
    /\ req[r].pc \in {"audit", "done"} /\ ~req[r].strayed => Settles(r)
    /\ Succeeded(r) => /\ DOMAIN req[r].report = DOMAIN req[r].plan
                       /\ \A i \in DOMAIN req[r].report : req[r].report[i] = "applied"
    /\ <<r, "applied">> \in history.audit =>
          /\ req[r].pc = "done"
          /\ ~req[r].strayed => \E i \in DOMAIN req[r].plan : <<r, i>> \in history.effect

\* A page that is loaded shows what was answered before its load began.
ListOK ==
    /\ list.pc \in {"idle", "load", "store"}
    /\ list.pc # "idle" =>
         /\ list.began \in Int /\ list.began <= now
         /\ \A r \in list.over \cap Requests : req[r].pc = "done"
    /\ list.pc = "store" =>
         /\ list.loaded.at \in Int /\ list.began <= list.loaded.at
         /\ \A r \in list.over \cap Requests : Succeeded(r) /\ ~req[r].strayed =>
               \A i \in DOMAIN req[r].plan : <<r, i>> \in list.loaded.shows
CacheOK ==
    /\ \A p \in DOMAIN cache : /\ cache[p].at \in Int /\ cache[p].expires \in Int
                               /\ cache[p].expires <= cache[p].at + TTL
    /\ OwnChangesAreShown

ObjectTypes ==
    /\ DOMAIN req = Requests /\ DOMAIN tx = Requests /\ now \in Int
    /\ {"effect", "hit", "audit", "others"} \subseteq DOMAIN history
    /\ \A t \in Requests : /\ {"state", "work"} \subseteq DOMAIN tx[t]
                           /\ tx[t].work \in Seq(Range(tx[t].work))
ObjectInv == ObjectTypes /\ (\A r \in Requests : ReqOK(r)) /\ ListOK /\ CacheOK

\* Every operation but a principal without a password compiles to statements.
LEMMA CompileIsSound ==
  ASSUME NEW q \in Menu, NEW c \in BOOLEAN,
         q.kind \in {"database", "schema", "table", "view", "principal", "grant"}
  PROVE  /\ Compile(q, c) \in Seq(Range(Compile(q, c)))
         /\ q.kind \in Objects => Compile(q, c) # << >>
         /\ q.kind = "grant" /\ q.changes # << >> => Compile(q, c) # << >>
<1>1. ASSUME NEW a PROVE << a >> \in Seq(Range(<< a >>)) /\ << a >> # << >>
  BY DEF Range
<1>2. ASSUME NEW a, NEW b PROVE << a, b >> \in Seq(Range(<< a, b >>)) /\ << a, b >> # << >>
  BY DEF Range
<1>3. << >> \in Seq(Range(<< >>))
  OBVIOUS
<1>4. CASE q.kind = "grant"
  <2>1. q.changes \in Seq(Range(q.changes))
    BY <1>4, MenuAssumption
  <2>2. ASSUME NEW f, DOMAIN f = DOMAIN q.changes, f = [i \in DOMAIN q.changes |-> f[i]]
        PROVE  f \in Seq(Range(f)) /\ (q.changes # << >> => f # << >>)
    <3>1. Len(q.changes) \in Nat /\ DOMAIN f = 1..Len(q.changes)
      BY <2>1, <2>2
    <3>2. \A i \in 1..Len(q.changes) : f[i] \in Range(f)
      BY <3>1 DEF Range
    <3>3. f \in [1..Len(q.changes) -> Range(f)]
      BY <2>2, <3>1, <3>2
    <3>4. f \in Seq(Range(f))
      BY <3>1, <3>3
    <3>5. q.changes # << >> => Len(q.changes) # 0
      BY <2>1
    <3> QED
      BY <3>1, <3>4, <3>5
  <2>3. Compile(q, c) \in {GrantsPg(q), GrantsMysql(q)}
    BY <1>4 DEF Compile
  <2>4. GrantsPg(q) \in Seq(Range(GrantsPg(q))) /\ (q.changes # << >> => GrantsPg(q) # << >>)
    BY <2>2 DEF GrantsPg
  <2>5. GrantsMysql(q) \in Seq(Range(GrantsMysql(q))) /\ (q.changes # << >> => GrantsMysql(q) # << >>)
    BY <2>2 DEF GrantsMysql
  <2> QED
    BY <1>4, <2>3, <2>4, <2>5 DEF Objects
<1>5. CASE q.kind # "grant"
  <2>1. \/ Compile(q, c) = << >> /\ q.kind = "principal"
        \/ \E a : Compile(q, c) = << a >>
        \/ \E a, b : Compile(q, c) = << a, b >>
    BY <1>5 DEF Compile, DatabasePg, DatabaseMysql, SchemaPg, TablePg, TableMysql, ViewPg, ViewMysql,
                PrincipalPg, PrincipalMysql
  <2> QED
    BY <1>1, <1>2, <1>3, <1>5, <2>1 DEF Objects
<1> QED
  BY <1>4, <1>5

\* A sequence is one of its own elements.
LEMMA OwnElements ==
  ASSUME NEW T, NEW s \in Seq(T)
  PROVE  s \in Seq(Range(s))
<1>1. Len(s) \in Nat /\ DOMAIN s = 1..Len(s)
  OBVIOUS
<1>2. s \in [1..Len(s) -> T]
  OBVIOUS
<1>3. \A i \in 1..Len(s) : s[i] \in Range(s)
  BY <1>1 DEF Range
<1>4. s \in [1..Len(s) -> Range(s)]
  BY <1>2, <1>3
<1> QED
  BY <1>1, <1>4

\* A statement that is added to the work of a transaction adds what it is by.
LEMMA WorkGrows ==
  ASSUME NEW w, w \in Seq(Range(w)), NEW e, NEW v, v = Append(w, e)
  PROVE  v \in Seq(Range(v)) /\ Bys(v) = Bys(w) \cup {e.by}
<1>1. /\ Len(w) \in Nat /\ DOMAIN w = 1..Len(w) /\ DOMAIN v = 1..(Len(w) + 1)
      /\ \A i \in 1..Len(w) : v[i] = w[i]
      /\ v[Len(w) + 1] = e
      /\ Len(v) = Len(w) + 1
  OBVIOUS
<1>2. v \in Seq(Range(w) \cup {e})
  <2>1. w \in Seq(Range(w) \cup {e})
    BY <1>1 DEF Range
  <2> QED
    BY <2>1
<1>4. v \in Seq(Range(v))
  BY <1>2, OwnElements
<1>5. 1..(Len(w) + 1) = 1..Len(w) \cup {Len(w) + 1}
  BY <1>1
<1>6. ASSUME NEW x PROVE x \in Bys(v) <=> x \in Bys(w) \cup {e.by}
  BY <1>1, <1>5 DEF Bys
<1> QED
  BY <1>4, <1>6

\* What a request that takes no step knows of its statements stays so while another one's
\* statements run, take effect or are given up.
LEMMA OthersKept ==
  ASSUME NEW r \in Requests, NEW u \in Requests, u # r, ReqOK(u),
         req'[u] = req[u], engine' = engine,
         history.effect \subseteq history'.effect,
         \A e \in history'.effect : e \in history.effect \/ e[1] = r \/ e \in ByOf(r),
         \A t \in Requests : \A e \in ByOf(t)' : e \in ByOf(t) \/ e[1] = r,
         ByOf(u) \subseteq ByOf(u)',
         \A e \in history'.audit : e \in history.audit \/ e[1] = r
  PROVE  ReqOK(u)'
<1>1. \A t \in Requests : \A e \in ByOf(t)' : e[1] = u => e \in ByOf(t)
  OBVIOUS
<1>2. Clean(u, ByOf(r)) => \A e \in history'.effect : e[1] = u => e \in history.effect
  BY DEF Clean
<1>3. \A t \in Requests : Clean(u, ByOf(t)) => Clean(u, ByOf(t))'
  BY <1>1 DEF Clean
<1>4. InTransaction(req[u].q)' = InTransaction(req[u].q)
  BY DEF InTransaction
<1>5. Clean(u, history.effect) /\ Clean(u, ByOf(r)) => Clean(u, history.effect)'
  BY <1>2 DEF Clean
<1>6. Tally(u, ByOf(u)) => Tally(u, ByOf(u))'
  <2>1. \A e : e[1] = u => (e \in ByOf(u)' <=> e \in ByOf(u))
    BY <1>1
  <2>2. \A i : <<u, i>> \in ByOf(u)' <=> <<u, i>> \in ByOf(u)
    BY <2>1
  <2> QED
    BY <2>1, <2>2 DEF Tally
<1>7. Clean(u, ByOf(r)) => \A i : <<u, i>> \in history'.effect <=> <<u, i>> \in history.effect
  BY <1>2
<1>8. Clean(u, ByOf(r)) /\ Tally(u, history.effect) => Tally(u, history.effect)'
  BY <1>2, <1>7 DEF Tally
<1>9. \A i : <<u, i>> \in history.effect => <<u, i>> \in history'.effect
  OBVIOUS
<1>10. <<u, "applied">> \in history'.audit => <<u, "applied">> \in history.audit
  OBVIOUS
<1>11. /\ Shapes(u) => Shapes(u)'
       /\ Running(u) => Running(u)'
       /\ Ends(u) => Ends(u)'
       /\ Succeeded(u)' <=> Succeeded(u)
  BY DEF Shapes, Running, Ends, Succeeded
<1>12. Fresh(u) => Fresh(u)'
  BY <1>3, <1>5 DEF Fresh
<1>13. Settles(u) => Settles(u)'
  BY <1>3, <1>7 DEF Settles
<1>14. Places(u) => Places(u)'
  <2>1. CASE InTransaction(req[u].q)
    BY <2>1, <1>3, <1>4, <1>5, <1>6 DEF Places
  <2>2. CASE ~InTransaction(req[u].q)
    BY <2>2, <1>3, <1>4, <1>8 DEF Places
  <2> QED
    BY <2>1, <2>2
<1> QED
  BY <1>4, <1>9, <1>10, <1>11, <1>12, <1>13, <1>14 DEF ReqOK

\* The pages that are kept or loaded stay true while a request takes a step: one that was
\* answered takes none, and one that succeeds empties the cache.
LEMMA PagesKept ==
  ASSUME NEW r \in Requests, ListOK, CacheOK, req[r].pc # "done",
         list' = list, now' = now,
         \A u \in Requests : u # r => req'[u] = req[u],
         cache' = cache \/ cache' = << >>,
         Succeeded(r)' => cache' = << >>
  PROVE  ListOK' /\ CacheOK'
<1>1. \A u \in Requests : req[u].pc = "done" => req'[u] = req[u]
  OBVIOUS
<1>2. ListOK'
  BY <1>1 DEF ListOK, Succeeded
<1>3. CASE cache' = << >>
  BY <1>2, <1>3 DEF CacheOK, OwnChangesAreShown
<1>4. CASE cache' = cache /\ ~Succeeded(r)'
  <2>1. ASSUME NEW p \in DOMAIN cache, NEW u \in Requests,
               req'[u].pc = "done" /\ req'[u].outcome = "ok" /\ ~req'[u].strayed,
               req'[u].q.kind \in Objects, u \notin cache[p].raced
        PROVE  \A i \in DOMAIN req'[u].plan : <<u, i>> \in cache[p].shows
    <3>1. u # r
      BY <1>4, <2>1 DEF Succeeded
    <3>2. req'[u] = req[u]
      BY <3>1
    <3> QED
      BY <2>1, <3>2 DEF CacheOK, OwnChangesAreShown, Objects
  <2> QED
    BY <1>2, <1>4, <2>1 DEF CacheOK, OwnChangesAreShown, Objects
<1> QED
  BY <1>3, <1>4

\* A step of one request keeps the invariant when it keeps what is said of that request.
LEMMA RequestStep ==
  ASSUME NEW r \in Requests, ObjectInv, ObjectTypes', ReqOK(r)', req[r].pc # "done",
         engine' = engine, list' = list, now' = now,
         \A u \in Requests : u # r => req'[u] = req[u],
         history.effect \subseteq history'.effect,
         \A e \in history'.effect : e \in history.effect \/ e[1] = r \/ e \in ByOf(r),
         \A t \in Requests : \A e \in ByOf(t)' : e \in ByOf(t) \/ e[1] = r,
         \A u \in Requests : u # r => ByOf(u) \subseteq ByOf(u)',
         \A e \in history'.audit : e \in history.audit \/ e[1] = r,
         cache' = cache \/ cache' = << >>,
         Succeeded(r)' => cache' = << >>
  PROVE  ObjectInv'
<1>1. ASSUME NEW u \in Requests, u # r
      PROVE  ReqOK(u)'
  <2>1. ReqOK(u) /\ req'[u] = req[u] /\ ByOf(u) \subseteq ByOf(u)'
    BY <1>1 DEF ObjectInv
  <2> QED
    BY <1>1, <2>1, OthersKept
<1>2. ListOK' /\ CacheOK'
  <2>1. ListOK /\ CacheOK
    BY DEF ObjectInv
  <2> QED
    BY <2>1, PagesKept
<1> QED
  BY <1>1, <1>2 DEF ObjectInv

\* A step of one request that runs no statement keeps the invariant likewise.
LEMMA QuietStep ==
  ASSUME NEW r \in Requests, ObjectInv, ReqOK(r)', req[r].pc # "done",
         engine' = engine, list' = list, now' = now, tx' = tx, DOMAIN req' = Requests,
         \A u \in Requests : u # r => req'[u] = req[u],
         history'.effect = history.effect,
         {"effect", "hit", "audit", "others"} \subseteq DOMAIN history',
         \A e \in history'.audit : e \in history.audit \/ e[1] = r,
         cache' = cache \/ cache' = << >>,
         Succeeded(r)' => cache' = << >>
  PROVE  ObjectInv'
<1>1. ObjectTypes'
  BY DEF ObjectInv, ObjectTypes
<1>2. \A t \in Requests : ByOf(t)' = ByOf(t)
  BY DEF ByOf
<1> QED
  BY <1>1, <1>2, RequestStep

\* A request that is asked is turned down or has its statements before it; none of them ran.
LEMMA AskKeeps ==
  ASSUME ObjectInv, NEW r \in Requests, Ask(r)
  PROVE  ObjectInv'
<1>1. PICK q \in Menu : \/ AskDatabase(r, q) \/ AskSchema(r, q) \/ AskTable(r, q)
                        \/ AskView(r, q) \/ AskPrincipal(r, q) \/ AskInvalid(r, q) \/ AskGrants(r, q)
  BY DEF Ask
<1>2. /\ req[r].pc = "idle" /\ engine' = engine /\ tx' = tx /\ list' = list /\ now' = now
      /\ cache' = cache
  BY DEF Ask
<1>3. /\ Clean(r, history.effect) /\ \A t \in Requests : Clean(r, ByOf(t))
      /\ <<r, "applied">> \notin history.audit
  BY <1>2 DEF ObjectInv, ReqOK, Fresh
<1>4. q.kind \in {"database", "schema", "table", "view", "principal", "grant"}
  BY <1>1 DEF AskDatabase, AskSchema, AskTable, AskView, AskPrincipal, AskInvalid, AskGrants
<1>5. /\ Compile(q, TRUE) \in Seq(Range(Compile(q, TRUE)))
      /\ q.kind \in Objects => Compile(q, TRUE) # << >>
      /\ q.kind = "grant" /\ q.changes # << >> => Compile(q, TRUE) # << >>
  <2>1. TRUE \in BOOLEAN
    OBVIOUS
  <2> QED
    BY <1>4, <2>1, CompileIsSound
<1>6. \/ \E o \in {"denied", "failed"} :
           /\ req' = [req EXCEPT ![r] = [Open(r, q, "done", << >>) EXCEPT !.outcome = o]]
           /\ history' = history \/ Record(r, "denied") \/ Record(r, "failure")
      \/ /\ req' = [req EXCEPT ![r] = Open(r, q, "read", << >>)]
         /\ q.kind = "view" /\ history' = history
      \/ /\ \E pc \in {"run", "read", "begin"} :
              /\ req' = [req EXCEPT ![r] = Open(r, q, pc, Compile(q, TRUE))]
              /\ pc = "begin" <=> InTransaction(q)
         /\ Compile(q, TRUE) # << >> /\ history' = history
  <2>1. CASE AskDatabase(r, q)
    BY <2>1, <1>5 DEF AskDatabase, Deny, InTransaction, Objects
  <2>2. CASE AskSchema(r, q)
    BY <2>2, <1>5 DEF AskSchema, Deny, InTransaction, Objects
  <2>3. CASE AskTable(r, q)
    BY <2>3, <1>5 DEF AskTable, Deny, InTransaction, Objects
  <2>4. CASE AskView(r, q)
    BY <2>4 DEF AskView, Deny
  <2>5. CASE AskPrincipal(r, q)
    BY <2>5 DEF AskPrincipal, Deny, InTransaction
  <2>6. CASE AskInvalid(r, q)
    BY <2>6 DEF AskInvalid
  <2>7. CASE AskGrants(r, q)
    BY <2>7, <1>5 DEF AskGrants, Deny, InTransaction
  <2> QED
    BY <1>1, <2>1, <2>2, <2>3, <2>4, <2>5, <2>6, <2>7
<1>7. /\ history'.effect = history.effect
      /\ {"effect", "hit", "audit", "others"} \subseteq DOMAIN history'
      /\ <<r, "applied">> \notin history'.audit
      /\ \A e \in history'.audit : e \in history.audit \/ e[1] = r
  <2>1. {"effect", "hit", "audit", "others"} \subseteq DOMAIN history
    BY DEF ObjectInv, ObjectTypes
  <2>2. CASE history' = history
    BY <2>1, <2>2, <1>3
  <2>3. ASSUME NEW result \in {"denied", "failure"}, Record(r, result)
        PROVE  <1>7!1 /\ <1>7!2 /\ <1>7!3 /\ <1>7!4
    BY <2>1, <2>3, <1>3 DEF Record
  <2> QED
    BY <1>6, <2>2, <2>3
<1>8. DOMAIN req = Requests /\ DOMAIN req' = Requests /\ \A u \in Requests : u # r => req'[u] = req[u]
  <2>1. DOMAIN req = Requests
    BY DEF ObjectInv, ObjectTypes
  <2> QED
    BY <2>1, <1>6
<1>9. Clean(r, history.effect)' /\ \A t \in Requests : Clean(r, ByOf(t))'
  BY <1>2, <1>3, <1>7 DEF ByOf
<1>10. ReqOK(r)' /\ ~Succeeded(r)'
  <2>1. ASSUME NEW o \in {"denied", "failed"},
               req' = [req EXCEPT ![r] = [Open(r, q, "done", << >>) EXCEPT !.outcome = o]]
        PROVE  <1>10!1 /\ <1>10!2
    <3>1. req'[r] = [pc |-> "done", q |-> q, plan |-> << >>, step |-> 1, report |-> << >>,
                     outcome |-> o, strayed |-> FALSE]
      BY <1>8, <2>1 DEF Open
    <3>2. Shapes(r)' /\ Settles(r)' /\ ~Succeeded(r)'
      BY <3>1, <1>9 DEF Shapes, Settles, ReqFields, Succeeded
    <3> QED
      BY <3>1, <3>2, <1>7 DEF ReqOK
  <2>2. CASE req' = [req EXCEPT ![r] = Open(r, q, "read", << >>)] /\ q.kind = "view"
    <3>1. req'[r] = [pc |-> "read", q |-> q, plan |-> << >>, step |-> 1, report |-> << >>,
                     outcome |-> "none", strayed |-> FALSE]
      BY <1>8, <2>2 DEF Open
    <3>2. Shapes(r)' /\ Fresh(r)' /\ ~Succeeded(r)'
      BY <3>1, <1>9, <2>2 DEF Shapes, Fresh, ReqFields, Succeeded
    <3> QED
      BY <3>1, <3>2, <1>7 DEF ReqOK
  <2>3. ASSUME NEW pc \in {"run", "read", "begin"}, Compile(q, TRUE) # << >>,
               req' = [req EXCEPT ![r] = Open(r, q, pc, Compile(q, TRUE))],
               pc = "begin" <=> InTransaction(q)
        PROVE  <1>10!1 /\ <1>10!2
    <3>1. PICK plan : plan = Compile(q, TRUE)
      OBVIOUS
    <3>2. req'[r] = [pc |-> pc, q |-> q, plan |-> plan, step |-> 1, report |-> << >>,
                     outcome |-> "none", strayed |-> FALSE]
      BY <1>8, <2>3, <3>1 DEF Open
    <3>3. plan \in Seq(Range(plan)) /\ plan # << >> /\ 1 \in DOMAIN plan
      <4>1. plan \in Seq(Range(plan)) /\ plan # << >>
        BY <1>5, <2>3, <3>1
      <4> QED
        BY <4>1
    <3>4. Shapes(r)' /\ Fresh(r)' /\ Running(r)' /\ ~Succeeded(r)'
      BY <3>2, <3>3, <1>9 DEF Shapes, Fresh, Running, ReqFields, Succeeded
    <3>5. InTransaction(req[r].q)' <=> InTransaction(q)
      BY <3>2, <1>2 DEF InTransaction
    <3>6. pc = "run" => Places(r)'
      <4>1. Tally(r, history.effect)'
        BY <3>2, <1>9 DEF Tally, Clean
      <4> QED
        BY <4>1, <2>3, <3>5, <1>9 DEF Places
    <3>7. /\ req'[r].pc = pc /\ <<r, "applied">> \notin history'.audit
          /\ InTransaction(req[r].q)' <=> pc = "begin"
      <4>1. req'[r].pc = pc
        BY <3>2
      <4>2. InTransaction(req[r].q)' <=> pc = "begin"
        BY <2>3, <3>5
      <4> QED
        BY <4>1, <4>2, <1>7
    <3>8. CASE pc = "run"
      BY <3>4, <3>6, <3>7, <3>8 DEF ReqOK
    <3>9. CASE pc \in {"read", "begin"}
      BY <3>4, <3>7, <3>9 DEF ReqOK
    <3> QED
      BY <2>3, <3>8, <3>9, <3>4
  <2> QED
    BY <1>6, <2>1, <2>2, <2>3
<1> QED
  BY <1>2, <1>7, <1>8, <1>10, QuietStep

\* What a request reads before its statements changes nothing; a view's statements are
\* compiled then.
LEMMA InspectKeeps ==
  ASSUME ObjectInv, NEW r \in Requests, Inspect(r)
  PROVE  ObjectInv'
<1>1. /\ req[r].pc = "read" /\ engine' = engine /\ tx' = tx /\ list' = list /\ now' = now
      /\ cache' = cache
  BY DEF Inspect
<1>2. /\ Shapes(r) /\ Fresh(r) /\ <<r, "applied">> \notin history.audit
  BY <1>1 DEF ObjectInv, ReqOK
<1>3. /\ Clean(r, history.effect) /\ \A t \in Requests : Clean(r, ByOf(t))
      /\ req[r].step = 1 /\ req[r].report = << >> /\ req[r].strayed = FALSE
      /\ req[r].q.kind # "view" => req[r].plan # << >>
  BY <1>1, <1>2 DEF Fresh
<1>4. PICK q : q = req[r].q
  OBVIOUS
<1>5. \/ /\ \/ \E o \in {"denied", "failed"} :
                 req' = [req EXCEPT ![r].pc = "done", ![r].outcome = o]
            \/ req' = [req EXCEPT ![r] = Deny(r, q)]
         /\ history' = history \/ Record(r, "denied") \/ Record(r, "failure")
      \/ /\ req' = [req EXCEPT ![r].pc = "run"]
         /\ q.kind \in {"schema", "table"} /\ history' = history
      \/ /\ \E c \in BOOLEAN :
               req' = [req EXCEPT ![r].plan = Compile(q, c),
                                  ![r].pc = IF InTransaction(q) THEN "begin" ELSE "run"]
         /\ q.kind = "view" /\ history' = history
  BY <1>4 DEF Inspect, Fails
<1>6. /\ history'.effect = history.effect
      /\ {"effect", "hit", "audit", "others"} \subseteq DOMAIN history'
      /\ <<r, "applied">> \notin history'.audit
      /\ \A e \in history'.audit : e \in history.audit \/ e[1] = r
  <2>1. {"effect", "hit", "audit", "others"} \subseteq DOMAIN history
    BY DEF ObjectInv, ObjectTypes
  <2>2. CASE history' = history
    BY <2>1, <2>2, <1>2
  <2>3. ASSUME NEW result \in {"denied", "failure"}, Record(r, result)
        PROVE  <1>6!1 /\ <1>6!2 /\ <1>6!3 /\ <1>6!4
    BY <2>1, <2>3, <1>2 DEF Record
  <2> QED
    BY <1>5, <2>2, <2>3
<1>7. DOMAIN req = Requests /\ DOMAIN req' = Requests /\ \A u \in Requests : u # r => req'[u] = req[u]
  <2>1. DOMAIN req = Requests
    BY DEF ObjectInv, ObjectTypes
  <2> QED
    BY <2>1, <1>5
<1>8. Clean(r, history.effect)' /\ \A t \in Requests : Clean(r, ByOf(t))'
  BY <1>1, <1>3, <1>6 DEF ByOf
<1>9. ReqOK(r)' /\ ~Succeeded(r)'
  <2>1. ASSUME NEW o \in {"denied", "failed"},
               \/ req' = [req EXCEPT ![r].pc = "done", ![r].outcome = o]
               \/ req' = [req EXCEPT ![r] = Deny(r, q)]
        PROVE  <1>9!1 /\ <1>9!2
    <3>1. /\ req'[r].pc = "done" /\ req'[r].outcome \in {"denied", "failed"}
          /\ ReqFields \subseteq DOMAIN req'[r]
          /\ req'[r].report = << >> /\ req'[r].strayed = FALSE
      BY <1>2, <1>3, <1>7, <2>1 DEF Deny, Open, Shapes, ReqFields
    <3>2. req'[r].plan \in Seq(Range(req'[r].plan))
      <4>1. CASE req' = [req EXCEPT ![r].pc = "done", ![r].outcome = o]
        <5>1. req'[r].plan = req[r].plan
          BY <4>1, <1>2, <1>7 DEF Shapes, ReqFields
        <5> QED
          BY <5>1, <1>2 DEF Shapes
      <4>2. CASE req' = [req EXCEPT ![r] = Deny(r, q)]
        <5>1. req'[r].plan = << >>
          BY <4>2, <1>7 DEF Deny, Open
        <5> QED
          BY <5>1
      <4> QED
        BY <2>1, <4>1, <4>2
    <3>3. Shapes(r)' /\ Settles(r)' /\ ~Succeeded(r)'
      <4>1. Shapes(r)'
        <5>1. (ReqFields \subseteq DOMAIN req[r])'
          BY <3>1 DEF ReqFields
        <5>2. (req[r].report \in Seq({"applied", "failed"}))'
          BY <3>1
        <5>4. (req[r].strayed \in BOOLEAN)'
          BY <3>1
        <5>3. (req[r].plan \in Seq(Range(req[r].plan)))'
          BY <3>1, <3>2
        <5> QED
          BY <5>1, <5>2, <5>3, <5>4 DEF Shapes
      <4>2. Settles(r)'
        BY <3>1, <1>8 DEF Settles
      <4> QED
        BY <3>1, <4>1, <4>2 DEF Succeeded
    <3> QED
      BY <3>1, <3>3, <1>6 DEF ReqOK
  <2>2. CASE req' = [req EXCEPT ![r].pc = "run"] /\ q.kind \in {"schema", "table"}
    <3>1. /\ req'[r].pc = "run" /\ req'[r].plan = req[r].plan /\ req'[r].step = 1
          /\ req'[r].report = << >> /\ req'[r].strayed = FALSE /\ req'[r].q = q
          /\ ReqFields \subseteq DOMAIN req'[r]
      BY <1>2, <1>3, <1>4, <1>7, <2>2 DEF Shapes, ReqFields
    <3>2. req[r].plan \in Seq(Range(req[r].plan)) /\ req[r].plan # << >> /\ 1 \in DOMAIN req[r].plan
      <4>1. req[r].plan \in Seq(Range(req[r].plan)) /\ req[r].plan # << >>
        BY <1>2, <1>3, <1>4, <2>2 DEF Shapes
      <4> QED
        BY <4>1
    <3>3. Shapes(r)' /\ Running(r)' /\ ~Succeeded(r)'
      <4>1. Shapes(r)'
        <5>1. (ReqFields \subseteq DOMAIN req[r])'
          BY <3>1 DEF ReqFields
        <5>2. (req[r].report \in Seq({"applied", "failed"}))'
          BY <3>1
        <5>4. (req[r].strayed \in BOOLEAN)'
          BY <3>1
        <5>3. (req[r].plan \in Seq(Range(req[r].plan)))'
          BY <3>1, <3>2
        <5> QED
          BY <5>1, <5>2, <5>3, <5>4 DEF Shapes
      <4>2. Running(r)'
        BY <3>1, <3>2 DEF Running
      <4> QED
        BY <3>1, <4>1, <4>2 DEF Succeeded
    <3>4. Places(r)'
      <4>1. Tally(r, history.effect)'
        BY <3>1, <1>8 DEF Tally, Clean
      <4>2. ~InTransaction(req[r].q)'
        BY <3>1, <2>2 DEF InTransaction
      <4> QED
        BY <4>1, <4>2, <1>8 DEF Places
    <3> QED
      BY <3>1, <3>3, <3>4, <1>6 DEF ReqOK
  <2>3. ASSUME NEW c \in BOOLEAN, q.kind = "view",
               req' = [req EXCEPT ![r].plan = Compile(q, c),
                                  ![r].pc = IF InTransaction(q) THEN "begin" ELSE "run"]
        PROVE  <1>9!1 /\ <1>9!2
    <3>1. PICK plan : plan = Compile(q, c)
      OBVIOUS
    <3>2. /\ req'[r].pc = IF InTransaction(q) THEN "begin" ELSE "run"
          /\ req'[r].plan = plan /\ req'[r].step = 1
          /\ req'[r].report = << >> /\ req'[r].strayed = FALSE /\ req'[r].q = q
          /\ ReqFields \subseteq DOMAIN req'[r]
      BY <1>2, <1>3, <1>4, <1>7, <2>3, <3>1 DEF Shapes, ReqFields
    <3>3. plan \in Seq(Range(plan)) /\ plan # << >> /\ 1 \in DOMAIN plan
      <4>1. (\E a : plan = << a >>) \/ (\E a, b : plan = << a, b >>)
        BY <2>3, <3>1 DEF Compile, ViewPg, ViewMysql
      <4> QED
        BY <4>1 DEF Range
    <3>4. Shapes(r)' /\ Running(r)' /\ Fresh(r)' /\ ~Succeeded(r)'
      <4>1. Shapes(r)'
        <5>1. (ReqFields \subseteq DOMAIN req[r])'
          BY <3>2 DEF ReqFields
        <5>2. (req[r].report \in Seq({"applied", "failed"}))'
          BY <3>2
        <5>4. (req[r].strayed \in BOOLEAN)'
          BY <3>2
        <5>3. (req[r].plan \in Seq(Range(req[r].plan)))'
          BY <3>2, <3>3
        <5> QED
          BY <5>1, <5>2, <5>3, <5>4 DEF Shapes
      <4>2. Running(r)' /\ Fresh(r)'
        BY <3>2, <3>3, <1>8 DEF Running, Fresh
      <4> QED
        BY <3>2, <4>1, <4>2 DEF Succeeded
    <3>5. InTransaction(req[r].q)' <=> InTransaction(q)
      BY <3>2, <1>1 DEF InTransaction
    <3>6. CASE InTransaction(q)
      <4>1. req'[r].pc = "begin" /\ InTransaction(req[r].q)'
        BY <3>2, <3>5, <3>6
      <4> QED
        BY <4>1, <3>4, <1>6 DEF ReqOK
    <3>7. CASE ~InTransaction(q)
      <4>1. req'[r].pc = "run" /\ ~InTransaction(req[r].q)'
        BY <3>2, <3>5, <3>7
      <4>2. Tally(r, history.effect)'
        BY <3>2, <1>8 DEF Tally, Clean
      <4>3. Places(r)'
        BY <4>1, <4>2, <1>8 DEF Places
      <4> QED
        BY <4>1, <4>3, <3>4, <1>6 DEF ReqOK
    <3> QED
      BY <3>6, <3>7
  <2> QED
    BY <1>5, <2>1, <2>2, <2>3
<1> QED
  BY <1>1, <1>6, <1>7, <1>9, QuietStep

\* BEGIN and the first statement: it is in the request's own transaction, or was refused.
LEMMA BeginKeeps ==
  ASSUME ObjectInv, NEW r \in Requests, Begin(r)
  PROVE  ObjectInv'
<1>1. /\ req[r].pc = "begin" /\ engine' = engine /\ list' = list /\ now' = now
      /\ cache' = cache
  BY DEF Begin
<1>2. /\ Shapes(r) /\ Fresh(r) /\ <<r, "applied">> \notin history.audit /\ InTransaction(req[r].q)
      /\ ObjectTypes
  BY <1>1 DEF ObjectInv, ReqOK
<1>3. /\ Clean(r, history.effect) /\ \A t \in Requests : Clean(r, ByOf(t))
      /\ req[r].plan # << >> /\ req[r].strayed = FALSE
  BY <1>1, <1>2 DEF Fresh
<1>4. PICK plan : plan = req[r].plan
  OBVIOUS
<1>5. plan \in Seq(Range(plan)) /\ plan # << >>
  BY <1>2, <1>3, <1>4 DEF Shapes
<1>6. Len(plan) \in Nat /\ DOMAIN plan = 1..Len(plan) /\ Len(plan) # 0
  BY <1>5
<1>7. \E rep \in {"failed", "applied"} :
         /\ req' = [req EXCEPT ![r].step = 2, ![r].report = << rep >>,
                               ![r].pc = IF rep = "failed" \/ Len(plan) = 1 THEN "end" ELSE "run"]
         /\ \E w : /\ w = IF rep = "failed" THEN << >> ELSE << [by |-> <<r, 1>>, stmt |-> plan[1]] >>
                   /\ \E s, b : tx' = [tx EXCEPT ![r] = [state |-> s, before |-> b, work |-> w]]
         /\ \E h : history' = [history EXCEPT !.hit = h]
  <2>1. CASE Refuses(catalog, plan[1])
    BY <2>1, <1>4 DEF Begin
  <2>2. CASE ~Refuses(catalog, plan[1])
    BY <2>2, <1>4 DEF Begin
  <2> QED
    BY <2>1, <2>2
<1>8. PICK rep \in {"failed", "applied"} : \E w :
         /\ req' = [req EXCEPT ![r].step = 2, ![r].report = << rep >>,
                               ![r].pc = IF rep = "failed" \/ Len(plan) = 1 THEN "end" ELSE "run"]
         /\ w = IF rep = "failed" THEN << >> ELSE << [by |-> <<r, 1>>, stmt |-> plan[1]] >>
         /\ \E s, b : tx' = [tx EXCEPT ![r] = [state |-> s, before |-> b, work |-> w]]
  BY <1>7
<1>9. PICK w :
         /\ req' = [req EXCEPT ![r].step = 2, ![r].report = << rep >>,
                               ![r].pc = IF rep = "failed" \/ Len(plan) = 1 THEN "end" ELSE "run"]
         /\ w = IF rep = "failed" THEN << >> ELSE << [by |-> <<r, 1>>, stmt |-> plan[1]] >>
         /\ \E s, b : tx' = [tx EXCEPT ![r] = [state |-> s, before |-> b, work |-> w]]
  BY <1>8
<1>10. /\ history'.effect = history.effect /\ history'.audit = history.audit
      /\ {"effect", "hit", "audit", "others"} \subseteq DOMAIN history'
  BY <1>7, <1>2 DEF ObjectTypes
<1>11. /\ DOMAIN req = Requests /\ DOMAIN tx = Requests
       /\ DOMAIN req' = Requests /\ DOMAIN tx' = Requests
       /\ \A u \in Requests : u # r => req'[u] = req[u] /\ tx'[u] = tx[u]
       /\ tx'[r].work = w /\ {"state", "work"} \subseteq DOMAIN tx'[r]
  BY <1>2, <1>9 DEF ObjectTypes
<1>12. ByOf(r)' = {<<r, i>> : i \in {j \in {1} : rep = "applied"}}
  <2>1. ByOf(r)' = {w[i].by : i \in DOMAIN w}
    BY <1>11 DEF ByOf
  <2>2. CASE rep = "failed"
    BY <2>1, <2>2, <1>9
  <2>3. CASE rep = "applied"
    <3>1. w = << [by |-> <<r, 1>>, stmt |-> plan[1]] >>
      BY <1>9, <2>3
    <3>2. DOMAIN w = {1} /\ w[1].by = <<r, 1>>
      BY <3>1
    <3> QED
      BY <2>1, <2>3, <3>2
  <2> QED
    BY <2>2, <2>3
<1>13. \A u \in Requests : u # r => ByOf(u)' = ByOf(u)
  BY <1>11 DEF ByOf
<1>14. ObjectTypes'
  <2>1. w \in Seq(Range(w))
    <3>1. ASSUME NEW a PROVE << a >> \in Seq(Range(<< a >>))
      BY DEF Range
    <3>2. << >> \in Seq(Range(<< >>))
      OBVIOUS
    <3>3. w = << >> \/ \E a : w = << a >>
      BY <1>9
    <3> QED
      BY <3>1, <3>2, <3>3
  <2>2. \A t \in Requests : {"state", "work"} \subseteq DOMAIN tx'[t] /\ tx'[t].work \in Seq(Range(tx'[t].work))
    BY <2>1, <1>2, <1>11 DEF ObjectTypes
  <2> QED
    BY <2>2, <1>1, <1>2, <1>10, <1>11 DEF ObjectTypes
<1>15. /\ req'[r].pc = IF rep = "failed" \/ Len(plan) = 1 THEN "end" ELSE "run"
       /\ req'[r].plan = plan /\ req'[r].step = 2
       /\ req'[r].report = << rep >> /\ req'[r].strayed = FALSE /\ req'[r].q = req[r].q
       /\ ReqFields \subseteq DOMAIN req'[r]
  BY <1>2, <1>3, <1>4, <1>9, <1>11 DEF Shapes, ReqFields
<1>16. req'[r].pc \in {"end", "run"}
  BY <1>15
<1>17. ReqOK(r)'
  <2>1. Shapes(r)'
    <3>1. (ReqFields \subseteq DOMAIN req[r])'
      BY <1>15 DEF ReqFields
    <3>2. (req[r].report \in Seq({"applied", "failed"}))'
      BY <1>15
    <3>3. (req[r].plan \in Seq(Range(req[r].plan)))'
      BY <1>15, <1>5
    <3>4. (req[r].strayed \in BOOLEAN)'
      BY <1>15
    <3> QED
      BY <3>1, <3>2, <3>3, <3>4 DEF Shapes
  <2>2. Places(r)'
    <3>1. InTransaction(req[r].q)'
      BY <1>1, <1>2, <1>15 DEF InTransaction
    <3>2. Clean(r, history.effect)' /\ \A t \in Requests \ {r} : Clean(r, ByOf(t))'
      BY <1>3, <1>10, <1>13
    <3>3. Tally(r, ByOf(r))'
      BY <1>12, <1>15 DEF Tally
    <3> QED
      BY <3>1, <3>2, <3>3 DEF Places
  <2>3. CASE req'[r].pc = "run"
    <3>1. Running(r)'
      BY <2>3, <1>6, <1>15 DEF Running
    <3> QED
      BY <2>1, <2>2, <2>3, <3>1, <1>2, <1>10 DEF ReqOK, Succeeded
  <2>4. CASE req'[r].pc = "end"
    <3>1. Ends(r)'
      BY <2>4, <1>5, <1>6, <1>15 DEF Ends, Range
    <3>2. InTransaction(req[r].q)'
      BY <1>1, <1>2, <1>15 DEF InTransaction
    <3> QED
      BY <2>1, <2>2, <2>4, <3>1, <3>2, <1>2, <1>10 DEF ReqOK, Succeeded
  <2> QED
    BY <1>16, <2>3, <2>4
<1>18. ~Succeeded(r)'
  BY <1>16 DEF Succeeded
<1>19. /\ \A t \in Requests : \A e \in ByOf(t)' : e \in ByOf(t) \/ e[1] = r
       /\ \A u \in Requests : u # r => ByOf(u) \subseteq ByOf(u)'
  BY <1>12, <1>13
<1> QED
  BY <1>1, <1>10, <1>11, <1>14, <1>17, <1>18, <1>19, RequestStep

\* A tally stays one when the next statement is reported as what happened to it.
LEMMA TallyGrows ==
  ASSUME NEW r, NEW n \in Nat, n # 0, NEW refused \in BOOLEAN, NEW T, NEW grown, NEW old, NEW new,
         old \in Seq({"applied", "failed"}), Len(old) = n - 1,
         new = Append(old, IF refused THEN "failed" ELSE "applied"),
         \A i \in DOMAIN old : old[i] = "applied" <=> <<r, i>> \in T,
         \A e \in T : e[1] = r => e[2] \in DOMAIN old,
         grown = T \cup {<<r, i>> : i \in {j \in {n} : ~refused}}
  PROVE  /\ \A i \in DOMAIN new : new[i] = "applied" <=> <<r, i>> \in grown
         /\ \A e \in grown : e[1] = r => e[2] \in DOMAIN new
<1>1. /\ DOMAIN old = 1..(n - 1) /\ DOMAIN new = 1..n
      /\ \A i \in 1..(n - 1) : new[i] = old[i]
      /\ new[n] = IF refused THEN "failed" ELSE "applied"
  OBVIOUS
<1>2. <<r, n>> \notin T
  <2>1. n \notin DOMAIN old
    BY <1>1
  <2> QED
    BY <2>1
<1>3. <<r, n>> \in grown <=> ~refused
  BY <1>2
<1>4. \A i \in 1..(n - 1) : <<r, i>> \in grown <=> <<r, i>> \in T
  OBVIOUS
<1>5. \A i \in 1..n : i = n \/ i \in 1..(n - 1)
  OBVIOUS
<1>6. \A i \in DOMAIN new : new[i] = "applied" <=> <<r, i>> \in grown
  BY <1>1, <1>3, <1>4, <1>5
<1>7. \A e \in grown : e[1] = r => e[2] \in DOMAIN new
  <2>1. ASSUME NEW e \in T, e[1] = r
        PROVE  e[2] \in DOMAIN new
    <3>1. e[2] \in 1..(n - 1)
      BY <1>1, <2>1
    <3> QED
      BY <1>1, <3>1
  <2>2. ASSUME NEW e, e = <<r, n>>
        PROVE  e[2] \in DOMAIN new
    <3>1. e[2] = n
      BY <2>2
    <3> QED
      BY <1>1, <3>1
  <2> QED
    BY <2>1, <2>2
<1> QED
  BY <1>6, <1>7

\* A statement on the handle: refused, in effect, or in the work of the transaction whose turn
\* it is.  A request that met its own transaction only, or none, reports it as what it was.
LEMMA ExecuteKeeps ==
  ASSUME ObjectInv, NEW r \in Requests, Execute(r)
  PROVE  ObjectInv'
<1>1. /\ req[r].pc = "run" /\ engine' = engine /\ list' = list /\ now' = now
      /\ cache' = cache
  BY DEF Execute
<1>2. /\ Shapes(r) /\ Running(r) /\ <<r, "applied">> \notin history.audit /\ ObjectTypes
      /\ ~req[r].strayed => Places(r)
  BY <1>1 DEF ObjectInv, ReqOK
<1>3. PICK q, plan, n, old, b, s :
         /\ q = req[r].q /\ plan = req[r].plan /\ n = req[r].step /\ old = req[r].report
         /\ b = pointer /\ s = plan[n]
  OBVIOUS
<1>4. PICK refused \in BOOLEAN : refused <=> Dead(b) \/ Aborted(b) \/ Refuses(Seen(b), s)
  OBVIOUS
<1>5. PICK stops \in BOOLEAN : stops <=> refused /\ ~(engine = "mysql" /\ q.kind = "grant")
  OBVIOUS
<1>6. PICK new : new = Append(old, IF refused THEN "failed" ELSE "applied")
  OBVIOUS
<1>7. plan \in Seq(Range(plan)) /\ old \in Seq({"applied", "failed"})
  BY <1>2, <1>3 DEF Shapes
<1>8. /\ Len(plan) \in Nat /\ DOMAIN plan = 1..Len(plan) /\ n \in 1..Len(plan)
      /\ n \in Nat /\ n # 0 /\ Len(old) = n - 1
  BY <1>2, <1>3, <1>7 DEF Running
<1>9. /\ new \in Seq({"applied", "failed"}) /\ DOMAIN new = 1..n /\ Len(new) = n
      /\ new[n] = IF refused THEN "failed" ELSE "applied"
  BY <1>6, <1>7, <1>8
<1>10. /\ req' = [req EXCEPT ![r].report = new, ![r].step = @ + 1,
                     ![r].strayed = @ \/ b # (IF InTransaction(q) THEN r ELSE None),
                     ![r].pc = IF ~(n = Len(plan) \/ stops) THEN "run"
                               ELSE IF InTransaction(q) THEN "end" ELSE "audit"]
       /\ tx' = IF b = None \/ Dead(b) THEN tx
                ELSE IF refused THEN [tx EXCEPT ![b].state = "failed"]
                ELSE [tx EXCEPT ![b].work = Append(@, [by |-> <<r, n>>, stmt |-> s])]
       /\ \E h : history' = [history EXCEPT
             !.effect = IF ~refused /\ b = None THEN @ \cup {<<r, n>>} ELSE @, !.hit = h]
  BY <1>3, <1>4, <1>5, <1>6 DEF Execute, Runs, Backend
<1>11. /\ history'.effect = IF ~refused /\ b = None THEN history.effect \cup {<<r, n>>} ELSE history.effect
       /\ history'.audit = history.audit
       /\ {"effect", "hit", "audit", "others"} \subseteq DOMAIN history'
  BY <1>10, <1>2 DEF ObjectTypes
<1>12. /\ DOMAIN req = Requests /\ DOMAIN tx = Requests
       /\ DOMAIN req' = Requests /\ DOMAIN tx' = Requests
       /\ \A u \in Requests : u # r => req'[u] = req[u]
       /\ \A t \in Requests : t # b => tx'[t] = tx[t]
  BY <1>2, <1>10 DEF ObjectTypes
<1>13. ASSUME NEW t \in Requests
       PROVE  /\ {"state", "work"} \subseteq DOMAIN tx[t] /\ tx[t].work \in Seq(Range(tx[t].work))
              /\ {"state", "work"} \subseteq DOMAIN tx'[t] /\ tx'[t].work \in Seq(Range(tx'[t].work))
              /\ IF t = b /\ ~refused THEN ByOf(t)' = ByOf(t) \cup {<<r, n>>} ELSE ByOf(t)' = ByOf(t)
  <2>1. {"state", "work"} \subseteq DOMAIN tx[t] /\ tx[t].work \in Seq(Range(tx[t].work))
    BY <1>2 DEF ObjectTypes
  <2>2. CASE t = b /\ ~refused
    <3>1. b # None
      BY <2>2, MenuAssumption DEF None
    <3>2. tx' = [tx EXCEPT ![b].work = Append(@, [by |-> <<r, n>>, stmt |-> s])]
      BY <3>1, <2>2, <1>4, <1>10
    <3>3. /\ tx'[t].work = Append(tx[t].work, [by |-> <<r, n>>, stmt |-> s])
          /\ {"state", "work"} \subseteq DOMAIN tx'[t]
      BY <2>1, <2>2, <3>2, <1>12
    <3>4. PICK e : e = [by |-> <<r, n>>, stmt |-> s]
      OBVIOUS
    <3>5. PICK v : v = tx'[t].work
      OBVIOUS
    <3>6. PICK w : w = tx[t].work
      OBVIOUS
    <3>7. v \in Seq(Range(v)) /\ Bys(v) = Bys(w) \cup {e.by}
      <4>1. w \in Seq(Range(w))
        BY <2>1, <3>6
      <4>2. v = Append(w, e)
        BY <3>3, <3>4, <3>5, <3>6
      <4> QED
        BY <4>1, <4>2, WorkGrows
    <3>8. e.by = <<r, n>>
      BY <3>4
    <3>9. ByOf(t)' = ByOf(t) \cup {<<r, n>>}
      BY <3>5, <3>6, <3>7, <3>8 DEF ByOf, Bys
    <3> QED
      BY <2>1, <2>2, <3>3, <3>5, <3>7, <3>9
  <2>3. CASE ~(t = b /\ ~refused)
    <3>1. tx'[t].work = tx[t].work /\ {"state", "work"} \subseteq DOMAIN tx'[t]
      BY <2>1, <2>3, <1>10, <1>12
    <3>2. ByOf(t)' = ByOf(t)
      BY <3>1 DEF ByOf
    <3> QED
      BY <2>1, <2>3, <3>1, <3>2
  <2> QED
    BY <2>2, <2>3
<1>14. ObjectTypes'
  BY <1>1, <1>2, <1>11, <1>12, <1>13 DEF ObjectTypes
<1>15. /\ req'[r].pc = IF ~(n = Len(plan) \/ stops) THEN "run"
                       ELSE IF InTransaction(q) THEN "end" ELSE "audit"
       /\ req'[r].plan = plan /\ req'[r].step = n + 1 /\ req'[r].report = new /\ req'[r].q = q
       /\ ReqFields \subseteq DOMAIN req'[r]
  BY <1>2, <1>3, <1>10, <1>12 DEF Shapes, ReqFields
<1>16. req'[r].strayed = (req[r].strayed \/ b # (IF InTransaction(q) THEN r ELSE None))
  BY <1>2, <1>10, <1>12 DEF Shapes, ReqFields
<1>17. InTransaction(req[r].q)' <=> InTransaction(q)
  BY <1>1, <1>15 DEF InTransaction
<1>18. req'[r].pc \in {"run", "end", "audit"} /\ (req'[r].pc = "end" => InTransaction(q))
  BY <1>15
<1>19. Shapes(r)'
  <2>1. (ReqFields \subseteq DOMAIN req[r])'
    BY <1>15 DEF ReqFields
  <2>2. (req[r].report \in Seq({"applied", "failed"}))'
    BY <1>9, <1>15
  <2>3. (req[r].plan \in Seq(Range(req[r].plan)))'
    BY <1>7, <1>15
  <2>4. (req[r].strayed \in BOOLEAN)'
    BY <1>16
  <2> QED
    BY <2>1, <2>2, <2>3, <2>4 DEF Shapes
<1>20. req'[r].pc = "run" => Running(r)'
  <2>1. req'[r].pc = "run" => n # Len(plan)
    BY <1>15
  <2>2. n # Len(plan) => n + 1 \in DOMAIN plan
    <3>1. PICK len \in Nat : len = Len(plan) /\ n \in 1..len /\ DOMAIN plan = 1..len
      BY <1>8
    <3>2. n # len => n + 1 \in 1..len
      BY <3>1
    <3> QED
      BY <3>1, <3>2
  <2>3. Len(new) = (n + 1) - 1
    BY <1>8, <1>9
  <2> QED
    BY <2>1, <2>2, <2>3, <1>15 DEF Running
<1>21. req'[r].pc \in {"end", "audit"} => Ends(r)'
  <2>1. req'[r].pc \in {"end", "audit"} => n = Len(plan) \/ refused
    BY <1>5, <1>15
  <2>2. refused => "failed" \in Range(new)
    BY <1>8, <1>9 DEF Range
  <2>3. plan # << >> /\ DOMAIN new \subseteq DOMAIN plan /\ (n = Len(plan) => DOMAIN new = DOMAIN plan)
    <3>1. plan # << >>
      BY <1>7, <1>8
    <3>2. \A i \in 1..n : i \in 1..Len(plan)
      BY <1>8
    <3> QED
      BY <3>1, <3>2, <1>8, <1>9
  <2> QED
    BY <2>1, <2>2, <2>3, <1>15 DEF Ends
<1>22. ASSUME ~req'[r].strayed
       PROVE  Places(r)'
  <2>1. Places(r) /\ b = IF InTransaction(q) THEN r ELSE None
    BY <1>2, <1>16, <1>22
  <2>2. None \notin Requests
    BY MenuAssumption DEF None
  <2>3. CASE InTransaction(q)
    <3>1. b = r /\ Tally(r, ByOf(r)) /\ Clean(r, history.effect) /\ \A t \in Requests \ {r} : Clean(r, ByOf(t))
      BY <1>3, <2>1, <2>3 DEF Places
    <3>2. history'.effect = history.effect /\ \A t \in Requests \ {r} : ByOf(t)' = ByOf(t)
      BY <2>2, <3>1, <1>11, <1>13
    <3>3. ByOf(r)' = ByOf(r) \cup {<<r, i>> : i \in {j \in {n} : ~refused}}
      <4>1. CASE refused
        BY <4>1, <3>1, <1>13
      <4>2. CASE ~refused
        BY <4>2, <3>1, <1>13
      <4> QED
        BY <4>1, <4>2
    <3>4. /\ \A i \in DOMAIN old : old[i] = "applied" <=> <<r, i>> \in ByOf(r)
          /\ \A e \in ByOf(r) : e[1] = r => e[2] \in DOMAIN old
      BY <3>1, <1>3 DEF Tally
    <3>5. PICK grown : grown = ByOf(r)'
      OBVIOUS
    <3>6. /\ \A i \in DOMAIN new : new[i] = "applied" <=> <<r, i>> \in grown
          /\ \A e \in grown : e[1] = r => e[2] \in DOMAIN new
      BY <3>3, <3>4, <3>5, <1>6, <1>7, <1>8, TallyGrows
    <3>7. Tally(r, ByOf(r))'
      BY <3>5, <3>6, <1>15 DEF Tally
    <3> QED
      BY <3>1, <3>2, <3>7, <2>3, <1>17 DEF Places
  <2>4. CASE ~InTransaction(q)
    <3>1. b = None /\ Tally(r, history.effect) /\ \A t \in Requests : Clean(r, ByOf(t))
      BY <1>3, <2>1, <2>4 DEF Places
    <3>2. \A t \in Requests : ByOf(t)' = ByOf(t)
      BY <2>2, <3>1, <1>13
    <3>3. history'.effect = history.effect \cup {<<r, i>> : i \in {j \in {n} : ~refused}}
      <4>1. CASE refused
        BY <4>1, <3>1, <1>11
      <4>2. CASE ~refused
        BY <4>2, <3>1, <1>11
      <4> QED
        BY <4>1, <4>2
    <3>4. /\ \A i \in DOMAIN old : old[i] = "applied" <=> <<r, i>> \in history.effect
          /\ \A e \in history.effect : e[1] = r => e[2] \in DOMAIN old
      BY <3>1, <1>3 DEF Tally
    <3>5. PICK grown : grown = history'.effect
      OBVIOUS
    <3>6. /\ \A i \in DOMAIN new : new[i] = "applied" <=> <<r, i>> \in grown
          /\ \A e \in grown : e[1] = r => e[2] \in DOMAIN new
      BY <3>3, <3>4, <3>5, <1>6, <1>7, <1>8, TallyGrows
    <3>7. Tally(r, history.effect)'
      BY <3>5, <3>6, <1>15 DEF Tally
    <3> QED
      BY <3>1, <3>2, <3>7, <2>4, <1>17 DEF Places
  <2> QED
    BY <2>3, <2>4
<1>23. req'[r].pc = "audit" /\ ~req'[r].strayed => Settles(r)'
  <2>1. req'[r].pc = "audit" => ~InTransaction(q)
    BY <1>15
  <2> QED
    BY <2>1, <1>17, <1>22 DEF Places, Settles, Tally
<1>24. ReqOK(r)' /\ ~Succeeded(r)'
  BY <1>2, <1>11, <1>17, <1>18, <1>19, <1>20, <1>21, <1>22, <1>23 DEF ReqOK, Succeeded
<1>25. /\ history.effect \subseteq history'.effect
       /\ \A e \in history'.effect : e \in history.effect \/ e[1] = r
       /\ \A t \in Requests : \A e \in ByOf(t)' : e \in ByOf(t) \/ e[1] = r
       /\ \A u \in Requests : u # r => ByOf(u) \subseteq ByOf(u)'
  BY <1>11, <1>13
<1> QED
  BY <1>1, <1>11, <1>12, <1>14, <1>24, <1>25, RequestStep

\* The end of a transaction: its work takes effect whole, as it was reported, or none of it and
\* every statement is reported as failed.
LEMMA EndKeeps ==
  ASSUME ObjectInv, NEW r \in Requests, End(r)
  PROVE  ObjectInv'
<1>1. /\ req[r].pc = "end" /\ engine' = engine /\ list' = list /\ now' = now
      /\ cache' = cache
  BY DEF End
<1>2. /\ Shapes(r) /\ Ends(r) /\ <<r, "applied">> \notin history.audit /\ ObjectTypes
      /\ InTransaction(req[r].q)
      /\ ~req[r].strayed => Places(r)
  BY <1>1 DEF ObjectInv, ReqOK
<1>3. PICK q, plan, old : q = req[r].q /\ plan = req[r].plan /\ old = req[r].report
  OBVIOUS
<1>20. PICK lost \in BOOLEAN :
         LET failed == lost \/ "failed" \in Range(req[r].report)
             aborted == tx[r].state = "failed"
             stands == ~failed /\ ~aborted
         IN  /\ history' = [history EXCEPT !.effect =
                    IF stands THEN @ \cup {tx[r].work[i].by : i \in DOMAIN tx[r].work} ELSE @]
             /\ req' = [req EXCEPT ![r].pc = "audit", ![r].report = Reported(r, failed),
                                   ![r].strayed = @ \/ (aborted /\ ~failed)]
  BY Zenon DEF End
<1> DEFINE failed == lost \/ "failed" \in Range(old)
           aborted == tx[r].state = "failed"
<1>4. /\ failed \in BOOLEAN /\ aborted \in BOOLEAN
      /\ "failed" \in Range(old) => failed
      /\ history' = [history EXCEPT !.effect = IF ~failed /\ ~aborted THEN @ \cup ByOf(r) ELSE @]
      /\ req' = [req EXCEPT ![r].pc = "audit", ![r].report = Reported(r, failed),
                            ![r].strayed = @ \/ (aborted /\ ~failed)]
  <2>1. failed \in BOOLEAN
    BY SMT
  <2>2. aborted \in BOOLEAN
    BY SMT
  <2>3. "failed" \in Range(old) => failed
    BY Zenon
  <2>4. /\ history' = [history EXCEPT !.effect = IF ~failed /\ ~aborted THEN @ \cup ByOf(r) ELSE @]
        /\ req' = [req EXCEPT ![r].pc = "audit", ![r].report = Reported(r, failed),
                              ![r].strayed = @ \/ (aborted /\ ~failed)]
    BY <1>3, <1>20, Zenon DEF ByOf
  <2> HIDE DEF failed, aborted
  <2> QED
    BY <2>1, <2>2, <2>3, <2>4
<1> HIDE DEF failed, aborted
<1>5. PICK new : new = IF failed THEN [i \in DOMAIN plan |-> "failed"] ELSE old
  OBVIOUS
<1>6. plan \in Seq(Range(plan)) /\ old \in Seq({"applied", "failed"})
  BY <1>2, <1>3 DEF Shapes
<1>7. /\ plan # << >> /\ DOMAIN old \subseteq DOMAIN plan
      /\ "failed" \notin Range(old) => DOMAIN old = DOMAIN plan
  BY <1>2, <1>3 DEF Ends
<1>8. new \in Seq({"applied", "failed"}) /\ DOMAIN new = DOMAIN plan
  <2>1. Len(plan) \in Nat /\ DOMAIN plan = 1..Len(plan)
    BY <1>6
  <2>2. CASE failed
    BY <2>1, <2>2, <1>5
  <2>3. CASE ~failed
    <3>1. "failed" \notin Range(old) /\ new = old
      BY <2>3, <1>4, <1>5
    <3> QED
      BY <3>1, <1>6, <1>7
  <2> QED
    BY <2>2, <2>3
<1>9. /\ history' = [history EXCEPT !.effect = IF ~failed /\ ~aborted THEN @ \cup ByOf(r) ELSE @]
      /\ req' = [req EXCEPT ![r].pc = "audit", ![r].report = new,
                            ![r].strayed = @ \/ (aborted /\ ~failed)]
      /\ tx' = [tx EXCEPT ![r] = [@ EXCEPT !.state = "closed", !.work = << >>]]
  BY <1>3, <1>4, <1>5 DEF End, Reported, ByOf
<1>10. /\ history'.effect = IF ~failed /\ ~aborted THEN history.effect \cup ByOf(r) ELSE history.effect
       /\ history'.audit = history.audit
       /\ {"effect", "hit", "audit", "others"} \subseteq DOMAIN history'
  BY <1>9, <1>2 DEF ObjectTypes
<1>11. /\ DOMAIN req = Requests /\ DOMAIN tx = Requests
       /\ DOMAIN req' = Requests /\ DOMAIN tx' = Requests
       /\ \A u \in Requests : u # r => req'[u] = req[u] /\ tx'[u] = tx[u]
       /\ {"state", "work"} \subseteq DOMAIN tx[r]
       /\ {"state", "work"} \subseteq DOMAIN tx'[r] /\ tx'[r].work = << >>
  BY <1>2, <1>9 DEF ObjectTypes
<1>12. ByOf(r)' = {} /\ \A u \in Requests : u # r => ByOf(u)' = ByOf(u)
  <2>1. DOMAIN tx'[r].work = {}
    BY <1>11
  <2> QED
    BY <2>1, <1>11 DEF ByOf
<1>13. ObjectTypes'
  <2>1. << >> \in Seq(Range(<< >>))
    OBVIOUS
  <2>2. \A t \in Requests : {"state", "work"} \subseteq DOMAIN tx'[t] /\ tx'[t].work \in Seq(Range(tx'[t].work))
    BY <2>1, <1>2, <1>11 DEF ObjectTypes
  <2> QED
    BY <2>2, <1>1, <1>2, <1>10, <1>11 DEF ObjectTypes
<1>14. /\ req'[r].pc = "audit" /\ req'[r].plan = plan /\ req'[r].report = new /\ req'[r].q = q
       /\ req'[r].strayed = (req[r].strayed \/ (aborted /\ ~failed))
       /\ ReqFields \subseteq DOMAIN req'[r]
  BY <1>2, <1>3, <1>9, <1>11 DEF Shapes, ReqFields
<1>15. Shapes(r)'
  <2>1. (ReqFields \subseteq DOMAIN req[r])'
    BY <1>14 DEF ReqFields
  <2>2. (req[r].report \in Seq({"applied", "failed"}))'
    BY <1>8, <1>14
  <2>3. (req[r].plan \in Seq(Range(req[r].plan)))'
    BY <1>6, <1>14
  <2>4. (req[r].strayed \in BOOLEAN)'
    BY <1>2, <1>14 DEF Shapes
  <2> QED
    BY <2>1, <2>2, <2>3, <2>4 DEF Shapes
<1>16. Ends(r)'
  BY <1>7, <1>8, <1>14 DEF Ends
<1>17. ~req'[r].strayed => Settles(r)'
  <2>1. SUFFICES ASSUME ~req'[r].strayed
                 PROVE  Settles(r)'
    OBVIOUS
  <2>2. /\ Tally(r, ByOf(r)) /\ Clean(r, history.effect)
        /\ \A t \in Requests \ {r} : Clean(r, ByOf(t))
    <3>1. ~req[r].strayed /\ ~(aborted /\ ~failed)
      BY <1>14, <2>1
    <3> QED
      BY <1>2, <3>1 DEF Places
  <2>3. \A t \in Requests : Clean(r, ByOf(t))'
    <3>1. Clean(r, ByOf(r))'
      BY <1>12 DEF Clean
    <3> QED
      BY <3>1, <2>2, <1>12
  <2>4. \A i : <<r, i>> \notin history.effect
    BY <2>2 DEF Clean
  <2>5. \A i \in DOMAIN new : new[i] = "applied" <=> <<r, i>> \in history'.effect
    <3>1. CASE failed
      BY <3>1, <2>4, <1>5, <1>10
    <3>2. CASE ~failed
      <4>1. history'.effect = history.effect \cup ByOf(r)
        BY <3>2, <2>1, <1>10, <1>14
      <4> QED
        BY <4>1, <3>2, <2>2, <2>4, <1>3, <1>5 DEF Tally
    <3> QED
      BY <3>1, <3>2
  <2> QED
    BY <2>3, <2>5, <1>14 DEF Settles
<1>18. ReqOK(r)' /\ ~Succeeded(r)'
  BY <1>2, <1>10, <1>14, <1>15, <1>16, <1>17 DEF ReqOK, Succeeded
<1>19. /\ history.effect \subseteq history'.effect
       /\ \A e \in history'.effect : e \in history.effect \/ e \in ByOf(r)
       /\ \A t \in Requests : \A e \in ByOf(t)' : e \in ByOf(t) \/ e[1] = r
       /\ \A u \in Requests : u # r => ByOf(u) \subseteq ByOf(u)'
  BY <1>10, <1>12
<1> QED
  BY <1>1, <1>10, <1>11, <1>13, <1>18, <1>19, RequestStep

\* The answer: the audit log says of the statements what the report says, and an operation
\* that is reported as successful leaves no page in the cache.
LEMMA AnswerKeeps ==
  ASSUME ObjectInv, NEW r \in Requests, Answer(r)
  PROVE  ObjectInv'
<1>1. /\ req[r].pc = "audit" /\ engine' = engine /\ list' = list /\ now' = now
      /\ tx' = tx
  BY DEF Answer
<1>2. /\ Shapes(r) /\ Ends(r) /\ <<r, "applied">> \notin history.audit /\ ObjectTypes
      /\ ~req[r].strayed => Settles(r)
  BY <1>1 DEF ObjectInv, ReqOK
<1>3. PICK q, plan, rep : q = req[r].q /\ plan = req[r].plan /\ rep = req[r].report
  OBVIOUS
<1>4. PICK ok \in BOOLEAN : ok = (~("failed" \in Range(rep)) \/ q.kind = "grant")
  OBVIOUS
<1>5. PICK written \in BOOLEAN :
        /\ req' = [req EXCEPT ![r].pc = "done",
                      ![r].outcome = IF ~ok THEN "failed" ELSE IF written THEN "ok" ELSE "unaudited"]
        /\ history' = [history EXCEPT !.audit = IF ~written THEN @ ELSE @ \cup
                          (IF q.kind = "grant" THEN {<<r, rep[i]>> : i \in DOMAIN rep}
                           ELSE {<<r, IF ok THEN "applied" ELSE "failure">>})]
        /\ cache' = IF ok /\ (q.kind = "view" \/ (written /\ q.kind \in {"database", "schema", "table"}))
                    THEN << >> ELSE cache
  <2>1. PICK written \in BOOLEAN :
          /\ req' = [req EXCEPT ![r].pc = "done",
                        ![r].outcome = IF ~(~Failed(r) \/ q.kind = "grant") THEN "failed"
                                       ELSE IF written THEN "ok" ELSE "unaudited"]
          /\ history' = [history EXCEPT !.audit = IF ~written THEN @ ELSE @ \cup
                            (IF q.kind = "grant"
                             THEN {<<r, req[r].report[i]>> : i \in DOMAIN req[r].report}
                             ELSE {<<r, IF ~Failed(r) \/ q.kind = "grant" THEN "applied" ELSE "failure">>})]
          /\ cache' = IF /\ ~Failed(r) \/ q.kind = "grant"
                         /\ q.kind = "view" \/ (written /\ q.kind \in {"database", "schema", "table"})
                      THEN << >> ELSE cache
    BY <1>3 DEF Answer, Invalidated
  <2>2. ok <=> ~Failed(r) \/ q.kind = "grant"
    BY <1>3, <1>4 DEF Failed
  <2>3. req' = [req EXCEPT ![r].pc = "done",
                  ![r].outcome = IF ~ok THEN "failed" ELSE IF written THEN "ok" ELSE "unaudited"]
    BY <2>1, <2>2
  <2>4. history' = [history EXCEPT !.audit = IF ~written THEN @ ELSE @ \cup
                      (IF q.kind = "grant" THEN {<<r, rep[i]>> : i \in DOMAIN rep}
                       ELSE {<<r, IF ok THEN "applied" ELSE "failure">>})]
    BY <2>1, <2>2, <1>3
  <2>5. cache' = IF ok /\ (q.kind = "view" \/ (written /\ q.kind \in {"database", "schema", "table"}))
                 THEN << >> ELSE cache
    BY <2>1, <2>2
  <2> QED
    BY <2>3, <2>4, <2>5
<1>6. /\ history'.effect = history.effect
      /\ {"effect", "hit", "audit", "others"} \subseteq DOMAIN history'
      /\ \A e \in history'.audit : e \in history.audit \/ e[1] = r
      /\ <<r, "applied">> \in history'.audit =>
            IF q.kind = "grant" THEN \E i \in DOMAIN rep : rep[i] = "applied" ELSE ok
  <2>1. {"effect", "hit", "audit", "others"} \subseteq DOMAIN history
    BY <1>2 DEF ObjectTypes
  <2>2. CASE ~written
    BY <2>1, <2>2, <1>2, <1>5
  <2>3. CASE written /\ q.kind = "grant"
    BY <2>1, <2>3, <1>2, <1>5
  <2>4. CASE written /\ q.kind # "grant"
    BY <2>1, <2>4, <1>2, <1>5
  <2> QED
    BY <2>2, <2>3, <2>4
<1>7. DOMAIN req = Requests /\ DOMAIN req' = Requests /\ \A u \in Requests : u # r => req'[u] = req[u]
  BY <1>2, <1>5 DEF ObjectTypes
<1>8. /\ req'[r].pc = "done" /\ req'[r].plan = plan /\ req'[r].report = rep /\ req'[r].q = q
      /\ req'[r].strayed = req[r].strayed /\ ReqFields \subseteq DOMAIN req'[r]
      /\ req'[r].outcome = IF ~ok THEN "failed" ELSE IF written THEN "ok" ELSE "unaudited"
  BY <1>2, <1>3, <1>5, <1>7 DEF Shapes, ReqFields
<1>9. plan \in Seq(Range(plan)) /\ rep \in Seq({"applied", "failed"})
  BY <1>2, <1>3 DEF Shapes
<1>10. /\ plan # << >> /\ DOMAIN rep \subseteq DOMAIN plan
       /\ "failed" \notin Range(rep) => DOMAIN rep = DOMAIN plan
  BY <1>2, <1>3 DEF Ends
<1>11. "failed" \notin Range(rep) => \A i \in DOMAIN rep : rep[i] = "applied"
  <2>1. \A i \in DOMAIN rep : rep[i] \in {"applied", "failed"}
    BY <1>9
  <2> QED
    BY <2>1 DEF Range
<1>12. Shapes(r)'
  <2>1. (ReqFields \subseteq DOMAIN req[r])'
    BY <1>8 DEF ReqFields
  <2>2. (req[r].report \in Seq({"applied", "failed"}))'
    BY <1>8, <1>9
  <2>3. (req[r].plan \in Seq(Range(req[r].plan)))'
    BY <1>8, <1>9
  <2>4. (req[r].strayed \in BOOLEAN)'
    BY <1>2, <1>8 DEF Shapes
  <2> QED
    BY <2>1, <2>2, <2>3, <2>4 DEF Shapes
<1>13. ~req'[r].strayed => /\ \A t \in Requests : Clean(r, ByOf(t))
                           /\ \A i \in DOMAIN rep : rep[i] = "applied" <=> <<r, i>> \in history.effect
  BY <1>2, <1>3, <1>8 DEF Settles
<1>14. ~req'[r].strayed => Settles(r)'
  <2>1. \A t \in Requests : ByOf(t)' = ByOf(t)
    BY <1>1 DEF ByOf
  <2> QED
    BY <2>1, <1>6, <1>8, <1>13 DEF Settles
<1>15. Succeeded(r)' =>
         /\ "failed" \notin Range(rep) /\ ok /\ written
         /\ q.kind \in Objects /\ cache' = << >>
  <2>1. Succeeded(r)' => ok /\ written /\ q.kind \in Objects
    BY <1>8 DEF Succeeded, Objects
  <2>2. q.kind \in Objects /\ ok => "failed" \notin Range(rep)
    BY <1>4 DEF Objects
  <2>3. q.kind \in Objects /\ ok /\ written => cache' = << >>
    BY <1>5 DEF Objects
  <2> QED
    BY <2>1, <2>2, <2>3
<1>16. /\ <<r, "applied">> \in history'.audit
       /\ ~req'[r].strayed
       => \E i \in DOMAIN plan : <<r, i>> \in history'.effect
  <2>1. SUFFICES ASSUME <<r, "applied">> \in history'.audit, ~req'[r].strayed
                 PROVE  \E i \in DOMAIN plan : <<r, i>> \in history.effect
    BY <1>6
  <2>2. PICK i \in DOMAIN rep : rep[i] = "applied"
    <3>1. CASE q.kind = "grant"
      BY <3>1, <2>1, <1>6
    <3>2. CASE q.kind # "grant"
      <4>1. "failed" \notin Range(rep)
        BY <3>2, <2>1, <1>4, <1>6
      <4>2. 1 \in DOMAIN plan
        BY <1>9, <1>10
      <4> QED
        BY <4>1, <4>2, <1>10, <1>11
    <3> QED
      BY <3>1, <3>2
  <2> QED
    BY <2>1, <2>2, <1>10, <1>13
<1>17. ReqOK(r)'
  <2>1. req'[r].pc = "done" /\ (~req'[r].strayed => Settles(r)')
    BY <1>8, <1>14
  <2>2. Succeeded(r)' => /\ DOMAIN req'[r].report = DOMAIN req'[r].plan
                         /\ \A i \in DOMAIN req'[r].report : req'[r].report[i] = "applied"
    BY <1>8, <1>10, <1>11, <1>15
  <2>3. <<r, "applied">> \in history'.audit /\ ~req'[r].strayed =>
          \E i \in DOMAIN req'[r].plan : <<r, i>> \in history'.effect
    BY <1>8, <1>16
  <2> QED
    BY <2>1, <2>2, <2>3, <1>12 DEF ReqOK
<1>18. cache' = cache \/ cache' = << >>
  BY <1>5
<1> QED
  BY <1>1, <1>6, <1>7, <1>15, <1>17, <1>18, QuietStep

\* What is said of the requests stays while none of them takes a step.
LEMMA RequestsKept ==
  ASSUME ObjectInv, req' = req, tx' = tx, engine' = engine, now' \in Int,
         history'.effect = history.effect, history'.audit = history.audit,
         {"effect", "hit", "audit", "others"} \subseteq DOMAIN history'
  PROVE  ObjectTypes' /\ \A r \in Requests : ReqOK(r)'
<1>1. ObjectTypes'
  BY DEF ObjectInv, ObjectTypes
<1>2. \A t \in Requests : ByOf(t)' = ByOf(t)
  BY DEF ByOf
<1>3. ASSUME NEW r \in Requests
      PROVE  ReqOK(r)'
  <2>1. ReqOK(r)
    BY DEF ObjectInv
  <2>2. InTransaction(req[r].q)' <=> InTransaction(req[r].q)
    BY DEF InTransaction
  <2>3. (Shapes(r)' <=> Shapes(r)) /\ (Running(r)' <=> Running(r)) /\ (Ends(r)' <=> Ends(r))
        /\ (Succeeded(r)' <=> Succeeded(r))
    BY DEF Shapes, Running, Ends, Succeeded
  <2>4. Fresh(r) => Fresh(r)'
    BY <1>2 DEF Fresh
  <2>5. Settles(r) => Settles(r)'
    BY <1>2 DEF Settles
  <2>6. Places(r) => Places(r)'
    <3>1. Tally(r, ByOf(r)) => Tally(r, ByOf(r))'
      BY <1>2 DEF Tally
    <3>2. Tally(r, history.effect) => Tally(r, history.effect)'
      BY DEF Tally
    <3> QED
      BY <1>2, <2>2, <3>1, <3>2 DEF Places
  <2> QED
    BY <2>1, <2>2, <2>3, <2>4, <2>5, <2>6 DEF ReqOK
<1> QED
  BY <1>1, <1>3

\* The explorer asks for a page: from the cache, or it begins to load one.
LEMMA ListKeeps ==
  ASSUME ObjectInv, List
  PROVE  ObjectInv'
<1>1. /\ req' = req /\ tx' = tx /\ engine' = engine /\ now' = now /\ history' = history
      /\ cache' = cache \/ cache' = << >>
      /\ \/ list' = list
         \/ \E offset : list' = [pc |-> "load", offset |-> offset, began |-> now, over |-> Over]
  BY DEF List, Invalidated
<1>2. ObjectTypes /\ ListOK /\ CacheOK
  BY DEF ObjectInv
<1>3. ObjectTypes' /\ \A r \in Requests : ReqOK(r)'
  <2>1. now' \in Int /\ {"effect", "hit", "audit", "others"} \subseteq DOMAIN history'
    BY <1>1, <1>2 DEF ObjectTypes
  <2> QED
    BY <1>1, <2>1, RequestsKept
<1>4. ListOK'
  <2>1. CASE list' = list
    BY <2>1, <1>1, <1>2 DEF ListOK, Succeeded
  <2>2. ASSUME NEW offset, list' = [pc |-> "load", offset |-> offset, began |-> now, over |-> Over]
        PROVE  ListOK'
    <3>1. list'.pc = "load" /\ list'.began = now /\ list'.over = Over
      BY <2>2
    <3>2. \A r \in Over \cap Requests : req[r].pc = "done"
      BY DEF Over
    <3>3. now \in Int /\ now <= now
      BY <1>2 DEF ObjectTypes
    <3> QED
      BY <3>1, <3>2, <3>3, <1>1 DEF ListOK
  <2> QED
    BY <1>1, <2>1, <2>2
<1>5. CacheOK'
  <2>1. CASE cache' = cache
    BY <2>1, <1>1, <1>2 DEF CacheOK, OwnChangesAreShown
  <2>2. CASE cache' = << >>
    BY <2>2 DEF CacheOK, OwnChangesAreShown
  <2> QED
    BY <1>1, <2>1, <2>2
<1> QED
  BY <1>3, <1>4, <1>5 DEF ObjectInv

\* The catalog query: what it reads shows every change that was answered with success.
LEMMA LoadKeeps ==
  ASSUME ObjectInv, Load
  PROVE  ObjectInv'
<1>1. /\ req' = req /\ tx' = tx /\ engine' = engine /\ now' = now /\ history' = history
      /\ cache' = cache /\ list.pc = "load"
  BY DEF Load
<1>2. ObjectTypes /\ ListOK /\ CacheOK
  BY DEF ObjectInv
<1>3. ObjectTypes' /\ \A r \in Requests : ReqOK(r)'
  <2>1. now' \in Int /\ {"effect", "hit", "audit", "others"} \subseteq DOMAIN history'
    BY <1>1, <1>2 DEF ObjectTypes
  <2> QED
    BY <1>1, <2>1, RequestsKept
<1>4. ListOK'
  <2>1. CASE list' = [pc |-> "idle"]
    BY <2>1 DEF ListOK
  <2>2. CASE list' = [pc |-> "store", offset |-> list.offset, began |-> list.began,
                      over |-> list.over, loaded |-> Loaded(list.offset)]
    <3>1. PICK answer : answer = Loaded(list.offset)
      OBVIOUS
    <3>2. answer.at = now /\ history.effect \subseteq answer.shows
      BY <3>1 DEF Loaded
    <3>3. /\ list.began \in Int /\ list.began <= now
          /\ \A r \in list.over \cap Requests : req[r].pc = "done"
      BY <1>1, <1>2 DEF ListOK
    <3>4. /\ list'.pc = "store" /\ list'.began = list.began /\ list'.over = list.over
          /\ list'.loaded = answer
      BY <2>2, <3>1
    <3>5. ASSUME NEW r \in Requests, Succeeded(r), ~req[r].strayed, NEW i \in DOMAIN req[r].plan
          PROVE  <<r, i>> \in history.effect
      <4>1. ReqOK(r) /\ req[r].pc = "done"
        BY <3>5 DEF ObjectInv, Succeeded
      <4>2. /\ Settles(r) /\ DOMAIN req[r].report = DOMAIN req[r].plan
            /\ \A j \in DOMAIN req[r].report : req[r].report[j] = "applied"
        BY <3>5, <4>1 DEF ReqOK
      <4> QED
        BY <4>2 DEF Settles
    <3>6. \A r \in list.over \cap Requests : Succeeded(r) /\ ~req[r].strayed =>
             \A i \in DOMAIN req[r].plan : <<r, i>> \in answer.shows
      BY <3>2, <3>5
    <3>7. answer.at \in Int /\ list.began <= answer.at
      BY <1>2, <3>2, <3>3 DEF ObjectTypes
    <3>8. \A r : Succeeded(r)' <=> Succeeded(r)
      BY <1>1 DEF Succeeded
    <3> QED
      BY <1>1, <3>2, <3>3, <3>4, <3>6, <3>7, <3>8 DEF ListOK
  <2> QED
    BY <2>1, <2>2 DEF Load
<1>5. CacheOK'
  BY <1>1, <1>2 DEF CacheOK, OwnChangesAreShown
<1> QED
  BY <1>3, <1>4, <1>5 DEF ObjectInv

\* The page is kept: it is out of date for the requests that were not over when its load began,
\* and expires TTL after that.
LEMMA StoreKeeps ==
  ASSUME ObjectInv, Store
  PROVE  ObjectInv'
<1>1. /\ req' = req /\ tx' = tx /\ engine' = engine /\ now' = now /\ history' = history
      /\ list.pc = "store" /\ list' = [pc |-> "idle"]
  BY DEF Store
<1>2. ObjectTypes /\ ListOK /\ CacheOK
  BY DEF ObjectInv
<1>3. ObjectTypes' /\ \A r \in Requests : ReqOK(r)'
  <2>1. now' \in Int /\ {"effect", "hit", "audit", "others"} \subseteq DOMAIN history'
    BY <1>1, <1>2 DEF ObjectTypes
  <2> QED
    BY <1>1, <2>1, RequestsKept
<1>4. ListOK'
  BY <1>1 DEF ListOK
<1>5. CacheOK'
  <2>1. CASE cache' = cache
    BY <2>1, <1>1, <1>2 DEF CacheOK, OwnChangesAreShown
  <2>2. CASE cache' = [o \in DOMAIN cache \cup {list.offset} |->
                         IF o = list.offset
                         THEN [expires |-> Expires(list.began), raced |-> Asked \ list.over,
                               page |-> list.loaded.page, at |-> list.loaded.at,
                               shows |-> list.loaded.shows]
                         ELSE cache[o]]
    <3>1. PICK new, answer : /\ answer = list.loaded
                           /\ new = [expires |-> Expires(list.began), raced |-> Asked \ list.over,
                                     page |-> answer.page, at |-> answer.at, shows |-> answer.shows]
      OBVIOUS
    <3>2. /\ answer.at \in Int /\ list.began <= answer.at /\ list.began \in Int
          /\ \A r \in list.over \cap Requests : req[r].pc = "done"
          /\ \A r \in list.over \cap Requests : Succeeded(r) /\ ~req[r].strayed =>
               \A i \in DOMAIN req[r].plan : <<r, i>> \in answer.shows
      BY <1>1, <1>2, <3>1 DEF ListOK
    <3>3. /\ new.at = answer.at /\ new.shows = answer.shows
          /\ new.expires = Expires(list.began) /\ new.raced = Asked \ list.over
      BY <3>1
    <3>4. new.expires \in Int /\ new.expires <= new.at + TTL /\ new.at \in Int
      <4>1. Ttl \in {0, TTL} /\ TTL \in Nat
        BY ObjectAssumption DEF Ttl
      <4> QED
        BY <3>2, <3>3, <4>1 DEF Expires
    <3>5. ASSUME NEW r \in Requests, req[r].pc = "done", req[r].outcome = "ok", ~req[r].strayed,
                 req[r].q.kind \in Objects, r \notin new.raced
          PROVE  \A i \in DOMAIN req[r].plan : <<r, i>> \in new.shows
      <4>1. r \in Asked
        BY <3>5 DEF Asked
      <4>2. r \in list.over
        BY <3>3, <3>5, <4>1
      <4>3. Succeeded(r)
        BY <3>5 DEF Succeeded
      <4> QED
        BY <3>2, <3>3, <3>5, <4>2, <4>3
    <3>6. \A p \in DOMAIN cache' : cache'[p] = new \/ (p \in DOMAIN cache /\ cache'[p] = cache[p])
      BY <2>2, <3>1
    <3>7. \A p \in DOMAIN cache' : /\ cache'[p].at \in Int /\ cache'[p].expires \in Int
                                   /\ cache'[p].expires <= cache'[p].at + TTL
      BY <1>2, <3>4, <3>6 DEF CacheOK
    <3>8. OwnChangesAreShown'
      <4>1. ASSUME NEW p \in DOMAIN cache', NEW r \in Requests,
                   req[r].pc = "done", req[r].outcome = "ok", ~req[r].strayed,
                   req[r].q.kind \in Objects, r \notin cache'[p].raced
            PROVE  \A i \in DOMAIN req[r].plan : <<r, i>> \in cache'[p].shows
        <5>1. CASE cache'[p] = new
          BY <3>5, <4>1, <5>1
        <5>2. CASE p \in DOMAIN cache /\ cache'[p] = cache[p]
          BY <1>2, <4>1, <5>2 DEF CacheOK, OwnChangesAreShown, Objects
        <5> QED
          BY <3>6, <5>1, <5>2
      <4> QED
        BY <4>1, <1>1 DEF OwnChangesAreShown, Objects
    <3> QED
      BY <3>7, <3>8 DEF CacheOK
  <2> QED
    BY <2>1, <2>2 DEF Store
<1> QED
  BY <1>3, <1>4, <1>5 DEF ObjectInv

\* Other clients and the clock.
LEMMA ElsewhereKeeps ==
  ASSUME ObjectInv, Other \/ Tick \/ UNCHANGED vars
  PROVE  ObjectInv'
<1>1. ObjectTypes /\ ListOK /\ CacheOK
  BY DEF ObjectInv
<1>2. /\ req' = req /\ tx' = tx /\ engine' = engine /\ list' = list /\ cache' = cache
      /\ now' = now \/ now' = now + 1
      /\ history'.effect = history.effect /\ history'.audit = history.audit
      /\ {"effect", "hit", "audit", "others"} \subseteq DOMAIN history'
  <2>1. CASE Other
    BY <1>1, <2>1 DEF Other, ObjectTypes
  <2>2. CASE Tick
    BY <1>1, <2>2 DEF Tick, ObjectTypes
  <2>3. CASE UNCHANGED vars
    BY <1>1, <2>3 DEF vars, ObjectTypes
  <2> QED
    BY <2>1, <2>2, <2>3
<1>3. now' \in Int /\ now <= now'
  BY <1>1, <1>2 DEF ObjectTypes
<1>4. ObjectTypes' /\ \A r \in Requests : ReqOK(r)'
  BY <1>2, <1>3, RequestsKept
<1>5. ListOK'
  <2>1. list.began \in Int /\ list.began <= now => list.began <= now'
    BY <1>1, <1>3 DEF ObjectTypes
  <2> QED
    BY <1>1, <1>2, <2>1 DEF ListOK, Succeeded
<1>6. CacheOK'
  BY <1>1, <1>2 DEF CacheOK, OwnChangesAreShown
<1> QED
  BY <1>4, <1>5, <1>6 DEF ObjectInv

\* Nothing was asked yet.
LEMMA InitObjects == Init => ObjectInv
<1> SUFFICES ASSUME Init PROVE ObjectInv
  OBVIOUS
<1>1. /\ req = [r \in Requests |-> NoRequest] /\ tx = [r \in Requests |-> NoTx]
      /\ cache = << >> /\ list = [pc |-> "idle"] /\ now = 0
      /\ history = [effect |-> {}, hit |-> {}, audit |-> {}, others |-> MaxOthers]
  BY DEF Init
<1>2. \A r \in Requests : req[r].pc = "idle" /\ ByOf(r) = {}
  BY <1>1 DEF NoRequest, NoTx, ByOf
<1>3. ObjectTypes
  <2>1. << >> \in Seq(Range(<< >>))
    OBVIOUS
  <2>2. \A t \in Requests : tx[t] = [state |-> "none", work |-> << >>]
    BY <1>1 DEF NoTx
  <2>3. \A t \in Requests : {"state", "work"} \subseteq DOMAIN tx[t] /\ tx[t].work \in Seq(Range(tx[t].work))
    <3> TAKE t \in Requests
    <3>1. {"state", "work"} \subseteq DOMAIN tx[t] /\ tx[t].work = << >>
      BY <2>2
    <3> QED
      BY <2>1, <3>1
  <2> QED
    BY <1>1, <2>3 DEF ObjectTypes
<1>4. \A r \in Requests : ReqOK(r)
  BY <1>1, <1>2 DEF ReqOK, Fresh, Clean, Succeeded
<1>5. ListOK /\ CacheOK
  BY <1>1 DEF ListOK, CacheOK, OwnChangesAreShown
<1> QED
  BY <1>3, <1>4, <1>5 DEF ObjectInv

\* Every step of management keeps its invariant.
LEMMA NextObjects == ObjectInv /\ [Next]_vars => ObjectInv'
<1> SUFFICES ASSUME ObjectInv, [Next]_vars PROVE ObjectInv'
  OBVIOUS
<1>1. ASSUME NEW r \in Requests,
             Ask(r) \/ Inspect(r) \/ Begin(r) \/ Execute(r) \/ End(r) \/ Answer(r)
      PROVE  ObjectInv'
  BY <1>1, AskKeeps, InspectKeeps, BeginKeeps, ExecuteKeeps, EndKeeps, AnswerKeeps
<1>2. CASE List
  BY <1>2, ListKeeps
<1>3. CASE Load
  BY <1>3, LoadKeeps
<1>4. CASE Store
  BY <1>4, StoreKeeps
<1>5. CASE Other \/ Tick \/ UNCHANGED vars
  BY <1>5, ElsewhereKeeps
<1> QED
  BY <1>1, <1>2, <1>3, <1>4, <1>5 DEF Next

\* What the invariant says of the answers.
LEMMA AnswersFollow == ObjectInv => AnswersAreTrue
<1> SUFFICES ASSUME ObjectInv PROVE AnswersAreTrue
  OBVIOUS
<1>1. OwnChangesAreShown
  BY DEF ObjectInv, CacheOK
<1>2. AnswersAreRecent
  <2>1. ASSUME NEW p \in DOMAIN cache, cache[p].expires > now
        PROVE  now - cache[p].at < TTL
    <3>1. /\ cache[p].at \in Int /\ cache[p].expires \in Int /\ now \in Int
          /\ cache[p].expires <= cache[p].at + TTL
      BY DEF ObjectInv, CacheOK, ObjectTypes
    <3> QED
      BY <2>1, <3>1, ObjectAssumption
  <2> QED
    BY <2>1 DEF AnswersAreRecent
<1>3. ReportIsTrue
  <2>1. ASSUME NEW r \in Requests, req[r].pc = "done", ~req[r].strayed
        PROVE  /\ \A i \in DOMAIN req[r].report : req[r].report[i] = "applied" <=> <<r, i>> \in history.effect
               /\ <<r, "applied">> \in history.audit => \E i \in DOMAIN req[r].plan : <<r, i>> \in history.effect
    <3>1. ReqOK(r)
      BY DEF ObjectInv
    <3> QED
      BY <2>1, <3>1 DEF ReqOK, Settles
  <2> QED
    BY <2>1 DEF ReportIsTrue
<1> QED
  BY <1>1, <1>2, <1>3 DEF AnswersAreTrue

-----------------------------------------------------------------------------
(* The workspace *)

\* A call was sent for the user on the screen, in a session that was that user's if it was one:
\* what it saves, or what it loaded, is made of that user's changes.
HttpFields == {"kind", "answer", "snap", "user", "gen", "session", "owner", "then"}
OwnCall(c) ==
    /\ HttpFields \subseteq DOMAIN c
    /\ c.session \in Nat /\ c.session <= used.sessions
    /\ c.session # 0 => c.owner \in Requests /\ (c.session = session => c.owner = owner)
    /\ c.kind = "me" => session \in {0, c.session}
    /\ c.kind = "me" /\ c.answer = "ok" => c.session # 0
    /\ c.kind \in {"load", "save"} /\ c.session # 0 => c.owner = c.user
    /\ c.kind = "save" => "by" \in DOMAIN c.snap /\ c.snap.by \subseteq {c.user}
    /\ c.kind = "load" /\ c.answer = "ok" => c.snap.by \subseteq {c.user}

SessionsFit ==
    /\ {"changes", "questions", "sessions", "faults"} \subseteq DOMAIN used
    /\ used.sessions \in Nat /\ session \in Nat /\ session <= used.sessions
    /\ session # 0 => owner \in Requests /\ user \in {owner, W!Nobody}
OwnStored ==
    /\ DOMAIN stored = Requests
    /\ \A u \in Requests : "by" \in DOMAIN stored[u] /\ stored[u].by \subseteq {u}
OwnInv == SessionsFit /\ OwnStored /\ by \subseteq {user} /\ \A c \in http : OwnCall(c)

\* Nothing is saved and nobody signed in.
LEMMA InitWorkspace == W!Init => OwnInv
BY DEF W!Init, W!Default, OwnInv, SessionsFit, OwnStored

\* A bound that is spent, of faults, changes or questions, leaves the sessions counted.
LEMMA SpendKeeps ==
  ASSUME SessionsFit, NEW what \in {"changes", "questions", "faults"}, NEW max, W!Spend(what, max)
  PROVE  /\ {"changes", "questions", "sessions", "faults"} \subseteq DOMAIN used'
         /\ used'.sessions = used.sessions
BY DEF SessionsFit, W!Spend

\* A call stays the user's own while the session stays, or ends.
LEMMA OwnCallKept ==
  ASSUME NEW c, OwnCall(c), used'.sessions = used.sessions,
         (session' = session /\ owner' = owner) \/ session' = 0
  PROVE  OwnCall(c)'
BY DEF OwnCall

\* A call that is made now, for the user on the screen or for the one who is restored.
LEMMA OwnCallMade ==
  ASSUME SessionsFit, used'.sessions = used.sessions, session' = session, owner' = owner,
         NEW c, NEW u, NEW kind \in {"load", "save", "me", "logout"}, NEW snap, NEW gen, NEW then,
         c = [kind |-> kind, answer |-> "none", snap |-> snap, user |-> u, gen |-> gen,
              session |-> session, owner |-> owner, then |-> then],
         kind \in {"load", "save"} /\ session # 0 => owner = u,
         kind = "save" => "by" \in DOMAIN snap /\ snap.by \subseteq {u}
  PROVE  OwnCall(c)'
<1>1. /\ c.kind = kind /\ c.answer = "none" /\ c.snap = snap /\ c.user = u
      /\ c.session = session /\ c.owner = owner /\ HttpFields \subseteq DOMAIN c
  BY DEF HttpFields
<1> QED
  BY <1>1 DEF OwnCall, SessionsFit, HttpFields

\* The server, or the network, answers a call.
LEMMA AnsweredKeeps ==
  ASSUME OwnInv, NEW c \in http, NEW snap, NEW answer \in {"ok", "failed", "401"},
         W!Answered(c, snap, answer),
         c.kind = "save" => snap = c.snap,
         c.kind = "load" /\ answer = "ok" => snap.by \subseteq {c.user},
         c.kind = "me" /\ answer = "ok" => c.session # 0,
         used'.sessions = used.sessions,
         (session' = session /\ owner' = owner) \/ session' = 0
  PROVE  \A d \in http' : OwnCall(d)'
<1>1. \A d \in http : OwnCall(d)'
  <2>1. \A d \in http : OwnCall(d)
    BY DEF OwnInv
  <2> QED
    BY <2>1, OwnCallKept
<1>2. PICK d : d = [c EXCEPT !.snap = snap, !.answer = answer]
  OBVIOUS
<1>3. OwnCall(d)'
  <2>1. OwnCall(c)'
    BY <1>1
  <2>2. /\ HttpFields \subseteq DOMAIN c /\ DOMAIN d = DOMAIN c
        /\ d.kind = c.kind /\ d.answer = answer /\ d.snap = snap /\ d.user = c.user
        /\ d.session = c.session /\ d.owner = c.owner
    BY <1>2, <2>1 DEF OwnCall, HttpFields
  <2> QED
    BY <2>1, <2>2 DEF OwnCall, HttpFields
<1>4. http' = (http \ {c}) \cup {d}
  BY <1>2 DEF W!Answered
<1> QED
  BY <1>1, <1>3, <1>4

\* What the server does: it saves for the owner of a session what that owner changed.
LEMMA ServerKeeps ==
  ASSUME OwnInv, NEW c \in http,
         W!HandleLoad(c) \/ W!HandleSave(c) \/ W!HandleMe(c) \/ W!HandleLogout(c) \/ W!Lose(c)
  PROVE  OwnInv'
<1>1. OwnCall(c) /\ SessionsFit /\ OwnStored /\ by \subseteq {user}
  BY DEF OwnInv
<1>2. CASE W!HandleLoad(c)
  <2>1. UNCHANGED <<stored, session, owner, user, by, used>> /\ c.kind = "load"
    BY <1>2 DEF W!HandleLoad, W!store, W!service, W!server
  <2>2. \A d \in http' : OwnCall(d)'
    <3>1. CASE W!Signed(c)
      <4>1. W!Answered(c, W!Sanitized(stored[c.owner]), "ok")
        BY <1>2, <3>1 DEF W!HandleLoad
      <4>2. /\ "by" \in DOMAIN stored[c.owner] /\ stored[c.owner].by \subseteq {c.user}
        BY <1>1, <2>1, <3>1 DEF OwnCall, OwnStored, W!Signed
      <4>3. W!Sanitized(stored[c.owner]).by = stored[c.owner].by
        BY <4>2 DEF W!Sanitized, W!Default
      <4>4. PICK snap : snap = W!Sanitized(stored[c.owner])
        OBVIOUS
      <4>5. W!Answered(c, snap, "ok") /\ snap.by \subseteq {c.user}
        BY <4>1, <4>2, <4>3, <4>4
      <4> QED
        BY <4>5, <2>1, AnsweredKeeps
    <3>2. CASE ~W!Signed(c)
      <4>1. W!Answered(c, c.snap, "401")
        BY <1>2, <3>2 DEF W!HandleLoad, W!Unauthorized
      <4> QED
        BY <4>1, <2>1, AnsweredKeeps
    <3> QED
      BY <3>1, <3>2
  <2> QED
    BY <1>1, <2>1, <2>2 DEF OwnInv, SessionsFit, OwnStored
<1>3. CASE W!HandleSave(c)
  <2>1. UNCHANGED <<session, owner, user, by, used>> /\ c.kind = "save"
    BY <1>3 DEF W!HandleSave, W!store, W!service
  <2>2. PICK answer \in {"ok", "failed", "401"} : W!Answered(c, c.snap, answer)
    BY <1>3 DEF W!HandleSave, W!Unauthorized
  <2>3. \A d \in http' : OwnCall(d)'
    BY <2>1, <2>2, AnsweredKeeps
  <2>4. OwnStored'
    <3>1. CASE stored' = stored
      BY <1>1, <3>1 DEF OwnStored
    <3>2. CASE W!Signed(c) /\ stored' = W!SaveFor(c)
      <4>1. /\ c.owner \in Requests /\ "by" \in DOMAIN c.snap /\ c.snap.by \subseteq {c.owner}
        BY <1>1, <2>1, <3>2 DEF OwnCall, W!Signed
      <4> QED
        BY <1>1, <3>2, <4>1 DEF OwnStored, W!SaveFor
    <3> QED
      BY <1>3, <3>1, <3>2 DEF W!HandleSave
  <2> QED
    BY <1>1, <2>1, <2>3, <2>4 DEF OwnInv, SessionsFit
<1>4. CASE W!HandleMe(c)
  <2>1. UNCHANGED <<stored, session, owner, user, by, used>> /\ c.kind = "me"
    BY <1>4 DEF W!HandleMe, W!store, W!service, W!server
  <2>2. \A d \in http' : OwnCall(d)'
    <3>1. CASE W!Signed(c)
      <4>1. W!Answered(c, W!NoSnapshot, "ok") /\ c.session # 0
        BY <1>4, <3>1 DEF W!HandleMe, W!Signed
      <4> QED
        BY <4>1, <2>1, AnsweredKeeps
    <3>2. CASE ~W!Signed(c)
      <4>1. W!Answered(c, c.snap, "401")
        BY <1>4, <3>2 DEF W!HandleMe, W!Unauthorized
      <4> QED
        BY <4>1, <2>1, AnsweredKeeps
    <3> QED
      BY <3>1, <3>2
  <2> QED
    BY <1>1, <2>1, <2>2 DEF OwnInv, SessionsFit, OwnStored
<1>5. CASE W!HandleLogout(c)
  <2>1. /\ UNCHANGED <<stored, user, by, used>> /\ c.kind = "logout"
        /\ (session' = session /\ owner' = owner) \/ session' = 0
    BY <1>5 DEF W!HandleLogout, W!store, W!service
  <2>2. PICK answer \in {"ok", "401"}, snap \in {W!NoSnapshot, c.snap} : W!Answered(c, snap, answer)
    BY <1>5 DEF W!HandleLogout, W!Unauthorized
  <2>3. \A d \in http' : OwnCall(d)'
    BY <2>1, <2>2, AnsweredKeeps
  <2> QED
    BY <1>1, <2>1, <2>3 DEF OwnInv, SessionsFit, OwnStored
<1>6. CASE W!Lose(c)
  <2>1. /\ UNCHANGED <<stored, session, owner, user, by>> /\ W!Answered(c, c.snap, "failed")
        /\ \E max : W!Spend("faults", max)
    BY <1>6 DEF W!Lose, W!store, W!service, W!server
  <2>2. /\ {"changes", "questions", "sessions", "faults"} \subseteq DOMAIN used'
        /\ used'.sessions = used.sessions
    BY <1>1, <2>1, SpendKeeps
  <2>3. \A d \in http' : OwnCall(d)'
    BY <2>1, <2>2, AnsweredKeeps
  <2> QED
    BY <1>1, <2>1, <2>2, <2>3 DEF OwnInv, SessionsFit, OwnStored
<1> QED
  BY <1>2, <1>3, <1>4, <1>5, <1>6

\* A step that sends nothing, or sends calls that are the user's own, and leaves the server alone.
LEMMA ClientKeeps ==
  ASSUME OwnInv, UNCHANGED stored, session' = session, owner' = owner,
         {"changes", "questions", "sessions", "faults"} \subseteq DOMAIN used',
         used'.sessions = used.sessions,
         session # 0 => user' \in {owner, W!Nobody},
         by' \subseteq {user'},
         \A d \in http' \ http : OwnCall(d)'
  PROVE  OwnInv'
<1>1. \A d \in http : OwnCall(d)'
  <2>1. \A d \in http : OwnCall(d)
    BY DEF OwnInv
  <2> QED
    BY <2>1, OwnCallKept
<1>2. \A d \in http' : OwnCall(d)'
  BY <1>1
<1>3. SessionsFit' /\ OwnStored'
  BY DEF OwnInv, SessionsFit, OwnStored
<1> QED
  BY <1>2, <1>3 DEF OwnInv

\* The session ends, or the connection of the tables is deleted.
LEMMA FaultKeeps ==
  ASSUME OwnInv, W!SessionEnds \/ W!DeleteConnection
  PROVE  OwnInv'
<1>1. SessionsFit /\ OwnStored /\ by \subseteq {user}
  BY DEF OwnInv
<1>2. /\ UNCHANGED <<stored, user, by, http>> /\ \E max : W!Spend("faults", max)
      /\ (session' = session /\ owner' = owner) \/ session' = 0
  BY DEF W!SessionEnds, W!DeleteConnection, W!store, W!service
<1>3. /\ {"changes", "questions", "sessions", "faults"} \subseteq DOMAIN used'
      /\ used'.sessions = used.sessions
  BY <1>1, <1>2, SpendKeeps
<1>4. \A d \in http' : OwnCall(d)'
  <2>1. \A d \in http : OwnCall(d)
    BY DEF OwnInv
  <2> QED
    BY <2>1, <1>2, <1>3, OwnCallKept
<1> QED
  BY <1>1, <1>2, <1>3, <1>4 DEF OwnInv, SessionsFit, OwnStored

\* What is sent without a snapshot is nobody's change.
LEMMA PlainCall ==
  ASSUME SessionsFit, used'.sessions = used.sessions, session' = session, owner' = owner,
         NEW kind \in {"me", "logout"}, NEW gen, NEW d, d = W!Call(kind, W!NoSnapshot, gen, FALSE)
  PROVE  OwnCall(d)'
<1>1. PICK snap : snap = W!NoSnapshot
  OBVIOUS
<1>2. d = [kind |-> kind, answer |-> "none", snap |-> snap, user |-> user, gen |-> gen,
           session |-> session, owner |-> owner, then |-> FALSE]
  BY <1>1 DEF W!Call
<1> QED
  BY <1>2, OwnCallMade

\* A save that is sent takes the changes of the user on the screen.
LEMMA SaveCall ==
  ASSUME SessionsFit, by \subseteq {user}, W!Dirty,
         used'.sessions = used.sessions, session' = session, owner' = owner,
         NEW then, NEW d, d = W!Call("save", W!Snapshot, generation, then)
  PROVE  OwnCall(d)'
<1>1. PICK snap : snap = W!Snapshot
  OBVIOUS
<1>2. "by" \in DOMAIN snap /\ snap.by \subseteq {user}
  BY <1>1 DEF W!Snapshot
<1>3. session # 0 => owner = user
  BY DEF SessionsFit, W!Dirty
<1>4. d = [kind |-> "save", answer |-> "none", snap |-> snap, user |-> user, gen |-> generation,
           session |-> session, owner |-> owner, then |-> then]
  BY <1>1 DEF W!Call
<1> QED
  BY <1>2, <1>3, <1>4, OwnCallMade

\* The workspace is flushed by the timer or before the log-out.
LEMMA FlushKeeps ==
  ASSUME OwnInv, W!TimerFires \/ W!Logout
  PROVE  OwnInv'
<1>1. SessionsFit /\ by \subseteq {user}
  BY DEF OwnInv
<1>2. PICK then \in BOOLEAN : W!Flush(http, then) /\ UNCHANGED <<by, stored, session, owner, used>>
  BY DEF W!TimerFires, W!Logout, W!store, W!server
<1>3. user' = user
  BY <1>2 DEF W!Flush
<1>4. \A d \in http' \ http : OwnCall(d)'
  <2>1. SUFFICES ASSUME NEW d \in http' \ http
                 PROVE  OwnCall(d)'
    OBVIOUS
  <2>2. CASE W!Dirty
    <3>1. d = W!Call("save", W!Snapshot, generation, then)
      BY <1>2, <2>1, <2>2 DEF W!Flush
    <3> QED
      BY <1>1, <1>2, <2>2, <3>1, SaveCall
  <2>3. CASE ~W!Dirty
    <3>1. d = W!Call("logout", W!NoSnapshot, generation, FALSE)
      BY <1>2, <2>1, <2>3 DEF W!Flush
    <3> QED
      BY <1>1, <1>2, <3>1, PlainCall
  <2> QED
    BY <2>2, <2>3
<1> QED
  BY <1>1, <1>2, <1>3, <1>4, ClientKeeps DEF SessionsFit

\* The answer of a load counts for the user it was asked for; the answer of a save is remembered.
LEMMA ReceiveKeeps ==
  ASSUME OwnInv, NEW c \in http, W!ReceiveLoad(c) \/ W!ReceiveSave(c)
  PROVE  OwnInv'
<1>1. SessionsFit /\ by \subseteq {user} /\ OwnCall(c)
  BY DEF OwnInv
<1>2. CASE W!ReceiveLoad(c)
  <2>1. UNCHANGED <<stored, session, owner, used>> /\ http' = http \ {c} /\ c.kind = "load"
    BY <1>2 DEF W!ReceiveLoad, W!server
  <2>2. user' = user
    BY <1>2 DEF W!ReceiveLoad, W!service
  <2>3. by' \subseteq {user}
    BY <1>1, <1>2 DEF W!ReceiveLoad, W!store, W!IsLatest, OwnCall
  <2> QED
    BY <1>1, <2>1, <2>2, <2>3, ClientKeeps DEF SessionsFit
<1>3. CASE W!ReceiveSave(c)
  <2>1. UNCHANGED <<stored, session, owner, used, user, by>>
    BY <1>3 DEF W!ReceiveSave, W!server, W!store
  <2>2. \A d \in http' \ http : OwnCall(d)'
    <3>1. SUFFICES ASSUME NEW d \in http' \ http
                   PROVE  OwnCall(d)'
      OBVIOUS
    <3>2. d = W!Call("logout", W!NoSnapshot, generation, FALSE)
      BY <1>3, <3>1 DEF W!ReceiveSave
    <3> QED
      BY <1>1, <2>1, <3>2, PlainCall
  <2> QED
    BY <1>1, <2>1, <2>2, ClientKeeps DEF SessionsFit
<1> QED
  BY <1>2, <1>3

\* A restore takes nothing along, and its load is for the user it restores.
LEMMA RestoreKeeps ==
  ASSUME OwnInv, NEW u, NEW cs \in SUBSET http, W!Restore(u, cs, session, owner),
         UNCHANGED <<stored, session, owner, used>>, session # 0 => owner = u
  PROVE  OwnInv'
<1>1. SessionsFit
  BY DEF OwnInv
<1>2. user' = u /\ by' = {}
  BY DEF W!Restore, W!Reset
<1>3. \A d \in http' \ http : OwnCall(d)'
  <2>1. SUFFICES ASSUME NEW d \in http' \ http
                 PROVE  OwnCall(d)'
    OBVIOUS
  <2>2. PICK snap : snap = W!NoSnapshot
    OBVIOUS
  <2>3. PICK gen : gen = generation + 1
    OBVIOUS
  <2>4. d = [kind |-> "load", answer |-> "none", snap |-> snap, user |-> u, gen |-> gen,
             session |-> session, owner |-> owner, then |-> FALSE]
    BY <2>1, <2>2, <2>3 DEF W!Restore, W!Call
  <2> QED
    BY <1>1, <2>4, OwnCallMade
<1> QED
  BY <1>1, <1>2, <1>3, ClientKeeps DEF SessionsFit

\* The guard asks, and takes over whom it is told: the owner of the session it asked in.
LEMMA GuardKeeps ==
  ASSUME OwnInv, W!Navigate \/ \E c \in http : W!ReceiveMe(c)
  PROVE  OwnInv'
<1>1. SessionsFit /\ by \subseteq {user} /\ \A c \in http : OwnCall(c)
  BY DEF OwnInv
<1>2. CASE W!Navigate
  <2>1. /\ UNCHANGED <<stored, session, owner, user, by>> /\ \E max : W!Spend("questions", max)
        /\ http' = http \cup {W!Call("me", W!NoSnapshot, generation, FALSE)}
    BY <1>2 DEF W!Navigate, W!store, W!service, W!server
  <2>2. /\ {"changes", "questions", "sessions", "faults"} \subseteq DOMAIN used'
        /\ used'.sessions = used.sessions
    BY <1>1, <2>1, SpendKeeps
  <2>3. \A d \in http' \ http : OwnCall(d)'
    <3>1. SUFFICES ASSUME NEW d \in http' \ http
                   PROVE  OwnCall(d)'
      OBVIOUS
    <3>2. d = W!Call("me", W!NoSnapshot, generation, FALSE)
      BY <2>1, <3>1
    <3> QED
      BY <1>1, <2>1, <2>2, <3>2, PlainCall
  <2> QED
    BY <1>1, <2>1, <2>2, <2>3, ClientKeeps DEF SessionsFit
<1>3. ASSUME NEW c \in http, W!ReceiveMe(c)
      PROVE  OwnInv'
  <2>1. UNCHANGED <<stored, session, owner, used>> /\ c.kind = "me" /\ OwnCall(c)
    BY <1>1, <1>3 DEF W!ReceiveMe, W!server
  <2>2. CASE c.answer = "ok" /\ c.owner # user
    <3>1. W!Restore(c.owner, http \ {c}, session, owner)
      BY <1>3, <2>2 DEF W!ReceiveMe
    <3>2. session # 0 => owner = c.owner
      BY <1>1, <2>1, <2>2 DEF OwnCall, SessionsFit
    <3>3. PICK u : u = c.owner
      OBVIOUS
    <3>4. W!Restore(u, http \ {c}, session, owner) /\ (session # 0 => owner = u)
      BY <3>1, <3>2, <3>3
    <3> QED
      BY <2>1, <3>4, RestoreKeeps
  <2>3. CASE ~(c.answer = "ok" /\ c.owner # user)
    <3>1. http' = http \ {c} /\ UNCHANGED <<user, by>>
      BY <1>3, <2>3 DEF W!ReceiveMe, W!store, W!service
    <3> QED
      BY <1>1, <2>1, <3>1, ClientKeeps DEF SessionsFit
  <2> QED
    BY <2>2, <2>3
<1> QED
  BY <1>2, <1>3

\* The workspace is cleared when the user is signed out or the session expired.
LEMMA ClearKeeps ==
  ASSUME OwnInv, NEW c \in http, W!ReceiveLogout(c) \/ W!SessionExpired(c)
  PROVE  OwnInv'
<1>1. SessionsFit /\ by \subseteq {user}
  BY DEF OwnInv
<1>2. UNCHANGED <<stored, session, owner, used>> /\ http' = http \ {c}
  BY DEF W!ReceiveLogout, W!SessionExpired, W!server
<1>3. (user' = W!Nobody /\ by' = {}) \/ UNCHANGED <<user, by>>
  BY DEF W!ReceiveLogout, W!SessionExpired, W!Clear, W!Reset, W!store, W!service
<1> QED
  BY <1>1, <1>2, <1>3, ClientKeeps DEF SessionsFit

\* The page is reloaded: the saves under way stay, and a last one may be sent.
LEMMA ReloadKeeps == ASSUME OwnInv, W!Reload PROVE OwnInv'
<1>1. SessionsFit /\ by \subseteq {user}
  BY DEF OwnInv
<1>2. /\ UNCHANGED <<stored, session, owner>> /\ user' = W!Nobody /\ by' = {}
      /\ \E max : W!Spend("faults", max)
  BY DEF W!Reload, W!Reset, W!server
<1>3. /\ {"changes", "questions", "sessions", "faults"} \subseteq DOMAIN used'
      /\ used'.sessions = used.sessions
  BY <1>1, <1>2, SpendKeeps
<1>4. \A d \in http' \ http : OwnCall(d)'
  <2>1. SUFFICES ASSUME NEW d \in http' \ http
                 PROVE  OwnCall(d)'
    OBVIOUS
  <2>2. W!Dirty /\ d = W!Call("save", W!Snapshot, generation, FALSE)
    BY <2>1 DEF W!Reload
  <2> QED
    BY <1>1, <1>2, <1>3, <2>2, SaveCall
<1> QED
  BY <1>1, <1>2, <1>3, <1>4, ClientKeeps DEF SessionsFit

\* The user's own change.
LEMMA ChangeKeeps ==
  ASSUME OwnInv, NEW newTabs, NEW newActive, NEW newPanels, W!Change(newTabs, newActive, newPanels)
  PROVE  OwnInv'
<1>1. SessionsFit /\ by \subseteq {user}
  BY DEF OwnInv
<1>2. /\ UNCHANGED <<stored, session, owner, user, http>> /\ by' = by \cup {user}
      /\ \E max : W!Spend("changes", max)
  BY DEF W!Change, W!server
<1>3. /\ {"changes", "questions", "sessions", "faults"} \subseteq DOMAIN used'
      /\ used'.sessions = used.sessions
  BY <1>1, <1>2, SpendKeeps
<1> QED
  BY <1>1, <1>2, <1>3, ClientKeeps DEF SessionsFit

\* A sign-in opens a session no call was made in, and restores its user.
LEMMA SignInKeeps ==
  ASSUME OwnInv, NEW u \in Requests, W!SignIn(u)
  PROVE  OwnInv'
<1>1. SessionsFit /\ OwnStored /\ \A c \in http : OwnCall(c)
  BY DEF OwnInv
<1>2. /\ UNCHANGED stored /\ session' = used.sessions + 1 /\ owner' = u
      /\ \A c \in http : c.kind # "me"
      /\ W!Restore(u, http, session', u)
      /\ \E max : W!Spend("sessions", max)
  BY DEF W!SignIn
<1>3. user' = u /\ by' = {}
  BY <1>2 DEF W!Restore, W!Reset
<1>4. /\ {"changes", "questions", "sessions", "faults"} \subseteq DOMAIN used'
      /\ used'.sessions = used.sessions + 1
  BY <1>1, <1>2 DEF W!Spend, SessionsFit
<1>5. ASSUME NEW d \in http
      PROVE  OwnCall(d)'
  BY <1>1, <1>2, <1>4, <1>5 DEF OwnCall, SessionsFit
<1>6. ASSUME NEW d \in http' \ http
      PROVE  OwnCall(d)'
  <2>1. PICK snap : snap = W!NoSnapshot
    OBVIOUS
  <2>2. PICK gen : gen = generation + 1
    OBVIOUS
  <2>3. PICK s : s = session'
    OBVIOUS
  <2>4. d = [kind |-> "load", answer |-> "none", snap |-> snap, user |-> u, gen |-> gen,
             session |-> s, owner |-> u, then |-> FALSE]
    BY <1>2, <1>6, <2>1, <2>2, <2>3 DEF W!Restore, W!Call
  <2>5. /\ d.kind = "load" /\ d.answer = "none" /\ d.session = s /\ d.owner = u /\ d.user = u
        /\ HttpFields \subseteq DOMAIN d
    BY <2>4 DEF HttpFields
  <2>6. s = used'.sessions /\ s \in Nat
    BY <1>1, <1>2, <1>4, <2>3 DEF SessionsFit
  <2> QED
    BY <1>2, <2>3, <2>5, <2>6 DEF OwnCall, HttpFields
<1>7. \A d \in http' : OwnCall(d)'
  BY <1>5, <1>6
<1>8. SessionsFit' /\ OwnStored'
  BY <1>1, <1>2, <1>3, <1>4 DEF SessionsFit, OwnStored
<1> QED
  BY <1>3, <1>7, <1>8 DEF OwnInv

\* Every change of the store by the user.
LEMMA ChangesKeep ==
  ASSUME OwnInv,
         \/ \E tab \in W!Openable : W!openTab(tab) \/ W!activateTab(tab.id) \/ W!closeTab(tab.id)
         \/ \E p \in 0..1 : W!setPanels(p)
         \/ \E t \in {"t", "u"} :
               \/ W!markTableTabsStale(t) \/ W!closeTableTabs(t)
               \/ \E new \in {"t", "u"} : W!updateTableReferences(t, new)
  PROVE  OwnInv'
<1>1. ASSUME NEW tab, W!openTab(tab) PROVE OwnInv'
  BY <1>1, ChangeKeeps DEF W!openTab
<1>2. ASSUME NEW id, W!activateTab(id) PROVE OwnInv'
  BY <1>2, ChangeKeeps DEF W!activateTab
<1>3. ASSUME NEW id, W!closeTab(id) PROVE OwnInv'
  BY <1>3, ChangeKeeps DEF W!closeTab
<1>4. ASSUME NEW p, W!setPanels(p) PROVE OwnInv'
  BY <1>4, ChangeKeeps DEF W!setPanels
<1>5. ASSUME NEW t, W!markTableTabsStale(t) PROVE OwnInv'
  BY <1>5, ChangeKeeps DEF W!markTableTabsStale
<1>6. ASSUME NEW t, W!closeTableTabs(t) PROVE OwnInv'
  BY <1>6, ChangeKeeps DEF W!closeTableTabs
<1>7. ASSUME NEW t, NEW new, W!updateTableReferences(t, new) PROVE OwnInv'
  BY <1>7, ChangeKeeps DEF W!updateTableReferences
<1> QED
  BY <1>1, <1>2, <1>3, <1>4, <1>5, <1>6, <1>7

\* Every step of the workspace.
LEMMA NextWorkspace == OwnInv /\ [W!Next]_(W!vars) => OwnInv'
<1> SUFFICES ASSUME OwnInv, [W!Next]_(W!vars)
             PROVE  OwnInv'
  OBVIOUS
<1>1. CASE UNCHANGED W!vars
  <2>1. UNCHANGED <<stored, session, owner, used, user, by, http>>
    BY <1>1 DEF W!vars, W!store, W!service, W!server
  <2> QED
    BY <2>1, ClientKeeps DEF OwnInv, SessionsFit
<1>2. ASSUME NEW c \in http,
             \/ W!HandleLoad(c) \/ W!HandleSave(c) \/ W!HandleMe(c) \/ W!HandleLogout(c) \/ W!Lose(c)
             \/ W!ReceiveLoad(c) \/ W!ReceiveSave(c) \/ W!ReceiveMe(c) \/ W!ReceiveLogout(c)
             \/ W!SessionExpired(c)
      PROVE  OwnInv'
  BY <1>2, ServerKeeps, ReceiveKeeps, GuardKeeps, ClearKeeps
<1>3. CASE W!SessionEnds \/ W!DeleteConnection
  BY <1>3, FaultKeeps
<1>4. CASE W!TimerFires \/ W!Logout
  BY <1>4, FlushKeeps
<1>5. CASE W!Navigate
  BY <1>5, GuardKeeps
<1>6. CASE W!Reload
  BY <1>6, ReloadKeeps
<1>7. ASSUME NEW u \in Requests, W!SignIn(u)
      PROVE  OwnInv'
  BY <1>7, SignInKeeps
<1>8. CASE \/ \E tab \in W!Openable : W!openTab(tab) \/ W!activateTab(tab.id) \/ W!closeTab(tab.id)
           \/ \E p \in 0..1 : W!setPanels(p)
           \/ \E t \in {"t", "u"} :
                 \/ W!markTableTabsStale(t) \/ W!closeTableTabs(t)
                 \/ \E new \in {"t", "u"} : W!updateTableReferences(t, new)
  BY <1>8, ChangesKeep
<1>9. W!Step \/ UNCHANGED W!vars
  BY DEF W!Next
<1> QED
  BY <1>1, <1>2, <1>3, <1>4, <1>5, <1>6, <1>7, <1>8, <1>9 DEF W!Step

-----------------------------------------------------------------------------
(* The instance *)

CatalogInv ==
    /\ part = "view" => ViewInv
    /\ part = "security" => SecurityInv
    /\ part = "restore" => RestoreInv /\ AcceptedInv
    /\ part = "connections" => ConnectionsInv
    /\ part = "databases" => DatabasesInv
    /\ part = "users" => UsersInv

\* Each page starts in its invariant.
LEMMA InitCatalog == AllInit => CatalogInv
BY InitView, InitSecurity, InitRestore, InitAccepted, InitConnections, InitDatabases, InitUsers
DEF AllInit, CatalogInv

\* A step of the instance is a step of the page that runs.
LEMMA PageSteps ==
  ASSUME [AllNext]_allVars
  PROVE  /\ part' = part
         /\ part = "view" => [V!Next]_(V!vars)
         /\ part = "security" => [S!Next]_(S!vars)
         /\ part = "restore" => [R!Next]_(R!vars)
         /\ part = "connections" => [P!Next]_(P!vars)
         /\ part = "databases" => [D!Next]_(D!vars)
         /\ part = "users" => [U!Next]_(U!vars)
<1>1. CASE UNCHANGED allVars
  <2>1. /\ part' = part /\ UNCHANGED viewPage /\ UNCHANGED securityPage /\ UNCHANGED restorePage
        /\ UNCHANGED connectionsPage /\ UNCHANGED databasePages /\ UNCHANGED usersPage
    BY <1>1 DEF allVars, pages
  <2>2. UNCHANGED V!vars
    BY <2>1 DEF viewPage, V!vars
  <2>3. UNCHANGED S!vars
    BY <2>1 DEF securityPage, S!vars, S!shown, S!matrix, S!dialogs, S!server
  <2>4. UNCHANGED R!vars
    BY <2>1 DEF restorePage, R!vars
  <2>5. UNCHANGED P!vars
    BY <2>1 DEF connectionsPage, P!vars, P!marks, P!server
  <2>6. UNCHANGED D!vars
    BY <2>1 DEF databasePages, D!vars, D!route, D!dialogs, D!marks
  <2>7. UNCHANGED U!vars
    BY <2>1 DEF usersPage, U!vars
  <2> QED
    BY <2>1, <2>2, <2>3, <2>4, <2>5, <2>6, <2>7
<1>2. CASE AllNext
  BY <1>2 DEF AllNext
<1> QED
  BY <1>1, <1>2

\* Each page keeps its invariant.
LEMMA NextCatalog == CatalogInv /\ [AllNext]_allVars => CatalogInv'
<1> SUFFICES ASSUME CatalogInv, [AllNext]_allVars
             PROVE  CatalogInv'
  OBVIOUS
<1>1. /\ part' = part
      /\ part = "view" => [V!Next]_(V!vars)
      /\ part = "security" => [S!Next]_(S!vars)
      /\ part = "restore" => [R!Next]_(R!vars)
      /\ part = "connections" => [P!Next]_(P!vars)
      /\ part = "databases" => [D!Next]_(D!vars)
      /\ part = "users" => [U!Next]_(U!vars)
  BY PageSteps
<1> QED
  BY <1>1, NextView, NextSecurity, NextRestore, NextAccepted, NextConnections, NextDatabases, NextUsers
  DEF CatalogInv

\* On every page the marks are those of the calls under way: at most one call ends each kind of
\* operation.  The dialogs of backups, databases and schemas and the form of a connection stay
\* open meanwhile, passwords and names that are sent were typed for what they are sent about,
\* and what is restored was accepted by the server.
THEOREM CatalogInvariant == AllSpec => []CatalogInv
<1> QED
  BY InitCatalog, NextCatalog, PTL DEF AllSpec

\* For every set of views, principals, artifacts, connections, databases and pages of users, and
\* every bound on acts and calls: one operation of a kind is under way at a time on each page,
\* its buttons are disabled exactly until its end, and the pages of backups, connections,
\* databases and users keep what OneOperationAtATime says of each beyond that.  Nothing is said
\* of what the pages of views and privileges send.
THEOREM OneOperationStays == AllSpec => []OneOperationAtATime
<1>1. CatalogInv => OneOperationAtATime
  BY ViewIsTrue, SecurityIsTrue, RestoresAreTrue, ConnectionsAreTrue, DatabasesAreTrue, UsersAreTrue
  DEF CatalogInv, OneOperationAtATime
<1> QED
  BY <1>1, CatalogInvariant, PTL

\* The steps of the instance are steps of management, or leave it alone.
THEOREM ObjectInvariant == AllSpec => []ObjectInv
<1>1. AllInit => ObjectInv
  BY InitObjects DEF AllInit
<1>2. ObjectInv /\ [AllNext]_allVars => ObjectInv'
  <2>1. [AllNext]_allVars => [Next]_vars
    BY DEF AllNext, allVars
  <2> QED
    BY <2>1, NextObjects
<1> QED
  BY <1>1, <1>2, PTL DEF AllSpec

\* For any number of requests, whatever they ask and however their statements interleave on the
\* one handle, for both engines: what a request whose statements met no foreign transaction
\* reports is what happened, the audit log does not say more, a page kept by the explorer shows
\* every change answered before its load began, and none is served that was read a TTL ago.
THEOREM AnswersStayTrue == AllSpec => []AnswersAreTrue
<1> QED
  BY AnswersFollow, ObjectInvariant, PTL

\* The steps of the instance are steps of the workspace, or leave it alone.
THEOREM WorkspaceInvariant == AllSpec => [](part = "workspace" => OwnInv)
<1> DEFINE Inv == part = "workspace" => OwnInv
<1>1. AllInit => Inv
  BY InitWorkspace DEF AllInit
<1>2. Inv /\ [AllNext]_allVars => Inv'
  <2>1. [AllNext]_allVars => part' = part /\ (part = "workspace" => [W!Next]_(W!vars))
    <3>1. CASE UNCHANGED allVars
      <4>1. part' = part /\ UNCHANGED workspace
        BY <3>1 DEF allVars
      <4> QED
        BY <4>1 DEF workspace, W!vars, W!store, W!service, W!server
    <3>2. CASE AllNext
      BY <3>2 DEF AllNext
    <3> QED
      BY <3>1, <3>2
  <2> QED
    BY <2>1, NextWorkspace
<1> QED
  BY <1>1, <1>2, PTL DEF AllSpec

\* For any number of users, whatever loads, saves, log-outs and sessions that end overtake each
\* other: what is saved for a user is made of that user's own changes.
THEOREM OwnWorkspaceStays == AllSpec => [](part = "workspace" => W!OwnWorkspace)
<1>1. OwnInv => W!OwnWorkspace
  BY DEF OwnInv, OwnStored, W!OwnWorkspace
<1> QED
  BY <1>1, WorkspaceInvariant, PTL
=============================================================================
