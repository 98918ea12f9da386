------------------------- MODULE ConnectionProfiles -------------------------
(***************************************************************************)
(* Saved connections, their server groups and their encrypted passwords:   *)
(* ConnectionManagerService (apps/server/src/connections), the tables      *)
(* behind it (packages/internal-sqlite), the credential vault              *)
(* (packages/crypto/src/vault) and the connections page of the web client. *)
(*                                                                         *)
(* A request is handled in one go until it has to wait for the vault: it   *)
(* reads the stored row, checks the actor, the group and the label, waits  *)
(* while the password is encrypted, and then writes the row it computed    *)
(* BEFORE the wait, in one transaction with the credential and the audit   *)
(* record.  Whatever other requests did in between is only seen by the     *)
(* constraints of the tables.                                              *)
(*                                                                         *)
(* A row is [owner, label, tls, ca, group]: `label` is unique per owner,   *)
(* `tls` says whether TLS is on, `ca` whether TLS options are stored, and  *)
(* the other fields, which no rule relates, are left out.  A secret is the *)
(* user who typed it.  The lifecycle sessions that deleteConnection()      *)
(* closes are those of ConnectionLifecycle.                                *)
(***************************************************************************)
EXTENDS Naturals, FiniteSets

CONSTANTS Users,        \* the signed-in users
          Admins,       \* those of them with the role admin
          Ids,          \* the ids createId() may still hand out
          Labels,       \* labels, and names of groups
          Groups,       \* ids of server groups
          Reqs,         \* requests that may wait for the vault at once
          MaxActs       \* bound on what the users do

NoRow == [owner |-> "none"]
NoGroup == "no group"
Nobody == "nobody"
NoEnvelope == [secret |-> Nobody]
Kept == [secret |-> "kept"]

VARIABLES connections,  \* table connections: id -> row
          credentials,  \* table connection_credentials: id -> envelope
          groups,       \* table server_groups: id -> [owner, name]
          deleted,      \* ids of deleted connections and groups
          reqs,         \* what each waiting request will do
          form,         \* user -> the form open on the connections page
          sent,         \* passwords handed to a provider: [user, secret]
          acts

vars == <<connections, credentials, groups, deleted, reqs, form, sent, acts>>

Fields == {"label", "tls", "ca", "group"}
Row == [owner : Users, label : Labels, tls : BOOLEAN, ca : BOOLEAN,
        group : Groups \cup {NoGroup}]
Envelope == [aad : Ids, secret : Users]
NoWork == [op |-> "idle"]

Exists(c) == connections[c] # NoRow
Owned(u) == {c \in Ids : Exists(c) /\ connections[c].owner = u}
Spend == acts < MaxActs /\ acts' = acts + 1

-----------------------------------------------------------------------------
(* Checks made before anything is written.                                 *)

\* Only the patch is looked at, not the row it makes (a mutant).
validatesPatchOnly(row) == TRUE

\* validateConnectionInput(): TLS options are refused when TLS is off.
validateConnectionInput(row) == row.ca => row.tls

\* assertConnectionOwner(): an administrator is not let through either.
assertConnectionOwner(u, c) == connections[c].owner = u

\* assertGroupBelongsToActor(), with requireGroup() and assertGroupOwner().
assertGroupBelongsToActor(u, g) ==
  g # NoGroup => groups[g] # NoRow /\ groups[g].owner = u

\* assertLabelAvailable().
assertLabelAvailable(u, l, ignored) ==
  \A c \in Owned(u) \ ignored : connections[c].label # l

\* assertGroupNameAvailable().
assertGroupNameAvailable(u, n, ignored) ==
  \A g \in Groups \ ignored :
    groups[g] # NoRow /\ groups[g].owner = u => groups[g].name # n

-----------------------------------------------------------------------------
(* The tables: what a statement does, and when its constraint refuses it.  *)

\* UNIQUE (owner_user_id, label).
LabelFree(c, row) ==
  \A d \in Ids \ {c} : Exists(d) =>
    <<connections[d].owner, connections[d].label>> # <<row.owner, row.label>>

\* group_id REFERENCES server_groups(id).
GroupThere(row) == row.group # NoGroup => groups[row.group] # NoRow

\* SqliteConnectionRepository.create().
Insert(c, row) == [connections EXCEPT ![c] = row]

\* SqliteConnectionRepository.update(): no row, no change.
Update(c, row) ==
  IF Exists(c) THEN [connections EXCEPT ![c] = row] ELSE connections

\* SqliteCredentialRepository.upsert(): its connection_id REFERENCES connections(id).
Upsert(c, envelope) == [credentials EXCEPT ![c] = envelope]

-----------------------------------------------------------------------------
(* The credential vault.                                                   *)

\* encryptCredential(): the envelope is bound to the connection's id.
encryptCredential(c, secret) == [aad |-> c, secret |-> secret]

\* decryptAndUseCredential(): another id does not open it.
Opens(c, envelope) == envelope.aad = c

\* copyCredential(): opened under the old id, sealed under the new one.
copyCredential(old, new, envelope) == encryptCredential(new, envelope.secret)

-----------------------------------------------------------------------------
\* One connection is already saved, with its password and in a group.
Init ==
  \E u \in Users, c \in Ids, g \in Groups, l \in Labels :
    /\ connections = [d \in Ids |-> IF d # c THEN NoRow ELSE
         [owner |-> u, label |-> l, tls |-> TRUE, ca |-> TRUE, group |-> g]]
    /\ credentials = [d \in Ids |-> IF d # c THEN NoEnvelope ELSE encryptCredential(c, u)]
    /\ groups = [h \in Groups |-> IF h # g THEN NoRow ELSE [owner |-> u, name |-> l]]
    /\ deleted = {}
    /\ reqs = [r \in Reqs |-> NoWork]
    /\ form = [v \in Users |-> NoWork]
    /\ sent = {}
    /\ acts = 0

\* The transaction of a create (new) or an update: row, credential and audit
\* record, all or nothing.  A refused constraint or a failing audit write
\* leaves the tables as they were.
Save(new, c, row, envelope) ==
  \/ /\ new \/ Exists(c) => LabelFree(c, row) /\ GroupThere(row)
     /\ connections' = IF new THEN Insert(c, row) ELSE Update(c, row)
     /\ envelope \in {Kept, NoEnvelope} \/ connections'[c] # NoRow
     /\ credentials' = IF envelope = Kept THEN credentials
                       ELSE Upsert(c, envelope)
  \/ UNCHANGED <<connections, credentials>>

\* createId(): ids are never handed out again.
Fresh(c) == ~Exists(c) /\ c \notin deleted
            /\ \A r \in Reqs : reqs[r].op = "save" /\ reqs[r].new => reqs[r].id # c

\* createConnection(): without a password to save there is nothing to wait for.
createConnection(r, u, c, row, secret) ==
  /\ Spend
  /\ reqs[r] = NoWork /\ Fresh(c) /\ row.owner = u
  /\ validateConnectionInput(row)
  /\ assertGroupBelongsToActor(u, row.group)
  /\ assertLabelAvailable(u, row.label, {})
  /\ \/ /\ secret = Nobody
        /\ Save(TRUE, c, row, Kept)
        /\ UNCHANGED reqs
     \/ /\ secret # Nobody
        /\ reqs' = [reqs EXCEPT ![r] = [op |-> "save", new |-> TRUE, id |-> c,
                      row |-> row, envelope |-> encryptCredential(c, secret)]]
        /\ UNCHANGED <<connections, credentials>>
  /\ UNCHANGED <<groups, deleted, form, sent>>

\* The row a patch makes of a stored one: an absent field keeps its value.
Merged(row, patch) ==
  [f \in DOMAIN row |-> IF f \in DOMAIN patch THEN patch[f] ELSE row[f]]

\* updateConnection(): `change` is "keep", "clear" (clearSecret) or the new
\* password; only the last one waits.
updateConnection(r, u, c, patch, change) ==
  LET row == Merged(connections[c], patch) IN
  /\ reqs[r] = NoWork /\ Exists(c)
  /\ assertConnectionOwner(u, c)
  /\ validateConnectionInput(row)
  /\ assertGroupBelongsToActor(u, row.group)
  /\ row.label # connections[c].label => assertLabelAvailable(u, row.label, {c})
  /\ \/ /\ change \in {"keep", "clear"}
        /\ Save(FALSE, c, row, IF change = "keep" THEN Kept ELSE NoEnvelope)
        /\ UNCHANGED reqs
     \/ /\ change \in Users
        /\ reqs' = [reqs EXCEPT ![r] = [op |-> "save", new |-> FALSE, id |-> c,
                      row |-> row, envelope |-> encryptCredential(c, change)]]
        /\ UNCHANGED <<connections, credentials>>
  /\ UNCHANGED <<groups, deleted, sent>>

\* A request to the API changes some fields only.
Patched(r, u, c, patch, change) ==
  /\ Spend
  /\ updateConnection(r, u, c, patch, change)
  /\ UNCHANGED form

\* duplicateConnection(): the row under a new id and label.
duplicateConnection(r, u, c, d, label, copySecret) ==
  LET row == [connections[c] EXCEPT !.label = label] IN
  /\ Spend
  /\ reqs[r] = NoWork /\ Exists(c) /\ Fresh(d)
  /\ assertConnectionOwner(u, c)
  /\ assertLabelAvailable(u, label, {})
  /\ \/ /\ ~copySecret \/ credentials[c] = NoEnvelope
        /\ Save(TRUE, d, row, Kept)
        /\ UNCHANGED reqs
     \/ /\ copySecret /\ credentials[c] # NoEnvelope /\ Opens(c, credentials[c])
        /\ reqs' = [reqs EXCEPT ![r] = [op |-> "save", new |-> TRUE, id |-> d,
                      row |-> row, envelope |-> copyCredential(c, d, credentials[c])]]
        /\ UNCHANGED <<connections, credentials>>
  /\ UNCHANGED <<groups, deleted, form, sent>>

\* The vault answered (or failed, and nothing is written).
Encrypted(r) ==
  /\ reqs[r].op = "save"
  /\ reqs' = [reqs EXCEPT ![r] = NoWork]
  /\ Save(reqs[r].new, reqs[r].id, reqs[r].row, reqs[r].envelope)
  /\ UNCHANGED <<groups, deleted, form, sent, acts>>

\* deleteConnection(): by the owner or an administrator; the credential goes
\* with the row, in one transaction with the audit record.
deleteConnection(u, c) ==
  /\ Spend
  /\ Exists(c)
  /\ assertConnectionOwner(u, c) \/ u \in Admins
  /\ connections' = [connections EXCEPT ![c] = NoRow]
  /\ credentials' = [credentials EXCEPT ![c] = NoEnvelope]
  /\ deleted' = deleted \cup {c}
  /\ UNCHANGED <<groups, reqs, form, sent>>

-----------------------------------------------------------------------------
(* Using a saved password.                                                 *)

\* Row and envelope are read, then the vault is waited for.
UseSecret(r, u, c) ==
  /\ reqs[r] = NoWork /\ Exists(c)
  /\ assertConnectionOwner(u, c)
  /\ credentials[c] # NoEnvelope
  /\ reqs' = [reqs EXCEPT ![r] = [op |-> "use", user |-> u, id |-> c,
                envelope |-> credentials[c]]]

\* openQuerySession(): a session of a query tab.
openQuerySession(r, u, c) ==
  /\ Spend
  /\ UseSecret(r, u, c)
  /\ UNCHANGED <<connections, credentials, groups, deleted, form, sent>>

\* withMutationProvider(): a session for one change of data.
withMutationProvider(r, u, c) ==
  /\ Spend
  /\ UseSecret(r, u, c)
  /\ UNCHANGED <<connections, credentials, groups, deleted, form, sent>>

\* testConnection(): of the saved connection, or of what was typed, the password
\* included.  (With a live session the password is not needed: it is pinged.)
testConnection(r, u, c) ==
  /\ Spend
  /\ \/ UseSecret(r, u, c) /\ UNCHANGED sent
     \/ /\ sent' = sent \cup {[user |-> u, secret |-> u]}
        /\ UNCHANGED reqs
  /\ UNCHANGED <<connections, credentials, groups, deleted, form>>

\* decryptAndUseCredential() opens the envelope and the provider is given the
\* password; an envelope of another connection is refused.
Decrypted(r) ==
  /\ reqs[r].op = "use"
  /\ sent' = IF Opens(reqs[r].id, reqs[r].envelope)
             THEN sent \cup {[user |-> reqs[r].user,
                              secret |-> reqs[r].envelope.secret]}
             ELSE sent \cup {[user |-> reqs[r].user, secret |-> Nobody]}
  /\ reqs' = [reqs EXCEPT ![r] = NoWork]
  /\ UNCHANGED <<connections, credentials, groups, deleted, form, acts>>

-----------------------------------------------------------------------------
(* Server groups: no waiting.                                              *)

createGroup(u, g, n) ==
  /\ Spend
  /\ groups[g] = NoRow /\ g \notin deleted
  /\ assertGroupNameAvailable(u, n, {})
  /\ groups' = [groups EXCEPT ![g] = [owner |-> u, name |-> n]]
  /\ UNCHANGED <<connections, credentials, deleted, reqs, form, sent>>

updateGroup(u, g, n) ==
  /\ Spend
  /\ groups[g] # NoRow /\ groups[g].owner = u
  /\ groups[g].name # n /\ assertGroupNameAvailable(u, n, {g})
  /\ groups' = [groups EXCEPT ![g].name = n]
  /\ UNCHANGED <<connections, credentials, deleted, reqs, form, sent>>

\* The connections that deleteGroup() takes out of the group.
Ungrouped(u, g) ==
  [c \in Ids |-> IF c \in Owned(u) /\ connections[c].group = g
                 THEN [connections[c] EXCEPT !.group = NoGroup]
                 ELSE connections[c]]

deleteGroup(u, g) ==
  /\ Spend
  /\ groups[g] # NoRow /\ groups[g].owner = u
  /\ connections' = Ungrouped(u, g)
  /\ groups' = [groups EXCEPT ![g] = NoRow]
  /\ deleted' = deleted \cup {g}
  /\ UNCHANGED <<credentials, reqs, form, sent>>

-----------------------------------------------------------------------------
(* The connections page: a list loaded once, a form filled from it, and a  *)
(* save that sends every field of the form.                                *)

\* listConnections(): an administrator is shown everybody's.
listConnections(u) ==
  {[id |-> c, row |-> connections[c], hasSavedSecret |-> credentials[c] # NoEnvelope] :
     c \in {d \in Ids : Exists(d) /\ (u \in Admins \/ connections[d].owner = u)}}

\* load() and openEdit(): the form shows what the list was when it was loaded.
openEdit(u, shown) ==
  /\ Spend
  /\ shown \in listConnections(u)
  /\ form' = [form EXCEPT ![u] = [op |-> "edit", id |-> shown.id, row |-> shown.row]]
  /\ UNCHANGED <<connections, credentials, groups, deleted, reqs, sent>>

\* onTlsModeChange(): TLS options go away with TLS.
onTlsModeChange(u, tls) ==
  /\ form[u] # NoWork /\ form[u].row.tls # tls
  /\ form' = [form EXCEPT ![u].row.tls = tls,
                          ![u].row.ca = tls /\ form[u].row.ca]
  /\ UNCHANGED <<connections, credentials, groups, deleted, reqs, sent, acts>>

\* saveConnection() of an edited connection: connectionPatch() is the whole
\* form.  The editor closes when the server accepted it and stays open if not.
saveConnection(r, u, change) ==
  LET edited == form[u] IN
  /\ Spend
  /\ edited # NoWork
  /\ updateConnection(r, u, edited.id, [f \in Fields |-> edited.row[f]], change)
  /\ form' \in {form, [form EXCEPT ![u] = NoWork]}

-----------------------------------------------------------------------------
\* patchInput(): a request may name any of the fields; one at a time is enough,
\* the page sends all of them.
patchInput == UNION {{[f \in {"label"} |-> v] : v \in Labels},
                     {[f \in {"tls"} |-> v] : v \in BOOLEAN},
                     {[f \in {"ca"} |-> v] : v \in BOOLEAN},
                     {[f \in {"group"} |-> v] : v \in Groups \cup {NoGroup}}}

\* registerConnectionRoutes(): what a signed-in user may ask of a connection ...
ConnectionRoutes(r, u, c) ==
  \/ \E row \in Row, s \in {u, Nobody} : createConnection(r, u, c, row, s)
  \/ \E p \in patchInput, s \in {"keep", "clear", u} : Patched(r, u, c, p, s)
  \/ \E d \in Ids, l \in Labels, b \in BOOLEAN : duplicateConnection(r, u, c, d, l, b)
  \/ testConnection(r, u, c)
  \/ deleteConnection(u, c)

\* ... and of a server group.
GroupRoutes(u, g) ==
  \/ \E n \in Labels : createGroup(u, g, n) \/ updateGroup(u, g, n)
  \/ deleteGroup(u, g)

Next ==
  \/ \E r \in Reqs, u \in Users :
       \/ \E c \in Ids : \/ ConnectionRoutes(r, u, c)
                         \/ openQuerySession(r, u, c)
                         \/ withMutationProvider(r, u, c)
       \/ \E s \in {"keep", "clear", u} : saveConnection(r, u, s)
  \/ \E r \in Reqs : Encrypted(r) \/ Decrypted(r)
  \/ \E u \in Users :
       \/ \E g \in Groups : GroupRoutes(u, g)
       \/ \E s \in listConnections(u) : openEdit(u, s)
       \/ \E t \in BOOLEAN : onTlsModeChange(u, t)

Spec == Init /\ [][Next]_vars

-----------------------------------------------------------------------------
\* Types of the variables.
TypeOK ==
  /\ connections \in [Ids -> Row \cup {NoRow}]
  /\ credentials \in [Ids -> Envelope \cup {NoEnvelope}]
  /\ \A g \in Groups : groups[g] = NoRow \/ groups[g] \in [owner : Users, name : Labels]
  /\ deleted \subseteq Ids \cup Groups
  /\ acts \in 0..MaxActs

\* What is stored is always something the server would accept: the merge of any
\* sequence of partial patches, whole forms and requests that waited for the
\* vault while others wrote keeps TLS options out of a connection without TLS,
\* the labels of a user apart, and every connection in an existing group of its
\* own owner (validateConnectionInput, assertLabelAvailable, deleteGroup and
\* the constraints behind them).
StoredIsValid ==
  \A c \in Ids : Exists(c) =>
    /\ connections[c].ca => connections[c].tls
    /\ LabelFree(c, connections[c])
    /\ assertGroupBelongsToActor(connections[c].owner, connections[c].group)

\* A password is stored only with the connection it was typed for or copied to,
\* can be opened there, and is handed to a database only for the user who typed
\* it: not for an administrator, and not through a duplicate.
SecretIsOwners ==
  /\ \A c \in Ids : credentials[c] # NoEnvelope =>
       /\ Exists(c)
       /\ Opens(c, credentials[c])
       /\ credentials[c].secret = connections[c].owner
  /\ \A s \in sent : s.secret = s.user

\* A deleted connection stays deleted, its password with it: a request that read
\* the row before the delete and writes it after waiting for the vault does not
\* bring it back.
DeletedStaysGone ==
  \A c \in deleted \cap Ids : ~Exists(c) /\ credentials[c] = NoEnvelope
=============================================================================
