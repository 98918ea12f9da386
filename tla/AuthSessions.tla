---------------------------- MODULE AuthSessions ----------------------------
(***************************************************************************)
(* packages/auth and the routes over it: the initial administrator, login  *)
(* with its rate limits, sessions with idle and absolute expiry, password  *)
(* changes and user management.                                            *)
(*                                                                         *)
(* A store transaction is one step.  A call is split where it awaits: the  *)
(* request body (after the session was checked), the verification of a     *)
(* password and the computation of a hash.  A hash is a password and the   *)
(* call that computed it, since two hashes of one password differ.  A      *)
(* session is named by the login call that opened it.                      *)
(***************************************************************************)
EXTENDS FiniteSets, RateLimiter

CONSTANTS Users,       \* user names that may be used
          Passwords,
          First,       \* the password of the users of an earlier run
          Calls,       \* bound: calls that await
          NoCall,
          MaxTime,     \* bound: the clock
          Idle,        \* idleTimeoutMinutes
          Absolute,    \* absoluteTimeoutHours
          Touch        \* touchIntervalMs

ASSUME AuthAssumption ==
    /\ NoCall \notin Calls
    /\ First \in Passwords
    /\ MaxTime \in Nat
    /\ {Idle, Absolute, Touch} \subseteq Nat \ {0}



VARIABLES
    clock,
    users,        \* [Users -> row or NoUser]
    sessions,     \* [Calls -> session row or NoSession]
    calls,        \* what every call is doing
    buckets,      \* rate limiter buckets: per user name, per address, for setup
    initialized,  \* InitialAdminService.initialized: unset, no, yes
    lastSet,      \* history: the password each user was last given
    lastUse,      \* history: when each session was last accepted
    granted       \* history: times of the allowed logins of each key since its reset

vars == <<clock, users, sessions, calls, buckets, initialized, lastSet, lastUse, granted>>
store == <<users, sessions>>
history == <<lastSet, lastUse, granted>>

Roles == {"admin", "user"}
NoUser == [role |-> "none", active |-> FALSE, hash |-> <<>>]
NoSession == [user |-> "none", created |-> 0, seen |-> 0, revoked |-> FALSE]
Idling == [pc |-> "new", kind |-> "none", user |-> "none", pw |-> "none", by |-> NoCall, snap |-> NoUser]

Keys == Users \cup {"address", "setup"}

Exists(u) == users[u] # NoUser

\* activeAdmin(), activeAdminCount()
ActiveAdmins == {u \in Users : users[u].role = "admin" /\ users[u].active}

\* The store as the server finds it: new, or with users of an earlier run, at
\* least one of them an active administrator.
Found ==
    {[u \in Users |-> NoUser]} \cup
    {rows \in [Users -> [role : Roles, active : BOOLEAN, hash : {<<First, NoCall>>}]] :
       \E u \in Users : rows[u].role = "admin" /\ rows[u].active}

Init ==
    /\ clock = 0
    /\ users \in Found
    /\ sessions = [s \in Calls |-> NoSession]
    /\ calls = [c \in Calls |-> Idling]
    /\ buckets = [k \in Keys |-> NoBucket]
    /\ initialized = "unset"
    /\ lastSet = [u \in Users |-> IF Exists(u) THEN users[u].hash[1] ELSE "none"]
    /\ lastUse = [s \in Calls |-> 0]
    /\ granted = [k \in Keys |-> {}]

-----------------------------------------------------------------------------
Open(s) == sessions[s] # NoSession

\* isExpired(), and the condition of listExpired().
Expired(s) ==
    \/ clock >= sessions[s].created + Absolute
    \/ clock >= sessions[s].seen + Idle

\* Mutant: the revocation is not looked at.
AcceptsRevoked(s) == Open(s) /\ ~Expired(s) /\ users[sessions[s].user].active

\* validateSession() accepts the token of s.
Valid(s) ==
    /\ Open(s)
    /\ ~sessions[s].revoked
    /\ ~Expired(s)
    /\ users[sessions[s].user].active

\* last_seen_at is written only when it is touchIntervalMs old.
Touched(s) ==
    IF clock - sessions[s].seen >= Touch THEN [sessions EXCEPT ![s].seen = clock] ELSE sessions

\* actorForRequest(): setup is done and the session is valid.
Authenticated(s) == initialized = "yes" /\ Valid(s)

\* requireAdmin()
Admin(s) == Authenticated(s) /\ users[sessions[s].user].role = "admin"

\* Any authenticated request.
Request(s) ==
    /\ Authenticated(s)
    /\ sessions' = Touched(s)
    /\ lastUse' = [lastUse EXCEPT ![s] = clock]
    /\ UNCHANGED <<clock, users, calls, buckets, initialized, lastSet, granted>>

\* Sets the phase of call c, or ends it and forgets what it held.
Done == [Idling EXCEPT !.pc = "done"]
Goto(c, pc) ==
    calls' = [calls EXCEPT ![c] = IF pc = "done" THEN Done ELSE [@ EXCEPT !.pc = pc]]
At(c, kind, pc) == calls[c].kind = kind /\ calls[c].pc = pc

\* The route of a call that acts for session s has checked it and awaits the body.
Admitted(c, s, kind) ==
    /\ calls[c] = Idling
    /\ calls' = [calls EXCEPT ![c].pc = "body", ![c].kind = kind, ![c].by = s,
                              ![c].user = IF kind = "change" THEN sessions[s].user ELSE "none"]
    /\ sessions' = Touched(s)
    /\ lastUse' = [lastUse EXCEPT ![s] = clock]
    /\ UNCHANGED <<clock, users, buckets, initialized, lastSet, granted>>

-----------------------------------------------------------------------------
\* isInitialized() looks once and remembers.
ReadStatus ==
    /\ initialized = "unset"
    /\ initialized' = IF ActiveAdmins # {} THEN "yes" ELSE "no"
    /\ UNCHANGED <<clock, users, sessions, calls, buckets, history>>

\* POST /setup/admin up to the hash.  What a call was given is chosen where it is
\* first compared with the store.
SetupStart(c) ==
    /\ calls[c] = Idling
    /\ Allowed(buckets["setup"], clock)
    /\ buckets' = [buckets EXCEPT !["setup"] = Consumed(@, clock)]
    /\ calls' = [calls EXCEPT ![c].pc = "hashing", ![c].kind = "setup"]
    /\ UNCHANGED <<clock, users, sessions, initialized, history>>

\* Call c creates user u.
Created(c, u, pw, role) ==
    /\ users' = [users EXCEPT ![u] = [role |-> role, active |-> TRUE, hash |-> <<pw, c>>]]
    /\ lastSet' = [lastSet EXCEPT ![u] = pw]

\* The transaction of InitialAdminService.create().
SetupCommit(c, u, pw) ==
    /\ At(c, "setup", "hashing")
    /\ ActiveAdmins = {}
    /\ ~Exists(u)
    /\ Created(c, u, pw, "admin")
    /\ initialized' = "yes"
    /\ Goto(c, "done")
    /\ UNCHANGED <<clock, sessions, buckets, lastUse, granted>>

SetupRefused(c) ==
    /\ At(c, "setup", "hashing")
    /\ \E u \in Users : Exists(u)
    /\ Goto(c, "done")
    /\ UNCHANGED <<clock, store, buckets, initialized, history>>

-----------------------------------------------------------------------------
\* login() up to the verification: the address is counted first, the user name
\* only when the address is allowed.  The user is read before the await.
LoginStart(c, u, pw) ==
    LET addressOk == Allowed(buckets["address"], clock)
        ok == addressOk /\ Allowed(buckets[u], clock)
        keys == IF addressOk THEN {u, "address"} ELSE {"address"}
        counted == {k \in keys : Allowed(buckets[k], clock)}
    IN
    /\ initialized = "yes"
    /\ calls[c] = Idling
    /\ buckets' = [k \in Keys |-> IF k \in keys THEN Consumed(buckets[k], clock) ELSE buckets[k]]
    /\ granted' = [k \in Keys |-> IF k \in counted THEN granted[k] \cup {<<clock, c>>} ELSE granted[k]]
    /\ calls' = [calls EXCEPT ![c] =
                   IF ok THEN [pc |-> "verifying", kind |-> "login", user |-> u, pw |-> pw,
                               by |-> NoCall, snap |-> users[u]]
                   ELSE Done]
    /\ UNCHANGED <<clock, users, sessions, initialized, lastSet, lastUse>>

\* The password matches the hash that was read before the await.
Matches(c) == calls[c].snap # NoUser /\ calls[c].snap.hash[1] = calls[c].pw

LoginRejected(c) ==
    /\ At(c, "login", "verifying")
    /\ ~Matches(c) \/ ~calls[c].snap.active
    /\ Goto(c, "done")
    /\ UNCHANGED <<clock, store, buckets, initialized, history>>

\* The session row of call c.
OpenSession(c) ==
    /\ sessions' = [sessions EXCEPT ![c] = [user |-> calls[c].user, created |-> clock,
                                            seen |-> clock, revoked |-> FALSE]]
    /\ lastUse' = [lastUse EXCEPT ![c] = clock]

\* A login that matched forgets the counted attempts.
LoginVerified(c, needsRehash) ==
    /\ At(c, "login", "verifying")
    /\ Matches(c) /\ calls[c].snap.active
    /\ buckets' = [k \in Keys |-> IF k \in {calls[c].user, "address"} THEN NoBucket ELSE buckets[k]]
    /\ granted' = [k \in Keys |-> IF k \in {calls[c].user, "address"} THEN {} ELSE granted[k]]
    /\ IF needsRehash
       THEN Goto(c, "hashing") /\ UNCHANGED <<sessions, lastUse>>
       ELSE Goto(c, "done") /\ OpenSession(c)
    /\ UNCHANGED <<clock, users, initialized, lastSet>>

\* The user is still the one whose password was verified.
Unchanged(c) ==
    LET u == calls[c].user IN users[u].active /\ users[u].hash = calls[c].snap.hash

\* The new hash replaces the old one only if nothing changed; the session is
\* opened in any case.
LoginRehashed(c) ==
    /\ At(c, "login", "hashing")
    /\ users' = IF Unchanged(c)
                THEN [users EXCEPT ![calls[c].user].hash = <<calls[c].pw, c>>] ELSE users
    /\ OpenSession(c)
    /\ Goto(c, "done")
    /\ UNCHANGED <<clock, buckets, initialized, lastSet, granted>>

Logout(s) ==
    /\ Authenticated(s)
    /\ sessions' = [Touched(s) EXCEPT ![s].revoked = TRUE]
    /\ UNCHANGED <<clock, users, calls, buckets, initialized, history>>

\* deleteExpired(), every hour.
DeleteExpired ==
    /\ \E s \in Calls : Open(s) /\ Expired(s)
    /\ sessions' = [s \in Calls |-> IF Open(s) /\ Expired(s) THEN NoSession ELSE sessions[s]]
    /\ UNCHANGED <<clock, users, calls, buckets, initialized, history>>

-----------------------------------------------------------------------------
\* revokeAllForUser() and revokeAllForUserExcept()
Revoked(u, except) ==
    [s \in Calls |-> IF Open(s) /\ sessions[s].user = u /\ s # except
                     THEN [sessions[s] EXCEPT !.revoked = TRUE] ELSE sessions[s]]

ChangeStart(c, s) == Authenticated(s) /\ Admitted(c, s, "change")

\* changePassword() reads the user; old is the password that is verified.
ChangeReads(c, old) ==
    LET u == calls[c].user IN
    /\ At(c, "change", "body")
    /\ calls' = [calls EXCEPT ![c] = IF users[u].active /\ users[u].hash[1] = old
                                     THEN [@ EXCEPT !.snap = users[u], !.pc = "hashing"] ELSE Done]
    /\ UNCHANGED <<clock, store, buckets, initialized, history>>

\* The user of call c gets the password of call c.
SetPassword(c, pw) ==
    /\ users' = [users EXCEPT ![calls[c].user].hash = <<pw, c>>]
    /\ lastSet' = [lastSet EXCEPT ![calls[c].user] = pw]

ChangeCommit(c, pw) ==
    /\ At(c, "change", "hashing")
    /\ Unchanged(c)
    /\ SetPassword(c, pw)
    /\ sessions' = Revoked(calls[c].user, calls[c].by)
    /\ Goto(c, "done")
    /\ UNCHANGED <<clock, buckets, initialized, lastUse, granted>>

ChangeRefused(c) ==
    /\ At(c, "change", "hashing")
    /\ ~Unchanged(c)
    /\ Goto(c, "done")
    /\ UNCHANGED <<clock, store, buckets, initialized, history>>

\* resetPassword(): the user is read once before and once after the hash.
ResetStart(c, s) == Admin(s) /\ Admitted(c, s, "reset")

ResetReads(c, u) ==
    /\ At(c, "reset", "body")
    /\ calls' = [calls EXCEPT ![c] = IF Exists(u) THEN [@ EXCEPT !.pc = "hashing", !.user = u] ELSE Done]
    /\ UNCHANGED <<clock, store, buckets, initialized, history>>

ResetCommit(c, pw) ==
    /\ At(c, "reset", "hashing")
    /\ SetPassword(c, pw)
    /\ sessions' = Revoked(calls[c].user, NoCall)
    /\ Goto(c, "done")
    /\ UNCHANGED <<clock, buckets, initialized, lastUse, granted>>

\* createUser(): the name is looked up only in the transaction after the hash.
CreateStart(c, s) == Admin(s) /\ Admitted(c, s, "create")

CreateCommit(c, u, pw, role) ==
    /\ At(c, "create", "body")
    /\ IF Exists(u) THEN UNCHANGED <<users, lastSet>> ELSE Created(c, u, pw, role)
    /\ Goto(c, "done")
    /\ UNCHANGED <<clock, sessions, buckets, initialized, lastUse, granted>>

UpdateStart(c, s) == Admin(s) /\ Admitted(c, s, "update")

\* Mutant: another administrator counts even when inactive.
AnyOtherAdmin(u, role, active) ==
    users[u].role = "admin" /\ users[u].active /\ ~(role = "admin" /\ active) =>
      \E v \in Users \ {u} : users[v].role = "admin"

\* assertNotLastAdmin()
NotLastAdmin(u, role, active) ==
    users[u].role = "admin" /\ users[u].active /\ ~(role = "admin" /\ active) =>
      ActiveAdmins \ {u} # {}

\* updateUserRoleStatus(): one transaction.
UpdateCommit(c, u, role, active) ==
    LET row == [users[u] EXCEPT !.role = role, !.active = active] IN
    /\ At(c, "update", "body")
    /\ IF Exists(u) /\ NotLastAdmin(u, role, active) /\ row # users[u]
       THEN /\ users' = [users EXCEPT ![u] = row]
            /\ sessions' = IF users[u].active /\ ~active THEN Revoked(u, NoCall) ELSE sessions
       ELSE UNCHANGED store
    /\ Goto(c, "done")
    /\ UNCHANGED <<clock, buckets, initialized, history>>

Tick ==
    /\ clock < MaxTime
    /\ clock' = clock + 1
    /\ UNCHANGED <<users, sessions, calls, buckets, initialized, history>>

Next ==
    \/ ReadStatus \/ DeleteExpired \/ Tick
    \/ \E c \in Calls :
         \/ Request(c) \/ Logout(c)
         \/ SetupStart(c) \/ SetupRefused(c)
         \/ LoginRejected(c) \/ LoginRehashed(c)
         \/ \E needsRehash \in BOOLEAN : LoginVerified(c, needsRehash)
         \/ \E s \in Calls : ChangeStart(c, s) \/ ResetStart(c, s) \/ CreateStart(c, s) \/ UpdateStart(c, s)
         \/ ChangeRefused(c)
         \/ \E pw \in Passwords : ChangeReads(c, pw) \/ ChangeCommit(c, pw) \/ ResetCommit(c, pw)
         \/ \E u \in Users :
              \/ ResetReads(c, u)
              \/ \E pw \in Passwords : SetupCommit(c, u, pw) \/ LoginStart(c, u, pw)
              \/ \E pw \in Passwords, role \in Roles : CreateCommit(c, u, pw, role)
              \/ \E role \in Roles, active \in BOOLEAN : UpdateCommit(c, u, role, active)

Spec == Init /\ [][Next]_vars

-----------------------------------------------------------------------------
TypeOK ==
    /\ clock \in 0..MaxTime
    /\ users \in [Users -> [role : Roles \cup {"none"}, active : BOOLEAN,
                            hash : {<<>>} \cup (Passwords \X (Calls \cup {NoCall}))]]
    /\ sessions \in [Calls -> [user : Users \cup {"none"}, created : 0..MaxTime,
                               seen : 0..MaxTime, revoked : BOOLEAN]]
    /\ buckets \in [Keys -> Bucket]
    /\ initialized \in {"unset", "no", "yes"}

\* The instance has an active administrator from the first setup on, and only
\* then says that it is initialised: setups that overlap, and administrators
\* who demote or deactivate each other or themselves at the same time, never
\* leave it without one.
LastAdminStays ==
    /\ initialized = "yes" <=> (ActiveAdmins # {} /\ initialized # "unset")
    /\ (\E u \in Users : Exists(u)) => ActiveAdmins # {}

\* A password that was set is the one that works: the rehash of a login that
\* overlaps a change or a reset never brings the old password back.
PasswordIsLastSet == \A u \in Users : Exists(u) => users[u].hash[1] = lastSet[u]

\* Session s was opened and is over: revoked, expired or deleted.
Ended(s) ==
    \/ Open(s) /\ (sessions[s].revoked \/ Expired(s))
    \/ calls[s].pc = "done" /\ ~Open(s)

\* A session that was revoked, has expired or was deleted is never accepted
\* again, whatever happens to its user.
EndedStaysEnded == [][\A s \in Calls : Ended(s) => (Ended(s) /\ ~Valid(s))']_vars

\* The idle timeout is exact up to the touch interval: a session that was last
\* accepted at t is not accepted at t + Idle, and is not refused as idle before
\* t + Idle - Touch.
IdleWindow ==
    \A s \in Calls : Open(s) =>
      /\ clock >= lastUse[s] + Idle => ~Valid(s)
      /\ Expired(s) /\ clock < sessions[s].created + Absolute => clock + Touch > lastUse[s] + Idle

\* Between two successful logins a user name or address gets at most Limit
\* attempts per fixed window, that is at most twice Limit in any stretch of
\* Window: blocks and new windows never add up to more.
AttemptsAreLimited ==
    \A k \in Keys, t \in 0..MaxTime :
      Cardinality({g \in granted[k] : g[1] >= t /\ g[1] < t + Window}) <= 2 * Limit

\* What the users of an instance rely on, however setups, logins, changes of role, changes of
\* password and requests overlap: an administrator stays, the password that was set last is the
\* one that works, and a session ends by idleness when it should.
AccountsAreSafe == LastAdminStays /\ PasswordIsLastSet /\ IdleWindow
=============================================================================
