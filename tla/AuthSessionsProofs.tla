------------------------- MODULE AuthSessionsProofs -------------------------
(***************************************************************************)
(* Theorems about AuthSessions and RateLimiter, for any number of users,   *)
(* calls and passwords and any times and limits.  The limit on attempts is *)
(* inductive only when the granted attempts are told apart by the fixed    *)
(* window they fall in; the other properties need what a call still knows  *)
(* of the store after an await.                                            *)
(*                                                                         *)
(* Beside them, about ConnectionProfiles, for any number of users,         *)
(* connections, groups and requests: what a request that waits for the     *)
(* vault still knows is enough to keep the tables sound when it writes.    *)
(***************************************************************************)
EXTENDS MCUsers, FiniteSetTheorems, TLAPS

-----------------------------------------------------------------------------
(* The inductive invariant *)

UserRow == [role : Roles \cup {"none"}, active : BOOLEAN,
            hash : {<<>>} \cup (Passwords \X (Calls \cup {NoCall}))]

SessionRow == [user : Users \cup {"none"}, created : Nat, seen : Nat, revoked : BOOLEAN]

CallRow == [pc : {"new", "body", "hashing", "verifying", "done"},
            kind : {"none", "setup", "login", "change", "reset", "create", "update"},
            user : Users \cup {"none"}, pw : Passwords \cup {"none"},
            by : Calls \cup {NoCall}, snap : UserRow]

\* The ends that a block can have.  The length of a block is not looked into.
BlockEnds == {0} \cup {n + BlockLength(k) : n \in Nat, k \in Nat}

BucketRow == [count : 0..Limit, resetAt : Nat, blockedUntil : BlockEnds, blocks : Nat]

AuthTypes ==
    /\ clock \in Nat
    /\ users \in [Users -> UserRow]
    /\ sessions \in [Calls -> SessionRow]
    /\ calls \in [Calls -> CallRow]
    /\ buckets \in [Keys -> BucketRow]
    /\ initialized \in {"unset", "no", "yes"}
    /\ lastSet \in [Users -> Passwords \cup {"none"}]
    /\ lastUse \in [Calls -> Nat]
    /\ granted \in [Keys -> SUBSET (Nat \X Calls)]

\* Everything but a setup needs an initialised instance; a call knows whose password it
\* verifies or sets, and a login that computes a new hash holds the password that matched.
RowOK(k, i) ==
    /\ k.kind \notin {"none", "setup"} => i = "yes"
    /\ k.kind \in {"login", "change"} => k.user \in Users
    /\ k.kind = "login" => k.pw \in Passwords
    /\ k.kind = "reset" /\ k.pc = "hashing" => k.user \in Users
    /\ k.kind = "login" /\ k.pc = "hashing" => k.snap.hash[1] = k.pw

CallOK(c) == RowOK(calls[c], initialized)

\* A session belongs to a user and to a login that is over, and was written at most Touch
\* before it was last accepted; only a logout may write it later.
SessionOK(s) ==
    Open(s) =>
      /\ sessions[s].user \in Users
      /\ calls[s].pc = "done"
      /\ sessions[s].seen <= clock
      /\ lastUse[s] < sessions[s].seen + Touch
      /\ ~sessions[s].revoked => sessions[s].seen <= lastUse[s]

\* The attempts of G from time t on and before time e.
Between(G, t, e) == {g \in G : g[1] >= t /\ g[1] < e}

\* The attempts of G in the window that ends at e, and those from time t on before it.
InWindow(G, e) == {g \in G : g[1] + Window >= e}
Before(G, t, e) == {g \in G : g[1] >= t /\ g[1] + Window < e}

\* The bucket counts the attempts of its window; those before it that lie in one stretch with
\* some of them are at most Limit, and so no stretch of length Window holds more than twice that.
KeyOK(b, G, now) ==
    /\ IsFiniteSet(G)
    /\ b.resetAt <= now + Window
    /\ \A g \in G : g[1] <= now /\ g[1] < b.resetAt
    /\ Cardinality(InWindow(G, b.resetAt)) <= b.count
    /\ \A t \in Nat : t + Window + Window > b.resetAt =>
         Cardinality(Before(G, t, b.resetAt)) <= Limit
    /\ \A t \in Nat : Cardinality(Between(G, t, t + Window)) <= 2 * Limit

AuthInv ==
    /\ AuthTypes
    /\ LastAdminStays
    /\ PasswordIsLastSet
    /\ \A c \in Calls : CallOK(c) /\ SessionOK(c)
    /\ \A k \in Keys : KeyOK(buckets[k], granted[k], clock)

-----------------------------------------------------------------------------
(* The rate limiter *)

\* A set of attempts and its parts are finite, and their sizes are numbers.
LEMMA Parts ==
    ASSUME NEW G, IsFiniteSet(G), NEW T \in SUBSET G
    PROVE  IsFiniteSet(T) /\ Cardinality(T) \in Nat /\ Cardinality(T) <= Cardinality(G)
BY FS_Subset, FS_CardinalityType

\* A bucket that was rolled is still a bucket, and its window is not over (Rolled).
LEMMA RolledIsBucket ==
    ASSUME NEW b \in BucketRow, NEW now \in Nat
    PROVE  /\ Rolled(b, now) \in BucketRow
           /\ now < Rolled(b, now).resetAt
           /\ now < b.resetAt => Rolled(b, now) = b
           /\ now >= b.resetAt => Rolled(b, now).count = 0 /\ Rolled(b, now).resetAt = now + Window
<1> DEFINE b1 == [b EXCEPT !.count = 0]
           b2 == [b1 EXCEPT !.resetAt = now + Window]
<1>1. /\ b.count \in 0..Limit /\ b.resetAt \in Nat /\ Window \in Nat /\ Window > 0 /\ 0 \in 0..Limit
      /\ now + Window \in Nat /\ now < now + Window
  BY LimiterAssumption DEF BucketRow
<1>2. b1 \in BucketRow /\ b1.count = 0
  BY <1>1 DEF BucketRow
<1>3. Rolled(b, now) = IF now >= b.resetAt THEN b2 ELSE b
  BY Zenon DEF Rolled
<1> HIDE DEF b1
<1>4. b2 \in BucketRow /\ b2.count = 0 /\ b2.resetAt = now + Window
  BY <1>1, <1>2 DEF BucketRow
<1> HIDE DEF b2
<1> QED
  BY <1>1, <1>3, <1>4

\* An attempt changes only the count and the block of a rolled bucket, and counts when it is
\* allowed (consume()).
LEMMA ConsumedIsBucket ==
    ASSUME NEW b \in BucketRow, NEW now \in Nat
    PROVE  /\ Consumed(b, now) \in BucketRow
           /\ Consumed(b, now).resetAt = Rolled(b, now).resetAt
           /\ Consumed(b, now).count >= Rolled(b, now).count
           /\ Allowed(b, now) => Consumed(b, now).count = Rolled(b, now).count + 1
<1> DEFINE r == Rolled(b, now)
<1>1. r \in BucketRow
  BY RolledIsBucket
<1>2. Consumed(b, now) = IF Blocked(r, now) THEN r
                         ELSE IF Exhausted(r)
                         THEN [r EXCEPT !.blocks = @ + 1, !.blockedUntil = now + BlockLength(r.blocks + 1)]
                         ELSE [r EXCEPT !.count = @ + 1]
  BY DEF Consumed
<1>3. Allowed(b, now) <=> ~Blocked(r, now) /\ ~Exhausted(r)
  BY DEF Allowed
<1> HIDE DEF r
<1>4. now + BlockLength(r.blocks + 1) \in BlockEnds
  BY <1>1 DEF BucketRow, BlockEnds
<1>5. CASE Blocked(r, now)
  BY <1>1, <1>2, <1>3, <1>5 DEF BucketRow, r
<1>6. CASE ~Blocked(r, now) /\ Exhausted(r)
  <2> DEFINE r1 == [r EXCEPT !.blocks = @ + 1]
             r2 == [r1 EXCEPT !.blockedUntil = now + BlockLength(r.blocks + 1)]
  <2>1. r1 \in BucketRow /\ r1.count = r.count /\ r1.resetAt = r.resetAt
    BY <1>1 DEF BucketRow
  <2>2. Consumed(b, now) = r2
    BY <1>2, <1>6, Zenon
  <2> HIDE DEF r1
  <2>3. r2 \in BucketRow /\ r2.count = r1.count /\ r2.resetAt = r1.resetAt
    BY <2>1, <1>4 DEF BucketRow
  <2> HIDE DEF r2
  <2>4. r.count \in Int
    BY <1>1 DEF BucketRow
  <2>5. Consumed(b, now) \in BucketRow /\ Consumed(b, now).resetAt = r.resetAt /\ Consumed(b, now).count = r.count
    BY <2>1, <2>2, <2>3
  <2>6. ~Allowed(b, now)
    BY <1>3, <1>6
  <2> QED
    BY <2>4, <2>5, <2>6 DEF r
<1>7. CASE ~Blocked(r, now) /\ ~Exhausted(r)
  <2>1. r.count \in 0..Limit /\ r.count < Limit
    BY <1>1, <1>7, LimiterAssumption DEF Exhausted, BucketRow
  <2>2. Consumed(b, now) = [r EXCEPT !.count = @ + 1]
    BY <1>2, <1>7
  <2> QED
    BY <1>1, <2>1, <2>2, LimiterAssumption DEF BucketRow, r
<1> QED
  BY <1>5, <1>6, <1>7

\* When a window is over, the attempts in it become those before the next one (Rolled).
LEMMA RolledKeepsKey ==
    ASSUME NEW b \in BucketRow, NEW now \in Nat, NEW G \in SUBSET (Nat \X Calls), KeyOK(b, G, now)
    PROVE  KeyOK(Rolled(b, now), G, now)
<1> DEFINE e == now + Window
<1>1. CASE now < b.resetAt
  BY <1>1, RolledIsBucket
<1>2. CASE now >= b.resetAt
  <2>1. Rolled(b, now).count = 0 /\ Rolled(b, now).resetAt = e
    BY <1>2, RolledIsBucket
  <2>2. b.resetAt \in Nat /\ b.count \in 0..Limit /\ Window \in Nat /\ Limit \in Nat
    BY LimiterAssumption DEF BucketRow
  <2>3. IsFiniteSet(G)
    BY DEF KeyOK
  <2>4. \A g \in G : g[1] \in Nat /\ g[1] < b.resetAt
    BY DEF KeyOK
  <2>5. InWindow(G, e) = {}
    BY <1>2, <2>2, <2>4 DEF InWindow
  <2>6. Cardinality({}) = 0
    BY FS_EmptySet
  <2>7. ASSUME NEW t \in Nat, t + Window + Window > e
        PROVE  Cardinality(Before(G, t, e)) <= Limit
    <3>1. Before(G, t, e) \in SUBSET InWindow(G, b.resetAt)
      BY <1>2, <2>2, <2>4, <2>7 DEF Before, InWindow
    <3>2. InWindow(G, b.resetAt) \in SUBSET G
      BY DEF InWindow
    <3>3. IsFiniteSet(InWindow(G, b.resetAt)) /\ Cardinality(InWindow(G, b.resetAt)) \in Nat
      BY <2>3, <3>2, Parts
    <3>4. /\ Cardinality(Before(G, t, e)) \in Nat
          /\ Cardinality(Before(G, t, e)) <= Cardinality(InWindow(G, b.resetAt))
      BY <3>1, <3>3, Parts
    <3>5. Cardinality(InWindow(G, b.resetAt)) <= b.count
      BY DEF KeyOK
    <3> QED
      BY <2>2, <3>3, <3>4, <3>5
  <2>8. \A g \in G : g[1] <= now /\ g[1] < e
    BY <1>2, <2>2, <2>4
  <2>9. \A t \in Nat : Cardinality(Between(G, t, t + Window)) <= 2 * Limit
    BY DEF KeyOK
  <2>11. e <= now + Window
    BY <2>2
  <2> HIDE DEF e
  <2>10. Cardinality(InWindow(G, e)) <= 0
    BY <2>5, <2>6
  <2> QED
    BY <2>1, <2>3, <2>7, <2>8, <2>9, <2>10, <2>11 DEF KeyOK
<1> QED
  BY <1>1, <1>2 DEF BucketRow

\* An attempt that is not granted, or not remembered, keeps a key in order (consume()).
LEMMA ConsumedKeepsKey ==
    ASSUME NEW b \in BucketRow, NEW now \in Nat, NEW G \in SUBSET (Nat \X Calls), KeyOK(b, G, now)
    PROVE  KeyOK(Consumed(b, now), G, now)
<1>1. KeyOK(Rolled(b, now), G, now)
  BY RolledKeepsKey
<1>2. /\ Rolled(b, now) \in BucketRow /\ Consumed(b, now) \in BucketRow
      /\ Consumed(b, now).resetAt = Rolled(b, now).resetAt
      /\ Consumed(b, now).count >= Rolled(b, now).count
  BY RolledIsBucket, ConsumedIsBucket
<1>3. InWindow(G, Rolled(b, now).resetAt) \in SUBSET G
  BY DEF InWindow
<1>4. Cardinality(InWindow(G, Rolled(b, now).resetAt)) \in Nat
  BY <1>1, <1>3, Parts DEF KeyOK
<1>5. Cardinality(InWindow(G, Rolled(b, now).resetAt)) <= Consumed(b, now).count
  BY <1>1, <1>2, <1>4 DEF KeyOK, BucketRow
<1> QED
  BY <1>1, <1>2, <1>5 DEF KeyOK

\* A set that gets at most one more element grows by at most one.
LEMMA OneMore ==
    ASSUME NEW A, NEW B, NEW x, IsFiniteSet(A), B \in SUBSET (A \cup {x})
    PROVE  IsFiniteSet(B) /\ Cardinality(B) \in Nat /\ Cardinality(B) <= Cardinality(A) + 1
<1>1. /\ IsFiniteSet(A \cup {x})
      /\ Cardinality(A \cup {x}) = Cardinality(A) \/ Cardinality(A \cup {x}) = Cardinality(A) + 1
  BY FS_AddElement
<1>2. Cardinality(A) \in Nat
  BY FS_CardinalityType
<1>3. IsFiniteSet(B) /\ Cardinality(B) \in Nat /\ Cardinality(B) <= Cardinality(A \cup {x})
  BY <1>1, Parts
<1> QED
  BY <1>1, <1>2, <1>3

\* An attempt that is granted is counted in the window it falls in (consume()).
LEMMA GrantedKeepsKey ==
    ASSUME NEW b \in BucketRow, NEW now \in Nat, NEW G \in SUBSET (Nat \X Calls), NEW c \in Calls,
           KeyOK(b, G, now), Allowed(b, now)
    PROVE  KeyOK(Consumed(b, now), G \cup {<<now, c>>}, now)
<1> DEFINE H == G \cup {<<now, c>>}
           e == Rolled(b, now).resetAt
           d == Consumed(b, now)
           n == Rolled(b, now).count
           g0 == <<now, c>>
<1>1. KeyOK(Rolled(b, now), G, now)
  BY RolledKeepsKey
<1>2. /\ d \in BucketRow /\ d.resetAt = e /\ d.count = n + 1
      /\ Rolled(b, now) \in BucketRow /\ now < e
  BY RolledIsBucket, ConsumedIsBucket
<1>3. e \in Nat /\ n \in Nat /\ n + 1 <= Limit /\ Window \in Nat /\ Limit \in Nat
  BY <1>2, LimiterAssumption DEF BucketRow
<1>4. /\ IsFiniteSet(G)
      /\ e <= now + Window
      /\ \A g \in G : g[1] <= now /\ g[1] < e
      /\ Cardinality(InWindow(G, e)) <= n
      /\ \A t \in Nat : t + Window + Window > e => Cardinality(Before(G, t, e)) <= Limit
      /\ \A t \in Nat : Cardinality(Between(G, t, t + Window)) <= 2 * Limit
  BY <1>1 DEF KeyOK
<1>5. g0[1] = now
  OBVIOUS
<1>6. \A g \in G : g[1] \in Nat
  OBVIOUS
<1>7. H = G \cup {g0}
  OBVIOUS
<1> HIDE DEF H, e, d, n, g0
<1>8. IsFiniteSet(H)
  BY <1>4, <1>7, FS_AddElement
<1>9. \A g \in H : g[1] <= now /\ g[1] < e
  BY <1>2, <1>4, <1>5, <1>7
<1>10. IsFiniteSet(InWindow(G, e)) /\ Cardinality(InWindow(G, e)) \in Nat
  <2>1. InWindow(G, e) \in SUBSET G
    BY DEF InWindow
  <2> QED
    BY <1>4, <2>1, Parts
<1>11. /\ IsFiniteSet(InWindow(H, e)) /\ Cardinality(InWindow(H, e)) \in Nat
       /\ Cardinality(InWindow(H, e)) <= d.count
  <2>1. InWindow(H, e) \in SUBSET (InWindow(G, e) \cup {g0})
    BY <1>7 DEF InWindow
  <2>2. Cardinality(InWindow(H, e)) \in Nat /\ Cardinality(InWindow(H, e)) <= Cardinality(InWindow(G, e)) + 1
    BY <1>10, <2>1, OneMore
  <2>3. IsFiniteSet(InWindow(H, e))
    BY <1>10, <2>1, OneMore
  <2> QED
    BY <1>2, <1>3, <1>4, <1>10, <2>2, <2>3
<1>12. \A t \in Nat : Before(H, t, e) = Before(G, t, e)
  BY <1>3, <1>4, <1>5, <1>7 DEF Before
<1>13. ASSUME NEW t \in Nat
       PROVE  Cardinality(Between(H, t, t + Window)) <= 2 * Limit
  <2>1. CASE t + Window <= now \/ t > now
    <3>1. Between(H, t, t + Window) = Between(G, t, t + Window)
      BY <1>3, <1>5, <1>7, <2>1 DEF Between
    <3> QED
      BY <1>4, <3>1
  <2>2. CASE ~(t + Window <= now) /\ ~(t > now)
    <3>1. t + Window + Window > e
      BY <1>3, <1>4, <2>2
    <3>2. Before(H, t, e) \in SUBSET H
      BY DEF Before
    <3>3. IsFiniteSet(Before(H, t, e)) /\ Cardinality(Before(H, t, e)) \in Nat
      BY <1>8, <3>2, Parts
    <3>4. Cardinality(Before(H, t, e)) <= Limit
      BY <1>4, <1>12, <3>1
    <3> DEFINE U == Before(H, t, e) \cup InWindow(H, e)
    <3>5. Between(H, t, t + Window) \in SUBSET U
      BY <1>3, <1>5, <1>6, <1>7 DEF Between, Before, InWindow
    <3>6. Before(H, t, e) \cap InWindow(H, e) \in SUBSET Before(H, t, e)
      OBVIOUS
    <3>7. Cardinality(Before(H, t, e) \cap InWindow(H, e)) \in Nat
      BY <3>3, <3>6, Parts
    <3>8. IsFiniteSet(U) /\ Cardinality(U) = Cardinality(Before(H, t, e)) + Cardinality(InWindow(H, e))
                                            - Cardinality(Before(H, t, e) \cap InWindow(H, e))
      BY <1>11, <3>3, FS_Union
    <3> HIDE DEF U
    <3>9. Cardinality(Between(H, t, t + Window)) \in Nat
          /\ Cardinality(Between(H, t, t + Window)) <= Cardinality(U)
      BY <3>5, <3>8, Parts
    <3>10. d.count <= Limit /\ d.count \in Nat
      BY <1>2, <1>3
    <3> QED
      BY <1>3, <1>11, <3>3, <3>4, <3>7, <3>8, <3>9, <3>10
  <2> QED
    BY <2>1, <2>2
<1>14. \A t \in Nat : t + Window + Window > e => Cardinality(Before(H, t, e)) <= Limit
  BY <1>4, <1>12
<1>15. KeyOK(d, H, now)
  BY <1>2, <1>4, <1>8, <1>9, <1>11, <1>13, <1>14 DEF KeyOK
<1> QED
  BY <1>15 DEF d, H

\* Time alone changes nothing about the attempts (consume() is the only writer).
LEMMA KeyOutlivesTime ==
    ASSUME NEW b \in BucketRow, NEW now \in Nat, NEW G \in SUBSET (Nat \X Calls), KeyOK(b, G, now)
    PROVE  KeyOK(b, G, now + 1)
<1>1. b.resetAt \in Nat /\ Window \in Nat /\ \A g \in G : g[1] \in Nat
  BY LimiterAssumption DEF BucketRow
<1>2. b.resetAt <= now + 1 + Window /\ \A g \in G : g[1] <= now + 1
  BY <1>1 DEF KeyOK
<1> QED
  BY <1>2 DEF KeyOK

\* A key without a bucket has no granted attempts: at the start, and after a login (reset()).
LEMMA NoBucketIsFresh ==
    ASSUME NEW now \in Nat
    PROVE  NoBucket \in BucketRow /\ KeyOK(NoBucket, {}, now)
<1>1. IsFiniteSet({}) /\ Cardinality({}) = 0
  BY FS_EmptySet
<1>2. NoBucket \in BucketRow
  BY LimiterAssumption DEF NoBucket, BucketRow, BlockEnds
<1>3. InWindow({}, 0) = {} /\ \A t \in Nat : Before({}, t, 0) = {} /\ Between({}, t, t + Window) = {}
  BY DEF InWindow, Before, Between
<1>4. NoBucket.resetAt = 0 /\ NoBucket.count = 0
  BY DEF NoBucket
<1>5. Limit \in Nat /\ Window \in Nat /\ 0 <= 2 * Limit /\ 0 <= now + Window
  BY LimiterAssumption
<1>6. /\ Cardinality(InWindow({}, NoBucket.resetAt)) <= NoBucket.count
      /\ \A t \in Nat : Cardinality(Before({}, t, NoBucket.resetAt)) <= Limit
      /\ \A t \in Nat : Cardinality(Between({}, t, t + Window)) <= 2 * Limit
      /\ NoBucket.resetAt <= now + Window
  BY <1>1, <1>3, <1>4, <1>5
<1> QED
  BY <1>1, <1>2, <1>6 DEF KeyOK

-----------------------------------------------------------------------------
(* Calls *)

\* What the calls of an instance are after a step.
CallsFine ==
    /\ calls' \in [Calls -> CallRow]
    /\ \A c \in Calls : CallOK(c)'
    /\ \A c \in Calls : calls[c].pc = "done" => calls'[c].pc = "done"

\* An idle call and one that is over are calls (the locals of a route before and after).
LEMMA IdleRows ==
    /\ NoUser \in UserRow
    /\ Idling \in CallRow /\ Idling.pc = "new" /\ Idling.kind = "none" /\ Idling.user = "none"
    /\ Done \in CallRow /\ Done.pc = "done" /\ Done.kind = "none"
<1>1. NoUser \in UserRow
  BY DEF NoUser, UserRow
<1> QED
  BY <1>1 DEF Idling, Done, CallRow

\* A step that changes one call leaves the others in order.
LEMMA OneCallChanges ==
    ASSUME AuthInv, NEW c \in Calls, calls' \in [Calls -> CallRow],
           \A b \in Calls : b # c => calls'[b] = calls[b],
           calls[c].pc = "done" => calls'[c].pc = "done",
           initialized = "yes" => initialized' = "yes",
           RowOK(calls'[c], initialized')
    PROVE  CallsFine
<1>1. ASSUME NEW b \in Calls, b # c
      PROVE  RowOK(calls'[b], initialized')
  BY <1>1 DEF AuthInv, CallOK, RowOK
<1> QED
  BY <1>1 DEF CallsFine, CallOK

\* Goto() writes the phase of its call, or forgets it.
LEMMA GotoEffect ==
    ASSUME AuthTypes, NEW c \in Calls, NEW p \in {"hashing", "done"}, Goto(c, p)
    PROVE  /\ calls' \in [Calls -> CallRow]
           /\ \A b \in Calls : b # c => calls'[b] = calls[b]
           /\ calls'[c] = IF p = "done" THEN Done ELSE [calls[c] EXCEPT !.pc = p]
           /\ calls'[c].pc = p
<1> DEFINE row == IF p = "done" THEN Done ELSE [calls[c] EXCEPT !.pc = p]
<1>1. calls[c] \in CallRow /\ calls \in [Calls -> CallRow]
  BY DEF AuthTypes
<1>2. row \in CallRow /\ row.pc = p
  BY <1>1, IdleRows DEF CallRow
<1>3. calls' = [calls EXCEPT ![c] = row]
  BY DEF Goto
<1> HIDE DEF row
<1>4. /\ calls' \in [Calls -> CallRow] /\ calls'[c] = row
      /\ \A b \in Calls : b # c => calls'[b] = calls[b]
  BY <1>1, <1>2, <1>3
<1> QED
  BY <1>2, <1>4 DEF row

\* A call that ends leaves the calls in order (the return of a route).
LEMMA CallEnds ==
    ASSUME AuthInv, NEW c \in Calls, Goto(c, "done"), initialized = "yes" => initialized' = "yes"
    PROVE  CallsFine
<1>1. /\ calls' \in [Calls -> CallRow]
      /\ \A b \in Calls : b # c => calls'[b] = calls[b]
      /\ calls'[c] = Done
      /\ calls'[c].pc = "done"
  BY GotoEffect DEF AuthInv
<1>2. RowOK(calls'[c], initialized')
  BY <1>1, IdleRows DEF RowOK
<1> QED
  BY <1>1, <1>2, OneCallChanges

\* A step that touches no call leaves them in order.
LEMMA CallsStay ==
    ASSUME AuthInv, calls' = calls, initialized = "yes" => initialized' = "yes"
    PROVE  CallsFine
BY DEF AuthInv, AuthTypes, CallsFine, CallOK, RowOK

\* The route of an authenticated call begins it in order (actorForRequest()).
LEMMA AdmittedCall ==
    ASSUME AuthInv, NEW c \in Calls, NEW s \in Calls, NEW kind \in {"change", "reset", "create", "update"},
           Authenticated(s), Admitted(c, s, kind)
    PROVE  CallsFine
<1>1. calls[c] = Idling /\ initialized = "yes" /\ initialized' = initialized /\ Open(s)
  BY DEF Admitted, Authenticated, Valid
<1>2. calls \in [Calls -> CallRow] /\ sessions[s].user \in Users
  BY <1>1 DEF AuthInv, AuthTypes, SessionOK
<1> DEFINE u == IF kind = "change" THEN sessions[s].user ELSE "none"
           row == [pc |-> "body", kind |-> kind, user |-> u, pw |-> "none", by |-> s, snap |-> NoUser]
<1>3. row \in CallRow
  BY <1>2, IdleRows DEF CallRow
<1>4. /\ calls'[c] = row /\ \A b \in Calls : b # c => calls'[b] = calls[b]
      /\ calls' = [b \in Calls |-> calls'[b]]
  BY <1>1, <1>2 DEF Admitted, Idling
<1>5. RowOK(row, initialized')
  BY <1>1, <1>2 DEF RowOK
<1> HIDE DEF row
<1>6. calls' \in [Calls -> CallRow]
  BY <1>2, <1>3, <1>4
<1>7. calls[c].pc # "done"
  BY <1>1, IdleRows
<1> QED
  BY <1>1, <1>4, <1>5, <1>6, <1>7, OneCallChanges

\* Once the instance is initialised it stays so (isInitialized() remembers).
LEMMA InitializedStays ==
    ASSUME Next
    PROVE  initialized = "yes" => initialized' = "yes"
<1>1. CASE ReadStatus \/ DeleteExpired \/ Tick
  BY <1>1 DEF ReadStatus, DeleteExpired, Tick
<1>2. ASSUME NEW c \in Calls,
             \/ Request(c) \/ Logout(c) \/ SetupStart(c) \/ SetupRefused(c) \/ LoginRejected(c)
             \/ LoginRehashed(c) \/ ChangeRefused(c)
      PROVE  initialized' = initialized
  BY <1>2 DEF Request, Logout, SetupStart, SetupRefused, LoginRejected, LoginRehashed, ChangeRefused
<1>3. ASSUME NEW c \in Calls, NEW needsRehash \in BOOLEAN, LoginVerified(c, needsRehash)
      PROVE  initialized' = initialized
  BY <1>3 DEF LoginVerified
<1>4. ASSUME NEW c \in Calls, NEW s \in Calls,
             ChangeStart(c, s) \/ ResetStart(c, s) \/ CreateStart(c, s) \/ UpdateStart(c, s)
      PROVE  initialized' = initialized
  BY <1>4 DEF ChangeStart, ResetStart, CreateStart, UpdateStart, Admitted
<1>5. ASSUME NEW c \in Calls, NEW pw \in Passwords,
             ChangeReads(c, pw) \/ ChangeCommit(c, pw) \/ ResetCommit(c, pw)
      PROVE  initialized' = initialized
  BY <1>5 DEF ChangeReads, ChangeCommit, ResetCommit
<1>6. ASSUME NEW c \in Calls, NEW u \in Users, NEW pw \in Passwords, SetupCommit(c, u, pw)
      PROVE  initialized' = "yes"
  BY <1>6 DEF SetupCommit
<1>7. ASSUME NEW c \in Calls, NEW u \in Users,
             \/ ResetReads(c, u)
             \/ \E pw \in Passwords : LoginStart(c, u, pw)
             \/ \E pw \in Passwords, role \in Roles : CreateCommit(c, u, pw, role)
             \/ \E role \in Roles, active \in BOOLEAN : UpdateCommit(c, u, role, active)
      PROVE  initialized' = initialized
  BY <1>7 DEF ResetReads, LoginStart, CreateCommit, UpdateCommit
<1> QED
  BY <1>1, <1>2, <1>3, <1>4, <1>5, <1>6, <1>7 DEF Next

\* The calls that read something: what they keep is what CallOK says (the reads of login(),
\* changePassword() and resetPassword(), and the start of a setup).
LEMMA ReadingCalls ==
    ASSUME AuthInv, NEW c \in Calls,
           \/ SetupStart(c) \/ LoginVerified(c, TRUE)
           \/ \E pw \in Passwords : ChangeReads(c, pw)
           \/ \E u \in Users : ResetReads(c, u) \/ \E pw \in Passwords : LoginStart(c, u, pw)
    PROVE  CallsFine
<1>1. calls \in [Calls -> CallRow] /\ users \in [Users -> UserRow] /\ CallOK(c)
  BY DEF AuthInv, AuthTypes
<1>2. calls[c] \in CallRow
  BY <1>1
<1>3. CASE SetupStart(c)
  <2> DEFINE row == [pc |-> "hashing", kind |-> "setup", user |-> "none", pw |-> "none",
                     by |-> NoCall, snap |-> NoUser]
  <2>1. row \in CallRow /\ RowOK(row, initialized') /\ calls[c].pc # "done"
    BY <1>3, IdleRows DEF CallRow, RowOK, SetupStart
  <2>2. /\ calls'[c] = row /\ calls' = [b \in Calls |-> calls'[b]]
        /\ \A b \in Calls : b # c => calls'[b] = calls[b]
    BY <1>1, <1>3 DEF SetupStart, Idling
  <2> HIDE DEF row
  <2>3. calls' \in [Calls -> CallRow]
    BY <1>1, <2>1, <2>2
  <2>4. initialized' = initialized
    BY <1>3 DEF SetupStart
  <2> QED
    BY <2>1, <2>2, <2>3, <2>4, OneCallChanges
<1>4. ASSUME NEW u \in Users, NEW pw \in Passwords, LoginStart(c, u, pw)
      PROVE  CallsFine
  <2> DEFINE row == [pc |-> "verifying", kind |-> "login", user |-> u, pw |-> pw,
                     by |-> NoCall, snap |-> users[u]]
  <2>1. initialized = "yes" /\ initialized' = initialized /\ calls[c] = Idling
    BY <1>4 DEF LoginStart
  <2>2. row \in CallRow /\ RowOK(row, initialized') /\ RowOK(Done, initialized')
    BY <1>1, <2>1, IdleRows DEF CallRow, RowOK
  <2>3. \E r \in {row, Done} : calls' = [calls EXCEPT ![c] = r]
    BY <1>4, Zenon DEF LoginStart
  <2> HIDE DEF row
  <2>4. /\ calls' \in [Calls -> CallRow] /\ calls'[c] \in {row, Done}
        /\ \A b \in Calls : b # c => calls'[b] = calls[b]
    BY <1>1, <2>2, <2>3, IdleRows
  <2>5. calls[c].pc # "done"
    BY <2>1, IdleRows
  <2>6. RowOK(calls'[c], initialized')
    BY <2>2, <2>4
  <2> QED
    BY <2>1, <2>4, <2>5, <2>6, OneCallChanges
<1>5. ASSUME NEW pw \in Passwords, ChangeReads(c, pw)
      PROVE  CallsFine
  <2> DEFINE v == calls[c].user
             r1 == [calls[c] EXCEPT !.snap = users[v]]
             row == [r1 EXCEPT !.pc = "hashing"]
  <2>1. calls[c].kind = "change" /\ calls[c].pc = "body" /\ initialized' = initialized
    BY <1>5 DEF ChangeReads, At
  <2>2. v \in Users /\ users[v] \in UserRow
    BY <1>1, <2>1 DEF CallOK, RowOK
  <2>4. \E r \in {row, Done} : calls' = [calls EXCEPT ![c] = r]
    BY <1>5, Zenon DEF ChangeReads
  <2>9. r1 = [pc |-> calls[c].pc, kind |-> "change", user |-> calls[c].user, pw |-> calls[c].pw,
              by |-> calls[c].by, snap |-> users[v]]
    BY <1>2, <2>1 DEF CallRow
  <2> HIDE DEF r1
  <2>3. row = [pc |-> "hashing", kind |-> "change", user |-> v, pw |-> calls[c].pw,
               by |-> calls[c].by, snap |-> users[v]]
    BY <2>9
  <2> HIDE DEF row
  <2>5. row \in CallRow
    BY <1>2, <2>2, <2>3 DEF CallRow
  <2>6. RowOK(row, initialized') /\ RowOK(Done, initialized')
    BY <1>1, <2>1, <2>2, <2>3, IdleRows DEF CallOK, RowOK
  <2>7. /\ calls' \in [Calls -> CallRow] /\ calls'[c] \in {row, Done}
        /\ \A b \in Calls : b # c => calls'[b] = calls[b]
    BY <1>1, <2>4, <2>5, IdleRows
  <2>8. RowOK(calls'[c], initialized')
    BY <2>6, <2>7
  <2> QED
    BY <2>1, <2>7, <2>8, OneCallChanges
<1>6. ASSUME NEW u \in Users, ResetReads(c, u)
      PROVE  CallsFine
  <2> DEFINE r1 == [calls[c] EXCEPT !.pc = "hashing"]
             row == [r1 EXCEPT !.user = u]
  <2>1. calls[c].kind = "reset" /\ calls[c].pc = "body" /\ initialized' = initialized
    BY <1>6 DEF ResetReads, At
  <2>4. \E r \in {row, Done} : calls' = [calls EXCEPT ![c] = r]
    BY <1>6, Zenon DEF ResetReads
  <2>9. r1 = [pc |-> "hashing", kind |-> "reset", user |-> calls[c].user, pw |-> calls[c].pw,
              by |-> calls[c].by, snap |-> calls[c].snap]
    BY <1>2, <2>1 DEF CallRow
  <2> HIDE DEF r1
  <2>3. row = [pc |-> "hashing", kind |-> "reset", user |-> u, pw |-> calls[c].pw,
               by |-> calls[c].by, snap |-> calls[c].snap]
    BY <2>9
  <2> HIDE DEF row
  <2>5. row \in CallRow
    BY <1>2, <2>3 DEF CallRow
  <2>6. RowOK(row, initialized') /\ RowOK(Done, initialized')
    BY <1>1, <2>1, <2>3, IdleRows DEF CallOK, RowOK
  <2>7. /\ calls' \in [Calls -> CallRow] /\ calls'[c] \in {row, Done}
        /\ \A b \in Calls : b # c => calls'[b] = calls[b]
    BY <1>1, <2>4, <2>5, IdleRows
  <2>8. RowOK(calls'[c], initialized')
    BY <2>6, <2>7
  <2> QED
    BY <2>1, <2>7, <2>8, OneCallChanges
<1>7. CASE LoginVerified(c, TRUE)
  <2>1. /\ calls[c].kind = "login" /\ calls[c].pc = "verifying" /\ initialized' = initialized
        /\ Matches(c) /\ Goto(c, "hashing")
    BY <1>7 DEF LoginVerified, At
  <2>2. /\ calls' \in [Calls -> CallRow]
        /\ \A b \in Calls : b # c => calls'[b] = calls[b]
        /\ calls'[c] = [calls[c] EXCEPT !.pc = "hashing"]
    BY <2>1, GotoEffect DEF AuthInv
  <2>3. /\ calls'[c].kind = "login" /\ calls'[c].user = calls[c].user
        /\ calls'[c].snap = calls[c].snap /\ calls'[c].pw = calls[c].pw
    BY <1>2, <2>1, <2>2 DEF CallRow
  <2>4. RowOK(calls'[c], initialized')
    BY <1>1, <2>1, <2>3 DEF CallOK, RowOK, Matches
  <2>5. calls[c].pc # "done"
    BY <2>1
  <2> QED
    BY <2>1, <2>2, <2>4, <2>5, OneCallChanges
<1> QED
  BY <1>3, <1>4, <1>5, <1>6, <1>7

\* Every step keeps the calls in order.
LEMMA CallsStep ==
    ASSUME AuthInv, Next
    PROVE  CallsFine
<1>1. initialized = "yes" => initialized' = "yes"
  BY InitializedStays
<1>2. \/ calls' = calls
      \/ \E c \in Calls : Goto(c, "done")
      \/ \E c \in Calls, s \in Calls, kind \in {"change", "reset", "create", "update"} :
           Authenticated(s) /\ Admitted(c, s, kind)
      \/ \E c \in Calls :
           \/ SetupStart(c) \/ LoginVerified(c, TRUE)
           \/ \E pw \in Passwords : ChangeReads(c, pw)
           \/ \E u \in Users : ResetReads(c, u) \/ \E pw \in Passwords : LoginStart(c, u, pw)
  <2>1. CASE ReadStatus \/ DeleteExpired \/ Tick \/ \E c \in Calls : Request(c) \/ Logout(c)
    BY <2>1 DEF ReadStatus, DeleteExpired, Tick, Request, Logout
  <2>2. ASSUME NEW c \in Calls,
               \/ SetupRefused(c) \/ LoginRejected(c) \/ LoginRehashed(c) \/ ChangeRefused(c)
               \/ LoginVerified(c, FALSE)
        PROVE  Goto(c, "done")
    BY <2>2 DEF SetupRefused, LoginRejected, LoginRehashed, ChangeRefused, LoginVerified
  <2>3. ASSUME NEW c \in Calls, NEW pw \in Passwords, ChangeCommit(c, pw) \/ ResetCommit(c, pw)
        PROVE  Goto(c, "done")
    BY <2>3 DEF ChangeCommit, ResetCommit
  <2>4. ASSUME NEW c \in Calls, NEW u \in Users, NEW pw \in Passwords, SetupCommit(c, u, pw)
        PROVE  Goto(c, "done")
    BY <2>4 DEF SetupCommit
  <2>5. ASSUME NEW c \in Calls, NEW u \in Users, NEW pw \in Passwords, NEW role \in Roles,
               CreateCommit(c, u, pw, role)
        PROVE  Goto(c, "done")
    BY <2>5 DEF CreateCommit
  <2>6. ASSUME NEW c \in Calls, NEW u \in Users, NEW role \in Roles, NEW active \in BOOLEAN,
               UpdateCommit(c, u, role, active)
        PROVE  Goto(c, "done")
    BY <2>6 DEF UpdateCommit
  <2>7. ASSUME NEW c \in Calls, NEW s \in Calls,
               ChangeStart(c, s) \/ ResetStart(c, s) \/ CreateStart(c, s) \/ UpdateStart(c, s)
        PROVE  \E kind \in {"change", "reset", "create", "update"} :
                 Authenticated(s) /\ Admitted(c, s, kind)
    BY <2>7 DEF ChangeStart, ResetStart, CreateStart, UpdateStart, Admin
  <2>8. \A needsRehash \in BOOLEAN : needsRehash = TRUE \/ needsRehash = FALSE
    OBVIOUS
  <2> QED
    BY <2>1, <2>2, <2>3, <2>4, <2>5, <2>6, <2>7, <2>8, Zenon DEF Next
<1> QED
  BY <1>1, <1>2, CallEnds, CallsStay, AdmittedCall, ReadingCalls

-----------------------------------------------------------------------------
(* Sessions *)

\* What may happen to session s in a step: nothing; it is accepted, and written if that is due;
\* it is revoked; it is deleted when it has expired; or its login opens it.
SessionStays(s) == sessions'[s] = sessions[s] /\ lastUse'[s] = lastUse[s] /\ clock' >= clock

SessionAccepted(s) ==
    /\ Valid(s) /\ clock' = clock /\ lastUse'[s] = clock
    /\ \/ sessions'[s] = sessions[s] /\ clock - sessions[s].seen < Touch
       \/ sessions'[s] = [sessions[s] EXCEPT !.seen = clock]

SessionRevoked(s) ==
    /\ Open(s) /\ clock' = clock /\ lastUse'[s] = lastUse[s]
    /\ \E t \in {sessions[s].seen, clock} :
         sessions'[s] = [user |-> sessions[s].user, created |-> sessions[s].created,
                         seen |-> t, revoked |-> TRUE]

SessionDeleted(s) == Open(s) /\ Expired(s) /\ sessions'[s] = NoSession /\ clock' = clock

SessionOpened(s) ==
    /\ calls[s].pc # "done" /\ calls'[s].pc = "done" /\ calls[s].user \in Users
    /\ clock' = clock /\ lastUse'[s] = clock
    /\ sessions'[s] = [user |-> calls[s].user, created |-> clock, seen |-> clock, revoked |-> FALSE]

SessionMoves(s) ==
    \/ SessionStays(s) \/ SessionAccepted(s) \/ SessionRevoked(s) \/ SessionDeleted(s)
    \/ SessionOpened(s)

SessionsMove ==
    /\ sessions' = [s \in Calls |-> sessions'[s]]
    /\ lastUse' \in [Calls -> Nat]
    /\ clock' \in Nat
    /\ \A s \in Calls : SessionMoves(s)

\* A session that is accepted is written when it is touchIntervalMs old (validateSession()).
LEMMA TouchMoves ==
    ASSUME AuthInv, NEW s \in Calls, Valid(s), sessions' = Touched(s), clock' = clock,
           lastUse' = [lastUse EXCEPT ![s] = clock]
    PROVE  SessionsMove
<1>1. sessions \in [Calls -> SessionRow] /\ lastUse \in [Calls -> Nat] /\ clock \in Nat
      /\ Touch \in Nat /\ sessions[s].seen \in Nat
  BY AuthAssumption DEF AuthInv, AuthTypes, SessionRow
<1>2. lastUse' \in [Calls -> Nat] /\ lastUse'[s] = clock
      /\ \A r \in Calls : r # s => lastUse'[r] = lastUse[r]
  BY <1>1
<1>3. CASE clock - sessions[s].seen >= Touch
  <2>1. sessions' = [sessions EXCEPT ![s] = [sessions[s] EXCEPT !.seen = clock]]
    BY <1>3 DEF Touched
  <2>2. /\ sessions'[s] = [sessions[s] EXCEPT !.seen = clock]
        /\ \A r \in Calls : r # s => sessions'[r] = sessions[r]
        /\ sessions' = [r \in Calls |-> sessions'[r]]
    BY <1>1, <2>1
  <2> QED
    BY <1>1, <1>2, <2>2 DEF SessionsMove, SessionMoves, SessionStays, SessionAccepted
<1>4. CASE clock - sessions[s].seen < Touch
  <2>1. sessions' = sessions
    BY <1>1, <1>4 DEF Touched
  <2> QED
    BY <1>1, <1>2, <1>4, <2>1 DEF SessionsMove, SessionMoves, SessionStays, SessionAccepted
<1> QED
  BY <1>1, <1>3, <1>4

\* A step that writes no session and does not turn the clock back leaves the sessions alone.
LEMMA SessionsStay ==
    ASSUME AuthInv, sessions' = sessions, lastUse' = lastUse, clock' \in {clock, clock + 1}
    PROVE  SessionsMove
BY DEF AuthInv, AuthTypes, SessionsMove, SessionMoves, SessionStays

\* A change or reset of a password, or a deactivation, revokes sessions of its user
\* (revokeAllForUser(), revokeAllForUserExcept()).
LEMMA RevokedMoves ==
    ASSUME AuthInv, NEW u, NEW x, sessions' = Revoked(u, x), lastUse' = lastUse, clock' = clock
    PROVE  SessionsMove
<1>1. sessions \in [Calls -> SessionRow] /\ lastUse \in [Calls -> Nat] /\ clock \in Nat
  BY DEF AuthInv, AuthTypes
<1>2. ASSUME NEW s \in Calls
      PROVE  SessionMoves(s)
  <2>1. CASE Open(s) /\ sessions[s].user = u /\ s # x
    <3>1. sessions'[s] = [sessions[s] EXCEPT !.revoked = TRUE]
      BY <2>1 DEF Revoked
    <3>2. sessions'[s] = [user |-> sessions[s].user, created |-> sessions[s].created,
                          seen |-> sessions[s].seen, revoked |-> TRUE]
      BY <1>1, <3>1 DEF SessionRow
    <3> QED
      BY <2>1, <3>2 DEF SessionMoves, SessionRevoked
  <2>2. CASE ~(Open(s) /\ sessions[s].user = u /\ s # x)
    BY <1>1, <2>2 DEF SessionMoves, SessionStays, Revoked
  <2> QED
    BY <2>1, <2>2
<1>3. sessions' = [s \in Calls |-> sessions'[s]]
  BY DEF Revoked
<1> QED
  BY <1>1, <1>2, <1>3 DEF SessionsMove

\* A login that is over opens its session (createSession()).
LEMMA OpenMoves ==
    ASSUME AuthInv, NEW c \in Calls, calls[c].kind = "login", calls[c].pc # "done",
           OpenSession(c), Goto(c, "done"), clock' = clock
    PROVE  SessionsMove
<1>1. sessions \in [Calls -> SessionRow] /\ lastUse \in [Calls -> Nat] /\ clock \in Nat
  BY DEF AuthInv, AuthTypes
<1>2. calls[c].user \in Users
  BY DEF AuthInv, CallOK, RowOK
<1>3. calls'[c].pc = "done"
  BY GotoEffect DEF AuthInv
<1> DEFINE row == [user |-> calls[c].user, created |-> clock, seen |-> clock, revoked |-> FALSE]
<1>4. sessions' = [sessions EXCEPT ![c] = row] /\ lastUse' = [lastUse EXCEPT ![c] = clock]
  BY DEF OpenSession
<1> HIDE DEF row
<1>5. /\ sessions'[c] = row /\ lastUse'[c] = clock /\ lastUse' \in [Calls -> Nat]
      /\ sessions' = [s \in Calls |-> sessions'[s]]
      /\ \A s \in Calls : s # c => sessions'[s] = sessions[s] /\ lastUse'[s] = lastUse[s]
  BY <1>1, <1>4
<1> QED
  BY <1>1, <1>2, <1>3, <1>5 DEF SessionsMove, SessionMoves, SessionStays, SessionOpened, row

\* A revoked row is the row and its revocation (revoke()).
LEMMA RevokedRow ==
    ASSUME NEW r \in SessionRow
    PROVE  [r EXCEPT !.revoked = TRUE] =
             [user |-> r.user, created |-> r.created, seen |-> r.seen, revoked |-> TRUE]
<1> DEFINE n == [r EXCEPT !.revoked = TRUE]
<1>1. n \in SessionRow /\ n.user = r.user /\ n.created = r.created /\ n.seen = r.seen /\ n.revoked = TRUE
  BY DEF SessionRow
<1> HIDE DEF n
<1>2. n = [user |-> r.user, created |-> r.created, seen |-> r.seen, revoked |-> TRUE]
  BY <1>1 DEF SessionRow
<1> QED
  BY <1>2 DEF n

\* A logout revokes its session, which it may have written first (logout()).
LEMMA LogoutMoves ==
    ASSUME AuthInv, NEW s \in Calls, Logout(s)
    PROVE  SessionsMove
<1>1. sessions \in [Calls -> SessionRow] /\ lastUse \in [Calls -> Nat] /\ clock \in Nat
  BY DEF AuthInv, AuthTypes
<1>2. sessions' = [Touched(s) EXCEPT ![s].revoked = TRUE] /\ lastUse' = lastUse /\ clock' = clock /\ Open(s)
  BY DEF Logout, history, Authenticated, Valid
<1>3. PICK t \in {sessions[s].seen, clock} :
        Touched(s) = [sessions EXCEPT ![s] = [sessions[s] EXCEPT !.seen = t]]
  <2>1. sessions = [sessions EXCEPT ![s] = [sessions[s] EXCEPT !.seen = sessions[s].seen]]
    <3>1. sessions[s] = [sessions[s] EXCEPT !.seen = sessions[s].seen]
      BY <1>1 DEF SessionRow
    <3> QED
      BY <1>1, <3>1
  <2>2. \/ Touched(s) = sessions
        \/ Touched(s) = [sessions EXCEPT ![s] = [sessions[s] EXCEPT !.seen = clock]]
    BY DEF Touched
  <2> QED
    BY <2>1, <2>2
<1> DEFINE row == [sessions[s] EXCEPT !.seen = t]
           new == [row EXCEPT !.revoked = TRUE]
<1>4. row = [user |-> sessions[s].user, created |-> sessions[s].created,
             seen |-> t, revoked |-> sessions[s].revoked]
  BY <1>1 DEF SessionRow
<1>5. Touched(s) \in [Calls -> {Touched(s)[r] : r \in Calls}]
      /\ Touched(s)[s] = row /\ \A r \in Calls : r # s => Touched(s)[r] = sessions[r]
  BY <1>1, <1>3
<1>6. sessions' = [Touched(s) EXCEPT ![s] = new]
  BY <1>2, <1>5
<1>9. t \in Nat /\ sessions[s] \in SessionRow
  BY <1>1 DEF SessionRow
<1>10. row \in SessionRow
  BY <1>4, <1>9 DEF SessionRow
<1>13. row.user = sessions[s].user /\ row.created = sessions[s].created /\ row.seen = t
  BY <1>4
<1> HIDE DEF row
<1>14. new = [user |-> row.user, created |-> row.created, seen |-> row.seen, revoked |-> TRUE]
  BY <1>10, RevokedRow
<1>7. new = [user |-> sessions[s].user, created |-> sessions[s].created, seen |-> t, revoked |-> TRUE]
  BY <1>13, <1>14
<1> HIDE DEF new
<1>8. /\ sessions'[s] = new /\ \A r \in Calls : r # s => sessions'[r] = sessions[r]
      /\ sessions' = [r \in Calls |-> sessions'[r]]
  BY <1>5, <1>6
<1>11. SessionRevoked(s)
  BY <1>2, <1>7, <1>8 DEF SessionRevoked
<1>12. \A r \in Calls : r # s => SessionStays(r)
  BY <1>1, <1>2, <1>8 DEF SessionStays
<1> QED
  BY <1>1, <1>2, <1>8, <1>11, <1>12 DEF SessionsMove, SessionMoves

\* Every step moves every session in one of those ways.
LEMMA SessionsStep ==
    ASSUME AuthInv, Next
    PROVE  SessionsMove
<1>1. CASE ReadStatus \/ Tick
  <2>1. sessions' = sessions /\ lastUse' = lastUse /\ clock' \in {clock, clock + 1}
    BY <1>1 DEF ReadStatus, Tick, history
  <2> QED
    BY <2>1, SessionsStay
<1>2. CASE DeleteExpired
  <2>1. /\ sessions' = [s \in Calls |-> IF Open(s) /\ Expired(s) THEN NoSession ELSE sessions[s]]
        /\ lastUse' = lastUse /\ clock' = clock
    BY <1>2 DEF DeleteExpired, history
  <2>2. clock \in Nat /\ lastUse \in [Calls -> Nat]
    BY DEF AuthInv, AuthTypes
  <2>3. \A s \in Calls : SessionMoves(s)
    BY <2>1, <2>2 DEF SessionMoves, SessionStays, SessionDeleted
  <2> QED
    BY <2>1, <2>2, <2>3 DEF SessionsMove
<1>3. ASSUME NEW c \in Calls, Request(c)
      PROVE  SessionsMove
  BY <1>3, TouchMoves DEF Request, Authenticated
<1>4. ASSUME NEW c \in Calls, NEW s \in Calls,
             ChangeStart(c, s) \/ ResetStart(c, s) \/ CreateStart(c, s) \/ UpdateStart(c, s)
      PROVE  SessionsMove
  BY <1>4, TouchMoves DEF ChangeStart, ResetStart, CreateStart, UpdateStart, Admin, Authenticated, Admitted
<1>5. ASSUME NEW c \in Calls, Logout(c)
      PROVE  SessionsMove
  BY <1>5, LogoutMoves
<1>6. ASSUME NEW c \in Calls,
             LoginRehashed(c) \/ \E needsRehash \in BOOLEAN : LoginVerified(c, needsRehash)
      PROVE  SessionsMove
  <2>1. CASE sessions' = sessions /\ lastUse' = lastUse
    <3>1. clock' = clock
      BY <1>6 DEF LoginRehashed, LoginVerified
    <3> QED
      BY <2>1, <3>1, SessionsStay
  <2>2. CASE ~(sessions' = sessions /\ lastUse' = lastUse)
    <3>1. /\ calls[c].kind = "login" /\ calls[c].pc # "done" /\ OpenSession(c) /\ Goto(c, "done")
          /\ clock' = clock
      BY <1>6, <2>2 DEF LoginRehashed, LoginVerified, At
    <3> QED
      BY <3>1, OpenMoves
  <2> QED
    BY <2>1, <2>2
<1>7. ASSUME NEW c \in Calls, NEW pw \in Passwords, ChangeCommit(c, pw) \/ ResetCommit(c, pw)
      PROVE  SessionsMove
  <2>1. \E x : sessions' = Revoked(calls[c].user, x)
    BY <1>7 DEF ChangeCommit, ResetCommit
  <2>2. lastUse' = lastUse /\ clock' = clock
    BY <1>7 DEF ChangeCommit, ResetCommit
  <2> QED
    BY <2>1, <2>2, RevokedMoves
<1>8. ASSUME NEW c \in Calls, NEW u \in Users, NEW role \in Roles, NEW active \in BOOLEAN,
             UpdateCommit(c, u, role, active)
      PROVE  SessionsMove
  <2>1. sessions' = Revoked(u, NoCall) \/ sessions' = sessions
    BY <1>8 DEF UpdateCommit, store
  <2>2. lastUse' = lastUse /\ clock' = clock
    BY <1>8 DEF UpdateCommit, history
  <2> QED
    BY <2>1, <2>2, RevokedMoves, SessionsStay
<1>9. ASSUME NEW c \in Calls,
             \/ SetupStart(c) \/ SetupRefused(c) \/ LoginRejected(c) \/ ChangeRefused(c)
             \/ \E pw \in Passwords : ChangeReads(c, pw)
      PROVE  SessionsMove
  <2>1. sessions' = sessions /\ lastUse' = lastUse /\ clock' = clock
    BY <1>9 DEF SetupStart, SetupRefused, LoginRejected, ChangeRefused, ChangeReads, history, store
  <2> QED
    BY <2>1, SessionsStay
<1>10. ASSUME NEW c \in Calls, NEW u \in Users,
              \/ ResetReads(c, u)
              \/ \E pw \in Passwords : SetupCommit(c, u, pw) \/ LoginStart(c, u, pw)
              \/ \E pw \in Passwords, role \in Roles : CreateCommit(c, u, pw, role)
       PROVE  SessionsMove
  <2>1. sessions' = sessions /\ lastUse' = lastUse /\ clock' = clock
    BY <1>10 DEF ResetReads, SetupCommit, LoginStart, CreateCommit, history, store
  <2> QED
    BY <2>1, SessionsStay
<1> QED
  BY <1>1, <1>2, <1>3, <1>4, <1>5, <1>6, <1>7, <1>8, <1>9, <1>10 DEF Next

\* What a session is after a step (validateSession(), logout(), deleteExpired()).
LEMMA SessionsStayFine ==
    ASSUME AuthInv, SessionsMove, CallsFine
    PROVE  sessions' \in [Calls -> SessionRow] /\ \A s \in Calls : SessionOK(s)'
<1>1. NoSession \in SessionRow
  BY DEF NoSession, SessionRow
<1>2. ASSUME NEW s \in Calls
      PROVE  sessions'[s] \in SessionRow /\ SessionOK(s)'
  <2>1. /\ sessions[s] \in SessionRow /\ clock \in Nat /\ clock' \in Nat /\ lastUse[s] \in Nat
        /\ Touch \in Nat \ {0} /\ sessions[s].seen \in Nat /\ SessionOK(s)
    BY AuthAssumption DEF AuthInv, AuthTypes, SessionRow, SessionsMove
  <2>2. calls[s].pc = "done" => calls'[s].pc = "done"
    BY DEF CallsFine
  <2>3. CASE SessionStays(s)
    BY <2>1, <2>2, <2>3 DEF SessionStays, SessionOK, Open
  <2>4. CASE SessionAccepted(s)
    <3>1. CASE sessions'[s] = sessions[s] /\ clock - sessions[s].seen < Touch
      BY <2>1, <2>2, <2>4, <3>1 DEF SessionAccepted, SessionOK, Open, Valid
    <3>2. CASE sessions'[s] = [sessions[s] EXCEPT !.seen = clock]
      <4>1. /\ sessions'[s] \in SessionRow /\ sessions'[s].seen = clock
            /\ sessions'[s].user = sessions[s].user /\ sessions'[s].revoked = sessions[s].revoked
        BY <2>1, <3>2 DEF SessionRow
      <4> QED
        BY <2>1, <2>2, <2>4, <4>1 DEF SessionAccepted, SessionOK, Open, Valid
    <3> QED
      BY <2>4, <3>1, <3>2 DEF SessionAccepted
  <2>5. CASE SessionRevoked(s)
    <3>1. PICK t \in {sessions[s].seen, clock} :
            sessions'[s] = [user |-> sessions[s].user, created |-> sessions[s].created,
                            seen |-> t, revoked |-> TRUE]
      BY <2>5 DEF SessionRevoked
    <3>2. /\ sessions'[s] \in SessionRow /\ sessions'[s].seen = t /\ t \in Nat
          /\ sessions'[s].user = sessions[s].user /\ sessions'[s].revoked = TRUE
      BY <2>1, <3>1 DEF SessionRow
    <3> QED
      BY <2>1, <2>2, <2>5, <3>2 DEF SessionRevoked, SessionOK, Open
  <2>6. CASE SessionDeleted(s)
    BY <1>1, <2>6 DEF SessionDeleted, SessionOK, Open
  <2>7. CASE SessionOpened(s)
    <3>1. /\ sessions'[s] \in SessionRow /\ sessions'[s].seen = clock
          /\ sessions'[s].user = calls[s].user
      BY <2>1, <2>7 DEF SessionOpened, SessionRow
    <3> QED
      BY <2>1, <2>7, <3>1 DEF SessionOpened, SessionOK
  <2> QED
    BY <2>3, <2>4, <2>5, <2>6, <2>7 DEF SessionsMove, SessionMoves
<1>3. sessions' = [s \in Calls |-> sessions'[s]]
  BY DEF SessionsMove
<1> QED
  BY <1>2, <1>3

-----------------------------------------------------------------------------
(* Rate limits *)

\* What the buckets and the granted attempts are after a step.
KeysFine ==
    /\ clock' \in Nat
    /\ buckets' \in [Keys -> BucketRow]
    /\ granted' \in [Keys -> SUBSET (Nat \X Calls)]
    /\ \A k \in Keys : KeyOK(buckets'[k], granted'[k], clock')

\* Whether an attempt on key k is granted or not, consume() keeps the key in order.
LEMMA AttemptKeepsKey ==
    ASSUME AuthInv, NEW k \in Keys, NEW c \in Calls
    PROVE  /\ Consumed(buckets[k], clock) \in BucketRow
           /\ KeyOK(Consumed(buckets[k], clock), granted[k], clock)
           /\ Allowed(buckets[k], clock) =>
                KeyOK(Consumed(buckets[k], clock), granted[k] \cup {<<clock, c>>}, clock)
<1>1. /\ buckets[k] \in BucketRow /\ clock \in Nat /\ granted[k] \in SUBSET (Nat \X Calls)
      /\ KeyOK(buckets[k], granted[k], clock)
  BY DEF AuthInv, AuthTypes
<1> QED
  BY <1>1, ConsumedIsBucket, ConsumedKeepsKey, GrantedKeepsKey

\* Every step keeps the buckets and the granted attempts in order.
LEMMA KeysStep ==
    ASSUME AuthInv, Next
    PROVE  KeysFine
<1>1. /\ clock \in Nat /\ buckets \in [Keys -> BucketRow] /\ granted \in [Keys -> SUBSET (Nat \X Calls)]
      /\ \A k \in Keys : KeyOK(buckets[k], granted[k], clock)
  BY DEF AuthInv, AuthTypes
<1>2. CASE UNCHANGED <<clock, buckets, granted>>
  BY <1>1, <1>2 DEF KeysFine
<1>3. CASE Tick
  <2>1. clock' = clock + 1 /\ buckets' = buckets /\ granted' = granted
    BY <1>3 DEF Tick, history
  <2>2. \A k \in Keys : buckets[k] \in BucketRow /\ granted[k] \in SUBSET (Nat \X Calls)
    BY <1>1
  <2>3. \A k \in Keys : KeyOK(buckets[k], granted[k], clock + 1)
    BY <1>1, <2>2, KeyOutlivesTime
  <2> QED
    BY <1>1, <2>1, <2>3 DEF KeysFine
<1>4. ASSUME NEW c \in Calls, SetupStart(c)
      PROVE  KeysFine
  <2>1. /\ buckets' = [buckets EXCEPT !["setup"] = Consumed(buckets["setup"], clock)]
        /\ clock' = clock /\ granted' = granted
    BY <1>4 DEF SetupStart, history
  <2>2. "setup" \in Keys
    BY DEF Keys
  <2>3. /\ Consumed(buckets["setup"], clock) \in BucketRow
        /\ KeyOK(Consumed(buckets["setup"], clock), granted["setup"], clock)
    BY <1>4, <2>2, AttemptKeepsKey
  <2> HIDE DEF KeyOK
  <2> QED
    BY <1>1, <2>1, <2>2, <2>3 DEF KeysFine
<1>5. ASSUME NEW c \in Calls, NEW u \in Users, NEW pw \in Passwords, LoginStart(c, u, pw)
      PROVE  KeysFine
  <2>1. PICK keys \in SUBSET Keys :
          /\ buckets' = [k \in Keys |-> IF k \in keys THEN Consumed(buckets[k], clock) ELSE buckets[k]]
          /\ granted' = [k \in Keys |-> IF k \in {n \in keys : Allowed(buckets[n], clock)}
                                        THEN granted[k] \cup {<<clock, c>>} ELSE granted[k]]
    <3> DEFINE ks == IF Allowed(buckets["address"], clock) THEN {u, "address"} ELSE {"address"}
    <3>1. ks \in SUBSET Keys
      BY DEF Keys
    <3>2. /\ buckets' = [k \in Keys |-> IF k \in ks THEN Consumed(buckets[k], clock) ELSE buckets[k]]
          /\ granted' = [k \in Keys |-> IF k \in {n \in ks : Allowed(buckets[n], clock)}
                                        THEN granted[k] \cup {<<clock, c>>} ELSE granted[k]]
      BY <1>5 DEF LoginStart
    <3> HIDE DEF ks
    <3> QED
      BY <3>1, <3>2
  <2>2. clock' = clock
    BY <1>5 DEF LoginStart
  <2>3. ASSUME NEW k \in Keys
        PROVE  /\ buckets'[k] \in BucketRow /\ granted'[k] \in SUBSET (Nat \X Calls)
               /\ KeyOK(buckets'[k], granted'[k], clock)
    <3>1. /\ Consumed(buckets[k], clock) \in BucketRow
          /\ KeyOK(Consumed(buckets[k], clock), granted[k], clock)
          /\ Allowed(buckets[k], clock) =>
               KeyOK(Consumed(buckets[k], clock), granted[k] \cup {<<clock, c>>}, clock)
      BY AttemptKeepsKey
    <3>2. granted[k] \cup {<<clock, c>>} \in SUBSET (Nat \X Calls)
      BY <1>1
    <3> QED
      BY <1>1, <2>1, <3>1, <3>2
  <2>4. buckets' = [k \in Keys |-> buckets'[k]] /\ granted' = [k \in Keys |-> granted'[k]]
    BY <2>1
  <2> QED
    BY <1>1, <2>2, <2>3, <2>4 DEF KeysFine
<1>6. ASSUME NEW c \in Calls, NEW needsRehash \in BOOLEAN, LoginVerified(c, needsRehash)
      PROVE  KeysFine
  <2> DEFINE keys == {calls[c].user, "address"}
  <2>1. /\ buckets' = [k \in Keys |-> IF k \in keys THEN NoBucket ELSE buckets[k]]
        /\ granted' = [k \in Keys |-> IF k \in keys THEN {} ELSE granted[k]]
        /\ clock' = clock
    BY <1>6 DEF LoginVerified
  <2> HIDE DEF keys
  <2>2. NoBucket \in BucketRow /\ KeyOK(NoBucket, {}, clock)
    BY <1>1, NoBucketIsFresh
  <2>3. ASSUME NEW k \in Keys
        PROVE  /\ buckets'[k] \in BucketRow /\ granted'[k] \in SUBSET (Nat \X Calls)
               /\ KeyOK(buckets'[k], granted'[k], clock)
    BY <1>1, <2>1, <2>2
  <2>4. buckets' = [k \in Keys |-> buckets'[k]] /\ granted' = [k \in Keys |-> granted'[k]]
    BY <2>1
  <2> QED
    BY <1>1, <2>1, <2>3, <2>4 DEF KeysFine
<1>7. \/ UNCHANGED <<clock, buckets, granted>>
      \/ Tick
      \/ \E c \in Calls :
           \/ SetupStart(c)
           \/ \E needsRehash \in BOOLEAN : LoginVerified(c, needsRehash)
           \/ \E u \in Users, pw \in Passwords : LoginStart(c, u, pw)
  <2>1. CASE ReadStatus \/ DeleteExpired
    BY <2>1 DEF ReadStatus, DeleteExpired, history
  <2>2. ASSUME NEW c \in Calls,
               \/ Request(c) \/ Logout(c) \/ SetupRefused(c) \/ LoginRejected(c) \/ LoginRehashed(c)
               \/ ChangeRefused(c)
        PROVE  UNCHANGED <<clock, buckets, granted>>
    BY <2>2 DEF Request, Logout, SetupRefused, LoginRejected, LoginRehashed, ChangeRefused, history
  <2>3. ASSUME NEW c \in Calls, NEW s \in Calls,
               ChangeStart(c, s) \/ ResetStart(c, s) \/ CreateStart(c, s) \/ UpdateStart(c, s)
        PROVE  UNCHANGED <<clock, buckets, granted>>
    BY <2>3 DEF ChangeStart, ResetStart, CreateStart, UpdateStart, Admitted
  <2>4. ASSUME NEW c \in Calls, NEW pw \in Passwords,
               ChangeReads(c, pw) \/ ChangeCommit(c, pw) \/ ResetCommit(c, pw)
        PROVE  UNCHANGED <<clock, buckets, granted>>
    BY <2>4 DEF ChangeReads, ChangeCommit, ResetCommit, history
  <2>5. ASSUME NEW c \in Calls, NEW u \in Users,
               \/ ResetReads(c, u)
               \/ \E pw \in Passwords : SetupCommit(c, u, pw)
               \/ \E pw \in Passwords, role \in Roles : CreateCommit(c, u, pw, role)
               \/ \E role \in Roles, active \in BOOLEAN : UpdateCommit(c, u, role, active)
        PROVE  UNCHANGED <<clock, buckets, granted>>
    BY <2>5 DEF ResetReads, SetupCommit, CreateCommit, UpdateCommit, history
  <2> QED
    BY <2>1, <2>2, <2>3, <2>4, <2>5, Zenon DEF Next
<1> QED
  BY <1>2, <1>3, <1>4, <1>5, <1>6, <1>7

-----------------------------------------------------------------------------
(* Users *)

\* What the users are after a step.
UsersFine ==
    /\ users' \in [Users -> UserRow]
    /\ initialized' \in {"unset", "no", "yes"}
    /\ lastSet' \in [Users -> Passwords \cup {"none"}]
    /\ LastAdminStays'
    /\ PasswordIsLastSet'

\* The rows of users are rows of the table, and each differs from no row.
LEMMA CreatedRow ==
    ASSUME NEW c \in Calls, NEW pw \in Passwords, NEW role \in Roles
    PROVE  [role |-> role, active |-> TRUE, hash |-> <<pw, c>>] \in UserRow
           /\ [role |-> role, active |-> TRUE, hash |-> <<pw, c>>] # NoUser
BY DEF UserRow, Roles, NoUser

\* A user who is created is there with the password it was created with, and everybody else
\* stays; an administrator who is created is an active one (createUser(), create()).
LEMMA CreatedUsers ==
    ASSUME AuthInv, NEW c \in Calls, NEW u \in Users, NEW pw \in Passwords, NEW role \in Roles,
           ~Exists(u), Created(c, u, pw, role),
           initialized' = "yes", initialized = "yes" \/ role = "admin"
    PROVE  UsersFine
<1>1. /\ users \in [Users -> UserRow] /\ lastSet \in [Users -> Passwords \cup {"none"}]
      /\ LastAdminStays /\ PasswordIsLastSet
  BY DEF AuthInv, AuthTypes
<1> DEFINE row == [role |-> role, active |-> TRUE, hash |-> <<pw, c>>]
<1>2. users' = [users EXCEPT ![u] = row] /\ lastSet' = [lastSet EXCEPT ![u] = pw]
  BY DEF Created
<1>3. row \in UserRow /\ row.role = role /\ row.active = TRUE /\ row.hash[1] = pw
  BY CreatedRow
<1> HIDE DEF row
<1>4. /\ users' \in [Users -> UserRow] /\ lastSet' \in [Users -> Passwords \cup {"none"}]
      /\ users'[u] = row /\ lastSet'[u] = pw
      /\ \A v \in Users : v # u => users'[v] = users[v] /\ lastSet'[v] = lastSet[v]
  BY <1>1, <1>2, <1>3
<1>5. PasswordIsLastSet'
  BY <1>1, <1>3, <1>4 DEF PasswordIsLastSet, Exists
<1>6. \E a \in Users : users'[a].role = "admin" /\ users'[a].active
  <2>1. CASE role = "admin"
    BY <1>3, <1>4, <2>1
  <2>2. CASE initialized = "yes"
    <3>1. PICK a \in Users : users[a].role = "admin" /\ users[a].active
      BY <1>1, <2>2 DEF LastAdminStays, ActiveAdmins
    <3>2. a # u
      BY <3>1 DEF Exists, NoUser
    <3> QED
      BY <1>4, <3>1, <3>2
  <2> QED
    BY <2>1, <2>2
<1>7. ActiveAdmins' # {}
  BY <1>6 DEF ActiveAdmins
<1>8. LastAdminStays' /\ initialized' = "yes"
  BY <1>7 DEF LastAdminStays
<1> QED
  BY <1>4, <1>5, <1>8 DEF UsersFine

\* A user who gets another hash keeps the role; the hash is of the password that was set last
\* (changePassword(), resetPassword(), the rehash of login()).
LEMMA HashedUsers ==
    ASSUME AuthInv, NEW c \in Calls, NEW u \in Users, NEW pw \in Passwords,
           users' = [users EXCEPT ![u].hash = <<pw, c>>],
           initialized = "yes", initialized' = "yes",
           lastSet' \in [Users -> Passwords \cup {"none"}], lastSet'[u] = pw,
           \A v \in Users : v # u => lastSet'[v] = lastSet[v]
    PROVE  UsersFine
<1>1. /\ users \in [Users -> UserRow] /\ lastSet \in [Users -> Passwords \cup {"none"}]
      /\ LastAdminStays /\ PasswordIsLastSet
  BY DEF AuthInv, AuthTypes
<1> DEFINE row == [users[u] EXCEPT !.hash = <<pw, c>>]
<1>2. users' = [users EXCEPT ![u] = row]
  OBVIOUS
<1>3. /\ row \in UserRow /\ row.role = users[u].role /\ row.active = users[u].active
      /\ row.hash = <<pw, c>>
  <2>1. users[u] \in UserRow /\ <<pw, c>> \in {<<>>} \cup (Passwords \X (Calls \cup {NoCall}))
    BY <1>1
  <2> QED
    BY <2>1 DEF UserRow
<1> HIDE DEF row
<1>4. /\ users' \in [Users -> UserRow] /\ users'[u] = row
      /\ \A v \in Users : v # u => users'[v] = users[v]
  BY <1>1, <1>2, <1>3
<1>6. PasswordIsLastSet'
  BY <1>1, <1>3, <1>4 DEF PasswordIsLastSet, Exists
<1>7. PICK a \in Users : users[a].role = "admin" /\ users[a].active
  BY <1>1 DEF LastAdminStays, ActiveAdmins
<1>8. users'[a].role = "admin" /\ users'[a].active
  BY <1>3, <1>4, <1>7
<1>9. ActiveAdmins' # {}
  BY <1>8 DEF ActiveAdmins
<1> QED
  BY <1>4, <1>6, <1>9 DEF UsersFine, LastAdminStays

\* A change of role or status leaves an active administrator (assertNotLastAdmin()).
LEMMA UpdatedUsers ==
    ASSUME AuthInv, NEW u \in Users, NEW role \in Roles, NEW active \in BOOLEAN,
           Exists(u), NotLastAdmin(u, role, active),
           users' = [users EXCEPT ![u] = [users[u] EXCEPT !.role = role, !.active = active]],
           lastSet' = lastSet, initialized = "yes", initialized' = "yes"
    PROVE  UsersFine
<1>1. /\ users \in [Users -> UserRow] /\ lastSet \in [Users -> Passwords \cup {"none"}]
      /\ LastAdminStays /\ PasswordIsLastSet
  BY DEF AuthInv, AuthTypes
<1> DEFINE half == [users[u] EXCEPT !.role = role]
           row == [half EXCEPT !.active = active]
<1>2. users' = [users EXCEPT ![u] = row]
  OBVIOUS
<1>3. half \in UserRow /\ half.role = role /\ half.hash = users[u].hash
  BY <1>1 DEF UserRow, Roles
<1> HIDE DEF half
<1>4. row \in UserRow /\ row.role = role /\ row.active = active /\ row.hash = users[u].hash
  BY <1>3 DEF UserRow
<1> HIDE DEF row
<1>5. /\ users' \in [Users -> UserRow] /\ users'[u] = row
      /\ \A v \in Users : v # u => users'[v] = users[v]
  BY <1>1, <1>2, <1>4
<1>6. PasswordIsLastSet'
  BY <1>1, <1>4, <1>5 DEF PasswordIsLastSet, Exists
<1>7. \E a \in Users : users'[a].role = "admin" /\ users'[a].active
  <2>1. CASE role = "admin" /\ active
    BY <1>4, <1>5, <2>1
  <2>2. CASE users[u].role = "admin" /\ users[u].active /\ ~(role = "admin" /\ active)
    <3>1. PICK a \in ActiveAdmins : a # u
      BY <2>2 DEF NotLastAdmin
    <3> QED
      BY <1>5, <3>1 DEF ActiveAdmins
  <2>3. CASE ~(users[u].role = "admin" /\ users[u].active)
    <3>1. PICK a \in Users : users[a].role = "admin" /\ users[a].active
      BY <1>1 DEF LastAdminStays, ActiveAdmins
    <3> QED
      BY <1>5, <2>3, <3>1
  <2> QED
    BY <2>1, <2>2, <2>3
<1>8. ActiveAdmins' # {}
  BY <1>7 DEF ActiveAdmins
<1> QED
  BY <1>1, <1>5, <1>6, <1>8 DEF UsersFine, LastAdminStays

\* Every step keeps the users in order.
LEMMA UsersStep ==
    ASSUME AuthInv, Next
    PROVE  UsersFine
<1>1. /\ users \in [Users -> UserRow] /\ lastSet \in [Users -> Passwords \cup {"none"}]
      /\ calls \in [Calls -> CallRow] /\ sessions \in [Calls -> SessionRow]
      /\ initialized \in {"unset", "no", "yes"}
      /\ LastAdminStays /\ PasswordIsLastSet /\ \A c \in Calls : CallOK(c)
  BY DEF AuthInv, AuthTypes
<1>2. CASE UNCHANGED <<users, lastSet, initialized>>
  BY <1>1, <1>2 DEF UsersFine, LastAdminStays, PasswordIsLastSet, ActiveAdmins, Exists
<1>3. CASE ReadStatus
  <2>1. users' = users /\ lastSet' = lastSet
        /\ initialized' = IF ActiveAdmins # {} THEN "yes" ELSE "no"
    BY <1>3 DEF ReadStatus, history
  <2> QED
    BY <1>1, <2>1 DEF UsersFine, LastAdminStays, PasswordIsLastSet, ActiveAdmins, Exists
<1>4. ASSUME NEW c \in Calls, NEW u \in Users, NEW pw \in Passwords, SetupCommit(c, u, pw)
      PROVE  UsersFine
  <2>1. ~Exists(u) /\ Created(c, u, pw, "admin") /\ initialized' = "yes" /\ "admin" \in Roles
    BY <1>4 DEF SetupCommit, Roles
  <2> QED
    BY <2>1, CreatedUsers
<1>5. ASSUME NEW c \in Calls, NEW u \in Users, NEW pw \in Passwords, NEW role \in Roles,
             CreateCommit(c, u, pw, role)
      PROVE  UsersFine
  <2>1. calls[c].kind = "create" /\ initialized' = initialized
    BY <1>5 DEF CreateCommit, At
  <2>2. initialized = "yes"
    BY <1>1, <2>1 DEF CallOK, RowOK
  <2>3. CASE Exists(u)
    BY <1>2, <1>5, <2>1, <2>3 DEF CreateCommit
  <2>4. CASE ~Exists(u)
    <3>1. Created(c, u, pw, role)
      BY <1>5, <2>4 DEF CreateCommit
    <3> QED
      BY <2>1, <2>2, <2>4, <3>1, CreatedUsers
  <2> QED
    BY <2>3, <2>4
<1>6. ASSUME NEW c \in Calls, LoginRehashed(c)
      PROVE  UsersFine
  <2>1. /\ calls[c].kind = "login" /\ calls[c].pc = "hashing"
        /\ initialized' = initialized /\ lastSet' = lastSet
    BY <1>6 DEF LoginRehashed, At
  <2>2. /\ initialized = "yes" /\ calls[c].user \in Users /\ calls[c].snap.hash[1] = calls[c].pw
        /\ calls[c].pw \in Passwords
    BY <1>1, <2>1 DEF CallOK, RowOK
  <2>3. CASE ~Unchanged(c)
    BY <1>2, <1>6, <2>1, <2>3 DEF LoginRehashed
  <2>4. CASE Unchanged(c)
    <3> DEFINE u == calls[c].user
    <3>1. users' = [users EXCEPT ![u].hash = <<calls[c].pw, c>>]
      BY <1>6, <2>4 DEF LoginRehashed
    <3>2. users[u].active /\ users[u].hash = calls[c].snap.hash /\ Exists(u)
      BY <2>4 DEF Unchanged, Exists, NoUser
    <3>3. /\ lastSet' \in [Users -> Passwords \cup {"none"}] /\ lastSet'[u] = calls[c].pw
          /\ \A v \in Users : v # u => lastSet'[v] = lastSet[v]
      BY <1>1, <2>1, <2>2, <3>2 DEF PasswordIsLastSet
    <3> QED
      BY <2>1, <2>2, <3>1, <3>3, HashedUsers
  <2> QED
    BY <2>3, <2>4
<1>7. ASSUME NEW c \in Calls, NEW pw \in Passwords, ChangeCommit(c, pw) \/ ResetCommit(c, pw)
      PROVE  UsersFine
  <2>1. /\ calls[c].kind = "change" \/ (calls[c].kind = "reset" /\ calls[c].pc = "hashing")
        /\ initialized' = initialized /\ SetPassword(c, pw)
    BY <1>7 DEF ChangeCommit, ResetCommit, At
  <2>2. initialized = "yes" /\ calls[c].user \in Users
    BY <1>1, <2>1 DEF CallOK, RowOK
  <2>3. /\ users' = [users EXCEPT ![calls[c].user].hash = <<pw, c>>]
        /\ lastSet' = [lastSet EXCEPT ![calls[c].user] = pw]
    BY <2>1 DEF SetPassword
  <2>4. initialized' = "yes"
    BY <2>1, <2>2
  <2>5. PICK u \in Users : u = calls[c].user
    BY <2>2
  <2>6. users' = [users EXCEPT ![u].hash = <<pw, c>>]
    BY <2>3, <2>5
  <2>7. /\ lastSet' \in [Users -> Passwords \cup {"none"}] /\ lastSet'[u] = pw
        /\ \A v \in Users : v # u => lastSet'[v] = lastSet[v]
    BY <1>1, <2>3, <2>5
  <2> QED
    BY <2>2, <2>4, <2>6, <2>7, HashedUsers
<1>8. ASSUME NEW c \in Calls, NEW u \in Users, NEW role \in Roles, NEW active \in BOOLEAN,
             UpdateCommit(c, u, role, active)
      PROVE  UsersFine
  <2>1. calls[c].kind = "update" /\ initialized' = initialized /\ lastSet' = lastSet
    BY <1>8 DEF UpdateCommit, At, history
  <2>2. initialized = "yes"
    BY <1>1, <2>1 DEF CallOK, RowOK
  <2>3. CASE users' = users
    BY <1>2, <2>1, <2>3
  <2>4. CASE users' # users
    <3>1. /\ Exists(u) /\ NotLastAdmin(u, role, active)
          /\ users' = [users EXCEPT ![u] = [users[u] EXCEPT !.role = role, !.active = active]]
      BY <1>8, <2>4 DEF UpdateCommit, store
    <3> QED
      BY <2>1, <2>2, <3>1, UpdatedUsers
  <2> QED
    BY <2>3, <2>4
<1>9. \/ UNCHANGED <<users, lastSet, initialized>>
      \/ ReadStatus
      \/ \E c \in Calls :
           \/ LoginRehashed(c)
           \/ \E pw \in Passwords : ChangeCommit(c, pw) \/ ResetCommit(c, pw)
           \/ \E u \in Users :
                \/ \E pw \in Passwords : SetupCommit(c, u, pw)
                \/ \E pw \in Passwords, role \in Roles : CreateCommit(c, u, pw, role)
                \/ \E role \in Roles, active \in BOOLEAN : UpdateCommit(c, u, role, active)
  <2>1. CASE DeleteExpired \/ Tick
    BY <2>1 DEF DeleteExpired, Tick, history
  <2>2. ASSUME NEW c \in Calls,
               \/ Request(c) \/ Logout(c) \/ SetupStart(c) \/ SetupRefused(c) \/ LoginRejected(c)
               \/ ChangeRefused(c)
               \/ \E needsRehash \in BOOLEAN : LoginVerified(c, needsRehash)
        PROVE  UNCHANGED <<users, lastSet, initialized>>
    BY <2>2 DEF Request, Logout, SetupStart, SetupRefused, LoginRejected, ChangeRefused, LoginVerified,
               history, store
  <2>3. ASSUME NEW c \in Calls, NEW s \in Calls,
               ChangeStart(c, s) \/ ResetStart(c, s) \/ CreateStart(c, s) \/ UpdateStart(c, s)
        PROVE  UNCHANGED <<users, lastSet, initialized>>
    BY <2>3 DEF ChangeStart, ResetStart, CreateStart, UpdateStart, Admitted
  <2>4. ASSUME NEW c \in Calls, NEW pw \in Passwords, ChangeReads(c, pw)
        PROVE  UNCHANGED <<users, lastSet, initialized>>
    BY <2>4 DEF ChangeReads, history, store
  <2>5. ASSUME NEW c \in Calls, NEW u \in Users,
               ResetReads(c, u) \/ \E pw \in Passwords : LoginStart(c, u, pw)
        PROVE  UNCHANGED <<users, lastSet, initialized>>
    BY <2>5 DEF ResetReads, LoginStart, history, store
  <2> QED
    BY <2>1, <2>2, <2>3, <2>4, <2>5, Zenon DEF Next
<1> QED
  BY <1>2, <1>3, <1>4, <1>5, <1>6, <1>7, <1>8, <1>9

-----------------------------------------------------------------------------
(* The theorems *)

\* The instance as the server finds it: new, or with an active administrator (InitialAdminService).
LEMMA InitKeeps == Init => AuthInv
<1> SUFFICES ASSUME Init PROVE AuthInv
  OBVIOUS
<1>1. /\ users \in [Users -> UserRow]
      /\ (\E u \in Users : Exists(u)) => ActiveAdmins # {}
  <2>1. CASE users = [u \in Users |-> NoUser]
    BY <2>1, IdleRows DEF Exists
  <2>2. CASE users \in {rows \in [Users -> [role : Roles, active : BOOLEAN, hash : {<<First, NoCall>>}]] :
                          \E u \in Users : rows[u].role = "admin" /\ rows[u].active}
    <3>1. PICK a \in Users : users[a].role = "admin" /\ users[a].active
      BY <2>2
    <3>2. users \in [Users -> [role : Roles, active : BOOLEAN, hash : {<<First, NoCall>>}]]
      BY <2>2
    <3>3. users \in [Users -> UserRow]
      BY <3>2, AuthAssumption DEF UserRow, Roles
    <3> QED
      BY <3>1, <3>3 DEF ActiveAdmins
  <2> QED
    BY <2>1, <2>2 DEF Init, Found
<1>2. initialized = "unset" /\ clock = 0 /\ lastUse = [s \in Calls |-> 0]
      /\ sessions = [s \in Calls |-> NoSession] /\ calls = [c \in Calls |-> Idling]
      /\ buckets = [k \in Keys |-> NoBucket] /\ granted = [k \in Keys |-> {}]
      /\ lastSet = [u \in Users |-> IF Exists(u) THEN users[u].hash[1] ELSE "none"]
  BY DEF Init
<1>3. LastAdminStays /\ PasswordIsLastSet
  BY <1>1, <1>2 DEF LastAdminStays, PasswordIsLastSet
<1>4. lastSet \in [Users -> Passwords \cup {"none"}]
  <2>1. ASSUME NEW u \in Users, Exists(u)
        PROVE  users[u].hash[1] \in Passwords
    <3>1. users # [v \in Users |-> NoUser]
      BY <2>1 DEF Exists
    <3>2. users[u].hash = <<First, NoCall>>
      BY <3>1 DEF Init, Found
    <3> QED
      BY <3>2, AuthAssumption
  <2> QED
    BY <1>2, <2>1
<1>5. NoSession \in SessionRow /\ \A s \in Calls : ~Open(s)
  BY <1>2 DEF Open, NoSession, SessionRow
<1>6. NoBucket \in BucketRow /\ KeyOK(NoBucket, {}, 0)
  BY NoBucketIsFresh
<1>7. AuthTypes
  BY <1>1, <1>2, <1>4, <1>5, <1>6, IdleRows DEF AuthTypes
<1>8. \A c \in Calls : CallOK(c) /\ SessionOK(c)
  BY <1>2, <1>5, IdleRows DEF CallOK, RowOK, SessionOK
<1>9. \A k \in Keys : KeyOK(buckets[k], granted[k], clock)
  BY <1>2, <1>6
<1> QED
  BY <1>3, <1>7, <1>8, <1>9 DEF AuthInv

\* Every step of the routes keeps the invariant.
LEMMA StepKeeps == AuthInv /\ [Next]_vars => AuthInv'
<1>1. ASSUME AuthInv, Next
      PROVE  AuthInv'
  <2>1. CallsFine /\ SessionsMove /\ KeysFine /\ UsersFine
    BY <1>1, CallsStep, SessionsStep, KeysStep, UsersStep
  <2>2. sessions' \in [Calls -> SessionRow] /\ \A s \in Calls : SessionOK(s)'
    BY <1>1, <2>1, SessionsStayFine
  <2>3. AuthTypes'
    BY <2>1, <2>2 DEF AuthTypes, CallsFine, SessionsMove, KeysFine, UsersFine
  <2>4. LastAdminStays' /\ PasswordIsLastSet' /\ \A c \in Calls : CallOK(c)'
    BY <2>1 DEF CallsFine, UsersFine
  <2>5. (\A k \in Keys : KeyOK(buckets[k], granted[k], clock))'
    BY <2>1 DEF KeysFine
  <2> QED
    BY <2>2, <2>3, <2>4, <2>5 DEF AuthInv
<1>2. ASSUME AuthInv, UNCHANGED vars
      PROVE  AuthInv'
  <2>1. /\ clock' = clock /\ users' = users /\ sessions' = sessions /\ calls' = calls
        /\ buckets' = buckets /\ initialized' = initialized /\ lastSet' = lastSet
        /\ lastUse' = lastUse /\ granted' = granted
    BY <1>2 DEF vars
  <2> QED
    BY <1>2, <2>1 DEF AuthInv, AuthTypes, LastAdminStays, ActiveAdmins, PasswordIsLastSet, Exists,
                      CallOK, SessionOK, Open
<1> QED
  BY <1>1, <1>2

\* In every state, the accounts, the sessions, the calls and the buckets are as AuthInv says.
THEOREM AuthInvariant == Spec => []AuthInv
BY InitKeeps, StepKeeps, PTL DEF Spec

\* The idle timeout is exact up to the touch interval (validateSession()).
LEMMA IdleIsExact == AuthInv => IdleWindow
<1> SUFFICES ASSUME AuthInv, NEW s \in Calls, Open(s)
             PROVE  /\ clock >= lastUse[s] + Idle => ~Valid(s)
                    /\ Expired(s) /\ clock < sessions[s].created + Absolute =>
                         clock + Touch > lastUse[s] + Idle
  BY DEF IdleWindow
<1>1. /\ sessions[s].seen \in Nat /\ sessions[s].created \in Nat /\ lastUse[s] \in Nat /\ clock \in Nat
      /\ Idle \in Nat /\ Absolute \in Nat /\ Touch \in Nat
      /\ lastUse[s] < sessions[s].seen + Touch
      /\ ~sessions[s].revoked => sessions[s].seen <= lastUse[s]
  BY AuthAssumption DEF AuthInv, AuthTypes, SessionRow, SessionOK
<1> QED
  BY <1>1 DEF Valid, Expired

\* An active administrator stays, the password that was set last is the one that works, and a
\* session ends by idleness when it should, however the calls overlap.
THEOREM AccountsStaySafe == Spec => []AccountsAreSafe
<1>1. AuthInv => AccountsAreSafe
  BY IdleIsExact DEF AuthInv, AccountsAreSafe
<1> QED
  BY <1>1, AuthInvariant, PTL

\* Between two successful logins no user name and no address gets more than twice the limit of
\* attempts in any stretch of the length of a window (RateLimiter.consume()).
THEOREM AttemptsStayLimited == Spec => []AttemptsAreLimited
<1>1. AuthInv => AttemptsAreLimited
  <2> SUFFICES ASSUME AuthInv, NEW k \in Keys, NEW t \in 0..MaxTime
               PROVE  Cardinality({g \in granted[k] : g[1] >= t /\ g[1] < t + Window}) <= 2 * Limit
    BY DEF AttemptsAreLimited
  <2>1. t \in Nat
    BY AuthAssumption
  <2>2. Cardinality(Between(granted[k], t, t + Window)) <= 2 * Limit
    BY <2>1 DEF AuthInv, KeyOK
  <2> QED
    BY <2>2 DEF Between
<1> QED
  BY <1>1, AuthInvariant, PTL

\* No step brings back a session that was revoked, has expired or was deleted
\* (validateSession(), revokeAllForUser(), deleteExpired()).
THEOREM SessionsStayEnded == Spec => EndedStaysEnded
<1>1. ASSUME AuthInv, Next, NEW s \in Calls, Ended(s)
      PROVE  Ended(s)'
  <2>1. SessionMoves(s) /\ clock' \in Nat /\ (calls[s].pc = "done" => calls'[s].pc = "done")
    BY <1>1, SessionsStep, CallsStep DEF SessionsMove, CallsFine
  <2>2. /\ SessionOK(s) /\ clock \in Nat /\ sessions[s] \in SessionRow
        /\ sessions[s].seen \in Nat /\ sessions[s].created \in Nat
        /\ Idle \in Nat /\ Absolute \in Nat
    BY <1>1, AuthAssumption DEF AuthInv, AuthTypes, SessionRow
  <2>3. calls[s].pc = "done" /\ calls'[s].pc = "done"
    BY <1>1, <2>1, <2>2 DEF Ended, SessionOK
  <2>4. CASE SessionStays(s)
    BY <1>1, <2>1, <2>2, <2>3, <2>4 DEF SessionStays, Ended, Open, Expired
  <2>5. CASE SessionAccepted(s)
    BY <1>1, <2>5 DEF SessionAccepted, Ended, Valid
  <2>6. CASE SessionRevoked(s)
    <3>1. sessions'[s].revoked = TRUE
      BY <2>6 DEF SessionRevoked
    <3> QED
      BY <2>3, <3>1 DEF Ended, Open
  <2>7. CASE SessionDeleted(s)
    BY <2>3, <2>7 DEF SessionDeleted, Ended, Open
  <2>8. CASE SessionOpened(s)
    BY <2>3, <2>8 DEF SessionOpened
  <2> QED
    BY <2>1, <2>4, <2>5, <2>6, <2>7, <2>8 DEF SessionMoves
<1>2. AuthInv /\ [Next]_vars => [\A s \in Calls : Ended(s) => (Ended(s) /\ ~Valid(s))']_vars
  <2>1. ASSUME NEW s \in Calls, Ended(s)', calls'[s].pc = "done"
        PROVE  ~Valid(s)'
    BY <2>1 DEF Ended, Valid
  <2> SUFFICES ASSUME AuthInv, Next, NEW s \in Calls, Ended(s)
               PROVE  Ended(s)' /\ ~Valid(s)'
    OBVIOUS
  <2>2. Ended(s)'
    BY <1>1
  <2> QED
    BY <2>2 DEF Ended, Valid
<1> QED
  BY <1>2, AuthInvariant, PTL DEF Spec, EndedStaysEnded

-----------------------------------------------------------------------------
(* Connection profiles: the inductive invariant *)

\* What is, or was when it was checked, in a group is in a group of its owner: an id of a group
\* is not used again.
GroupHeld(row) ==
    row.group # P!NoGroup =>
      \/ row.group \in deleted
      \/ groups[row.group] # P!NoRow /\ groups[row.group].owner = row.owner

\* A row the server would accept, and its credential.
RowFits(row) == row \in P!Row /\ (row.ca => row.tls) /\ GroupHeld(row)

\* The credential of a connection: sealed for it, with the password of its owner.
SealFits(c, envelope, owner) ==
    envelope \in P!Envelope /\ envelope.aad = c /\ envelope.secret = owner

TablesFit ==
    /\ connections \in [Ids -> P!Row \cup {P!NoRow}]
    /\ credentials \in [Ids -> P!Envelope \cup {P!NoEnvelope}]
    /\ \A c \in Ids :
         /\ P!Exists(c) => RowFits(connections[c]) /\ c \notin deleted
         /\ credentials[c] # P!NoEnvelope =>
              P!Exists(c) /\ SealFits(c, credentials[c], connections[c].owner)
    /\ \A c, d \in Ids : c # d /\ P!Exists(c) /\ P!Exists(d) =>
         connections[c].owner # connections[d].owner \/ connections[c].label # connections[d].label

GroupsFit ==
    /\ groups \in [Groups -> [owner : Owners, name : Labels] \cup {P!NoRow}]
    /\ \A g \in Groups \cap deleted : groups[g] = P!NoRow
    /\ \A c \in Ids : P!Exists(c) /\ connections[c].group # P!NoGroup =>
         connections[c].group \notin deleted

\* What a request knows while it waits for the vault: the row it will write, whose id nobody
\* else writes if it is new, or the envelope of its own user.
Creating(r, c) == reqs[r].op = "save" /\ reqs[r].new /\ reqs[r].id = c
WaitFits(r) ==
    /\ reqs[r].op = "save" =>
         /\ reqs[r].id \in Ids /\ reqs[r].new \in BOOLEAN /\ RowFits(reqs[r].row)
         /\ SealFits(reqs[r].id, reqs[r].envelope, reqs[r].row.owner)
         /\ reqs[r].new => ~P!Exists(reqs[r].id) /\ reqs[r].id \notin deleted
    /\ reqs[r].op = "use" =>
         reqs[r].envelope.aad = reqs[r].id /\ reqs[r].envelope.secret = reqs[r].user

WaitsFit ==
    /\ reqs = [r \in Users |-> reqs[r]]
    /\ \A r \in Users : WaitFits(r)
    /\ \A r, s \in Users, c \in Ids : Creating(r, c) /\ Creating(s, c) => r = s

OpenForm == [op : {"edit"}, id : Ids, row : P!Row]
FormsFit == form \in [Owners -> OpenForm \cup {P!NoWork}]

OwnSecrets == \A s \in sent : s.secret = s.user

ProfileInv == TablesFit /\ GroupsFit /\ WaitsFit /\ FormsFit /\ OwnSecrets

-----------------------------------------------------------------------------
(* Connection profiles: what is written *)

\* A row is not the absence of one, and an envelope not the absence of one.
LEMMA RowsAreRows ==
    /\ \A row \in P!Row : row # P!NoRow
    /\ \A e \in P!Envelope : e # P!NoEnvelope /\ e # P!Kept
    /\ \A g \in [owner : Owners, name : Labels] : g # P!NoRow
    /\ P!NoEnvelope # P!Kept
<1>1. ASSUME NEW row \in P!Row PROVE row # P!NoRow
  <2>1. row.owner \in Owners
    BY DEF P!Row
  <2>2. P!NoRow.owner \notin Owners
    BY IdsAssumption DEF P!NoRow
  <2> QED
    BY <2>1, <2>2
<1>2. ASSUME NEW e \in P!Envelope PROVE e # P!NoEnvelope /\ e # P!Kept
  <2>1. e.secret \in Owners
    BY DEF P!Envelope
  <2>2. P!NoEnvelope.secret \notin Owners /\ P!Kept.secret \notin Owners
    BY IdsAssumption DEF P!NoEnvelope, P!Nobody, P!Kept
  <2> QED
    BY <2>1, <2>2
<1>3. ASSUME NEW g \in [owner : Owners, name : Labels] PROVE g # P!NoRow
  <2>1. g.owner \in Owners
    OBVIOUS
  <2>2. P!NoRow.owner \notin Owners
    BY IdsAssumption DEF P!NoRow
  <2> QED
    BY <2>1, <2>2
<1>4. P!NoEnvelope.secret # P!Kept.secret
  BY DEF P!NoEnvelope, P!Nobody, P!Kept
<1> QED
  BY <1>1, <1>2, <1>3, <1>4

\* The transaction of a create or an update, whatever happened since its row was computed: the
\* tables stay sound, and only the connection it is about changes.
LEMMA SaveEffect ==
    ASSUME ProfileInv, UNCHANGED <<groups, deleted>>,
           NEW new \in BOOLEAN, NEW c \in Ids, NEW row, RowFits(row),
           new => ~P!Exists(c) /\ c \notin deleted,
           NEW envelope,
           \/ envelope = P!Kept /\ (P!Exists(c) => connections[c].owner = row.owner)
           \/ envelope = P!NoEnvelope
           \/ SealFits(c, envelope, row.owner),
           P!Save(new, c, row, envelope)
    PROVE  /\ TablesFit' /\ GroupsFit'
           /\ \A d \in Ids : (d # c \/ ~new) /\ ~P!Exists(d) => ~P!Exists(d)'
<1> USE DEF ProfileInv
<1>1. CASE UNCHANGED <<connections, credentials>>
  BY <1>1 DEF TablesFit, GroupsFit, P!Exists, RowFits, GroupHeld, SealFits
<1>2. CASE /\ new \/ P!Exists(c) => P!LabelFree(c, row) /\ P!GroupThere(row)
           /\ connections' = IF new THEN P!Insert(c, row) ELSE P!Update(c, row)
           /\ envelope \in {P!Kept, P!NoEnvelope} \/ connections'[c] # P!NoRow
           /\ credentials' = IF envelope = P!Kept THEN credentials ELSE P!Upsert(c, envelope)
  <2> DEFINE written == new \/ P!Exists(c)
  <2>1. /\ connections' = IF written THEN [connections EXCEPT ![c] = row] ELSE connections
        /\ written => P!LabelFree(c, row) /\ P!GroupThere(row)
    BY <1>2 DEF P!Insert, P!Update
  <2>2. row \in P!Row /\ row # P!NoRow
    BY RowsAreRows DEF RowFits
  <2>3. /\ connections' \in [Ids -> P!Row \cup {P!NoRow}]
        /\ \A d \in Ids : d # c => connections'[d] = connections[d]
        /\ connections'[c] = IF written THEN row ELSE connections[c]
    BY <2>1, <2>2 DEF TablesFit
  <2>4. /\ \A d \in Ids : d # c => (P!Exists(d)' <=> P!Exists(d))
        /\ P!Exists(c)' <=> written
    BY <2>2, <2>3 DEF P!Exists
  <2>5. /\ credentials' \in [Ids -> P!Envelope \cup {P!NoEnvelope}]
        /\ \A d \in Ids : d # c => credentials'[d] = credentials[d]
        /\ credentials'[c] = IF envelope = P!Kept THEN credentials[c] ELSE envelope
    BY <1>2, RowsAreRows DEF P!Upsert, TablesFit, SealFits
  <2>6. written => c \notin deleted
    BY DEF TablesFit
  <2>7. row.group # P!NoGroup /\ written =>
          row.group \notin deleted
    BY <2>1, <2>2 DEF P!GroupThere, GroupsFit, P!Row
  <2> HIDE DEF written
  <2>8. \A d \in Ids : P!Exists(d)' => RowFits(connections'[d]) /\ d \notin deleted
    BY <2>3, <2>4, <2>6 DEF TablesFit
  <2>9. \A d \in Ids : credentials'[d] # P!NoEnvelope =>
          P!Exists(d)' /\ SealFits(d, credentials'[d], connections'[d].owner)
    <3>1. ASSUME NEW d \in Ids, d # c, credentials'[d] # P!NoEnvelope
          PROVE  P!Exists(d)' /\ SealFits(d, credentials'[d], connections'[d].owner)
      BY <2>3, <2>4, <2>5, <3>1 DEF TablesFit
    <3>2. ASSUME credentials'[c] # P!NoEnvelope
          PROVE  P!Exists(c)' /\ SealFits(c, credentials'[c], connections'[c].owner)
      <4>1. CASE envelope = P!Kept
        BY <2>3, <2>4, <2>5, <3>2, <4>1, RowsAreRows DEF TablesFit, SealFits, written
      <4>2. CASE envelope # P!Kept
        <5>1. SealFits(c, envelope, row.owner) /\ credentials'[c] = envelope
          BY <2>5, <3>2, <4>2
        <5>2. envelope \notin {P!Kept, P!NoEnvelope}
          BY <5>1, RowsAreRows DEF SealFits
        <5>3. P!Exists(c)' /\ connections'[c] = row
          BY <1>2, <2>3, <2>4, <5>2 DEF P!Exists, written
        <5> QED
          BY <5>1, <5>3
      <4> QED
        BY <4>1, <4>2
    <3> QED
      BY <3>1, <3>2
  <2>10. \A b, d \in Ids : b # d /\ P!Exists(b)' /\ P!Exists(d)' =>
           connections'[b].owner # connections'[d].owner \/ connections'[b].label # connections'[d].label
    <3>1. \A d \in Ids : d # c /\ written /\ P!Exists(d) =>
            connections[d].owner # row.owner \/ connections[d].label # row.label
      BY <2>1 DEF P!LabelFree
    <3> QED
      BY <2>3, <2>4, <3>1 DEF TablesFit, written
  <2>11. TablesFit'
    <3>1. \A d \in Ids : P!Exists(d)' => RowFits(connections[d])' /\ d \notin deleted'
      BY <2>8 DEF RowFits, GroupHeld
    <3>2. \A d \in Ids : credentials'[d] # P!NoEnvelope =>
            P!Exists(d)' /\ SealFits(d, credentials[d], connections[d].owner)'
      BY <2>9 DEF SealFits
    <3> QED
      BY <2>3, <2>5, <2>10, <3>1, <3>2 DEF TablesFit
  <2>12. GroupsFit'
    BY <2>3, <2>4, <2>7 DEF GroupsFit, written
  <2> QED
    BY <2>4, <2>11, <2>12 DEF written
<1> QED
  BY <1>1, <1>2 DEF P!Save

\* The requests that wait keep what they know as long as groups and deletions stay and no id
\* that one of them will create is taken.
LEMMA WaitsKept ==
    ASSUME ProfileInv, UNCHANGED <<groups, deleted>>, NEW S \in SUBSET Users,
           reqs' = [r \in Users |-> reqs'[r]],
           \A r \in Users \ S : reqs'[r] = reqs[r],
           \A r \in S : WaitFits(r)' /\ \A c \in Ids : ~Creating(r, c)',
           \A r \in Users \ S, c \in Ids : Creating(r, c) => ~P!Exists(c)'
    PROVE  WaitsFit'
<1> USE DEF ProfileInv, WaitsFit
<1>1. ASSUME NEW r \in Users \ S
      PROVE  WaitFits(r)' /\ \A c \in Ids : Creating(r, c)' => Creating(r, c)
  BY DEF WaitFits, RowFits, GroupHeld, SealFits, Creating
<1>2. \A r \in Users : WaitFits(r)'
  BY <1>1
<1>3. \A r, s \in Users, c \in Ids : Creating(r, c)' /\ Creating(s, c)' => r = s
  BY <1>1
<1> QED
  BY <1>2, <1>3

\* A create, an update or a duplicate: it writes at once, or waits for the vault with the row
\* that it computed.
LEMMA WriteStep ==
    ASSUME ProfileInv, UNCHANGED <<groups, deleted, sent>>,
           NEW r \in Users, reqs[r] = P!NoWork,
           NEW new \in BOOLEAN, NEW c \in Ids, NEW row, RowFits(row), new => P!Fresh(c),
           NEW now, NEW seal, SealFits(c, seal, row.owner),
           \/ now = P!Kept /\ (P!Exists(c) => connections[c].owner = row.owner)
           \/ now = P!NoEnvelope,
           \/ P!Save(new, c, row, now) /\ UNCHANGED reqs
           \/ /\ reqs' = [reqs EXCEPT ![r] = [op |-> "save", new |-> new, id |-> c,
                                              row |-> row, envelope |-> seal]]
              /\ UNCHANGED <<connections, credentials>>
    PROVE  TablesFit' /\ GroupsFit' /\ WaitsFit' /\ OwnSecrets'
<1>1. OwnSecrets'
  BY DEF ProfileInv, OwnSecrets
<1>2. new => /\ ~P!Exists(c) /\ c \notin deleted
             /\ \A s \in Users : ~Creating(s, c)
  BY DEF P!Fresh, Creating
<1>3. CASE P!Save(new, c, row, now) /\ UNCHANGED reqs
  <2>1. /\ TablesFit' /\ GroupsFit'
        /\ \A d \in Ids : (d # c \/ ~new) /\ ~P!Exists(d) => ~P!Exists(d)'
    BY <1>2, <1>3, SaveEffect
  <2>2. \A s \in Users, d \in Ids : Creating(s, d) => ~P!Exists(d)'
    BY <1>2, <2>1 DEF ProfileInv, WaitsFit, WaitFits, Creating
  <2>3. reqs' = [s \in Users |-> reqs'[s]]
    BY <1>3 DEF ProfileInv, WaitsFit
  <2>4. WaitsFit'
    <3>1. {} \in SUBSET Users
      OBVIOUS
    <3>2. \A s \in Users \ {} : reqs'[s] = reqs[s]
      BY <1>3
    <3>3. \A s \in {} : WaitFits(s)' /\ \A d \in Ids : ~Creating(s, d)'
      OBVIOUS
    <3>4. \A s \in Users \ {}, d \in Ids : Creating(s, d) => ~P!Exists(d)'
      BY <2>2
    <3> QED
      BY <2>3, <3>1, <3>2, <3>3, <3>4, WaitsKept
  <2> QED
    BY <1>1, <2>1, <2>4
<1>4. CASE /\ reqs' = [reqs EXCEPT ![r] = [op |-> "save", new |-> new, id |-> c,
                                           row |-> row, envelope |-> seal]]
           /\ UNCHANGED <<connections, credentials>>
  <2>1. TablesFit' /\ GroupsFit'
    BY <1>4 DEF ProfileInv, TablesFit, GroupsFit, P!Exists, RowFits, GroupHeld, SealFits
  <2>2. /\ reqs' = [s \in Users |-> reqs'[s]]
        /\ \A s \in Users : s # r => reqs'[s] = reqs[s]
        /\ reqs'[r] = [op |-> "save", new |-> new, id |-> c, row |-> row, envelope |-> seal]
    BY <1>4 DEF ProfileInv, WaitsFit
  <2>3. WaitFits(r)'
    BY <1>2, <1>4, <2>2 DEF WaitFits, RowFits, GroupHeld, SealFits, P!Exists
  <2>4. \A s \in Users : s # r => WaitFits(s)'
    BY <1>4, <2>2 DEF ProfileInv, WaitsFit, WaitFits, RowFits, GroupHeld, SealFits, P!Exists
  <2>5. \A s \in Users, d \in Ids : Creating(s, d)' => IF s = r THEN new /\ d = c ELSE Creating(s, d)
    BY <2>2 DEF Creating
  <2>6. \A s, t \in Users, d \in Ids : Creating(s, d)' /\ Creating(t, d)' => s = t
    BY <1>2, <2>5 DEF ProfileInv, WaitsFit
  <2> QED
    BY <1>1, <2>1, <2>2, <2>3, <2>4, <2>6 DEF WaitsFit
<1> QED
  BY <1>3, <1>4

\* The row a patch makes of a row is a row, of the same owner.
LEMMA MergedIsRow ==
    ASSUME NEW row \in P!Row, NEW patch,
           \A f \in DOMAIN patch : f \in P!Fields,
           "label" \in DOMAIN patch => patch["label"] \in Labels,
           "tls" \in DOMAIN patch => patch["tls"] \in BOOLEAN,
           "ca" \in DOMAIN patch => patch["ca"] \in BOOLEAN,
           "group" \in DOMAIN patch => patch["group"] \in Groups \cup {P!NoGroup}
    PROVE  P!Merged(row, patch) \in P!Row /\ P!Merged(row, patch).owner = row.owner
<1>1. DOMAIN row = {"owner", "label", "tls", "ca", "group"}
  BY DEF P!Row
<1>2. "owner" \notin DOMAIN patch
  BY DEF P!Fields
<1>3. P!Merged(row, patch) = [f \in {"owner", "label", "tls", "ca", "group"} |->
                                IF f \in DOMAIN patch THEN patch[f] ELSE row[f]]
  BY <1>1 DEF P!Merged
<1> DEFINE made == P!Merged(row, patch)
<1>4. DOMAIN made = {"owner", "label", "tls", "ca", "group"}
  BY <1>3
<1>5. /\ made["owner"] = row.owner /\ made["label"] \in Labels /\ made["tls"] \in BOOLEAN
      /\ made["ca"] \in BOOLEAN /\ made["group"] \in Groups \cup {P!NoGroup}
  BY <1>2, <1>3 DEF P!Row
<1>6. made = [owner |-> made["owner"], label |-> made["label"], tls |-> made["tls"],
              ca |-> made["ca"], group |-> made["group"]]
  BY <1>3
<1> HIDE DEF made
<1>7. row.owner \in Owners
  BY DEF P!Row
<1>8. made \in P!Row /\ made.owner = row.owner
  BY <1>5, <1>6, <1>7 DEF P!Row
<1> QED
  BY <1>8 DEF made

-----------------------------------------------------------------------------
(* Connection profiles: every step keeps it *)

\* createConnection().
LEMMA CreateConnectionStep ==
    ASSUME ProfileInv, NEW r \in Users, NEW u \in Owners, NEW c \in Ids, NEW row \in P!Row,
           NEW secret \in {u, P!Nobody}, P!createConnection(r, u, c, row, secret)
    PROVE  ProfileInv'
<1>1. /\ reqs[r] = P!NoWork /\ P!Fresh(c) /\ row.owner = u /\ (row.ca => row.tls)
      /\ P!assertGroupBelongsToActor(u, row.group) /\ UNCHANGED <<groups, deleted, form, sent>>
  BY DEF P!createConnection, P!validateConnectionInput
<1>2. RowFits(row)
  BY <1>1 DEF RowFits, GroupHeld, P!assertGroupBelongsToActor
<1>3. ~P!Exists(c)
  BY <1>1 DEF P!Fresh
<1> DEFINE seal == [aad |-> c, secret |-> u]
<1>4. SealFits(c, seal, row.owner)
  BY <1>1 DEF SealFits, P!Envelope
<1>5. \/ P!Save(TRUE, c, row, P!Kept) /\ UNCHANGED reqs
      \/ /\ reqs' = [reqs EXCEPT ![r] = [op |-> "save", new |-> TRUE, id |-> c,
                                         row |-> row, envelope |-> seal]]
         /\ UNCHANGED <<connections, credentials>>
  BY DEF P!createConnection, P!encryptCredential
<1> HIDE DEF seal
<1>6. P!Kept = P!Kept /\ (P!Exists(c) => connections[c].owner = row.owner)
  BY <1>3
<1>7. TablesFit' /\ GroupsFit' /\ WaitsFit' /\ OwnSecrets'
  BY <1>1, <1>2, <1>4, <1>5, <1>6, WriteStep
<1> QED
  BY <1>1, <1>7 DEF ProfileInv, FormsFit

\* updateConnection(), of some fields or of all.
LEMMA UpdateConnectionStep ==
    ASSUME ProfileInv, NEW r \in Users, NEW u \in Owners, NEW c \in Ids, NEW patch,
           P!Exists(c) => P!Merged(connections[c], patch) \in P!Row
                          /\ P!Merged(connections[c], patch).owner = connections[c].owner,
           NEW change \in {"keep", "clear", u}, P!updateConnection(r, u, c, patch, change)
    PROVE  TablesFit' /\ GroupsFit' /\ WaitsFit' /\ OwnSecrets'
<1> DEFINE row == P!Merged(connections[c], patch)
           now == IF change = "keep" THEN P!Kept ELSE P!NoEnvelope
           seal == [aad |-> c, secret |-> u]
<1>1. /\ reqs[r] = P!NoWork /\ P!Exists(c) /\ connections[c].owner = u /\ (row.ca => row.tls)
      /\ P!assertGroupBelongsToActor(u, row.group) /\ UNCHANGED <<groups, deleted, sent>>
  BY DEF P!updateConnection, P!validateConnectionInput, P!assertConnectionOwner
<1>2. row \in P!Row /\ row.owner = u
  BY <1>1
<1>3. RowFits(row)
  BY <1>1, <1>2 DEF RowFits, GroupHeld, P!assertGroupBelongsToActor
<1>4. SealFits(c, seal, row.owner)
  BY <1>2 DEF SealFits, P!Envelope
<1>5. u \notin {"keep", "clear"} /\ (change \in Owners => change = u)
  BY IdsAssumption
<1>6. \/ P!Save(FALSE, c, row, now) /\ UNCHANGED reqs
      \/ /\ reqs' = [reqs EXCEPT ![r] = [op |-> "save", new |-> FALSE, id |-> c,
                                         row |-> row, envelope |-> seal]]
         /\ UNCHANGED <<connections, credentials>>
  BY <1>5 DEF P!updateConnection, P!encryptCredential
<1>7. \/ now = P!Kept /\ (P!Exists(c) => connections[c].owner = row.owner)
      \/ now = P!NoEnvelope
  BY <1>1, <1>2
<1> HIDE DEF seal, now, row
<1> QED
  BY <1>1, <1>3, <1>4, <1>6, <1>7, WriteStep

\* duplicateConnection().
LEMMA DuplicateStep ==
    ASSUME ProfileInv, NEW r \in Users, NEW u \in Owners, NEW c \in Ids, NEW d \in Ids,
           NEW label \in Labels, NEW copySecret \in BOOLEAN,
           P!duplicateConnection(r, u, c, d, label, copySecret)
    PROVE  ProfileInv'
<1> DEFINE row == [connections[c] EXCEPT !.label = label]
           seal == [aad |-> d, secret |-> u]
<1>1. /\ reqs[r] = P!NoWork /\ P!Exists(c) /\ P!Fresh(d) /\ connections[c].owner = u
      /\ UNCHANGED <<groups, deleted, form, sent>>
  BY DEF P!duplicateConnection, P!assertConnectionOwner
<1>2. connections[c] \in P!Row /\ RowFits(connections[c])
  BY <1>1 DEF ProfileInv, TablesFit, RowFits
<1>3. row \in P!Row /\ row.owner = u /\ RowFits(row)
  BY <1>1, <1>2 DEF RowFits, GroupHeld, P!Row
<1>4. SealFits(d, seal, row.owner)
  BY <1>3 DEF SealFits, P!Envelope
<1>5. \/ P!Save(TRUE, d, row, P!Kept) /\ UNCHANGED reqs
      \/ /\ reqs' = [reqs EXCEPT ![r] = [op |-> "save", new |-> TRUE, id |-> d,
                                         row |-> row, envelope |-> seal]]
         /\ UNCHANGED <<connections, credentials>>
  <2>1. credentials[c] # P!NoEnvelope => credentials[c].secret = u
    BY <1>1 DEF ProfileInv, TablesFit, SealFits
  <2> QED
    BY <2>1 DEF P!duplicateConnection, P!copyCredential, P!encryptCredential
<1>6. P!Kept = P!Kept /\ (P!Exists(d) => connections[d].owner = row.owner)
  BY <1>1 DEF P!Fresh
<1> HIDE DEF seal, row
<1>7. TablesFit' /\ GroupsFit' /\ WaitsFit' /\ OwnSecrets'
  BY <1>1, <1>3, <1>4, <1>5, <1>6, WriteStep
<1> QED
  BY <1>1, <1>7 DEF ProfileInv, FormsFit

\* The vault answered a request that writes.
LEMMA EncryptedStep ==
    ASSUME ProfileInv, NEW r \in Users, P!Encrypted(r)
    PROVE  ProfileInv'
<1> DEFINE new == reqs[r].new
           c == reqs[r].id
           row == reqs[r].row
           envelope == reqs[r].envelope
<1>1. /\ reqs[r].op = "save" /\ reqs' = [reqs EXCEPT ![r] = P!NoWork]
      /\ P!Save(new, c, row, envelope) /\ UNCHANGED <<groups, deleted, form, sent>>
  BY DEF P!Encrypted
<1>2. /\ c \in Ids /\ new \in BOOLEAN /\ RowFits(row) /\ SealFits(c, envelope, row.owner)
      /\ new => ~P!Exists(c) /\ c \notin deleted
      /\ new => Creating(r, c)
  BY <1>1 DEF ProfileInv, WaitsFit, WaitFits, Creating
<1> HIDE DEF new, c, row, envelope
<1>3. /\ TablesFit' /\ GroupsFit'
      /\ \A d \in Ids : (d # c \/ ~new) /\ ~P!Exists(d) => ~P!Exists(d)'
  BY <1>1, <1>2, SaveEffect
<1>4. /\ reqs' = [s \in Users |-> reqs'[s]]
      /\ \A s \in Users \ {r} : reqs'[s] = reqs[s]
      /\ reqs'[r] = P!NoWork
  BY <1>1 DEF ProfileInv, WaitsFit
<1>5. \A s \in {r} : WaitFits(s)' /\ \A d \in Ids : ~Creating(s, d)'
  BY <1>4 DEF WaitFits, Creating, P!NoWork
<1>6. ASSUME NEW s \in Users \ {r}, NEW d \in Ids, Creating(s, d)
      PROVE  ~P!Exists(d)'
  BY <1>2, <1>3, <1>6 DEF ProfileInv, WaitsFit, WaitFits, Creating
<1>7. {r} \in SUBSET Users
  OBVIOUS
<1>8. WaitsFit'
  BY <1>1, <1>4, <1>5, <1>6, <1>7, WaitsKept
<1> QED
  BY <1>1, <1>3, <1>8 DEF ProfileInv, FormsFit, OwnSecrets

\* A session or a test: the password that was read is the owner's own, and a typed one is the
\* user's.
LEMMA UseStep ==
    ASSUME ProfileInv, NEW r \in Users, NEW u \in Owners, NEW c \in Ids,
           \/ P!openQuerySession(r, u, c) \/ P!withMutationProvider(r, u, c)
           \/ P!testConnection(r, u, c)
    PROVE  ProfileInv'
<1>1. UNCHANGED <<connections, credentials, groups, deleted, form>>
  BY DEF P!openQuerySession, P!withMutationProvider, P!testConnection
<1>2. TablesFit' /\ GroupsFit' /\ FormsFit'
  BY <1>1 DEF ProfileInv, TablesFit, GroupsFit, FormsFit, RowFits, GroupHeld, SealFits, P!Exists
<1>3. OwnSecrets'
  BY DEF P!openQuerySession, P!withMutationProvider, P!testConnection, ProfileInv, OwnSecrets
<1>4. UNCHANGED reqs \/ P!UseSecret(r, u, c)
  BY DEF P!openQuerySession, P!withMutationProvider, P!testConnection
<1>5. CASE UNCHANGED reqs
  <2>1. WaitsFit'
    BY <1>1, <1>5 DEF ProfileInv, WaitsFit, WaitFits, Creating, RowFits, GroupHeld, SealFits, P!Exists
  <2> QED
    BY <1>2, <1>3, <2>1 DEF ProfileInv
<1>6. CASE P!UseSecret(r, u, c)
  <2>1. /\ reqs' = [s \in Users |-> reqs'[s]]
        /\ \A s \in Users \ {r} : reqs'[s] = reqs[s]
        /\ reqs'[r] = [op |-> "use", user |-> u, id |-> c, envelope |-> credentials[c]]
        /\ P!Exists(c) /\ connections[c].owner = u /\ credentials[c] # P!NoEnvelope
    BY <1>6 DEF P!UseSecret, P!assertConnectionOwner, ProfileInv, WaitsFit
  <2>2. credentials[c].aad = c /\ credentials[c].secret = u
    BY <2>1 DEF ProfileInv, TablesFit, SealFits
  <2>3. \A s \in {r} : WaitFits(s)' /\ \A d \in Ids : ~Creating(s, d)'
    BY <2>1, <2>2 DEF WaitFits, Creating
  <2>4. \A s \in Users \ {r}, d \in Ids : Creating(s, d) => ~P!Exists(d)'
    BY <1>1 DEF ProfileInv, WaitsFit, WaitFits, Creating, P!Exists
  <2>5. {r} \in SUBSET Users
    OBVIOUS
  <2>6. WaitsFit'
    BY <1>1, <2>1, <2>3, <2>4, <2>5, WaitsKept
  <2> QED
    BY <1>2, <1>3, <2>6 DEF ProfileInv
<1> QED
  BY <1>4, <1>5, <1>6

\* The vault opened an envelope.
LEMMA DecryptedStep ==
    ASSUME ProfileInv, NEW r \in Users, P!Decrypted(r)
    PROVE  ProfileInv'
<1>1. /\ reqs[r].op = "use" /\ reqs' = [reqs EXCEPT ![r] = P!NoWork]
      /\ UNCHANGED <<connections, credentials, groups, deleted, form>>
  BY DEF P!Decrypted
<1>2. reqs[r].envelope.aad = reqs[r].id /\ reqs[r].envelope.secret = reqs[r].user
  BY <1>1 DEF ProfileInv, WaitsFit, WaitFits
<1>3. OwnSecrets'
  BY <1>2 DEF P!Decrypted, P!Opens, ProfileInv, OwnSecrets
<1>4. TablesFit' /\ GroupsFit' /\ FormsFit'
  BY <1>1 DEF ProfileInv, TablesFit, GroupsFit, FormsFit, RowFits, GroupHeld, SealFits, P!Exists
<1>5. /\ reqs' = [s \in Users |-> reqs'[s]]
      /\ \A s \in Users \ {r} : reqs'[s] = reqs[s]
      /\ reqs'[r] = P!NoWork
  BY <1>1 DEF ProfileInv, WaitsFit
<1>6. \A s \in {r} : WaitFits(s)' /\ \A d \in Ids : ~Creating(s, d)'
  BY <1>5 DEF WaitFits, Creating, P!NoWork
<1>7. \A s \in Users \ {r}, d \in Ids : Creating(s, d) => ~P!Exists(d)'
  BY <1>1 DEF ProfileInv, WaitsFit, WaitFits, Creating, P!Exists
<1>8. {r} \in SUBSET Users
  OBVIOUS
<1>9. WaitsFit'
  BY <1>1, <1>5, <1>6, <1>7, <1>8, WaitsKept
<1> QED
  BY <1>3, <1>4, <1>9 DEF ProfileInv

\* deleteConnection(): requests that wait with the row of the deleted connection keep it, but
\* it will not be written (SaveEffect).
LEMMA DeleteConnectionStep ==
    ASSUME ProfileInv, NEW u \in Owners, NEW c \in Ids, P!deleteConnection(u, c)
    PROVE  ProfileInv'
<1>1. /\ P!Exists(c) /\ connections' = [connections EXCEPT ![c] = P!NoRow]
      /\ credentials' = [credentials EXCEPT ![c] = P!NoEnvelope]
      /\ deleted' = deleted \cup {c} /\ UNCHANGED <<groups, reqs, form, sent>>
  BY DEF P!deleteConnection
<1>2. /\ connections' \in [Ids -> P!Row \cup {P!NoRow}]
      /\ \A d \in Ids : d # c => connections'[d] = connections[d]
      /\ ~P!Exists(c)' /\ \A d \in Ids : P!Exists(d)' => d # c /\ P!Exists(d)
  BY <1>1 DEF ProfileInv, TablesFit, P!Exists
<1>3. /\ credentials' \in [Ids -> P!Envelope \cup {P!NoEnvelope}]
      /\ \A d \in Ids : d # c => credentials'[d] = credentials[d]
      /\ credentials'[c] = P!NoEnvelope
  BY <1>1 DEF ProfileInv, TablesFit
<1>4. c \notin Groups
  BY IdsAssumption
<1>5. \A row : RowFits(row) => RowFits(row)'
  BY <1>1 DEF RowFits, GroupHeld
<1>6. TablesFit'
  <2>1. \A d \in Ids : P!Exists(d)' => RowFits(connections[d])' /\ d \notin deleted'
    BY <1>1, <1>2 DEF ProfileInv, TablesFit, RowFits, GroupHeld
  <2>2. \A d \in Ids : credentials'[d] # P!NoEnvelope =>
          P!Exists(d)' /\ SealFits(d, credentials[d], connections[d].owner)'
    BY <1>2, <1>3 DEF ProfileInv, TablesFit, SealFits, P!Exists
  <2>3. \A b, d \in Ids : b # d /\ P!Exists(b)' /\ P!Exists(d)' =>
          connections'[b].owner # connections'[d].owner \/ connections'[b].label # connections'[d].label
    BY <1>2 DEF ProfileInv, TablesFit
  <2> QED
    BY <1>2, <1>3, <2>1, <2>2, <2>3 DEF TablesFit
<1>7. GroupsFit'
  <2>1. \A d \in Ids : P!Exists(d) => connections[d].group \in Groups \cup {P!NoGroup}
    BY DEF ProfileInv, TablesFit, RowFits, P!Row
  <2>2. \A d \in Ids : P!Exists(d) /\ connections[d].group # P!NoGroup =>
          connections[d].group \notin deleted \cup {c}
    BY <1>4, <2>1 DEF ProfileInv, GroupsFit
  <2> QED
    BY <1>1, <1>2, <1>4, <2>2 DEF ProfileInv, GroupsFit
<1>8. WaitsFit'
  <2>1. \A r \in Users : WaitFits(r)'
    BY <1>1, <1>2, <1>5 DEF ProfileInv, WaitsFit, WaitFits, SealFits
  <2> QED
    BY <1>1, <2>1 DEF ProfileInv, WaitsFit, Creating
<1> QED
  BY <1>1, <1>6, <1>7, <1>8 DEF ProfileInv, FormsFit, OwnSecrets

\* Server groups: a new one has an id of its own, a renamed one its owner, and a deleted one
\* leaves no connection in it.
LEMMA GroupStep ==
    ASSUME ProfileInv, NEW u \in Owners, NEW g \in Groups, P!GroupRoutes(u, g)
    PROVE  ProfileInv'
<1>1. UNCHANGED <<credentials, reqs, form, sent>>
  BY DEF P!GroupRoutes, P!createGroup, P!updateGroup, P!deleteGroup
<1>2. g \notin Ids
  BY IdsAssumption
<1>3. /\ groups' \in [Groups -> [owner : Owners, name : Labels] \cup {P!NoRow}]
      /\ \A h \in Groups : h # g => groups'[h] = groups[h]
      /\ deleted \subseteq deleted' /\ deleted' \subseteq deleted \cup {g}
      /\ groups[g] # P!NoRow =>
           g \in deleted' \/ (groups'[g] # P!NoRow /\ groups'[g].owner = groups[g].owner)
      /\ g \in deleted' => groups'[g] = P!NoRow
      /\ \/ UNCHANGED <<connections, deleted>>
         \/ groups[g] # P!NoRow /\ groups[g].owner = u /\ connections' = P!Ungrouped(u, g)
  <2>1. CASE \E n \in Labels : P!createGroup(u, g, n)
    <3>1. PICK n \in Labels : P!createGroup(u, g, n)
      BY <2>1
    <3>2. [owner |-> u, name |-> n] \in [owner : Owners, name : Labels]
      OBVIOUS
    <3> QED
      BY <3>1, <3>2 DEF P!createGroup, ProfileInv, GroupsFit
  <2>2. CASE \E n \in Labels : P!updateGroup(u, g, n)
    <3>1. PICK n \in Labels : P!updateGroup(u, g, n)
      BY <2>2
    <3>2. groups[g] \in [owner : Owners, name : Labels]
      BY <3>1 DEF P!updateGroup, ProfileInv, GroupsFit
    <3>3. /\ [groups[g] EXCEPT !.name = n] \in [owner : Owners, name : Labels]
          /\ [groups[g] EXCEPT !.name = n].owner = groups[g].owner
      BY <3>2
    <3>4. [groups[g] EXCEPT !.name = n] # P!NoRow
      BY <3>3, RowsAreRows
    <3>5. groups' = [groups EXCEPT ![g] = [groups[g] EXCEPT !.name = n]]
      BY <3>1 DEF P!updateGroup
    <3>6. g \notin deleted
      BY <3>1 DEF P!updateGroup, ProfileInv, GroupsFit
    <3> QED
      BY <3>1, <3>3, <3>4, <3>5, <3>6 DEF P!updateGroup, ProfileInv, GroupsFit
  <2>3. CASE P!deleteGroup(u, g)
    BY <2>3 DEF P!deleteGroup, ProfileInv, GroupsFit
  <2> QED
    BY <2>1, <2>2, <2>3 DEF P!GroupRoutes
<1>4. \A row : RowFits(row) => RowFits(row)'
  BY <1>3 DEF RowFits, GroupHeld, P!Row
<1>5. ASSUME NEW c \in Ids
      PROVE  /\ P!Exists(c)' <=> P!Exists(c)
             /\ connections'[c] \in P!Row \cup {P!NoRow}
             /\ P!Exists(c) => /\ connections'[c].owner = connections[c].owner
                               /\ connections'[c].label = connections[c].label
                               /\ RowFits(connections'[c])
                               /\ connections'[c].group # P!NoGroup =>
                                    connections'[c].group \notin deleted'
  <2>1. CASE UNCHANGED <<connections, deleted>>
    BY <1>3, <2>1 DEF P!Exists, ProfileInv, TablesFit, GroupsFit
  <2>2. CASE groups[g] # P!NoRow /\ groups[g].owner = u /\ connections' = P!Ungrouped(u, g)
    <3>1. connections'[c] = IF P!Exists(c) /\ connections[c].owner = u /\ connections[c].group = g
                            THEN [connections[c] EXCEPT !.group = P!NoGroup] ELSE connections[c]
      BY <2>2 DEF P!Ungrouped, P!Owned
    <3>2. CASE ~P!Exists(c)
      BY <3>1, <3>2 DEF P!Exists, ProfileInv, TablesFit
    <3>3. CASE P!Exists(c) /\ connections[c].owner = u /\ connections[c].group = g
      <4>1. RowFits(connections[c])
        BY <3>3 DEF ProfileInv, TablesFit
      <4>2. /\ RowFits(connections'[c]) /\ connections'[c].owner = connections[c].owner
            /\ connections'[c].label = connections[c].label /\ connections'[c].group = P!NoGroup
        BY <3>1, <3>3, <4>1 DEF RowFits, GroupHeld, P!Row
      <4>3. connections'[c] # P!NoRow
        BY <4>2, RowsAreRows DEF RowFits
      <4> QED
        BY <3>3, <4>2, <4>3 DEF P!Exists, RowFits
    <3>4. CASE P!Exists(c) /\ (connections[c].owner # u \/ connections[c].group # g)
      <4>1. connections'[c] = connections[c] /\ RowFits(connections[c])
        BY <3>1, <3>4 DEF ProfileInv, TablesFit
      <4>2. connections[c].group # P!NoGroup => connections[c].group \notin deleted
        BY <3>4 DEF ProfileInv, GroupsFit
      <4>3. connections[c].group = g => connections[c].group = P!NoGroup
        BY <2>2, <3>4, <4>1, <4>2 DEF RowFits, GroupHeld
      <4> QED
        BY <1>3, <3>4, <4>1, <4>2, <4>3 DEF P!Exists, RowFits
    <3> QED
      BY <3>2, <3>3, <3>4
  <2> QED
    BY <1>3, <2>1, <2>2
<1>6. TablesFit'
  <2>1. connections' \in [Ids -> P!Row \cup {P!NoRow}]
    <3>1. connections' = [c \in Ids |-> connections'[c]]
      BY <1>3 DEF P!Ungrouped, ProfileInv, TablesFit
    <3> QED
      BY <1>5, <3>1
  <2>2. \A c \in Ids : P!Exists(c)' => RowFits(connections[c])' /\ c \notin deleted'
    <3>1. ASSUME NEW c \in Ids, P!Exists(c)'
          PROVE  RowFits(connections'[c]) /\ c \notin deleted'
      BY <1>2, <1>3, <1>5, <3>1 DEF ProfileInv, TablesFit
    <3>2. ASSUME NEW c \in Ids, RowFits(connections'[c])
          PROVE  RowFits(connections[c])'
      BY <1>3, <3>2 DEF RowFits, GroupHeld, P!Row
    <3> QED
      BY <3>1, <3>2
  <2>3. \A c \in Ids : credentials'[c] # P!NoEnvelope =>
          P!Exists(c)' /\ SealFits(c, credentials[c], connections[c].owner)'
    BY <1>1, <1>5 DEF ProfileInv, TablesFit, SealFits
  <2>4. \A b, d \in Ids : b # d /\ P!Exists(b)' /\ P!Exists(d)' =>
          connections'[b].owner # connections'[d].owner \/ connections'[b].label # connections'[d].label
    BY <1>5 DEF ProfileInv, TablesFit
  <2>5. credentials' \in [Ids -> P!Envelope \cup {P!NoEnvelope}]
    BY <1>1 DEF ProfileInv, TablesFit
  <2> QED
    BY <2>1, <2>2, <2>3, <2>4, <2>5 DEF TablesFit
<1>7. GroupsFit'
  BY <1>3, <1>5 DEF ProfileInv, GroupsFit
<1>8. WaitsFit'
  <2>1. \A r \in Users : WaitFits(r)'
    BY <1>1, <1>2, <1>3, <1>4, <1>5 DEF ProfileInv, WaitsFit, WaitFits, SealFits
  <2> QED
    BY <1>1, <2>1 DEF ProfileInv, WaitsFit, Creating
<1> QED
  BY <1>1, <1>6, <1>7, <1>8 DEF ProfileInv, FormsFit, OwnSecrets

\* The form: it is filled with a row that was stored, and stays one.
LEMMA FormStep ==
    ASSUME ProfileInv, NEW u \in Owners,
           \/ \E s \in P!listConnections(u) : P!openEdit(u, s)
           \/ \E t \in BOOLEAN : P!onTlsModeChange(u, t)
    PROVE  ProfileInv'
<1>1. UNCHANGED <<connections, credentials, groups, deleted, reqs, sent>>
  BY DEF P!openEdit, P!onTlsModeChange
<1>2. TablesFit' /\ GroupsFit' /\ WaitsFit' /\ OwnSecrets'
  BY <1>1 DEF ProfileInv, TablesFit, GroupsFit, WaitsFit, WaitFits, Creating, RowFits, GroupHeld,
              SealFits, OwnSecrets, P!Exists
<1>3. FormsFit'
  <2>1. CASE \E s \in P!listConnections(u) : P!openEdit(u, s)
    <3>1. PICK s \in P!listConnections(u) : P!openEdit(u, s)
      BY <2>1
    <3>2. PICK c \in Ids : P!Exists(c) /\ s.id = c /\ s.row = connections[c]
      BY <3>1 DEF P!listConnections
    <3>3. form' = [form EXCEPT ![u] = [op |-> "edit", id |-> c, row |-> connections[c]]]
      BY <3>1, <3>2 DEF P!openEdit
    <3>4. connections[c] \in P!Row
      BY <3>2 DEF ProfileInv, TablesFit, RowFits
    <3> QED
      BY <3>3, <3>4 DEF ProfileInv, FormsFit, OpenForm
  <2>2. CASE \E t \in BOOLEAN : P!onTlsModeChange(u, t)
    <3>1. PICK t \in BOOLEAN : P!onTlsModeChange(u, t)
      BY <2>2
    <3>2. form[u] \in OpenForm
      BY <3>1 DEF P!onTlsModeChange, ProfileInv, FormsFit
    <3>3. [form[u].row EXCEPT !.tls = t, !.ca = t /\ form[u].row.ca] \in P!Row
      BY <3>2 DEF P!Row, OpenForm
    <3>4. [form[u] EXCEPT !.row = [form[u].row EXCEPT !.tls = t, !.ca = t /\ form[u].row.ca]] \in OpenForm
      BY <3>2, <3>3 DEF OpenForm
    <3>5. form' = [form EXCEPT ![u] = [form[u] EXCEPT !.row =
                     [form[u].row EXCEPT !.tls = t, !.ca = t /\ form[u].row.ca]]]
      <4> DEFINE middle == [form EXCEPT ![u].row.tls = t]
      <4>1. form' = [middle EXCEPT ![u].row.ca = t /\ form[u].row.ca]
        BY <3>1 DEF P!onTlsModeChange
      <4>2. middle[u].row = [form[u].row EXCEPT !.tls = t]
        BY <3>2 DEF OpenForm, ProfileInv, FormsFit
      <4> QED
        BY <4>1, <4>2, <3>2 DEF OpenForm, P!Row, ProfileInv, FormsFit
    <3> QED
      BY <3>4, <3>5 DEF ProfileInv, FormsFit
  <2> QED
    BY <2>1, <2>2
<1> QED
  BY <1>2, <1>3 DEF ProfileInv

\* An update that names one field.
LEMMA PatchedStep ==
    ASSUME ProfileInv, NEW r \in Users, NEW u \in Owners, NEW c \in Ids, NEW patch \in P!patchInput,
           NEW change \in {"keep", "clear", u}, P!Patched(r, u, c, patch, change)
    PROVE  ProfileInv'
<1>1. P!updateConnection(r, u, c, patch, change) /\ UNCHANGED form
  BY DEF P!Patched
<1>2. /\ \A f \in DOMAIN patch : f \in P!Fields
      /\ "label" \in DOMAIN patch => patch["label"] \in Labels
      /\ "tls" \in DOMAIN patch => patch["tls"] \in BOOLEAN
      /\ "ca" \in DOMAIN patch => patch["ca"] \in BOOLEAN
      /\ "group" \in DOMAIN patch => patch["group"] \in Groups \cup {P!NoGroup}
  BY DEF P!patchInput, P!Fields
<1>3. P!Exists(c) => connections[c] \in P!Row
  BY DEF ProfileInv, TablesFit, RowFits
<1>4. P!Exists(c) => P!Merged(connections[c], patch) \in P!Row
                     /\ P!Merged(connections[c], patch).owner = connections[c].owner
  BY <1>2, <1>3, MergedIsRow
<1>5. TablesFit' /\ GroupsFit' /\ WaitsFit' /\ OwnSecrets'
  BY <1>1, <1>4, UpdateConnectionStep
<1> QED
  BY <1>1, <1>5 DEF ProfileInv, FormsFit

\* A save of the form names all of them, as they were when it was filled.
LEMMA SaveConnectionStep ==
    ASSUME ProfileInv, NEW r \in Users, NEW u \in Owners, NEW change \in {"keep", "clear", u},
           P!saveConnection(r, u, change)
    PROVE  ProfileInv'
<1> DEFINE c == form[u].id
           patch == [f \in P!Fields |-> form[u].row[f]]
<1>1. /\ form[u] # P!NoWork /\ P!updateConnection(r, u, c, patch, change)
      /\ form' \in {form, [form EXCEPT ![u] = P!NoWork]}
  BY DEF P!saveConnection
<1>2. c \in Ids /\ form[u].row \in P!Row
  BY <1>1 DEF ProfileInv, FormsFit, OpenForm
<1>3. /\ \A f \in DOMAIN patch : f \in P!Fields
      /\ "label" \in DOMAIN patch => patch["label"] \in Labels
      /\ "tls" \in DOMAIN patch => patch["tls"] \in BOOLEAN
      /\ "ca" \in DOMAIN patch => patch["ca"] \in BOOLEAN
      /\ "group" \in DOMAIN patch => patch["group"] \in Groups \cup {P!NoGroup}
  BY <1>2 DEF P!Fields, P!Row
<1>4. P!Exists(c) => connections[c] \in P!Row
  BY <1>2 DEF ProfileInv, TablesFit, RowFits
<1> HIDE DEF c, patch
<1>5. P!Exists(c) => P!Merged(connections[c], patch) \in P!Row
                     /\ P!Merged(connections[c], patch).owner = connections[c].owner
  BY <1>3, <1>4, MergedIsRow
<1>6. TablesFit' /\ GroupsFit' /\ WaitsFit' /\ OwnSecrets'
  BY <1>1, <1>2, <1>5, UpdateConnectionStep
<1>7. FormsFit'
  BY <1>1 DEF ProfileInv, FormsFit, P!NoWork
<1> QED
  BY <1>6, <1>7 DEF ProfileInv

-----------------------------------------------------------------------------
(* Connection profiles: the theorems *)

\* One connection with its password in a group of its owner.
LEMMA InitProfiles == P!Init => ProfileInv
<1> SUFFICES ASSUME P!Init
             PROVE  ProfileInv
  OBVIOUS
<1>1. PICK u \in Owners, c \in Ids, g \in Groups, l \in Labels :
        /\ connections = [d \in Ids |-> IF d # c THEN P!NoRow ELSE
             [owner |-> u, label |-> l, tls |-> TRUE, ca |-> TRUE, group |-> g]]
        /\ credentials = [d \in Ids |-> IF d # c THEN P!NoEnvelope ELSE P!encryptCredential(c, u)]
        /\ groups = [h \in Groups |-> IF h # g THEN P!NoRow ELSE [owner |-> u, name |-> l]]
        /\ deleted = {}
        /\ reqs = [r \in Users |-> P!NoWork]
        /\ form = [v \in Owners |-> P!NoWork]
        /\ sent = {}
        /\ acts = 0
  BY DEF P!Init
<1> DEFINE row == [owner |-> u, label |-> l, tls |-> TRUE, ca |-> TRUE, group |-> g]
           seal == [aad |-> c, secret |-> u]
           team == [owner |-> u, name |-> l]
<1>2. row \in P!Row /\ seal \in P!Envelope /\ team \in [owner : Owners, name : Labels]
  BY DEF P!Row, P!Envelope
<1>3. row # P!NoRow /\ seal # P!NoEnvelope /\ team # P!NoRow
  BY <1>2, RowsAreRows
<1>4. /\ connections = [d \in Ids |-> IF d # c THEN P!NoRow ELSE row]
      /\ credentials = [d \in Ids |-> IF d # c THEN P!NoEnvelope ELSE seal]
      /\ groups = [h \in Groups |-> IF h # g THEN P!NoRow ELSE team]
      /\ row.owner = u /\ row.group = g /\ (row.ca => row.tls)
      /\ seal.aad = c /\ seal.secret = u /\ team.owner = u
  BY <1>1 DEF P!encryptCredential
<1> HIDE DEF row, seal, team
<1>5. RowFits(row)
  BY <1>2, <1>3, <1>4 DEF RowFits, GroupHeld
<1>6. TablesFit
  <2>1. /\ connections \in [Ids -> P!Row \cup {P!NoRow}]
        /\ credentials \in [Ids -> P!Envelope \cup {P!NoEnvelope}]
    BY <1>2, <1>4
  <2>2. \A d \in Ids : P!Exists(d) => d = c /\ connections[d] = row
    BY <1>4 DEF P!Exists
  <2>3. \A d \in Ids : credentials[d] # P!NoEnvelope => d = c /\ credentials[d] = seal
    BY <1>4
  <2>4. P!Exists(c) /\ connections[c] = row
    BY <1>3, <1>4 DEF P!Exists
  <2>5. SealFits(c, seal, row.owner)
    BY <1>2, <1>4 DEF SealFits
  <2> QED
    BY <1>1, <1>5, <2>1, <2>2, <2>3, <2>4, <2>5 DEF TablesFit
<1>7. GroupsFit
  BY <1>1, <1>2, <1>3, <1>4 DEF GroupsFit
<1>8. WaitsFit /\ FormsFit /\ OwnSecrets
  BY <1>1 DEF WaitsFit, WaitFits, Creating, FormsFit, OwnSecrets, P!NoWork
<1> QED
  BY <1>6, <1>7, <1>8 DEF ProfileInv

\* Every step of the requests, the vault, the groups and the page keeps it.
LEMMA ProfileStep == ProfileInv /\ P!Next => ProfileInv'
<1> SUFFICES ASSUME ProfileInv, P!Next
             PROVE  ProfileInv'
  OBVIOUS
<1>1. ASSUME NEW r \in Users, NEW u \in Owners, NEW c \in Ids, P!ConnectionRoutes(r, u, c)
      PROVE  ProfileInv'
  <2>1. CASE \E row \in P!Row, s \in {u, P!Nobody} : P!createConnection(r, u, c, row, s)
    BY <2>1, CreateConnectionStep
  <2>2. CASE \E p \in P!patchInput, s \in {"keep", "clear", u} : P!Patched(r, u, c, p, s)
    BY <2>2, PatchedStep
  <2>3. CASE \E d \in Ids, l \in Labels, b \in BOOLEAN : P!duplicateConnection(r, u, c, d, l, b)
    BY <2>3, DuplicateStep
  <2>4. CASE P!testConnection(r, u, c)
    BY <2>4, UseStep
  <2>5. CASE P!deleteConnection(u, c)
    BY <2>5, DeleteConnectionStep
  <2> QED
    BY <1>1, <2>1, <2>2, <2>3, <2>4, <2>5 DEF P!ConnectionRoutes
<1>2. ASSUME NEW r \in Users, NEW u \in Owners, NEW c \in Ids,
             P!openQuerySession(r, u, c) \/ P!withMutationProvider(r, u, c)
      PROVE  ProfileInv'
  BY <1>2, UseStep
<1>3. ASSUME NEW r \in Users, NEW u \in Owners, NEW s \in {"keep", "clear", u},
             P!saveConnection(r, u, s)
      PROVE  ProfileInv'
  BY <1>3, SaveConnectionStep
<1>4. ASSUME NEW r \in Users, P!Encrypted(r)
      PROVE  ProfileInv'
  BY <1>4, EncryptedStep
<1>5. ASSUME NEW r \in Users, P!Decrypted(r)
      PROVE  ProfileInv'
  BY <1>5, DecryptedStep
<1>6. ASSUME NEW u \in Owners, NEW g \in Groups, P!GroupRoutes(u, g)
      PROVE  ProfileInv'
  BY <1>6, GroupStep
<1>7. ASSUME NEW u \in Owners,
             \/ \E s \in P!listConnections(u) : P!openEdit(u, s)
             \/ \E t \in BOOLEAN : P!onTlsModeChange(u, t)
      PROVE  ProfileInv'
  BY <1>7, FormStep
<1> QED
  BY <1>1, <1>2, <1>3, <1>4, <1>5, <1>6, <1>7 DEF P!Next

\* What the tables, the groups, the waiting requests and the open forms say of one another
\* holds in every reachable state, for any number of users, connections, groups and requests.
THEOREM ProfileInvariant == AllSpec => [](part = "profiles" => ProfileInv)
<1>1. AllInit => (part = "profiles" => ProfileInv)
  BY InitProfiles DEF AllInit
<1>2. (part = "profiles" => ProfileInv) /\ [AllNext]_allVars => (part = "profiles" => ProfileInv)'
  <2> SUFFICES ASSUME part = "profiles" => ProfileInv, [AllNext]_allVars, part' = "profiles"
               PROVE  ProfileInv'
    OBVIOUS
  <2>1. part = "profiles" /\ ProfileInv /\ (P!Next \/ UNCHANGED profiles)
    BY DEF AllNext, allVars
  <2>2. CASE P!Next
    BY <2>1, <2>2, ProfileStep
  <2>3. CASE UNCHANGED profiles
    BY <2>1, <2>3 DEF profiles, ProfileInv, TablesFit, GroupsFit, WaitsFit, WaitFits, Creating,
                      FormsFit, RowFits, GroupHeld, SealFits, OwnSecrets, P!Exists
  <2> QED
    BY <2>1, <2>2, <2>3
<1> QED
  BY <1>1, <1>2, PTL DEF AllSpec

\* What is stored of a connection is always something the server would accept, a deleted one
\* stays deleted, its password with it, and a password is stored with, opened for and sent for
\* the user who typed it and nobody else.
THEOREM ProfilesStaySound == AllSpec => []ProfilesAreSound
<1>1. ASSUME ProfileInv
      PROVE  P!StoredIsValid /\ P!DeletedStaysGone /\ P!SecretIsOwners
  <2>1. ASSUME NEW c \in Ids, P!Exists(c)
        PROVE  /\ connections[c].ca => connections[c].tls
               /\ P!LabelFree(c, connections[c])
               /\ P!assertGroupBelongsToActor(connections[c].owner, connections[c].group)
    BY <1>1, <2>1 DEF ProfileInv, TablesFit, GroupsFit, RowFits, GroupHeld, P!LabelFree,
                      P!assertGroupBelongsToActor
  <2>2. P!DeletedStaysGone
    BY <1>1 DEF ProfileInv, TablesFit, P!DeletedStaysGone
  <2>3. P!SecretIsOwners
    BY <1>1 DEF ProfileInv, TablesFit, SealFits, OwnSecrets, P!SecretIsOwners, P!Opens
  <2> QED
    BY <2>1, <2>2, <2>3 DEF P!StoredIsValid
<1>2. (part = "profiles" => ProfileInv) => ProfilesAreSound
  BY <1>1 DEF ProfilesAreSound
<1> QED
  BY <1>2, ProfileInvariant, PTL
=============================================================================
