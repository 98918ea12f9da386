---------------------------- MODULE RateLimiter ----------------------------
(***************************************************************************)
(* packages/auth/src/rate-limiter.ts: fixed windows with blocks that grow  *)
(* with every further refusal.  A bucket is a value; time is a number.     *)
(***************************************************************************)
EXTENDS Naturals

CONSTANTS Limit,     \* options.limit
          Window,    \* options.windowMs
          MaxBlock   \* the cap of 15 minutes

ASSUME LimiterAssumption ==
    Limit \in Nat \ {0} /\ Window \in Nat \ {0} /\ MaxBlock \in Nat \ {0}

\* A key without a bucket: everything about it is in the past.
NoBucket == [count |-> 0, resetAt |-> 0, blockedUntil |-> 0, blocks |-> 0]

Bucket == [count : 0..Limit, resetAt : Nat, blockedUntil : Nat, blocks : Nat]

\* Mutant: a new window is opened by every request.
RolledAlways(b, now) == [b EXCEPT !.count = 0, !.resetAt = now + Window]

\* A window that is over starts again; a block and its history survive it.
Rolled(b, now) ==
    IF now >= b.resetAt THEN [b EXCEPT !.count = 0, !.resetAt = now + Window] ELSE b

\* The k-th block doubles the one before it, up to the cap.
BlockLength(k) == IF Window * 2^(k - 1) < MaxBlock THEN Window * 2^(k - 1) ELSE MaxBlock

Blocked(b, now) == now < b.blockedUntil
Exhausted(b) == b.count >= Limit

\* consume(): the bucket afterwards, and whether the attempt was allowed.
Consumed(b0, now) ==
    LET b == Rolled(b0, now) IN
    IF Blocked(b, now) THEN b
    ELSE IF Exhausted(b)
    THEN [b EXCEPT !.blocks = @ + 1, !.blockedUntil = now + BlockLength(b.blocks + 1)]
    ELSE [b EXCEPT !.count = @ + 1]

Allowed(b0, now) == LET b == Rolled(b0, now) IN ~Blocked(b, now) /\ ~Exhausted(b)
=============================================================================
