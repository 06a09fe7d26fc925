----------------------------- MODULE RateLimiter -----------------------------
(***************************************************************************)
(* InMemoryRateLimiter behind RateLimitMiddleware: one bucket per user,    *)
(* opened by the first request after the last one has run out.  Time is a  *)
(* counter; Allow holds the mutex from its reading of the clock on.        *)
(***************************************************************************)
EXTENDS Integers, Sequences

CONSTANTS
    Users,
    Rate,     \* max requests per window
    Window,   \* length of a window
    MaxTime   \* bound on the clock

LimitsAssumption == Rate \in Nat /\ Window \in Nat /\ MaxTime \in Nat

VARIABLES
    now,      \* the clock
    buckets,  \* the bucket of each user that has one: its count, and when it ends
    allowed   \* when the requests of each user were allowed, in order (history)

vars == <<now, buckets, allowed>>

Bucket == [count : Nat, resetAt : Nat]

TypeOK ==
    /\ now \in Nat
    /\ DOMAIN buckets \subseteq Users
    /\ \A u \in DOMAIN buckets : buckets[u] \in Bucket
    /\ allowed \in [Users -> Seq(Nat)]

Init ==
    /\ now = 0
    /\ buckets = [u \in {} |-> [count |-> 0, resetAt |-> 0]]
    /\ allowed = [u \in Users |-> <<>>]

\* The buckets with that of u replaced.
SetBucket(u, b) ==
    buckets' = [v \in DOMAIN buckets \cup {u} |-> IF v = u THEN b ELSE buckets[v]]

\* No bucket, or now.After(b.resetAt): at that instant itself the old one counts.
NeedsBucket(u) == u \in DOMAIN buckets => now > buckets[u].resetAt

Admit(u) == allowed' = [allowed EXCEPT ![u] = Append(@, now)]

\* A bug: the first request of a window is not counted.
OpenBucketEmpty(u) ==
    /\ NeedsBucket(u)
    /\ SetBucket(u, [count |-> 0, resetAt |-> now + Window])
    /\ Admit(u)
    /\ UNCHANGED now

\* A bug: the window ends before it begins.
OpenBucketBackwards(u) ==
    /\ NeedsBucket(u)
    /\ SetBucket(u, [count |-> 1, resetAt |-> now - Window])
    /\ Admit(u)
    /\ UNCHANGED now

\* The first request of a window is allowed, whatever the rate.
OpenBucket(u) ==
    /\ NeedsBucket(u)
    /\ SetBucket(u, [count |-> 1, resetAt |-> now + Window])
    /\ Admit(u)
    /\ UNCHANGED now

\* A bug: one request more than the rate.
LimitedLate(u) == ~NeedsBucket(u) /\ buckets[u].count > Rate

\* The rate is used up in a bucket that has not run out.
Limited(u) == ~NeedsBucket(u) /\ buckets[u].count >= Rate

\* A bug: every request puts off the end of the window.
CountRequestExtending(u) ==
    /\ ~NeedsBucket(u)
    /\ ~Limited(u)
    /\ SetBucket(u, [count |-> buckets[u].count + 1, resetAt |-> now + Window])
    /\ Admit(u)
    /\ UNCHANGED now

\* A later request of a window.
CountRequest(u) ==
    /\ ~NeedsBucket(u)
    /\ ~Limited(u)
    /\ SetBucket(u, [buckets[u] EXCEPT !.count = @ + 1])
    /\ Admit(u)
    /\ UNCHANGED now

\* Over the limit: the update goes to onLimited or nowhere.
Deny(u) == Limited(u) /\ UNCHANGED vars

Tick ==
    /\ now < MaxTime
    /\ now' = now + 1
    /\ UNCHANGED <<buckets, allowed>>

Allow(u) == OpenBucket(u) \/ CountRequest(u) \/ Deny(u)

Next == Tick \/ \E u \in Users : Allow(u)

Spec == Init /\ [][Next]_vars

-----------------------------------------------------------------------------
\* What one window can let through.
PerWindow == IF Rate = 0 THEN 1 ELSE Rate

(* A burst is at most twice the rate: no more than 2 * Rate requests of a  *)
(* user are allowed within any stretch of time no longer than the window,  *)
(* wherever it falls on the buckets (Allow).                               *)
BurstBounded ==
    \A u \in Users : \A i \in 1 .. Len(allowed[u]) - 2 * PerWindow :
        allowed[u][i + 2 * PerWindow] - allowed[u][i] > Window

(* The bucket agrees with the past: its count is the number of requests    *)
(* allowed since it was opened, none of the earlier ones falls in it, and  *)
(* it never exceeds the rate (count and resetAt in Allow).                 *)
BucketExact ==
    \A u \in DOMAIN buckets :
        LET b == buckets[u]
            n == Len(allowed[u])
        IN  /\ 1 <= b.count /\ b.count <= PerWindow /\ b.count <= n
            /\ allowed[u][n - b.count + 1] = b.resetAt - Window
            /\ b.count < n => allowed[u][n - b.count] < b.resetAt - Window

(* A user is not shut out: when the limiter denies, the rate has been used *)
(* up by requests allowed within the last window.                          *)
DenialJustified ==
    \A u \in Users : Limited(u) /\ Rate > 0 =>
        LET n == Len(allowed[u]) IN n >= Rate /\ now - allowed[u][n - Rate + 1] <= Window
=============================================================================
