-------------------------------- MODULE Dedup --------------------------------
(***************************************************************************)
(* InMemoryDedup of agentic/security_inmem.go: the map that decides which  *)
(* messages have been seen.  Time is a counter; every call holds the mutex *)
(* from its reading of the clock to its last write.                        *)
(***************************************************************************)
EXTENDS Integers, FiniteSets

CONSTANTS
    Messages,   \* (conversation, message ID) pairs
    Ttl,        \* how long a message is remembered
    MaxSize,    \* entries from which on expired ones are evicted
    MaxTime     \* bound on the clock

SizesAssumption == Ttl \in Nat /\ MaxSize \in Nat /\ MaxTime \in Nat

VARIABLES
    now,      \* the clock
    seen,     \* when each remembered message was let through
    passedAt  \* when each message was let through last (history), or -1

vars == <<now, seen, passedAt>>

TypeOK ==
    /\ now \in Nat
    /\ DOMAIN seen \subseteq Messages
    /\ \A m \in DOMAIN seen : seen[m] \in Nat
    /\ passedAt \in [Messages -> Nat \cup {-1}]

Init ==
    /\ now = 0
    /\ seen = [m \in {} |-> 0]
    /\ passedAt = [m \in Messages |-> -1]

\* A bug: a message is forgotten one moment early.
RememberedShort(m) == m \in DOMAIN seen /\ now + 1 < seen[m] + Ttl

\* now.Before(t.Add(ttl)) and now.After(t.Add(ttl)): neither at the instant itself.
Remembered(m) == m \in DOMAIN seen /\ now < seen[m] + Ttl
Expired(m)    == now > seen[m] + Ttl

\* A bug: the expired entries are evicted only when there are more than fit.
RetainedLate ==
    IF Cardinality(DOMAIN seen) > MaxSize + 1
    THEN {m \in DOMAIN seen : ~Expired(m)}
    ELSE DOMAIN seen

\* A bug: a full map is emptied.
RetainedNone == IF Cardinality(DOMAIN seen) >= MaxSize THEN {} ELSE DOMAIN seen

\* The entries that stay when a new one is about to be added.
Retained ==
    IF Cardinality(DOMAIN seen) >= MaxSize
    THEN {m \in DOMAIN seen : ~Expired(m)}
    ELSE DOMAIN seen

\* IsDuplicate(m) returns true and changes nothing.
Drop(m) == Remembered(m) /\ UNCHANGED vars

\* IsDuplicate(m) evicts, remembers m and returns false.
Pass(m) ==
    /\ ~Remembered(m)
    /\ seen' = [x \in Retained \cup {m} |-> IF x = m THEN now ELSE seen[x]]
    /\ passedAt' = [passedAt EXCEPT ![m] = now]
    /\ UNCHANGED now

Tick ==
    /\ now < MaxTime
    /\ now' = now + 1
    /\ UNCHANGED <<seen, passedAt>>

Next == Tick \/ \E m \in Messages : Drop(m) \/ Pass(m)

Spec == Init /\ [][Next]_vars

-----------------------------------------------------------------------------
(* A message that has been let through is not let through again before its *)
(* TTL has run out, whatever was delivered and evicted in the meantime     *)
(* (IsDuplicate, "seen within the TTL window").                            *)
PassesApart ==
    [][\A m \in Messages :
          passedAt'[m] # passedAt[m] /\ passedAt[m] >= 0
              => passedAt'[m] - passedAt[m] >= Ttl]_vars

(* The map outgrows MaxSize only with messages of the last Ttl: a call     *)
(* that leaves more entries than that leaves none that has expired.        *)
GrowsOnlyWithLive ==
    [][Cardinality(DOMAIN seen') > MaxSize /\ seen' # seen =>
          \A m \in DOMAIN seen' : now <= seen'[m] + Ttl]_vars
=============================================================================
