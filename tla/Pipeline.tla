------------------------------ MODULE Pipeline ------------------------------
(***************************************************************************)
(* The middleware chain between the transports and the router, in the      *)
(* order agentic/README.md gives it: AgentFilter, Dedup, RateLimit,        *)
(* CredentialGate (Logging keeps no state; Recovery turns a panic into an  *)
(* error, so a handler always ends).  The transports run one goroutine per *)
(* delivery, and the server may deliver an event again at any time.        *)
(***************************************************************************)
EXTENDS Integers, FiniteSets

CONSTANTS
    Events,     \* what happens in conversations: messages, clicks on cards
    Info,       \* what an update says about its event
    SelfId,     \* the agent's own user ID
    Users,      \* all user IDs
    Messages,   \* (conversation, message ID) pairs
    NoMessage,  \* the key of an update whose MessageID is 0
    Slots,      \* bound on goroutines: at most one per slot at a time
    Deadline,   \* the lifetime of a goroutine's context
    Ttl, MaxSize,   \* of the deduplicator
    Rate, Window,   \* of the rate limiter
    MaxTime     \* bound on the clock

ASSUME EventsAssumption ==
    /\ SelfId \in Users /\ NoMessage \notin Messages
    /\ Info \in [Events -> [kind : {"message", "card", "other"}, user : Users,
                            message : Messages \cup {NoMessage},
                            private : BOOLEAN, mentioned : BOOLEAN]]
ASSUME DeadlineAssumption == Deadline \in Nat

VARIABLES
    now, seen, passedAt,  \* the deduplicator
    buckets, allowed,     \* the rate limiter
    at,                   \* where the goroutine of each slot is, "none" if there is none
    event,                \* the event it was started for
    born,                 \* when it was started
    passed                \* the events that got past the deduplicator (history)

dedupVars   == <<seen, passedAt>>
limiterVars == <<buckets, allowed>>
slotVars    == <<at, event, born>>
vars        == <<now, dedupVars, limiterVars, slotVars, passed>>

D == INSTANCE Dedup
L == INSTANCE RateLimiter

ASSUME ComponentsAssumption == D!SizesAssumption /\ L!LimitsAssumption

Places == {"none", "dedup", "limit", "gate", "handler", "notice"}

TypeOK ==
    /\ D!TypeOK
    /\ L!TypeOK
    /\ at \in [Slots -> Places]
    /\ event \in [Slots -> Events]
    /\ born \in [Slots -> Nat]
    /\ passed \subseteq Events

Init ==
    /\ D!Init
    /\ L!Init
    /\ at = [g \in Slots |-> "none"]
    /\ event = [g \in Slots |-> CHOOSE e \in Events : TRUE]
    /\ born = [g \in Slots |-> 0]
    /\ passed = {}

Go(g, from, to) == at[g] = from /\ at' = [at EXCEPT ![g] = to]
Message(g) == Info[event[g]].message

\* AgentFilterMiddleware: clicks and events that are no messages always pass,
\* messages if they are not the agent's and are private or mention it.
Addressed(e) ==
    Info[e].kind = "message" =>
        Info[e].user # SelfId /\ (Info[e].private \/ Info[e].mentioned)

\* A transport delivers an event that passes the filter; the goroutine of
\* any other ends at once.  (The transports drop the agent's own updates as
\* well, once they know its ID.)
Deliver(g, e) ==
    /\ Addressed(e)
    /\ Go(g, "none", "dedup")
    /\ event' = [event EXCEPT ![g] = e]
    /\ born' = [born EXCEPT ![g] = now]
    /\ UNCHANGED <<now, dedupVars, limiterVars, passed>>

\* DedupMiddleware; an update with no message ID is not looked at.
Fresh(g) ==
    /\ Go(g, "dedup", "limit")
    /\ \/ Message(g) # NoMessage /\ D!Pass(Message(g))
       \/ Message(g) = NoMessage /\ UNCHANGED <<now, dedupVars>>
    /\ passed' = passed \cup {event[g]}
    /\ UNCHANGED <<event, born, limiterVars>>

Duplicate(g) ==
    /\ Go(g, "dedup", "none")
    /\ Message(g) # NoMessage /\ D!Drop(Message(g))
    /\ UNCHANGED <<event, born, limiterVars, passed>>

\* RateLimitMiddleware: over the limit, onLimited runs in place of the rest.
\* (InMemoryRateLimiter never returns an error.)
Limit(g) ==
    LET u == Info[event[g]].user IN
    /\ \/ Go(g, "limit", "gate") /\ (L!OpenBucket(u) \/ L!CountRequest(u))
       \/ Go(g, "limit", "notice") /\ L!Deny(u)
    /\ UNCHANGED <<event, born, dedupVars, passed>>

\* CredentialGateMiddleware: onMissing runs in place of the rest; a checker
\* that fails lets the update through.
Gate(g) ==
    /\ Go(g, "gate", "handler") \/ Go(g, "gate", "notice")
    /\ UNCHANGED <<now, event, born, dedupVars, limiterVars, passed>>

\* The router's handler, onLimited or onMissing returns or panics; the
\* goroutine logs the error and ends.
HandlerEnds(g) ==
    /\ Go(g, "handler", "none") \/ Go(g, "notice", "none")
    /\ UNCHANGED <<now, event, born, dedupVars, limiterVars, passed>>

\* Time passes.  Handlers heed their context: no goroutine outlives it.
Tick ==
    /\ \A g \in Slots : at[g] # "none" => now < born[g] + Deadline
    /\ D!Tick
    /\ L!Tick
    /\ UNCHANGED <<slotVars, passed>>

Step(g) == Fresh(g) \/ Duplicate(g) \/ Limit(g) \/ Gate(g) \/ HandlerEnds(g)

Next ==
    \/ Tick
    \/ \E g \in Slots : Step(g) \/ \E e \in Events : Deliver(g, e)

Spec == Init /\ [][Next]_vars

-----------------------------------------------------------------------------
(* One message is never in two handlers at once, however often it is       *)
(* delivered and however long its first handler takes: the deduplicator    *)
(* remembers it longer than the context lets a handler run (README: a TTL  *)
(* of five minutes; dispatchUpdate: a deadline of two).  It needs           *)
(* Ttl > Deadline.                                                         *)
OneHandlerPerMessage ==
    \A g, h \in Slots :
        /\ g # h
        /\ at[g] \notin {"none", "dedup"} /\ at[h] \notin {"none", "dedup"}
        /\ Message(g) # NoMessage
        => Message(g) # Message(h)

(* The properties of the components, in the pipeline.                      *)
PassesApart       == D!PassesApart
GrowsOnlyWithLive == D!GrowsOnlyWithLive
BurstBounded      == L!BurstBounded
BucketExact       == L!BucketExact
DenialJustified   == L!DenialJustified

(* What the comment says and the code does not: only an event that got     *)
(* past before is filtered ("filters duplicate messages",                  *)
(* DedupMiddleware).  Two clicks on one card carry the card's message ID.  *)
OnlyDuplicatesDropped ==
    [][\A g \in Slots : Duplicate(g) => event[g] \in passed]_vars
=============================================================================
