---------------------------- MODULE PipelineProofs ----------------------------
(***************************************************************************)
(* The middleware chain, for any events, goroutines, rates and times: it   *)
(* uses the deduplicator and the rate limiter as they are meant to be      *)
(* used, so what those promise holds in it, and a message is handled by    *)
(* one goroutine at a time.                                                *)
(***************************************************************************)
EXTENDS Pipeline, TLAPS

DP == INSTANCE DedupProofs
LP == INSTANCE RateLimiterProofs

-----------------------------------------------------------------------------
(* Types. *)

\* What a goroutine was started for.
EventsKnown ==
    /\ at \in [Slots -> Places]
    /\ born \in [Slots -> Nat]
    /\ event \in [Slots -> Events \cup {CHOOSE e \in Events : TRUE}]
    /\ \A g \in Slots : at[g] # "none" => event[g] \in Events

LEMMA InfoType ==
  ASSUME NEW e \in Events
  PROVE  Info[e].user \in Users /\ Info[e].message \in Messages \cup {NoMessage}
BY EventsAssumption

LEMMA KnownNext ==
  ASSUME EventsKnown, now \in Nat, [Next]_vars
  PROVE  EventsKnown'
<1> USE DEF EventsKnown, Go, Places
<1>1. CASE Tick
  BY <1>1 DEF Tick, slotVars
<1>2. ASSUME NEW g \in Slots, Fresh(g) PROVE EventsKnown'
  BY <1>2 DEF Fresh
<1>3. ASSUME NEW g \in Slots, Duplicate(g) PROVE EventsKnown'
  BY <1>3 DEF Duplicate
<1>4. ASSUME NEW g \in Slots, Limit(g) PROVE EventsKnown'
  BY <1>4 DEF Limit
<1>5. ASSUME NEW g \in Slots, Gate(g) PROVE EventsKnown'
  BY <1>5 DEF Gate
<1>6. ASSUME NEW g \in Slots, HandlerEnds(g) PROVE EventsKnown'
  BY <1>6 DEF HandlerEnds
<1>7. ASSUME NEW g \in Slots, NEW e \in Events, Deliver(g, e) PROVE EventsKnown'
  BY <1>7 DEF Deliver
<1>8. CASE UNCHANGED vars
  BY <1>8 DEF vars, slotVars
<1> QED BY <1>1, <1>2, <1>3, <1>4, <1>5, <1>6, <1>7, <1>8 DEF Next, Step

-----------------------------------------------------------------------------
(* The chain and its two components. *)

\* Every step of the chain is one of the deduplicator, or none of its business.
LEMMA DedupStep ==
  ASSUME EventsKnown, [Next]_vars
  PROVE  [DP!Next]_(DP!vars)
<1> USE DEF DP!vars
<1>1. CASE Tick
  BY <1>1 DEF Tick, D!Tick, DP!Tick, DP!Next
<1>2. ASSUME NEW g \in Slots, Fresh(g) PROVE [DP!Next]_(DP!vars)
  <2>1. CASE Message(g) # NoMessage /\ D!Pass(Message(g))
    <3>1. Message(g) \in Messages
      BY <1>2, <2>1, InfoType DEF EventsKnown, Fresh, Go, Message
    <3>2. D!Retained = DP!Retained /\ (D!Remembered(Message(g)) <=> DP!Remembered(Message(g)))
      <4>1. D!Cardinality(DOMAIN seen) = DP!Cardinality(DOMAIN seen)
        BY DEF D!Cardinality, DP!Cardinality
      <4> QED BY <4>1 DEF D!Remembered, D!Retained, D!Expired,
                          DP!Remembered, DP!Retained, DP!Expired
    <3>3. DP!Pass(Message(g))
      BY <2>1, <3>2, Zenon DEF D!Pass, DP!Pass
    <3> QED BY <3>1, <3>3 DEF DP!Next
  <2>2. CASE UNCHANGED <<now, dedupVars>>
    BY <2>2 DEF dedupVars
  <2> QED BY <1>2, <2>1, <2>2 DEF Fresh
<1>3. ASSUME NEW g \in Slots, Duplicate(g) PROVE [DP!Next]_(DP!vars)
  BY <1>3 DEF Duplicate, D!Drop, D!vars
<1>4. ASSUME NEW g \in Slots, Limit(g) PROVE [DP!Next]_(DP!vars)
  BY <1>4 DEF Limit, dedupVars, L!OpenBucket, L!CountRequest, L!Deny, L!vars
<1>5. ASSUME NEW g \in Slots, Gate(g) PROVE [DP!Next]_(DP!vars)
  BY <1>5 DEF Gate, dedupVars
<1>6. ASSUME NEW g \in Slots, HandlerEnds(g) PROVE [DP!Next]_(DP!vars)
  BY <1>6 DEF HandlerEnds, dedupVars
<1>7. ASSUME NEW g \in Slots, NEW e \in Events, Deliver(g, e) PROVE [DP!Next]_(DP!vars)
  BY <1>7 DEF Deliver, dedupVars
<1>8. CASE UNCHANGED vars
  BY <1>8 DEF vars, dedupVars
<1> QED BY <1>1, <1>2, <1>3, <1>4, <1>5, <1>6, <1>7, <1>8 DEF Next, Step

\* And one of the rate limiter, or none of its business.
LEMMA LimiterStep ==
  ASSUME EventsKnown, [Next]_vars
  PROVE  [LP!Next]_(LP!vars)
<1> USE DEF LP!vars
<1>1. CASE Tick
  BY <1>1 DEF Tick, L!Tick, LP!Tick, LP!Next
<1>2. ASSUME NEW g \in Slots, Fresh(g) PROVE [LP!Next]_(LP!vars)
  BY <1>2 DEF Fresh, D!Pass, limiterVars
<1>3. ASSUME NEW g \in Slots, Duplicate(g) PROVE [LP!Next]_(LP!vars)
  BY <1>3 DEF Duplicate, D!Drop, D!vars, limiterVars
<1>4. ASSUME NEW g \in Slots, Limit(g) PROVE [LP!Next]_(LP!vars)
  <2> DEFINE u == Info[event[g]].user
  <2>1. u \in Users
    BY <1>4, InfoType DEF EventsKnown, Limit, Go
  <2>2. CASE L!OpenBucket(u)
    <3>1. LP!OpenBucket(u)
      BY <2>2 DEF L!OpenBucket, L!NeedsBucket, L!SetBucket, L!Admit,
                  LP!OpenBucket, LP!NeedsBucket, LP!SetBucket, LP!Admit
    <3> QED BY <2>1, <3>1 DEF LP!Next, LP!Allow
  <2>3. CASE L!CountRequest(u)
    <3>1. LP!CountRequest(u)
      BY <2>3 DEF L!CountRequest, L!Limited, L!NeedsBucket, L!SetBucket, L!Admit,
                  LP!CountRequest, LP!Limited, LP!NeedsBucket, LP!SetBucket, LP!Admit
    <3> QED BY <2>1, <3>1 DEF LP!Next, LP!Allow
  <2>4. CASE L!Deny(u)
    BY <2>4 DEF L!Deny, L!vars
  <2> QED BY <1>4, <2>2, <2>3, <2>4 DEF Limit
<1>5. ASSUME NEW g \in Slots, Gate(g) PROVE [LP!Next]_(LP!vars)
  BY <1>5 DEF Gate, limiterVars
<1>6. ASSUME NEW g \in Slots, HandlerEnds(g) PROVE [LP!Next]_(LP!vars)
  BY <1>6 DEF HandlerEnds, limiterVars
<1>7. ASSUME NEW g \in Slots, NEW e \in Events, Deliver(g, e) PROVE [LP!Next]_(LP!vars)
  BY <1>7 DEF Deliver, limiterVars
<1>8. CASE UNCHANGED vars
  BY <1>8 DEF vars, limiterVars
<1> QED BY <1>1, <1>2, <1>3, <1>4, <1>5, <1>6, <1>7, <1>8 DEF Next, Step

LEMMA ChainInit == Init => EventsKnown /\ DP!Init /\ LP!Init
<1> SUFFICES ASSUME Init PROVE EventsKnown /\ DP!Init /\ LP!Init
  OBVIOUS
<1>1. EventsKnown
  BY DEF Init, EventsKnown, Places
<1>2. DP!Init
  BY DEF Init, D!Init, DP!Init
<1>3. LP!Init
  BY DEF Init, L!Init, LP!Init
<1> QED BY <1>1, <1>2, <1>3

LEMMA Sizes == DP!SizesAssumption /\ LP!LimitsAssumption
BY ComponentsAssumption DEF D!SizesAssumption, DP!SizesAssumption,
                            L!LimitsAssumption, LP!LimitsAssumption

\* What both components keep, in the chain.
CInv == EventsKnown /\ DP!DInv /\ LP!LInv

LEMMA CInvariant == Spec => []CInv
<1>1. Init => CInv
  BY ChainInit, DP!DInvInit, LP!LInvInit DEF CInv
<1>2. CInv /\ [Next]_vars => CInv'
  <2> SUFFICES ASSUME CInv, [Next]_vars PROVE CInv'
    OBVIOUS
  <2>1. EventsKnown /\ DP!DInv /\ LP!LInv /\ now \in Nat
    BY DEF CInv, DP!DInv, DP!TypeOK
  <2>2. EventsKnown'
    BY <2>1, KnownNext
  <2>3. DP!DInv'
    BY <2>1, Sizes, DedupStep, DP!DInvNext
  <2>4. LP!LInv'
    BY <2>1, Sizes, LimiterStep, LP!LInvNext
  <2> QED BY <2>2, <2>3, <2>4 DEF CInv
<1> QED BY <1>1, <1>2, PTL DEF Spec

(* The chain uses the deduplicator and the rate limiter as their           *)
(* specifications have it: each of its steps is one of theirs, or none of  *)
(* their business (DedupMiddleware, RateLimitMiddleware).                  *)
THEOREM ChainImplementsComponents == Spec => DP!Spec /\ LP!Spec
<1>1. Init => EventsKnown /\ DP!Init /\ LP!Init
  BY ChainInit
<1>2. CInv /\ [Next]_vars => [DP!Next]_(DP!vars) /\ [LP!Next]_(LP!vars)
  BY DedupStep, LimiterStep DEF CInv
<1> QED BY <1>1, <1>2, CInvariant, PTL DEF Spec, DP!Spec, LP!Spec

(* So no message gets past the deduplicator twice within its TTL           *)
(* (DedupMiddleware).                                                      *)
THEOREM ChainLetsThroughOnce == Spec => PassesApart
<1>1. Spec => DP!Spec
  BY ChainImplementsComponents, PTL
<1>2. DP!Spec => DP!PassesApart
  BY Sizes, DP!LetThroughOncePerTtl
<1>3. DP!PassesApart => PassesApart
  BY DEF DP!PassesApart, DP!vars, PassesApart, D!PassesApart, D!vars
<1> QED BY <1>1, <1>2, <1>3, PTL

(* The map of seen messages outgrows its size only with messages that have *)
(* not expired (DedupMiddleware).                                          *)
THEOREM ChainHoldsLive == Spec => GrowsOnlyWithLive
<1>1. Spec => DP!Spec
  BY ChainImplementsComponents, PTL
<1>2. DP!Spec => DP!GrowsOnlyWithLive
  BY Sizes, DP!MapHoldsLive
<1>3. [DP!Cardinality(DOMAIN seen') > MaxSize /\ seen' # seen =>
         \A m \in DOMAIN seen' : now <= seen'[m] + Ttl]_(DP!vars)
      => [D!Cardinality(DOMAIN seen') > MaxSize /\ seen' # seen =>
            \A m \in DOMAIN seen' : now <= seen'[m] + Ttl]_(D!vars)
  <2>1. D!Cardinality(DOMAIN seen') = DP!Cardinality(DOMAIN seen')
    BY DEF D!Cardinality, DP!Cardinality
  <2> QED BY <2>1 DEF D!vars, DP!vars
<1> QED BY <1>1, <1>2, <1>3, PTL
        DEF DP!GrowsOnlyWithLive, GrowsOnlyWithLive, D!GrowsOnlyWithLive

(* A burst that reaches the handlers is bounded (RateLimitMiddleware).     *)
THEOREM ChainBoundsBursts == Spec => []BurstBounded
<1>1. Spec => LP!Spec
  BY ChainImplementsComponents, PTL
<1>2. LP!Spec => []LP!BurstBounded
  BY Sizes, LP!BurstAtMostTwice
<1>3. LP!BurstBounded => BurstBounded
  BY DEF LP!BurstBounded, BurstBounded, L!BurstBounded, LP!PerWindow, L!PerWindow
<1> QED BY <1>1, <1>2, <1>3, PTL

(* Every bucket is exact, whatever goroutines its user's updates run in    *)
(* (RateLimitMiddleware).                                                  *)
THEOREM ChainKeepsBucketsExact == Spec => []BucketExact
<1>1. Spec => LP!Spec
  BY ChainImplementsComponents, PTL
<1>2. LP!Spec => []LP!BucketExact
  BY Sizes, LP!BucketsAreExact
<1>3. LP!BucketExact => BucketExact
  BY DEF LP!BucketExact, BucketExact, L!BucketExact, LP!PerWindow, L!PerWindow
<1> QED BY <1>1, <1>2, <1>3, PTL

(* Nobody is denied who has not used up the rate (RateLimitMiddleware).    *)
THEOREM ChainDeniesJustly == Spec => []DenialJustified
<1>1. Spec => LP!Spec
  BY ChainImplementsComponents, PTL
<1>2. LP!Spec => []LP!DenialJustified
  BY Sizes, LP!DenialsAreJustified
<1>3. LP!DenialJustified => DenialJustified
  BY DEF LP!DenialJustified, DenialJustified, L!DenialJustified,
         LP!Limited, L!Limited, LP!NeedsBucket, L!NeedsBucket
<1> QED BY <1>1, <1>2, <1>3, PTL

-----------------------------------------------------------------------------
(* One goroutine per message. *)

Handled(g) == at[g] \notin {"none", "dedup"} /\ Message(g) # NoMessage

\* No goroutine outlives its context.
InTime == \A g \in Slots : at[g] # "none" => born[g] <= now /\ now <= born[g] + Deadline

\* What a goroutine handles was let through since the goroutine began.
LetThrough == \A g \in Slots : Handled(g) => passedAt[Message(g)] >= born[g]

PInv == CInv /\ InTime /\ LetThrough /\ OneHandlerPerMessage

\* A message that some goroutine handles is still remembered.
LEMMA HandledIsRemembered ==
  ASSUME Ttl > Deadline, CInv, InTime, LetThrough, NEW h \in Slots, Handled(h)
  PROVE  D!Remembered(Message(h))
<1> DEFINE m == Message(h)
<1>1. Ttl \in Nat /\ Deadline \in Nat
  BY Sizes, DeadlineAssumption DEF DP!SizesAssumption
<1>2. now \in Nat /\ born[h] \in Nat
  BY DEF CInv, EventsKnown, DP!DInv, DP!TypeOK
<1>3. m \in Messages
  BY InfoType DEF CInv, EventsKnown, Handled, Message
<1>4. passedAt[m] >= born[h] /\ now <= born[h] + Deadline
  BY DEF LetThrough, InTime, Handled
<1>5. passedAt[m] \in Int
  BY <1>3 DEF CInv, DP!DInv, DP!TypeOK
<1>6. /\ passedAt[m] >= 0 /\ now <= passedAt[m] + Ttl => m \in DOMAIN seen
      /\ m \in DOMAIN seen => seen[m] = passedAt[m]
  BY <1>3 DEF CInv, DP!DInv, DP!Remembers
<1> HIDE DEF m
<1>7. m \in DOMAIN seen /\ now < seen[m] + Ttl
  BY <1>1, <1>2, <1>4, <1>5, <1>6
<1> QED BY <1>7 DEF D!Remembered, m

\* What a step leaves alone when goroutines only move on.
LEMMA StaysTrue ==
  ASSUME PInv, NEW g \in Slots, UNCHANGED <<now, event, born, passedAt>>,
         \A h \in Slots \ {g} : at'[h] = at[h],
         at'[g] # "none" => at[g] # "none",
         Handled(g)' => Handled(g)
  PROVE  (InTime /\ LetThrough /\ OneHandlerPerMessage)'
<1>1. \A h \in Slots : Message(h)' = Message(h)
  BY DEF Message
<1>2. \A h \in Slots : (at'[h] # "none" => at[h] # "none") /\ (Handled(h)' => Handled(h))
  BY <1>1 DEF Handled
<1>3. InTime'
  BY <1>2 DEF PInv, InTime
<1>4. LetThrough'
  BY <1>1, <1>2 DEF PInv, LetThrough
<1>5. OneHandlerPerMessage'
  <2> SUFFICES ASSUME NEW i \in Slots, NEW j \in Slots, i # j,
                      at'[i] \notin {"none", "dedup"}, at'[j] \notin {"none", "dedup"},
                      Message(i)' # NoMessage
               PROVE  Message(i)' # Message(j)'
    BY DEF OneHandlerPerMessage
  <2>1. Handled(i)
    BY <1>2 DEF Handled
  <2>2. CASE Message(j) = NoMessage
    BY <1>1, <2>2
  <2>3. CASE Message(j) # NoMessage
    <3>1. Handled(j)
      BY <1>1, <1>2, <2>3 DEF Handled
    <3> QED BY <1>1, <2>1, <3>1 DEF PInv, OneHandlerPerMessage, Handled
  <2> QED BY <2>2, <2>3
<1> QED BY <1>3, <1>4, <1>5

LEMMA TickKeeps ==
  ASSUME PInv, Tick
  PROVE  (InTime /\ LetThrough /\ OneHandlerPerMessage)'
<1>1. /\ now \in Nat /\ now' = now + 1 /\ passedAt' = passedAt
      /\ at' = at /\ event' = event /\ born' = born
  BY DEF PInv, CInv, DP!DInv, DP!TypeOK, Tick, D!Tick, slotVars
<1>2. \A g \in Slots : Message(g)' = Message(g)
  BY <1>1 DEF Message
<1>3. InTime'
  <2> SUFFICES ASSUME NEW g \in Slots, at[g] # "none"
               PROVE  born[g] <= now + 1 /\ now + 1 <= born[g] + Deadline
    BY <1>1 DEF InTime
  <2>1. born[g] \in Nat /\ born[g] <= now /\ now < born[g] + Deadline
    BY DEF PInv, CInv, EventsKnown, InTime, Tick
  <2> QED BY <1>1, <2>1, DeadlineAssumption
<1>4. LetThrough'
  BY <1>1, <1>2 DEF PInv, LetThrough, Handled
<1>5. OneHandlerPerMessage'
  BY <1>1, <1>2 DEF PInv, OneHandlerPerMessage
<1> QED BY <1>3, <1>4, <1>5

LEMMA DeliverKeeps ==
  ASSUME PInv, NEW g \in Slots, NEW e \in Events, Deliver(g, e)
  PROVE  (InTime /\ LetThrough /\ OneHandlerPerMessage)'
<1>1. /\ at \in [Slots -> Places] /\ born \in [Slots -> Nat] /\ now \in Nat
      /\ event \in [Slots -> Events \cup {CHOOSE x \in Events : TRUE}]
  BY DEF PInv, CInv, EventsKnown, DP!DInv, DP!TypeOK
<1>2. /\ at' = [at EXCEPT ![g] = "dedup"] /\ event' = [event EXCEPT ![g] = e]
      /\ born' = [born EXCEPT ![g] = now] /\ now' = now /\ passedAt' = passedAt
  BY DEF Deliver, Go, dedupVars
<1>3. /\ at'[g] = "dedup" /\ born'[g] = now
      /\ \A h \in Slots \ {g} : at'[h] = at[h] /\ event'[h] = event[h] /\ born'[h] = born[h]
  BY <1>1, <1>2
<1>4. \A h \in Slots \ {g} : Message(h)' = Message(h) /\ (Handled(h)' <=> Handled(h))
  BY <1>3 DEF Message, Handled
<1>5. ~Handled(g)'
  BY <1>3 DEF Handled
<1>6. InTime'
  <2>1. now <= now /\ now <= now + Deadline
    BY <1>1, DeadlineAssumption
  <2> QED BY <1>2, <1>3, <2>1 DEF PInv, InTime
<1>7. LetThrough'
  BY <1>2, <1>3, <1>4, <1>5 DEF PInv, LetThrough
<1>8. OneHandlerPerMessage'
  BY <1>3, <1>4 DEF PInv, OneHandlerPerMessage
<1> QED BY <1>6, <1>7, <1>8

LEMMA FreshKeeps ==
  ASSUME Ttl > Deadline, PInv, NEW g \in Slots, Fresh(g)
  PROVE  (InTime /\ LetThrough /\ OneHandlerPerMessage)'
<1> DEFINE m == Message(g)
<1>1. /\ at \in [Slots -> Places] /\ born \in [Slots -> Nat] /\ now \in Nat
      /\ \A h \in Slots : at[h] # "none" => event[h] \in Events
      /\ passedAt \in [Messages -> Nat \cup {-1}]
  BY DEF PInv, CInv, EventsKnown, DP!DInv, DP!TypeOK
<1>2. /\ at[g] = "dedup" /\ at' = [at EXCEPT ![g] = "limit"]
      /\ event' = event /\ born' = born /\ now' = now
  BY DEF Fresh, Go, D!Pass
<1>3. at'[g] = "limit" /\ \A h \in Slots \ {g} : at'[h] = at[h]
  BY <1>1, <1>2
<1>4. \A h \in Slots : Message(h)' = Message(h)
  BY <1>2 DEF Message
<1>5. \A h \in Slots \ {g} : Handled(h)' <=> Handled(h)
  BY <1>3, <1>4 DEF Handled
<1>6. InTime'
  BY <1>2, <1>3 DEF PInv, InTime
<1>7. CASE m # NoMessage /\ D!Pass(m)
  <2>1. m \in Messages
    BY <1>1, <1>2, <1>7, InfoType DEF Message
  <2>2. ~D!Remembered(m) /\ passedAt' = [passedAt EXCEPT ![m] = now]
    BY <1>7 DEF D!Pass
  <2>3. passedAt'[m] = now /\ \A x \in Messages : x # m => passedAt'[x] = passedAt[x]
    BY <1>1, <2>1, <2>2
  <2>4. \A h \in Slots : Handled(h) => Message(h) # m /\ Message(h) \in Messages
    <3>1. \A h \in Slots : Handled(h) => D!Remembered(Message(h))
      BY HandledIsRemembered DEF PInv
    <3>2. \A h \in Slots : Handled(h) => Message(h) \in Messages
      BY <1>1, InfoType DEF Handled, Message
    <3> HIDE DEF m
    <3> QED BY <2>2, <3>1, <3>2
  <2>5. LetThrough'
    <3>1. passedAt'[m] >= born[g]
      BY <1>1, <1>2, <2>3 DEF PInv, InTime
    <3>2. \A h \in Slots \ {g} : Handled(h) => passedAt'[Message(h)] >= born[h]
      BY <2>3, <2>4 DEF PInv, LetThrough
    <3> QED BY <1>2, <1>4, <1>5, <3>1, <3>2 DEF LetThrough
  <2>6. OneHandlerPerMessage'
    <3> SUFFICES ASSUME NEW i \in Slots, NEW j \in Slots, i # j,
                        at'[i] \notin {"none", "dedup"}, at'[j] \notin {"none", "dedup"},
                        Message(i) # NoMessage, Message(i) = Message(j)
                 PROVE  FALSE
      BY <1>4 DEF OneHandlerPerMessage
    <3>1. CASE i = g
      BY <1>3, <2>4, <3>1 DEF Handled
    <3>2. CASE j = g
      BY <1>3, <2>4, <3>2 DEF Handled
    <3>3. CASE i # g /\ j # g
      BY <1>3, <3>3 DEF PInv, OneHandlerPerMessage
    <3> QED BY <3>1, <3>2, <3>3
  <2> QED BY <1>6, <2>5, <2>6
<1>8. CASE m = NoMessage /\ UNCHANGED <<now, dedupVars>>
  <2>1. passedAt' = passedAt /\ (Handled(g)' => Handled(g))
    BY <1>4, <1>8 DEF dedupVars, Handled
  <2>2. at'[g] # "none" => at[g] # "none"
    BY <1>2
  <2> QED BY <1>2, <1>3, <2>1, <2>2, StaysTrue
<1> QED BY <1>7, <1>8 DEF Fresh

LEMMA PInvNext ==
  ASSUME Ttl > Deadline, PInv, [Next]_vars
  PROVE  (InTime /\ LetThrough /\ OneHandlerPerMessage)'
<1>0. at \in [Slots -> Places]
  BY DEF PInv, CInv, EventsKnown
<1>1. CASE Tick
  BY <1>1, TickKeeps
<1>2. ASSUME NEW g \in Slots, Fresh(g) PROVE (InTime /\ LetThrough /\ OneHandlerPerMessage)'
  BY <1>2, FreshKeeps
<1>3. ASSUME NEW g \in Slots, Duplicate(g) PROVE (InTime /\ LetThrough /\ OneHandlerPerMessage)'
  <2>1. /\ UNCHANGED <<now, event, born, passedAt>>
        /\ \A h \in Slots \ {g} : at'[h] = at[h]
        /\ at'[g] = "none"
    BY <1>0, <1>3 DEF Duplicate, Go, D!Drop, D!vars
  <2> QED BY <2>1, StaysTrue DEF Handled
<1>4. ASSUME NEW g \in Slots, Limit(g) PROVE (InTime /\ LetThrough /\ OneHandlerPerMessage)'
  <2>1. /\ UNCHANGED <<now, event, born, passedAt>>
        /\ \A h \in Slots \ {g} : at'[h] = at[h]
        /\ at[g] = "limit"
    BY <1>0, <1>4 DEF Limit, Go, dedupVars, L!OpenBucket, L!CountRequest, L!Deny, L!vars
  <2> QED BY <2>1, StaysTrue DEF Handled, Message
<1>5. ASSUME NEW g \in Slots, Gate(g) PROVE (InTime /\ LetThrough /\ OneHandlerPerMessage)'
  <2>1. /\ UNCHANGED <<now, event, born, passedAt>>
        /\ \A h \in Slots \ {g} : at'[h] = at[h]
        /\ at[g] = "gate"
    BY <1>0, <1>5 DEF Gate, Go, dedupVars
  <2> QED BY <2>1, StaysTrue DEF Handled, Message
<1>6. ASSUME NEW g \in Slots, HandlerEnds(g) PROVE (InTime /\ LetThrough /\ OneHandlerPerMessage)'
  <2>1. /\ UNCHANGED <<now, event, born, passedAt>>
        /\ \A h \in Slots \ {g} : at'[h] = at[h]
        /\ at'[g] = "none"
    BY <1>0, <1>6 DEF HandlerEnds, Go, dedupVars
  <2> QED BY <2>1, StaysTrue DEF Handled
<1>7. ASSUME NEW g \in Slots, NEW e \in Events, Deliver(g, e)
      PROVE  (InTime /\ LetThrough /\ OneHandlerPerMessage)'
  BY <1>7, DeliverKeeps
<1>8. CASE UNCHANGED vars
  <2>1. now' = now /\ passedAt' = passedAt /\ at' = at /\ event' = event /\ born' = born
    BY <1>8 DEF vars, dedupVars, slotVars
  <2>2. \A g \in Slots : Message(g)' = Message(g)
    BY <2>1 DEF Message
  <2> QED BY <2>1, <2>2 DEF PInv, InTime, LetThrough, OneHandlerPerMessage, Handled
<1> QED BY <1>1, <1>2, <1>3, <1>4, <1>5, <1>6, <1>7, <1>8 DEF Next, Step

(* Where a message is remembered longer than a goroutine may live, it is   *)
(* handled by one goroutine at a time (DedupMiddleware, and the deadline   *)
(* the transports give a handler).                                         *)
THEOREM MessageHandledOnceAtATime == Ttl > Deadline => (Spec => []OneHandlerPerMessage)
<1> SUFFICES ASSUME Ttl > Deadline PROVE Spec => []OneHandlerPerMessage
  OBVIOUS
<1>1. Init => InTime /\ LetThrough /\ OneHandlerPerMessage
  BY DEF Init, InTime, LetThrough, OneHandlerPerMessage, Handled
<1>2. PInv /\ [Next]_vars => (InTime /\ LetThrough /\ OneHandlerPerMessage)'
  BY PInvNext
<1>3. PInv <=> CInv /\ InTime /\ LetThrough /\ OneHandlerPerMessage
  BY DEF PInv
<1> QED BY <1>1, <1>2, <1>3, CInvariant, PTL DEF Spec

-----------------------------------------------------------------------------
(* What is dropped. *)

\* What got past the deduplicator was delivered.
LEMMA PassedNext ==
  ASSUME EventsKnown, passed \subseteq Events, [Next]_vars
  PROVE  (passed \subseteq Events)'
<1>1. CASE Tick
  BY <1>1 DEF Tick
<1>2. ASSUME NEW g \in Slots, Step(g) PROVE passed' \subseteq Events
  <2>1. CASE Fresh(g)
    <3>1. event[g] \in Events
      BY <2>1 DEF EventsKnown, Fresh, Go
    <3> QED BY <2>1, <3>1 DEF Fresh
  <2>2. CASE Duplicate(g) \/ Limit(g) \/ Gate(g) \/ HandlerEnds(g)
    BY <2>2 DEF Duplicate, Limit, Gate, HandlerEnds
  <2> QED BY <1>2, <2>1, <2>2 DEF Step
<1>3. ASSUME NEW g \in Slots, NEW e \in Events, Deliver(g, e) PROVE passed' \subseteq Events
  BY <1>3 DEF Deliver
<1>4. CASE UNCHANGED vars
  BY <1>4 DEF vars
<1> QED BY <1>1, <1>2, <1>3, <1>4 DEF Next

\* Every message that is remembered came with an event that got past.
SeenPassed == \A m \in DOMAIN seen : \E e \in passed : Info[e].message = m

LEMMA SeenPassedNext ==
  ASSUME EventsKnown, SeenPassed, [Next]_vars
  PROVE  SeenPassed'
<1>1. CASE UNCHANGED <<seen, passed>>
  BY <1>1 DEF SeenPassed
<1>2. ASSUME NEW g \in Slots, Fresh(g) PROVE SeenPassed'
  <2>1. passed' = passed \cup {event[g]}
    BY <1>2 DEF Fresh
  <2>2. CASE Message(g) # NoMessage /\ D!Pass(Message(g))
    <3>1. DOMAIN seen' \subseteq DOMAIN seen \cup {Message(g)}
      BY <2>2 DEF D!Pass, D!Retained
    <3> QED BY <2>1, <3>1 DEF SeenPassed, Message
  <2>3. CASE UNCHANGED <<now, dedupVars>>
    BY <2>1, <2>3 DEF SeenPassed, dedupVars
  <2> QED BY <1>2, <2>2, <2>3 DEF Fresh
<1>3. ASSUME NEW g \in Slots, Duplicate(g) \/ Limit(g) \/ Gate(g) \/ HandlerEnds(g)
      PROVE  UNCHANGED <<seen, passed>>
  BY <1>3 DEF Duplicate, Limit, Gate, HandlerEnds, D!Drop, D!vars, dedupVars
<1>4. ASSUME NEW g \in Slots, NEW e \in Events, Deliver(g, e) PROVE UNCHANGED <<seen, passed>>
  BY <1>4 DEF Deliver, dedupVars
<1>5. CASE Tick \/ UNCHANGED vars
  BY <1>1, <1>5 DEF Tick, D!Tick, vars, dedupVars
<1> QED BY <1>1, <1>2, <1>3, <1>4, <1>5 DEF Next, Step

LEMMA SeenPassedAlways == Spec => []SeenPassed
<1>1. Init => SeenPassed
  BY DEF Init, D!Init, SeenPassed
<1>2. CInv /\ SeenPassed /\ [Next]_vars => SeenPassed'
  BY SeenPassedNext DEF CInv
<1> QED BY <1>1, <1>2, CInvariant, PTL DEF Spec

\* An event with the message of g got past, and less than a TTL ago.
SeenLately(g) ==
    /\ \E e \in passed : Info[e].message = Message(g)
    /\ passedAt[Message(g)] >= 0 /\ now < passedAt[Message(g)] + Ttl

(* Nothing is dropped as a duplicate but what carries a message ID that    *)
(* got past less than a TTL ago, however the map was filled and emptied in *)
(* between ("filters duplicate messages", DedupMiddleware).                *)
THEOREM DropsAreDuplicates == Spec => [][\A g \in Slots : Duplicate(g) => SeenLately(g)]_vars
<1>1. ASSUME CInv, SeenPassed, NEW g \in Slots, Duplicate(g) PROVE SeenLately(g)
  <2>1. Message(g) \in DOMAIN seen /\ now < seen[Message(g)] + Ttl
    BY <1>1 DEF Duplicate, D!Drop, D!Remembered
  <2>2. seen[Message(g)] = passedAt[Message(g)] /\ seen[Message(g)] >= 0
    BY <1>1, <2>1 DEF CInv, DP!DInv, DP!TypeOK, DP!Remembers
  <2> QED BY <1>1, <2>1, <2>2 DEF SeenPassed, SeenLately
<1>2. CInv /\ SeenPassed /\ [Next]_vars => [\A g \in Slots : Duplicate(g) => SeenLately(g)]_vars
  BY <1>1
<1> QED BY <1>2, CInvariant, SeenPassedAlways, PTL DEF Spec

\* Different events have different messages: two clicks on one card have not.
OwnMessages ==
    \A e, f \in Events : Info[e].message = Info[f].message /\ Info[e].message # NoMessage => e = f

(* So the comment is right of events that have message IDs of their own:   *)
(* only what got past before is dropped, and clicks on cards, which bring  *)
(* the ID of the card, are the one exception (DedupMiddleware).            *)
THEOREM OnlyRedeliveriesDropped == OwnMessages => (Spec => OnlyDuplicatesDropped)
<1> SUFFICES ASSUME OwnMessages PROVE Spec => OnlyDuplicatesDropped
  OBVIOUS
<1>1. ASSUME CInv, SeenPassed, passed \subseteq Events, NEW g \in Slots, Duplicate(g)
      PROVE  event[g] \in passed
  <2>1. PICK e \in passed : Info[e].message = Message(g)
    BY <1>1 DEF Duplicate, D!Drop, D!Remembered, SeenPassed
  <2>2. event[g] \in Events /\ Message(g) # NoMessage
    BY <1>1 DEF Duplicate, Go, CInv, EventsKnown
  <2>3. e = event[g]
    BY <1>1, <2>1, <2>2 DEF OwnMessages, Message
  <2> QED BY <2>1, <2>3
<1>2. /\ Init => passed \subseteq Events
      /\ CInv /\ passed \subseteq Events /\ [Next]_vars => (passed \subseteq Events)'
  BY PassedNext DEF Init, CInv
<1>3. CInv /\ SeenPassed /\ passed \subseteq Events /\ [Next]_vars
        => [\A g \in Slots : Duplicate(g) => event[g] \in passed]_vars
  BY <1>1
<1> QED BY <1>2, <1>3, CInvariant, SeenPassedAlways, PTL DEF Spec, OnlyDuplicatesDropped

-----------------------------------------------------------------------------
(* The types of the whole chain. *)

(* The state of the chain has its types, if there are any events at all    *)
(* (the middleware and the two stores it uses).                            *)
THEOREM ChainTypesCorrect == Events # {} => (Spec => []TypeOK)
<1> SUFFICES ASSUME Events # {} PROVE Spec => []TypeOK
  OBVIOUS
<1>1. Init => passed \subseteq Events
  BY DEF Init
<1>2. CInv /\ passed \subseteq Events /\ [Next]_vars => (passed \subseteq Events)'
  BY PassedNext DEF CInv
<1>3. CInv /\ passed \subseteq Events => TypeOK
  <2> SUFFICES ASSUME CInv, passed \subseteq Events PROVE TypeOK
    OBVIOUS
  <2>1. D!TypeOK
    BY DEF CInv, DP!DInv, DP!TypeOK, D!TypeOK
  <2>2. L!TypeOK
    BY DEF CInv, LP!LInv, LP!TypeOK, L!TypeOK, LP!Bucket, L!Bucket
  <2>3. (CHOOSE e \in Events : TRUE) \in Events
    OBVIOUS
  <2>4. at \in [Slots -> Places] /\ event \in [Slots -> Events] /\ born \in [Slots -> Nat]
    BY <2>3 DEF CInv, EventsKnown
  <2> QED BY <2>1, <2>2, <2>4 DEF TypeOK
<1> QED BY <1>1, <1>2, <1>3, CInvariant, PTL DEF Spec
=============================================================================
