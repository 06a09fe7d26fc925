----------------------------- MODULE PartsProofs -----------------------------
(***************************************************************************)
(* The parts, for any values of their constants.  A step of the            *)
(* composition is a step of one part and leaves the others alone, so what  *)
(* holds of a part by itself holds of it here.                             *)
(***************************************************************************)
EXTENDS Parts, WellFoundedInduction, TLAPS

RP == INSTANCE RedactionProofs

LEMMA OnePart ==
  ASSUME [Next]_vars
  PROVE  /\ [R!Next]_redactionVars /\ [W!Next]_webhookVars /\ [S!Next]_startupVars
         /\ [O!Next]_routerVars /\ [I!Next]_conversationVars
BY DEF Next, vars, RedactionStep, WebhookStep, StartupStep, RouterStep, ConversationStep

-----------------------------------------------------------------------------
(* Redaction. *)

LEMMA RedactionAssumption == RP!SchemasAssumption
BY PartsAssumption DEF R!SchemasAssumption, RP!SchemasAssumption

LEMMA RedactionStepImplemented ==
  ASSUME [R!Next]_redactionVars
  PROVE  [RP!Next]_(RP!vars)
<1> USE DEF RP!Next, RP!Scan, RP!Walk
<1>1. ASSUME NEW s \in Schemas, R!Register(s) PROVE RP!Next
  BY <1>1 DEF R!Register, RP!Register
<1>2. ASSUME NEW t \in Types, R!ScanFile(t) PROVE RP!Next
  BY <1>2 DEF R!ScanFile, RP!ScanFile, R!Enter, RP!Enter, R!Visited, RP!Visited, R!Fields, RP!Fields
<1>3. ASSUME NEW t \in Types, R!Return(t) PROVE RP!Next
  BY <1>3 DEF R!Return, RP!Return, R!Rest, RP!Rest, R!Visited, RP!Visited
<1>4. ASSUME NEW t \in Types, R!Call(t) PROVE RP!Next
  BY <1>4 DEF R!Call, RP!Call, R!Enter, RP!Enter, R!Rest, RP!Rest, R!Visited, RP!Visited,
             R!Fields, RP!Fields
<1>5. CASE R!Conclude
  BY <1>5 DEF R!Conclude, RP!Conclude, R!HasAny, RP!HasAny, R!Sensitive, RP!Sensitive
<1>6. CASE R!Leave
  BY <1>6 DEF R!Leave, RP!Leave
<1>7. ASSUME NEW t \in Types, R!Log(t) PROVE RP!Next
  BY <1>7 DEF R!Log, RP!Log, R!Indexed, RP!Indexed
<1>8. ASSUME NEW t \in Types, R!Into(t) PROVE RP!Next
  BY <1>8 DEF R!Into, RP!Into
<1>9. ASSUME NEW t \in Types, R!IntoMany(t) PROVE RP!Next
  BY <1>9 DEF R!IntoMany, RP!IntoMany
<1> QED BY <1>1, <1>2, <1>3, <1>4, <1>5, <1>6, <1>7, <1>8, <1>9
        DEF R!Next, R!Scan, R!Walk, redactionVars, RP!vars

LEMMA RedactionInvariant == Spec => []RP!RInv
<1>1. Init => RP!Init
  BY DEF Init, R!Init, RP!Init, R!NoWalk, RP!NoWalk
<1>2. [Next]_vars => [RP!Next]_(RP!vars)
  BY OnePart, RedactionStepImplemented
<1>3. RP!Init /\ [][RP!Next]_(RP!vars) => []RP!RInv
  BY RedactionAssumption, RP!RInvAlways
<1> QED BY <1>1, <1>2, <1>3, PTL DEF Spec

\* Sensitive text is blanked in the log wherever singular fields lead to it,
\* for any message types without recursion (MarshalRedactedBytes).
THEOREM RedactionMasks == Spec => []SensitiveMasked
<1>1. RP!RInv => SensitiveMasked
  BY RedactionAssumption, RP!RInvMasks
     DEF RP!SensitiveMasked, SensitiveMasked, R!SensitiveMasked, RP!Acyclic, R!Acyclic,
         RP!Children, R!Children, RP!Fields, R!Fields
<1> QED BY <1>1, RedactionInvariant, PTL

\* The index of redacted types names none in vain, whatever the types
\* (scanMessage).
THEOREM RedactionIndexSound == Spec => []IndexSound
<1>1. RP!RInv => IndexSound
  BY DEF RP!RInv, RP!IndexSound, IndexSound, R!IndexSound, RP!Sensitive, R!Sensitive
<1> QED BY <1>1, RedactionInvariant, PTL

-----------------------------------------------------------------------------
(* The webhook. *)

Passed(r) == pc[r] \in {"reads", "filters", "done"}

\* Who is fetching holds the mutex; the ID is written once; a request goes on
\* only when the ID is known or its own call failed; and what the filter
\* decided about the requests that are done.
WInv ==
    /\ pc \in [W!Callers -> W!Places] /\ failed \subseteq Requests
    /\ delivery \in [Requests -> Deliveries]
    /\ selfMu \in W!Callers \cup {NoCaller} /\ handlerMu \in Requests \cup {NoCaller}
    /\ status \in [Requests -> {0, 200, 400, 401}]
    /\ selfResolved \in BOOLEAN /\ handlerResolved \in BOOLEAN
    /\ selfId \in {Self, NoUser} /\ (~selfResolved => selfId = NoUser)
    /\ \A c \in W!Callers : pc[c] = "fetches" => selfMu = c /\ ~selfResolved
    /\ handlerResolved => selfResolved
    /\ \A r \in Requests : Passed(r) => selfResolved \/ r \in failed
    /\ dispatched \subseteq {r \in Requests : pc[r] = "done"}
    /\ W!FilteredExactly

LEMMA WebhookAssumption ==
  /\ Requests \subseteq W!Callers /\ Others \subseteq W!Callers
  /\ Deliveries # {} /\ {"garbage", "noMessage"} \cap Users = {}
  /\ Self \in Users /\ Self # NoUser /\ NoCaller \notin W!Callers /\ Requests \cap Others = {}
BY PartsAssumption DEF W!DeliveriesAssumption, W!Callers

LEMMA WInvInit == Init => WInv
<1> SUFFICES ASSUME W!Init PROVE WInv
  BY DEF Init
<1>1. delivery \in [Requests -> Deliveries]
  BY WebhookAssumption DEF W!Init
<1> QED BY <1>1, WebhookAssumption DEF W!Init, WInv, W!Places, W!FilteredExactly, Passed

LEMMA WInvGo ==
  ASSUME WInv, NEW r \in Requests
  PROVE  /\ \A d \in Deliveries : W!Arrive(r, d) => WInv'
         /\ W!LockHandler(r) => WInv'
<1> USE WebhookAssumption DEF WInv, W!Places, W!Go, Passed, W!FilteredExactly, W!Nameless
<1>1. ASSUME NEW d \in Deliveries, W!Arrive(r, d) PROVE WInv'
  BY <1>1 DEF W!Arrive, W!lockVars, W!selfVars
<1>2. ASSUME W!LockHandler(r) PROVE WInv'
  BY <1>2 DEF W!LockHandler, W!selfVars, W!requestVars
<1> QED BY <1>1, <1>2

LEMMA WInvResolve ==
  ASSUME WInv, NEW c \in W!Callers, W!Resolve(c)
  PROVE  WInv'
<1> USE WebhookAssumption DEF WInv, W!Places, W!Go, Passed, W!FilteredExactly, W!Nameless, W!Callers
<1>1. CASE W!Known(c)
  BY <1>1 DEF W!Known, W!Returned, W!Released, W!requestVars
<1>2. CASE W!Fetch(c)
  BY <1>2 DEF W!Fetch, W!selfVars, W!requestVars, W!Free
<1>3. CASE W!Profile(c)
  BY <1>3 DEF W!Profile, W!Returned, W!Released, W!requestVars
<1>4. CASE W!ProfileFails(c)
  BY <1>4 DEF W!ProfileFails, W!Returned, W!Released, W!requestVars
<1> QED BY <1>1, <1>2, <1>3, <1>4 DEF W!Resolve

LEMMA WInvAnswer ==
  ASSUME WInv, NEW r \in Requests, W!Answer(r)
  PROVE  WInv'
<1> DEFINE d == delivery[r]
           code == W!Verdict(d)
<1>1. W!Good(d) => code = 200 /\ d.content \in Users
  BY WebhookAssumption DEF W!Good, W!Verdict
<1>2. code \in {0, 200, 400, 401}
  BY DEF W!Verdict
<1> DEFINE to == IF code = 200 /\ d.content \in Users THEN "filters" ELSE "done"
<1>3. /\ pc[r] = "reads" /\ pc' = [pc EXCEPT ![r] = to]
      /\ status' = [status EXCEPT ![r] = code]
      /\ UNCHANGED <<W!lockVars, W!selfVars, delivery, dispatched>>
  BY DEF W!Answer, W!Go
<1>4. to \in {"filters", "done"} /\ (to = "done" => ~W!Good(d))
  BY <1>1
<1> HIDE DEF to, code
<1>5. /\ pc' \in [W!Callers -> W!Places] /\ pc'[r] = to
      /\ \A c \in W!Callers : c # r => pc'[c] = pc[c]
      /\ status' \in [Requests -> {0, 200, 400, 401}]
  BY <1>2, <1>3, <1>4, WebhookAssumption DEF WInv, W!Places
<1>6. W!FilteredExactly'
  <2> SUFFICES ASSUME NEW q \in Requests, pc'[q] = "done", W!Good(delivery[q])
               PROVE  /\ q \in dispatched /\ delivery[q].content = Self => q \in failed \/ W!Nameless
                      /\ q \notin dispatched /\ delivery[q].content # Self =>
                            (q \in failed \/ W!Nameless) /\ delivery[q].content = NoUser
    BY <1>3 DEF W!FilteredExactly, W!Nameless, W!selfVars, W!Good, W!Verified
  <2>1. q # r
    BY <1>4, <1>5
  <2> QED BY <1>5, <2>1, WebhookAssumption DEF WInv, W!FilteredExactly
<1> QED BY <1>3, <1>4, <1>5, <1>6, WebhookAssumption DEF WInv, Passed, W!lockVars, W!selfVars

LEMMA WInvFilter ==
  ASSUME WInv, NEW r \in Requests, W!Filter(r)
  PROVE  WInv'
BY WebhookAssumption DEF WInv, W!Places, W!Go, Passed, W!FilteredExactly, W!Nameless, W!Callers,
   W!Filter, W!Readable, W!lockVars, W!selfVars

LEMMA WInvAlways == Spec => []WInv
<1>1. Init => WInv
  BY WInvInit
<1>2. WInv /\ [Next]_vars => WInv'
  <2> SUFFICES ASSUME WInv, [Next]_vars PROVE WInv'
    OBVIOUS
  <2>1. [W!Next]_webhookVars
    BY OnePart
  <2>2. CASE UNCHANGED webhookVars
    BY <2>2 DEF webhookVars, WInv, Passed, W!FilteredExactly, W!Nameless, W!Good, W!Verified
  <2>3. ASSUME NEW r \in Requests, W!Serve(r) PROVE WInv'
    BY <2>3, WInvGo, WInvResolve, WInvAnswer, WInvFilter, WebhookAssumption DEF W!Serve
  <2>4. ASSUME NEW c \in Others, W!Ask(c) PROVE WInv'
    BY <2>4, WebhookAssumption
       DEF W!Ask, W!Go, W!Places, WInv, Passed, W!FilteredExactly, W!Nameless, W!lockVars, W!selfVars,
           W!requestVars
  <2> QED BY <2>1, <2>2, <2>3, <2>4, WInvGo, WInvResolve, WebhookAssumption DEF W!Next
<1> QED BY <1>1, <1>2, PTL DEF Spec

\* The webhook drops the agent's own updates, and others' never, except by a
\* request whose own attempt to learn the agent's ID failed, or after an answer
\* without an ID, for any number of requests and other callers
\* (webhookHandler.ServeHTTP).
THEOREM WebhookFiltersExactly == Spec => []FilteredExactly
<1>1. WInv => FilteredExactly
  BY DEF WInv, FilteredExactly
<1> QED BY <1>1, WInvAlways, PTL

\* However many callers ask for the agent's ID at once, one of them fetches
\* it, until it is known, and nobody afterwards (Client.SelfUserID).
THEOREM SelfIdFetchedOnce == Spec => []OneFetch
<1>1. WInv => OneFetch
  BY DEF WInv, OneFetch, W!OneFetch
<1> QED BY <1>1, WInvAlways, PTL

\* Who holds the client's mutex is fetching the ID; who holds the handler's
\* asks for the ID, in a request, and nobody else does.
LocksHeld ==
    /\ selfMu # NoCaller => selfMu \in W!Callers /\ pc[selfMu] = "fetches"
    /\ \A r \in Requests : handlerMu = r <=> pc[r] \in {"asks", "fetches"}

UnderWay(c) == pc[c] \notin {"idle", "done"}

\* A call that waits for no mutex.
GoesOn(c) ==
    \/ pc[c] \in {"fetches", "reads", "filters"}
    \/ pc[c] = "arrived" /\ W!Free(handlerMu)
    \/ pc[c] = "asks" /\ W!Free(selfMu)

SomebodyGoesOn ==
    (\E c \in W!Callers : UnderWay(c)) => \E c \in W!Callers : UnderWay(c) /\ GoesOn(c)

LEMMA LocksHeldResolve ==
  ASSUME WInv, LocksHeld, NEW c \in W!Callers, W!Resolve(c)
  PROVE  LocksHeld'
<1> USE WebhookAssumption DEF WInv, LocksHeld, W!Places, W!Go, W!Callers
<1>1. CASE W!Known(c)
  BY <1>1 DEF W!Known, W!Returned, W!Released, W!requestVars, W!Free
<1>2. CASE W!Fetch(c)
  BY <1>2 DEF W!Fetch, W!selfVars, W!requestVars, W!Free
<1>3. CASE W!Profile(c)
  BY <1>3 DEF W!Profile, W!Returned, W!Released, W!requestVars
<1>4. CASE W!ProfileFails(c)
  BY <1>4 DEF W!ProfileFails, W!Returned, W!Released, W!requestVars
<1> QED BY <1>1, <1>2, <1>3, <1>4 DEF W!Resolve

LEMMA LocksHeldServe ==
  ASSUME WInv, LocksHeld, NEW r \in Requests, W!Serve(r) \/ \E d \in Deliveries : W!Arrive(r, d)
  PROVE  LocksHeld'
<1> USE WebhookAssumption DEF WInv, LocksHeld, W!Places, W!Go
<1>1. ASSUME NEW d \in Deliveries, W!Arrive(r, d) PROVE LocksHeld'
  BY <1>1 DEF W!Arrive, W!lockVars
<1>2. CASE W!LockHandler(r)
  BY <1>2 DEF W!LockHandler
<1>3. CASE W!Answer(r)
  <2> DEFINE to == IF W!Verdict(delivery[r]) = 200 /\ delivery[r].content \in Users
                     THEN "filters" ELSE "done"
  <2>1. to \in {"filters", "done"}
    OBVIOUS
  <2>2. pc[r] = "reads" /\ pc' = [pc EXCEPT ![r] = to] /\ UNCHANGED <<handlerMu, selfMu>>
    BY <1>3 DEF W!Answer, W!lockVars
  <2> HIDE DEF to
  <2> QED BY <2>1, <2>2
<1>4. CASE W!Filter(r)
  BY <1>4 DEF W!Filter, W!lockVars
<1> QED BY <1>1, <1>2, <1>3, <1>4, LocksHeldResolve DEF W!Serve

LEMMA LocksHeldAlways == Spec => []LocksHeld
<1>1. Init => LocksHeld
  BY WebhookAssumption DEF Init, W!Init, LocksHeld
<1>2. WInv /\ LocksHeld /\ [Next]_vars => LocksHeld'
  <2> SUFFICES ASSUME WInv, LocksHeld, [Next]_vars PROVE LocksHeld'
    OBVIOUS
  <2>1. [W!Next]_webhookVars
    BY OnePart
  <2>2. CASE UNCHANGED webhookVars
    BY <2>2 DEF webhookVars, LocksHeld
  <2>3. ASSUME NEW c \in Others, W!Ask(c) PROVE LocksHeld'
    BY <2>3, WebhookAssumption DEF W!Ask, W!Go, W!Places, WInv, LocksHeld, W!lockVars
  <2> QED BY <2>1, <2>2, <2>3, LocksHeldServe, LocksHeldResolve, WebhookAssumption DEF W!Next
<1> QED BY <1>1, <1>2, WInvAlways, PTL DEF Spec

\* Requests wait for each other and for whoever else asks for the agent's ID,
\* with one mutex held while another is taken; but as long as a call is under
\* way some call waits for nobody, however lookups fail
\* (webhookHandler.ServeHTTP, Client.SelfUserID).
THEOREM LookupsNeverDeadlock == Spec => []SomebodyGoesOn
<1>1. WInv /\ LocksHeld => SomebodyGoesOn
  <2> SUFFICES ASSUME WInv, LocksHeld, NEW c \in W!Callers, UnderWay(c)
               PROVE  \E d \in W!Callers : UnderWay(d) /\ GoesOn(d)
    BY DEF SomebodyGoesOn
  <2>1. CASE selfMu # NoCaller
    BY <2>1 DEF LocksHeld, UnderWay, GoesOn
  <2>2. CASE selfMu = NoCaller /\ pc[c] # "arrived"
    BY <2>2 DEF WInv, W!Places, UnderWay, GoesOn, W!Free
  <2>3. CASE selfMu = NoCaller /\ pc[c] = "arrived"
    <3>1. CASE handlerMu = NoCaller
      BY <2>3, <3>1 DEF UnderWay, GoesOn, W!Free
    <3>2. CASE handlerMu # NoCaller
      <4>1. handlerMu \in Requests /\ pc[handlerMu] \in {"asks", "fetches"}
        BY <3>2 DEF WInv, LocksHeld
      <4> QED BY <2>3, <4>1, WebhookAssumption DEF UnderWay, GoesOn, W!Free
    <3> QED BY <3>1, <3>2
  <2> QED BY <2>1, <2>2, <2>3
<1> QED BY <1>1, WInvAlways, LocksHeldAlways, PTL

-----------------------------------------------------------------------------
(* The first and the last of a set of places of a sequence. *)

LEMMA LeastNat ==
  ASSUME NEW T, T \subseteq Nat, T # {}
  PROVE  O!Min(T) \in T /\ \A m \in T : O!Min(T) <= m
<1>1. IsWellFoundedOn(OpToRel(<, Nat), Nat)
  BY NatLessThanWellFounded
<1>2. PICK n \in T : \A m \in T : ~(<<m, n>> \in OpToRel(<, Nat))
  BY <1>1, WFMin
<1>3. \A m \in T : ~(m < n)
  BY <1>2 DEF OpToRel
<1>4. \A m \in T : n <= m
  BY <1>3
<1> QED BY <1>4 DEF O!Min

LEMMA GreatestPlace ==
  ASSUME NEW n \in Nat, NEW T, T \subseteq 1 .. n, T # {}
  PROVE  O!Max(T) \in T /\ \A m \in T : O!Max(T) >= m
<1> DEFINE U == {n - i : i \in T}
<1>1. U \subseteq Nat
  BY \A i \in T : n - i \in Nat
<1>2. U # {}
  OBVIOUS
<1> DEFINE k == O!Min(U)
<1>3. k \in U /\ \A m \in U : k <= m
  BY <1>1, <1>2, LeastNat
<1> HIDE DEF k
<1>4. PICK j \in T : k = n - j
  BY <1>3
<1>5. \A m \in T : k <= n - m
  BY <1>3
<1> HIDE DEF U
<1>6. \A m \in T : j >= m
  BY <1>4, <1>5
<1> QED BY <1>6 DEF O!Max

\* The first of some places stays the first when one is added at the end.
LEMMA FirstStays ==
  ASSUME NEW n \in Nat, NEW T, T \subseteq 1 .. n, T # {}
  PROVE  O!Min(T \cup {n + 1}) = O!Min(T)
<1> DEFINE T1 == T \cup {n + 1}
           first == O!Min(T)
           first1 == O!Min(T1)
<1>1. first \in T /\ \A m \in T : first <= m
  <2>1. T \subseteq Nat
    OBVIOUS
  <2> QED BY <2>1, LeastNat
<1>2. T1 \subseteq Nat /\ T1 # {}
  OBVIOUS
<1>3. first1 \in T1 /\ \A m \in T1 : first1 <= m
  BY <1>2, LeastNat
<1> HIDE DEF first, first1
<1>4. first \in T1 /\ first1 <= first /\ first < n + 1
  BY <1>1, <1>3
<1>5. first1 \in T
  BY <1>3, <1>4
<1>6. first <= first1
  BY <1>1, <1>5
<1>7. first1 = first
  BY <1>1, <1>4, <1>5, <1>6
<1> QED BY <1>7 DEF first, first1

LEMMA FirstAlone ==
  ASSUME NEW n \in Nat
  PROVE  O!Min({n}) = n /\ O!Max({n}) = n
BY DEF O!Min, O!Max

\* One that is added at the end is the last.
LEMMA LastAdded ==
  ASSUME NEW n \in Nat, NEW T, T \subseteq 1 .. n
  PROVE  O!Max(T \cup {n + 1}) = n + 1
<1> DEFINE T1 == T \cup {n + 1}
           last == O!Max(T1)
<1>1. T1 \subseteq 1 .. (n + 1) /\ T1 # {} /\ n + 1 \in T1
  OBVIOUS
<1>2. last \in T1 /\ \A m \in T1 : last >= m
  <2>1. n + 1 \in Nat
    OBVIOUS
  <2> HIDE DEF T1
  <2> QED BY <1>1, <2>1, GreatestPlace
<1> HIDE DEF last
<1>3. last >= n + 1
  BY <1>1, <1>2
<1>4. last \in 1 .. (n + 1)
  BY <1>1, <1>2
<1>5. last = n + 1
  BY <1>3, <1>4
<1> QED BY <1>5 DEF last

-----------------------------------------------------------------------------
(* The start of a program. *)

\* The registry is built from a configuration that was found valid, and only
\* of providers that could be built.
SInv ==
    /\ stage \in {"registry", "ready"} =>
          \A m \in DOMAIN cfg.models : cfg.models[m].provider \in DOMAIN cfg.providers
    /\ stage \notin {"registry", "ready", "failed"} => DOMAIN registry = {}
    /\ stage \in {"registry", "ready"} =>
          \A n \in DOMAIN registry : registry[n] = cfg.providers[n].type /\ registry[n] \in Supported
    /\ stage = "ready" => DOMAIN registry = DOMAIN cfg.providers

LEMMA SInvInit == Init => SInv
BY PartsAssumption DEF Init, S!Init, SInv, S!StartupAssumption

LEMMA SInvNext == SInv /\ [S!Next]_startupVars => SInv'
<1> SUFFICES ASSUME SInv, [S!Next]_startupVars PROVE SInv'
  OBVIOUS
<1> USE DEF SInv, S!Go, S!Fails
<1>1. ASSUME NEW w \in Worlds, S!Start(w) PROVE SInv'
  BY <1>1 DEF S!Start
<1>2. CASE S!Resolve
  BY <1>2 DEF S!Resolve
<1>3. CASE S!Load
  BY <1>3 DEF S!Load
<1>4. CASE S!Parse
  BY <1>4 DEF S!Parse
<1>5. CASE S!Overlay
  <2>1. stage = "overlay" /\ stage' \in {"validate", "failed"} /\ registry' = registry
    BY <1>5 DEF S!Overlay
  <2> QED BY <2>1
<1>6. CASE S!Validate
  <2>1. CASE S!Valid(S!WithDefaults(cfg))
    <3>1. /\ stage = "validate" /\ stage' = "registry" /\ registry' = registry
          /\ S!Valid(cfg')
      BY <1>6, <2>1 DEF S!Validate
    <3> QED BY <3>1 DEF S!Valid
  <2>2. CASE ~S!Valid(S!WithDefaults(cfg))
    BY <1>6, <2>2 DEF S!Validate
  <2> QED BY <2>1, <2>2
<1>7. ASSUME NEW n \in Names, S!NewProvider(n) PROVE SInv'
  BY <1>7 DEF S!NewProvider
<1>8. CASE S!NewProviderFails
  BY <1>8 DEF S!NewProviderFails
<1>9. CASE S!Ready
  BY <1>9 DEF S!Ready
<1>10. CASE UNCHANGED startupVars
  BY <1>10 DEF startupVars
<1> QED BY <1>1, <1>2, <1>3, <1>4, <1>5, <1>6, <1>7, <1>8, <1>9, <1>10 DEF S!Next

\* Whatever files, secrets and overlays a program is started with, once it is
\* up every model it is configured with has a provider, of the configured and
\* a supported type (LoadAs, Config.Validate, NewRegistry).
THEOREM ModelsResolve == Spec => []EveryModelResolves
<1>1. SInv => EveryModelResolves
  BY DEF SInv, EveryModelResolves, S!EveryModelResolves, S!ModelType
<1>2. SInv /\ [Next]_vars => SInv'
  BY OnePart, SInvNext
<1> QED BY <1>1, <1>2, SInvInit, PTL DEF Spec

\* What a valid start has found out so far: the source is the one the
\* documented order names, its text that of the base layer, and the local file
\* is there and parses, or is not there.
Sourced == source = S!Candidate(world) /\ source.kind # "none" /\ world \in Worlds
Read == Sourced /\ text = S!Contents(source) /\ text.state = "text"
LocalSound ==
    LET local == S!LocalText(source)
    IN  local.state = "absent" \/ (local.state = "text" /\ local.syntax # "neither")

\* A setting as the local file and the base have it.
Merged(s) ==
    LET local == S!LocalText(source)
        base == text.config.settings[s]
    IN  IF local.state = "text" /\ local.config.settings[s] # Zero
          THEN local.config.settings[s] ELSE base

LInv ==
    /\ stage # "none" => world \in Worlds
    /\ stage = "load" => Sourced
    /\ stage \in {"parse", "overlay"} => Read
    /\ stage \in {"validate", "registry", "ready"} => Read /\ LocalSound
    /\ stage = "overlay" => cfg = text.config
    /\ stage = "validate" => \A s \in Settings : cfg.settings[s] = Merged(s)
    /\ stage \in {"registry", "ready"} =>
          \A s \in Settings : cfg.settings[s] = IF Merged(s) = Zero THEN Default[s] ELSE Merged(s)

LEMMA StartupFacts ==
  /\ Worlds \subseteq S!World /\ DefaultPaths \in Seq(Paths)
  /\ Zero \notin Values /\ Unset \notin Names \cup Paths \cup Values
  /\ Default \in [Settings -> Values \cup {Zero}] /\ Supported \subseteq Names
  /\ Nothing \in S!Config
BY PartsAssumption DEF S!StartupAssumption

LEMMA FirstOf ==
  ASSUME NEW T, T \subseteq Nat, T # {}
  PROVE  S!Min(T) \in T /\ \A m \in T : S!Min(T) <= m
<1>1. S!Min(T) = O!Min(T)
  BY DEF S!Min, O!Min
<1> QED BY <1>1, LeastNat

LEMMA FirstIs ==
  ASSUME NEW T, T \subseteq Nat, NEW n \in T, \A m \in T : n <= m
  PROVE  S!Min(T) = n
<1>1. S!Min(T) \in T /\ \A m \in T : S!Min(T) <= m
  BY FirstOf
<1>2. S!Min(T) <= n /\ n <= S!Min(T)
  BY <1>1
<1>3. S!Min(T) \in Nat /\ n \in Nat
  BY <1>1
<1> QED BY <1>2, <1>3

\* The first fallback that is not nil is that of AWS, if it is given, and else
\* the first of the caller's.
LEMMA FirstGiven ==
  ASSUME NEW w \in S!World
  PROVE  LET given == {i \in DOMAIN w.fallback : w.fallback[i].kind # "none"}
         IN  IF w.region /\ w.secretName
               THEN S!Given(w) # {} /\ S!Fallbacks(w)[S!Min(S!Given(w))] = S!SourceFromFlags(w)
               ELSE /\ S!Given(w) # {} <=> given # {}
                    /\ given # {} =>
                         /\ S!Fallbacks(w)[S!Min(S!Given(w))] = w.fallback[S!Min(given)]
                         /\ w.fallback[S!Min(given)] \in S!Fallback
                         /\ w.fallback[S!Min(given)].kind # "none"
<1> DEFINE n == Len(w.fallback)
           given == {i \in DOMAIN w.fallback : w.fallback[i].kind # "none"}
           F == S!Fallbacks(w)
           G == S!Given(w)
<1>1. w.fallback \in Seq(S!Fallback) /\ n \in Nat /\ DOMAIN w.fallback = 1 .. n
  BY DEF S!World
<1>2. DOMAIN F = 1 .. (n + 1) /\ F[1] = S!SourceFromFlags(w)
  BY <1>1 DEF S!Fallbacks
<1>3. \A i \in 1 .. n : F[i + 1] = w.fallback[i]
  BY <1>1 DEF S!Fallbacks
<1>4. G = {i \in 1 .. (n + 1) : F[i].kind # "none"} /\ given = {i \in 1 .. n : w.fallback[i].kind # "none"}
  BY <1>1, <1>2 DEF S!Given
<1>5. G \subseteq Nat /\ given \subseteq Nat
  BY <1>1, <1>4
<1>6. CASE w.region /\ w.secretName
  <2>1. F[1].kind = "secret"
    BY <1>2, <1>6 DEF S!SourceFromFlags
  <2>2. 1 \in G /\ \A m \in G : 1 <= m
    BY <1>1, <1>4, <2>1
  <2>3. S!Min(G) = 1
    BY <1>5, <2>2, FirstIs
  <2> QED BY <1>2, <1>6, <2>2, <2>3
<1>7. CASE ~(w.region /\ w.secretName)
  <2>1. F[1].kind = "none"
    BY <1>2, <1>7 DEF S!SourceFromFlags, S!NoSource
  <2>2. ASSUME NEW i \in given PROVE i + 1 \in G /\ F[i + 1] = w.fallback[i]
    BY <1>1, <1>3, <1>4
  <2>3. ASSUME NEW j \in G PROVE j - 1 \in given /\ j \in Nat
    <3>1. j \in 1 .. (n + 1) /\ F[j].kind # "none"
      BY <1>4
    <3>2. j # 1
      BY <2>1, <3>1
    <3>3. j - 1 \in 1 .. n /\ (j - 1) + 1 = j
      BY <1>1, <3>1, <3>2
    <3> QED BY <1>3, <1>4, <3>1, <3>3
  <2>4. CASE given = {}
    BY <1>7, <2>3, <2>4
  <2>5. CASE given # {}
    <3> DEFINE first == S!Min(given)
    <3>1. first \in given /\ \A m \in given : first <= m
      BY <1>5, <2>5, FirstOf
    <3> HIDE DEF first
    <3>2. first \in 1 .. n
      BY <1>4, <3>1
    <3>3. first + 1 \in G /\ F[first + 1] = w.fallback[first]
      BY <2>2, <3>1
    <3>4. ASSUME NEW j \in G PROVE first + 1 <= j
      BY <1>1, <2>3, <3>1, <3>2
    <3>5. S!Min(G) = first + 1
      BY <1>5, <3>3, <3>4, FirstIs
    <3>6. w.fallback[first] \in S!Fallback /\ w.fallback[first].kind # "none"
      BY <1>1, <1>4, <3>1, <3>2
    <3> HIDE DEF G, F, given
    <3> QED BY <1>7, <2>5, <3>3, <3>5, <3>6 DEF G, F, given, first
  <2> QED BY <2>4, <2>5
<1> QED BY <1>6, <1>7

LEMMA TextTypes ==
  /\ S!NoText \in S!Text
  /\ \A w \in S!World, q \in Paths : w.files[q] \in S!Text /\ w.locals[q] \in S!Text
  /\ \A w \in S!World : S!SecretText(w) \in S!Text
  /\ \A w \in S!World : w.flag \in Paths \cup {Unset} /\ w.env \in Paths \cup {Unset}
<1>1. S!NoText \in S!Text
  BY StartupFacts DEF S!NoText, S!Text
<1>2. \A w \in S!World : w.string \in S!Text /\ w.binary \in S!Text
  BY DEF S!World
<1>3. \A w \in S!World, q \in Paths : w.files[q] \in S!Text /\ w.locals[q] \in S!Text
  BY DEF S!World
<1>4. \A w \in S!World : w.flag \in Paths \cup {Unset} /\ w.env \in Paths \cup {Unset}
  BY DEF S!World
<1> QED BY <1>1, <1>2, <1>3, <1>4 DEF S!SecretText

\* The default file that is found is the first that is there.
LEMMA FirstFound ==
  ASSUME NEW w \in S!World, S!Found(w) # {}
  PROVE  /\ S!Found(w) = {i \in DOMAIN DefaultPaths : w.files[DefaultPaths[i]].state # "absent"}
         /\ DefaultPaths[S!Min(S!Found(w))] \in Paths
<1>1. DefaultPaths \in Seq(Paths) /\ DOMAIN DefaultPaths = 1 .. Len(DefaultPaths)
      /\ Len(DefaultPaths) \in Nat
  BY StartupFacts
<1>2. S!Found(w) \subseteq DOMAIN DefaultPaths /\ S!Found(w) \subseteq Nat
  BY <1>1 DEF S!Found
<1>3. S!Min(S!Found(w)) \in DOMAIN DefaultPaths
  BY <1>2, FirstOf
<1> QED BY <1>1, <1>3 DEF S!Found, S!FileExists

\* The source that is chosen is the base layer, and its local file the overlay.
LEMMA CandidateIsBase ==
  ASSUME world \in S!World, S!Candidate(world).kind # "none"
  PROVE  LET src == S!Candidate(world)
         IN  /\ src \in S!Source
             /\ S!Contents(src) = S!Base(world).text /\ S!LocalText(src) = S!Base(world).local
             /\ S!Contents(src) \in S!Text /\ S!LocalText(src) \in S!Text
<1> DEFINE src == S!Candidate(world)
           p == S!FlagOrEnv(world)
           aws == world.region /\ world.secretName
           given == {i \in DOMAIN world.fallback : world.fallback[i].kind # "none"}
<1>1. ASSUME NEW q \in Paths, src = S!FileSource(q)
      PROVE  /\ src \in S!Source /\ S!Contents(src) = world.files[q]
             /\ S!LocalText(src) = world.locals[q]
             /\ S!Contents(src) \in S!Text /\ S!LocalText(src) \in S!Text
  BY <1>1, TextTypes DEF S!FileSource, S!Source, S!Contents, S!LocalText
<1>2. ASSUME NEW k \in {"secret", "env", "static"}, NEW h \in S!Formats, NEW t \in S!Text,
             src = [kind |-> k, hint |-> h, text |-> t]
      PROVE  /\ src \in S!Source /\ S!Contents(src) = t /\ S!LocalText(src) = S!NoText
             /\ S!Contents(src) \in S!Text /\ S!LocalText(src) \in S!Text
  BY <1>2, TextTypes DEF S!Source, S!Contents, S!LocalText
<1>3. CASE p # Unset
  <2>1. p \in Paths /\ src = S!FileSource(p)
    BY <1>3, TextTypes DEF S!FlagOrEnv, S!Candidate
  <2> QED BY <1>1, <1>3, <2>1 DEF S!Base
<1>4. CASE p = Unset /\ aws
  <2>1. S!Given(world) # {} /\ src = S!SourceFromFlags(world)
    BY <1>4, FirstGiven DEF S!Candidate
  <2>2. src = [kind |-> "secret", hint |-> "auto", text |-> S!SecretText(world)]
    BY <1>4, <2>1 DEF S!SourceFromFlags
  <2>3. S!Base(world) = [text |-> S!SecretText(world), local |-> S!NoText]
    BY <1>4 DEF S!Base, S!SecretText
  <2> QED BY <1>2, <2>2, <2>3, TextTypes DEF S!Formats
<1>5. CASE p = Unset /\ ~aws /\ given # {}
  <2> DEFINE f == world.fallback[S!Min(given)]
  <2>1. S!Given(world) # {} /\ S!Fallbacks(world)[S!Min(S!Given(world))] = f
        /\ f \in S!Fallback /\ f.kind # "none"
    BY <1>5, FirstGiven
  <2>2. src = f
    BY <1>5, <2>1 DEF S!Candidate
  <2>3. S!Base(world) = [text |-> f.text, local |-> S!NoText]
    BY <1>5 DEF S!Base
  <2> HIDE DEF f
  <2>4. /\ f.kind \in {"env", "static"} /\ f.hint \in S!Formats /\ f.text \in S!Text
        /\ f = [kind |-> f.kind, hint |-> f.hint, text |-> f.text]
    BY <2>1 DEF S!Fallback
  <2> QED BY <1>2, <2>2, <2>3, <2>4
<1>6. CASE p = Unset /\ ~aws /\ given = {}
  <2> DEFINE q == DefaultPaths[S!Min(S!Found(world))]
  <2>1. S!Given(world) = {}
    BY <1>6, FirstGiven
  <2>2. S!Found(world) # {} /\ src = S!FileSource(q)
    BY <1>6, <2>1 DEF S!Candidate, S!NoSource
  <2>3. q \in Paths
    BY <2>2, FirstFound
  <2>4. S!Base(world) = [text |-> world.files[q], local |-> world.locals[q]]
    BY <1>6, <2>2, FirstFound DEF S!Base
  <2> QED BY <1>1, <2>2, <2>3, <2>4
<1> QED BY <1>3, <1>4, <1>5, <1>6

LEMMA LInvInit == S!Init => LInv
BY DEF S!Init, LInv

\* What was found out about the source stays so.
LEMMA SourceStays ==
  ASSUME UNCHANGED <<world, source>>
  PROVE  /\ Sourced' <=> Sourced
         /\ LocalSound' <=> LocalSound
         /\ S!LocalText(source)' = S!LocalText(source) /\ S!Contents(source)' = S!Contents(source)
<1>1. S!Candidate(world)' = S!Candidate(world)
  BY DEF S!Candidate, S!Given, S!Found, S!Fallbacks, S!SourceFromFlags, S!FlagOrEnv,
         S!SecretText, S!FileSource, S!NoSource, S!NoText, S!FileExists
<1>2. S!LocalText(source)' = S!LocalText(source) /\ S!Contents(source)' = S!Contents(source)
  BY DEF S!LocalText, S!Contents, S!NoText
<1> QED BY <1>1, <1>2 DEF Sourced, LocalSound

LEMMA TextStays ==
  ASSUME UNCHANGED <<world, source, text>>
  PROVE  (Read' <=> Read) /\ \A s \in Settings : Merged(s)' = Merged(s)
BY SourceStays DEF Read, Merged

LEMMA LInvStart ==
  ASSUME LInv
  PROVE  /\ \A w \in Worlds : S!Start(w) => LInv'
         /\ S!Resolve => LInv'
         /\ S!Load => LInv'
         /\ S!Parse => LInv'
<1> USE DEF S!Go, S!Fails
<1>1. ASSUME NEW w \in Worlds, S!Start(w) PROVE LInv'
  BY <1>1 DEF S!Start, LInv
<1>2. ASSUME S!Resolve PROVE LInv'
  <2>1. CASE S!Candidate(world).kind = "none"
    BY <1>2, <2>1 DEF S!Resolve, LInv
  <2>2. CASE S!Candidate(world).kind # "none"
    <3>1. stage = "resolve" /\ stage' = "load" /\ world' = world /\ source' = S!Candidate(world)
      BY <1>2, <2>2 DEF S!Resolve
    <3>2. S!Candidate(world)' = S!Candidate(world)
      BY <3>1 DEF S!Candidate, S!Given, S!Found, S!Fallbacks, S!SourceFromFlags, S!FlagOrEnv,
         S!SecretText, S!FileSource, S!NoSource, S!NoText, S!FileExists
    <3>3. Sourced'
      BY <2>2, <3>1, <3>2 DEF LInv, Sourced
    <3> QED BY <3>1, <3>3 DEF LInv, Sourced
  <2> QED BY <2>1, <2>2
<1>3. ASSUME S!Load PROVE LInv'
  <2>1. CASE S!Refused(source)
    BY <1>3, <2>1 DEF S!Load, LInv
  <2>2. CASE ~S!Refused(source)
    <3>1. /\ stage = "load" /\ stage' = "parse" /\ UNCHANGED <<world, source>>
          /\ text' = S!Contents(source) /\ S!Contents(source).state = "text"
      BY <1>3, <2>2 DEF S!Load, S!Refused
    <3>2. Sourced' /\ S!Contents(source)' = S!Contents(source)
      BY <3>1, SourceStays DEF LInv
    <3>3. Read'
      BY <3>1, <3>2 DEF Read
    <3> QED BY <3>1, <3>3 DEF LInv
  <2> QED BY <2>1, <2>2
<1>4. ASSUME S!Parse PROVE LInv'
  <2>1. CASE ~S!Parses(text, S!DetectFormat(source, text))
    BY <1>4, <2>1 DEF S!Parse, LInv
  <2>2. CASE S!Parses(text, S!DetectFormat(source, text))
    <3>1. /\ stage = "parse" /\ stage' = "overlay" /\ UNCHANGED <<world, source, text>>
          /\ cfg' = text.config
      BY <1>4, <2>2 DEF S!Parse
    <3>2. Read'
      BY <3>1, TextStays DEF LInv
    <3> QED BY <3>1, <3>2 DEF LInv
  <2> QED BY <2>1, <2>2
<1> QED BY <1>1, <1>2, <1>3, <1>4

\* What a source that was chosen contains, and what is next to it.
LEMMA SourcedTypes ==
  ASSUME Sourced
  PROVE  /\ source \in S!Source
         /\ S!Contents(source) = S!Base(world).text /\ S!LocalText(source) = S!Base(world).local
         /\ S!Contents(source) \in S!Text /\ S!LocalText(source) \in S!Text
BY CandidateIsBase, StartupFacts DEF Sourced

LEMMA LInvOverlay ==
  ASSUME LInv, S!Overlay
  PROVE  LInv'
<1> USE DEF S!Go, S!Fails
<1> DEFINE local == S!LocalText(source)
<1>1. stage = "overlay" /\ Read /\ cfg = text.config
  BY DEF S!Overlay, LInv
<1>2. local \in S!Text /\ text \in S!Text
  BY <1>1, SourcedTypes DEF Read
<1>3. CASE stage' = "failed" /\ world' = world
  BY <1>1, <1>3 DEF LInv, Read, Sourced
<1>4. CASE ~S!FileExists(local)
  <2>1. stage' = "validate" /\ UNCHANGED <<world, source, text, cfg>>
    BY <1>4 DEF S!Overlay, S!FileExists
  <2>2. local.state = "absent"
    BY <1>4 DEF S!FileExists
  <2>3. Read' /\ LocalSound'
    BY <1>1, <2>1, <2>2, SourceStays, TextStays DEF LocalSound
  <2>4. \A s \in Settings : cfg'.settings[s] = Merged(s)'
    <3>1. \A s \in Settings : Merged(s) = cfg.settings[s]
      BY <1>1, <2>2 DEF Merged
    <3> QED BY <2>1, <3>1, TextStays
  <2> QED BY <2>1, <2>3, <2>4 DEF LInv, Read, Sourced
<1>5. CASE /\ S!FileExists(local)
           /\ local.state = "text" /\ S!Parses(local, S!DetectFormat(source, text))
  <2>1. PICK fieldwise \in BOOLEAN : cfg' = S!Merge(cfg, local.config, fieldwise)
    BY <1>5 DEF S!Overlay
  <2>2. stage' = "validate" /\ UNCHANGED <<world, source, text>>
    BY <1>5 DEF S!Overlay
  <2>3. local.syntax # "neither"
    BY <1>5 DEF S!Parses
  <2>4. Read' /\ LocalSound'
    BY <1>1, <1>5, <2>2, <2>3, SourceStays, TextStays DEF LocalSound
  <2>5. ASSUME NEW s \in Settings PROVE cfg'.settings[s] = Merged(s)
    <3>1. /\ local.config.settings \in [Settings -> Values \cup {Zero}]
          /\ text.config.settings \in [Settings -> Values \cup {Zero}]
      BY <1>2 DEF S!Text, S!Config
    <3>2. cfg'.settings = S!Override(text.config.settings, local.config.settings)
      BY <1>1, <2>1 DEF S!Merge
    <3>3. local.config.settings[s] = Unset => local.config.settings[s] = Zero
      BY <3>1, StartupFacts
    <3> QED BY <1>5, <3>1, <3>2, <3>3 DEF S!Override, Merged
  <2>6. \A s \in Settings : cfg'.settings[s] = Merged(s)'
    BY <2>2, <2>5, TextStays
  <2> QED BY <2>2, <2>4, <2>6 DEF LInv, Read, Sourced
<1> QED BY <1>3, <1>4, <1>5 DEF S!Overlay

\* Defaults, field by field.
LEMMA DefaultsByField ==
  ASSUME cfg \in S!Config
  PROVE  LET c == S!WithDefaults(cfg)
         IN  /\ c.settings = [s \in Settings |-> IF cfg.settings[s] = Zero THEN Default[s]
                                                 ELSE cfg.settings[s]]
             /\ c.providers = [n \in DOMAIN cfg.providers |->
                                 IF cfg.providers[n].type = Unset
                                   THEN [cfg.providers[n] EXCEPT !.type = n] ELSE cfg.providers[n]]
             /\ c.models = cfg.models
             /\ c = [settings |-> c.settings, providers |-> c.providers, models |-> c.models]
<1> DEFINE c == S!WithDefaults(cfg)
           X == [s \in Settings |-> IF cfg.settings[s] = Zero THEN Default[s] ELSE cfg.settings[s]]
           Y == [n \in DOMAIN cfg.providers |->
                   IF cfg.providers[n].type = Unset
                     THEN [cfg.providers[n] EXCEPT !.type = n] ELSE cfg.providers[n]]
<1>1. c = [cfg EXCEPT !.settings = X, !.providers = Y]
  BY DEF S!WithDefaults
<1>2. cfg = [settings |-> cfg.settings, providers |-> cfg.providers, models |-> cfg.models]
  BY DEF S!Config
<1> HIDE DEF X, Y
<1>3. c = [settings |-> X, providers |-> Y, models |-> cfg.models]
  BY <1>1, <1>2
<1> HIDE DEF c
<1>4. c.settings = X /\ c.providers = Y /\ c.models = cfg.models
  BY <1>3
<1> QED BY <1>3, <1>4 DEF X, Y, c

LEMMA LInvValidate ==
  ASSUME LInv, cfg \in S!Config, S!Validate
  PROVE  LInv'
<1> USE DEF S!Go, S!Fails
<1>1. CASE ~S!Valid(S!WithDefaults(cfg))
  BY <1>1 DEF S!Validate, LInv
<1>2. CASE S!Valid(S!WithDefaults(cfg))
  <2>1. /\ stage = "validate" /\ stage' = "registry" /\ cfg' = S!WithDefaults(cfg)
        /\ UNCHANGED <<world, source, text>>
    BY <1>2 DEF S!Validate
  <2>2. Read /\ LocalSound /\ \A s \in Settings : cfg.settings[s] = Merged(s)
    BY <2>1 DEF LInv
  <2>3. Read' /\ LocalSound'
    BY <2>1, <2>2, SourceStays, TextStays
  <2>4. \A s \in Settings : cfg'.settings[s] = IF Merged(s) = Zero THEN Default[s] ELSE Merged(s)
    BY <2>1, <2>2, DefaultsByField
  <2>5. \A s \in Settings : Merged(s)' = Merged(s)
    BY <2>1, TextStays
  <2> QED BY <2>1, <2>3, <2>4, <2>5 DEF LInv, Read, Sourced
<1> QED BY <1>1, <1>2

LEMMA LInvNext == LInv /\ cfg \in S!Config /\ [S!Next]_startupVars => LInv'
<1> SUFFICES ASSUME LInv, cfg \in S!Config, [S!Next]_startupVars PROVE LInv'
  OBVIOUS
<1> USE DEF S!Go, S!Fails
<1>1. ASSUME stage # "none", stage' = "failed", UNCHANGED <<world, source, text, cfg>> PROVE LInv'
  BY <1>1 DEF LInv, Sourced, Read
<1>2. ASSUME \/ stage' = stage
             \/ stage = "registry" /\ stage' = "ready",
             UNCHANGED <<world, source, text, cfg>>
      PROVE LInv'
  <2>1. /\ Sourced' <=> Sourced
        /\ LocalSound' <=> LocalSound
        /\ Read' <=> Read
        /\ \A s \in Settings : Merged(s)' = Merged(s)
    BY <1>2, SourceStays, TextStays
  <2> QED BY <1>2, <2>1 DEF LInv
<1>3. ASSUME NEW n \in Names, S!NewProvider(n) PROVE LInv'
  BY <1>2, <1>3 DEF S!NewProvider
<1>4. CASE S!NewProviderFails
  BY <1>1, <1>4 DEF S!NewProviderFails, LInv
<1>5. CASE S!Ready
  BY <1>2, <1>5 DEF S!Ready
<1>6. CASE UNCHANGED startupVars
  BY <1>2, <1>6 DEF startupVars
<1>7. ASSUME NEW w \in Worlds, S!Start(w) PROVE LInv'
  BY <1>7, LInvStart
<1>8. ASSUME S!Resolve \/ S!Load \/ S!Parse PROVE LInv'
  <2>1. CASE S!Resolve
    BY <2>1, LInvStart
  <2>2. CASE S!Load
    BY <2>2, LInvStart
  <2>3. CASE S!Parse
    BY <2>3, LInvStart
  <2> QED BY <1>8, <2>1, <2>2, <2>3
<1>9. CASE S!Overlay
  BY <1>9, LInvOverlay
<1>10. CASE S!Validate
  BY <1>10, LInvValidate
<1> QED BY <1>3, <1>4, <1>5, <1>6, <1>7, <1>8, <1>9, <1>10 DEF S!Next

LEMMA OverrideType ==
  ASSUME NEW K, NEW V, NEW f \in [K -> V], NEW g \in [K -> V]
  PROVE  S!Override(f, g) \in [K -> V]
BY DEF S!Override

LEMMA ConfigType ==
  ASSUME NEW c \in S!Config
  PROVE  /\ c.settings \in [Settings -> Values \cup {Zero}]
         /\ DOMAIN c.providers \subseteq Names
         /\ c.providers \in [DOMAIN c.providers -> S!ProviderConfig]
         /\ DOMAIN c.models \subseteq Models
         /\ c.models \in [DOMAIN c.models -> S!ModelConfig]
BY DEF S!Config, S!MapsTo

\* Merging the entries of two maps field by field gives entries.
LEMMA EntriesMerge ==
  /\ \A p, q \in S!ProviderConfig : S!Override(p, q) \in S!ProviderConfig
  /\ \A p, q \in S!ModelConfig : S!Override(p, q) \in S!ModelConfig
<1>1. ASSUME NEW p \in S!ProviderConfig, NEW q \in S!ProviderConfig
      PROVE  S!Override(p, q) \in S!ProviderConfig
  <2> DEFINE o == S!Override(p, q)
  <2>1. DOMAIN p = {"type", "key"} /\ p.type \in Names \cup {Unset} /\ p.key \in Values \cup {Zero}
        /\ q.type \in Names \cup {Unset} /\ q.key \in Values \cup {Zero}
    BY DEF S!ProviderConfig
  <2>2. o = [f \in {"type", "key"} |-> IF q[f] \in {Zero, Unset} THEN p[f] ELSE q[f]]
    BY <2>1 DEF S!Override
  <2> HIDE DEF o
  <2>3. o = [type |-> o["type"], key |-> o["key"]]
    BY <2>2
  <2>4. o["type"] \in Names \cup {Unset} /\ o["key"] \in Values \cup {Zero}
    BY <2>1, <2>2
  <2>5. o \in S!ProviderConfig
    BY <2>3, <2>4 DEF S!ProviderConfig
  <2> QED BY <2>5 DEF o
<1>2. ASSUME NEW p \in S!ModelConfig, NEW q \in S!ModelConfig
      PROVE  S!Override(p, q) \in S!ModelConfig
  <2> DEFINE o == S!Override(p, q)
  <2>1. /\ DOMAIN p = {"provider", "model"}
        /\ p.provider \in Names \cup {Unset} /\ p.model \in Values \cup {Zero}
        /\ q.provider \in Names \cup {Unset} /\ q.model \in Values \cup {Zero}
    BY DEF S!ModelConfig
  <2>2. o = [f \in {"provider", "model"} |-> IF q[f] \in {Zero, Unset} THEN p[f] ELSE q[f]]
    BY <2>1 DEF S!Override
  <2> HIDE DEF o
  <2>3. o = [provider |-> o["provider"], model |-> o["model"]]
    BY <2>2
  <2>4. o["provider"] \in Names \cup {Unset} /\ o["model"] \in Values \cup {Zero}
    BY <2>1, <2>2
  <2>5. o \in S!ModelConfig
    BY <2>3, <2>4 DEF S!ModelConfig
  <2> QED BY <2>5 DEF o
<1> QED BY <1>1, <1>2

LEMMA MapsMerge ==
  ASSUME NEW K, NEW V, \A p, q \in V : S!Override(p, q) \in V,
         NEW f, DOMAIN f \subseteq K, f \in [DOMAIN f -> V],
         NEW g, DOMAIN g \subseteq K, g \in [DOMAIN g -> V], NEW fieldwise
  PROVE  S!MergeMaps(f, g, fieldwise) \in S!MapsTo(K, V)
<1> DEFINE m == S!MergeMaps(f, g, fieldwise)
           D == DOMAIN f \cup DOMAIN g
<1>1. m \in [D -> V]
  BY DEF S!MergeMaps
<1>2. D \in SUBSET K
  OBVIOUS
<1> HIDE DEF m, D
<1> QED BY <1>1, <1>2 DEF S!MapsTo, m

LEMMA MergeType ==
  ASSUME NEW c \in S!Config, NEW d \in S!Config, NEW fieldwise
  PROVE  S!Merge(c, d, fieldwise) \in S!Config
<1>1. S!Override(c.settings, d.settings) \in [Settings -> Values \cup {Zero}]
  BY ConfigType, OverrideType
<1>2. S!MergeMaps(c.providers, d.providers, fieldwise) \in S!MapsTo(Names, S!ProviderConfig)
  BY ConfigType, EntriesMerge, MapsMerge
<1>3. S!MergeMaps(c.models, d.models, fieldwise) \in S!MapsTo(Models, S!ModelConfig)
  BY ConfigType, EntriesMerge, MapsMerge
<1> QED BY <1>1, <1>2, <1>3 DEF S!Merge, S!Config

LEMMA DefaultsType ==
  ASSUME cfg \in S!Config
  PROVE  S!WithDefaults(cfg) \in S!Config
<1> DEFINE c == S!WithDefaults(cfg)
           Y == [n \in DOMAIN cfg.providers |->
                   IF cfg.providers[n].type = Unset
                     THEN [cfg.providers[n] EXCEPT !.type = n] ELSE cfg.providers[n]]
<1>1. /\ c = [settings |-> c.settings, providers |-> c.providers, models |-> c.models]
      /\ c.settings = [s \in Settings |-> IF cfg.settings[s] = Zero THEN Default[s]
                                                                    ELSE cfg.settings[s]]
      /\ c.providers = Y /\ c.models = cfg.models
  BY DefaultsByField
<1> HIDE DEF c
<1>2. c.settings \in [Settings -> Values \cup {Zero}]
  BY <1>1, ConfigType, StartupFacts
<1>3. Y \in S!MapsTo(Names, S!ProviderConfig)
  <2>1. \A n \in DOMAIN cfg.providers : n \in Names /\ cfg.providers[n] \in S!ProviderConfig
    BY ConfigType
  <2>2. \A n \in DOMAIN cfg.providers :
           [cfg.providers[n] EXCEPT !.type = n] \in S!ProviderConfig
    BY <2>1 DEF S!ProviderConfig
  <2>3. Y \in [DOMAIN cfg.providers -> S!ProviderConfig] /\ DOMAIN cfg.providers \in SUBSET Names
    BY <2>1, <2>2
  <2> HIDE DEF Y
  <2> QED BY <2>3 DEF S!MapsTo
<1>4. cfg.models \in S!MapsTo(Models, S!ModelConfig)
  BY DEF S!Config
<1> HIDE DEF Y
<1> QED BY <1>1, <1>2, <1>3, <1>4 DEF S!Config, c

LEMMA STypeInit == S!Init => S!TypeOK
<1> SUFFICES ASSUME S!Init PROVE S!TypeOK
  OBVIOUS
<1>1. text \in S!Text /\ cfg \in S!Config
  BY TextTypes, StartupFacts DEF S!Init
<1>2. source \in S!Source
  BY <1>1 DEF S!Init, S!NoSource, S!Source, S!Formats
<1>3. registry \in S!MapsTo(Names, Names)
  <2>1. registry = Nothing.providers /\ DOMAIN Nothing.providers = {}
    BY PartsAssumption DEF S!Init, S!StartupAssumption
  <2>2. Nothing.providers \in [DOMAIN Nothing.providers -> S!ProviderConfig]
    BY StartupFacts, ConfigType
  <2>3. registry \in [{} -> Names]
    BY <2>1, <2>2
  <2> QED BY <2>3 DEF S!MapsTo
<1> QED BY <1>1, <1>2, <1>3 DEF S!Init, S!TypeOK, S!Stages

LEMMA STypeNext == S!TypeOK /\ SInv /\ LInv /\ [S!Next]_startupVars => S!TypeOK'
<1> SUFFICES ASSUME S!TypeOK, SInv, LInv, [S!Next]_startupVars PROVE S!TypeOK'
  OBVIOUS
<1> USE DEF S!Go, S!Fails, S!TypeOK, S!Stages
<1>1. ASSUME NEW w \in Worlds, S!Start(w) PROVE S!TypeOK'
  BY <1>1 DEF S!Start
<1>2. CASE S!Resolve
  <2>1. CASE S!Candidate(world).kind = "none"
    BY <1>2, <2>1 DEF S!Resolve
  <2>2. CASE S!Candidate(world).kind # "none"
    <3>1. world \in S!World
      BY <1>2, StartupFacts DEF S!Resolve, LInv
    <3>2. S!Candidate(world) \in S!Source
      BY <2>2, <3>1, CandidateIsBase
    <3> QED BY <1>2, <2>2, <3>2 DEF S!Resolve
  <2> QED BY <2>1, <2>2
<1>3. CASE S!Load
  <2>1. stage = "load"
    BY <1>3 DEF S!Load
  <2>2. S!Contents(source) \in S!Text
    BY <2>1, SourcedTypes DEF LInv
  <2> QED BY <1>3, <2>2 DEF S!Load
<1>4. CASE S!Parse
  <2>1. text.config \in S!Config
    BY DEF S!Text
  <2> QED BY <1>4, <2>1 DEF S!Parse
<1>5. CASE S!Overlay
  <2>1. stage = "overlay"
    BY <1>5 DEF S!Overlay
  <2>2. S!LocalText(source) \in S!Text
    BY <2>1, SourcedTypes DEF LInv, Read
  <2>3. S!LocalText(source).config \in S!Config
    BY <2>2 DEF S!Text
  <2>4. /\ cfg' = cfg \/ \E fieldwise : cfg' = S!Merge(cfg, S!LocalText(source).config, fieldwise)
        /\ stage' \in S!Stages /\ UNCHANGED <<world, source, text, registry>>
    BY <1>5 DEF S!Overlay
  <2>5. cfg' \in S!Config
    BY <2>3, <2>4, MergeType
  <2> QED BY <2>4, <2>5
<1>6. CASE S!Validate
  BY <1>6, DefaultsType DEF S!Validate
<1>7. ASSUME NEW n \in Names, S!NewProvider(n) PROVE S!TypeOK'
  <2>1. /\ stage = "registry" /\ cfg.providers[n].type \in Supported
        /\ registry' = [k \in DOMAIN registry \cup {n} |-> cfg.providers[k].type]
        /\ UNCHANGED <<stage, world, source, text, cfg>>
    BY <1>7 DEF S!NewProvider
  <2>2. \A k \in DOMAIN registry : cfg.providers[k].type \in Names
    BY <2>1, StartupFacts DEF SInv
  <2>3. DOMAIN registry \subseteq Names
    BY DEF S!MapsTo
  <2>4. DOMAIN registry \cup {n} \in SUBSET Names
    BY <2>3
  <2>5. registry' \in [DOMAIN registry \cup {n} -> Names]
    BY <2>1, <2>2, StartupFacts
  <2>6. registry' \in S!MapsTo(Names, Names)
    BY <2>4, <2>5 DEF S!MapsTo
  <2> QED BY <2>1, <2>6
<1>8. CASE S!NewProviderFails
  BY <1>8 DEF S!NewProviderFails
<1>9. CASE S!Ready
  BY <1>9 DEF S!Ready
<1>10. CASE UNCHANGED startupVars
  BY <1>10 DEF startupVars
<1> QED BY <1>1, <1>2, <1>3, <1>4, <1>5, <1>6, <1>7, <1>8, <1>9, <1>10 DEF S!Next

LEMMA StartupInvariant == Spec => [](S!TypeOK /\ SInv /\ LInv)
<1>1. Init => S!TypeOK /\ SInv /\ LInv
  BY SInvInit, LInvInit, STypeInit DEF Init
<1>2. S!TypeOK /\ SInv /\ LInv /\ [Next]_vars => (S!TypeOK /\ SInv /\ LInv)'
  <2> SUFFICES ASSUME S!TypeOK, SInv, LInv, [S!Next]_startupVars
               PROVE  S!TypeOK' /\ SInv' /\ LInv'
    BY OnePart
  <2>1. S!TypeOK'
    BY STypeNext
  <2>2. SInv'
    BY SInvNext
  <2>3. LInv'
    BY LInvNext DEF S!TypeOK
  <2> QED BY <2>1, <2>2, <2>3
<1> QED BY <1>1, <1>2, PTL DEF Spec

\* However a program is started, a configuration it accepts comes from the
\* source the documented order names, and each setting from the topmost layer
\* that sets it (LoadFromFlags, LoadAs).
THEOREM LayersTakePrecedence == Spec => []LayersInOrder
<1>1. S!TypeOK /\ LInv => LayersInOrder
  <2> SUFFICES ASSUME S!TypeOK, LInv, stage \in {"registry", "ready"}
               PROVE  S!LayersInOrder
    BY DEF LayersInOrder, S!LayersInOrder
  <2> DEFINE base == S!Base(world)
             says(t, s) == IF t.state = "text" THEN t.config.settings[s] ELSE Zero
  <2>1. /\ Read /\ LocalSound
        /\ \A s \in Settings : cfg.settings[s] = IF Merged(s) = Zero THEN Default[s] ELSE Merged(s)
    BY DEF LInv
  <2>2. base.text = text /\ base.local = S!LocalText(source) /\ text.state = "text"
    BY <2>1, SourcedTypes DEF Read
  <2>3. base.local.state = "absent" \/ (base.local.state = "text" /\ base.local.syntax # "neither")
    BY <2>1, <2>2 DEF LocalSound
  <2>4. ASSUME NEW s \in Settings
        PROVE  \E i \in 1..4 : /\ cfg.settings[s] = S!Layers(world, s)[i]
                               /\ i = 4 \/ cfg.settings[s] # Zero
                               /\ \A j \in 1..(i - 1) : S!Layers(world, s)[j] = Zero
    <3> DEFINE L == S!Layers(world, s)
               upper == says(base.local, s)
               lower == text.config.settings[s]
    <3>1. L = <<upper, lower, Default[s], Zero>>
      BY <2>2 DEF S!Layers
    <3>2. Merged(s) = IF upper # Zero THEN upper ELSE lower
      BY <2>2 DEF Merged
    <3>3. cfg.settings[s] = IF upper # Zero THEN upper ELSE IF lower # Zero THEN lower ELSE Default[s]
      BY <2>1, <3>2
    <3> HIDE DEF L, upper, lower
    <3>4. L[1] = upper /\ L[2] = lower /\ L[3] = Default[s] /\ L[4] = Zero
      BY <3>1
    <3> SUFFICES \E i \in 1..4 : /\ cfg.settings[s] = L[i]
                                 /\ i = 4 \/ cfg.settings[s] # Zero
                                 /\ \A j \in 1..(i - 1) : L[j] = Zero
      BY DEF L
    <3>5. CASE upper # Zero
      <4> WITNESS 1 \in 1..4
      <4> QED BY <3>3, <3>4, <3>5
    <3>6. CASE upper = Zero /\ lower # Zero
      <4> WITNESS 2 \in 1..4
      <4>1. \A j \in 1..(2 - 1) : j = 1
        OBVIOUS
      <4> QED BY <3>3, <3>4, <3>6, <4>1
    <3>7. CASE upper = Zero /\ lower = Zero /\ Default[s] # Zero
      <4> WITNESS 3 \in 1..4
      <4>1. \A j \in 1..(3 - 1) : j = 1 \/ j = 2
        OBVIOUS
      <4> QED BY <3>3, <3>4, <3>7, <4>1
    <3>8. CASE upper = Zero /\ lower = Zero /\ Default[s] = Zero
      <4> WITNESS 4 \in 1..4
      <4>1. \A j \in 1..(4 - 1) : j = 1 \/ j = 2 \/ j = 3
        OBVIOUS
      <4> QED BY <3>3, <3>4, <3>8, <4>1
    <3> QED BY <3>5, <3>6, <3>7, <3>8
  <2> HIDE DEF base
  <2> QED BY <2>2, <2>3, <2>4 DEF S!LayersInOrder, base
<1> QED BY <1>1, StartupInvariant, PTL

-----------------------------------------------------------------------------
(* The router. *)

\* The registrations so far of a command, of a verb, of keywords that match a
\* text, of the default for card actions and of the fallback, by their places.
OfCommand(n) ==
    {i \in DOMAIN calls : calls[i].fn = "WithCommands" /\ Lower[calls[i].name] = n}
OfVerb(v) ==
    {i \in DOMAIN calls : calls[i].fn \in {"WithCardAction", "OnCardAction"} /\ calls[i].name = v}
OfKeywords(t) == {i \in DOMAIN calls : O!IsKeyword(calls[i]) /\ O!Matches(calls[i], t)}
OfDefault ==
    {i \in DOMAIN calls : calls[i].fn \in {"WithCardActionDefault", "OnCardActionDefault"}}
OfFallback == {i \in DOMAIN calls : calls[i].fn = "WithLLMHandler"}

Newest(places) == calls[O!Max(places)].handler

\* What each of the router's fields says is what was registered last or, of
\* the keyword rules that match a text, first; without a fallback it is that
\* of an engine, as soon as there is one, and then nothing is configured.
CommandsKept ==
    \A n \in Strings : /\ n \in DOMAIN commands <=> OfCommand(n) # {}
                       /\ n \in DOMAIN commands => commands[n] = Newest(OfCommand(n))
VerbsKept ==
    \A v \in Strings : /\ v \in DOMAIN cardActions <=> OfVerb(v) # {}
                       /\ v \in DOMAIN cardActions => cardActions[v] = Newest(OfVerb(v))
RulesKept ==
    \A t \in Strings :
        /\ O!MatchingRules(t) = {} <=> OfKeywords(t) = {}
        /\ O!MatchingRules(t) # {} =>
              keywords[O!Min(O!MatchingRules(t))] = calls[O!Min(OfKeywords(t))]
DefaultKept == cardDefault = IF OfDefault = {} THEN NoHandler ELSE Newest(OfDefault)
FallbackKept ==
    /\ OfFallback # {} => llmHandler = Newest(OfFallback)
    /\ OfFallback = {} => IF engines = {} THEN llmHandler = NoHandler ELSE llmHandler \in engines
LastRouted ==
    routed # <<>> => engines # {} /\ routed[1] \in Updates /\ routed[2] = O!Route(routed[1])

OInv ==
    /\ O!TypeOK
    /\ CommandsKept /\ VerbsKept /\ RulesKept /\ DefaultKept /\ FallbackKept /\ LastRouted
    /\ engines # {} => built

LEMMA RouterFacts ==
  /\ Registrations \subseteq O!Registration
  /\ NoHandler \notin Handlers \cup Engines /\ Handlers \cap Engines = {}
  /\ \A s \in Strings : Lower[s] \in Strings /\ Trim[s] \in Strings /\ FirstWord[s] \in Strings
  /\ \A s \in Strings : Lower[s] = "" <=> s = ""
  /\ Updates \subseteq [kind : {"card"}, verb : Strings] \cup [kind : {"text"}, text : Strings]
BY PartsAssumption DEF O!RouterAssumption

\* What one more registration does to the history.
LEMMA Appended ==
  ASSUME NEW r \in Registrations, calls \in Seq(Registrations), O!Register(r)
  PROVE  /\ Len(calls) \in Nat /\ DOMAIN calls = 1 .. Len(calls)
         /\ DOMAIN calls' = DOMAIN calls \cup {Len(calls) + 1}
         /\ calls'[Len(calls) + 1] = r /\ Len(calls') = Len(calls) + 1
         /\ \A i \in DOMAIN calls : calls'[i] = calls[i]
         /\ calls' \in Seq(Registrations) /\ calls' # calls
BY DEF O!Register

\* The places of registrations, of which one more may be the last.
LEMMA PlacesKept ==
  ASSUME NEW r \in Registrations, calls \in Seq(Registrations), O!Register(r),
         NEW P, P \subseteq DOMAIN calls, P # {}
  PROVE  calls'[O!Max(P)] = calls[O!Max(P)] /\ calls'[O!Min(P)] = calls[O!Min(P)]
<1>1. P \subseteq 1 .. Len(calls) /\ P \subseteq Nat /\ Len(calls) \in Nat
  BY Appended
<1>2. O!Max(P) \in P /\ O!Min(P) \in P
  BY <1>1, GreatestPlace, LeastNat
<1> QED BY <1>2, Appended

LEMMA PlaceAdded ==
  ASSUME NEW r \in Registrations, calls \in Seq(Registrations), O!Register(r),
         NEW P, P \subseteq DOMAIN calls
  PROVE  LET P1 == P \cup {Len(calls) + 1}
         IN  /\ calls'[O!Max(P1)] = r
             /\ P # {} => O!Min(P1) = O!Min(P)
             /\ P = {} => calls'[O!Min(P1)] = r
<1> DEFINE n == Len(calls)
<1>1. P \subseteq 1 .. n /\ n \in Nat /\ n + 1 \in Nat /\ calls'[n + 1] = r
  BY Appended
<1> HIDE DEF n
<1>2. O!Max(P \cup {n + 1}) = n + 1
  BY <1>1, LastAdded
<1>3. P # {} => O!Min(P \cup {n + 1}) = O!Min(P)
  BY <1>1, FirstStays
<1>4. P = {} => O!Min(P \cup {n + 1}) = n + 1
  BY <1>1, FirstAlone
<1> QED BY <1>1, <1>2, <1>3, <1>4 DEF n

\* Where one more registration belongs.
LEMMA PlacesGrow ==
  ASSUME NEW r \in Registrations, calls \in Seq(Registrations), O!Register(r)
  PROVE  LET Grow(P, yes) == IF yes THEN P \cup {Len(calls) + 1} ELSE P
         IN  /\ \A n : OfCommand(n)' = Grow(OfCommand(n),
                                            r.fn = "WithCommands" /\ Lower[r.name] = n)
             /\ \A v : OfVerb(v)' = Grow(OfVerb(v), /\ r.fn \in {"WithCardAction", "OnCardAction"}
                                                   /\ r.name = v)
             /\ \A t : OfKeywords(t)' = Grow(OfKeywords(t), O!IsKeyword(r) /\ O!Matches(r, t))
             /\ OfDefault' = Grow(OfDefault, r.fn \in {"WithCardActionDefault",
                                                       "OnCardActionDefault"})
             /\ OfFallback' = Grow(OfFallback, r.fn = "WithLLMHandler")
<1> DEFINE n == Len(calls)
           Grow(P, yes) == IF yes THEN P \cup {n + 1} ELSE P
<1>1. /\ n \in Nat /\ DOMAIN calls = 1 .. n /\ DOMAIN calls' = DOMAIN calls \cup {n + 1}
      /\ calls'[n + 1] = r
      /\ \A i \in DOMAIN calls : calls'[i] = calls[i]
  BY Appended
<1>2. n + 1 \notin DOMAIN calls
  BY <1>1
<1> HIDE DEF n
<1>3. ASSUME NEW m
      PROVE  OfCommand(m)' = Grow(OfCommand(m), r.fn = "WithCommands" /\ Lower[r.name] = m)
  BY <1>1, <1>2 DEF OfCommand
<1>4. ASSUME NEW v
      PROVE  OfVerb(v)' = Grow(OfVerb(v), r.fn \in {"WithCardAction", "OnCardAction"} /\ r.name = v)
  BY <1>1, <1>2 DEF OfVerb
<1>5. ASSUME NEW t
      PROVE  OfKeywords(t)' = Grow(OfKeywords(t), O!IsKeyword(r) /\ O!Matches(r, t))
  BY <1>1, <1>2 DEF OfKeywords
<1>6. OfDefault' = Grow(OfDefault, r.fn \in {"WithCardActionDefault", "OnCardActionDefault"})
  BY <1>1, <1>2 DEF OfDefault
<1>7. OfFallback' = Grow(OfFallback, r.fn = "WithLLMHandler")
  BY <1>1, <1>2 DEF OfFallback
<1> QED BY <1>3, <1>4, <1>5, <1>6, <1>7 DEF n

\* What one more registration does to the fields.
LEMMA FieldsGrow ==
  ASSUME NEW r \in Registrations, O!AddRoute(r)
  PROVE  /\ O!Register(r)
         /\ commands' = IF r.fn = "WithCommands" THEN O!With(commands, Lower[r.name], r.handler)
                                                 ELSE commands
         /\ cardActions' = IF r.fn \in {"WithCardAction", "OnCardAction"}
                             THEN O!With(cardActions, r.name, r.handler) ELSE cardActions
         /\ keywords' = IF O!IsKeyword(r) THEN Append(keywords, r) ELSE keywords
         /\ cardDefault' = IF r.fn \in {"WithCardActionDefault", "OnCardActionDefault"}
                             THEN r.handler ELSE cardDefault
         /\ llmHandler' = IF r.fn = "WithLLMHandler" THEN r.handler ELSE llmHandler
<1> USE DEF O!IsKeyword, O!maps
<1>1. CASE O!WithCommands(r)
  BY <1>1 DEF O!WithCommands
<1>2. CASE O!WithCardAction(r)
  BY <1>2 DEF O!WithCardAction
<1>3. CASE O!WithKeyword(r)
  BY <1>3 DEF O!WithKeyword
<1>4. CASE O!WithCardActionDefault(r)
  BY <1>4 DEF O!WithCardActionDefault
<1>5. CASE O!WithLLMHandler(r)
  BY <1>5 DEF O!WithLLMHandler
<1> QED BY <1>1, <1>2, <1>3, <1>4, <1>5 DEF O!AddRoute

LEMMA RegistrationType ==
  ASSUME NEW r \in Registrations
  PROVE  r \in O!Registration /\ r.handler \in Handlers /\ r.name \in Strings
         /\ Lower[r.name] \in Strings
BY RouterFacts DEF O!Registration

LEMMA WithType ==
  ASSUME NEW map, O!IsMap(map), NEW k \in Strings, NEW h \in Handlers
  PROVE  O!IsMap(O!With(map, k, h))
BY DEF O!IsMap, O!With

LEMMA RouterTypesKept ==
  ASSUME O!TypeOK, NEW r \in Registrations, O!AddRoute(r)
  PROVE  O!TypeOK'
<1>1. O!Register(r) /\ calls \in Seq(Registrations) /\ Len(calls) < MaxCalls
  BY FieldsGrow DEF O!TypeOK, O!Register
<1>2. built' = built /\ engines' = engines /\ routed' = <<>>
  BY <1>1 DEF O!Register
<1>3. calls' \in Seq(Registrations) /\ Len(calls') <= MaxCalls
  <2>1. calls' \in Seq(Registrations) /\ Len(calls') = Len(calls) + 1 /\ Len(calls) \in Nat
    BY <1>1, Appended
  <2>2. MaxCalls \in Nat
    BY PartsAssumption DEF O!RouterAssumption
  <2> QED BY <1>1, <2>1, <2>2
<1>4. O!IsMap(commands)' /\ O!IsMap(cardActions)'
  <2>1. O!IsMap(commands') /\ O!IsMap(cardActions')
    BY FieldsGrow, RegistrationType, WithType DEF O!TypeOK
  <2> QED BY <2>1 DEF O!IsMap
<1>5. keywords' \in Seq(O!Registration)
  <2>1. keywords \in Seq(O!Registration) /\ r \in O!Registration
    BY RegistrationType DEF O!TypeOK
  <2>2. Append(keywords, r) \in Seq(O!Registration)
    BY <2>1
  <2> QED BY <2>1, <2>2, FieldsGrow
<1>6. cardDefault' \in Handlers \cup {NoHandler} /\ llmHandler' \in Handlers \cup Engines \cup {NoHandler}
  BY FieldsGrow, RegistrationType DEF O!TypeOK
<1> QED BY <1>2, <1>3, <1>4, <1>5, <1>6 DEF O!TypeOK

LEMMA NewestGrows ==
  ASSUME NEW r \in Registrations, calls \in Seq(Registrations), O!Register(r),
         NEW P, P \subseteq DOMAIN calls, NEW yes \in BOOLEAN
  PROVE  LET P1 == IF yes THEN P \cup {Len(calls) + 1} ELSE P
         IN  P1 # {} => calls'[O!Max(P1)].handler = IF yes THEN r.handler ELSE Newest(P)
BY PlacesKept, PlaceAdded DEF Newest

LEMMA CommandsKeptOn ==
  ASSUME O!TypeOK, CommandsKept, NEW r \in Registrations, O!AddRoute(r)
  PROVE  CommandsKept'
<1>1. O!Register(r) /\ calls \in Seq(Registrations) /\ O!IsMap(commands)
  BY FieldsGrow DEF O!TypeOK
<1> SUFFICES ASSUME NEW n \in Strings
             PROVE  /\ n \in DOMAIN commands' <=> OfCommand(n)' # {}
                    /\ n \in DOMAIN commands' => commands'[n] = calls'[O!Max(OfCommand(n)')].handler
  BY DEF CommandsKept, Newest
<1> DEFINE yes == r.fn = "WithCommands" /\ Lower[r.name] = n
           P == OfCommand(n)
<1>2. OfCommand(n)' = IF yes THEN P \cup {Len(calls) + 1} ELSE P
  BY <1>1, PlacesGrow
<1>3. P \subseteq DOMAIN calls
  BY DEF OfCommand
<1>4. OfCommand(n)' # {} =>
         calls'[O!Max(OfCommand(n)')].handler = IF yes THEN r.handler ELSE Newest(P)
  BY <1>1, <1>2, <1>3, NewestGrows
<1>5. /\ n \in DOMAIN commands' <=> n \in DOMAIN commands \/ yes
      /\ n \in DOMAIN commands' => commands'[n] = IF yes THEN r.handler ELSE commands[n]
  BY FieldsGrow DEF O!With
<1>6. /\ n \in DOMAIN commands <=> P # {}
      /\ n \in DOMAIN commands => commands[n] = Newest(P)
  BY DEF CommandsKept
<1> HIDE DEF yes, P
<1> QED BY <1>2, <1>4, <1>5, <1>6

LEMMA VerbsKeptOn ==
  ASSUME O!TypeOK, VerbsKept, NEW r \in Registrations, O!AddRoute(r)
  PROVE  VerbsKept'
<1>1. O!Register(r) /\ calls \in Seq(Registrations) /\ O!IsMap(cardActions)
  BY FieldsGrow DEF O!TypeOK
<1> SUFFICES ASSUME NEW v \in Strings
             PROVE  /\ v \in DOMAIN cardActions' <=> OfVerb(v)' # {}
                    /\ v \in DOMAIN cardActions' =>
                          cardActions'[v] = calls'[O!Max(OfVerb(v)')].handler
  BY DEF VerbsKept, Newest
<1> DEFINE yes == r.fn \in {"WithCardAction", "OnCardAction"} /\ r.name = v
           P == OfVerb(v)
<1>2. OfVerb(v)' = IF yes THEN P \cup {Len(calls) + 1} ELSE P
  BY <1>1, PlacesGrow
<1>3. P \subseteq DOMAIN calls
  BY DEF OfVerb
<1>4. OfVerb(v)' # {} =>
         calls'[O!Max(OfVerb(v)')].handler = IF yes THEN r.handler ELSE Newest(P)
  BY <1>1, <1>2, <1>3, NewestGrows
<1>5. /\ v \in DOMAIN cardActions' <=> v \in DOMAIN cardActions \/ yes
      /\ v \in DOMAIN cardActions' => cardActions'[v] = IF yes THEN r.handler ELSE cardActions[v]
  BY FieldsGrow DEF O!With
<1>6. /\ v \in DOMAIN cardActions <=> P # {}
      /\ v \in DOMAIN cardActions => cardActions[v] = Newest(P)
  BY DEF VerbsKept
<1> HIDE DEF yes, P
<1> QED BY <1>2, <1>4, <1>5, <1>6

LEMMA DefaultsKeptOn ==
  ASSUME O!TypeOK, DefaultKept, FallbackKept, engines # {} => built,
         NEW r \in Registrations, O!AddRoute(r)
  PROVE  DefaultKept' /\ FallbackKept' /\ LastRouted'
<1>1. O!Register(r) /\ calls \in Seq(Registrations) /\ engines' = engines /\ routed' = <<>>
  BY FieldsGrow DEF O!TypeOK, O!Register
<1>2. OfDefault \subseteq DOMAIN calls /\ OfFallback \subseteq DOMAIN calls
  BY DEF OfDefault, OfFallback
<1>3. DefaultKept'
  <2> DEFINE yes == r.fn \in {"WithCardActionDefault", "OnCardActionDefault"}
  <2>1. OfDefault' = IF yes THEN OfDefault \cup {Len(calls) + 1} ELSE OfDefault
    BY <1>1, PlacesGrow
  <2>2. OfDefault' # {} =>
           calls'[O!Max(OfDefault')].handler = IF yes THEN r.handler ELSE Newest(OfDefault)
    BY <1>1, <1>2, <2>1, NewestGrows
  <2>3. cardDefault' = IF yes THEN r.handler ELSE cardDefault
    BY FieldsGrow
  <2> HIDE DEF yes
  <2> QED BY <2>1, <2>2, <2>3 DEF DefaultKept, Newest
<1>4. FallbackKept'
  <2> DEFINE yes == r.fn = "WithLLMHandler"
  <2>1. OfFallback' = IF yes THEN OfFallback \cup {Len(calls) + 1} ELSE OfFallback
    BY <1>1, PlacesGrow
  <2>2. OfFallback' # {} =>
           calls'[O!Max(OfFallback')].handler = IF yes THEN r.handler ELSE Newest(OfFallback)
    BY <1>1, <1>2, <2>1, NewestGrows
  <2>3. llmHandler' = IF yes THEN r.handler ELSE llmHandler
    BY FieldsGrow
  <2> HIDE DEF yes
  <2> QED BY <1>1, <2>1, <2>2, <2>3 DEF FallbackKept, Newest
<1>5. LastRouted'
  BY <1>1 DEF LastRouted
<1> QED BY <1>3, <1>4, <1>5

\* A keyword rule is put behind the others.
LEMMA RulesGrow ==
  ASSUME O!TypeOK, NEW r \in Registrations, O!AddRoute(r), NEW t \in Strings
  PROVE  LET yes == O!IsKeyword(r) /\ O!Matches(r, t)
             old == O!MatchingRules(t)
             new == O!MatchingRules(t)'
         IN  /\ new = {} <=> old = {} /\ ~yes
             /\ old # {} => /\ O!Min(new) = O!Min(old) /\ O!Min(old) \in DOMAIN keywords
                            /\ keywords'[O!Min(new)] = keywords[O!Min(old)]
             /\ old = {} /\ yes => keywords'[O!Min(new)] = r
<1> DEFINE yes == O!IsKeyword(r) /\ O!Matches(r, t)
           n == Len(keywords)
           old == O!MatchingRules(t)
           new == O!MatchingRules(t)'
<1>1. keywords \in Seq(O!Registration) /\ r \in O!Registration
  BY RegistrationType DEF O!TypeOK
<1>2. n \in Nat /\ DOMAIN keywords = 1 .. n /\ old \subseteq 1 .. n /\ old \subseteq Nat
  BY <1>1 DEF O!MatchingRules
<1>3. CASE ~O!IsKeyword(r)
  <2>1. keywords' = keywords /\ new = old
    BY <1>3, FieldsGrow DEF O!MatchingRules
  <2>2. old # {} => O!Min(old) \in DOMAIN keywords
    BY <1>2, LeastNat
  <2> QED BY <1>3, <2>1, <2>2
<1>4. CASE O!IsKeyword(r)
  <2>1. keywords' = Append(keywords, r)
    BY <1>4, FieldsGrow
  <2>2. /\ DOMAIN keywords' = DOMAIN keywords \cup {n + 1} /\ keywords'[n + 1] = r
        /\ \A i \in DOMAIN keywords : keywords'[i] = keywords[i]
    BY <1>1, <2>1
  <2>3. n + 1 \notin DOMAIN keywords
    BY <1>2
  <2>4. new = IF yes THEN old \cup {n + 1} ELSE old
    BY <1>4, <2>2, <2>3 DEF O!MatchingRules
  <2>5. old # {} => O!Min(old) \in DOMAIN keywords
    BY <1>2, LeastNat
  <2>6. old # {} => O!Min(old \cup {n + 1}) = O!Min(old)
    BY <1>2, FirstStays
  <2>7. O!Min({n + 1}) = n + 1
    <3>1. n + 1 \in Nat
      BY <1>2
    <3> QED BY <3>1, FirstAlone
  <2> HIDE DEF old, new, yes, n
  <2>8. old = {} /\ yes => O!Min(new) = n + 1
    BY <2>4, <2>7
  <2>9. old # {} => O!Min(new) = O!Min(old)
    BY <2>4, <2>6
  <2>10. new = {} <=> old = {} /\ ~yes
    BY <2>4
  <2> QED BY <2>2, <2>5, <2>8, <2>9, <2>10 DEF old, new, yes
<1> QED BY <1>3, <1>4

LEMMA RulesKeptOn ==
  ASSUME O!TypeOK, RulesKept, NEW r \in Registrations, O!AddRoute(r)
  PROVE  RulesKept'
<1>1. O!Register(r) /\ calls \in Seq(Registrations)
  BY FieldsGrow DEF O!TypeOK
<1> SUFFICES ASSUME NEW t \in Strings
             PROVE  /\ O!MatchingRules(t)' = {} <=> OfKeywords(t)' = {}
                    /\ O!MatchingRules(t)' # {} =>
                          keywords'[O!Min(O!MatchingRules(t)')] = calls'[O!Min(OfKeywords(t)')]
  BY DEF RulesKept
<1> DEFINE yes == O!IsKeyword(r) /\ O!Matches(r, t)
           P == OfKeywords(t)
           P1 == OfKeywords(t)'
           old == O!MatchingRules(t)
           new == O!MatchingRules(t)'
<1>2. P1 = IF yes THEN P \cup {Len(calls) + 1} ELSE P
  BY <1>1, PlacesGrow
<1>3. P \subseteq DOMAIN calls
  BY DEF OfKeywords
<1>4. P # {} => calls'[O!Min(P)] = calls[O!Min(P)]
  BY <1>1, <1>3, PlacesKept
<1>5. /\ P # {} => O!Min(P \cup {Len(calls) + 1}) = O!Min(P)
      /\ P = {} => calls'[O!Min(P \cup {Len(calls) + 1})] = r
  BY <1>1, <1>3, PlaceAdded
<1>6. /\ new = {} <=> old = {} /\ ~yes
      /\ old # {} => keywords'[O!Min(new)] = keywords[O!Min(old)]
      /\ old = {} /\ yes => keywords'[O!Min(new)] = r
  BY RulesGrow
<1>7. /\ old = {} <=> P = {}
      /\ old # {} => keywords[O!Min(old)] = calls[O!Min(P)]
  BY DEF RulesKept
<1> HIDE DEF yes, P, P1, old, new
<1>8. /\ new = {} <=> P1 = {}
      /\ new # {} => keywords'[O!Min(new)] = calls'[O!Min(P1)]
  BY <1>2, <1>4, <1>5, <1>6, <1>7
<1> QED BY <1>8 DEF P1, new

\* Without a handler of its own the fallback is an engine's, once there is one:
\* no update is ever left without a handler.
LEMMA SomebodyHandles ==
  ASSUME O!TypeOK, FallbackKept, engines # {}
  PROVE  llmHandler \in Handlers \cup Engines
<1>1. CASE OfFallback = {}
  BY <1>1 DEF FallbackKept, O!TypeOK
<1>2. CASE OfFallback # {}
  <2>1. calls \in Seq(Registrations) /\ DOMAIN calls = 1 .. Len(calls) /\ Len(calls) \in Nat
    BY DEF O!TypeOK
  <2>2. OfFallback \subseteq 1 .. Len(calls)
    BY <2>1 DEF OfFallback
  <2>3. O!Max(OfFallback) \in DOMAIN calls
    BY <1>2, <2>1, <2>2, GreatestPlace
  <2>4. calls[O!Max(OfFallback)] \in Registrations
    BY <2>1, <2>3
  <2> QED BY <1>2, <2>4, RegistrationType DEF FallbackKept, Newest
<1> QED BY <1>1, <1>2

LEMMA RouteType ==
  ASSUME O!TypeOK, FallbackKept, engines # {}, NEW u \in Updates
  PROVE  O!Route(u) \in Handlers \cup Engines
<1>1. llmHandler \in Handlers \cup Engines
  BY SomebodyHandles
<1>2. O!IsMap(commands) /\ O!IsMap(cardActions) /\ cardDefault \in Handlers \cup {NoHandler}
  BY DEF O!TypeOK
<1>3. ASSUME NEW v PROVE O!RouteCardAction(v) \in Handlers \cup Engines
  BY <1>1, <1>2 DEF O!RouteCardAction, O!IsMap
<1>4. ASSUME NEW t PROVE O!RouteText(t) \in Handlers \cup Engines
  <2> DEFINE M == O!MatchingRules(t)
             isCommand == O!ParseCommand(t) # "" /\ O!ParseCommand(t) \in DOMAIN commands
  <2>1. CASE isCommand
    BY <1>2, <2>1 DEF O!RouteText, O!IsMap
  <2>2. CASE ~isCommand /\ M # {}
    <3>1. keywords \in Seq(O!Registration)
      BY DEF O!TypeOK
    <3>2. M \subseteq DOMAIN keywords /\ M \subseteq Nat
      BY <3>1 DEF O!MatchingRules
    <3>3. O!Min(M) \in DOMAIN keywords
      BY <2>2, <3>2, LeastNat
    <3>4. keywords[O!Min(M)] \in O!Registration
      BY <3>1, <3>3
    <3>5. keywords[O!Min(M)].handler \in Handlers
      BY <3>4 DEF O!Registration
    <3> QED BY <2>2, <3>5 DEF O!RouteText
  <2>3. CASE ~isCommand /\ M = {}
    BY <1>1, <2>3 DEF O!RouteText
  <2> QED BY <2>1, <2>2, <2>3
<1> QED BY <1>3, <1>4 DEF O!Route

LEMMA OInvInit == O!Init => OInv
<1> SUFFICES ASSUME O!Init PROVE OInv
  OBVIOUS
<1> USE DEF O!Init
<1>1. O!TypeOK
  <2>1. O!IsMap(O!EmptyMap)
    BY DEF O!IsMap, O!EmptyMap
  <2>2. O!IsMap(commands) /\ O!IsMap(cardActions)
    BY <2>1 DEF O!IsMap
  <2>3. calls = <<>> /\ keywords = <<>>
    OBVIOUS
  <2>4. calls \in Seq(Registrations) /\ Len(calls) = 0 /\ keywords \in Seq(O!Registration)
    BY <2>3
  <2>5. MaxCalls \in Nat
    BY PartsAssumption DEF O!RouterAssumption
  <2>6. Len(calls) <= MaxCalls
    BY <2>4, <2>5
  <2> QED BY <2>2, <2>4, <2>6 DEF O!TypeOK
<1>2. CommandsKept /\ VerbsKept /\ DefaultKept /\ FallbackKept /\ LastRouted
  BY DEF CommandsKept, VerbsKept, DefaultKept, FallbackKept, LastRouted, OfCommand, OfVerb,
         OfDefault, OfFallback, O!EmptyMap
<1>3. RulesKept
  BY DEF RulesKept, OfKeywords, O!MatchingRules
<1> QED BY <1>1, <1>2, <1>3 DEF OInv

LEMMA OInvNext == OInv /\ [O!Next]_routerVars => OInv'
<1> SUFFICES ASSUME OInv, [O!Next]_routerVars PROVE OInv'
  OBVIOUS
<1> DEFINE Kept == CommandsKept /\ VerbsKept /\ RulesKept /\ DefaultKept
<1>1. ASSUME UNCHANGED <<commands, cardActions, keywords, cardDefault, calls>> PROVE Kept'
  <2>1. CommandsKept'
    BY <1>1 DEF OInv, CommandsKept, OfCommand, Newest
  <2>2. VerbsKept'
    BY <1>1 DEF OInv, VerbsKept, OfVerb, Newest
  <2>3. RulesKept'
    <3>1. \A t : OfKeywords(t)' = OfKeywords(t) /\ O!MatchingRules(t)' = O!MatchingRules(t)
      BY <1>1 DEF OfKeywords, O!MatchingRules
    <3> QED BY <1>1, <3>1 DEF OInv, RulesKept
  <2>4. DefaultKept'
    BY <1>1 DEF OInv, DefaultKept, OfDefault, Newest
  <2> QED BY <2>1, <2>2, <2>3, <2>4
<1>2. ASSUME NEW r \in Registrations, O!AddRoute(r) PROVE OInv'
  <2>1. O!TypeOK'
    BY <1>2, RouterTypesKept DEF OInv
  <2>2. CommandsKept' /\ VerbsKept' /\ RulesKept' /\ DefaultKept' /\ FallbackKept' /\ LastRouted'
    BY <1>2, CommandsKeptOn, VerbsKeptOn, RulesKeptOn, DefaultsKeptOn DEF OInv
  <2>3. (engines # {} => built)'
    BY <1>2, FieldsGrow DEF OInv, O!Register
  <2> QED BY <2>1, <2>2, <2>3 DEF OInv
<1>3. CASE O!NewRouter
  <2>1. Kept' /\ FallbackKept' /\ LastRouted'
    BY <1>1, <1>3 DEF O!NewRouter, O!maps, OInv, FallbackKept, OfFallback, Newest, LastRouted,
       O!Route, O!RouteCardAction, O!RouteText, O!MatchingRules
  <2>2. O!TypeOK' /\ built'
    BY <1>3 DEF O!NewRouter, O!maps, OInv, O!TypeOK, O!IsMap
  <2> QED BY <2>1, <2>2 DEF OInv
<1>4. ASSUME NEW e \in Engines, O!NewEngine(e) PROVE OInv'
  <2>1. Kept' /\ LastRouted'
    BY <1>1, <1>4 DEF O!NewEngine, O!maps, LastRouted
  <2>2. FallbackKept'
    <3>1. OfFallback' = OfFallback /\ calls' = calls /\ e \in engines' /\ engines \subseteq engines'
      BY <1>4 DEF O!NewEngine, OfFallback
    <3>2. engines \subseteq Engines /\ NoHandler \notin Engines
      BY RouterFacts DEF OInv, O!TypeOK
    <3>3. OfFallback # {} => llmHandler # NoHandler
      <4>1. OfFallback # {} => llmHandler = Newest(OfFallback)
        BY DEF OInv, FallbackKept
      <4>2. calls \in Seq(Registrations) /\ DOMAIN calls = 1 .. Len(calls) /\ Len(calls) \in Nat
        BY DEF OInv, O!TypeOK
      <4>3. OfFallback \subseteq 1 .. Len(calls)
        BY <4>2 DEF OfFallback
      <4>4. OfFallback # {} => calls[O!Max(OfFallback)] \in Registrations
        <5>1. OfFallback # {} => O!Max(OfFallback) \in OfFallback
          BY <4>2, <4>3, GreatestPlace
        <5>2. OfFallback # {} => O!Max(OfFallback) \in DOMAIN calls
          BY <4>2, <4>3, <5>1
        <5> QED BY <4>2, <5>2
      <4> QED BY <4>1, <4>4, RegistrationType, RouterFacts DEF Newest
    <3> QED BY <1>4, <3>1, <3>2, <3>3 DEF O!NewEngine, OInv, FallbackKept, Newest
  <2>3. O!TypeOK'
    BY <1>4 DEF O!NewEngine, O!maps, OInv, O!TypeOK, O!IsMap
  <2>4. built'
    BY <1>4 DEF O!NewEngine
  <2> QED BY <2>1, <2>2, <2>3, <2>4 DEF OInv
<1>5. ASSUME NEW u \in Updates, O!Handle(u) PROVE OInv'
  <2>1. Kept' /\ FallbackKept'
    BY <1>1, <1>5 DEF O!Handle, O!maps, OInv, FallbackKept, OfFallback, Newest
  <2>2. O!Route(u)' = O!Route(u)
    BY <1>5 DEF O!Handle, O!maps, O!Route, O!RouteCardAction, O!RouteText, O!MatchingRules
  <2>3. O!Route(u) \in Handlers \cup Engines
    BY <1>5, RouteType DEF O!Handle, OInv
  <2>4. routed' = <<u, O!Route(u)>> /\ engines' = engines /\ engines # {} /\ built' = built
    BY <1>5 DEF O!Handle
  <2>5. LastRouted'
    <3>1. routed'[1] = u /\ routed'[2] = O!Route(u)'
      BY <2>2, <2>4
    <3> QED BY <2>4, <3>1
            DEF LastRouted, O!Route, O!RouteCardAction, O!RouteText, O!MatchingRules
  <2>6. O!TypeOK'
    BY <1>5, <2>3, <2>4 DEF O!Handle, O!maps, OInv, O!TypeOK, O!IsMap
  <2> QED BY <2>1, <2>4, <2>5, <2>6 DEF OInv
<1>6. CASE UNCHANGED routerVars
  <2>1. Kept' /\ FallbackKept' /\ LastRouted'
    BY <1>1, <1>6 DEF routerVars, OInv, FallbackKept, OfFallback, Newest, LastRouted, O!Route,
       O!RouteCardAction, O!RouteText, O!MatchingRules
  <2>2. O!TypeOK' /\ (engines # {} => built)'
    BY <1>6 DEF routerVars, OInv, O!TypeOK, O!IsMap
  <2> QED BY <2>1, <2>2 DEF OInv
<1> QED BY <1>2, <1>3, <1>4, <1>5, <1>6 DEF O!Next

LEMMA OInvAlways == Spec => []OInv
<1>1. Init => OInv
  BY OInvInit DEF Init
<1>2. OInv /\ [Next]_vars => OInv'
  BY OnePart, OInvNext
<1> QED BY <1>1, <1>2, PTL DEF Spec

LEMMA CallsTyped ==
  ASSUME O!TypeOK
  PROVE  /\ calls \in Seq(Registrations) /\ Len(calls) \in Nat /\ DOMAIN calls = 1 .. Len(calls)
         /\ \A i \in DOMAIN calls : calls[i] \in O!Registration
<1>1. calls \in Seq(Registrations) /\ Len(calls) \in Nat /\ DOMAIN calls = 1 .. Len(calls)
  BY DEF O!TypeOK
<1>2. \A i \in DOMAIN calls : calls[i] \in Registrations
  BY <1>1
<1> QED BY <1>1, <1>2, RouterFacts

\* P are the registrations that speak of an update, of priority k, the best.
Foremost(u, P, k) ==
    /\ P \subseteq O!Speaking(u) /\ P # {} /\ k \in Int
    /\ \A i \in P : O!Priority(calls[i]) = k
    /\ \A i \in O!Speaking(u) \ P : O!Priority(calls[i]) > k

\* The owner is found among them.
LEMMA OwnerAmong ==
  ASSUME O!TypeOK, NEW u, NEW P, NEW k, Foremost(u, P, k)
  PROVE  /\ O!Speaking(u) # {}
         /\ (\A i \in P : O!IsKeyword(calls[i])) => O!Owner(u) = O!Min(P)
         /\ (\A i \in P : ~O!IsKeyword(calls[i])) => O!Owner(u) = O!Max(P)
<1> DEFINE best == {i \in O!Speaking(u) : \A j \in O!Speaking(u) :
                                            O!Priority(calls[i]) <= O!Priority(calls[j])}
<1>1. \A i \in O!Speaking(u) : O!Priority(calls[i]) \in Int
  BY DEF O!Priority
<1>2. best = P
  BY <1>1 DEF Foremost
<1>3. P \subseteq 1 .. Len(calls) /\ Len(calls) \in Nat
  BY CallsTyped DEF O!Speaking, Foremost
<1>4. P \subseteq Nat
  BY <1>3
<1>5. O!Min(P) \in P
  BY <1>4, LeastNat DEF Foremost
<1>6. O!Owner(u) = IF O!IsKeyword(calls[O!Min(P)]) THEN O!Min(P) ELSE O!Max(P)
  BY <1>2 DEF O!Owner
<1> QED BY <1>5, <1>6 DEF Foremost

LEMMA CardsOwned ==
  ASSUME OInv, engines # {}, NEW u \in Updates, u.kind = "card"
  PROVE  IF O!Speaking(u) = {} THEN O!Route(u) \in engines
                               ELSE O!Route(u) = calls[O!Owner(u)].handler
<1> DEFINE v == u.verb
<1>1. v \in Strings
  BY RouterFacts
<1>2. \A i \in DOMAIN calls : calls[i] \in O!Registration
  BY CallsTyped DEF OInv
<1>3. O!Speaking(u) = OfVerb(v) \cup OfDefault \cup OfFallback
  BY <1>2 DEF O!Speaking, O!Speaks, OfVerb, OfDefault, OfFallback, O!Registration
<1>4. /\ \A i \in OfVerb(v) : O!Priority(calls[i]) = 1 /\ ~O!IsKeyword(calls[i])
      /\ \A i \in OfDefault : O!Priority(calls[i]) = 2 /\ ~O!IsKeyword(calls[i])
      /\ \A i \in OfFallback : O!Priority(calls[i]) = 3 /\ ~O!IsKeyword(calls[i])
  BY DEF OfVerb, OfDefault, OfFallback, O!Priority, O!IsKeyword
<1>5. O!Route(u) = O!RouteCardAction(v)
  BY DEF O!Route
<1>6. CASE OfVerb(v) # {}
  <2>1. O!Speaking(u) # {} /\ O!Owner(u) = O!Max(OfVerb(v))
    <3> DEFINE Q == OfVerb(v)
    <3>1. Q \subseteq O!Speaking(u) /\ Q # {}
      BY <1>3, <1>4, <1>6
    <3>2. /\ \A i \in Q : O!Priority(calls[i]) = 1
          /\ \A i \in Q : ~O!IsKeyword(calls[i])
      BY <1>4
    <3>3. \A i \in O!Speaking(u) \ Q : O!Priority(calls[i]) > 1
      <4>1. \A i \in O!Speaking(u) \ Q : O!Priority(calls[i]) \in {2, 3}
        BY <1>3, <1>4, <1>6
      <4> HIDE DEF Q
      <4> QED BY <4>1
    <3> HIDE DEF Q
    <3>4. O!TypeOK
      BY DEF OInv
    <3>5. Foremost(u, Q, 1)
      BY <3>1, <3>2, <3>3 DEF Foremost
    <3>6. O!Speaking(u) # {} /\ O!Owner(u) = O!Max(Q)
      BY <3>2, <3>4, <3>5, OwnerAmong
    <3> QED BY <3>6 DEF Q
  <2> QED BY <1>1, <1>5, <1>6, <2>1 DEF OInv, VerbsKept, Newest, O!RouteCardAction
<1>7. CASE OfVerb(v) = {} /\ OfDefault # {}
  <2>1. O!Speaking(u) # {} /\ O!Owner(u) = O!Max(OfDefault)
    <3> DEFINE Q == OfDefault
    <3>1. Q \subseteq O!Speaking(u) /\ Q # {}
      BY <1>3, <1>4, <1>7
    <3>2. /\ \A i \in Q : O!Priority(calls[i]) = 2
          /\ \A i \in Q : ~O!IsKeyword(calls[i])
      BY <1>4
    <3>3. \A i \in O!Speaking(u) \ Q : O!Priority(calls[i]) > 2
      <4>1. \A i \in O!Speaking(u) \ Q : O!Priority(calls[i]) \in {3}
        BY <1>3, <1>4, <1>7
      <4> HIDE DEF Q
      <4> QED BY <4>1
    <3> HIDE DEF Q
    <3>4. O!TypeOK
      BY DEF OInv
    <3>5. Foremost(u, Q, 2)
      BY <3>1, <3>2, <3>3 DEF Foremost
    <3>6. O!Speaking(u) # {} /\ O!Owner(u) = O!Max(Q)
      BY <3>2, <3>4, <3>5, OwnerAmong
    <3> QED BY <3>6 DEF Q
  <2>2. v \notin DOMAIN cardActions
    BY <1>1, <1>7 DEF OInv, VerbsKept
  <2>3. cardDefault = Newest(OfDefault)
    BY <1>7 DEF OInv, DefaultKept
  <2>4. cardDefault # NoHandler
    <3>1. OfDefault \subseteq 1 .. Len(calls) /\ Len(calls) \in Nat
      BY CallsTyped DEF OInv, OfDefault
    <3>2. O!Max(OfDefault) \in OfDefault
      BY <1>7, <3>1, GreatestPlace
    <3>3. calls[O!Max(OfDefault)] \in O!Registration
      BY <1>2, <3>2 DEF OfDefault
    <3> QED BY <2>3, <3>3, RouterFacts DEF Newest, O!Registration
  <2> QED BY <1>5, <2>1, <2>2, <2>3, <2>4 DEF Newest, O!RouteCardAction
<1>8. CASE OfVerb(v) = {} /\ OfDefault = {}
  <2>1. v \notin DOMAIN cardActions /\ cardDefault = NoHandler
    BY <1>1, <1>8 DEF OInv, VerbsKept, DefaultKept
  <2>2. O!Route(u) = llmHandler
    BY <1>5, <2>1 DEF O!RouteCardAction
  <2>3. CASE OfFallback # {}
    <3>1. O!Speaking(u) # {} /\ O!Owner(u) = O!Max(OfFallback)
      <4>1. O!Speaking(u) = OfFallback /\ OfFallback # {}
        BY <1>3, <1>8, <2>3
      <4>2. /\ \A i \in OfFallback : O!Priority(calls[i]) = 3
            /\ \A i \in OfFallback : ~O!IsKeyword(calls[i])
        BY <1>4
      <4>3. Foremost(u, OfFallback, 3)
        BY <4>1, <4>2 DEF Foremost
      <4>4. O!TypeOK
        BY DEF OInv
      <4> QED BY <4>2, <4>3, <4>4, OwnerAmong
    <3> QED BY <2>2, <2>3, <3>1 DEF OInv, FallbackKept, Newest
  <2>4. CASE OfFallback = {}
    BY <1>3, <1>8, <2>2, <2>4 DEF OInv, FallbackKept
  <2> QED BY <2>3, <2>4
<1> QED BY <1>6, <1>7, <1>8

LEMMA TextsOwned ==
  ASSUME OInv, engines # {}, NEW u \in Updates, u.kind = "text"
  PROVE  IF O!Speaking(u) = {} THEN O!Route(u) \in engines
                               ELSE O!Route(u) = calls[O!Owner(u)].handler
<1> DEFINE t == u.text
           n == O!ParseCommand(t)
           C == IF n # "" THEN OfCommand(n) ELSE {}
<1>1. t \in Strings /\ n \in Strings /\ (n # "" <=> FirstWord[Trim[t]] # "")
  BY RouterFacts DEF O!ParseCommand
<1>2. \A i \in DOMAIN calls : calls[i] \in O!Registration
  BY CallsTyped DEF OInv
<1>3. O!Speaking(u) = C \cup OfKeywords(t) \cup OfFallback
  BY <1>1, <1>2 DEF O!Speaking, O!Speaks, OfCommand, OfKeywords, OfFallback, O!Registration,
                    O!ParseCommand, O!IsKeyword
<1>4. /\ \A i \in C : O!Priority(calls[i]) = 1 /\ ~O!IsKeyword(calls[i])
      /\ \A i \in OfKeywords(t) : O!Priority(calls[i]) = 2 /\ O!IsKeyword(calls[i])
      /\ \A i \in OfFallback : O!Priority(calls[i]) = 3 /\ ~O!IsKeyword(calls[i])
  BY DEF OfCommand, OfKeywords, OfFallback, O!Priority, O!IsKeyword
<1>5. O!Route(u) = O!RouteText(t)
  BY DEF O!Route
<1>6. n # "" /\ n \in DOMAIN commands <=> C # {}
  BY <1>1 DEF OInv, CommandsKept
<1>7. CASE C # {}
  <2>1. O!Speaking(u) # {} /\ O!Owner(u) = O!Max(C)
    <3> DEFINE Q == C
    <3>1. Q \subseteq O!Speaking(u) /\ Q # {}
      BY <1>3, <1>4, <1>7
    <3>2. /\ \A i \in Q : O!Priority(calls[i]) = 1
          /\ \A i \in Q : ~O!IsKeyword(calls[i])
      BY <1>4
    <3>3. \A i \in O!Speaking(u) \ Q : O!Priority(calls[i]) > 1
      <4>1. \A i \in O!Speaking(u) \ Q : O!Priority(calls[i]) \in {2, 3}
        BY <1>3, <1>4, <1>7
      <4> HIDE DEF Q
      <4> QED BY <4>1
    <3> HIDE DEF Q
    <3>4. O!TypeOK
      BY DEF OInv
    <3>5. Foremost(u, Q, 1)
      BY <3>1, <3>2, <3>3 DEF Foremost
    <3>6. O!Speaking(u) # {} /\ O!Owner(u) = O!Max(Q)
      BY <3>2, <3>4, <3>5, OwnerAmong
    <3> QED BY <3>6 DEF Q
  <2> QED BY <1>1, <1>5, <1>6, <1>7, <2>1 DEF OInv, CommandsKept, Newest, O!RouteText
<1>8. CASE C = {} /\ OfKeywords(t) # {}
  <2>1. O!Speaking(u) # {} /\ O!Owner(u) = O!Min(OfKeywords(t))
    <3> DEFINE Q == OfKeywords(t)
    <3>1. Q \subseteq O!Speaking(u) /\ Q # {}
      BY <1>3, <1>4, <1>8
    <3>2. /\ \A i \in Q : O!Priority(calls[i]) = 2
          /\ \A i \in Q : O!IsKeyword(calls[i])
      BY <1>4
    <3>3. \A i \in O!Speaking(u) \ Q : O!Priority(calls[i]) > 2
      <4>1. \A i \in O!Speaking(u) \ Q : O!Priority(calls[i]) \in {3}
        BY <1>3, <1>4, <1>8
      <4> HIDE DEF Q
      <4> QED BY <4>1
    <3> HIDE DEF Q
    <3>4. O!TypeOK
      BY DEF OInv
    <3>5. Foremost(u, Q, 2)
      BY <3>1, <3>2, <3>3 DEF Foremost
    <3>6. O!Speaking(u) # {} /\ O!Owner(u) = O!Min(Q)
      BY <3>2, <3>4, <3>5, OwnerAmong
    <3> QED BY <3>6 DEF Q
  <2>2. O!MatchingRules(t) # {} /\ keywords[O!Min(O!MatchingRules(t))] = calls[O!Min(OfKeywords(t))]
    BY <1>1, <1>8 DEF OInv, RulesKept
  <2> QED BY <1>5, <1>6, <1>8, <2>1, <2>2 DEF O!RouteText
<1>9. CASE C = {} /\ OfKeywords(t) = {}
  <2>1. O!MatchingRules(t) = {}
    BY <1>1, <1>9 DEF OInv, RulesKept
  <2>2. O!Route(u) = llmHandler
    BY <1>5, <1>6, <1>9, <2>1 DEF O!RouteText
  <2>3. CASE OfFallback # {}
    <3>1. O!Speaking(u) # {} /\ O!Owner(u) = O!Max(OfFallback)
      <4>1. O!Speaking(u) = OfFallback /\ OfFallback # {}
        BY <1>3, <1>9, <2>3
      <4>2. /\ \A i \in OfFallback : O!Priority(calls[i]) = 3
            /\ \A i \in OfFallback : ~O!IsKeyword(calls[i])
        BY <1>4
      <4>3. Foremost(u, OfFallback, 3)
        BY <4>1, <4>2 DEF Foremost
      <4>4. O!TypeOK
        BY DEF OInv
      <4> QED BY <4>2, <4>3, <4>4, OwnerAmong
    <3> QED BY <2>2, <2>3, <3>1 DEF OInv, FallbackKept, Newest
  <2>4. CASE OfFallback = {}
    BY <1>3, <1>9, <2>2, <2>4 DEF OInv, FallbackKept
  <2> QED BY <2>3, <2>4
<1> QED BY <1>7, <1>8, <1>9

\* Whatever an application registers, in whatever order, an update goes to the
\* registration the documented priority says, and to an engine only if none
\* speaks of it (Router.Handle).
THEOREM RoutesByPriority == Spec => []RoutedByPriority
<1>1. OInv => RoutedByPriority
  <2> SUFFICES ASSUME OInv, routed # <<>>
               PROVE  IF O!Speaking(routed[1]) = {} THEN routed[2] \in engines
                      ELSE routed[2] = calls[O!Owner(routed[1])].handler
    BY DEF RoutedByPriority, O!RoutedByPriority
  <2>1. engines # {} /\ routed[1] \in Updates /\ routed[2] = O!Route(routed[1])
    BY DEF OInv, LastRouted
  <2>2. routed[1].kind \in {"card", "text"}
    BY <2>1, RouterFacts
  <2> QED BY <2>1, <2>2, CardsOwned, TextsOwned
<1> QED BY <1>1, OInvAlways, PTL

LEMMA CardsLocal ==
  ASSUME O!TypeOK, NEW r \in Registrations, O!AddRoute(r),
         NEW u \in Updates, u.kind = "card", O!Route(u)' # O!Route(u)
  PROVE  O!Speaks(r, u) /\ ~O!IsKeyword(r)
<1>1. r.fn = "WithLLMHandler" \/ llmHandler' = llmHandler
  BY FieldsGrow
<1>2. r.fn \in {"WithCardActionDefault", "OnCardActionDefault"} \/ cardDefault' = cardDefault
  BY FieldsGrow
<1>3. \/ r.fn \in {"WithCardAction", "OnCardAction"} /\ r.name = u.verb
      \/ /\ u.verb \in DOMAIN cardActions' <=> u.verb \in DOMAIN cardActions
         /\ u.verb \in DOMAIN cardActions => cardActions'[u.verb] = cardActions[u.verb]
  BY FieldsGrow DEF O!With
<1>4. O!Route(u)' = O!RouteCardAction(u.verb)' /\ O!Route(u) = O!RouteCardAction(u.verb)
  BY DEF O!Route
<1>5. \/ r.fn = "WithLLMHandler"
      \/ r.fn \in {"WithCardActionDefault", "OnCardActionDefault"}
      \/ r.fn \in {"WithCardAction", "OnCardAction"} /\ r.name = u.verb
  BY <1>1, <1>2, <1>3, <1>4 DEF O!RouteCardAction
<1> QED BY <1>5 DEF O!Speaks, O!IsKeyword

LEMMA TextsLocal ==
  ASSUME O!TypeOK, NEW r \in Registrations, O!AddRoute(r),
         NEW u \in Updates, u.kind = "text", O!Route(u)' # O!Route(u)
  PROVE  O!Speaks(r, u) /\ (O!IsKeyword(r) => O!Route(u) = llmHandler)
<1> DEFINE t == u.text
           n == O!ParseCommand(t)
           old == O!MatchingRules(t)
           new == O!MatchingRules(t)'
<1>1. t \in Strings /\ n \in Strings /\ (n # "" <=> FirstWord[Trim[t]] # "")
      /\ n = Lower[FirstWord[Trim[t]]]
  BY RouterFacts DEF O!ParseCommand
<1>2. r \in O!Registration
  BY RegistrationType
<1>3. O!Route(u)' = O!RouteText(t)' /\ O!Route(u) = O!RouteText(t)
  BY DEF O!Route
<1>4. CASE r.fn = "WithLLMHandler"
  BY <1>4 DEF O!Speaks, O!IsKeyword
<1>5. CASE r.fn = "WithCommands"
  <2>1. llmHandler' = llmHandler /\ keywords' = keywords
    BY <1>5, FieldsGrow DEF O!IsKeyword
  <2>2. CASE n # "" /\ Lower[r.name] = n
    BY <1>1, <1>5, <2>2 DEF O!Speaks, O!IsKeyword
  <2>3. CASE ~(n # "" /\ Lower[r.name] = n)
    <3>1. \/ n = ""
          \/ /\ n \in DOMAIN commands' <=> n \in DOMAIN commands
             /\ n \in DOMAIN commands => commands'[n] = commands[n]
      BY <1>5, <2>3, FieldsGrow DEF O!With
    <3> QED BY <1>3, <2>1, <3>1 DEF O!RouteText, O!MatchingRules
  <2> QED BY <2>2, <2>3
<1>6. CASE O!IsKeyword(r)
  <2>1. llmHandler' = llmHandler /\ commands' = commands
    BY <1>6, FieldsGrow DEF O!IsKeyword
  <2>2. CASE n # "" /\ n \in DOMAIN commands
    BY <1>3, <2>1, <2>2 DEF O!RouteText
  <2>3. CASE ~(n # "" /\ n \in DOMAIN commands)
    <3>1. O!Route(u) = IF old # {} THEN keywords[O!Min(old)].handler ELSE llmHandler
      BY <1>3, <2>3 DEF O!RouteText
    <3>2. O!Route(u)' = IF new # {} THEN keywords'[O!Min(new)].handler ELSE llmHandler'
      BY <1>3, <2>1, <2>3 DEF O!RouteText
    <3>3. /\ new = {} <=> old = {} /\ ~(O!IsKeyword(r) /\ O!Matches(r, t))
          /\ old # {} => keywords'[O!Min(new)] = keywords[O!Min(old)]
      BY <1>1, RulesGrow
    <3>4. old = {} /\ O!Matches(r, t)
      BY <1>6, <2>1, <3>1, <3>2, <3>3
    <3> QED BY <1>6, <3>1, <3>4 DEF O!Speaks, O!IsKeyword
  <2> QED BY <2>2, <2>3
<1>7. CASE r.fn \in {"WithCardAction", "OnCardAction", "WithCardActionDefault", "OnCardActionDefault"}
  <2>1. commands' = commands /\ keywords' = keywords /\ llmHandler' = llmHandler
    BY <1>7, FieldsGrow DEF O!IsKeyword
  <2> QED BY <1>3, <2>1 DEF O!RouteText, O!MatchingRules
<1> QED BY <1>2, <1>4, <1>5, <1>6, <1>7 DEF O!Registration, O!IsKeyword

\* A registration takes only updates it speaks of, and a keyword rule only
\* what went to the fallback, in every router (WithKeyword, OnCardAction).
THEOREM RegistrationsAreLocal == Spec => RegistrationsLocal
<1> DEFINE Local == calls' # calls =>
                       LET r == calls'[Len(calls')]
                       IN  \A u \in Updates : O!Route(u)' # O!Route(u) =>
                             O!Speaks(r, u) /\ (O!IsKeyword(r) => O!Route(u) = llmHandler)
<1>1. ASSUME OInv, [Next]_vars PROVE [Local]_(O!vars)
  <2> SUFFICES ASSUME calls' # calls, NEW u \in Updates, O!Route(u)' # O!Route(u)
               PROVE  LET r == calls'[Len(calls')]
                      IN  O!Speaks(r, u) /\ (O!IsKeyword(r) => O!Route(u) = llmHandler)
    OBVIOUS
  <2>1. O!Next
    BY <1>1, OnePart DEF routerVars
  <2>2. PICK r \in Registrations : O!AddRoute(r)
    BY <2>1 DEF O!Next, O!NewRouter, O!NewEngine, O!Handle
  <2>3. O!TypeOK
    BY <1>1 DEF OInv
  <2>4. calls'[Len(calls')] = r
    <3>1. O!Register(r) /\ calls \in Seq(Registrations)
      BY <2>2, <2>3, FieldsGrow DEF O!TypeOK
    <3> QED BY <3>1, Appended
  <2>5. u.kind \in {"card", "text"}
    BY RouterFacts
  <2> QED BY <2>2, <2>3, <2>4, <2>5, CardsLocal, TextsLocal
<1>2. [][Local]_(O!vars) <=> RegistrationsLocal
  BY DEF RegistrationsLocal, O!RegistrationsLocal
<1> HIDE DEF Local
<1> QED BY <1>1, <1>2, OInvAlways, PTL DEF Spec

-----------------------------------------------------------------------------
(* The IDs of conversations. *)

LEMMA Halves ==
  /\ B \in Nat /\ B \div 2 \in Nat /\ B = 2 * (B \div 2) /\ B \div 2 > 0
  /\ I!UserIds = 1 .. (B \div 2 - 1)
<1>1. B \in Nat /\ B \div 2 \in Nat /\ B = 2 * (B \div 2) /\ B \div 2 > 0
  BY PartsAssumption DEF I!WidthAssumption
<1> DEFINE h == B \div 2
<1> HIDE DEF h
<1>2. \A u : u \in I!UserIds <=> u \in 1 .. (h - 1)
  BY <1>1 DEF I!UserIds, I!Int32, h
<1> QED BY <1>1, <1>2 DEF h

LEMMA Division ==
  ASSUME NEW n \in Nat, n > 0, NEW q \in Nat, NEW r \in 0 .. (n - 1)
  PROVE  (q * n + r) \div n = q /\ (q * n + r) % n = r
<1> DEFINE d == (q * n + r) \div n
           m == (q * n + r) % n
<1>1. q * n \in Nat /\ q * n + r \in Nat
  OBVIOUS
<1>2. d \in Int /\ m \in 0 .. (n - 1) /\ q * n + r = n * d + m
  BY <1>1
<1> HIDE DEF d, m
<1>3. ~(d >= q + 1)
  <2> SUFFICES ASSUME d >= q + 1 PROVE FALSE
    OBVIOUS
  <2>1. n * d >= n * (q + 1)
    BY <1>2
  <2>2. n * (q + 1) = q * n + n
    OBVIOUS
  <2> QED BY <1>1, <1>2, <2>1, <2>2
<1>4. ~(d <= q - 1)
  <2> SUFFICES ASSUME d <= q - 1 PROVE FALSE
    OBVIOUS
  <2>1. n * d <= n * (q - 1)
    BY <1>2
  <2>2. n * (q - 1) = q * n - n
    OBVIOUS
  <2> QED BY <1>1, <1>2, <2>1, <2>2
<1>5. d = q
  BY <1>2, <1>3, <1>4
<1>6. m = r
  BY <1>2, <1>5
<1> QED BY <1>5, <1>6 DEF d, m

\* What is read from the ID of two users.
LEMMA Packed ==
  ASSUME NEW hi \in I!UserIds, NEW lo \in I!UserIds, hi >= lo
  PROVE  LET id == I!PrivateConversationID(hi, lo)
         IN  /\ id = I!PrivateConversationID(lo, hi) /\ id >= B
             /\ I!High(id) = hi /\ I!Low(id) = lo
<1> DEFINE h == B \div 2
           id == I!PrivateConversationID(hi, lo)
<1>1. B \in Nat /\ h \in Nat /\ B = 2 * h /\ h > 0 /\ hi \in 1 .. (h - 1) /\ lo \in 1 .. (h - 1)
  BY Halves
<1> HIDE DEF h
<1>2. id = hi * B + lo /\ id = I!PrivateConversationID(lo, hi)
  BY <1>1 DEF I!PrivateConversationID
<1>3. hi * B >= B
  <2>1. hi * B = B + (hi - 1) * B /\ (hi - 1) * B >= 0
    BY <1>1
  <2> QED BY <1>1, <2>1
<1>4. id \div B = hi /\ id % B = lo
  BY <1>1, <1>2, Division
<1>5. I!High(id) = hi /\ I!Low(id) = lo
  BY <1>1, <1>4 DEF I!High, I!Low, h
<1>6. id >= B
  <2>1. hi * B \in Int
    BY <1>1
  <2> QED BY <1>1, <1>2, <1>3, <2>1
<1> QED BY <1>2, <1>5, <1>6

\* What is read from the ID of a group.
LEMMA Group ==
  ASSUME NEW g \in I!UserIds
  PROVE  g < B /\ I!High(g) = 0 /\ I!Low(g) = g
<1> DEFINE h == B \div 2
<1>1. B \in Nat /\ h \in Nat /\ B = 2 * h /\ h > 0 /\ g \in 1 .. (h - 1)
  BY Halves
<1> HIDE DEF h
<1>2. (0 * B + g) \div B = 0 /\ (0 * B + g) % B = g /\ 0 * B + g = g
  BY <1>1, Division
<1> QED BY <1>1, <1>2 DEF I!High, I!Low, h


\* The larger of two users is in the high half.
LEMMA Pair ==
  ASSUME NEW x \in I!UserIds, NEW y \in I!UserIds
  PROVE  LET id == I!PrivateConversationID(x, y)
         IN  /\ id = I!PrivateConversationID(y, x) /\ id >= B /\ I!High(id) # 0
             /\ {I!High(id), I!Low(id)} = {x, y}
             /\ x >= y => I!High(id) = x /\ I!Low(id) = y
             /\ y >= x => I!High(id) = y /\ I!Low(id) = x
<1>1. x \in Int /\ y \in Int /\ x # 0 /\ y # 0
  BY Halves
<1>2. CASE x >= y
  BY <1>1, <1>2, Packed
<1>3. CASE y >= x
  BY <1>1, <1>3, Packed
<1> QED BY <1>1, <1>2, <1>3

LEMMA PairFaithful ==
  ASSUME NEW me \in I!UserIds, NEW you \in I!UserIds, users = <<me, you>>,
         conv = I!PrivateConversationID(me, you)
  PROVE  I!IdsFaithful
<1>1. /\ conv = I!PrivateConversationID(you, me) /\ conv >= B /\ I!High(conv) # 0
      /\ {I!High(conv), I!Low(conv)} = {me, you}
      /\ me >= you => I!High(conv) = me /\ I!Low(conv) = you
      /\ you >= me => I!High(conv) = you /\ I!Low(conv) = me
  BY Pair
<1>2. me \in Int /\ you \in Int /\ B \in Int
  BY Halves
<1>3. I!ConversationPeerID(conv, me) = you /\ I!ConversationPeerID(conv, you) = me
  BY <1>1, <1>2 DEF I!ConversationPeerID, I!IsGroupConversation
<1>4. {I!ConversationUserIDs(conv)[1], I!ConversationUserIDs(conv)[2]} = {me, you}
  BY <1>1 DEF I!ConversationUserIDs
<1>5. ASSUME NEW x \in I!UserIds, NEW y \in I!UserIds, I!PrivateConversationID(x, y) = conv
      PROVE  {x, y} = {me, you}
  BY <1>1, <1>5, Pair
<1>6. ASSUME NEW g \in I!UserIds
      PROVE  /\ conv # g /\ I!GroupIDFromConversation(conv) # g
             /\ I!GroupIDFromConversation(g) = g /\ I!ConversationPeerID(g, me) = g
  <2>1. g < B /\ g # 0 /\ g \in Int /\ I!High(g) = 0 /\ I!Low(g) = g
    BY Group, Halves
  <2>2. conv # g
    BY <1>1, <1>2, <2>1
  <2> QED BY <1>1, <2>1, <2>2
          DEF I!GroupIDFromConversation, I!IsPrivateConversation, I!ConversationPeerID,
              I!IsGroupConversation
<1> QED BY <1>1, <1>3, <1>4, <1>5, <1>6 DEF I!IdsFaithful

CInv == users # <<>> =>
          \E x, y \in I!UserIds : users = <<x, y>> /\ conv = I!PrivateConversationID(x, y)

\* Whatever the width of the halves, the ID of a private conversation says
\* whose it is, and that it is no group's (PrivateConversationID).
THEOREM IdsAreFaithful == Spec => []IdsFaithful
<1>1. Init => CInv
  BY DEF Init, I!Init, CInv
<1>2. CInv /\ [Next]_vars => CInv'
  <2> SUFFICES ASSUME CInv, [I!Next]_conversationVars PROVE CInv'
    BY OnePart
  <2>1. CASE UNCHANGED conversationVars
    BY <2>1 DEF CInv, conversationVars
  <2>2. ASSUME NEW x \in I!Int32, NEW y \in I!Int32, I!Meet(x, y) PROVE CInv'
    BY <2>2 DEF I!Meet, CInv
  <2> QED BY <2>1, <2>2 DEF I!Next
<1>3. CInv => IdsFaithful
  <2> SUFFICES ASSUME CInv PROVE I!IdsFaithful
    BY DEF IdsFaithful
  <2>1. CASE users = <<>>
    BY <2>1 DEF I!IdsFaithful
  <2>2. CASE users # <<>>
    <3>1. PICK x, y \in I!UserIds : users = <<x, y>> /\ conv = I!PrivateConversationID(x, y)
      BY <2>2 DEF CInv
    <3> QED BY <3>1, PairFaithful
  <2> QED BY <2>1, <2>2
<1> QED BY <1>1, <1>2, <1>3, PTL DEF Spec

-----------------------------------------------------------------------------
(* All parts. *)

LEMMA RedactionTypes == RP!RInv => R!TypeOK
BY DEF RP!RInv, RP!TypeOK, R!TypeOK

LEMMA WebhookTypes == WInv => W!TypeOK
<1> SUFFICES ASSUME WInv PROVE W!TypeOK
  OBVIOUS
<1>1. selfId \in {NoUser, Self}
  BY DEF WInv
<1> QED BY <1>1 DEF WInv, W!TypeOK

\* The types of all parts, for any constants: above all that a router with an
\* engine never calls a nil handler, whatever is registered, and that merging
\* configurations in any layers gives a configuration.
THEOREM PartsTyped == Spec => []TypeOK
<1>1. RP!RInv /\ WInv /\ (S!TypeOK /\ SInv /\ LInv) /\ OInv => TypeOK
  BY RedactionTypes, WebhookTypes DEF TypeOK, OInv
<1> QED BY <1>1, RedactionInvariant, WInvAlways, StartupInvariant, OInvAlways, PTL
=============================================================================
