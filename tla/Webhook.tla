------------------------------ MODULE Webhook ------------------------------
(***************************************************************************)
(* The webhook handler of client/transport.go, which net/http runs in one  *)
(* goroutine per request, and Client.SelfUserID, which it shares with      *)
(* whoever else asks for the agent's ID (ConnectWebSocket, applications).  *)
(* Two mutexes: that of the handler is held while SelfUserID runs, which   *)
(* holds that of the client while GetProfile runs.  The ID is 0 until a    *)
(* call succeeded, and the filter reads it without a lock.  What happens   *)
(* to an update that was dispatched is the subject of Pipeline.            *)
(***************************************************************************)
EXTENDS Integers

CONSTANTS
    Requests,    \* requests to the webhook
    Others,      \* other callers of SelfUserID
    Deliveries,  \* what a request may be
    Users, Self, \* user IDs, and that of the agent
    NoUser,      \* 0
    NoCaller,
    MaxDrift     \* WebhookTimestampDrift

Callers == Requests \cup Others

\* A delivery: what ReadAll returns, how it is signed, how far its timestamp
\* is from this clock, and its content, an update by a user or another.
Delivery == [read : BOOLEAN, signature : {"missing", "valid", "invalid"}, drift : Int,
             content : Users \cup {"garbage", "noMessage"}]

DeliveriesAssumption ==
    /\ Deliveries \subseteq Delivery /\ Deliveries # {} /\ MaxDrift \in Nat
    /\ {"garbage", "noMessage"} \cap Users = {}
    /\ Self \in Users \ {NoUser} /\ NoCaller \notin Callers
    /\ Requests \cap Others = {}

VARIABLES
    pc,               \* where each goroutine is
    handlerMu,        \* who holds webhookHandler.mu
    selfMu,           \* who holds Client.selfMu
    handlerResolved,  \* webhookHandler.selfResolved
    selfResolved,     \* Client.selfResolved
    selfId,           \* Client.selfID
    failed,           \* requests whose own call of SelfUserID failed
    delivery,         \* what each request is
    status,           \* the answer to each request, 0 if there is none yet
    dispatched        \* requests whose update went to the handler

lockVars    == <<handlerMu, selfMu>>
selfVars    == <<handlerResolved, selfResolved, selfId, failed>>
requestVars == <<delivery, status, dispatched>>
vars        == <<pc, lockVars, selfVars, requestVars>>

Places == {"idle", "arrived", "asks", "fetches", "reads", "filters", "done"}

TypeOK ==
    /\ pc \in [Callers -> Places]
    /\ handlerMu \in Requests \cup {NoCaller}
    /\ selfMu \in Callers \cup {NoCaller}
    /\ handlerResolved \in BOOLEAN /\ selfResolved \in BOOLEAN
    /\ selfId \in {NoUser, Self}
    /\ failed \subseteq Requests
    /\ delivery \in [Requests -> Deliveries]
    /\ status \in [Requests -> {0, 200, 400, 401}]
    /\ dispatched \subseteq Requests

Init ==
    /\ pc = [c \in Callers |-> "idle"]
    /\ handlerMu = NoCaller /\ selfMu = NoCaller
    /\ handlerResolved = FALSE /\ selfResolved = FALSE /\ selfId = NoUser
    /\ failed = {}
    /\ delivery = [r \in Requests |-> CHOOSE d \in Deliveries : TRUE]
    /\ status = [r \in Requests |-> 0]
    /\ dispatched = {}

Go(c, from, to) == pc[c] = from /\ pc' = [pc EXCEPT ![c] = to]

Arrive(r, d) ==
    /\ Go(r, "idle", "arrived")
    /\ delivery' = [delivery EXCEPT ![r] = d]
    /\ UNCHANGED <<lockVars, selfVars, status, dispatched>>

\* Another part of the program asks for the ID.
Ask(c) ==
    /\ Go(c, "idle", "asks")
    /\ UNCHANGED <<lockVars, selfVars, requestVars>>

\* The handler's mutex: released at once if the ID is resolved.
LockHandler(r) ==
    /\ handlerMu = NoCaller
    /\ IF handlerResolved
         THEN Go(r, "arrived", "reads") /\ UNCHANGED handlerMu
         ELSE Go(r, "arrived", "asks") /\ handlerMu' = r
    /\ UNCHANGED <<selfMu, selfVars, requestVars>>

\* What follows SelfUserID: a request notes the outcome and releases the
\* handler's mutex; the reading of the request goes on in either case.
Released(c) == IF handlerMu = c THEN NoCaller ELSE handlerMu

\* A bug: the handler takes the ID for resolved after an error as well.
ReturnedResolved(c, ok) ==
    /\ pc' = [pc EXCEPT ![c] = IF c \in Requests THEN "reads" ELSE "done"]
    /\ handlerMu' = Released(c)
    /\ handlerResolved' = (handlerResolved \/ c \in Requests)
    /\ failed' = IF c \in Requests /\ ~ok THEN failed \cup {c} ELSE failed
    /\ UNCHANGED requestVars

Returned(c, ok) ==
    /\ pc' = [pc EXCEPT ![c] = IF c \in Requests THEN "reads" ELSE "done"]
    /\ handlerMu' = Released(c)
    /\ handlerResolved' = (handlerResolved \/ (c \in Requests /\ ok))
    /\ failed' = IF c \in Requests /\ ~ok THEN failed \cup {c} ELSE failed
    /\ UNCHANGED requestVars

Free(mu) == mu = NoCaller

\* Bugs: the profile is fetched without the mutex, and with the other one.
FetchUnlocked(c) ==
    /\ ~selfResolved
    /\ Go(c, "asks", "fetches")
    /\ selfMu' = c
    /\ UNCHANGED <<handlerMu, selfVars, requestVars>>

FetchWrongMutex(c) ==
    /\ Free(selfMu) /\ ~selfResolved
    /\ Go(c, "asks", "fetches")
    /\ handlerMu' = c
    /\ UNCHANGED <<selfMu, selfVars, requestVars>>

\* SelfUserID under the client's mutex: the ID is known, or it has to be
\* fetched, with the mutex held.
Known(c) ==
    /\ pc[c] = "asks" /\ Free(selfMu) /\ selfResolved
    /\ Returned(c, TRUE)
    /\ UNCHANGED <<selfMu, selfResolved, selfId>>

Fetch(c) ==
    /\ Free(selfMu) /\ ~selfResolved
    /\ Go(c, "asks", "fetches")
    /\ selfMu' = c
    /\ UNCHANGED <<handlerMu, selfVars, requestVars>>

\* GetProfile answers, or fails: at the latest when its time is over.  An
\* answer without a profile counts as an ID of 0, for good.
Profile(c) ==
    /\ pc[c] = "fetches"
    /\ selfId' \in {Self, NoUser} /\ selfResolved' = TRUE /\ selfMu' = NoCaller
    /\ Returned(c, TRUE)

\* A bug: the error is returned with the mutex held.
ProfileFailsLocked(c) ==
    /\ pc[c] = "fetches"
    /\ Returned(c, FALSE)
    /\ UNCHANGED <<selfMu, selfResolved, selfId>>

ProfileFails(c) ==
    /\ pc[c] = "fetches"
    /\ selfMu' = NoCaller
    /\ Returned(c, FALSE)
    /\ UNCHANGED <<selfResolved, selfId>>

-----------------------------------------------------------------------------
\* The rest of ServeHTTP holds no lock.

\* WebhookVerify: both headers are there, the clocks agree within the drift,
\* in either direction, and the signature is the one of the body.
Verified(d) == d.signature = "valid" /\ d.drift \in -MaxDrift..MaxDrift

Verdict(d) ==
    CASE ~d.read -> 400
      [] d.read /\ ~Verified(d) -> 401
      [] d.read /\ Verified(d) /\ d.content = "garbage" -> 400
      [] OTHER -> 200

\* The answer; an update that converts to nothing ends here.
Answer(r) ==
    /\ Go(r, "reads",
          IF Verdict(delivery[r]) = 200 /\ delivery[r].content \in Users
            THEN "filters" ELSE "done")
    /\ status' = [status EXCEPT ![r] = Verdict(delivery[r])]
    /\ UNCHANGED <<lockVars, selfVars, delivery, dispatched>>

\* What mustSelfID may read.  A request whose SelfUserID returned sees what
\* was written before; one whose call failed races with the goroutine that
\* writes the ID, and may read 0 after it is written.
Readable(r) == {selfId} \cup (IF r \in failed THEN {NoUser} ELSE {})

Filter(r) ==
    /\ Go(r, "filters", "done")
    /\ \E id \in Readable(r) :
          dispatched' = IF delivery[r].content = id THEN dispatched ELSE dispatched \cup {r}
    /\ UNCHANGED <<lockVars, selfVars, delivery, status>>

Resolve(c) == Known(c) \/ Fetch(c) \/ Profile(c) \/ ProfileFails(c)
Serve(r) == LockHandler(r) \/ Resolve(r) \/ Answer(r) \/ Filter(r)

Next ==
    \/ \E r \in Requests : Serve(r) \/ \E d \in Deliveries : Arrive(r, d)
    \/ \E c \in Others : Resolve(c) \/ Ask(c)

\* net/http and the callers run their goroutines, and a call of GetProfile
\* returns, the context of a request and the HTTP client having timeouts.
Fairness ==
    /\ \A r \in Requests : WF_vars(Serve(r))
    /\ \A c \in Others : WF_vars(Resolve(c))

Spec == Init /\ [][Next]_vars /\ Fairness

-----------------------------------------------------------------------------
Good(d) == d.read /\ Verified(d) /\ d.content \in Users

\* The one answer of GetProfile that counts had no profile in it.
Nameless == selfResolved /\ selfId = NoUser

\* "Self-messages are filtered out automatically", and only they: the agent's
\* own update reaches the handler only by a request whose own attempt to
\* resolve the ID failed, whatever other requests and callers do meanwhile,
\* or if the server answered without an ID; and an update of somebody else is
\* lost only then, and only if its user ID is 0 as well.
FilteredExactly ==
    \A r \in Requests : pc[r] = "done" /\ Good(delivery[r]) =>
        /\ r \in dispatched /\ delivery[r].content = Self => r \in failed \/ Nameless
        /\ r \notin dispatched /\ delivery[r].content # Self =>
              (r \in failed \/ Nameless) /\ delivery[r].content = NoUser

\* The profile is fetched until it succeeds once, by one caller at a time,
\* and never again: callers that waited for the mutex use the answer.
OneFetch ==
    /\ \A c, d \in Callers : pc[c] = "fetches" /\ pc[d] = "fetches" => c = d
    /\ selfResolved => \A c \in Callers : pc[c] # "fetches"

\* Every request is answered, although requests wait for each other and for
\* GetProfile, and although GetProfile may fail each time.
RequestsAnswered ==
    \A r \in Requests : (pc[r] = "arrived") ~> (status[r] # 0)
=============================================================================
