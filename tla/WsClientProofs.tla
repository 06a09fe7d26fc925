---------------------------- MODULE WsClientProofs ----------------------------
(***************************************************************************)
(* The WebSocket client, for any limits and any number of connections:     *)
(* one connection is live at a time, the counter of missed pongs stays     *)
(* bounded although heartbeats of several connections share it, a          *)
(* connection is given up only for pings of its own, nobody waits for a    *)
(* mutex whose holder waits, and no reader waits without a heartbeat.      *)
(***************************************************************************)
EXTENDS WsClient, FiniteSetTheorems, TLAPS

\* Where the goroutine is when it has no connection.
Unconnected == {"start", "dial", "failed", "wait", "stopped"}

\* Only the latest connection can be live, and only while the loop is on it.
ConnInv ==
    /\ TypeOK
    /\ loop \notin Unconnected => dialled \in Conns
    /\ \A c \in Conns : c < dialled => c \in closed
    /\ loop \in Unconnected \cup {"unregister"} => \A c \in Conns : c <= dialled => c \in closed
    /\ loop \in Unconnected \cup {"register"} => conn = 0
    /\ conn # 0 => conn = dialled
    /\ \A c \in Conns : c > dialled => heartbeat[c] = "none"

LEMMA ConnInit == Init => ConnInv
<1> SUFFICES ASSUME Init PROVE ConnInv
  OBVIOUS
<1>1. TypeOK
  BY LimitAssumption, BackoffAssumption DEF Init, TypeOK, Conns
<1>2. \A c \in Conns : ~(c < dialled) /\ ~(c <= dialled) /\ heartbeat[c] = "none"
  BY DEF Init, Conns
<1> QED BY <1>1, <1>2 DEF Init, ConnInv, Unconnected

LEMMA ConnLoop == ConnInv /\ Loop => ConnInv'
<1> SUFFICES ASSUME ConnInv, Loop PROVE ConnInv'
  OBVIOUS
<1> USE LimitAssumption DEF ConnInv, TypeOK, Conns, Go, loopVars, Unconnected
<1>1. CASE Resolve
  <2>1. /\ loop = "start" /\ loop' \in {"dial", "stopped"}
        /\ UNCHANGED <<heartbeat, mu, closed, missed, cancelled, alive, unanswered, strays,
                       conn, dialled, ended, backoff, served>>
    BY <1>1 DEF Resolve
  <2>2. TypeOK'
    BY <2>1
  <2>3. loop \in Unconnected /\ loop' \in Unconnected
    BY <2>1
  <2> HIDE DEF Unconnected, TypeOK
  <2> QED BY <2>1, <2>2, <2>3
<1>2. CASE Dial
  <2>1. /\ loop = "dial" /\ served' = FALSE
        /\ UNCHANGED <<heartbeat, mu, closed, missed, cancelled, alive, unanswered, strays,
                       conn, ended, backoff>>
    BY <1>2 DEF Dial
  <2>2. CASE loop' = "register" /\ dialled < MaxConns /\ dialled' = dialled + 1
    <3>1. dialled \in Nat /\ dialled' \in Conns
      BY <2>2
    <3>2. TypeOK'
      <4> HIDE DEF Conns, Unconnected
      <4> QED BY <2>1, <2>2, <3>1
    <3>3. \A c \in Conns : /\ c \in Int
                           /\ c < dialled' => c \in closed
                           /\ c > dialled' => heartbeat[c] = "none"
      BY <2>1, <2>2, <3>1
    <3> HIDE DEF TypeOK, Conns
    <3> QED BY <2>1, <2>2, <3>1, <3>2, <3>3
  <2>3. CASE loop' = "failed" /\ dialled' = dialled
    BY <2>1, <2>3
  <2> QED BY <1>2, <2>2, <2>3 DEF Dial
<1>3. CASE Register
  BY <1>3 DEF Register
<1>4. CASE LockForAuth \/ AuthWritten
  BY <1>4 DEF LockForAuth, AuthWritten
<1>5. CASE AuthResponse \/ ReadFrame \/ ReadFails
  BY <1>5 DEF AuthResponse, ReadFrame, ReadFails
<1>6. CASE Authenticated
  BY <1>6 DEF Authenticated
<1>7. CASE CountPong
  BY <1>7 DEF CountPong
<1>8. CASE Teardown
  BY <1>8 DEF Teardown
<1>9. CASE Unregister
  BY <1>9 DEF Unregister
<1>10. CASE AfterDial
  BY <1>10 DEF AfterDial
<1>11. CASE Wait
  <2>1. backoff' \in Nat
    BY <1>11, BackoffAssumption DEF Wait
  <2> QED BY <1>11, <2>1 DEF Wait
<1> QED BY <1>1, <1>2, <1>3, <1>4, <1>5, <1>6, <1>7, <1>8, <1>9, <1>10, <1>11 DEF Loop

LEMMA ConnBeat ==
  ASSUME ConnInv, NEW c \in Conns,
         HeartbeatTick(c) \/ HeartbeatDone(c) \/ HeartbeatStep(c)
  PROVE  ConnInv'
<1> USE LimitAssumption DEF ConnInv, TypeOK, Conns, Beat, loopVars, Unconnected
<1>1. CASE HeartbeatTick(c) \/ HeartbeatDone(c)
  BY <1>1 DEF HeartbeatTick, HeartbeatDone
<1>2. CASE CountMissed(c)
  BY <1>2 DEF CountMissed
<1>3. CASE LockForPing(c)
  BY <1>3 DEF LockForPing
<1>4. CASE PingWritten(c)
  BY <1>4 DEF PingWritten
<1>5. CASE CloseConn(c)
  BY <1>5 DEF CloseConn
<1> QED BY <1>1, <1>2, <1>3, <1>4, <1>5 DEF HeartbeatStep

LEMMA ConnNext == ConnInv /\ [Next]_vars => ConnInv'
<1> SUFFICES ASSUME ConnInv, [Next]_vars PROVE ConnInv'
  OBVIOUS
<1>1. CASE Cancel \/ PeerDies
  BY <1>1 DEF Cancel, PeerDies, ConnInv, TypeOK, Conns, loopVars
<1>2. CASE UNCHANGED vars
  BY <1>2 DEF vars, ConnInv, TypeOK, Conns, loopVars
<1> QED BY <1>1, <1>2, ConnLoop, ConnBeat DEF Next

LEMMA ConnAlways == Spec => []ConnInv
BY ConnInit, ConnNext, PTL DEF Spec

\* The variables have their types (WsClient).
THEOREM TypeCorrect == Spec => []TypeOK
<1>1. ConnInv => TypeOK
  BY DEF ConnInv
<1> QED BY <1>1, ConnAlways, PTL

\* However often the client reconnects, and whatever its heartbeats still do,
\* at most one connection is live, and wsClient.conn is it (dial).
THEOREM OneConnectionAtATime == Spec => []OneConnection
<1>1. ConnInv => OneConnection
  <2> SUFFICES ASSUME ConnInv PROVE OneConnection
    OBVIOUS
  <2>1. 1 .. dialled \ closed \subseteq {dialled}
    BY LimitAssumption DEF ConnInv, TypeOK, Conns
  <2>2. Cardinality({dialled}) = 1 /\ IsFiniteSet({dialled})
    BY FS_Singleton
  <2>3. Cardinality(1 .. dialled \ closed) <= 1
    BY <2>1, <2>2, FS_Subset, FS_CardinalityType
  <2>4. loop \in {"dial", "failed", "wait", "stopped"} => conn = 0 /\ 1 .. dialled \subseteq closed
    BY LimitAssumption DEF ConnInv, TypeOK, Conns, Unconnected
  <2> QED BY <2>3, <2>4 DEF OneConnection, ConnInv
<1> QED BY <1>1, ConnAlways, PTL

-----------------------------------------------------------------------------
(* The backoff. *)

LEMMA BackoffNext ==
  ASSUME ConnInv, backoff = Second \/ backoff <= MaxInterval, [Next]_vars
  PROVE  (backoff = Second \/ backoff <= MaxInterval)'
<1>1. CASE Wait
  BY <1>1, BackoffAssumption DEF Wait, ConnInv, TypeOK
<1>2. Next /\ ~Wait => UNCHANGED backoff
  BY DEF Next, Loop, HeartbeatStep, Resolve, Dial, Register, LockForAuth, AuthWritten,
         AuthResponse, Authenticated, ReadFrame, CountPong, ReadFails, Teardown, Unregister,
         AfterDial, HeartbeatTick, HeartbeatDone, CountMissed, LockForPing, PingWritten,
         CloseConn, Cancel, PeerDies, loopVars
<1> QED BY <1>1, <1>2 DEF vars, loopVars

\* No wait but the first exceeds the maximum (connect).
THEOREM WaitsAreCapped == Spec => []BackoffCapped
<1> DEFINE Capped == backoff = Second \/ backoff <= MaxInterval
<1>1. Init => Capped
  BY DEF Init
<1>2. ConnInv /\ Capped /\ [Next]_vars => Capped'
  BY BackoffNext
<1>3. Capped => BackoffCapped
  BY DEF BackoffCapped
<1> QED BY <1>1, <1>2, <1>3, ConnAlways, PTL DEF Spec

-----------------------------------------------------------------------------
(* The counter of missed pongs. *)

\* The heartbeats that have given their connection up.
GivenUp == {c \in Conns : heartbeat[c] \in {"close", "exited"}}

LEMMA GivenUpFinite ==
  ASSUME NEW h
  PROVE  LET G == {c \in Conns : h[c] \in {"close", "exited"}}
         IN  IsFiniteSet(G) /\ Cardinality(G) \in Nat
<1>1. IsFiniteSet(Conns)
  BY FS_Interval, LimitAssumption DEF Conns
<1> QED BY <1>1, FS_Subset, FS_CardinalityType

\* Steps other than these leave the counter alone, and no heartbeat takes
\* back that it has given up, except to begin.
LEMMA CounterAlone ==
  ASSUME ConnInv, [Next]_vars,
         ~Authenticated, ~CountPong, \A c \in Conns : ~CountMissed(c)
  PROVE  missed' = missed /\ GivenUp \subseteq GivenUp'
<1> USE DEF ConnInv, TypeOK, GivenUp
<1>1. ASSUME NEW c \in Conns, HeartbeatTick(c) \/ HeartbeatDone(c) \/ HeartbeatStep(c)
      PROVE  missed' = missed /\ GivenUp \subseteq GivenUp'
  BY <1>1 DEF Beat, HeartbeatTick, HeartbeatDone, HeartbeatStep, LockForPing, PingWritten, CloseConn
<1>2. CASE UNCHANGED vars \/ Cancel \/ PeerDies \/ Loop
  <2>1. missed' = missed /\ heartbeat' = heartbeat
    BY <1>2 DEF vars, Cancel, PeerDies, Loop, Resolve, Dial, Register, LockForAuth, AuthWritten,
                AuthResponse, ReadFrame, ReadFails, Teardown, Unregister, AfterDial, Wait
  <2> QED BY <2>1
<1> QED BY <1>1, <1>2 DEF Next

LEMMA MissedNext ==
  ASSUME ConnInv, MissedBounded, [Next]_vars
  PROVE  MissedBounded'
<1> DEFINE n == Cardinality(GivenUp)
<1>1. /\ IsFiniteSet(GivenUp) /\ n \in Nat /\ IsFiniteSet(GivenUp') /\ Cardinality(GivenUp') \in Nat
  BY GivenUpFinite DEF GivenUp
<1>2. MissedBounded <=> missed <= MissedPongLimit + n
  BY DEF MissedBounded, GivenUp
<1>3. MissedBounded' <=> missed' <= MissedPongLimit + Cardinality(GivenUp')
  BY DEF MissedBounded, GivenUp
<1>4. missed \in Nat /\ MissedPongLimit \in Nat
  BY LimitAssumption DEF ConnInv, TypeOK
<1> HIDE DEF n
<1>5. CASE Authenticated \/ CountPong
  <2>1. missed' = 0
    BY <1>5 DEF Authenticated, CountPong
  <2> QED BY <1>1, <1>3, <1>4, <2>1
<1>6. ASSUME NEW c \in Conns, CountMissed(c) PROVE MissedBounded'
  <2>1. missed' = missed + 1 /\ heartbeat[c] = "count"
    BY <1>6 DEF CountMissed, Beat
  <2>2. CASE missed' <= MissedPongLimit
    BY <1>1, <1>3, <1>4, <2>1, <2>2
  <2>3. CASE missed' > MissedPongLimit
    <3>1. heartbeat' = [heartbeat EXCEPT ![c] = "close"]
      BY <1>6, <2>3 DEF CountMissed, Beat
    <3>2. GivenUp' = GivenUp \cup {c} /\ c \notin GivenUp
      BY <2>1, <3>1 DEF GivenUp, ConnInv, TypeOK
    <3>3. Cardinality(GivenUp') = n + 1
      BY <1>1, <3>2, FS_AddElement DEF n
    <3> QED BY <1>1, <1>2, <1>3, <1>4, <2>1, <3>3
  <2> QED BY <1>4, <2>1, <2>2, <2>3
<1>7. CASE ~Authenticated /\ ~CountPong /\ \A c \in Conns : ~CountMissed(c)
  <2>1. missed' = missed /\ GivenUp \subseteq GivenUp'
    BY <1>7, CounterAlone
  <2>2. n <= Cardinality(GivenUp')
    BY <1>1, <2>1, FS_Subset DEF n
  <2> QED BY <1>1, <1>2, <1>3, <1>4, <2>1, <2>2
<1> QED BY <1>5, <1>6, <1>7

\* However many heartbeats share the counter, each can push it past the limit
\* once at most (heartbeatLoop).
THEOREM MissedStaysBounded == Spec => []MissedBounded
<1>1. Init => MissedBounded
  <2> SUFFICES ASSUME Init PROVE MissedBounded
    OBVIOUS
  <2>1. missed = 0 /\ MissedPongLimit \in Nat
    BY LimitAssumption DEF Init
  <2>2. Cardinality({c \in Conns : heartbeat[c] \in {"close", "exited"}}) \in Nat
    BY GivenUpFinite
  <2> QED BY <2>1, <2>2 DEF MissedBounded
<1>2. ConnInv /\ MissedBounded /\ [Next]_vars => MissedBounded'
  BY MissedNext
<1> QED BY <1>1, <1>2, ConnAlways, PTL DEF Spec

-----------------------------------------------------------------------------
(* What a missed pong stands for. *)

\* Every increment since the last reset is a ping of the latest connection
\* that was not answered, that ping being still to be sent in one place, or
\* an increment by the heartbeat of an older connection.
Accounted ==
    \A c \in Conns : c = dialled =>
        /\ heartbeat[c] \in {"idle", "count", "writing"} => missed <= unanswered + strays
        /\ heartbeat[c] = "ping" => missed <= unanswered + strays + 1

LEMMA AccountedNext ==
  ASSUME ConnInv, Accounted, [Next]_vars
  PROVE  Accounted'
<1> USE DEF ConnInv, TypeOK, Accounted
<1>1. CASE Authenticated \/ CountPong
  <2>1. missed' = 0 /\ unanswered' = 0 /\ strays' = 0
    BY <1>1 DEF Authenticated, CountPong
  <2> QED BY <2>1
<1>2. CASE Dial
  <2>1. UNCHANGED <<heartbeat, missed, unanswered, strays>>
    BY <1>2 DEF Dial
  <2>2. CASE dialled' = dialled
    BY <2>1, <2>2
  <2>3. CASE dialled' = dialled + 1
    <3>1. \A c \in Conns : c = dialled' => heartbeat[c] = "none"
      BY <2>3 DEF Conns
    <3> QED BY <2>1, <3>1
  <2> QED BY <1>2, <2>2, <2>3 DEF Dial
<1>3. ASSUME NEW c \in Conns, CountMissed(c) PROVE Accounted'
  BY <1>3 DEF CountMissed, Beat, loopVars
<1>4. ASSUME NEW c \in Conns, LockForPing(c) PROVE Accounted'
  BY <1>4 DEF LockForPing, Beat, loopVars
<1>5. ASSUME NEW c \in Conns,
             HeartbeatTick(c) \/ HeartbeatDone(c) \/ PingWritten(c) \/ CloseConn(c)
      PROVE  Accounted'
  BY <1>5 DEF HeartbeatTick, HeartbeatDone, PingWritten, CloseConn, Beat, loopVars
<1>6. CASE UNCHANGED vars \/ Cancel \/ PeerDies \/ (Loop /\ ~Authenticated /\ ~CountPong /\ ~Dial)
  <2>1. UNCHANGED <<heartbeat, missed, unanswered, strays, dialled>>
    BY <1>6 DEF vars, Cancel, PeerDies, Loop, Resolve, Register, LockForAuth, AuthWritten,
                AuthResponse, ReadFrame, ReadFails, Teardown, Unregister, AfterDial, Wait, loopVars
  <2> QED BY <2>1
<1> QED BY <1>1, <1>2, <1>3, <1>4, <1>5, <1>6 DEF Next, HeartbeatStep, Loop

\* A connection is given up only after as many pings of its own went
\* unanswered as the limit says, increments by older heartbeats counting for
\* one each (heartbeatLoop).
THEOREM TimeoutsAreEarned == Spec => TimeoutEarned
<1> DEFINE Earned == \A c \in Conns :
                        heartbeat'[c] = "close" /\ heartbeat[c] # "close" /\ c = dialled
                            => unanswered + strays >= MissedPongLimit
<1>1. Init => Accounted
  BY DEF Init, Accounted
<1>2. ConnInv /\ Accounted /\ [Next]_vars => Accounted'
  BY AccountedNext
<1>3. ConnInv /\ Accounted /\ [Next]_vars => [Earned]_vars
  <2> SUFFICES ASSUME ConnInv, Accounted, Next, NEW c \in Conns,
                      heartbeat'[c] = "close", heartbeat[c] # "close", c = dialled
               PROVE  unanswered + strays >= MissedPongLimit
    BY DEF vars
  <2>1. CountMissed(c)
    <3>1. CASE Loop \/ Cancel \/ PeerDies
      BY <3>1 DEF Loop, Cancel, PeerDies, Resolve, Dial, Register, LockForAuth, AuthWritten,
         AuthResponse, Authenticated, ReadFrame, CountPong, ReadFails, Teardown, Unregister,
         AfterDial, Wait, ConnInv, TypeOK
    <3>2. ASSUME NEW d \in Conns, HeartbeatTick(d) \/ HeartbeatDone(d) \/ HeartbeatStep(d)
          PROVE  CountMissed(c)
      BY <3>2 DEF HeartbeatTick, HeartbeatDone, HeartbeatStep, LockForPing, PingWritten, CloseConn,
                  CountMissed, Beat, ConnInv, TypeOK
    <3> QED BY <3>1, <3>2 DEF Next
  <2>2. heartbeat[c] = "count" /\ missed + 1 > MissedPongLimit
    BY <2>1 DEF CountMissed, Beat, ConnInv, TypeOK
  <2> QED BY <2>2, LimitAssumption DEF Accounted, ConnInv, TypeOK
<1> QED BY <1>1, <1>2, <1>3, ConnAlways, PTL DEF Spec, TimeoutEarned

-----------------------------------------------------------------------------
(* What the waits of the client are for. *)

\* The mutex is held by who writes a frame, and by nobody else.
HeldToWrite ==
    /\ mu = -1 <=> loop = "authWriting"
    /\ \A c \in Conns : mu = c <=> heartbeat[c] = "writing"

\* While the reader waits on a connection, that connection has a heartbeat
\* that has not given it up, unless it is closed or the context is over.
ReaderWatched ==
    loop \in {"read", "pong"} =>
        \/ dialled \in closed \/ cancelled
        \/ heartbeat[dialled] \in {"idle", "count", "ping", "writing", "close"}

\* The context of a connection is over when the next one is dialled, and not
\* before its own is torn down.
EndedInTime ==
    \A c \in ended :
        c < dialled \/ (c = dialled /\ loop \in Unconnected \cup {"unregister"})

WatchInv == HeldToWrite /\ EndedInTime /\ ReaderWatched

Beats == {"none", "idle", "count", "ping", "writing", "close", "exited"}

LEMMA WatchLoop == ConnInv /\ WatchInv /\ Loop => WatchInv'
<1> SUFFICES ASSUME ConnInv, WatchInv, Loop PROVE WatchInv'
  OBVIOUS
<1>0. /\ dialled \in Int /\ \A c \in Conns : c \in Int /\ c # -1 /\ c # 0
      /\ ended \subseteq Conns /\ heartbeat \in [Conns -> Beats]
  BY LimitAssumption DEF ConnInv, TypeOK, Conns, Beats
<1> USE DEF WatchInv, HeldToWrite, EndedInTime, ReaderWatched, Go, loopVars, Unconnected
<1>1. CASE Resolve \/ AfterDial \/ Wait
  BY <1>0, <1>1 DEF Resolve, AfterDial, Wait
<1>2. CASE Dial
  BY <1>0, <1>2 DEF Dial
<1>3. CASE Register \/ LockForAuth \/ AuthWritten
  BY <1>0, <1>3 DEF Register, LockForAuth, AuthWritten
<1>4. CASE AuthResponse \/ ReadFrame \/ ReadFails
  BY <1>0, <1>4 DEF AuthResponse, ReadFrame, ReadFails
<1>5. CASE Authenticated
  <2>1. dialled \in Conns
    BY <1>5 DEF Authenticated, ConnInv
  <2>2. /\ mu = 0 /\ mu' = 0 /\ loop' = "read" /\ loop = "authOk"
        /\ heartbeat'[dialled] = "idle"
        /\ \A c \in Conns : c # dialled => heartbeat'[c] = heartbeat[c]
        /\ UNCHANGED <<dialled, ended>>
    BY <1>0, <1>5, <2>1 DEF Authenticated
  <2> QED BY <1>0, <2>1, <2>2
<1>6. CASE CountPong
  BY <1>0, <1>6 DEF CountPong
<1>7. CASE Teardown \/ Unregister
  BY <1>0, <1>7 DEF Teardown, Unregister
<1> QED BY <1>1, <1>2, <1>3, <1>4, <1>5, <1>6, <1>7 DEF Loop

LEMMA WatchBeat ==
  ASSUME ConnInv, WatchInv, NEW c \in Conns,
         HeartbeatTick(c) \/ HeartbeatDone(c) \/ HeartbeatStep(c)
  PROVE  WatchInv'
<1>0. /\ dialled \in Int /\ \A d \in Conns : d \in Int /\ d # -1 /\ d # 0
      /\ heartbeat \in [Conns -> Beats]
      /\ loop \in {"read", "pong"} => dialled \in Conns
  BY LimitAssumption DEF ConnInv, TypeOK, Conns, Unconnected, Beats
<1> USE DEF WatchInv, HeldToWrite, EndedInTime, ReaderWatched, Beat, loopVars, Unconnected
<1>1. CASE HeartbeatTick(c)
  BY <1>0, <1>1 DEF HeartbeatTick
<1>2. CASE HeartbeatDone(c)
  BY <1>0, <1>2 DEF HeartbeatDone, Ended
<1>3. CASE CountMissed(c)
  BY <1>0, <1>3 DEF CountMissed
<1>4. CASE LockForPing(c)
  BY <1>0, <1>4 DEF LockForPing
<1>5. CASE PingWritten(c)
  BY <1>0, <1>5 DEF PingWritten
<1>6. CASE CloseConn(c)
  BY <1>0, <1>6 DEF CloseConn
<1> QED BY <1>1, <1>2, <1>3, <1>4, <1>5, <1>6 DEF HeartbeatStep

LEMMA WatchAlways == Spec => []WatchInv
<1>1. Init => WatchInv
  BY DEF Init, WatchInv, HeldToWrite, EndedInTime, ReaderWatched, Conns
<1>2. ConnInv /\ WatchInv /\ [Next]_vars => WatchInv'
  <2> SUFFICES ASSUME ConnInv, WatchInv, [Next]_vars PROVE WatchInv'
    OBVIOUS
  <2>1. CASE Cancel \/ PeerDies \/ UNCHANGED vars
    BY <2>1 DEF Cancel, PeerDies, vars, loopVars, WatchInv, HeldToWrite, EndedInTime, ReaderWatched,
                Conns
  <2> QED BY <2>1, WatchLoop, WatchBeat DEF Next
<1> QED BY <1>1, <1>2, ConnAlways, PTL DEF Spec

\* The mutex is held only while a frame is written, a write being cut off by
\* its timeout, and frames are written one at a time: who waits for the mutex
\* never waits for somebody who waits (writeFrame, heartbeatLoop, dial).
THEOREM MutexHeldToWrite == Spec => []HeldToWrite
<1>1. WatchInv => HeldToWrite
  BY DEF WatchInv
<1> QED BY <1>1, WatchAlways, PTL

\* The reader, which waits without a deadline, is never left alone with a
\* connection: its heartbeat is running, or has closed the connection, or the
\* context is over (readLoop, heartbeatLoop).
THEOREM ReaderNeverAlone == Spec => []ReaderWatched
<1>1. WatchInv => ReaderWatched
  BY DEF WatchInv
<1> QED BY <1>1, WatchAlways, PTL
=============================================================================
