------------------------------- MODULE WsClient -------------------------------
(***************************************************************************)
(* The WebSocket client of client/transport.go: the goroutine that dials,  *)
(* authenticates, reads and reconnects, and one heartbeat goroutine per    *)
(* authenticated connection.  They share the counter of missed pongs and   *)
(* a mutex that is held while a frame is written.  Connections are         *)
(* numbered in the order they are dialled.                                 *)
(***************************************************************************)
EXTENDS Integers, FiniteSets

CONSTANTS
    MissedPongLimit, \* pongs that may be missed before the connection is given up
    Second,          \* the first backoff
    MaxInterval,     \* the maximum backoff
    MaxConns         \* bound on the connections dialled

ASSUME LimitAssumption == MissedPongLimit \in Nat /\ MaxConns \in Nat
ASSUME BackoffAssumption == Second \in Nat \ {0} /\ MaxInterval \in Nat \ {0}

VARIABLES
    loop,       \* where the connecting goroutine is
    heartbeat,  \* where the heartbeat goroutine of each connection is
    mu,         \* who holds the mutex: 0 nobody, c the heartbeat of c, -1 the loop
    conn,       \* wsClient.conn: the number of the connection, 0 for nil
    dialled,    \* the number of the latest connection
    closed,     \* the connections closed on this side or known to be broken
    ended,      \* the connections whose context is cancelled
    missed,     \* missedPongs
    backoff,
    cancelled,  \* whether the context of ConnectWebSocket is cancelled
    alive,      \* whether the peer still answers
    unanswered, \* pings on the latest connection since its last pong (history)
    strays,     \* increments of missed by older heartbeats since it was reset (history)
    served      \* whether the latest connection was authenticated (history)

loopVars == <<conn, dialled, ended, backoff, served>>
vars == <<loop, heartbeat, mu, closed, missed, cancelled, alive, unanswered, strays, loopVars>>

Conns == 1 .. MaxConns

TypeOK ==
    /\ loop \in {"start", "dial", "register", "authWrite", "authWriting", "authRead", "authOk",
                 "read", "pong", "teardown", "unregister", "failed", "wait", "stopped"}
    /\ heartbeat \in [Conns -> {"none", "idle", "count", "ping", "writing", "close", "exited"}]
    /\ mu \in Conns \cup {0, -1}
    /\ conn \in Conns \cup {0}
    /\ dialled \in Conns \cup {0}
    /\ closed \subseteq Conns /\ ended \subseteq Conns
    /\ missed \in Nat /\ backoff \in Nat /\ unanswered \in Nat /\ strays \in Nat
    /\ cancelled \in BOOLEAN /\ alive \in BOOLEAN /\ served \in BOOLEAN

Init ==
    /\ loop = "start"
    /\ heartbeat = [c \in Conns |-> "none"]
    /\ mu = 0 /\ conn = 0 /\ dialled = 0
    /\ closed = {} /\ ended = {}
    /\ missed = 0 /\ unanswered = 0 /\ strays = 0
    /\ backoff = Second
    /\ cancelled = FALSE /\ alive = TRUE /\ served = FALSE

Go(from, to) == loop = from /\ loop' = to

-----------------------------------------------------------------------------
(* The connecting goroutine. *)

\* ConnectWebSocket: the self ID and the gateway URL, or an error.
Resolve ==
    /\ Go("start", "dial") \/ Go("start", "stopped")
    /\ UNCHANGED <<heartbeat, mu, closed, missed, cancelled, alive, unanswered, strays, loopVars>>

Dial ==
    /\ \/ /\ ~cancelled /\ dialled < MaxConns
          /\ Go("dial", "register")
          /\ dialled' = dialled + 1
       \/ /\ Go("dial", "failed")
          /\ UNCHANGED dialled
    /\ served' = FALSE
    /\ UNCHANGED <<heartbeat, mu, closed, missed, cancelled, alive, unanswered, strays,
                   conn, ended, backoff>>

\* w.conn = conn, under the mutex.
Register ==
    /\ Go("register", "authWrite")
    /\ mu = 0
    /\ conn' = dialled
    /\ UNCHANGED <<heartbeat, mu, closed, missed, cancelled, alive, unanswered, strays,
                   dialled, ended, backoff, served>>

\* writeFrame takes the mutex and keeps it until the frame is written or the
\* write has failed.
LockForAuth ==
    /\ Go("authWrite", "authWriting")
    /\ mu = 0
    /\ mu' = -1
    /\ UNCHANGED <<heartbeat, closed, missed, cancelled, alive, unanswered, strays, loopVars>>

AuthWritten ==
    /\ Go("authWriting", "authRead") \/ Go("authWriting", "teardown")
    /\ mu' = 0
    /\ UNCHANGED <<heartbeat, closed, missed, cancelled, alive, unanswered, strays, loopVars>>

\* One frame is read; anything but a successful AUTH_RESPONSE is an error,
\* and so are the timeout and a cancelled context.
AuthResponse ==
    /\ \/ alive /\ Go("authRead", "authOk")
       \/ Go("authRead", "teardown")
    /\ UNCHANGED <<heartbeat, mu, closed, missed, cancelled, alive, unanswered, strays, loopVars>>

\* A bug: the counter is not reset for a new connection.
AuthenticatedStale ==
    /\ Go("authOk", "read")
    /\ mu = 0
    /\ unanswered' = 0 /\ strays' = 0
    /\ heartbeat' = [heartbeat EXCEPT ![dialled] = "idle"]
    /\ served' = TRUE
    /\ UNCHANGED <<mu, closed, missed, cancelled, alive, conn, dialled, ended, backoff>>

\* The counter is reset under the mutex; the heartbeat starts.
Authenticated ==
    /\ Go("authOk", "read")
    /\ mu = 0
    /\ missed' = 0 /\ unanswered' = 0 /\ strays' = 0
    /\ heartbeat' = [heartbeat EXCEPT ![dialled] = "idle"]
    /\ served' = TRUE
    /\ UNCHANGED <<mu, closed, cancelled, alive, conn, dialled, ended, backoff>>

\* readLoop gets a frame: a pong, or one that leaves the client as it is (an
\* update goes to a goroutine of its own).  A frame that is already there may
\* still be read when the context is over.
ReadFrame ==
    /\ alive /\ dialled \notin closed
    /\ Go("read", "pong") \/ Go("read", "read")
    /\ UNCHANGED <<heartbeat, mu, closed, missed, cancelled, alive, unanswered, strays, loopVars>>

\* A bug: a pong takes one off the counter.
CountPongOnce ==
    /\ Go("pong", "read")
    /\ mu = 0
    /\ missed' = missed - 1 /\ unanswered' = 0 /\ strays' = 0
    /\ UNCHANGED <<heartbeat, mu, closed, cancelled, alive, loopVars>>

\* The pong frame resets the counter, under the mutex.
CountPong ==
    /\ Go("pong", "read")
    /\ mu = 0
    /\ missed' = 0 /\ unanswered' = 0 /\ strays' = 0
    /\ UNCHANGED <<heartbeat, mu, closed, cancelled, alive, loopVars>>

\* Reading fails: the context is over, the connection was closed here, or the
\* peer says it is.  A peer that has gone silent says nothing.
ReadFails ==
    /\ cancelled \/ dialled \in closed \/ alive
    /\ Go("read", "teardown")
    /\ UNCHANGED <<heartbeat, mu, closed, missed, cancelled, alive, unanswered, strays, loopVars>>

\* A bug: the connection is not closed.
TeardownOpen ==
    /\ Go("teardown", "unregister")
    /\ ended' = ended \cup {dialled}
    /\ UNCHANGED <<heartbeat, mu, closed, missed, cancelled, alive, unanswered, strays,
                   conn, dialled, backoff, served>>

\* The deferred function of dial: the context of the connection is cancelled
\* and the connection closed, then w.conn reset under the mutex.
Teardown ==
    /\ Go("teardown", "unregister")
    /\ ended' = ended \cup {dialled}
    /\ closed' = closed \cup {dialled}
    /\ UNCHANGED <<heartbeat, mu, missed, cancelled, alive, unanswered, strays,
                   conn, dialled, backoff, served>>

Unregister ==
    /\ Go("unregister", "failed")
    /\ mu = 0
    /\ conn' = 0
    /\ UNCHANGED <<heartbeat, mu, closed, missed, cancelled, alive, unanswered, strays,
                   dialled, ended, backoff, served>>

\* A bug: a cancelled context is not looked at.
AfterDialBlind ==
    /\ Go("failed", "dial")
    /\ UNCHANGED <<heartbeat, mu, closed, missed, cancelled, alive, unanswered, strays, loopVars>>

\* dial returned, and it always returns an error: connect gives up or waits.
AfterDial ==
    /\ IF cancelled THEN Go("failed", "stopped") ELSE Go("failed", "wait")
    /\ UNCHANGED <<heartbeat, mu, closed, missed, cancelled, alive, unanswered, strays, loopVars>>

\* A bug: the backoff is not capped.
WaitUncapped ==
    /\ \/ Go("wait", "dial") /\ backoff' = 2 * backoff
       \/ cancelled /\ Go("wait", "stopped") /\ UNCHANGED backoff
    /\ UNCHANGED <<heartbeat, mu, closed, missed, cancelled, alive, unanswered, strays,
                   conn, dialled, ended, served>>

\* The timer of the backoff, or the cancelled context.
Wait ==
    /\ \/ /\ Go("wait", "dial")
          /\ backoff' = IF 2 * backoff < MaxInterval THEN 2 * backoff ELSE MaxInterval
       \/ /\ cancelled
          /\ Go("wait", "stopped")
          /\ UNCHANGED backoff
    /\ UNCHANGED <<heartbeat, mu, closed, missed, cancelled, alive, unanswered, strays,
                   conn, dialled, ended, served>>

Loop == \/ Resolve \/ Dial \/ Register \/ LockForAuth \/ AuthWritten \/ AuthResponse
        \/ Authenticated \/ ReadFrame \/ CountPong \/ ReadFails \/ Teardown \/ Unregister
        \/ AfterDial \/ Wait

-----------------------------------------------------------------------------
(* The heartbeat of connection c. *)

Beat(c, from, to) == heartbeat[c] = from /\ heartbeat' = [heartbeat EXCEPT ![c] = to]

\* A bug: the heartbeat has the context of the client, not of its connection.
EndedLate(c) == cancelled

\* The context of the connection is over.
Ended(c) == cancelled \/ c \in ended

\* The ticker fires.  When the context is over as well, select may still
\* choose the ticker.
HeartbeatTick(c) ==
    /\ Beat(c, "idle", "count")
    /\ UNCHANGED <<loop, mu, closed, missed, cancelled, alive, unanswered, strays, loopVars>>

HeartbeatDone(c) ==
    /\ Ended(c)
    /\ Beat(c, "idle", "exited")
    /\ UNCHANGED <<loop, mu, closed, missed, cancelled, alive, unanswered, strays, loopVars>>

\* missedPongs++ under the mutex, whatever connection the counter is about.
CountMissed(c) ==
    /\ mu = 0
    /\ missed' = missed + 1
    /\ Beat(c, "count", IF missed' > MissedPongLimit THEN "close" ELSE "ping")
    /\ strays' = IF c = dialled THEN strays ELSE strays + 1
    /\ UNCHANGED <<loop, mu, closed, cancelled, alive, unanswered, loopVars>>

LockForPing(c) ==
    /\ Beat(c, "ping", "writing")
    /\ mu = 0
    /\ mu' = c
    /\ unanswered' = IF c = dialled THEN unanswered + 1 ELSE unanswered
    /\ UNCHANGED <<loop, closed, missed, cancelled, alive, strays, loopVars>>

\* The ping is written, or the write fails: that is only logged, but the
\* library closes a connection whose write is cut off by its context.
PingWritten(c) ==
    /\ Beat(c, "writing", "idle")
    /\ mu' = 0
    /\ closed' \in {closed, closed \cup {c}}
    /\ UNCHANGED <<loop, missed, cancelled, alive, unanswered, strays, loopVars>>

\* Bugs: the heartbeat goes on after Close; it gives up without closing.
CloseConnAndGoOn(c) ==
    /\ Beat(c, "close", "idle")
    /\ closed' = closed \cup {c}
    /\ UNCHANGED <<loop, mu, missed, cancelled, alive, unanswered, strays, loopVars>>

GiveUp(c) ==
    /\ Beat(c, "close", "exited")
    /\ UNCHANGED <<loop, mu, closed, missed, cancelled, alive, unanswered, strays, loopVars>>

\* conn.Close on the connection the heartbeat was started for.
CloseConn(c) ==
    /\ Beat(c, "close", "exited")
    /\ closed' = closed \cup {c}
    /\ UNCHANGED <<loop, mu, missed, cancelled, alive, unanswered, strays, loopVars>>

HeartbeatStep(c) == CountMissed(c) \/ LockForPing(c) \/ PingWritten(c) \/ CloseConn(c)

-----------------------------------------------------------------------------
(* The environment. *)

Cancel ==
    /\ ~cancelled
    /\ cancelled' = TRUE
    /\ UNCHANGED <<loop, heartbeat, mu, closed, missed, alive, unanswered, strays, loopVars>>

\* The peer goes silent: no frame, no error, no end of the connection.
PeerDies ==
    /\ alive
    /\ alive' = FALSE
    /\ UNCHANGED <<loop, heartbeat, mu, closed, missed, cancelled, unanswered, strays, loopVars>>

Next ==
    \/ Loop
    \/ \E c \in Conns : HeartbeatTick(c) \/ HeartbeatDone(c) \/ HeartbeatStep(c)
    \/ Cancel
    \/ PeerDies

\* Goroutines run, tickers fire, timeouts end every dial, write and wait for
\* the auth response, a waiter gets the mutex although others keep taking it
\* (sync.Mutex is starvation-free), and select chooses the cancelled context
\* if it is offered again and again.  Reading is only known to end when it
\* must fail: sooner or later the library closes a connection whose context
\* is over.
Fairness ==
    /\ WF_vars(Resolve \/ Dial \/ AuthWritten \/ AuthResponse \/ Teardown \/ AfterDial \/ Wait)
    /\ SF_vars(Register \/ LockForAuth \/ Authenticated \/ CountPong \/ Unregister)
    /\ SF_vars((cancelled \/ dialled \in closed) /\ ReadFails)
    /\ \A c \in Conns : /\ WF_vars(HeartbeatTick(c))
                        /\ SF_vars(HeartbeatDone(c))
                        /\ WF_vars(PingWritten(c) \/ CloseConn(c))
                        /\ SF_vars(CountMissed(c) \/ LockForPing(c))

Spec == Init /\ [][Next]_vars /\ Fairness

-----------------------------------------------------------------------------
(* There is never more than one live connection, and wsClient.conn is it   *)
(* from the moment it is set until the moment it is torn down (dial and    *)
(* its deferred function).                                                 *)
OneConnection ==
    /\ Cardinality(1 .. dialled \ closed) <= 1
    /\ conn # 0 => conn = dialled
    /\ loop \in {"dial", "failed", "wait", "stopped"} => conn = 0 /\ 1 .. dialled \subseteq closed

(* A connection is given up for missed pongs only after MissedPongLimit    *)
(* pings of its own went unanswered, each increment by the heartbeat of an *)
(* older connection making up for one of them (heartbeatLoop).             *)
TimeoutEarned ==
    [][\A c \in Conns : heartbeat'[c] = "close" /\ heartbeat[c] # "close" /\ c = dialled
                           => unanswered + strays >= MissedPongLimit]_vars

(* The counter stays bounded: each heartbeat still running can push it     *)
(* past the limit at most once (missedPongs++, then Close and return).     *)
MissedBounded ==
    missed <= MissedPongLimit + Cardinality({c \in Conns : heartbeat[c] \in {"close", "exited"}})

(* No wait but the first exceeds the configured maximum, however often the *)
(* client reconnects (connect and WithReconnectMaxInterval).               *)
BackoffCapped == loop = "wait" => backoff = Second \/ backoff <= MaxInterval

(* A peer that has gone silent is noticed: the reader does not wait for it *)
(* for ever (heartbeatLoop closes the connection it reads from).           *)
SilenceNoticed == loop \in {"read", "pong"} /\ ~alive ~> loop \notin {"read", "pong"}

(* Cancelling the context stops everything: the loop returns, and every    *)
(* heartbeat goroutine with it (connect, "Blocks until ctx is cancelled"). *)
ShutsDown ==
    cancelled ~> loop = "stopped" /\ \A c \in Conns : heartbeat[c] \in {"none", "exited"}

(* A heartbeat does not outlive its connection ("ensuring the heartbeat    *)
(* goroutine exits promptly on reconnect", dial).                          *)
HeartbeatsExit ==
    \A c \in Conns : c \in ended ~> heartbeat[c] \in {"none", "exited"}

(* What the code intends and does not do: after a connection that worked,  *)
(* the wait before the next is the first one again ("backoff =             *)
(* time.Second" in connect, which nothing reaches).                        *)
BackoffReset == loop = "wait" /\ served => backoff = Second
=============================================================================
