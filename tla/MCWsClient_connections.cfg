\* Two connections, a silent peer, a cancelled context.
CONSTANTS
    MissedPongLimit = 2
    Second = 2
    MaxInterval = 3
    MaxConns = 2
SPECIFICATION Spec
INVARIANTS
    TypeOK
    OneConnection
    MissedBounded
    BackoffCapped
PROPERTIES
    TimeoutEarned
    SilenceNoticed
    ShutsDown
    HeartbeatsExit
CHECK_DEADLOCK FALSE
