\* A second connection after one that worked.
CONSTANTS
    MissedPongLimit = 1
    Second = 1
    MaxInterval = 4
    MaxConns = 2
SPECIFICATION Spec
INVARIANTS
    BackoffReset
CHECK_DEADLOCK FALSE
