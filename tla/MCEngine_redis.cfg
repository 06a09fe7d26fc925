\* Two handlers of one conversation over Redis, streamed and not.
CONSTANTS
    u1 = u1
    u2 = u2
    u3 = u3
    k1 = k1
    k2 = k2
    Updates = {u1, u2}
    Keys = {k1}
    KeyOf <- OneKey
    TextUpdates = {u1, u2}
    Redis = TRUE
    MaxMsgs = 5
    Summarizes = FALSE
    Modes = {"generate", "stream"}
    ExtraMsgs = {FALSE}
    MaxRuns = 2
    MaxSteps = 1
    MaxDeltas = 0
    MaxCrashes = 0
SYMMETRY Interchangeable
SPECIFICATION Spec
INVARIANTS
    HistoryChained
PROPERTIES
    SaveKeepsHistory
CHECK_DEADLOCK FALSE
