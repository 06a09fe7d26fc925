\* A limit that falls between a call and its result.
CONSTANTS
    u1 = u1
    u2 = u2
    u3 = u3
    k1 = k1
    k2 = k2
    Updates = {u1}
    Keys = {k1}
    KeyOf <- OneKey
    TextUpdates = {u1}
    Redis = FALSE
    MaxMsgs = 2
    Summarizes = FALSE
    Modes = {"generate"}
    ExtraMsgs = {FALSE}
    MaxRuns = 2
    MaxSteps = 1
    MaxDeltas = 0
    MaxCrashes = 0
SPECIFICATION Spec
INVARIANTS
    CallsKeptWithResults
CHECK_DEADLOCK FALSE
