\* Streamed runs that fall back, fail, crash and time out.
CONSTANTS
    u1 = u1
    u2 = u2
    u3 = u3
    k1 = k1
    k2 = k2
    Updates = {u1}
    Keys = {k1}
    KeyOf <- OneKey
    TextUpdates = {}
    Redis = FALSE
    MaxMsgs = 3
    Summarizes = TRUE
    Modes = {"generate", "stream"}
    ExtraMsgs = {TRUE, FALSE}
    MaxRuns = 2
    MaxSteps = 1
    MaxDeltas = 2
    MaxCrashes = 1
SPECIFICATION Spec
INVARIANTS
    StreamFaithful
PROPERTIES
    HandlersReturn
    ImplementsMemory
CHECK_DEADLOCK FALSE
