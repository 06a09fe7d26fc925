\* Handlers of two conversations that share a memory, streamed and not.
CONSTANTS
    u1 = u1
    u2 = u2
    u3 = u3
    k1 = k1
    k2 = k2
    Updates = {u1, u3}
    Keys = {k1, k2}
    KeyOf <- TwoKeys
    TextUpdates = {u1, u3}
    Redis = FALSE
    MaxMsgs = 2
    Summarizes = FALSE
    Modes = {"generate", "stream"}
    ExtraMsgs = {FALSE}
    MaxRuns = 2
    MaxSteps = 1
    MaxDeltas = 0
    MaxCrashes = 0
SPECIFICATION Spec
INVARIANTS
    KeysIsolated
PROPERTIES
    ImplementsMemory
CHECK_DEADLOCK FALSE
