\* A clear and a turn that loaded before it.
CONSTANTS
    u1 = u1
    u2 = u2
    u3 = u3
    k1 = k1
    k2 = k2
    Updates = {u1, u2}
    Keys = {k1}
    KeyOf <- OneKey
    TextUpdates = {u1, u2}
    Redis = FALSE
    MaxMsgs = 0
    Summarizes = FALSE
    Modes = {"generate"}
    ExtraMsgs = {FALSE}
    MaxRuns = 2
    MaxSteps = 1
    MaxDeltas = 0
    MaxCrashes = 0
SPECIFICATION Spec
PROPERTIES
    ClearIsFinal
CHECK_DEADLOCK FALSE
