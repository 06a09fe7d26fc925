\* Two handlers of one conversation over the in-memory store.
CONSTANTS
    u1 = u1
    u2 = u2
    u3 = u3
    k1 = k1
    k2 = k2
    Updates = {u1, u2}
    Keys = {k1}
    KeyOf <- OneKey
    TextUpdates = {u1, u2}
    Redis = FALSE
    MaxMsgs = 4
    Summarizes = FALSE
    Modes = {"generate"}
    ExtraMsgs = {FALSE}
    MaxRuns = 2
    MaxSteps = 1
    MaxDeltas = 0
    MaxCrashes = 0
SPECIFICATION Spec
INVARIANTS
    TypeOK
    HistoryChained
    TurnsInOrder
    QuestionKept
PROPERTIES
    ImplementsMemory
CHECK_DEADLOCK FALSE
