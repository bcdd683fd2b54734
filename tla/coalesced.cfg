SPECIFICATION FairSpec
CONSTANTS
    a = a
    b = b
    c = c
    Pods = {a, b, c}
    Scheduled = {c}
    Faults = {"lose", "interrupt", "fail", "release", "unanswered", "unasked", "crash"}
    MaxSignals = 2
    MaxFaults = 2
INVARIANTS
    NothingForgotten
    OverlapOnlyByLoss
    NoRequestStranded
PROPERTIES
    EveryRequestRuns
