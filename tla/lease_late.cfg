SPECIFICATION Spec
CONSTANTS
    a = a
    b = b
    Nobody = Nobody
    Pods = {a, b}
    TTL = 2
    Expiring = FALSE
    Retaking = {}
    Losses = TRUE
    Late = TRUE
    Retries = TRUE
    MaxTime = 2
    MaxSent = 3
CHECK_DEADLOCK FALSE
SYMMETRY Interchangeable
INVARIANTS
    TypeOK
    EntryOutlivesHold
    MutualExclusion
