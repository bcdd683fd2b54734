SPECIFICATION Spec
CONSTANTS
    a = a
    b = b
    Nobody = Nobody
    Pods = {a, b}
    TTL = 2
    Expiring = TRUE
    Retaking = {a}
    Losses = TRUE
    Late = FALSE
    Retries = FALSE
    MaxTime = 2
    MaxSent = 3
CHECK_DEADLOCK FALSE
INVARIANTS
    EntryOutlivesHold
    RefusedReleaseOwnsNothing
PROPERTIES
    TakenMeansTaken
    ImplementsLease
