SPECIFICATION FairSpec
CONSTANTS
    p1 = p1
    p2 = p2
    a = a
    b = b
    c = c
    Nobody = Nobody
    Pods = {p1, p2}
    Ops = {a, b, c}
    Home <- HomeOf
    Mortal = {p1}
    Policies = {TRUE, FALSE}
    Faults = {"persist", "call", "withdraw", "close", "crash"}
    MaxFaults = 1
    MaxWipes = 1
    MaxRetries = 2
CHECK_DEADLOCK FALSE
INVARIANTS
    FailedIsWithdrawn
PROPERTIES
    DurableStays
    DoneLands
