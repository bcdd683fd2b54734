SPECIFICATION FairSpec
CONSTANTS
    p1 = p1
    p2 = p2
    a = a
    b = b
    c = c
    Nobody = Nobody
    Pods = {p1, p2}
    Ops = {a, b, c}
    Home <- HomeOf
    Mortal = {p1}
    Policies = {TRUE}
    Faults = {"close"}
    MaxFaults = 1
    MaxWipes = 0
    MaxRetries = 2
CHECK_DEADLOCK FALSE
INVARIANTS
    CloseLosesNothing
