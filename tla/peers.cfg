SPECIFICATION Spec
CONSTANTS
    a = a
    b = b
    c = c
    s = s
    t = t
    o1 = o1
    o2 = o2
    o3 = o3
    o4 = o4
    Pods = {a, b}
    Scopes = {s}
    ScopeOf <- OneScope
    Ops = {o1, o2, o3}
    PodOf <- Placement
    Roles <- ReadSaveSave
    Faults = {"read", "write"}
    Interrupts = TRUE
    MaxWrites = 2
CHECK_DEADLOCK FALSE
INVARIANTS
    TypeOK
    L2NeverRegresses
    L1NeverRegresses
    ReadsWhatThePodKnows
