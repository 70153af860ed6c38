SPECIFICATION Spec
CONSTANTS
    a = a
    b = b
    c1 = c1
    c2 = c2
    u1 = u1
    u2 = u2
    offer = offer
    change = change
    Instances = {a, b}
    Calls = {c1, c2}
    Items = {u1, u2}
    Echoes = {u2}
    Topics = {offer, change}
    EventCap = 2
    DecisionCap = 2
    MaxPush = 1
    MaxEvents = 4
SYMMETRY Symmetry
INVARIANTS
    
    LostOnlyInLongOutage

    
CHECK_DEADLOCK FALSE
