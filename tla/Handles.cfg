SPECIFICATION MCSpec
CONSTANTS
    p = p
    q = q
    cs = cs
    t1 = t1
    t2 = t2
    v = v
    r1 = r1
    r2 = r2
    e1 = e1
    e2 = e2
    none = none
    Scopes <- ThreeScopes
    Above <- Lineage
    Callers <- TwoCallers
    Effects <- TwoEffects
    MaxCalls = 2
    Services <- OneService
    Grants <- TwoGrants
    Place <- Seats
    PlacesAbove <- Sees
    Homes = {cs}
    Borrowers = {q}
    NoGrant = none
SYMMETRY Interchangeable
INVARIANTS
    QuietBeforeCleanup
    ListedIsActive
    CloseNeverStalls
PROPERTIES
    UndoneInReverse
CHECK_DEADLOCK FALSE
