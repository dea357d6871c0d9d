SPECIFICATION Spec
CONSTANTS
    r1 = r1
    w1 = w1
    u1 = u1
    u2 = u2
    h1 = h1
    h2 = h2
    Runs <- OneRun
    WorkItems <- OneWorkItem
    Units <- TwoUnits
    Holders <- TwoHolders
    MaxAuthority = 3
    MaxCount = 3
SYMMETRY Interchangeable
INVARIANTS
    OneLiveToken
PROPERTIES
    RefusedTokenStaysRefused
    NothingAdmittedBelowCancelled
CHECK_DEADLOCK FALSE
