SPECIFICATION Spec
CONSTANTS
    r1 = r1
    w1 = w1
    u1 = u1
    h1 = h1
    k1 = k1
    t1 = t1
    Runs <- OneRun
    WorkItems <- OneWorkItem
    Units <- OneUnit
    Holders <- OneHolder
    MaxAuthority = 2
    MaxCount = 3
    Keys <- OneKey
    Targets <- OneTarget
    Specs <- AllSpecs
    MaxVersion = 4
INVARIANTS
    TouchedIsOnRecord
    NoRetryActsOnce
    SucceededLanded
PROPERTIES
    CancelledBeforeDispatch
    ImplementsAttempts
CHECK_DEADLOCK FALSE
