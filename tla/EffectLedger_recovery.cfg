SPECIFICATION Spec
CONSTANTS
    r1 = r1
    w1 = w1
    u1 = u1
    h1 = h1
    k1 = k1
    t1 = t1
    Runs <- OneRun
    WorkItems <- OneWorkItem
    Units <- OneUnit
    Holders <- OneHolder
    MaxAuthority = 3
    MaxCount = 3
    Keys <- OneKey
    Targets <- OneTarget
    Specs <- AllSpecs
    MaxVersion = 5
INVARIANTS
    RecoveryNeverRefuses
CHECK_DEADLOCK FALSE
