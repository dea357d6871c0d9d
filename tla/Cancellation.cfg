SPECIFICATION Spec
CONSTANTS
    r1 = r1
    w1 = w1
    u1 = u1
    h1 = h1
    k1 = k1
    Runs <- OneRun
    WorkItems <- OneWorkItem
    Units <- OneUnit
    Holders <- OneHolder
    MaxAuthority = 2
    MaxCount = 2
    Keys <- OneKey
    Targets <- NoTargets
    Specs <- ShellSpecs
    MaxVersion = 4
    Outcomes <- TwoOutcomes
    MaxMembers = 2
    MaxRequests = 1
INVARIANTS
    RecoveryNeverRefuses
    DeliveredStaysStopped
PROPERTIES
    CancelledRunStaysResolved
    NoSuccessOverUnresponsive
CHECK_DEADLOCK FALSE
