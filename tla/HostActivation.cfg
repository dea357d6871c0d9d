SPECIFICATION FairActivationSpec
CONSTANTS
    needy = needy
    plain = plain
    p1 = p1
    p2 = p2
    none = none
    Revisions <- TwoRevisions
    Requiring <- NeedyOnly
    Providers <- TwoProviders
    NoProvider = none
    MaxGeneration = 3
    MaxEpoch = 2
INVARIANTS
    OneDriverAtATime
    StartEndsFirst
PROPERTIES
    ActiveOnCurrentSelection
    DisabledIsUnmounted
CHECK_DEADLOCK FALSE
