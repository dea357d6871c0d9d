SPECIFICATION CreditFairSpec
CONSTANTS
    MaxStreamCredit = 2
    MaxFrames = 8
    MaxWireDrops = 1
CHECK_DEADLOCK FALSE
INVARIANTS
    WindowsAgree
    EveryFrameAccounted
    LosslessStreamConserves
PROPERTIES
    StalledStreamResumes
