SPECIFICATION CreditSpec
CONSTANTS
    MaxStreamCredit = 2
    MaxFrames = 7
    MaxWireDrops = 0
CHECK_DEADLOCK FALSE
INVARIANTS
    CreditedFrameHasSlot
