SPECIFICATION ProcessSpec
CONSTANTS
    HostIds = {c1, c2}
    WorkerIds = {w1, w2}
    HandleIds = {h1}
    OfferIds = {o1}
    Slices = {{c1, c2, o1}, {w1, w2, h1}, {c1, o1, fault}, {c2, o1, fault},
              {w1, h1, fault}, {w2, h1, fault}}
    Fault = fault
    HostCeiling = 1
    WorkerCeiling = 1
    LiveCeiling = 1
    Budget = 3
    CommandCap = 1
    LaneCap = 1
    Permits = 1
    OutCap = 2
    InCap = 1
INVARIANTS
    HonestLoss
    SummaryIsJust
    NoWaiterLeft
PROPERTIES
    NothingOwedAtBudget
CONSTRAINT InSlice
SYMMETRY Symmetry
CHECK_DEADLOCK FALSE
