SPECIFICATION FairSpec
CONSTANTS
    c1 = c1
    c2 = c2
    Clients <- TwoClients
    MaxCursor = 3
    MaxBatch = 2
    Capacity = 2
    MaxQueued = 3
    MaxOpen = 2
INVARIANTS
    NothingMissed
    ResumePointIsExact
PROPERTIES
    EventsArrive
