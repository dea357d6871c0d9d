SPECIFICATION FairSpec
CONSTANTS
    Activations = {a1}
    Callers = {c1, c2}
    Builds <- MCBuilds
    Start = Start
    Stop = Stop
    Nobody = Nobody
INVARIANTS
    NothingLeftBehind
PROPERTIES
    OverrunIsEarned
    EveryCallEnds
CHECK_DEADLOCK FALSE
