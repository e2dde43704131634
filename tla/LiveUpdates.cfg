SPECIFICATION FairSpec
CONSTANTS
    Docs = {d1, d2}
    Faults <- AllFaults
    UserWaits = TRUE
    MaxPolls = 2
    MaxReconnects = 1
    MaxSockets = 2
INVARIANTS
    PageTellsOutcome
PROPERTIES
    PageSettles
    OneFailureOneLoss
\* Each document is analysed once: when all are over the system stops.
CHECK_DEADLOCK FALSE
