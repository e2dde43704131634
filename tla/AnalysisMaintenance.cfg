SPECIFICATION Spec
CONSTANTS
    Tasks = {t1}
    Workers = {w1, w2}
    Runtime = "celery"
    Jobs <- BothJobs
    Faults <- WorkerFaults
    MaxDeliveries = 2
INVARIANTS
    CancelledOnlyIfAsked
PROPERTIES
    HistoryKept
SYMMETRY Symmetry
\* Uploads are finitely many: when all are over the system stops.
CHECK_DEADLOCK FALSE
