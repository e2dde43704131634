SPECIFICATION Spec
CONSTANTS
    Tasks = {t1, t2}
    Workers = {w1}
    Runtime = "celery"
    Jobs <- NoJobs
    Faults <- CeleryFaults
    MaxDeliveries = 1
INVARIANTS
    TypeOK
    CancelStopsWithinOnePhase
    OneDecides
PROPERTIES
    KeepsContract
SYMMETRY Symmetry
\* Uploads are finitely many: when all are over the system stops.
CHECK_DEADLOCK FALSE
