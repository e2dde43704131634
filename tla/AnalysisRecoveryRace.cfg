SPECIFICATION Spec
CONSTANTS
    Tasks = {t1}
    Workers = {w1}
    Runtime = "celery"
    Jobs <- RecoveryJob
    Faults <- NoFaults
    MaxDeliveries = 1
PROPERTIES
    RecoveryFailsOnlyInProgress
\* Uploads are finitely many: when all are over the system stops.
CHECK_DEADLOCK FALSE
