SPECIFICATION FairSpec
CONSTANTS
    Tasks = {t1}
    Workers = {w1}
    Runtime = "background"
    Jobs <- RecoveryJob
    Faults <- HealedFaults
    MaxDeliveries = 1
INVARIANTS
    OutcomeMatchesResult
PROPERTIES
    EventuallySettled
    FileLivesWithRun
\* Uploads are finitely many: when all are over the system stops.
CHECK_DEADLOCK FALSE
