SPECIFICATION Spec
CONSTANTS
    Total = 3
    Deliveries = {d1}
    Runtime = "background"
    Jobs <- NoJobs
    Faults <- BackgroundFaults
INVARIANTS
    OutcomeFitsPeriods
    ProgressIsHonest
    ToldMatchesRow
    CancelStopsWithinOnePeriod
    FilesLiveWithRun
PROPERTIES
    KeepsContract
\* There is one session: when it is over the system stops.
CHECK_DEADLOCK FALSE
