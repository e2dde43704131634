SPECIFICATION FairSpec
CONSTANTS
    Total = 1
    Deliveries = {d1, d2}
    Runtime = "celery"
    Jobs <- BothJobs
    Faults <- HealedFaults
PROPERTIES
    EventuallySettled
    FreshRowsKept
\* There is one session: when it is over the system stops.
CHECK_DEADLOCK FALSE
