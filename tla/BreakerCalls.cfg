SPECIFICATION FairSpec
CONSTANTS
    Callers = {c1, c2, c3}
    Impatient = {c3}
    Threshold = 2
    MaxRetries = 1
    Outages <- AllOutages
INVARIANTS
    BreakerConsistent
PROPERTIES
    QuietAfterFailure
    RecoversWithProvider
    HangTripsBreaker
