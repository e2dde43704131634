SPECIFICATION Spec
CONSTANTS
    Missing = Missing
    Sightings <- SightingsVal
    Scraped <- ScrapedVal
    Answers <- AnswersVal
    IssuerFigures <- IssuerFiguresVal
    Scales = {1, 1000}
    Largest = 1000000
    MaxCells = 2
    MaxChunks = 2
INVARIANTS
    TypeOK
    StrongestWins
    ProfitFitsRevenue
    BalanceAddsUp
    KnownIssuerIsRight
    ConfidentReadingHolds
CHECK_DEADLOCK FALSE
