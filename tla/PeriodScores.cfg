SPECIFICATION Spec
CONSTANTS
    Missing = Missing
    Labels <- LabelsVal
    Documents <- DocumentsVal
    MaxPeriods = 3
INVARIANTS
    AveragesAreAdjacent
    OrderDoesNotMatter
    EmissionNeverRefused
    RiskIsEarned
CHECK_DEADLOCK FALSE
