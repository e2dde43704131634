SPECIFICATION FairSpec
CONSTANTS
    Docs <- MCDocs
    MaxOcrPages = 2
    StopAfter = 1
    MaxPages = 3
INVARIANTS
    OcrNeverReenters
    OneReadPerDocument
PROPERTIES
    EventuallyRead
