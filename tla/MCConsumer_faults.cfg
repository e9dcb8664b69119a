CONSTANTS
    Personas = {ann}
    BadTag = BadTag
    Notes = {"edited"}
    MaxLog = 4
    MaxInflight = 1
    Shelves = {TRUE}
    StrayTags = {1}
    Faults = {"crash", "create", "wipe", "commit", "append", "part"}
SPECIFICATION FairSpec
INVARIANTS
    TypeOK
    StoreIsView
    LaterQueriesShown
    OutcomeSettled
PROPERTIES
    EnrichmentKept
    CatchesUp
