SPECIFICATION FairSpec
CONSTANTS
    Thread = {t1, t2}
    Reader = {r1}
    Chunks = 2
    Size = 2
    MaxIncidents = 3
CHECK_DEADLOCK FALSE
INVARIANTS
    TypeOK
    UploadComplete
    CachedIsLogged
PROPERTIES
    FlagClearedCovered
    ClickAnswered
