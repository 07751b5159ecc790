SPECIFICATION FairSpec
CONSTANTS
    ExtIds = {a}
    TxnIds = {t1}
    Worker = w
    Requests = {r}
    AutoSync = TRUE
    NoCursor = NoCursor
    LeaseHonoured = TRUE
    PageAttempts = 2
    MaxEvents = 1
    MaxImports = 2
    MaxTroubles = 1
    MaxCrashes = 1
\* The bank may be disconnected, and the bounds used up.
CHECK_DEADLOCK FALSE
INVARIANTS OneSyncAtATime ImportedOrSkipped
PROPERTIES ClaimIsReleased EventuallyCaughtUp
