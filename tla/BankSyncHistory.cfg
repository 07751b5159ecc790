SPECIFICATION Spec
CONSTANTS
    ExtIds = {a}
    TxnIds = {t1}
    Worker = w
    Requests = {r}
    AutoSync = TRUE
    NoCursor = NoCursor
    LeaseHonoured = TRUE
    PageAttempts = 2
    MaxEvents = 2
    MaxImports = 2
    MaxTroubles = 0
    MaxCrashes = 0
\* The bank may be disconnected, and the bounds used up.
CHECK_DEADLOCK FALSE
INVARIANT WholeHistory
