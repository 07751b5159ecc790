SPECIFICATION PeopleSpec
CONSTANTS
    People = {a, b, c}
    Requests = {r, s}
    LocksFresh = FALSE
    None = None
    MaxLinks = 2
    MaxCodes = 2
    MaxAttempts = 2
    MaxKeys = 1
    MaxSteps = 2
    MaxMade = 2
    MaxSessions = 2
    MaxChallenges = 2
    MaxCuts = 2
    Sessions = {1, 2}
    IdleTime <- MCIdleTime
    Absolute <- MCAbsolute
    TouchInterval = 2
    MaxTime = 8
SYMMETRY Symmetry
\* The bounds may be used up.
CHECK_DEADLOCK FALSE
INVARIANTS TypesOK  SetUpOnce UsedOnce SignedOutEverywhere StaysSignedIn
PROPERTIES LinkWorksOnce 
