SPECIFICATION LiveSpec
CONSTANTS
    email = email
    Accounts = {a}
    Payments = {}
    Banks = {}
    Txns = {t}
    ChannelOrder <- OneChannel
    MaxOccurs = 2
    MaxToggles = 1
    MaxUnsure = 1
    Cats = {c1, c2}
    Texts = {x}
    Requests = {p}
    Sync = w
    Reviews = {r1, r2}
    None = None
\* The bounds may be used up.
CHECK_DEADLOCK FALSE
INVARIANT OneAlertPerCrossing
PROPERTIES EverythingIsTold ReviewsEnd
