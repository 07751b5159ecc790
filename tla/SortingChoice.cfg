SPECIFICATION Spec
CONSTANTS
    Txns = {t}
    Cats = {c1, c2}
    Texts = {x}
    Requests = {p}
    Sync = w
    Reviews = {}
    None = None
    SyncsAlone = FALSE
    MaxAutos = 1
    MaxSaves = 1
    MaxEdits = 2
    MaxRestarts = 0
SYMMETRY Symmetry
\* The bounds may be used up.
CHECK_DEADLOCK FALSE
INVARIANTS ChoiceKept
