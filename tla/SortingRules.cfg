SPECIFICATION RulesSpec
CONSTANTS
    Txns = {t}
    Cats = {c1, c2}
    Texts = {x, y}
    Requests = {p}
    Sync = w
    Reviews = {r}
    None = None
    SyncsAlone = TRUE
    MaxAutos = 2
    MaxSaves = 2
    MaxEdits = 2
    MaxRestarts = 0
SYMMETRY Symmetry
\* The bounds may be used up.
CHECK_DEADLOCK FALSE
INVARIANTS TypeOK ChoiceKept
 
