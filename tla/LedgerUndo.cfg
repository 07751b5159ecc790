SPECIFICATION Spec
CONSTANTS
    a = a
    b = b
    Accounts = {a, b}
    Rank <- Order
    Linked = {a}
    Txns = {t1}
    Imports = {i}
    Requests = {r1}
    Amounts = {1}
    Balances = {3}
    None = None
    NotRead = NotRead
    Gone = Gone
    MaxRequests = 4
SYMMETRY Symmetry
CHECK_DEADLOCK FALSE
PROPERTIES UndoPutsBack
