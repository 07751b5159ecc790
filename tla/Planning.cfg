SPECIFICATION PlanSpec
CONSTANTS
    Requests = {p, q}
    LastDay = 4
    ChunkDays = 2
    FirstAlone = TRUE
    Firsts <- MCFirsts
    MaxSteps = 5
    None = None
    Unset = Unset
    Items = {i1, i2}
    Payments = {1}
    Accounts = {1, 2}
    Names = {"gym"}
    Cats = {"c"}
    Frequencies = {"monthly"}
    BillDays = {31}
    Edits <- MCEdits
    MaxCycles = 150
    Budgets = {1}
    Txns = {1, 2}
    Facts <- MCFacts
    Autos = {"a"}
    Subs = {}
    BudgetAccounts = {"acc"}
    PeriodsInUse = {"monthly"}
    Anchors = {366, 380}
    BudgetDays = {430, 456}
    Amounts = {1, 2}
    Ids = {1, 2}
    Files <- MCFiles
    Texts = {"x", "y"}
    Hand <- MCHand
    Slots = {1, 2, 3}
    WINDOW = 1
    Chat = k
    Chats = {k}
    Groups = {1, 2}
    Proposals = {1, 2}
    Payees = {"x", "y"}
    PayeeOf <- MCPayeeOf
    Asks <- MCAsks
    Asked = 2
    ROUNDS = 2
    FIXES = 1
    MAX_CHANGES = 2
    AskTxns = {"t1", "t2"}
    AskCats = {1, 2}
    AskItems = {"i"}
    AskBudgets = {"b"}
    Dues <- MCDues
    Periods <- MCPeriods
SYMMETRY Symmetry
\* The bounds may be used up.
CHECK_DEADLOCK FALSE
INVARIANTS TypesOK SpanIsWhole RightRate CalendarRight   WholeFilesAddNothing IDsOnce FilesReadRight 
PROPERTIES PastKeepsAmount CountsAsAsked Decides
