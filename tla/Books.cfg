SPECIFICATION BooksSpec
CONSTANTS
    ExtIds = {e}
    TxnIds = {t1, t2}
    Worker = w
    Requests = {r}
    AutoSync = TRUE
    NoCursor = NoCursor
    LeaseHonoured = TRUE
    PageAttempts = 2
    MaxEvents = 3
    MaxImports = 1
    MaxTroubles = 0
    MaxCrashes = 0
    Clients = {p, q}
    Unset = None
    AtHome = b
    AtBank = a
    Accounts <- MCAccounts
    Rank <- MCRank
    KeptByBank <- MCKeptByBank
    Imports = {i}
    Amounts = {1, 2}
    Balances = {3}
    NotYet = NotRead
    Gone = Gone
    MaxAsks = 3
    Mine = Mine
    Yours = Yours
    Joint = Joint
    Card = Card
    Acme = Acme
    Logins <- MCLogins
    BankOf <- MCBankOf
    AccountsOf <- MCAccountsOf
    MaxItems = 2
SYMMETRY Symmetry
\* The bank may be disconnected, and the bounds used up.
CHECK_DEADLOCK FALSE
INVARIANTS MirrorsItsCursor  BalanceExplained BilledOnce NothingLeftBehind NewAwaits
PROPERTY UndoPutsBackAtHome
