-------------------------------- MODULE Books --------------------------------
(* What accounts hold and the banks they come from, side by side: a bank kept *)
(* up to date, the balances the household keeps by hand, and the banks it     *)
(* connects with what it chooses of each.  None reads another's state.        *)
EXTENDS BankSync

CONSTANTS
    Clients,        \* threads that serve the household's requests
    Unset,          \* no row, nobody, no bank
    \* Accounts and their balances.
    Accounts, Rank, KeptByBank, Imports, Amounts, Balances, NotYet, Gone, MaxAsks,
    \* Banks.
    Logins, BankOf, AccountsOf, MaxItems

VARIABLES
    account, txn, import, holder, doing, hand, moved, made,
    item, link, asking, left, beside, later

ledger == <<account, txn, import, holder, doing, hand, moved, made>>
links == <<item, link, asking, left, beside, later>>

Ledger == INSTANCE Ledger WITH
    Linked <- KeptByBank, Txns <- TxnIds, Requests <- Clients, None <- Unset, NotRead <- NotYet,
    MaxRequests <- MaxAsks, job <- doing

Link == INSTANCE BankLink WITH Requests <- Clients, None <- Unset, conn <- link, req <- asking

-----------------------------------------------------------------------------
\* What explains the balance of an account the household keeps: the amount set
\* by hand, its transactions and its imports' own changes (finance/accounts.py:73-82).
BalanceExplained == Ledger!BalanceExplained
\* Undoing an import there takes back just what is left of it (imports/service.py:450-481).
UndoPutsBackAtHome == Ledger!UndoPutsBackAtHome

\* Plaid doesn't bill twice for one account of a bank (plaid/connections.py:184-201).
BilledOnce == Link!BilledOnce
\* Nor for what Cashcove won't keep (plaid/connections.py:204-209).
NothingLeftBehind == Link!NothingLeftBehind
\* What the household decided on isn't listed as new (models/connection.py:83-84).
NewAwaits == Link!NewAwaits
=============================================================================
