------------------------------- MODULE Ledger -------------------------------
(***************************************************************************)
(* Accounts, their transactions and the balances people keep by hand: each *)
(* request reads and locks rows one by one, computes new balances from     *)
(* what it read, and writes them all in one commit.  Statement imports and *)
(* their undoing, and accounts a bank keeps and then leaves to the         *)
(* household, move balances too.                                           *)
(*                                                                         *)
(* Source: backend/app/api/transactions.py and accounts.py,                *)
(* finance/accounts.py and imports/service.py.                             *)
(*                                                                         *)
(* A bank's connection and its sync are two steps here, BankReports and    *)
(* BankLeaves; BankSync models them.                                       *)
(***************************************************************************)
EXTENDS Integers, FiniteSets, Functions

CONSTANTS
    Accounts, Rank,     \* accounts, and the order of their ids
    Linked,             \* the accounts a bank keeps at first
    Txns, Imports,      \* transactions and statement imports
    Requests,           \* threads that serve requests
    Amounts,            \* the amounts a transaction may have
    Balances,           \* the balances set by hand, by a bank or in a statement
    None, NotRead, Gone,
    MaxRequests         \* bound: requests made

AccountRecords == [exists : BOOLEAN, linked : BOOLEAN, closed : BOOLEAN, balance : Int]
TxnRecords == [account : Accounts, amount : Amounts, origin : {"hand", "bank"} \cup Imports]
ImportRecords == [account : Accounts, total : Int, change : Int]

Bounds ==
    /\ IsFiniteSet(Accounts) /\ IsFiniteSet(Txns) /\ IsFiniteSet(Imports)
    /\ Rank \in [Accounts -> Nat]
    /\ Amounts \cup Balances \subseteq Int /\ Balances # {}
    /\ {None, "hand", "bank"} \cap (Accounts \cup Imports \cup Requests) = {}
    /\ NotRead # Gone /\ {NotRead, Gone} \cap (AccountRecords \cup TxnRecords \cup ImportRecords) = {}

VARIABLES
    account,    \* the accounts' rows
    txn,        \* the transactions' rows
    import,     \* the imports' rows
    holder,     \* who has each row locked
    job,        \* what each request is doing
    hand,       \* history: what a balance would be without transactions
    moved,      \* history: how far an import has moved each balance
    made        \* bound: requests so far

vars == <<account, txn, import, holder, job, hand, moved, made>>

-----------------------------------------------------------------------------
(* Rows                                                                    *)

NoTxn == [account |-> None, amount |-> 0, origin |-> None]
NoImport == [account |-> None, total |-> 0, change |-> 0]

AccountRow(a) == <<"account", a>>
TxnRow(t) == <<"transaction", t>>
ImportRow(i) == <<"import", i>>
Rows == {AccountRow(a) : a \in Accounts} \cup {TxnRow(t) : t \in Txns}
        \cup {ImportRow(i) : i \in Imports}

Exists(x) ==
    \/ \E a \in Accounts : x = AccountRow(a) /\ account[a].exists
    \/ \E t \in Txns : x = TxnRow(t) /\ txn[t] # NoTxn
    \/ \E i \in Imports : x = ImportRow(i) /\ import[i] # NoImport

\* What a query that gets a row by its id finds.
Row(x) ==
    IF ~Exists(x) THEN Gone
    ELSE CASE x[1] = "account" -> account[x[2]]
           [] x[1] = "transaction" -> txn[x[2]]
           [] x[1] = "import" -> import[x[2]]

In(a) == {t \in Txns : txn[t].account = a}
Of(i) == {t \in Txns : txn[t].origin = i}
ImportsOf(a) == {i \in Imports : import[i].account = a}

\* A new row's id is random: no request knows it yet.
New(x) == ~Exists(x) /\ \A r \in Requests : job[r].want # x /\ job[r].read[x] = NotRead
Free(t) == New(TxnRow(t)) /\ \A r \in Requests : t \notin job[r].adds \cup job[r].txns

\* What a request was asked to do, what it read, and the row it waits for.
Idle == [kind |-> "idle", of |-> None, to |-> None, txns |-> {}, adds |-> {}, amount |-> 0,
         choice |-> "keep", want |-> None, read |-> [x \in Rows |-> NotRead]]

Known(j, x) == j.read[x] \notin {NotRead, Gone}
TheAccount(j, a) == j.read[AccountRow(a)]
TheTxn(j, t) == j.read[TxnRow(t)]
TheImport(j) == j.read[ImportRow(j.of)]
Found(j) == {t \in Txns : Known(j, TxnRow(t))}
Only(set) == CHOOSE x \in set : TRUE

Kinds == {"idle", "create", "update", "delete", "import", "undo", "set", "remove"}

\* A balance that a request has read, or that an account has, is small: the
\* requests are bounded.
TypeOK ==
    /\ \A a \in Accounts : account[a] \in AccountRecords
    /\ \A t \in Txns : txn[t] \in TxnRecords \cup {NoTxn}
    /\ \A i \in Imports : import[i] \in ImportRecords \cup {NoImport}
    /\ holder \in [Rows -> Requests \cup {None}]
    /\ \A r \in Requests : /\ job[r].kind \in Kinds /\ job[r].want \in Rows \cup {None}
                           /\ job[r].txns \cup job[r].adds \subseteq Txns
    /\ \A a \in Accounts : hand[a] \in Int /\ \A i \in Imports : moved[i][a] \in Int
    /\ made \in 0..MaxRequests

Init ==
    /\ account = [a \in Accounts |-> [exists |-> TRUE, linked |-> a \in Linked, closed |-> FALSE, balance |-> 0]]
    /\ txn = [t \in Txns |-> NoTxn]
    /\ import = [i \in Imports |-> NoImport]
    /\ holder = [x \in Rows |-> None]
    /\ job = [r \in Requests |-> Idle]
    /\ hand = [a \in Accounts |-> 0]
    /\ moved = [i \in Imports |-> [a \in Accounts |-> 0]]
    /\ made = 0

-----------------------------------------------------------------------------
(* Requests                                                                *)

Begin(r, asked) ==
    /\ job[r].kind = "idle" /\ made < MaxRequests
    /\ job' = [job EXCEPT ![r] = asked]
    /\ made' = made + 1
    /\ UNCHANGED <<account, txn, import, holder, hand, moved>>

\* The requests of an admin: transactions added, changed and deleted, files
\* imported and imports undone, balances set and accounts removed.
AskCreate(r) == \E a \in Accounts, t \in Txns, amount \in Amounts :
    Free(t) /\ Begin(r, [Idle EXCEPT !.kind = "create", !.of = a, !.adds = {t}, !.amount = amount])
AskUpdate(r) == \E t \in Txns, a \in Accounts, amount \in Amounts :
    Begin(r, [Idle EXCEPT !.kind = "update", !.txns = {t}, !.to = a, !.amount = amount])
AskDelete(r) == \E some \in SUBSET Txns \ {{}} :
    Begin(r, [Idle EXCEPT !.kind = "delete", !.txns = some])
AskImport(r) == \E a \in Accounts, i \in Imports, amount \in Amounts, some \in SUBSET Txns \ {{}},
                   choice \in {"keep", "move", "file"} :
    /\ \A t \in some : Free(t)
    /\ New(ImportRow(i)) /\ \A q \in Requests : i \notin {job[q].of, job[q].to}
    /\ Begin(r, [Idle EXCEPT !.kind = "import", !.of = a, !.to = i, !.adds = some,
                             !.amount = amount, !.choice = choice])
AskUndo(r) == \E i \in Imports :
    Begin(r, [Idle EXCEPT !.kind = "undo", !.of = i])
AskSet(r) == \E a \in Accounts, balance \in Balances :
    Begin(r, [Idle EXCEPT !.kind = "set", !.of = a, !.amount = balance])
AskRemove(r) == \E a \in Accounts :
    Begin(r, [Idle EXCEPT !.kind = "remove", !.of = a])

\* writable_account and importable_account, of what a request has read so far.
Writable(row) == row = NotRead \/ (row # Gone /\ ~row.linked /\ ~row.closed)
Importable(row) == row = NotRead \/ (row # Gone /\ ~row.closed)

Changes(j, old) == old.account # j.to \/ old.amount # j.amount

\* The checks that end a request with an error.
Refused(j) ==
    \/ \E a \in Accounts : TheAccount(j, a) = Gone
    \/ j.kind = "create" /\ ~Writable(TheAccount(j, j.of))
    \/ /\ j.kind = "update"
       /\ LET old == TheTxn(j, Only(j.txns))
          IN  \/ old = Gone
              \/ /\ old # NotRead
                 /\ \/ j.choice = "linked" /\ Changes(j, old)
                    \/ old.account # j.to /\ ~Writable(TheAccount(j, j.to))
    \/ /\ j.kind = "import" /\ TheAccount(j, j.of) # NotRead
       /\ \/ ~Importable(TheAccount(j, j.of))
          \/ TheAccount(j, j.of).linked /\ j.choice # "keep"
    \/ j.kind = "undo" /\ TheImport(j) = Gone
    \/ j.kind = "set" /\ TheAccount(j, j.of) # NotRead /\ TheAccount(j, j.of).linked

Unread(j, rows) == {x \in rows : j.read[x] = NotRead}
First(accounts) == {a \in accounts : \A b \in accounts : Rank[a] <= Rank[b]}
FirstOf(j, accounts) == {AccountRow(a) : a \in First({b \in accounts : TheAccount(j, b) = NotRead})}
Touched(j) == {TheTxn(j, t).account : t \in Found(j)}

\* update_transaction locks the transaction, then the account it moves to, then
\* the account it is in.
NextOfUpdate(j) ==
    LET t == Only(j.txns)
        old == TheTxn(j, t)
    IN  IF old = NotRead THEN {TxnRow(t)}
        ELSE IF old.origin = "bank" /\ j.choice = "keep" THEN {}
        ELSE IF old.account # j.to /\ TheAccount(j, j.to) = NotRead THEN {AccountRow(j.to)}
        ELSE IF Changes(j, old) THEN Unread(j, {AccountRow(old.account)})
        ELSE {}

\* _remove: the transactions, which one query locks in any order, and then
\* their accounts by their ids.
NextOfDelete(j) ==
    LET left == Unread(j, {TxnRow(t) : t \in j.txns})
    IN  IF left # {} THEN left ELSE FirstOf(j, Touched(j))

\* undo: the import, its transactions wherever they are, and every account by
\* its id.
NextOfUndo(j) ==
    LET left == Unread(j, {TxnRow(t) : t \in Of(j.of)})
    IN  IF TheImport(j) = NotRead THEN {ImportRow(j.of)}
        ELSE IF left # {} THEN left
        ELSE FirstOf(j, Touched(j) \cup {TheImport(j).account})

\* delete_account: the account, all that goes with it (ON DELETE CASCADE) and the
\* transactions of its imports that are elsewhere by now (ON DELETE SET NULL).
NextOfRemove(j) ==
    IF ~Known(j, AccountRow(j.of)) THEN Unread(j, {AccountRow(j.of)})
    ELSE Unread(j, {TxnRow(t) : t \in In(j.of) \cup UNION {Of(i) : i \in ImportsOf(j.of)}}
                   \cup {ImportRow(i) : i \in ImportsOf(j.of)})

NextRows(j) ==
    IF Refused(j) THEN {}
    ELSE CASE j.kind \in {"create", "import", "set"} -> Unread(j, {AccountRow(j.of)})
           [] j.kind = "update" -> NextOfUpdate(j)
           [] j.kind = "delete" -> NextOfDelete(j)
           [] j.kind = "undo" -> NextOfUndo(j)
           [] j.kind = "remove" -> NextOfRemove(j)

\* The query is sent: if another request has the row, it waits.
Want(r) ==
    /\ job[r].kind # "idle" /\ job[r].want = None
    /\ \E x \in NextRows(job[r]) : job' = [job EXCEPT ![r].want = x]
    /\ UNCHANGED <<account, txn, import, holder, hand, moved, made>>

Looks(j) ==
    /\ j.kind = "update" /\ j.choice = "keep"
    /\ LET old == TheTxn(j, Only(j.txns)) IN old \notin {NotRead, Gone} /\ old.origin = "bank"

\* A transaction from the bank: does the bank still keep its account?  This is
\* read without a lock.
Look(r) ==
    /\ Looks(job[r])
    /\ job' = [job EXCEPT ![r].choice =
           IF account[TheTxn(job[r], Only(job[r].txns)).account].linked THEN "linked" ELSE "ours"]
    /\ UNCHANGED <<account, txn, import, holder, hand, moved, made>>

\* A slip: accounts are read without a lock.
LockedNot(x) == x \notin {AccountRow(a) : a \in Accounts}

\* get(..., with_for_update): every row these requests read to change is locked.
Locked(x) == x \in Rows

\* The row is free: the query locks it and reads it as it is now, or finds that
\* it is gone.
Take(r) ==
    LET x == job[r].want
    IN  /\ x # None
        /\ Locked(x) => holder[x] = None
        /\ holder' = IF Locked(x) /\ Exists(x) THEN [holder EXCEPT ![x] = r] ELSE holder
        /\ job' = [job EXCEPT ![r].want = None, ![r].read[x] = Row(x)]
        /\ UNCHANGED <<account, txn, import, hand, moved, made>>

-----------------------------------------------------------------------------
(* What a request writes, from what it read                                *)

Ready(r) ==
    /\ job[r].kind # "idle" /\ job[r].want = None /\ NextRows(job[r]) = {}
    /\ ~Looks(job[r])

Sum(f, set) == SumFunctionOnSet(f, set)

Total(j) == Cardinality(j.adds) * j.amount

\* update_transaction.
UpdateChange(j, a) ==
    LET old == TheTxn(j, Only(j.txns))
    IN  IF old.account # j.to
        THEN (IF a = j.to THEN j.amount ELSE 0) - (IF a = old.account THEN old.amount ELSE 0)
        ELSE IF a = old.account THEN j.amount - old.amount ELSE 0

\* _remove.
DeleteChange(j, a) ==
    LET taken == {t \in Found(j) : TheTxn(j, t).account = a}
    IN  -Sum([t \in taken |-> TheTxn(j, t).amount], taken)

\* A slip: only the import's own change to the balance is taken back.
UndoOnlyChange(j, a) ==
    IF a = TheImport(j).account THEN -TheImport(j).change ELSE DeleteChange(j, a)

\* undo: the home account gives back what of the import's change is still in
\* effect, and the others what was moved to them.
UndoChange(j, a) ==
    IF a = TheImport(j).account
    THEN TheImport(j).total + DeleteChange(j, a) - TheImport(j).change
    ELSE DeleteChange(j, a)

\* _balance_change of an import.
ImportChange(j) ==
    CASE j.choice = "move" -> Total(j)
      [] j.choice = "file" -> (CHOOSE b \in Balances : TRUE) - TheAccount(j, j.of).balance
      [] OTHER -> 0

Change(j, a) ==
    CASE j.kind = "create" -> (IF a = j.of THEN j.amount ELSE 0)
      [] j.kind = "update" -> UpdateChange(j, a)
      [] j.kind = "delete" -> DeleteChange(j, a)
      [] j.kind = "undo" -> UndoChange(j, a)
      [] j.kind = "import" -> (IF a = j.of THEN ImportChange(j) ELSE 0)
      [] j.kind = "set" -> (IF a = j.of THEN j.amount - TheAccount(j, a).balance ELSE 0)
      [] OTHER -> 0

\* move_balance, which leaves a bank's balance alone, writes what was read plus
\* the change.
BalanceAfter(j, a) ==
    IF ~Known(j, AccountRow(a)) \/ TheAccount(j, a).linked \/ Change(j, a) = 0
    THEN account[a].balance
    ELSE TheAccount(j, a).balance + Change(j, a)

\* Removing an account takes its transactions along, and those of its imports
\* that are elsewhere lose their import.
TxnAfter(j, t) ==
    CASE t \in j.adds /\ j.kind = "create" -> [account |-> j.of, amount |-> j.amount, origin |-> "hand"]
      [] t \in j.adds /\ j.kind = "import" -> [account |-> j.of, amount |-> j.amount, origin |-> j.to]
      [] t \in Found(j) /\ j.kind = "update" -> [txn[t] EXCEPT !.account = j.to, !.amount = j.amount]
      [] t \in Found(j) /\ j.kind \in {"delete", "undo"} -> NoTxn
      [] t \in Found(j) /\ j.kind = "remove" /\ txn[t].account = j.of -> NoTxn
      [] t \in Found(j) /\ j.kind = "remove" /\ txn[t].account # j.of
         /\ txn[t].origin \in ImportsOf(j.of) -> [txn[t] EXCEPT !.origin = "hand"]
      [] OTHER -> txn[t]

ImportAfter(j, i) ==
    CASE j.kind = "import" /\ i = j.to ->
             [account |-> j.of, total |-> Total(j), change |-> ImportChange(j)]
      [] j.kind = "undo" /\ i = j.of -> NoImport
      [] j.kind = "remove" /\ Known(j, ImportRow(i)) /\ import[i].account = j.of -> NoImport
      [] OTHER -> import[i]

\* How far a request moves a balance on account of an import.
MovedBy(j, i, a) ==
    LET moves == BalanceAfter(j, a) - account[a].balance
        taken == {t \in Found(j) : TheTxn(j, t).origin = i /\ TheTxn(j, t).account = a}
    IN  CASE j.kind = "import" /\ i = j.to -> moves
          [] j.kind = "update" /\ \E t \in Found(j) : TheTxn(j, t).origin = i -> moves
          [] j.kind = "delete" /\ ~account[a].linked -> -Sum([t \in taken |-> TheTxn(j, t).amount], taken)
          [] OTHER -> 0

Release(r) == holder' = [x \in Rows |-> IF holder[x] = r THEN None ELSE holder[x]]
End(r) == Release(r) /\ job' = [job EXCEPT ![r] = Idle]

Commit(r) ==
    LET j == job[r]
    IN  /\ Ready(r)
        /\ IF Refused(j)
           THEN UNCHANGED <<account, txn, import, hand, moved>>
           ELSE /\ account' = [a \in Accounts |->
                      IF j.kind = "remove" /\ a = j.of THEN [account[a] EXCEPT !.exists = FALSE]
                      ELSE [account[a] EXCEPT !.balance = BalanceAfter(j, a)]]
                /\ txn' = [t \in Txns |-> TxnAfter(j, t)]
                /\ import' = [i \in Imports |-> ImportAfter(j, i)]
                /\ hand' = IF j.kind = "set"
                           THEN [hand EXCEPT ![j.of] = @ + j.amount - account[j.of].balance] ELSE hand
                /\ moved' = [i \in Imports |-> [a \in Accounts |->
                      IF ImportAfter(j, i) = NoImport THEN 0 ELSE moved[i][a] + MovedBy(j, i, a)]]
        /\ End(r)
        /\ UNCHANGED made

\* The request fails anywhere before its commit: a deadlock that PostgreSQL
\* breaks, a lost connection, a restart.
RollBack(r) ==
    /\ job[r].kind # "idle"
    /\ End(r)
    /\ UNCHANGED <<account, txn, import, hand, moved, made>>

-----------------------------------------------------------------------------
(* The bank, and accounts opened and closed                                *)

Unlocked(a) == holder[AccountRow(a)] = None

\* A sync brings a linked account's balance, and a transaction that is new.
BankReports(a) ==
    /\ account[a].exists /\ account[a].linked /\ Unlocked(a) /\ made < MaxRequests
    /\ made' = made + 1
    /\ \E balance \in Balances : account' = [account EXCEPT ![a].balance = balance]
    /\ \/ UNCHANGED txn
       \/ \E t \in Txns, amount \in Amounts :
            Free(t) /\ txn' = [txn EXCEPT ![t] = [account |-> a, amount |-> amount, origin |-> "bank"]]
    /\ UNCHANGED <<import, holder, job, hand, moved>>

\* What the transactions in an account, and its imports, make of its balance.
Amount == [t \in Txns |-> txn[t].amount]
HomeChange == [i \in Imports |-> import[i].change - import[i].total]
Explained(a) == Sum(Amount, In(a)) + Sum(HomeChange, ImportsOf(a))

\* unlink: the household keeps the account from here.
BankLeaves(a) ==
    /\ account[a].exists /\ account[a].linked /\ Unlocked(a)
    /\ account' = [account EXCEPT ![a].linked = FALSE]
    /\ hand' = [hand EXCEPT ![a] = account[a].balance - Explained(a)]
    /\ UNCHANGED <<txn, import, holder, job, moved, made>>

\* update_account: closed or opened again.
CloseOrOpen(a) ==
    /\ account[a].exists /\ Unlocked(a) /\ made < MaxRequests
    /\ account' = [account EXCEPT ![a].closed = ~@]
    /\ made' = made + 1
    /\ UNCHANGED <<txn, import, holder, job, hand, moved>>

-----------------------------------------------------------------------------
(* Specification                                                           *)

Ask(r) ==
    \/ AskCreate(r) \/ AskUpdate(r) \/ AskDelete(r) \/ AskImport(r)
    \/ AskUndo(r) \/ AskSet(r) \/ AskRemove(r)

Next ==
    \/ \E r \in Requests : Ask(r) \/ Want(r) \/ Take(r) \/ Look(r) \/ Commit(r) \/ RollBack(r)
    \/ \E a \in Accounts : BankReports(a) \/ BankLeaves(a) \/ CloseOrOpen(a)

Spec == Init /\ [][Next]_vars

-----------------------------------------------------------------------------
(* Properties                                                              *)

\* A balance the household keeps is what it set by hand, plus every transaction
\* in the account, plus what its imports did to it beyond their transactions:
\* no request's change is lost, doubled or left behind, whatever runs at the
\* same time.
BalanceExplained ==
    \A a \in Accounts : account[a].exists /\ ~account[a].linked =>
        account[a].balance = hand[a] + Explained(a)

Undone(i) ==
    /\ import[i] # NoImport /\ import'[i] = NoImport
    /\ account'[import[i].account].exists

TakenBack(i) ==
    \A a \in Accounts : account[a].exists /\ ~account[a].linked =>
        account'[a].balance = account[a].balance - moved[i][a]

\* Undoing an import takes out of each balance the household keeps just what is
\* still in it on account of the import (imports/service.py, of undo: "the balance
\* ends up as if the import never happened, with everything else that changed
\* since still counted").
UndoPutsBack == [][\A i \in Imports : Undone(i) => TakenBack(i)]_vars

\* The same of imports into accounts that no bank ever kept.
UndoPutsBackAtHome ==
    [][\A i \in Imports : Undone(i) /\ import[i].account \notin Linked => TakenBack(i)]_vars
=============================================================================
