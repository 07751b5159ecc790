---------------------------- MODULE BooksProofs ----------------------------
(***************************************************************************)
(* Proofs about Ledger and BankLink, side by side as in Books.             *)
(*                                                                         *)
(* Of Ledger: balances are explained, and an undo takes back what is left  *)
(* of its import, for any number of accounts, transactions, imports and    *)
(* requests.                                                               *)
(*                                                                         *)
(* The first part says that SumFunctionOnSet is the sum Sums is about.     *)
(*                                                                         *)
(* The second is the invariant.  What a request has read it has locked,    *)
(* and so it is still true (Held); the rows it adds are nobody else's and  *)
(* not there yet (Reserved); it was asked for something that makes sense   *)
(* (Asked).  So what it computes from what it read is what it should have  *)
(* computed when it commits.                                               *)
(*                                                                         *)
(* The third is about undoing imports.                                     *)
(*                                                                         *)
(* The fourth is about BankLink, for any number of requests, logins and    *)
(* Items.                                                                  *)
(*                                                                         *)
(* That nothing is left behind and that new accounts wait hold by what     *)
(* each step keeps.  That no account is billed for twice needs to know of  *)
(* each bank being connected: that no other request has its Item, that it  *)
(* isn't connected yet, and that none of the connections its check saw     *)
(* shares an account with it, but for those shared since (Making).         *)
(***************************************************************************)
EXTENDS Books, Sums

-----------------------------------------------------------------------------
(* Sums over finite sets                                                   *)

LEMMA FiniteIs == \A S : Ledger!IsFiniteSet(S) <=> IsFiniteSet(S)
BY DEF Ledger!IsFiniteSet, IsFiniteSet

LEMMA CardinalityIs == \A S : Ledger!Cardinality(S) = Cardinality(S)
BY DEF Ledger!Cardinality, Ledger!IsFiniteSet, Cardinality, IsFiniteSet

LEMMA TotalIs == \A j : Ledger!Total(j) = Cardinality(j.adds) * j.amount
BY CardinalityIs DEF Ledger!Total

LEMMA SumIs == \A f, S : Ledger!Sum(f, S) = SumOf(f, S)
BY DEF Ledger!Sum, Ledger!SumFunctionOnSet, Ledger!FoldFunctionOnSet, Ledger!MapThenFoldSet, Adds, Pick, Folded, SumOf

-----------------------------------------------------------------------------
(* The invariant                                                           *)

Readings == Ledger!AccountRecords \cup Ledger!TxnRecords \cup Ledger!ImportRecords \cup {NotYet, Gone}

Jobs == [kind : Ledger!Kinds, of : Accounts \cup Imports \cup {Unset}, to : Accounts \cup Imports \cup {Unset},
         txns : SUBSET TxnIds, adds : SUBSET TxnIds, amount : Int,
         choice : {"keep", "move", "file", "linked", "ours"},
         want : Ledger!Rows \cup {Unset}, read : [Ledger!Rows -> Readings]]

Types ==
    /\ account \in [Accounts -> Ledger!AccountRecords]
    /\ txn \in [TxnIds -> Ledger!TxnRecords \cup {Ledger!NoTxn}]
    /\ import \in [Imports -> Ledger!ImportRecords \cup {Ledger!NoImport}]
    /\ holder \in [Ledger!Rows -> Clients \cup {Unset}]
    /\ hand \in [Accounts -> Int]
    /\ doing \in [Clients -> Jobs]

\* What a request was asked makes sense, and one that changes a transaction
\* reads no other.
Asked(j) ==
    /\ j.kind \in {"create", "import", "set", "remove"} => j.of \in Accounts
    /\ j.kind = "undo" => j.of \in Imports
    /\ j.kind = "import" => j.to \in Imports
    /\ j.kind = "update" => j.to \in Accounts
    /\ j.kind \in {"create", "update", "import"} => j.amount \in Amounts
    /\ j.kind = "create" => \E t \in TxnIds : j.adds = {t}
    /\ j.kind \notin {"create", "import"} => j.adds = {}
    /\ j.kind = "update" => \E t \in TxnIds :
           /\ j.txns = {t}
           /\ \A u \in TxnIds : j.read[Ledger!TxnRow(u)] # NotYet \/ (j.want # Unset /\ j.want = Ledger!TxnRow(u)) => u = t

AllAsked == \A r \in Clients : Asked(doing[r])

\* What a request has read is locked by it, and so still as it was.
Held == \A r \in Clients, x \in Ledger!Rows : Ledger!Known(doing[r], x) =>
    holder[x] = r /\ Ledger!Exists(x) /\ doing[r].read[x] = Ledger!Row(x)

\* The rows a request will add are nobody else's and not there yet.
Reserved ==
    /\ \A r \in Clients : \A t \in doing[r].adds : txn[t] = Ledger!NoTxn
    /\ \A r, q \in Clients : r # q => doing[r].adds \cap doing[q].adds = {}
    /\ \A r \in Clients : doing[r].kind = "import" => import[doing[r].to] = Ledger!NoImport
    /\ \A r, q \in Clients : r # q /\ doing[r].kind = "import" /\ doing[q].kind = "import" =>
           doing[r].to # doing[q].to

IInv == Types /\ AllAsked /\ Held /\ Reserved /\ Ledger!BalanceExplained

-----------------------------------------------------------------------------
(* Rows                                                                    *)

LEMMA RowsApart ==
    \A x, y : /\ Ledger!AccountRow(x) = Ledger!AccountRow(y) => x = y
              /\ Ledger!TxnRow(x) = Ledger!TxnRow(y) => x = y
              /\ Ledger!ImportRow(x) = Ledger!ImportRow(y) => x = y
              /\ Ledger!AccountRow(x) # Ledger!TxnRow(y) /\ Ledger!AccountRow(x) # Ledger!ImportRow(y) /\ Ledger!TxnRow(x) # Ledger!ImportRow(y)
BY DEF Ledger!AccountRow, Ledger!TxnRow, Ledger!ImportRow

LEMMA TheRows ==
    ASSUME NEW x \in Ledger!Rows
    PROVE  \/ \E a \in Accounts : x = Ledger!AccountRow(a)
           \/ \E t \in TxnIds : x = Ledger!TxnRow(t)
           \/ \E i \in Imports : x = Ledger!ImportRow(i)
BY DEF Ledger!Rows

LEMMA RowOfAccount ==
    ASSUME NEW a \in Accounts
    PROVE  /\ Ledger!AccountRow(a) \in Ledger!Rows
           /\ Ledger!Exists(Ledger!AccountRow(a)) <=> account[a].exists
           /\ Ledger!Exists(Ledger!AccountRow(a)) => Ledger!Row(Ledger!AccountRow(a)) = account[a]
<1>1. Ledger!Exists(Ledger!AccountRow(a)) <=> account[a].exists
    BY RowsApart DEF Ledger!Exists
<1>2. Ledger!AccountRow(a) \in Ledger!Rows
    BY DEF Ledger!Rows
<1>3. Ledger!AccountRow(a)[1] = "account" /\ Ledger!AccountRow(a)[2] = a
    BY DEF Ledger!AccountRow
<1> QED
    BY <1>1, <1>2, <1>3 DEF Ledger!Row

LEMMA RowOfTxn ==
    ASSUME NEW t \in TxnIds
    PROVE  /\ Ledger!TxnRow(t) \in Ledger!Rows
           /\ Ledger!Exists(Ledger!TxnRow(t)) <=> txn[t] # Ledger!NoTxn
           /\ Ledger!Exists(Ledger!TxnRow(t)) => Ledger!Row(Ledger!TxnRow(t)) = txn[t]
<1>1. Ledger!Exists(Ledger!TxnRow(t)) <=> txn[t] # Ledger!NoTxn
    BY RowsApart DEF Ledger!Exists
<1>2. Ledger!TxnRow(t) \in Ledger!Rows
    BY DEF Ledger!Rows
<1>3. Ledger!TxnRow(t)[1] = "transaction" /\ Ledger!TxnRow(t)[2] = t
    BY DEF Ledger!TxnRow
<1> QED
    BY <1>1, <1>2, <1>3 DEF Ledger!Row

LEMMA RowOfImport ==
    ASSUME NEW i \in Imports
    PROVE  /\ Ledger!ImportRow(i) \in Ledger!Rows
           /\ Ledger!Exists(Ledger!ImportRow(i)) <=> import[i] # Ledger!NoImport
           /\ Ledger!Exists(Ledger!ImportRow(i)) => Ledger!Row(Ledger!ImportRow(i)) = import[i]
<1>1. Ledger!Exists(Ledger!ImportRow(i)) <=> import[i] # Ledger!NoImport
    BY RowsApart DEF Ledger!Exists
<1>2. Ledger!ImportRow(i) \in Ledger!Rows
    BY DEF Ledger!Rows
<1>3. Ledger!ImportRow(i)[1] = "import" /\ Ledger!ImportRow(i)[2] = i
    BY DEF Ledger!ImportRow
<1> QED
    BY <1>1, <1>2, <1>3 DEF Ledger!Row

\* What a query finds is a row, or that there is none.
LEMMA RowType ==
    ASSUME Types, NEW x \in Ledger!Rows
    PROVE  /\ Ledger!Row(x) \in Readings
           /\ ~Ledger!Exists(x) => Ledger!Row(x) = Gone
<1>1. ~Ledger!Exists(x) => Ledger!Row(x) = Gone
    BY DEF Ledger!Row
<1>2. Ledger!Exists(x) => Ledger!Row(x) \in Readings
    <2>1. CASE \E a \in Accounts : x = Ledger!AccountRow(a)
        BY <2>1, RowOfAccount DEF Types, Readings
    <2>2. CASE \E t \in TxnIds : x = Ledger!TxnRow(t)
        BY <2>2, RowOfTxn DEF Types, Readings
    <2>3. CASE \E i \in Imports : x = Ledger!ImportRow(i)
        BY <2>3, RowOfImport DEF Types, Readings
    <2> QED
        BY <2>1, <2>2, <2>3, TheRows
<1> QED
    BY <1>1, <1>2 DEF Readings

LEMMA HeldAccount ==
    ASSUME Held, NEW r \in Clients, NEW a \in Accounts, Ledger!Known(doing[r], Ledger!AccountRow(a))
    PROVE  /\ holder[Ledger!AccountRow(a)] = r
           /\ account[a].exists
           /\ Ledger!TheAccount(doing[r], a) = account[a]
BY RowOfAccount DEF Held, Ledger!TheAccount

LEMMA HeldTxn ==
    ASSUME Held, NEW r \in Clients, NEW t \in TxnIds, Ledger!Known(doing[r], Ledger!TxnRow(t))
    PROVE  /\ holder[Ledger!TxnRow(t)] = r
           /\ txn[t] # Ledger!NoTxn
           /\ Ledger!TheTxn(doing[r], t) = txn[t]
BY RowOfTxn DEF Held, Ledger!TheTxn

LEMMA HeldImport ==
    ASSUME Held, NEW r \in Clients, NEW i \in Imports, Ledger!Known(doing[r], Ledger!ImportRow(i))
    PROVE  /\ holder[Ledger!ImportRow(i)] = r
           /\ import[i] # Ledger!NoImport
           /\ doing[r].read[Ledger!ImportRow(i)] = import[i]
BY RowOfImport DEF Held

LEMMA IdleType == Ledger!Idle \in Jobs /\ Asked(Ledger!Idle) /\ \A x \in Ledger!Rows : Ledger!Idle.read[x] = NotYet
<1>1. Ledger!Idle \in Jobs
    BY DEF Ledger!Idle, Jobs, Ledger!Kinds, Readings
<1> QED
    BY <1>1 DEF Ledger!Idle, Asked

-----------------------------------------------------------------------------
(* Steps that leave the accounts, transactions and imports as they are     *)

LEMMA SameRows ==
    ASSUME UNCHANGED <<account, txn, import>>
    PROVE  /\ \A x \in Ledger!Rows : (Ledger!Exists(x)' <=> Ledger!Exists(x)) /\ Ledger!Row(x)' = Ledger!Row(x)
           /\ UNCHANGED hand /\ Ledger!BalanceExplained => Ledger!BalanceExplained'
<1>1. \A x \in Ledger!Rows : (Ledger!Exists(x)' <=> Ledger!Exists(x)) /\ Ledger!Row(x)' = Ledger!Row(x)
    BY DEF Ledger!Exists, Ledger!Row
<1>2. \A a \in Accounts : Ledger!Explained(a)' = Ledger!Explained(a)
    BY DEF Ledger!Explained, Ledger!In, Ledger!ImportsOf, Ledger!Amount, Ledger!HomeChange
<1> QED
    BY <1>1, <1>2 DEF Ledger!BalanceExplained

\* What a request that begins was asked, having read nothing.
Starts(r, asked) ==
    /\ Ledger!Begin(r, asked) /\ asked \in Jobs /\ Asked(asked)
    /\ asked.read = Ledger!Idle.read /\ asked.want = Unset
    /\ \A t \in asked.adds : Ledger!Free(t)
    /\ asked.kind = "import" => Ledger!New(Ledger!ImportRow(asked.to)) /\ \A q \in Clients : asked.to # doing[q].to

LEMMA BeginKeeps ==
    ASSUME IInv, NEW r \in Clients, NEW asked, Starts(r, asked)
    PROVE  IInv'
<1>a. /\ Ledger!Begin(r, asked) /\ asked \in Jobs /\ Asked(asked) /\ asked.read = Ledger!Idle.read
      /\ \A t \in asked.adds : Ledger!Free(t)
      /\ asked.kind = "import" => Ledger!New(Ledger!ImportRow(asked.to)) /\ \A q \in Clients : asked.to # doing[q].to
    BY DEF Starts
<1>1. doing' = [doing EXCEPT ![r] = asked] /\ UNCHANGED <<account, txn, import, holder, hand>>
    BY <1>a DEF Ledger!Begin
<1>2. doing'[r] = asked /\ \A q \in Clients : q # r => doing'[q] = doing[q]
    BY <1>1 DEF IInv, Types
<1>3. Types'
    BY <1>1, <1>a DEF IInv, Types, Jobs, Ledger!Rows, Ledger!AccountRecords, Ledger!TxnRecords, Ledger!ImportRecords, Ledger!NoTxn, Ledger!NoImport, Readings
<1>4. AllAsked'
    BY <1>2, <1>a DEF IInv, AllAsked
<1>5. Held'
    <2>1. \A x \in Ledger!Rows : ~Ledger!Known(doing'[r], x)
        BY <1>2, <1>a, IdleType DEF Ledger!Known
    <2> QED
        BY <1>1, <1>2, <2>1, SameRows DEF IInv, Held
<1>6. Reserved'
    <2>1. asked.adds \subseteq TxnIds /\ \A t \in asked.adds : txn[t] = Ledger!NoTxn /\ \A q \in Clients : t \notin doing[q].adds
        BY <1>a, RowOfTxn DEF Ledger!Free, Ledger!New, Jobs
    <2>2. asked.kind = "import" => import[asked.to] = Ledger!NoImport
        BY <1>a, RowOfImport DEF Ledger!New, Asked
    <2> QED
        BY <1>1, <1>2, <1>a, <2>1, <2>2 DEF IInv, Reserved
<1> QED
    BY <1>1, <1>3, <1>4, <1>5, <1>6, SameRows DEF IInv

\* Whatever is asked begins so.
LEMMA AskStarts ==
    ASSUME Ledger!Bounds, IInv, NEW r \in Clients, Ledger!Ask(r)
    PROVE  \E asked : Starts(r, asked)
<1>1. CASE Ledger!AskCreate(r)
    <2>1. PICK a \in Accounts, t \in TxnIds, amount \in Amounts :
              Ledger!Free(t) /\ Ledger!Begin(r, [Ledger!Idle EXCEPT !.kind = "create", !.of = a, !.adds = {t}, !.amount = amount])
        BY <1>1 DEF Ledger!AskCreate
    <2> DEFINE asked == [Ledger!Idle EXCEPT !.kind = "create", !.of = a, !.adds = {t}, !.amount = amount]
    <2>2. asked \in Jobs /\ Asked(asked) /\ asked.read = Ledger!Idle.read /\ asked.want = Unset /\ asked.adds = {t} /\ asked.kind = "create"
        BY IdleType DEF Ledger!Idle, Jobs, Asked, Ledger!Kinds, Ledger!Bounds
    <2> HIDE DEF asked
    <2>3. Ledger!Begin(r, asked)
        BY <2>1 DEF asked
    <2> QED
        BY <2>1, <2>2, <2>3 DEF Starts
<1>2. CASE Ledger!AskUpdate(r)
    <2>1. PICK t \in TxnIds, a \in Accounts, amount \in Amounts :
              Ledger!Begin(r, [Ledger!Idle EXCEPT !.kind = "update", !.txns = {t}, !.to = a, !.amount = amount])
        BY <1>2 DEF Ledger!AskUpdate
    <2> DEFINE asked == [Ledger!Idle EXCEPT !.kind = "update", !.txns = {t}, !.to = a, !.amount = amount]
    <2>2. /\ asked \in Jobs /\ asked.kind = "update" /\ asked.txns = {t} /\ asked.to = a
          /\ asked.amount = amount /\ asked.read = Ledger!Idle.read /\ asked.want = Unset /\ asked.adds = {}
        BY IdleType DEF Ledger!Idle, Jobs, Ledger!Kinds, Ledger!Bounds
    <2>3. \A u \in TxnIds : asked.read[Ledger!TxnRow(u)] # NotYet \/ (asked.want # Unset /\ asked.want = Ledger!TxnRow(u)) => u = t
        BY <2>2, RowOfTxn, IdleType
    <2>4. Asked(asked)
        BY <2>2, <2>3 DEF Asked
    <2> HIDE DEF asked
    <2>5. Ledger!Begin(r, asked)
        BY <2>1 DEF asked
    <2> QED
        BY <2>2, <2>4, <2>5 DEF Starts
<1>3. CASE Ledger!AskDelete(r)
    <2>1. PICK some \in SUBSET TxnIds : Ledger!Begin(r, [Ledger!Idle EXCEPT !.kind = "delete", !.txns = some])
        BY <1>3 DEF Ledger!AskDelete
    <2> DEFINE asked == [Ledger!Idle EXCEPT !.kind = "delete", !.txns = some]
    <2>2. asked \in Jobs /\ Asked(asked) /\ asked.read = Ledger!Idle.read /\ asked.want = Unset /\ asked.adds = {} /\ asked.kind = "delete"
        BY IdleType DEF Ledger!Idle, Jobs, Asked, Ledger!Kinds
    <2> HIDE DEF asked
    <2>3. Ledger!Begin(r, asked)
        BY <2>1 DEF asked
    <2> QED
        BY <2>2, <2>3 DEF Starts
<1>4. CASE Ledger!AskImport(r)
    <2>1. PICK a \in Accounts, i \in Imports, amount \in Amounts, some \in SUBSET TxnIds,
               choice \in {"keep", "move", "file"} :
              /\ \A t \in some : Ledger!Free(t)
              /\ Ledger!New(Ledger!ImportRow(i)) /\ \A q \in Clients : i \notin {doing[q].of, doing[q].to}
              /\ Ledger!Begin(r, [Ledger!Idle EXCEPT !.kind = "import", !.of = a, !.to = i, !.adds = some,
                                                     !.amount = amount, !.choice = choice])
        BY <1>4 DEF Ledger!AskImport
    <2> DEFINE asked == [Ledger!Idle EXCEPT !.kind = "import", !.of = a, !.to = i, !.adds = some,
                                            !.amount = amount, !.choice = choice]
    <2>2. asked \in Jobs /\ Asked(asked) /\ asked.read = Ledger!Idle.read /\ asked.want = Unset /\ asked.adds = some /\ asked.to = i
        BY IdleType DEF Ledger!Idle, Jobs, Asked, Ledger!Kinds, Ledger!Bounds
    <2> HIDE DEF asked
    <2>3. Ledger!Begin(r, asked)
        BY <2>1 DEF asked
    <2> QED
        BY <2>1, <2>2, <2>3 DEF Starts
<1>5. CASE Ledger!AskUndo(r)
    <2>1. PICK i \in Imports : Ledger!Begin(r, [Ledger!Idle EXCEPT !.kind = "undo", !.of = i])
        BY <1>5 DEF Ledger!AskUndo
    <2> DEFINE asked == [Ledger!Idle EXCEPT !.kind = "undo", !.of = i]
    <2>2. asked \in Jobs /\ Asked(asked) /\ asked.read = Ledger!Idle.read /\ asked.want = Unset /\ asked.adds = {} /\ asked.kind = "undo"
        BY IdleType DEF Ledger!Idle, Jobs, Asked, Ledger!Kinds
    <2> HIDE DEF asked
    <2>3. Ledger!Begin(r, asked)
        BY <2>1 DEF asked
    <2> QED
        BY <2>2, <2>3 DEF Starts
<1>6. CASE Ledger!AskSet(r)
    <2>1. PICK a \in Accounts, balance \in Balances :
              Ledger!Begin(r, [Ledger!Idle EXCEPT !.kind = "set", !.of = a, !.amount = balance])
        BY <1>6 DEF Ledger!AskSet
    <2> DEFINE asked == [Ledger!Idle EXCEPT !.kind = "set", !.of = a, !.amount = balance]
    <2>2. asked \in Jobs /\ Asked(asked) /\ asked.read = Ledger!Idle.read /\ asked.want = Unset /\ asked.adds = {} /\ asked.kind = "set"
        BY IdleType DEF Ledger!Idle, Jobs, Asked, Ledger!Kinds, Ledger!Bounds
    <2> HIDE DEF asked
    <2>3. Ledger!Begin(r, asked)
        BY <2>1 DEF asked
    <2> QED
        BY <2>2, <2>3 DEF Starts
<1>7. CASE Ledger!AskRemove(r)
    <2>1. PICK a \in Accounts : Ledger!Begin(r, [Ledger!Idle EXCEPT !.kind = "remove", !.of = a])
        BY <1>7 DEF Ledger!AskRemove
    <2> DEFINE asked == [Ledger!Idle EXCEPT !.kind = "remove", !.of = a]
    <2>2. asked \in Jobs /\ Asked(asked) /\ asked.read = Ledger!Idle.read /\ asked.want = Unset /\ asked.adds = {} /\ asked.kind = "remove"
        BY IdleType DEF Ledger!Idle, Jobs, Asked, Ledger!Kinds
    <2> HIDE DEF asked
    <2>3. Ledger!Begin(r, asked)
        BY <2>1 DEF asked
    <2> QED
        BY <2>2, <2>3 DEF Starts
<1> QED
    BY <1>1, <1>2, <1>3, <1>4, <1>5, <1>6, <1>7 DEF Ledger!Ask

LEMMA AskKeeps ==
    ASSUME Ledger!Bounds, IInv, NEW r \in Clients, Ledger!Ask(r)
    PROVE  IInv'
BY AskStarts, BeginKeeps

\* The one transaction of a request that changes one.
LEMMA TheOne ==
    ASSUME IInv, NEW r \in Clients, doing[r].kind = "update"
    PROVE  /\ Ledger!Only(doing[r].txns) \in TxnIds /\ doing[r].txns = {Ledger!Only(doing[r].txns)}
           /\ \A u \in TxnIds : \/ doing[r].read[Ledger!TxnRow(u)] # NotYet
                                \/ doing[r].want # Unset /\ doing[r].want = Ledger!TxnRow(u)
                                => u = Ledger!Only(doing[r].txns)
<1>1. PICK t \in TxnIds :
          /\ doing[r].txns = {t}
          /\ \A u \in TxnIds : doing[r].read[Ledger!TxnRow(u)] # NotYet \/ (doing[r].want # Unset /\ doing[r].want = Ledger!TxnRow(u)) => u = t
    BY DEF IInv, AllAsked, Asked
<1>2. Ledger!Only(doing[r].txns) = t
    BY <1>1 DEF Ledger!Only
<1> QED
    BY <1>1, <1>2

LEMMA TouchedType ==
    ASSUME IInv, NEW r \in Clients
    PROVE  Ledger!Touched(doing[r]) \subseteq Accounts
<1>1. \A t \in Ledger!Found(doing[r]) : Ledger!TheTxn(doing[r], t) = txn[t] /\ txn[t] \in Ledger!TxnRecords
    BY HeldTxn DEF Ledger!Found, IInv, Types
<1> QED
    BY <1>1 DEF Ledger!Touched, Ledger!TxnRecords

\* A request waits for a row.
LEMMA NextType ==
    ASSUME IInv, NEW r \in Clients, doing[r].kind # "idle", NEW x \in Ledger!NextRows(doing[r])
    PROVE  /\ x \in Ledger!Rows
           /\ doing[r].kind = "update" => \A u \in TxnIds : x = Ledger!TxnRow(u) => u = Ledger!Only(doing[r].txns)
<1> DEFINE j == doing[r]
<1>1. j \in Jobs /\ Asked(j) /\ ~Ledger!Refused(j) /\ j.kind \in Ledger!Kinds \ {"idle"}
    BY DEF IInv, Types, AllAsked, Ledger!NextRows, Jobs
<1>2. \A accounts : \A y \in Ledger!FirstOf(j, accounts) : \E a \in accounts : y = Ledger!AccountRow(a)
    BY DEF Ledger!FirstOf, Ledger!First
<1>3. CASE j.kind \in {"create", "import", "set"}
    BY <1>1, <1>3, RowOfAccount DEF Ledger!NextRows, Ledger!Unread, Asked
<1>4. CASE j.kind = "update"
    <2> DEFINE t == Ledger!Only(j.txns)  old == Ledger!TheTxn(j, t)
    <2>1. t \in TxnIds
        BY <1>4, TheOne
    <2>2. x \in Ledger!NextOfUpdate(j)
        BY <1>1, <1>4 DEF Ledger!NextRows
    <2>3. CASE old = NotYet
        BY <1>4, <2>1, <2>2, <2>3, RowOfTxn, RowsApart DEF Ledger!NextOfUpdate
    <2>4. CASE old # NotYet
        <3>1. old # Gone
            BY <1>1, <1>4 DEF Ledger!Refused
        <3>2. old = txn[t] /\ txn[t] \in Ledger!TxnRecords
            BY <2>1, <2>4, <3>1, HeldTxn DEF IInv, Types, Ledger!Known, Ledger!TheTxn
        <3>3. old.account \in Accounts /\ j.to \in Accounts
            BY <1>1, <1>4, <3>2 DEF Ledger!TxnRecords, Asked
        <3>4. x \in {Ledger!AccountRow(old.account), Ledger!AccountRow(j.to)}
            BY <2>2, <2>4 DEF Ledger!NextOfUpdate, Ledger!Unread
        <3> QED
            BY <3>3, <3>4, RowOfAccount, RowsApart
    <2> QED
        BY <2>3, <2>4
<1>5. CASE j.kind = "delete"
    <2>1. x \in Ledger!NextOfDelete(j)
        BY <1>1, <1>5 DEF Ledger!NextRows
    <2>2. j.txns \subseteq TxnIds /\ Ledger!Touched(j) \subseteq Accounts
        BY <1>1, TouchedType DEF Jobs
    <2> QED
        BY <1>2, <1>5, <2>1, <2>2, RowOfTxn, RowOfAccount DEF Ledger!NextOfDelete, Ledger!Unread
<1>6. CASE j.kind = "undo"
    <2>1. x \in Ledger!NextOfUndo(j)
        BY <1>1, <1>6 DEF Ledger!NextRows
    <2>2. j.of \in Imports /\ Ledger!Of(j.of) \subseteq TxnIds /\ Ledger!Touched(j) \subseteq Accounts
        BY <1>1, <1>6, TouchedType DEF Asked, Ledger!Of
    <2>3. CASE Ledger!TheImport(j) = NotYet
        BY <1>6, <2>1, <2>2, <2>3, RowOfImport DEF Ledger!NextOfUndo
    <2>4. CASE Ledger!TheImport(j) # NotYet
        <3>1. Ledger!TheImport(j) # Gone
            BY <1>1, <1>6 DEF Ledger!Refused
        <3>2. Ledger!TheImport(j).account \in Accounts
            BY <2>2, <2>4, <3>1, HeldImport DEF IInv, Types, Ledger!Known, Ledger!TheImport, Ledger!ImportRecords
        <3> QED
            BY <1>2, <1>6, <2>1, <2>2, <2>4, <3>2, RowOfTxn, RowOfAccount DEF Ledger!NextOfUndo, Ledger!Unread
    <2> QED
        BY <2>3, <2>4
<1>7. CASE j.kind = "remove"
    <2>1. x \in Ledger!NextOfRemove(j)
        BY <1>1, <1>7 DEF Ledger!NextRows
    <2>2. j.of \in Accounts
        BY <1>1, <1>7 DEF Asked
    <2> QED
        BY <1>7, <2>1, <2>2, RowOfAccount, RowOfTxn, RowOfImport DEF Ledger!NextOfRemove, Ledger!Unread, Ledger!In, Ledger!Of, Ledger!ImportsOf
<1> QED
    BY <1>1, <1>3, <1>4, <1>5, <1>6, <1>7 DEF Ledger!Kinds

LEMMA WantKeeps ==
    ASSUME IInv, NEW r \in Clients, Ledger!Want(r)
    PROVE  IInv'
<1>1. PICK x \in Ledger!NextRows(doing[r]) : doing' = [doing EXCEPT ![r].want = x]
    BY DEF Ledger!Want
<1>2. /\ x \in Ledger!Rows
      /\ doing[r].kind = "update" => \A u \in TxnIds : x = Ledger!TxnRow(u) => u = Ledger!Only(doing[r].txns)
    BY NextType DEF Ledger!Want
<1>3. /\ doing[r] \in Jobs
      /\ doing' = [doing EXCEPT ![r] = [doing[r] EXCEPT !.want = x]]
      /\ UNCHANGED <<account, txn, import, holder, hand>>
    BY <1>1 DEF Ledger!Want, IInv, Types
<1> DEFINE new == [doing[r] EXCEPT !.want = x]
<1>4. /\ new \in Jobs /\ new.kind = doing[r].kind /\ new.of = doing[r].of /\ new.to = doing[r].to
      /\ new.amount = doing[r].amount /\ new.txns = doing[r].txns /\ new.adds = doing[r].adds
      /\ new.read = doing[r].read /\ new.want = x
    BY <1>2, <1>3 DEF Jobs
<1> HIDE DEF new
<1>5. doing'[r] = new /\ \A q \in Clients : q # r => doing'[q] = doing[q]
    BY <1>3 DEF new, IInv, Types
<1>6. Types'
    BY <1>3, <1>4 DEF new, IInv, Types, Jobs, Ledger!Rows, Ledger!AccountRecords, Ledger!TxnRecords, Ledger!ImportRecords, Ledger!NoTxn, Ledger!NoImport, Readings
<1>7. AllAsked'
    <2>1. Asked(new)
        <3>1. new.kind = "update" => \E t \in TxnIds :
                 /\ new.txns = {t}
                 /\ \A u \in TxnIds : new.read[Ledger!TxnRow(u)] # NotYet \/ (new.want # Unset /\ new.want = Ledger!TxnRow(u)) => u = t
            BY <1>2, <1>4, TheOne
        <3>2. Asked(doing[r])
            BY DEF IInv, AllAsked
        <3> QED
            BY <1>4, <3>1, <3>2 DEF Asked
    <2> QED
        BY <1>5, <2>1 DEF IInv, AllAsked
<1>8. Held'
    BY <1>3, <1>4, <1>5, SameRows DEF IInv, Held, Ledger!Known
<1>9. Reserved'
    BY <1>3, <1>4, <1>5 DEF IInv, Reserved
<1> QED
    BY <1>3, <1>6, <1>7, <1>8, <1>9, SameRows DEF IInv

LEMMA LookKeeps ==
    ASSUME IInv, NEW r \in Clients, Ledger!Look(r)
    PROVE  IInv'
<1> DEFINE choice == IF account[Ledger!TheTxn(doing[r], Ledger!Only(doing[r].txns)).account].linked THEN "linked" ELSE "ours"
           new == [doing[r] EXCEPT !.choice = choice]
<1>1. /\ doing[r] \in Jobs
      /\ doing' = [doing EXCEPT ![r] = new]
      /\ UNCHANGED <<account, txn, import, holder, hand>>
    BY DEF Ledger!Look, IInv, Types
<1>2. /\ new \in Jobs /\ new.kind = doing[r].kind /\ new.of = doing[r].of /\ new.to = doing[r].to
      /\ new.amount = doing[r].amount /\ new.txns = doing[r].txns /\ new.adds = doing[r].adds
      /\ new.read = doing[r].read /\ new.want = doing[r].want
    BY <1>1 DEF Jobs
<1> HIDE DEF new
<1>3. doing'[r] = new /\ \A q \in Clients : q # r => doing'[q] = doing[q]
    BY <1>1 DEF IInv, Types
<1>4. Types'
    BY <1>1, <1>2 DEF IInv, Types, Jobs, Ledger!Rows, Ledger!AccountRecords, Ledger!TxnRecords, Ledger!ImportRecords, Ledger!NoTxn, Ledger!NoImport, Readings
<1>5. AllAsked'
    <2>1. Asked(new)
        <3>1. Asked(doing[r])
            BY DEF IInv, AllAsked
        <3> QED
            BY <1>2, <3>1 DEF Asked
    <2> QED
        BY <1>3, <2>1 DEF IInv, AllAsked
<1>6. Held'
    BY <1>1, <1>2, <1>3, SameRows DEF IInv, Held, Ledger!Known
<1>7. Reserved'
    BY <1>1, <1>2, <1>3 DEF IInv, Reserved
<1> QED
    BY <1>1, <1>4, <1>5, <1>6, <1>7, SameRows DEF IInv

\* It has the row: nobody else had it locked.
LEMMA TakeKeeps ==
    ASSUME Ledger!Bounds, IInv, NEW r \in Clients, Ledger!Take(r)
    PROVE  IInv'
<1> DEFINE x == doing[r].want
           new == [doing[r] EXCEPT !.want = Unset, !.read = [doing[r].read EXCEPT ![x] = Ledger!Row(x)]]
<1>1. doing[r] \in Jobs /\ x \in Ledger!Rows /\ Ledger!Row(x) \in Readings /\ (~Ledger!Exists(x) => Ledger!Row(x) = Gone)
    BY RowType DEF IInv, Types, Jobs, Ledger!Take
<1>2. /\ doing' = [doing EXCEPT ![r] = new]
      /\ holder' = IF Ledger!Exists(x) THEN [holder EXCEPT ![x] = r] ELSE holder
      /\ holder[x] = Unset
      /\ UNCHANGED <<account, txn, import, hand>>
    BY <1>1 DEF Ledger!Take, Ledger!Locked, IInv, Types
<1>3. /\ new \in Jobs /\ new.kind = doing[r].kind /\ new.of = doing[r].of /\ new.to = doing[r].to
      /\ new.amount = doing[r].amount /\ new.txns = doing[r].txns /\ new.adds = doing[r].adds
      /\ new.read = [doing[r].read EXCEPT ![x] = Ledger!Row(x)] /\ new.want = Unset
    BY <1>1 DEF Jobs
<1> HIDE DEF new
<1>4. doing'[r] = new /\ \A q \in Clients : q # r => doing'[q] = doing[q]
    BY <1>2 DEF IInv, Types
<1>5. Types'
    BY <1>2, <1>3 DEF IInv, Types, Jobs, Ledger!Rows, Ledger!AccountRecords, Ledger!TxnRecords, Ledger!ImportRecords, Ledger!NoTxn, Ledger!NoImport, Readings
<1>6. AllAsked'
    <2>1. Asked(new)
        <3>1. new.kind = "update" => \E t \in TxnIds :
                 /\ new.txns = {t}
                 /\ \A u \in TxnIds : new.read[Ledger!TxnRow(u)] # NotYet \/ (new.want # Unset /\ new.want = Ledger!TxnRow(u)) => u = t
            <4>1. \A u \in TxnIds : u = Ledger!Only(doing[r].txns) \/ Ledger!TxnRow(u) # x \/ new.kind # "update"
                BY <1>3, TheOne DEF Ledger!Take
            <4>2. \A u \in TxnIds : Ledger!TxnRow(u) # x => new.read[Ledger!TxnRow(u)] = doing[r].read[Ledger!TxnRow(u)]
                BY <1>3
            <4> DEFINE t == Ledger!Only(doing[r].txns)
            <4>3. doing[r].kind = "update" =>
                        t \in TxnIds /\ doing[r].txns = {t} /\ \A u \in TxnIds : doing[r].read[Ledger!TxnRow(u)] # NotYet => u = t
                BY TheOne
            <4> HIDE DEF t, x
            <4> SUFFICES ASSUME new.kind = "update"
                         PROVE  t \in TxnIds /\ new.txns = {t} /\ \A u \in TxnIds :
                                    new.read[Ledger!TxnRow(u)] # NotYet \/ (new.want # Unset /\ new.want = Ledger!TxnRow(u)) => u = t
                OBVIOUS
            <4>4. ASSUME NEW u \in TxnIds, new.read[Ledger!TxnRow(u)] # NotYet PROVE u = t
                <5>1. CASE Ledger!TxnRow(u) # x
                    BY <1>3, <4>2, <4>3, <4>4, <5>1
                <5>2. CASE Ledger!TxnRow(u) = x
                    BY <4>1, <5>2 DEF t
                <5> QED
                    BY <5>1, <5>2
            <4> QED
                BY <1>3, <4>3, <4>4
        <3>2. Asked(doing[r])
            BY DEF IInv, AllAsked
        <3> QED
            BY <1>3, <3>1, <3>2 DEF Asked
    <2> QED
        BY <1>4, <2>1 DEF IInv, AllAsked
<1>7. Held'
    <2> SUFFICES ASSUME NEW q \in Clients, NEW y \in Ledger!Rows, Ledger!Known(doing'[q], y)
                 PROVE  holder'[y] = q /\ Ledger!Exists(y)' /\ doing'[q].read[y] = Ledger!Row(y)'
        BY DEF Held
    <2>1. (Ledger!Exists(y)' <=> Ledger!Exists(y)) /\ Ledger!Row(y)' = Ledger!Row(y)
        BY <1>2, SameRows
    <2>2. CASE q = r /\ y = x
        <3>1. doing'[q].read[y] = Ledger!Row(x)
            BY <1>1, <1>3, <1>4, <2>2 DEF Jobs
        <3>2. Ledger!Exists(x)
            BY <1>1, <2>2, <3>1 DEF Ledger!Known
        <3> QED
            BY <1>1, <1>2, <2>1, <2>2, <3>1, <3>2 DEF IInv, Types
    <2>3. CASE ~(q = r /\ y = x)
        <3>1. doing'[q].read[y] = doing[q].read[y]
            BY <1>1, <1>3, <1>4, <2>3 DEF Jobs
        <3>2. holder[y] = q /\ Ledger!Exists(y) /\ doing[q].read[y] = Ledger!Row(y)
            BY <3>1 DEF IInv, Held, Ledger!Known
        <3>3. y # x
            BY <1>2, <3>2 DEF Ledger!Bounds
        <3> QED
            BY <1>2, <2>1, <3>1, <3>2, <3>3 DEF IInv, Types
    <2> QED
        BY <2>2, <2>3
<1>8. Reserved'
    BY <1>2, <1>3, <1>4 DEF IInv, Reserved
<1> QED
    BY <1>2, <1>5, <1>6, <1>7, <1>8, SameRows DEF IInv

\* A request ends, whatever it was at.
LEMMA EndType ==
    ASSUME IInv, NEW r \in Clients, Ledger!End(r)
    PROVE  /\ doing' \in [Clients -> Jobs] /\ holder' \in [Ledger!Rows -> Clients \cup {Unset}]
           /\ doing'[r] = Ledger!Idle /\ \A q \in Clients : q # r => doing'[q] = doing[q]
           /\ \A x \in Ledger!Rows : holder[x] # r => holder'[x] = holder[x]
<1>1. doing' = [doing EXCEPT ![r] = Ledger!Idle] /\ doing \in [Clients -> Jobs]
    BY DEF Ledger!End, IInv, Types
<1>2. doing' \in [Clients -> Jobs] /\ doing'[r] = Ledger!Idle /\ \A q \in Clients : q # r => doing'[q] = doing[q]
    BY <1>1, IdleType
<1>3. holder' = [x \in Ledger!Rows |-> IF holder[x] = r THEN Unset ELSE holder[x]] /\ holder \in [Ledger!Rows -> Clients \cup {Unset}]
    BY DEF Ledger!End, Ledger!Release, IInv, Types
<1>4. holder' \in [Ledger!Rows -> Clients \cup {Unset}] /\ \A x \in Ledger!Rows : holder[x] # r => holder'[x] = holder[x]
    BY <1>3
<1> QED
    BY <1>2, <1>4

\* What it did to the rows is nothing another request read or will add.
LEMMA EndKeeps ==
    ASSUME IInv, NEW r \in Clients, Ledger!End(r),
           \A q \in Clients : q # r => \A x \in Ledger!Rows : Ledger!Known(doing[q], x) =>
               Ledger!Exists(x)' /\ Ledger!Row(x)' = Ledger!Row(x),
           \A q \in Clients : q # r => \A t \in doing[q].adds : txn'[t] = txn[t],
           \A q \in Clients : q # r /\ doing[q].kind = "import" => import'[doing[q].to] = import[doing[q].to]
    PROVE  AllAsked' /\ Held' /\ Reserved'
<1>1. AllAsked'
    BY EndType, IdleType DEF IInv, AllAsked
<1>2. Held'
    <2> SUFFICES ASSUME NEW q \in Clients, NEW x \in Ledger!Rows, Ledger!Known(doing'[q], x)
                 PROVE  holder'[x] = q /\ Ledger!Exists(x)' /\ doing'[q].read[x] = Ledger!Row(x)'
        BY DEF Held
    <2>1. q # r /\ doing'[q] = doing[q]
        BY EndType, IdleType DEF Ledger!Known
    <2>2. holder[x] = q /\ doing[q].read[x] = Ledger!Row(x) /\ Ledger!Known(doing[q], x)
        BY <2>1 DEF IInv, Held
    <2> QED
        BY <2>1, <2>2, EndType
<1>3. Reserved'
    <2>1. Ledger!Idle.adds = {} /\ Ledger!Idle.kind = "idle"
        BY DEF Ledger!Idle
    <2> QED
        BY <2>1, EndType DEF IInv, Reserved
<1> QED
    BY <1>1, <1>2, <1>3

LEMMA NothingDoneKeeps ==
    ASSUME IInv, NEW r \in Clients, Ledger!End(r), UNCHANGED <<account, txn, import, hand>>
    PROVE  IInv'
<1>1. AllAsked' /\ Held' /\ Reserved'
    BY SameRows, EndKeeps DEF IInv, Held
<1>2. Types'
    BY EndType DEF IInv, Types, Jobs, Ledger!Rows, Ledger!AccountRecords, Ledger!TxnRecords, Ledger!ImportRecords, Ledger!NoTxn, Ledger!NoImport, Readings
<1> QED
    BY <1>1, <1>2, SameRows DEF IInv

-----------------------------------------------------------------------------
(* What a request has read when it commits                                 *)

\* Some account is the first to be locked.
LEMMA FirstExists ==
    ASSUME Ledger!Bounds, NEW S \in SUBSET Accounts, S # {}
    PROVE  Ledger!First(S) # {}
<1> DEFINE below(a) == {b \in Accounts : Rank[b] < Rank[a]}
           B == {below(a) : a \in S}
<1>1. \A a \in Accounts : Rank[a] \in Nat
    BY DEF Ledger!Bounds
<1>2. PICK m \in B : \A s \in SUBSET m : s # m => s \notin B
    <2>1. \A a \in S : below(a) \in SUBSET Accounts
        OBVIOUS
    <2>2. IsFiniteSet(Accounts)
        BY FiniteIs DEF Ledger!Bounds
    <2> HIDE DEF below
    <2>3. B \subseteq SUBSET Accounts /\ B # {}
        BY <2>1
    <2> HIDE DEF B
    <2> QED
        BY <2>2, <2>3, SmallestSet
<1>3. PICK a \in S : m = below(a)
    BY <1>2
<1>4. ASSUME NEW b \in S, Rank[b] < Rank[a] PROVE FALSE
    <2>1. \A c \in below(b) : c \in below(a)
        BY <1>1, <1>4
    <2>2. b \in below(a) /\ b \notin below(b)
        BY <1>1, <1>4
    <2>3. below(b) \in SUBSET m /\ below(b) # m
        BY <1>3, <2>1, <2>2
    <2>4. below(b) \in B
        OBVIOUS
    <2> HIDE DEF B, below
    <2> QED
        BY <1>2, <2>3, <2>4
<1>5. \A b \in S : Rank[a] <= Rank[b]
    BY <1>1, <1>4
<1> QED
    BY <1>5 DEF Ledger!First

LEMMA NoneLeft ==
    ASSUME Ledger!Bounds, NEW j, NEW S \in SUBSET Accounts, Ledger!FirstOf(j, S) = {}
    PROVE  \A a \in S : Ledger!TheAccount(j, a) # NotYet
<1> DEFINE unread == {b \in S : Ledger!TheAccount(j, b) = NotYet}
<1>1. Ledger!First(unread) = {}
    BY DEF Ledger!FirstOf
<1>2. unread = {}
    <2> unread \in SUBSET Accounts
        OBVIOUS
    <2> HIDE DEF unread
    <2> QED
        BY <1>1, FirstExists
<1> QED
    BY <1>2

\* A request that changes a transaction has read and locked it, and the
\* accounts whose balances it changes.
LEMMA UpdateHas ==
    ASSUME Ledger!Bounds, IInv, NEW r \in Clients, Ledger!Ready(r), ~Ledger!Refused(doing[r]), doing[r].kind = "update"
    PROVE  LET t == Ledger!Only(doing[r].txns)
           IN  /\ t \in TxnIds /\ Ledger!Found(doing[r]) = {t}
               /\ Ledger!TheTxn(doing[r], t) = txn[t] /\ txn[t] \in Ledger!TxnRecords
               /\ txn[t].account # doing[r].to => Ledger!Known(doing[r], Ledger!AccountRow(doing[r].to))
               /\ Ledger!Changes(doing[r], txn[t]) => Ledger!Known(doing[r], Ledger!AccountRow(txn[t].account))
<1> DEFINE j == doing[r]  t == Ledger!Only(j.txns)  old == Ledger!TheTxn(j, t)
<1>1. Ledger!NextOfUpdate(j) = {} /\ ~Ledger!Looks(j)
    BY DEF Ledger!Ready, Ledger!NextRows
<1>2. t \in TxnIds /\ \A u \in TxnIds : j.read[Ledger!TxnRow(u)] # NotYet => u = t
    BY TheOne
<1>3. old # NotYet
    BY <1>1 DEF Ledger!NextOfUpdate
<1>4. old # Gone /\ \A a \in Accounts : Ledger!TheAccount(j, a) # Gone
    BY DEF Ledger!Refused
<1>5. Ledger!Found(j) = {t}
    BY <1>2, <1>3, <1>4 DEF Ledger!Found, Ledger!Known, Ledger!TheTxn
<1>6. old = txn[t] /\ txn[t] \in Ledger!TxnRecords
    BY <1>2, <1>3, <1>4, HeldTxn DEF IInv, Types, Ledger!Known, Ledger!TheTxn
<1>7. old.account \in Accounts /\ j.to \in Accounts
    BY <1>6 DEF Ledger!TxnRecords, IInv, AllAsked, Asked
<1>8. ~(old.origin = "bank" /\ j.choice = "keep")
    BY <1>1, <1>3, <1>4 DEF Ledger!Looks
<1>9. old.account # j.to => Ledger!TheAccount(j, j.to) # NotYet
    BY <1>1, <1>3, <1>8 DEF Ledger!NextOfUpdate
<1>10. Ledger!Changes(j, old) => Ledger!TheAccount(j, old.account) # NotYet
    <2>1. Ledger!Changes(j, old) => Ledger!Unread(j, {Ledger!AccountRow(old.account)}) = {}
        BY <1>1, <1>3, <1>8, <1>9 DEF Ledger!NextOfUpdate
    <2> QED
        BY <2>1 DEF Ledger!Unread, Ledger!TheAccount
<1>11. old.account # j.to => Ledger!Known(j, Ledger!AccountRow(j.to))
    BY <1>4, <1>7, <1>9 DEF Ledger!Known, Ledger!TheAccount
<1>12. Ledger!Changes(j, old) => Ledger!Known(j, Ledger!AccountRow(old.account))
    BY <1>4, <1>7, <1>10 DEF Ledger!Known, Ledger!TheAccount
<1> QED
    BY <1>2, <1>5, <1>6, <1>11, <1>12

\* The others too.
LEMMA OthersHave ==
    ASSUME Ledger!Bounds, IInv, NEW r \in Clients, Ledger!Ready(r), ~Ledger!Refused(doing[r])
    PROVE  /\ doing[r].kind \in {"create", "import", "set", "remove"} => Ledger!Known(doing[r], Ledger!AccountRow(doing[r].of))
           /\ doing[r].kind \in {"delete", "undo"} => \A a \in Ledger!Touched(doing[r]) : Ledger!Known(doing[r], Ledger!AccountRow(a))
           /\ doing[r].kind = "undo" =>
                    /\ Ledger!Known(doing[r], Ledger!ImportRow(doing[r].of)) /\ Ledger!TheImport(doing[r]) = import[doing[r].of]
                    /\ import[doing[r].of].account \in Accounts
                    /\ Ledger!Known(doing[r], Ledger!AccountRow(import[doing[r].of].account))
<1> DEFINE j == doing[r]
<1>1. Ledger!NextRows(j) = {} /\ Asked(j) /\ j.kind # "idle"
    BY DEF Ledger!Ready, IInv, AllAsked
<1>2. \A a \in Accounts : Ledger!TheAccount(j, a) # Gone
    BY DEF Ledger!Refused
<1>3. CASE j.kind \in {"create", "import", "set"}
    <2>1. Ledger!Unread(j, {Ledger!AccountRow(j.of)}) = {}
        BY <1>1, <1>3 DEF Ledger!NextRows
    <2>2. Ledger!Known(j, Ledger!AccountRow(j.of))
        BY <1>1, <1>2, <1>3, <2>1 DEF Ledger!Unread, Ledger!Known, Ledger!TheAccount, Asked
    <2> QED
        BY <1>3, <2>2
<1>4. CASE j.kind = "remove"
    <2>1. Ledger!NextOfRemove(j) = {}
        BY <1>1, <1>4 DEF Ledger!NextRows
    <2>2. ~Ledger!Known(j, Ledger!AccountRow(j.of)) => Ledger!Unread(j, {Ledger!AccountRow(j.of)}) = {}
        BY <2>1 DEF Ledger!NextOfRemove
    <2>3. Ledger!Known(j, Ledger!AccountRow(j.of))
        BY <1>1, <1>2, <1>4, <2>2 DEF Ledger!Unread, Ledger!Known, Ledger!TheAccount, Asked
    <2> QED
        BY <1>4, <2>3
<1>5. CASE j.kind = "delete"
    <2>1. Ledger!NextOfDelete(j) = {}
        BY <1>1, <1>5 DEF Ledger!NextRows
    <2>2. Ledger!FirstOf(j, Ledger!Touched(j)) = {}
        BY <2>1 DEF Ledger!NextOfDelete
    <2>3. \A a \in Ledger!Touched(j) : Ledger!Known(j, Ledger!AccountRow(a))
        BY <1>2, <2>2, TouchedType, NoneLeft DEF Ledger!Known, Ledger!TheAccount
    <2> QED
        BY <1>5, <2>3
<1>6. CASE j.kind = "undo"
    <2>1. Ledger!NextOfUndo(j) = {} /\ j.of \in Imports
        BY <1>1, <1>6 DEF Ledger!NextRows, Asked
    <2>2. Ledger!TheImport(j) # NotYet /\ Ledger!TheImport(j) # Gone
        BY <1>6, <2>1 DEF Ledger!NextOfUndo, Ledger!Refused
    <2>3. Ledger!Known(j, Ledger!ImportRow(j.of))
        BY <2>2 DEF Ledger!Known, Ledger!TheImport
    <2>4. Ledger!TheImport(j) = import[j.of] /\ import[j.of].account \in Accounts
        BY <2>1, <2>3, HeldImport DEF IInv, Types, Ledger!TheImport, Ledger!ImportRecords
    <2>5. Ledger!FirstOf(j, Ledger!Touched(j) \cup {import[j.of].account}) = {}
        BY <2>1, <2>2, <2>4 DEF Ledger!NextOfUndo
    <2>6. \A a \in Ledger!Touched(j) \cup {import[j.of].account} : Ledger!Known(j, Ledger!AccountRow(a))
        <3>1. Ledger!Touched(j) \cup {import[j.of].account} \in SUBSET Accounts
            BY <2>4, TouchedType
        <3> QED
            BY <1>2, <2>5, <3>1, NoneLeft DEF Ledger!Known, Ledger!TheAccount
    <2> QED
        BY <1>6, <2>3, <2>4, <2>6
<1> QED
    BY <1>3, <1>4, <1>5, <1>6

-----------------------------------------------------------------------------
(* How the sums change                                                     *)

\* Several are added to a sum, all the same.
LEMMA SumGrows ==
    ASSUME NEW f, NEW g, NEW S, NEW T, IsFiniteSet(S), IsFiniteSet(T), S \cap T = {}, NEW n \in Int,
           \A x \in S : f[x] \in Int /\ g[x] = f[x], \A x \in T : g[x] = n
    PROVE  Ledger!Sum(g, S \cup T) = Ledger!Sum(f, S) + Cardinality(T) * n
<1>1. Ledger!Sum(g, S \cup T) = Ledger!Sum(g, S) + Ledger!Sum(g, T)
    <2>1. \A x \in S \cup T : g[x] \in Int
        OBVIOUS
    <2> QED
        BY <2>1, SumApart, SumIs
<1>2. Ledger!Sum(g, S) = Ledger!Sum(f, S)
    BY SumSame, SumIs
<1>3. Ledger!Sum(g, T) = Cardinality(T) * n
    BY SumEqual, SumIs
<1> QED
    BY <1>1, <1>2, <1>3

\* One is added.
LEMMA SumGains ==
    ASSUME NEW f, NEW g, NEW S, IsFiniteSet(S), NEW x, x \notin S, g[x] \in Int,
           \A y \in S : f[y] \in Int /\ g[y] = f[y]
    PROVE  Ledger!Sum(g, S \cup {x}) = Ledger!Sum(f, S) + g[x]
<1>1. Ledger!Sum(g, S \cup {x}) = Ledger!Sum(g, S) + g[x]
    BY SumAdd, SumIs
<1>2. Ledger!Sum(g, S) = Ledger!Sum(f, S)
    BY SumSame, SumIs
<1> QED
    BY <1>1, <1>2

\* Some are taken out.
LEMMA SumShrinks ==
    ASSUME NEW f, NEW g, NEW S, NEW T, IsFiniteSet(S), T \subseteq S,
           \A x \in S : f[x] \in Int, \A x \in S \ T : g[x] = f[x]
    PROVE  Ledger!Sum(g, S \ T) = Ledger!Sum(f, S) - Ledger!Sum(f, T)
<1>1. Ledger!Sum(f, S \ T) = Ledger!Sum(f, S) - Ledger!Sum(f, T)
    BY SumWithout, SumIs
<1>2. Ledger!Sum(g, S \ T) = Ledger!Sum(f, S \ T)
    <2>1. IsFiniteSet(S \ T)
        BY FS_Subset
    <2> QED
        BY <2>1, SumSame, SumIs
<1> QED
    BY <1>1, <1>2

\* One is another.
LEMMA SumChanges ==
    ASSUME NEW f, NEW g, NEW S, IsFiniteSet(S), NEW x \in S, g[x] \in Int,
           \A y \in S : f[y] \in Int, \A y \in S \ {x} : g[y] = f[y]
    PROVE  Ledger!Sum(g, S) = Ledger!Sum(f, S) - f[x] + g[x]
<1>1. IsFiniteSet(S \ {x})
    BY FS_Subset
<1>2. Ledger!Sum(f, S) = f[x] + Ledger!Sum(f, S \ {x}) /\ Ledger!Sum(g, S) = g[x] + Ledger!Sum(g, S \ {x})
    BY SumRemove, SumIs
<1>3. Ledger!Sum(g, S \ {x}) = Ledger!Sum(f, S \ {x}) /\ Ledger!Sum(f, S \ {x}) \in Int
    BY <1>1, SumSame, SumIs, SumType
<1> QED
    BY <1>2, <1>3

\* One element comes, goes or changes.
LEMMA SumOfOne ==
    ASSUME NEW f, NEW g, NEW S, IsFiniteSet(S), NEW x, NEW T, T = S \cup {x} \/ T = S \ {x},
           f[x] \in Int, g[x] \in Int, \A y \in S : f[y] \in Int, \A y \in S : y # x => g[y] = f[y]
    PROVE  Ledger!Sum(g, T) = Ledger!Sum(f, S) - (IF x \in S THEN f[x] ELSE 0) + (IF x \in T THEN g[x] ELSE 0)
<1>0. Ledger!Sum(f, S) \in Int
    BY SumType, SumIs
<1>1. CASE x \in T /\ x \notin S
    <2>1. Ledger!Sum(g, S \cup {x}) = Ledger!Sum(f, S) + g[x]
        BY <1>1, SumGains
    <2>2. T = S \cup {x}
        BY <1>1
    <2> QED
        BY <1>0, <1>1, <2>1, <2>2
<1>2. CASE x \in T /\ x \in S
    <2>1. Ledger!Sum(g, S) = Ledger!Sum(f, S) - f[x] + g[x]
        BY <1>2, SumChanges
    <2>2. T = S
        BY <1>2
    <2> QED
        BY <1>0, <1>2, <2>1, <2>2
<1>3. CASE x \notin T /\ x \in S
    <2>1. Ledger!Sum(g, S \ {x}) = Ledger!Sum(f, S) - Ledger!Sum(f, {x})
        BY <1>3, SumShrinks
    <2>2. Ledger!Sum(f, {x}) = f[x]
        BY SumSingle, SumIs
    <2>3. T = S \ {x}
        BY <1>3
    <2> QED
        BY <1>0, <1>3, <2>1, <2>2, <2>3
<1>4. CASE x \notin T /\ x \notin S
    <2>1. T = S
        BY <1>4
    <2>2. Ledger!Sum(g, S) = Ledger!Sum(f, S)
        BY <1>4, SumSame, SumIs
    <2> QED
        BY <1>0, <1>4, <2>1, <2>2
<1> QED
    BY <1>1, <1>2, <1>3, <1>4

TxnsMake(a) == Ledger!Sum(Ledger!Amount, Ledger!In(a))
ImportsMake(a) == Ledger!Sum(Ledger!HomeChange, Ledger!ImportsOf(a))

LEMMA SumsMake ==
    ASSUME Ledger!Bounds, Types
    PROVE  /\ \A t \in TxnIds : Ledger!Amount[t] = txn[t].amount /\ Ledger!Amount[t] \in Int
           /\ \A i \in Imports : Ledger!HomeChange[i] = import[i].change - import[i].total /\ Ledger!HomeChange[i] \in Int
           /\ \A S \in SUBSET TxnIds : IsFiniteSet(S) /\ Ledger!Sum(Ledger!Amount, S) \in Int
           /\ \A S \in SUBSET Imports : IsFiniteSet(S) /\ Ledger!Sum(Ledger!HomeChange, S) \in Int
           /\ \A a \in Accounts : TxnsMake(a) \in Int /\ ImportsMake(a) \in Int
<1>1. \A t \in TxnIds : Ledger!Amount[t] = txn[t].amount /\ Ledger!Amount[t] \in Int
    BY DEF Ledger!Amount, Types, Ledger!TxnRecords, Ledger!NoTxn, Ledger!Bounds
<1>2. \A i \in Imports : Ledger!HomeChange[i] = import[i].change - import[i].total /\ Ledger!HomeChange[i] \in Int
    BY DEF Ledger!HomeChange, Types, Ledger!ImportRecords, Ledger!NoImport
<1>3. \A S \in SUBSET TxnIds : IsFiniteSet(S)
    BY FS_Subset, FiniteIs DEF Ledger!Bounds
<1>4. \A S \in SUBSET Imports : IsFiniteSet(S)
    BY FS_Subset, FiniteIs DEF Ledger!Bounds
<1>5. \A S \in SUBSET TxnIds : Ledger!Sum(Ledger!Amount, S) \in Int
    BY <1>1, <1>3, SumType, SumIs
<1>6. \A S \in SUBSET Imports : Ledger!Sum(Ledger!HomeChange, S) \in Int
    BY <1>2, <1>4, SumType, SumIs
<1>7. \A a : Ledger!In(a) \in SUBSET TxnIds /\ Ledger!ImportsOf(a) \in SUBSET Imports
    BY DEF Ledger!In, Ledger!ImportsOf
<1> QED
    BY <1>1, <1>2, <1>3, <1>4, <1>5, <1>6, <1>7 DEF TxnsMake, ImportsMake

\* What deleting takes from an account is what its transactions there are.
LEMMA DeleteIs ==
    ASSUME Ledger!Bounds, IInv, NEW r \in Clients, NEW a \in Accounts
    PROVE  /\ Ledger!DeleteChange(doing[r], a) = -Ledger!Sum(Ledger!Amount, Ledger!Found(doing[r]) \cap Ledger!In(a))
           /\ Ledger!DeleteChange(doing[r], a) \in Int
           /\ a \notin Ledger!Touched(doing[r]) => Ledger!DeleteChange(doing[r], a) = 0
<1> DEFINE j == doing[r]
           taken == {t \in Ledger!Found(j) : Ledger!TheTxn(j, t).account = a}
           f == [t \in taken |-> Ledger!TheTxn(j, t).amount]
<1>1. \A t \in Ledger!Found(j) : Ledger!TheTxn(j, t) = txn[t] /\ t \in TxnIds
    BY HeldTxn DEF Ledger!Found, IInv
<1>2. taken = Ledger!Found(j) \cap Ledger!In(a) /\ taken \in SUBSET TxnIds
    BY <1>1 DEF Ledger!In
<1>3. \A t \in taken : f[t] = Ledger!Amount[t]
    BY <1>1 DEF Ledger!Amount
<1>4. Ledger!DeleteChange(j, a) = -Ledger!Sum(f, taken)
    BY DEF Ledger!DeleteChange
<1>5. a \notin Ledger!Touched(j) => taken = {}
    BY DEF Ledger!Touched
<1> HIDE DEF f, taken
<1>6. IsFiniteSet(taken) /\ Ledger!Sum(Ledger!Amount, taken) \in Int
    BY <1>2, SumsMake DEF IInv
<1>7. Ledger!Sum(f, taken) = Ledger!Sum(Ledger!Amount, taken)
    BY <1>3, <1>6, SumSame, SumIs
<1>8. taken = {} => Ledger!Sum(Ledger!Amount, taken) = 0
    BY SumEmpty, SumIs
<1> QED
    BY <1>2, <1>4, <1>5, <1>6, <1>7, <1>8

LEMMA ImportType ==
    ASSUME Ledger!Bounds, IInv, NEW r \in Clients, Ledger!Ready(r), ~Ledger!Refused(doing[r]), doing[r].kind = "import"
    PROVE  Ledger!Total(doing[r]) \in Int /\ Ledger!ImportChange(doing[r]) \in Int
<1> DEFINE j == doing[r]
<1>1. j.of \in Accounts /\ Ledger!Known(j, Ledger!AccountRow(j.of)) /\ j.amount \in Int /\ j.adds \in SUBSET TxnIds
    BY OthersHave DEF IInv, Types, AllAsked, Asked, Jobs
<1>2. Ledger!TheAccount(j, j.of).balance \in Int
    BY <1>1, HeldAccount DEF IInv, Types, Ledger!AccountRecords
<1>3. (CHOOSE b \in Balances : TRUE) \in Int
    BY DEF Ledger!Bounds
<1>4. Cardinality(j.adds) \in Nat
    BY <1>1, SumsMake, FS_CardinalityType DEF IInv
<1>5. Ledger!Total(j) \in Int
    BY <1>1, <1>4, TotalIs
<1> QED
    BY <1>2, <1>3, <1>5 DEF Ledger!ImportChange

\* Only balances that the request has read change, and those by a number.
LEMMA ChangeType ==
    ASSUME Ledger!Bounds, IInv, NEW r \in Clients, Ledger!Ready(r), ~Ledger!Refused(doing[r]), NEW a \in Accounts
    PROVE  /\ Ledger!Change(doing[r], a) \in Int
           /\ ~Ledger!Known(doing[r], Ledger!AccountRow(a)) => Ledger!Change(doing[r], a) = 0
<1> DEFINE j == doing[r]
<1>1. j.kind \in Ledger!Kinds /\ j.amount \in Int /\ Asked(j) /\ j.adds \in SUBSET TxnIds
    BY DEF IInv, Types, AllAsked, Jobs
<1>2. CASE j.kind = "create"
    BY <1>1, <1>2, OthersHave DEF Ledger!Change
<1>3. CASE j.kind = "set"
    <2>1. Ledger!Known(j, Ledger!AccountRow(j.of)) /\ j.of \in Accounts
        BY <1>1, <1>3, OthersHave DEF Asked
    <2>2. Ledger!TheAccount(j, j.of).balance \in Int
        BY <2>1, HeldAccount DEF IInv, Types, Ledger!AccountRecords
    <2> QED
        BY <1>1, <1>3, <2>1, <2>2 DEF Ledger!Change
<1>4. CASE j.kind = "import"
    <2>1. Ledger!Known(j, Ledger!AccountRow(j.of)) /\ j.of \in Accounts
        BY <1>1, <1>4, OthersHave DEF Asked
    <2>2. Ledger!ImportChange(j) \in Int
        BY <1>1, <1>4, ImportType
    <2> QED
        BY <1>4, <2>1, <2>2 DEF Ledger!Change
<1>5. CASE j.kind = "update"
    <2> DEFINE t == Ledger!Only(j.txns)
    <2>1. Ledger!TheTxn(j, t) = txn[t] /\ txn[t].account \in Accounts /\ txn[t].amount \in Int
        BY <1>5, UpdateHas DEF Ledger!TxnRecords, Ledger!Bounds
    <2>2. /\ txn[t].account # j.to => Ledger!Known(j, Ledger!AccountRow(j.to)) /\ Ledger!Known(j, Ledger!AccountRow(txn[t].account))
          /\ txn[t].amount # j.amount => Ledger!Known(j, Ledger!AccountRow(txn[t].account))
        BY <1>5, UpdateHas DEF Ledger!Changes
    <2>3. Ledger!UpdateChange(j, a) \in Int /\ (~Ledger!Known(j, Ledger!AccountRow(a)) => Ledger!UpdateChange(j, a) = 0)
        BY <1>1, <2>1, <2>2 DEF Ledger!UpdateChange
    <2> QED
        BY <1>5, <2>3 DEF Ledger!Change
<1>6. CASE j.kind = "delete"
    BY <1>6, DeleteIs, OthersHave DEF Ledger!Change
<1>7. CASE j.kind = "undo"
    <2>1. /\ Ledger!TheImport(j) = import[j.of] /\ import[j.of] \in Ledger!ImportRecords
          /\ Ledger!Known(j, Ledger!AccountRow(import[j.of].account))
        BY <1>1, <1>7, OthersHave, HeldImport DEF Asked, IInv, Types
    <2>2. Ledger!DeleteChange(j, a) \in Int /\ import[j.of].total \in Int /\ import[j.of].change \in Int
        BY <2>1, DeleteIs DEF Ledger!ImportRecords
    <2>3. /\ Ledger!UndoChange(j, a) \in Int
          /\ a # import[j.of].account => Ledger!UndoChange(j, a) = Ledger!DeleteChange(j, a)
        BY <2>1, <2>2 DEF Ledger!UndoChange
    <2> QED
        BY <1>7, <2>1, <2>3, DeleteIs, OthersHave DEF Ledger!Change
<1>8. CASE j.kind \in {"idle", "remove"}
    BY <1>8 DEF Ledger!Change
<1> QED
    BY <1>1, <1>2, <1>3, <1>4, <1>5, <1>6, <1>7, <1>8 DEF Ledger!Kinds

-----------------------------------------------------------------------------
(* A commit                                                                *)

LEMMA CommitDoes ==
    ASSUME NEW r \in Clients, Ledger!Commit(r), ~Ledger!Refused(doing[r])
    PROVE  /\ Ledger!Ready(r) /\ Ledger!End(r)
           /\ account' = [a \in Accounts |->
                  IF doing[r].kind = "remove" /\ a = doing[r].of THEN [account[a] EXCEPT !.exists = FALSE]
                  ELSE [account[a] EXCEPT !.balance = Ledger!BalanceAfter(doing[r], a)]]
           /\ txn' = [t \in TxnIds |-> Ledger!TxnAfter(doing[r], t)]
           /\ import' = [i \in Imports |-> Ledger!ImportAfter(doing[r], i)]
           /\ hand' = IF doing[r].kind = "set"
                      THEN [hand EXCEPT ![doing[r].of] = @ + doing[r].amount - account[doing[r].of].balance] ELSE hand
BY DEF Ledger!Commit

\* Every balance the household keeps moves by just the change.
LEMMA BalanceMoves ==
    ASSUME Ledger!Bounds, IInv, NEW r \in Clients, Ledger!Commit(r), ~Ledger!Refused(doing[r]), NEW a \in Accounts
    PROVE  /\ account'[a] \in Ledger!AccountRecords
           /\ doing[r].kind = "remove" /\ a = doing[r].of => ~account'[a].exists
           /\ account'[a].exists => account[a].exists
           /\ account'[a].linked = account[a].linked
           /\ account'[a].exists /\ ~account[a].linked =>
                  account'[a].balance = account[a].balance + Ledger!Change(doing[r], a)
           /\ ~Ledger!Known(doing[r], Ledger!AccountRow(a)) => account'[a] = account[a]
<1> DEFINE j == doing[r]
<1>1. account[a] \in Ledger!AccountRecords
    BY DEF IInv, Types
<1>2. Ledger!Change(j, a) \in Int /\ (~Ledger!Known(j, Ledger!AccountRow(a)) => Ledger!Change(j, a) = 0)
    BY CommitDoes, ChangeType
<1>3. Ledger!Known(j, Ledger!AccountRow(a)) => Ledger!TheAccount(j, a) = account[a]
    BY HeldAccount DEF IInv
<1>4. account'[a] = IF j.kind = "remove" /\ a = j.of THEN [account[a] EXCEPT !.exists = FALSE]
                    ELSE [account[a] EXCEPT !.balance = Ledger!BalanceAfter(j, a)]
    BY CommitDoes
<1>5. /\ Ledger!BalanceAfter(j, a) \in Int
      /\ ~account[a].linked => Ledger!BalanceAfter(j, a) = account[a].balance + Ledger!Change(j, a)
      /\ ~Ledger!Known(j, Ledger!AccountRow(a)) => Ledger!BalanceAfter(j, a) = account[a].balance
    BY <1>1, <1>2, <1>3 DEF Ledger!BalanceAfter, Ledger!AccountRecords
<1>6. j.kind = "remove" /\ a = j.of => Ledger!Known(j, Ledger!AccountRow(a))
    BY CommitDoes, OthersHave
<1> QED
    BY <1>1, <1>4, <1>5, <1>6 DEF Ledger!AccountRecords

\* How far the transactions in an account, and its imports, move.
TxnsGain(j, a) ==
    IF j.kind \in {"create", "import"} THEN IF a = j.of THEN Ledger!Total(j) ELSE 0
    ELSE IF j.kind = "update" THEN Ledger!UpdateChange(j, a)
    ELSE IF j.kind \in {"delete", "undo"} THEN Ledger!DeleteChange(j, a)
    ELSE 0

ImportsGain(j, a) ==
    IF j.kind = "import" THEN IF a = j.of THEN Ledger!ImportChange(j) - Ledger!Total(j) ELSE 0
    ELSE IF j.kind = "undo"
         THEN IF a = Ledger!TheImport(j).account THEN Ledger!TheImport(j).total - Ledger!TheImport(j).change ELSE 0
    ELSE 0

\* Transactions whose account and amount stay as they are.
LEMMA TxnsStay ==
    ASSUME Ledger!Bounds, IInv, NEW a \in Accounts,
           \A t \in TxnIds : (txn'[t].account = a <=> txn[t].account = a)
                             /\ (txn[t].account = a => txn'[t].amount = txn[t].amount)
    PROVE  TxnsMake(a)' = TxnsMake(a)
<1> DEFINE f == Ledger!Amount  g == Ledger!Amount'  S == Ledger!In(a)  T == Ledger!In(a)'
<1>1. S = T /\ S \in SUBSET TxnIds
    BY DEF Ledger!In
<1>2. \A t \in S : f[t] = g[t]
    BY DEF Ledger!In, Ledger!Amount
<1>3. IsFiniteSet(S)
    BY <1>1, SumsMake DEF IInv
<1>4. TxnsMake(a) = Ledger!Sum(f, S) /\ TxnsMake(a)' = Ledger!Sum(g, T)
    BY DEF TxnsMake
<1> HIDE DEF f, g, S, T
<1> QED
    BY <1>1, <1>2, <1>3, <1>4, SumSame, SumIs

LEMMA ImportsStay ==
    ASSUME Ledger!Bounds, IInv, NEW a \in Accounts,
           \A i \in Imports : (import'[i].account = a <=> import[i].account = a)
                              /\ (import[i].account = a => import'[i] = import[i])
    PROVE  ImportsMake(a)' = ImportsMake(a)
<1> DEFINE f == Ledger!HomeChange  g == Ledger!HomeChange'  S == Ledger!ImportsOf(a)  T == Ledger!ImportsOf(a)'
<1>1. S = T /\ S \in SUBSET Imports
    BY DEF Ledger!ImportsOf
<1>2. \A i \in S : f[i] = g[i]
    BY DEF Ledger!ImportsOf, Ledger!HomeChange
<1>3. IsFiniteSet(S)
    BY <1>1, SumsMake DEF IInv
<1>4. ImportsMake(a) = Ledger!Sum(f, S) /\ ImportsMake(a)' = Ledger!Sum(g, T)
    BY DEF ImportsMake
<1> HIDE DEF f, g, S, T
<1> QED
    BY <1>1, <1>2, <1>3, <1>4, SumSame, SumIs

\* What a commit makes of a transaction, case by case.
LEMMA AfterIs ==
    ASSUME NEW j, NEW t
    PROVE  /\ t \in j.adds /\ j.kind \in {"create", "import"} =>
                  Ledger!TxnAfter(j, t) = [account |-> j.of, amount |-> j.amount,
                                           origin |-> IF j.kind = "create" THEN "hand" ELSE j.to]
           /\ t \in Ledger!Found(j) /\ j.kind = "update" =>
                  Ledger!TxnAfter(j, t) = [txn[t] EXCEPT !.account = j.to, !.amount = j.amount]
           /\ t \in Ledger!Found(j) /\ j.kind \in {"delete", "undo"} => Ledger!TxnAfter(j, t) = Ledger!NoTxn
           /\ t \in Ledger!Found(j) /\ j.kind = "remove" /\ txn[t].account = j.of => Ledger!TxnAfter(j, t) = Ledger!NoTxn
           /\ ~(t \in Ledger!Found(j) /\ j.kind = "remove" /\ txn[t].account = j.of) /\ j.kind = "remove" =>
                  Ledger!TxnAfter(j, t) \in {txn[t], [txn[t] EXCEPT !.origin = "hand"]}
           /\ t \notin j.adds \cup Ledger!Found(j) => Ledger!TxnAfter(j, t) = txn[t]
           /\ t \notin j.adds /\ j.kind \in {"idle", "create", "import", "set"} => Ledger!TxnAfter(j, t) = txn[t]
<1>1. t \in j.adds /\ j.kind \in {"create", "import"} =>
          Ledger!TxnAfter(j, t) = [account |-> j.of, amount |-> j.amount,
                                   origin |-> IF j.kind = "create" THEN "hand" ELSE j.to]
    <2>1. CASE j.kind = "create"
        BY <2>1 DEF Ledger!TxnAfter
    <2>2. CASE j.kind = "import"
        BY <2>2 DEF Ledger!TxnAfter
    <2> QED
        BY <2>1, <2>2
<1>2. t \in Ledger!Found(j) /\ j.kind = "update" =>
          Ledger!TxnAfter(j, t) = [txn[t] EXCEPT !.account = j.to, !.amount = j.amount]
    BY DEF Ledger!TxnAfter
<1>3. t \in Ledger!Found(j) /\ j.kind \in {"delete", "undo"} => Ledger!TxnAfter(j, t) = Ledger!NoTxn
    BY DEF Ledger!TxnAfter
<1>4. t \in Ledger!Found(j) /\ j.kind = "remove" /\ txn[t].account = j.of => Ledger!TxnAfter(j, t) = Ledger!NoTxn
    BY DEF Ledger!TxnAfter
<1>5. ~(t \in Ledger!Found(j) /\ j.kind = "remove" /\ txn[t].account = j.of) /\ j.kind = "remove" =>
          Ledger!TxnAfter(j, t) \in {txn[t], [txn[t] EXCEPT !.origin = "hand"]}
    BY DEF Ledger!TxnAfter
<1>6. t \notin j.adds \cup Ledger!Found(j) => Ledger!TxnAfter(j, t) = txn[t]
    BY DEF Ledger!TxnAfter
<1>7. t \notin j.adds /\ j.kind \in {"idle", "create", "import", "set"} => Ledger!TxnAfter(j, t) = txn[t]
    BY DEF Ledger!TxnAfter
<1> QED
    BY <1>1, <1>2, <1>3, <1>4, <1>5, <1>6, <1>7

\* The rows of transactions and imports after the commit.
LEMMA RowsAfter ==
    ASSUME Ledger!Bounds, IInv, NEW r \in Clients, Ledger!Commit(r), ~Ledger!Refused(doing[r])
    PROVE  /\ \A t \in TxnIds : txn'[t] = Ledger!TxnAfter(doing[r], t)
           /\ \A i \in Imports : import'[i] = Ledger!ImportAfter(doing[r], i)
           /\ doing[r] \in Jobs /\ Asked(doing[r]) /\ doing[r].kind \in Ledger!Kinds
           /\ \A t \in Ledger!Found(doing[r]) : t \in TxnIds /\ txn[t] \in Ledger!TxnRecords /\ Ledger!TheTxn(doing[r], t) = txn[t]
           /\ \A t \in doing[r].adds : t \in TxnIds /\ txn[t] = Ledger!NoTxn
           /\ \A a \in Accounts : Ledger!NoTxn.account # a /\ Ledger!NoImport.account # a
<1>1. doing[r] \in Jobs /\ Asked(doing[r]) /\ doing[r].kind \in Ledger!Kinds
    BY DEF IInv, Types, AllAsked, Jobs
<1>2. \A t \in Ledger!Found(doing[r]) : t \in TxnIds /\ txn[t] \in Ledger!TxnRecords /\ Ledger!TheTxn(doing[r], t) = txn[t]
    BY HeldTxn DEF Ledger!Found, IInv, Types
<1>3. \A t \in doing[r].adds : t \in TxnIds /\ txn[t] = Ledger!NoTxn
    BY <1>1 DEF IInv, Reserved, Jobs
<1>4. \A a \in Accounts : Ledger!NoTxn.account # a /\ Ledger!NoImport.account # a
    BY DEF Ledger!NoTxn, Ledger!NoImport, Ledger!Bounds
<1> QED
    BY <1>1, <1>2, <1>3, <1>4, CommitDoes

\* Transactions added by hand or by an import.
LEMMA AddsMove ==
    ASSUME Ledger!Bounds, IInv, NEW r \in Clients, Ledger!Commit(r), ~Ledger!Refused(doing[r]), NEW a \in Accounts,
           doing[r].kind \in {"create", "import"}
    PROVE  TxnsMake(a)' = TxnsMake(a) + TxnsGain(doing[r], a)
<1> DEFINE j == doing[r]
<1>1. \A t \in TxnIds : /\ t \in j.adds => txn'[t].account = j.of /\ txn'[t].amount = j.amount
                        /\ t \notin j.adds => txn'[t] = txn[t]
    <2> SUFFICES ASSUME NEW t \in TxnIds
                 PROVE  /\ t \in j.adds => txn'[t].account = j.of /\ txn'[t].amount = j.amount
                        /\ t \notin j.adds => txn'[t] = txn[t]
        OBVIOUS
    <2>1. txn'[t] = Ledger!TxnAfter(j, t)
        BY RowsAfter
    <2>2. t \in j.adds => Ledger!TxnAfter(j, t) = [account |-> j.of, amount |-> j.amount,
                                                  origin |-> IF j.kind = "create" THEN "hand" ELSE j.to]
        BY AfterIs
    <2>3. t \notin j.adds => Ledger!TxnAfter(j, t) = txn[t]
        BY AfterIs
    <2> QED
        BY <2>1, <2>2, <2>3
<1>2. j.adds \in SUBSET TxnIds /\ j.of \in Accounts /\ j.amount \in Int
    BY RowsAfter DEF Jobs, Asked
<1>3. CASE a # j.of
    <2>1. TxnsMake(a)' = TxnsMake(a)
        BY <1>1, <1>3, RowsAfter, TxnsStay
    <2> QED
        BY <1>3, <2>1, SumsMake DEF TxnsGain, IInv
<1>4. CASE a = j.of
    <2> DEFINE f == Ledger!Amount  g == Ledger!Amount'  S == Ledger!In(a)  T == Ledger!In(a)'
    <2>1. T = S \cup j.adds /\ S \cap j.adds = {} /\ S \in SUBSET TxnIds
        BY <1>1, <1>2, <1>4, RowsAfter DEF Ledger!In
    <2>2. /\ \A t \in S : f[t] \in Int /\ g[t] = f[t]
          /\ \A t \in j.adds : g[t] = j.amount
        BY <1>1, <1>2, <2>1, SumsMake DEF Ledger!Amount, IInv
    <2>3. IsFiniteSet(S) /\ IsFiniteSet(j.adds)
        BY <1>2, <2>1, SumsMake DEF IInv
    <2>4. TxnsMake(a) = Ledger!Sum(f, S) /\ TxnsMake(a)' = Ledger!Sum(g, T)
        BY DEF TxnsMake
    <2>5. TxnsGain(j, a) = Cardinality(j.adds) * j.amount
        BY <1>4, TotalIs DEF TxnsGain
    <2> HIDE DEF f, g, S, T
    <2>6. Ledger!Sum(g, S \cup j.adds) = Ledger!Sum(f, S) + Cardinality(j.adds) * j.amount
        BY <1>2, <2>1, <2>2, <2>3, SumGrows
    <2> QED
        BY <2>1, <2>4, <2>5, <2>6
<1> QED
    BY <1>3, <1>4

\* One transaction changed.
LEMMA UpdateMoves ==
    ASSUME Ledger!Bounds, IInv, NEW r \in Clients, Ledger!Commit(r), ~Ledger!Refused(doing[r]), NEW a \in Accounts,
           doing[r].kind = "update"
    PROVE  TxnsMake(a)' = TxnsMake(a) + TxnsGain(doing[r], a)
<1> DEFINE j == doing[r]  t == Ledger!Only(j.txns)  old == txn[t]
           f == Ledger!Amount  g == Ledger!Amount'  S == Ledger!In(a)  T == Ledger!In(a)'
<1>1. /\ t \in TxnIds /\ Ledger!Found(j) = {t} /\ Ledger!TheTxn(j, t) = old
      /\ old.account \in Accounts /\ old.amount \in Int
    BY CommitDoes, UpdateHas DEF Ledger!TxnRecords, Ledger!Bounds
<1>2. j.adds = {} /\ j.amount \in Int
    BY RowsAfter DEF Asked, Jobs
<1>3. \A u \in TxnIds : /\ u = t => txn'[u].account = j.to /\ txn'[u].amount = j.amount
                        /\ u # t => txn'[u] = txn[u]
    <2>1. ASSUME NEW u \in TxnIds
          PROVE  /\ u = t => txn'[u] = [txn[u] EXCEPT !.account = j.to, !.amount = j.amount]
                 /\ u # t => txn'[u] = txn[u]
        <3>1. txn'[u] = Ledger!TxnAfter(j, u)
            BY RowsAfter
        <3>2. u \in Ledger!Found(j) <=> u = t
            BY <1>1
        <3> HIDE DEF t
        <3> QED
            BY <1>2, <3>1, <3>2, AfterIs
    <2>2. txn[t] \in Ledger!TxnRecords
        BY <1>1, RowsAfter
    <2> QED
        BY <2>1, <2>2 DEF Ledger!TxnRecords
<1>4. /\ TxnsGain(j, a) = Ledger!UpdateChange(j, a)
      /\ Ledger!UpdateChange(j, a) = IF old.account # j.to
                                     THEN (IF a = j.to THEN j.amount ELSE 0) - (IF a = old.account THEN old.amount ELSE 0)
                                     ELSE IF a = old.account THEN j.amount - old.amount ELSE 0
    BY <1>1 DEF TxnsGain, Ledger!UpdateChange
<1>5. /\ \A u \in TxnIds : f[u] \in Int /\ (u # t => g[u] = f[u])
      /\ f[t] = old.amount /\ g[t] = j.amount
    BY <1>1, <1>3, SumsMake DEF Ledger!Amount, IInv
<1>6. S \in SUBSET TxnIds /\ IsFiniteSet(S) /\ Ledger!Sum(f, S) \in Int
    <2>1. S \in SUBSET TxnIds
        BY DEF Ledger!In
    <2> QED
        BY <2>1, SumsMake DEF IInv
<1>7. TxnsMake(a) = Ledger!Sum(f, S) /\ TxnsMake(a)' = Ledger!Sum(g, T)
    BY DEF TxnsMake
<1>8. /\ t \in S <=> a = old.account
      /\ T = IF a = j.to THEN S \cup {t} ELSE S \ {t}
    BY <1>1, <1>3 DEF Ledger!In
<1> HIDE DEF f, g, S, T, old, t
<1>9. /\ T = S \cup {t} \/ T = S \ {t}
      /\ f[t] \in Int /\ g[t] \in Int
      /\ \A u \in S : f[u] \in Int
      /\ \A u \in S : u # t => g[u] = f[u]
    BY <1>1, <1>2, <1>5, <1>6, <1>8
<1>10. Ledger!Sum(g, T) = Ledger!Sum(f, S) - (IF t \in S THEN f[t] ELSE 0) + (IF t \in T THEN g[t] ELSE 0)
    BY <1>6, <1>9, SumOfOne
<1> QED
    BY <1>1, <1>2, <1>4, <1>5, <1>6, <1>7, <1>8, <1>10

\* Transactions deleted, by themselves or with their import.
LEMMA DeletesMove ==
    ASSUME Ledger!Bounds, IInv, NEW r \in Clients, Ledger!Commit(r), ~Ledger!Refused(doing[r]), NEW a \in Accounts,
           doing[r].kind \in {"delete", "undo"}
    PROVE  TxnsMake(a)' = TxnsMake(a) + TxnsGain(doing[r], a)
<1> DEFINE j == doing[r]  f == Ledger!Amount  g == Ledger!Amount'  S == Ledger!In(a)  T == Ledger!In(a)'  gone == Ledger!Found(j) \cap Ledger!In(a)
<1>1. j.adds = {}
    BY RowsAfter DEF Asked
<1>2. \A t \in TxnIds : txn'[t] = IF t \in Ledger!Found(j) THEN Ledger!NoTxn ELSE txn[t]
    BY <1>1, RowsAfter DEF Ledger!TxnAfter
<1>3. T = S \ gone /\ gone \subseteq S /\ S \in SUBSET TxnIds
    BY <1>2, RowsAfter DEF Ledger!In
<1>4. /\ \A t \in S : f[t] \in Int
      /\ \A t \in S \ gone : g[t] = f[t]
    BY <1>2, <1>3, SumsMake DEF Ledger!Amount, IInv
<1>5. IsFiniteSet(S) /\ Ledger!Sum(f, S) \in Int /\ Ledger!Sum(f, gone) \in Int
    BY <1>3, SumsMake DEF IInv
<1>6. TxnsMake(a) = Ledger!Sum(f, S) /\ TxnsMake(a)' = Ledger!Sum(g, T)
    BY DEF TxnsMake
<1>7. TxnsGain(j, a) = -Ledger!Sum(f, gone)
    BY DeleteIs DEF TxnsGain
<1> HIDE DEF f, g, S, T, gone
<1>8. Ledger!Sum(g, S \ gone) = Ledger!Sum(f, S) - Ledger!Sum(f, gone)
    BY <1>3, <1>4, <1>5, SumShrinks
<1> QED
    BY <1>3, <1>5, <1>6, <1>7, <1>8

LEMMA TxnsMove ==
    ASSUME Ledger!Bounds, IInv, NEW r \in Clients, Ledger!Commit(r), ~Ledger!Refused(doing[r]), NEW a \in Accounts,
           ~(doing[r].kind = "remove" /\ a = doing[r].of)
    PROVE  TxnsMake(a)' = TxnsMake(a) + TxnsGain(doing[r], a)
<1> DEFINE j == doing[r]
<1>1. j.kind \in Ledger!Kinds
    BY RowsAfter
<1>2. CASE j.kind \in {"idle", "set", "remove"}
    <2>1. j.adds = {}
        BY <1>2, RowsAfter DEF Asked
    <2>2. ASSUME NEW t \in TxnIds
          PROVE  /\ txn'[t].account = a <=> txn[t].account = a
                 /\ txn[t].account = a => txn'[t].amount = txn[t].amount
        <3>1. CASE t \in Ledger!Found(j) /\ j.kind = "remove" /\ txn[t].account = j.of
            <4>1. txn'[t] = Ledger!NoTxn
                BY <2>1, <3>1, RowsAfter DEF Ledger!TxnAfter
            <4> QED
                BY <3>1, <4>1, RowsAfter
        <3>2. CASE ~(t \in Ledger!Found(j) /\ j.kind = "remove" /\ txn[t].account = j.of)
            <4>1. \/ txn'[t] = txn[t]
                  \/ txn'[t] = [txn[t] EXCEPT !.origin = "hand"]
                <5>1. txn'[t] = Ledger!TxnAfter(j, t)
                    BY RowsAfter
                <5>2. CASE j.kind = "remove"
                    <6>1. Ledger!TxnAfter(j, t) \in {txn[t], [txn[t] EXCEPT !.origin = "hand"]}
                        BY <3>2, <5>2, AfterIs
                    <6> QED
                        BY <5>1, <6>1
                <5>3. CASE j.kind \in {"idle", "set"}
                    <6>1. Ledger!TxnAfter(j, t) = txn[t]
                        BY <2>1, <5>3, AfterIs
                    <6> QED
                        BY <5>1, <6>1
                <5> QED
                    BY <1>2, <5>2, <5>3
            <4>2. txn[t] \in Ledger!TxnRecords \cup {Ledger!NoTxn}
                BY DEF IInv, Types
            <4> QED
                BY <4>1, <4>2 DEF Ledger!TxnRecords, Ledger!NoTxn
        <3> QED
            BY <3>1, <3>2
    <2>3. TxnsMake(a)' = TxnsMake(a)
        BY <2>2, TxnsStay
    <2> QED
        BY <1>2, <2>3, SumsMake DEF TxnsGain, IInv
<1> QED
    BY <1>1, <1>2, AddsMove, UpdateMoves, DeletesMove DEF Ledger!Kinds

\* An import added or undone, and all others left alone.
LEMMA ImportsMove ==
    ASSUME Ledger!Bounds, IInv, NEW r \in Clients, Ledger!Commit(r), ~Ledger!Refused(doing[r]), NEW a \in Accounts,
           ~(doing[r].kind = "remove" /\ a = doing[r].of)
    PROVE  ImportsMake(a)' = ImportsMake(a) + ImportsGain(doing[r], a)
<1> DEFINE j == doing[r]  f == Ledger!HomeChange  g == Ledger!HomeChange'  S == Ledger!ImportsOf(a)  T == Ledger!ImportsOf(a)'
<1>1. j.kind \in Ledger!Kinds /\ Asked(j)
    BY RowsAfter
<1>2. S \in SUBSET Imports /\ IsFiniteSet(S) /\ Ledger!Sum(f, S) \in Int
    <2>1. S \in SUBSET Imports
        BY DEF Ledger!ImportsOf
    <2> QED
        BY <2>1, SumsMake DEF IInv
<1>3. ImportsMake(a) = Ledger!Sum(f, S) /\ ImportsMake(a)' = Ledger!Sum(g, T)
    BY DEF ImportsMake
<1>4. CASE j.kind = "import" /\ a = j.of
    <2> DEFINE i == j.to
    <2>1. i \in Imports /\ import[i] = Ledger!NoImport
        BY <1>1, <1>4 DEF Asked, IInv, Reserved
    <2>2. /\ import'[i] = [account |-> a, total |-> Ledger!Total(j), change |-> Ledger!ImportChange(j)]
          /\ \A k \in Imports : k # i => import'[k] = import[k]
        BY <1>4, <2>1, RowsAfter DEF Ledger!ImportAfter
    <2>3. Ledger!Total(j) \in Int /\ Ledger!ImportChange(j) \in Int
        BY <1>4, CommitDoes, ImportType
    <2>4. g[i] = Ledger!ImportChange(j) - Ledger!Total(j) /\ \A k \in S : f[k] \in Int /\ (k # i => g[k] = f[k])
        BY <1>2, <2>1, <2>2, SumsMake DEF Ledger!HomeChange, IInv
    <2>5. i \notin S /\ T = S \cup {i}
        BY <2>1, <2>2, RowsAfter DEF Ledger!ImportsOf
    <2>6. ImportsGain(j, a) = Ledger!ImportChange(j) - Ledger!Total(j)
        BY <1>4 DEF ImportsGain
    <2> HIDE DEF f, g, S, T, i
    <2>7. Ledger!Sum(g, S \cup {i}) = Ledger!Sum(f, S) + g[i]
        BY <1>2, <2>3, <2>4, <2>5, SumGains
    <2> QED
        BY <1>3, <2>4, <2>5, <2>6, <2>7
<1>5. CASE j.kind = "undo" /\ a = import[j.of].account
    <2> DEFINE i == j.of
    <2>1. i \in Imports /\ Ledger!TheImport(j) = import[i]
        BY <1>1, <1>5, CommitDoes, OthersHave DEF Asked
    <2>2. import'[i] = Ledger!NoImport /\ \A k \in Imports : k # i => import'[k] = import[k]
        BY <1>5, <2>1, RowsAfter DEF Ledger!ImportAfter
    <2>3. i \in S /\ T = S \ {i}
        BY <1>5, <2>1, <2>2, RowsAfter DEF Ledger!ImportsOf
    <2>4. /\ f[i] = import[i].change - import[i].total /\ \A k \in S : f[k] \in Int
          /\ \A k \in S \ {i} : g[k] = f[k]
        BY <1>2, <2>1, <2>2, SumsMake DEF Ledger!HomeChange, IInv
    <2>5. ImportsGain(j, a) = import[i].total - import[i].change
        BY <1>5, <2>1 DEF ImportsGain
    <2>6. import[i].total \in Int /\ import[i].change \in Int
        BY <2>1 DEF IInv, Types, Ledger!ImportRecords, Ledger!NoImport
    <2> HIDE DEF f, g, S, T, i
    <2>7. Ledger!Sum(g, S \ {i}) = Ledger!Sum(f, S) - Ledger!Sum(f, {i})
        BY <1>2, <2>3, <2>4, SumShrinks
    <2>8. Ledger!Sum(f, {i}) = f[i]
        BY <2>3, <2>4, SumSingle, SumIs
    <2> QED
        BY <1>2, <1>3, <2>3, <2>4, <2>5, <2>6, <2>7, <2>8
<1>6. CASE ~(j.kind = "import" /\ a = j.of) /\ ~(j.kind = "undo" /\ a = import[j.of].account)
    <2>1. ASSUME NEW i \in Imports
          PROVE  /\ import'[i].account = a <=> import[i].account = a
                 /\ import[i].account = a => import'[i] = import[i]
        <3>1. import'[i] = Ledger!ImportAfter(j, i)
            BY RowsAfter
        <3>2. CASE j.kind = "import"
            <4>1. CASE i = j.to
                <5>1. import'[i].account = j.of /\ import[i] = Ledger!NoImport
                    BY <3>1, <3>2, <4>1 DEF Ledger!ImportAfter, IInv, Reserved
                <5> QED
                    BY <1>6, <3>2, <5>1, RowsAfter
            <4>2. CASE i # j.to
                BY <3>1, <3>2, <4>2 DEF Ledger!ImportAfter
            <4> QED
                BY <4>1, <4>2
        <3>3. CASE j.kind = "undo"
            <4>1. import'[i] = IF i = j.of THEN Ledger!NoImport ELSE import[i]
                BY <3>1, <3>3 DEF Ledger!ImportAfter
            <4> QED
                BY <1>6, <3>3, <4>1, RowsAfter
        <3>4. CASE j.kind = "remove"
            <4>1. import'[i] = IF Ledger!Known(j, Ledger!ImportRow(i)) /\ import[i].account = j.of THEN Ledger!NoImport ELSE import[i]
                BY <3>1, <3>4 DEF Ledger!ImportAfter
            <4> QED
                BY <3>4, <4>1, RowsAfter
        <3>5. CASE j.kind \notin {"import", "undo", "remove"}
            BY <3>1, <3>5 DEF Ledger!ImportAfter
        <3> QED
            BY <3>2, <3>3, <3>4, <3>5
    <2>2. ImportsMake(a)' = ImportsMake(a)
        BY <2>1, ImportsStay
    <2>3. j.kind = "undo" => Ledger!TheImport(j) = import[j.of]
        BY CommitDoes, OthersHave
    <2>4. ImportsGain(j, a) = 0
        BY <1>6, <2>3 DEF ImportsGain
    <2> QED
        BY <1>2, <1>3, <2>2, <2>4
<1> QED
    BY <1>4, <1>5, <1>6

\* What a commit does to a balance is what it does to what explains it.
LEMMA CommitExplained ==
    ASSUME Ledger!Bounds, IInv, NEW r \in Clients, Ledger!Commit(r), ~Ledger!Refused(doing[r])
    PROVE  Ledger!BalanceExplained'
<1> SUFFICES ASSUME NEW a \in Accounts, account'[a].exists, ~account'[a].linked
             PROVE  account'[a].balance = hand'[a] + Ledger!Explained(a)'
    BY DEF Ledger!BalanceExplained
<1> DEFINE j == doing[r]
<1>1. /\ account[a].exists /\ ~account[a].linked
      /\ account'[a].balance = account[a].balance + Ledger!Change(j, a)
      /\ ~(j.kind = "remove" /\ a = j.of)
    BY BalanceMoves
<1>2. TxnsMake(a)' = TxnsMake(a) + TxnsGain(j, a) /\ ImportsMake(a)' = ImportsMake(a) + ImportsGain(j, a)
    BY <1>1, TxnsMove, ImportsMove
<1>3. account[a].balance = hand[a] + (TxnsMake(a) + ImportsMake(a))
    BY <1>1 DEF IInv, Ledger!BalanceExplained, Ledger!Explained, TxnsMake, ImportsMake
<1>4. Ledger!Explained(a)' = TxnsMake(a)' + ImportsMake(a)'
    BY DEF Ledger!Explained, TxnsMake, ImportsMake
<1>5. /\ account[a].balance \in Int /\ hand[a] \in Int /\ TxnsMake(a) \in Int /\ ImportsMake(a) \in Int
      /\ Ledger!Change(j, a) \in Int
    BY CommitDoes, ChangeType, SumsMake DEF IInv, Types, Ledger!AccountRecords
<1>6. j \in Jobs /\ Asked(j) /\ j.kind \in Ledger!Kinds
    BY RowsAfter
<1>7. hand' = IF j.kind = "set" THEN [hand EXCEPT ![j.of] = @ + j.amount - account[j.of].balance] ELSE hand
    BY CommitDoes
<1>8. CASE j.kind = "create"
    <2>1. PICK t \in TxnIds : j.adds = {t}
        BY <1>6, <1>8 DEF Asked
    <2>2. Ledger!Total(j) = j.amount /\ j.amount \in Int
        <3>1. Cardinality(j.adds) = 1 /\ j.amount \in Int
            BY <1>6, <2>1, FS_Singleton DEF Jobs
        <3> QED
            BY <3>1, TotalIs
    <2>3. TxnsGain(j, a) = Ledger!Change(j, a) /\ ImportsGain(j, a) = 0
        BY <1>8, <2>2 DEF TxnsGain, ImportsGain, Ledger!Change
    <2> QED
        BY <1>1, <1>2, <1>3, <1>4, <1>5, <1>7, <1>8, <2>3
<1>9. CASE j.kind = "update"
    <2>1. TxnsGain(j, a) = Ledger!Change(j, a) /\ ImportsGain(j, a) = 0
        BY <1>9 DEF TxnsGain, ImportsGain, Ledger!Change
    <2> QED
        BY <1>1, <1>2, <1>3, <1>4, <1>5, <1>7, <1>9, <2>1
<1>10. CASE j.kind = "delete"
    <2>1. TxnsGain(j, a) = Ledger!Change(j, a) /\ ImportsGain(j, a) = 0
        BY <1>10 DEF TxnsGain, ImportsGain, Ledger!Change
    <2> QED
        BY <1>1, <1>2, <1>3, <1>4, <1>5, <1>7, <1>10, <2>1
<1>11. CASE j.kind = "undo"
    <2>1. Ledger!TheImport(j) = import[j.of] /\ import[j.of].total \in Int /\ import[j.of].change \in Int
        BY <1>6, <1>11, CommitDoes, OthersHave DEF Asked, IInv, Types, Ledger!ImportRecords, Ledger!NoImport
    <2>2. Ledger!DeleteChange(j, a) \in Int
        BY DeleteIs
    <2>3. TxnsGain(j, a) = Ledger!DeleteChange(j, a) /\ Ledger!Change(j, a) = Ledger!UndoChange(j, a)
        BY <1>11 DEF TxnsGain, Ledger!Change
    <2>4. ImportsGain(j, a) = IF a = import[j.of].account THEN import[j.of].total - import[j.of].change ELSE 0
        BY <1>11, <2>1 DEF ImportsGain
    <2>5. Ledger!Change(j, a) = TxnsGain(j, a) + ImportsGain(j, a)
        BY <2>1, <2>2, <2>3, <2>4 DEF Ledger!UndoChange
    <2> QED
        BY <1>1, <1>2, <1>3, <1>4, <1>5, <1>7, <1>11, <2>1, <2>2, <2>3, <2>4, <2>5
<1>12. CASE j.kind = "import"
    <2>1. Ledger!Total(j) \in Int /\ Ledger!ImportChange(j) \in Int
        BY <1>12, CommitDoes, ImportType
    <2>2. /\ TxnsGain(j, a) = IF a = j.of THEN Ledger!Total(j) ELSE 0
          /\ ImportsGain(j, a) = IF a = j.of THEN Ledger!ImportChange(j) - Ledger!Total(j) ELSE 0
          /\ Ledger!Change(j, a) = IF a = j.of THEN Ledger!ImportChange(j) ELSE 0
        BY <1>12 DEF TxnsGain, ImportsGain, Ledger!Change
    <2> QED
        BY <1>1, <1>2, <1>3, <1>4, <1>5, <1>7, <1>12, <2>1, <2>2
<1>13. CASE j.kind = "set"
    <2>1. j.of \in Accounts /\ Ledger!Known(j, Ledger!AccountRow(j.of)) /\ j.amount \in Int
        BY <1>6, <1>13, CommitDoes, OthersHave DEF Asked, Jobs
    <2>2. Ledger!TheAccount(j, j.of) = account[j.of] /\ account[j.of].balance \in Int
        BY <2>1, HeldAccount DEF IInv, Types, Ledger!AccountRecords
    <2>3. TxnsGain(j, a) = 0 /\ ImportsGain(j, a) = 0
        BY <1>13 DEF TxnsGain, ImportsGain
    <2>4. Ledger!Change(j, a) = IF a = j.of THEN j.amount - account[a].balance ELSE 0
        BY <1>13, <2>2 DEF Ledger!Change
    <2>5. hand'[a] = IF a = j.of THEN hand[a] + j.amount - account[a].balance ELSE hand[a]
        BY <1>7, <1>13, <2>1 DEF IInv, Types
    <2> QED
        BY <1>1, <1>2, <1>3, <1>4, <1>5, <2>1, <2>3, <2>4, <2>5
<1>14. CASE j.kind \in {"idle", "remove"}
    <2>1. TxnsGain(j, a) = 0 /\ ImportsGain(j, a) = 0 /\ Ledger!Change(j, a) = 0
        BY <1>14 DEF TxnsGain, ImportsGain, Ledger!Change
    <2> QED
        BY <1>1, <1>2, <1>3, <1>4, <1>5, <1>7, <1>14, <2>1
<1> QED
    BY <1>6, <1>8, <1>9, <1>10, <1>11, <1>12, <1>13, <1>14 DEF Ledger!Kinds

LEMMA CommitTypes ==
    ASSUME Ledger!Bounds, IInv, NEW r \in Clients, Ledger!Commit(r), ~Ledger!Refused(doing[r])
    PROVE  Types'
<1> DEFINE j == doing[r]
<1>1. j \in Jobs /\ Asked(j) /\ j.kind \in Ledger!Kinds
    BY RowsAfter
<1>2. account' \in [Accounts -> Ledger!AccountRecords]
    <2>1. \A a \in Accounts : account'[a] \in Ledger!AccountRecords
        BY BalanceMoves
    <2> QED
        BY <2>1, CommitDoes
<1>3. txn' \in [TxnIds -> Ledger!TxnRecords \cup {Ledger!NoTxn}]
    <2>1. ASSUME NEW t \in TxnIds PROVE Ledger!TxnAfter(j, t) \in Ledger!TxnRecords \cup {Ledger!NoTxn}
        <3>1. txn[t] \in Ledger!TxnRecords \cup {Ledger!NoTxn} /\ (t \in Ledger!Found(j) => txn[t] \in Ledger!TxnRecords)
            BY RowsAfter DEF IInv, Types
        <3>2. CASE t \in j.adds
            <4>1. j.kind \in {"create", "import"}
                BY <1>1, <3>2 DEF Asked
            <4>2. /\ j.of \in Accounts /\ j.amount \in Amounts /\ (j.kind = "import" => j.to \in Imports)
                  /\ Ledger!TxnAfter(j, t) = [account |-> j.of, amount |-> j.amount,
                                              origin |-> IF j.kind = "create" THEN "hand" ELSE j.to]
                BY <1>1, <3>2, <4>1, AfterIs DEF Asked
            <4> QED
                BY <4>1, <4>2 DEF Ledger!TxnRecords
        <3>3. CASE t \notin j.adds /\ t \notin Ledger!Found(j)
            BY <3>1, <3>3, AfterIs
        <3>4. CASE t \notin j.adds /\ t \in Ledger!Found(j)
            <4>1. CASE j.kind = "update"
                <5>1. Ledger!TxnAfter(j, t) = [txn[t] EXCEPT !.account = j.to, !.amount = j.amount]
                    BY <3>4, <4>1, AfterIs
                <5>2. j.to \in Accounts /\ j.amount \in Amounts
                    BY <1>1, <4>1 DEF Asked
                <5> QED
                    BY <3>1, <3>4, <5>1, <5>2 DEF Ledger!TxnRecords
            <4>2. CASE j.kind \in {"delete", "undo"}
                BY <3>4, <4>2, AfterIs
            <4>3. CASE j.kind = "remove"
                <5>1. Ledger!TxnAfter(j, t) \in {Ledger!NoTxn, txn[t], [txn[t] EXCEPT !.origin = "hand"]}
                    BY <4>3, AfterIs
                <5>2. [txn[t] EXCEPT !.origin = "hand"] \in Ledger!TxnRecords
                    BY <3>1, <3>4 DEF Ledger!TxnRecords
                <5> QED
                    BY <3>1, <5>1, <5>2
            <4>4. CASE j.kind \in {"idle", "create", "import", "set"}
                BY <3>1, <3>4, <4>4, AfterIs
            <4> QED
                BY <1>1, <4>1, <4>2, <4>3, <4>4 DEF Ledger!Kinds
        <3> QED
            BY <3>2, <3>3, <3>4
    <2>2. \A t \in TxnIds : txn'[t] \in Ledger!TxnRecords \cup {Ledger!NoTxn}
        BY <2>1, RowsAfter
    <2> QED
        BY <2>2, CommitDoes
<1>4. import' \in [Imports -> Ledger!ImportRecords \cup {Ledger!NoImport}]
    <2>1. ASSUME NEW i \in Imports PROVE Ledger!ImportAfter(j, i) \in Ledger!ImportRecords \cup {Ledger!NoImport}
        <3>1. CASE j.kind = "import" /\ i = j.to
            <4>1. Ledger!Total(j) \in Int /\ Ledger!ImportChange(j) \in Int /\ j.of \in Accounts
                BY <1>1, <3>1, CommitDoes, ImportType DEF Asked
            <4>2. Ledger!ImportAfter(j, i) = [account |-> j.of, total |-> Ledger!Total(j), change |-> Ledger!ImportChange(j)]
                BY <3>1 DEF Ledger!ImportAfter
            <4> QED
                BY <4>1, <4>2 DEF Ledger!ImportRecords
        <3>2. CASE ~(j.kind = "import" /\ i = j.to)
            <4>1. Ledger!ImportAfter(j, i) \in {Ledger!NoImport, import[i]}
                BY <3>2 DEF Ledger!ImportAfter
            <4> QED
                BY <4>1 DEF IInv, Types
        <3> QED
            BY <3>1, <3>2
    <2>2. \A i \in Imports : import'[i] \in Ledger!ImportRecords \cup {Ledger!NoImport}
        BY <2>1, RowsAfter
    <2> QED
        BY <2>2, CommitDoes
<1>5. hand' \in [Accounts -> Int]
    <2>1. j.kind = "set" => account[j.of].balance \in Int /\ j.of \in Accounts /\ j.amount \in Int
        BY <1>1 DEF Asked, Jobs, IInv, Types, Ledger!AccountRecords
    <2>2. hand \in [Accounts -> Int]
        BY DEF IInv, Types
    <2>3. hand' = IF j.kind = "set" THEN [hand EXCEPT ![j.of] = @ + j.amount - account[j.of].balance] ELSE hand
        BY CommitDoes
    <2> HIDE DEF j
    <2> QED
        BY <2>1, <2>2, <2>3
<1>6. doing' \in [Clients -> Jobs] /\ holder' \in [Ledger!Rows -> Clients \cup {Unset}]
    BY CommitDoes, EndType
<1> QED
    BY <1>2, <1>3, <1>4, <1>5, <1>6 DEF Types, Jobs, Ledger!Rows, Ledger!AccountRecords, Ledger!TxnRecords, Ledger!ImportRecords, Ledger!NoTxn, Ledger!NoImport, Readings

\* A commit leaves alone what others have read and will add.
LEMMA CommitApart ==
    ASSUME Ledger!Bounds, IInv, NEW r \in Clients, Ledger!Commit(r), ~Ledger!Refused(doing[r]), NEW q \in Clients, q # r
    PROVE  /\ \A x \in Ledger!Rows : Ledger!Known(doing[q], x) => Ledger!Exists(x)' /\ Ledger!Row(x)' = Ledger!Row(x)
           /\ \A t \in doing[q].adds : txn'[t] = txn[t]
           /\ doing[q].kind = "import" => import'[doing[q].to] = import[doing[q].to]
<1> DEFINE j == doing[r]
<1>1. ASSUME NEW x \in Ledger!Rows, Ledger!Known(doing[q], x) PROVE ~Ledger!Known(j, x) /\ Ledger!Exists(x)
    BY <1>1 DEF IInv, Held
<1>2. ASSUME NEW a \in Accounts, Ledger!Known(doing[q], Ledger!AccountRow(a))
      PROVE  Ledger!Exists(Ledger!AccountRow(a))' /\ Ledger!Row(Ledger!AccountRow(a))' = Ledger!Row(Ledger!AccountRow(a))
    <2>1. ~Ledger!Known(j, Ledger!AccountRow(a)) /\ account[a].exists
        BY <1>1, <1>2, RowOfAccount
    <2>2. account'[a] = account[a]
        BY <2>1, BalanceMoves
    <2>3. Ledger!Exists(Ledger!AccountRow(a))' <=> account'[a].exists
        BY RowsApart DEF Ledger!Exists
    <2>4. Ledger!Row(Ledger!AccountRow(a))' = account'[a]
        BY <2>1, <2>2, <2>3 DEF Ledger!Row, Ledger!AccountRow
    <2> QED
        BY <2>1, <2>2, <2>3, <2>4, RowOfAccount
<1>3. ASSUME NEW t \in TxnIds, Ledger!Known(doing[q], Ledger!TxnRow(t))
      PROVE  Ledger!Exists(Ledger!TxnRow(t))' /\ Ledger!Row(Ledger!TxnRow(t))' = Ledger!Row(Ledger!TxnRow(t))
    <2>1. ~Ledger!Known(j, Ledger!TxnRow(t)) /\ txn[t] # Ledger!NoTxn
        BY <1>1, <1>3, RowOfTxn
    <2>2. t \notin j.adds \cup Ledger!Found(j)
        BY <2>1, RowsAfter DEF Ledger!Found
    <2>3. txn'[t] = txn[t]
        <3>1. Ledger!TxnAfter(j, t) = txn[t]
            BY <2>2, AfterIs
        <3> QED
            BY <3>1, RowsAfter
    <2>4. Ledger!Exists(Ledger!TxnRow(t))' <=> txn'[t] # Ledger!NoTxn
        BY RowsApart DEF Ledger!Exists, Ledger!NoTxn
    <2>5. Ledger!Row(Ledger!TxnRow(t))' = txn'[t]
        BY <2>1, <2>3, <2>4 DEF Ledger!Row, Ledger!TxnRow
    <2> QED
        BY <2>1, <2>3, <2>4, <2>5, RowOfTxn
<1>4. ASSUME NEW i \in Imports, Ledger!Known(doing[q], Ledger!ImportRow(i))
      PROVE  Ledger!Exists(Ledger!ImportRow(i))' /\ Ledger!Row(Ledger!ImportRow(i))' = Ledger!Row(Ledger!ImportRow(i))
    <2>1. ~Ledger!Known(j, Ledger!ImportRow(i)) /\ import[i] # Ledger!NoImport
        BY <1>1, <1>4, RowOfImport
    <2>2. /\ j.kind = "import" => i # j.to
          /\ j.kind = "undo" => i # j.of
        BY <2>1, CommitDoes, OthersHave DEF IInv, Reserved
    <2>3. import'[i] = import[i]
        <3>1. Ledger!ImportAfter(j, i) = import[i]
            BY <2>1, <2>2 DEF Ledger!ImportAfter
        <3> QED
            BY <3>1, RowsAfter
    <2>4. Ledger!Exists(Ledger!ImportRow(i))' <=> import'[i] # Ledger!NoImport
        BY RowsApart DEF Ledger!Exists, Ledger!NoImport
    <2>5. Ledger!Row(Ledger!ImportRow(i))' = import'[i]
        BY <2>1, <2>3, <2>4 DEF Ledger!Row, Ledger!ImportRow
    <2> QED
        BY <2>1, <2>3, <2>4, <2>5, RowOfImport
<1>5. ASSUME NEW x \in Ledger!Rows, Ledger!Known(doing[q], x) PROVE Ledger!Exists(x)' /\ Ledger!Row(x)' = Ledger!Row(x)
    BY <1>2, <1>3, <1>4, <1>5, TheRows
<1>6. ASSUME NEW t \in doing[q].adds PROVE txn'[t] = txn[t]
    <2>1. t \in TxnIds /\ txn[t] = Ledger!NoTxn /\ t \notin j.adds
        BY <1>6 DEF IInv, Types, Jobs, Reserved
    <2>2. t \notin Ledger!Found(j)
        BY <2>1, RowsAfter, HeldTxn DEF Ledger!Found, IInv
    <2>3. Ledger!TxnAfter(j, t) = txn[t]
        BY <2>1, <2>2, AfterIs
    <2> QED
        BY <2>1, <2>3, RowsAfter
<1>7. ASSUME doing[q].kind = "import" PROVE import'[doing[q].to] = import[doing[q].to]
    <2> DEFINE i == doing[q].to
    <2>1. i \in Imports /\ import[i] = Ledger!NoImport /\ (j.kind = "import" => j.to # i)
        BY <1>7 DEF IInv, AllAsked, Asked, Reserved
    <2>2. Ledger!ImportAfter(j, i) = Ledger!NoImport
        BY <2>1 DEF Ledger!ImportAfter
    <2> QED
        BY <2>1, <2>2, RowsAfter
<1> QED
    BY <1>5, <1>6, <1>7

LEMMA CommitKeeps ==
    ASSUME Ledger!Bounds, IInv, NEW r \in Clients, Ledger!Commit(r)
    PROVE  IInv'
<1>1. CASE Ledger!Refused(doing[r])
    <2>1. Ledger!End(r) /\ UNCHANGED <<account, txn, import, hand>>
        BY <1>1 DEF Ledger!Commit
    <2> QED
        BY <2>1, NothingDoneKeeps
<1>2. CASE ~Ledger!Refused(doing[r])
    <2>1. AllAsked' /\ Held' /\ Reserved'
        BY <1>2, CommitDoes, CommitApart, EndKeeps
    <2> QED
        BY <1>2, <2>1, CommitTypes, CommitExplained DEF IInv
<1> QED
    BY <1>1, <1>2

-----------------------------------------------------------------------------
(* The bank, and accounts opened and closed                                *)

\* An account nobody has locked changes, and transactions nobody knows of come.
LEMMA BankApart ==
    ASSUME Ledger!Bounds, IInv, NEW a \in Accounts, Ledger!Unlocked(a), UNCHANGED <<import, holder, doing>>,
           \A b \in Accounts : b # a => account'[b] = account[b],
           \A t \in TxnIds : txn'[t] = txn[t] \/ Ledger!Free(t)
    PROVE  AllAsked' /\ Held' /\ Reserved'
<1>1. ASSUME NEW r \in Clients, NEW x \in Ledger!Rows, Ledger!Known(doing[r], x)
      PROVE  holder[x] = r /\ Ledger!Exists(x) /\ doing[r].read[x] = Ledger!Row(x) /\ holder[x] # Unset
    BY <1>1 DEF IInv, Held, Ledger!Bounds
<1>2. ASSUME NEW r \in Clients, NEW b \in Accounts, Ledger!Known(doing[r], Ledger!AccountRow(b))
      PROVE  Ledger!Exists(Ledger!AccountRow(b))' /\ Ledger!Row(Ledger!AccountRow(b))' = Ledger!Row(Ledger!AccountRow(b))
    <2>1. b # a /\ account[b].exists
        BY <1>1, <1>2, RowOfAccount DEF Ledger!Unlocked
    <2>2. account'[b] = account[b]
        BY <2>1
    <2>3. Ledger!Exists(Ledger!AccountRow(b))' <=> account'[b].exists
        BY RowsApart DEF Ledger!Exists
    <2>4. Ledger!Row(Ledger!AccountRow(b))' = account'[b]
        BY <2>1, <2>2, <2>3 DEF Ledger!Row, Ledger!AccountRow
    <2> QED
        BY <2>1, <2>2, <2>3, <2>4, RowOfAccount
<1>3. ASSUME NEW r \in Clients, NEW t \in TxnIds, Ledger!Known(doing[r], Ledger!TxnRow(t))
      PROVE  Ledger!Exists(Ledger!TxnRow(t))' /\ Ledger!Row(Ledger!TxnRow(t))' = Ledger!Row(Ledger!TxnRow(t))
    <2>1. txn[t] # Ledger!NoTxn
        BY <1>1, <1>3, RowOfTxn
    <2>2. txn'[t] = txn[t]
        BY <2>1, RowOfTxn DEF Ledger!Free, Ledger!New
    <2>3. Ledger!Exists(Ledger!TxnRow(t))' <=> txn'[t] # Ledger!NoTxn
        BY RowsApart DEF Ledger!Exists, Ledger!NoTxn
    <2>4. Ledger!Row(Ledger!TxnRow(t))' = txn'[t]
        BY <2>1, <2>2, <2>3 DEF Ledger!Row, Ledger!TxnRow
    <2> QED
        BY <2>1, <2>2, <2>3, <2>4, RowOfTxn
<1>4. ASSUME NEW r \in Clients, NEW i \in Imports, Ledger!Known(doing[r], Ledger!ImportRow(i))
      PROVE  Ledger!Exists(Ledger!ImportRow(i))' /\ Ledger!Row(Ledger!ImportRow(i))' = Ledger!Row(Ledger!ImportRow(i))
    <2>1. import[i] # Ledger!NoImport /\ import'[i] = import[i]
        BY <1>1, <1>4, RowOfImport
    <2>2. Ledger!Exists(Ledger!ImportRow(i))' <=> import'[i] # Ledger!NoImport
        BY RowsApart DEF Ledger!Exists, Ledger!NoImport
    <2>3. Ledger!Row(Ledger!ImportRow(i))' = import'[i]
        BY <2>1, <2>2 DEF Ledger!Row, Ledger!ImportRow
    <2> QED
        BY <2>1, <2>2, <2>3, RowOfImport
<1>5. ASSUME NEW r \in Clients, NEW x \in Ledger!Rows, Ledger!Known(doing[r], x)
      PROVE  Ledger!Exists(x)' /\ Ledger!Row(x)' = Ledger!Row(x)
    BY <1>2, <1>3, <1>4, <1>5, TheRows
<1>6. Held'
    BY <1>1, <1>5 DEF Held
<1>7. Reserved'
    <2>1. \A r \in Clients : \A t \in doing[r].adds : t \in TxnIds /\ txn'[t] = txn[t]
        BY DEF Ledger!Free, IInv, Types, Jobs
    <2> QED
        BY <2>1 DEF IInv, Reserved
<1> QED
    BY <1>6, <1>7 DEF IInv, AllAsked

LEMMA BankReportsKeeps ==
    ASSUME Ledger!Bounds, IInv, NEW a \in Accounts, Ledger!BankReports(a)
    PROVE  IInv'
<1>1. PICK balance \in Balances : account' = [account EXCEPT ![a].balance = balance]
    BY DEF Ledger!BankReports
<1>2. /\ account[a].exists /\ account[a].linked /\ Ledger!Unlocked(a) /\ UNCHANGED <<import, holder, doing, hand>>
      /\ account[a] \in Ledger!AccountRecords /\ account \in [Accounts -> Ledger!AccountRecords] /\ balance \in Int
    BY DEF Ledger!BankReports, IInv, Types, Ledger!Bounds
<1>3. /\ account' \in [Accounts -> Ledger!AccountRecords]
      /\ account'[a].linked /\ \A b \in Accounts : b # a => account'[b] = account[b]
    BY <1>1, <1>2 DEF Ledger!AccountRecords
<1>4. /\ txn' \in [TxnIds -> Ledger!TxnRecords \cup {Ledger!NoTxn}]
      /\ \A t \in TxnIds : txn'[t] = txn[t] \/ (Ledger!Free(t) /\ txn[t] = Ledger!NoTxn /\ txn'[t].account = a)
    <2>1. txn \in [TxnIds -> Ledger!TxnRecords \cup {Ledger!NoTxn}]
        BY DEF IInv, Types
    <2>2. CASE UNCHANGED txn
        BY <2>1, <2>2
    <2>3. CASE \E t \in TxnIds, amount \in Amounts :
                 Ledger!Free(t) /\ txn' = [txn EXCEPT ![t] = [account |-> a, amount |-> amount, origin |-> "bank"]]
        <3>1. PICK t \in TxnIds, amount \in Amounts :
                 Ledger!Free(t) /\ txn' = [txn EXCEPT ![t] = [account |-> a, amount |-> amount, origin |-> "bank"]]
            BY <2>3
        <3>2. txn[t] = Ledger!NoTxn
            BY <3>1, RowOfTxn DEF Ledger!Free, Ledger!New
        <3>3. [account |-> a, amount |-> amount, origin |-> "bank"] \in Ledger!TxnRecords
            BY DEF Ledger!TxnRecords
        <3> QED
            BY <2>1, <3>1, <3>2, <3>3
    <2> QED
        BY <2>2, <2>3 DEF Ledger!BankReports
<1>5. Types'
    BY <1>2, <1>3, <1>4 DEF IInv, Types, Jobs, Ledger!Rows, Ledger!AccountRecords, Ledger!TxnRecords, Ledger!ImportRecords, Ledger!NoTxn, Ledger!NoImport, Readings
<1>6. AllAsked' /\ Held' /\ Reserved'
    BY <1>2, <1>3, <1>4, BankApart
<1>7. Ledger!BalanceExplained'
    <2> SUFFICES ASSUME NEW b \in Accounts, account'[b].exists, ~account'[b].linked
                 PROVE  account'[b].balance = hand'[b] + Ledger!Explained(b)'
        BY DEF Ledger!BalanceExplained
    <2>1. b # a /\ account'[b] = account[b]
        BY <1>3
    <2>2. \A t \in TxnIds : (txn'[t].account = b <=> txn[t].account = b)
                            /\ (txn[t].account = b => txn'[t].amount = txn[t].amount)
        BY <1>4, <2>1 DEF Ledger!NoTxn, Ledger!Bounds
    <2>3. TxnsMake(b)' = TxnsMake(b)
        BY <2>2, TxnsStay
    <2>4. ImportsMake(b)' = ImportsMake(b)
        BY <1>2, ImportsStay
    <2>5. account[b].balance = hand[b] + (TxnsMake(b) + ImportsMake(b))
        BY <2>1 DEF IInv, Ledger!BalanceExplained, Ledger!Explained, TxnsMake, ImportsMake
    <2>6. Ledger!Explained(b)' = TxnsMake(b)' + ImportsMake(b)'
        BY DEF Ledger!Explained, TxnsMake, ImportsMake
    <2> QED
        BY <1>2, <2>1, <2>3, <2>4, <2>5, <2>6
<1> QED
    BY <1>5, <1>6, <1>7 DEF IInv

\* What explains balances when only accounts and what is set by hand change.
LEMMA ExplainedStays ==
    ASSUME UNCHANGED <<txn, import>>, NEW a \in Accounts
    PROVE  Ledger!Explained(a)' = Ledger!Explained(a)
BY DEF Ledger!Explained, Ledger!In, Ledger!ImportsOf, Ledger!Amount, Ledger!HomeChange

LEMMA BankLeavesKeeps ==
    ASSUME Ledger!Bounds, IInv, NEW a \in Accounts, Ledger!BankLeaves(a)
    PROVE  IInv'
<1>1. /\ account[a].exists /\ Ledger!Unlocked(a) /\ UNCHANGED <<txn, import, holder, doing>>
      /\ account' = [account EXCEPT ![a].linked = FALSE]
      /\ hand' = [hand EXCEPT ![a] = account[a].balance - Ledger!Explained(a)]
    BY DEF Ledger!BankLeaves
<1>2. /\ account \in [Accounts -> Ledger!AccountRecords] /\ account[a] \in Ledger!AccountRecords
      /\ hand \in [Accounts -> Int] /\ account[a].balance \in Int
    BY DEF IInv, Types, Ledger!AccountRecords
<1>3. Ledger!Explained(a) \in Int
    <2>1. TxnsMake(a) \in Int /\ ImportsMake(a) \in Int
        BY SumsMake DEF IInv
    <2>2. Ledger!Explained(a) = TxnsMake(a) + ImportsMake(a)
        BY DEF Ledger!Explained, TxnsMake, ImportsMake
    <2> QED
        BY <2>1, <2>2
<1>4. /\ account' \in [Accounts -> Ledger!AccountRecords] /\ account'[a].balance = account[a].balance
      /\ \A b \in Accounts : b # a => account'[b] = account[b]
    BY <1>1, <1>2 DEF Ledger!AccountRecords
<1>5. /\ hand' \in [Accounts -> Int] /\ hand'[a] = account[a].balance - Ledger!Explained(a)
      /\ \A b \in Accounts : b # a => hand'[b] = hand[b]
    BY <1>1, <1>2, <1>3
<1>6. Types'
    BY <1>1, <1>4, <1>5 DEF IInv, Types, Jobs, Ledger!Rows, Ledger!AccountRecords, Ledger!TxnRecords, Ledger!ImportRecords, Ledger!NoTxn, Ledger!NoImport, Readings
<1>7. AllAsked' /\ Held' /\ Reserved'
    BY <1>1, <1>4, BankApart
<1>8. Ledger!BalanceExplained'
    <2> SUFFICES ASSUME NEW b \in Accounts, account'[b].exists, ~account'[b].linked
                 PROVE  account'[b].balance = hand'[b] + Ledger!Explained(b)'
        BY DEF Ledger!BalanceExplained
    <2>1. Ledger!Explained(b)' = Ledger!Explained(b)
        BY <1>1, ExplainedStays
    <2>2. CASE b = a
        BY <1>2, <1>3, <1>4, <1>5, <2>1, <2>2
    <2>3. CASE b # a
        BY <1>4, <1>5, <2>1, <2>3 DEF IInv, Ledger!BalanceExplained
    <2> QED
        BY <2>2, <2>3
<1> QED
    BY <1>6, <1>7, <1>8 DEF IInv

LEMMA CloseOrOpenKeeps ==
    ASSUME Ledger!Bounds, IInv, NEW a \in Accounts, Ledger!CloseOrOpen(a)
    PROVE  IInv'
<1>1. /\ Ledger!Unlocked(a) /\ UNCHANGED <<txn, import, holder, doing, hand>>
      /\ account' = [account EXCEPT ![a].closed = ~@]
    BY DEF Ledger!CloseOrOpen
<1>2. account \in [Accounts -> Ledger!AccountRecords] /\ account[a] \in Ledger!AccountRecords
    BY DEF IInv, Types
<1>3. /\ account' \in [Accounts -> Ledger!AccountRecords]
      /\ \A b \in Accounts : /\ b # a => account'[b] = account[b]
                             /\ account'[b].balance = account[b].balance
                             /\ account'[b].exists = account[b].exists /\ account'[b].linked = account[b].linked
    <2>1. [account[a] EXCEPT !.closed = ~account[a].closed] \in Ledger!AccountRecords
        BY <1>2 DEF Ledger!AccountRecords
    <2> QED
        BY <1>1, <1>2, <2>1 DEF Ledger!AccountRecords
<1>4. Types'
    BY <1>1, <1>3 DEF IInv, Types, Jobs, Ledger!Rows, Ledger!AccountRecords, Ledger!TxnRecords, Ledger!ImportRecords, Ledger!NoTxn, Ledger!NoImport, Readings
<1>5. AllAsked' /\ Held' /\ Reserved'
    BY <1>1, <1>3, BankApart
<1>6. Ledger!BalanceExplained'
    BY <1>1, <1>3, ExplainedStays DEF IInv, Ledger!BalanceExplained
<1> QED
    BY <1>4, <1>5, <1>6 DEF IInv

-----------------------------------------------------------------------------
(* The theorem                                                             *)

LEMMA InitHolds == ASSUME Ledger!Bounds, Ledger!Init PROVE IInv
<1>1. Types
    BY IdleType DEF Ledger!Init, Types, Ledger!AccountRecords
<1>2. AllAsked
    BY IdleType DEF Ledger!Init, AllAsked
<1>3. Held
    BY IdleType DEF Ledger!Init, Held, Ledger!Known
<1>4. Reserved
    BY DEF Ledger!Init, Reserved, Ledger!Idle
<1>5. Ledger!BalanceExplained
    <2> SUFFICES ASSUME NEW a \in Accounts PROVE account[a].balance = hand[a] + Ledger!Explained(a)
        BY DEF Ledger!BalanceExplained
    <2>1. Ledger!In(a) = {} /\ Ledger!ImportsOf(a) = {}
        BY DEF Ledger!Init, Ledger!In, Ledger!ImportsOf, Ledger!NoTxn, Ledger!NoImport, Ledger!Bounds
    <2>2. Ledger!Explained(a) = 0
        BY <2>1, SumEmpty, SumIs DEF Ledger!Explained
    <2> QED
        BY <2>2 DEF Ledger!Init
<1> QED
    BY <1>1, <1>2, <1>3, <1>4, <1>5 DEF IInv

LEMMA NextKeeps == ASSUME Ledger!Bounds, IInv, [Ledger!Next]_Ledger!vars PROVE IInv'
<1>1. ASSUME NEW r \in Clients, Ledger!Ask(r) \/ Ledger!Want(r) \/ Ledger!Take(r) \/ Ledger!Look(r) \/ Ledger!Commit(r) \/ Ledger!RollBack(r)
      PROVE  IInv'
    <2>1. CASE Ledger!RollBack(r)
        BY <2>1, NothingDoneKeeps DEF Ledger!RollBack
    <2> QED
        BY <1>1, <2>1, AskKeeps, WantKeeps, TakeKeeps, LookKeeps, CommitKeeps
<1>2. ASSUME NEW a \in Accounts, Ledger!BankReports(a) \/ Ledger!BankLeaves(a) \/ Ledger!CloseOrOpen(a)
      PROVE  IInv'
    BY <1>2, BankReportsKeeps, BankLeavesKeeps, CloseOrOpenKeeps
<1>3. CASE UNCHANGED Ledger!vars
    <2>1. UNCHANGED <<account, txn, import, holder, doing, hand>>
        BY <1>3 DEF Ledger!vars
    <2>2. Types'
        BY <2>1 DEF IInv, Types, Jobs, Ledger!Rows, Ledger!AccountRecords, Ledger!TxnRecords, Ledger!ImportRecords, Ledger!NoTxn, Ledger!NoImport, Readings
    <2>3. Held' /\ Ledger!BalanceExplained'
        BY <2>1, SameRows DEF IInv, Held, Ledger!Known
    <2>4. AllAsked' /\ Reserved'
        BY <2>1 DEF IInv, AllAsked, Reserved
    <2> QED
        BY <2>2, <2>3, <2>4 DEF IInv
<1> QED
    BY <1>1, <1>2, <1>3 DEF Ledger!Next

\* Whatever requests run at the same time, and however they interleave, fail or
\* wait: a balance the household keeps is what it set by hand, plus the account's
\* transactions, plus what imports did beyond theirs (finance/accounts.py:73-82).
THEOREM BalancesExplained == Ledger!Bounds => (Ledger!Spec => []BalanceExplained)
<1>1. ASSUME Ledger!Bounds PROVE Ledger!Spec => []BalanceExplained
    <2>1. Ledger!Init => IInv
        BY <1>1, InitHolds
    <2>2. IInv /\ [Ledger!Next]_Ledger!vars => IInv'
        BY <1>1, NextKeeps
    <2>3. IInv => BalanceExplained
        BY DEF IInv, BalanceExplained
    <2> QED
        BY <2>1, <2>2, <2>3, PTL DEF Ledger!Spec
<1> QED
    BY <1>1

\* What a request has read stays true until it commits: every row it bases its
\* writes on is locked by it alone (with_for_update in api/transactions.py,
\* api/accounts.py and imports/service.py).
THEOREM ReadsStayTrue == Ledger!Bounds => (Ledger!Spec => []Held)
<1>1. ASSUME Ledger!Bounds PROVE Ledger!Spec => []Held
    <2>1. Ledger!Init => IInv
        BY <1>1, InitHolds
    <2>2. IInv /\ [Ledger!Next]_Ledger!vars => IInv'
        BY <1>1, NextKeeps
    <2>3. IInv => Held
        BY DEF IInv
    <2> QED
        BY <2>1, <2>2, <2>3, PTL DEF Ledger!Spec
<1> QED
    BY <1>1

-----------------------------------------------------------------------------
(* Undoing imports                                                         *)
(*                                                                         *)
(* UndoPutsBackAtHome compares what an undo does with the history of what  *)
(* the import did.  It needs that history in terms of the rows there are   *)
(* now (MovedIs), that rows of an import into an account that no bank keeps *)
(* are never in an account that one does (OnlyAtHome), and that an undo    *)
(* finds all of them and nothing else (UndoReads, Seen).                   *)

Left(i, a) == Ledger!In(a) \cap Ledger!Of(i)
LeftMakes(i, a) == Ledger!Sum(Ledger!Amount, Left(i, a))

AtHome(i) == import[i] # Ledger!NoImport /\ import[i].account \notin KeptByBank

\* A bank that left doesn't come back.
HomesKept == \A a \in Accounts : account[a].linked => a \in KeptByBank

OriginsExist == \A t \in TxnIds : txn[t].origin \in Imports => import[txn[t].origin] # Ledger!NoImport

OnlyAtHome == \A i \in Imports : AtHome(i) => \A a \in Accounts : account[a].linked => Left(i, a) = {}

\* How far an import has moved a balance is what its rows there now add up to,
\* and at home what it did beyond its rows.
MovedIs == \A i \in Imports : AtHome(i) => \A a \in Accounts : account[a].exists =>
    moved[i][a] = LeftMakes(i, a) + (IF a = import[i].account THEN Ledger!HomeChange[i] ELSE 0)

NotMoved == \A i \in Imports : import[i] = Ledger!NoImport => \A a \in Accounts : moved[i][a] = 0

\* Rows a request waits for or has read.
Sought(j, x) == (j.want # Unset /\ j.want = x) \/ j.read[x] # NotYet

\* An undo looks only for its import's rows, once it has the import.
UndoReads == \A r \in Clients : doing[r].kind = "undo" =>
    \A t \in TxnIds : Sought(doing[r], Ledger!TxnRow(t)) =>
        /\ Ledger!Known(doing[r], Ledger!ImportRow(doing[r].of))
        /\ txn[t] # Ledger!NoTxn => txn[t].origin = doing[r].of

\* What an undo or a removal looked for was there, and once gone stays so:
\* nobody adds a row by an id that someone knows.
Seen == \A r \in Clients : doing[r].kind \in {"undo", "remove"} =>
    /\ \A t \in TxnIds : Sought(doing[r], Ledger!TxnRow(t)) =>
          /\ \A q \in Clients : t \notin doing[q].adds
          /\ doing[r].read[Ledger!TxnRow(t)] = Gone => txn[t] = Ledger!NoTxn
    /\ \A i \in Imports : doing[r].kind = "remove" /\ Sought(doing[r], Ledger!ImportRow(i)) =>
          /\ \A q \in Clients : doing[q].kind = "import" => doing[q].to # i
          /\ doing[r].read[Ledger!ImportRow(i)] = Gone => import[i] = Ledger!NoImport

Lookups == UndoReads /\ Seen
Traced == HomesKept /\ OriginsExist /\ OnlyAtHome /\ MovedIs /\ NotMoved
UInv == IInv /\ Lookups /\ Traced

\* When the tables don't change.
LEMMA TracedStays ==
    ASSUME Traced, UNCHANGED <<account, txn, import, moved>>
    PROVE  Traced'
<1>1. \A i \in Imports, a \in Accounts : /\ (AtHome(i)' <=> AtHome(i)) /\ Left(i, a)' = Left(i, a)
                                         /\ LeftMakes(i, a)' = LeftMakes(i, a)
                                         /\ Ledger!HomeChange[i]' = Ledger!HomeChange[i]
    BY DEF AtHome, Left, LeftMakes, Ledger!In, Ledger!Of, Ledger!Amount, Ledger!HomeChange
<1> QED
    BY <1>1 DEF Traced, HomesKept, OriginsExist, OnlyAtHome, MovedIs, NotMoved

\* Only one request's job changes, and it looks for no more than before.
LEMMA LookupsStay ==
    ASSUME Lookups, NEW r \in Clients, \A q \in Clients : q # r => doing'[q] = doing[q],
           UNCHANGED <<txn, import>>,
           doing'[r].adds \subseteq doing[r].adds, doing'[r].kind = "import" => doing[r].kind = "import" /\ doing'[r].to = doing[r].to,
           doing'[r].kind \in {"undo", "remove"} =>
                 /\ doing'[r].kind = doing[r].kind /\ doing'[r].of = doing[r].of /\ doing'[r].read = doing[r].read
                 /\ \A x \in Ledger!Rows : Sought(doing'[r], x) => Sought(doing[r], x)
    PROVE  Lookups'
<1>1. ASSUME NEW q \in Clients, NEW x \in Ledger!Rows, doing'[q].kind \in {"undo", "remove"}, Sought(doing'[q], x)
      PROVE  /\ doing'[q].kind = doing[q].kind /\ doing'[q].of = doing[q].of /\ doing'[q].read = doing[q].read
             /\ Sought(doing[q], x)
    <2>1. CASE q = r
        BY <1>1, <2>1
    <2>2. CASE q # r
        BY <1>1, <2>2
    <2> QED
        BY <2>1, <2>2
<1>2. \A q \in Clients : /\ doing'[q].adds \subseteq doing[q].adds
                         /\ doing'[q].kind = "import" => doing[q].kind = "import" /\ doing'[q].to = doing[q].to
    OBVIOUS
<1>3. UndoReads'
    <2> SUFFICES ASSUME NEW q \in Clients, doing'[q].kind = "undo", NEW t \in TxnIds, Sought(doing'[q], Ledger!TxnRow(t))
                 PROVE  /\ Ledger!Known(doing'[q], Ledger!ImportRow(doing'[q].of))
                        /\ txn'[t] # Ledger!NoTxn => txn'[t].origin = doing'[q].of
        BY DEF UndoReads, Sought, Ledger!Known, Ledger!TxnRow, Ledger!ImportRow, Ledger!NoTxn
    <2>1. /\ doing[q].kind = "undo" /\ doing'[q].of = doing[q].of /\ doing'[q].read = doing[q].read
          /\ Sought(doing[q], Ledger!TxnRow(t))
        BY <1>1, RowOfTxn
    <2> QED
        BY <2>1 DEF Lookups, UndoReads, Ledger!Known
<1>4. Seen'
    <2> SUFFICES ASSUME NEW q \in Clients, doing'[q].kind \in {"undo", "remove"}
                 PROVE  /\ \A t \in TxnIds : Sought(doing'[q], Ledger!TxnRow(t)) =>
                              /\ \A p \in Clients : t \notin doing'[p].adds
                              /\ doing'[q].read[Ledger!TxnRow(t)] = Gone => txn'[t] = Ledger!NoTxn
                        /\ \A i \in Imports : doing'[q].kind = "remove" /\ Sought(doing'[q], Ledger!ImportRow(i)) =>
                              /\ \A p \in Clients : doing'[p].kind = "import" => doing'[p].to # i
                              /\ doing'[q].read[Ledger!ImportRow(i)] = Gone => import'[i] = Ledger!NoImport
        BY DEF Seen, Sought, Ledger!TxnRow, Ledger!ImportRow, Ledger!NoTxn, Ledger!NoImport
    <2>1. ASSUME NEW t \in TxnIds, Sought(doing'[q], Ledger!TxnRow(t))
          PROVE  /\ \A p \in Clients : t \notin doing'[p].adds
                 /\ doing'[q].read[Ledger!TxnRow(t)] = Gone => txn'[t] = Ledger!NoTxn
        <3>1. /\ doing[q].kind \in {"undo", "remove"} /\ doing'[q].read = doing[q].read /\ Sought(doing[q], Ledger!TxnRow(t))
            BY <1>1, <2>1, RowOfTxn
        <3> QED
            BY <1>2, <3>1 DEF Lookups, Seen
    <2>2. ASSUME NEW i \in Imports, doing'[q].kind = "remove", Sought(doing'[q], Ledger!ImportRow(i))
          PROVE  /\ \A p \in Clients : doing'[p].kind = "import" => doing'[p].to # i
                 /\ doing'[q].read[Ledger!ImportRow(i)] = Gone => import'[i] = Ledger!NoImport
        <3>1. /\ doing[q].kind = "remove" /\ doing'[q].read = doing[q].read /\ Sought(doing[q], Ledger!ImportRow(i))
            BY <1>1, <2>2, RowOfImport
        <3> QED
            BY <1>2, <3>1 DEF Lookups, Seen
    <2> QED
        BY <2>1, <2>2
<1> QED
    BY <1>3, <1>4 DEF Lookups

LEMMA AskTraced ==
    ASSUME Ledger!Bounds, UInv, NEW r \in Clients, Ledger!Ask(r)
    PROVE  Lookups' /\ Traced'
<1>1. PICK asked : Starts(r, asked)
    BY AskStarts DEF UInv
<1>2. /\ doing' = [doing EXCEPT ![r] = asked] /\ UNCHANGED <<account, txn, import, moved>>
      /\ asked.read = Ledger!Idle.read /\ asked.want = Unset
      /\ \A t \in asked.adds : Ledger!Free(t)
      /\ asked.kind = "import" => Ledger!New(Ledger!ImportRow(asked.to))
    BY <1>1 DEF Starts, Ledger!Begin
<1>3. doing'[r] = asked /\ \A q \in Clients : q # r => doing'[q] = doing[q]
    BY <1>2 DEF UInv, IInv, Types
<1>4. \A x \in Ledger!Rows : ~Sought(asked, x)
    BY <1>2, IdleType DEF Sought
<1>5. ASSUME NEW q \in Clients, NEW x \in Ledger!Rows, Sought(doing'[q], x)
      PROVE  q # r /\ doing'[q] = doing[q] /\ Sought(doing[q], x) /\ ~Ledger!New(x)
    <2>1. q # r
        BY <1>3, <1>4, <1>5
    <2>2. doing'[q] = doing[q] /\ Sought(doing[q], x)
        BY <1>3, <1>5, <2>1
    <2> QED
        BY <2>1, <2>2 DEF Ledger!New, Sought
<1>6. UndoReads'
    <2> SUFFICES ASSUME NEW q \in Clients, doing'[q].kind = "undo", NEW t \in TxnIds, Sought(doing'[q], Ledger!TxnRow(t))
                 PROVE  /\ Ledger!Known(doing'[q], Ledger!ImportRow(doing'[q].of))
                        /\ txn'[t] # Ledger!NoTxn => txn'[t].origin = doing'[q].of
        BY DEF UndoReads, Sought, Ledger!Known, Ledger!TxnRow, Ledger!ImportRow, Ledger!NoTxn
    <2>1. doing'[q] = doing[q] /\ Sought(doing[q], Ledger!TxnRow(t))
        BY <1>5, RowOfTxn
    <2> QED
        BY <1>2, <2>1 DEF UInv, Lookups, UndoReads
<1>7. Seen'
    <2> SUFFICES ASSUME NEW q \in Clients, doing'[q].kind \in {"undo", "remove"}
                 PROVE  /\ \A t \in TxnIds : Sought(doing'[q], Ledger!TxnRow(t)) =>
                              /\ \A p \in Clients : t \notin doing'[p].adds
                              /\ doing'[q].read[Ledger!TxnRow(t)] = Gone => txn'[t] = Ledger!NoTxn
                        /\ \A i \in Imports : doing'[q].kind = "remove" /\ Sought(doing'[q], Ledger!ImportRow(i)) =>
                              /\ \A p \in Clients : doing'[p].kind = "import" => doing'[p].to # i
                              /\ doing'[q].read[Ledger!ImportRow(i)] = Gone => import'[i] = Ledger!NoImport
        BY DEF Seen, Sought, Ledger!TxnRow, Ledger!ImportRow, Ledger!NoTxn, Ledger!NoImport
    <2>1. ASSUME NEW t \in TxnIds, Sought(doing'[q], Ledger!TxnRow(t))
          PROVE  /\ \A p \in Clients : t \notin doing'[p].adds
                 /\ doing'[q].read[Ledger!TxnRow(t)] = Gone => txn'[t] = Ledger!NoTxn
        <3>1. doing'[q] = doing[q] /\ Sought(doing[q], Ledger!TxnRow(t)) /\ ~Ledger!New(Ledger!TxnRow(t))
            BY <1>5, <2>1, RowOfTxn
        <3>2. t \notin asked.adds
            BY <1>2, <3>1 DEF Ledger!Free
        <3>3. /\ \A p \in Clients : t \notin doing[p].adds
              /\ doing[q].read[Ledger!TxnRow(t)] = Gone => txn[t] = Ledger!NoTxn
            BY <3>1 DEF UInv, Lookups, Seen
        <3> QED
            BY <1>2, <1>3, <3>1, <3>2, <3>3
    <2>2. ASSUME NEW i \in Imports, doing'[q].kind = "remove", Sought(doing'[q], Ledger!ImportRow(i))
          PROVE  /\ \A p \in Clients : doing'[p].kind = "import" => doing'[p].to # i
                 /\ doing'[q].read[Ledger!ImportRow(i)] = Gone => import'[i] = Ledger!NoImport
        <3>1. doing'[q] = doing[q] /\ Sought(doing[q], Ledger!ImportRow(i)) /\ ~Ledger!New(Ledger!ImportRow(i))
            BY <1>5, <2>2, RowOfImport
        <3>2. asked.kind = "import" => asked.to # i
            BY <1>2, <3>1
        <3>3. /\ \A p \in Clients : doing[p].kind = "import" => doing[p].to # i
              /\ doing[q].read[Ledger!ImportRow(i)] = Gone => import[i] = Ledger!NoImport
            BY <2>2, <3>1 DEF UInv, Lookups, Seen
        <3> QED
            BY <1>2, <1>3, <3>1, <3>2, <3>3
    <2> QED
        BY <2>1, <2>2
<1> QED
    BY <1>2, <1>6, <1>7, TracedStays DEF UInv, Lookups

\* An undo and a removal look for rows that are there and that nobody else adds.
LEMMA LooksFor ==
    ASSUME Ledger!Bounds, UInv, NEW r \in Clients, doing[r].kind # "idle", NEW x \in Ledger!NextRows(doing[r])
    PROVE  /\ doing[r].kind = "undo" => \A t \in TxnIds : x = Ledger!TxnRow(t) =>
                   Ledger!Known(doing[r], Ledger!ImportRow(doing[r].of)) /\ txn[t].origin = doing[r].of
           /\ doing[r].kind \in {"undo", "remove"} => \A t \in TxnIds : x = Ledger!TxnRow(t) =>
                   txn[t] # Ledger!NoTxn /\ doing[r].read[x] = NotYet
           /\ doing[r].kind = "remove" => \A i \in Imports : x = Ledger!ImportRow(i) =>
                   import[i] # Ledger!NoImport /\ doing[r].read[x] = NotYet
<1> DEFINE j == doing[r]
<1>1. Asked(j) /\ ~Ledger!Refused(j)
    BY DEF UInv, IInv, AllAsked, Ledger!NextRows
<1>2. \A accounts : \A y \in Ledger!FirstOf(j, accounts) : \E a \in accounts : y = Ledger!AccountRow(a)
    BY DEF Ledger!FirstOf, Ledger!First
<1>3. Ledger!NoTxn.origin \notin Imports /\ Ledger!NoTxn.account \notin Accounts /\ Ledger!NoImport.account \notin Accounts
    BY DEF Ledger!NoTxn, Ledger!NoImport, Ledger!Bounds
<1>4. ASSUME j.kind = "undo", NEW t \in TxnIds, x = Ledger!TxnRow(t)
      PROVE  Ledger!Known(j, Ledger!ImportRow(j.of)) /\ txn[t].origin = j.of /\ txn[t] # Ledger!NoTxn /\ j.read[x] = NotYet
    <2>1. x \in Ledger!NextOfUndo(j) /\ j.of \in Imports
        BY <1>1, <1>4 DEF Ledger!NextRows, Asked
    <2>2. Ledger!TheImport(j) # NotYet
        BY <1>4, <2>1, RowsApart DEF Ledger!NextOfUndo
    <2>3. Ledger!TheImport(j) # Gone
        BY <1>1, <1>4 DEF Ledger!Refused
    <2>4. x \in Ledger!Unread(j, {Ledger!TxnRow(u) : u \in Ledger!Of(j.of)})
        <3>1. x \notin Ledger!FirstOf(j, Ledger!Touched(j) \cup {Ledger!TheImport(j).account})
            BY <1>2, <1>4, RowsApart
        <3> QED
            BY <2>1, <2>2, <3>1 DEF Ledger!NextOfUndo
    <2>5. t \in Ledger!Of(j.of) /\ j.read[x] = NotYet
        BY <1>4, <2>4, RowsApart DEF Ledger!Unread
    <2> QED
        BY <1>3, <2>1, <2>2, <2>3, <2>5 DEF Ledger!Known, Ledger!TheImport, Ledger!Of
<1>5. ASSUME j.kind = "remove"
      PROVE  /\ \A t \in TxnIds : x = Ledger!TxnRow(t) => txn[t] # Ledger!NoTxn /\ j.read[x] = NotYet
             /\ \A i \in Imports : x = Ledger!ImportRow(i) => import[i] # Ledger!NoImport /\ j.read[x] = NotYet
    <2>1. x \in Ledger!NextOfRemove(j) /\ j.of \in Accounts
        BY <1>1, <1>5 DEF Ledger!NextRows, Asked
    <2>2. CASE ~Ledger!Known(j, Ledger!AccountRow(j.of))
        BY <2>1, <2>2, RowsApart DEF Ledger!NextOfRemove, Ledger!Unread
    <2>3. CASE Ledger!Known(j, Ledger!AccountRow(j.of))
        <3>1. /\ j.read[x] = NotYet
              /\ \/ \E t \in Ledger!In(j.of) \cup UNION {Ledger!Of(i) : i \in Ledger!ImportsOf(j.of)} : x = Ledger!TxnRow(t)
                 \/ \E i \in Ledger!ImportsOf(j.of) : x = Ledger!ImportRow(i)
            BY <2>1, <2>3 DEF Ledger!NextOfRemove, Ledger!Unread
        <3>2. \A t \in Ledger!In(j.of) \cup UNION {Ledger!Of(i) : i \in Ledger!ImportsOf(j.of)} : txn[t] # Ledger!NoTxn
            <4>1. \A t \in Ledger!In(j.of) : txn[t] # Ledger!NoTxn
                BY <1>3, <2>1 DEF Ledger!In
            <4>2. \A i \in Ledger!ImportsOf(j.of) : \A t \in Ledger!Of(i) : txn[t] # Ledger!NoTxn
                BY <1>3 DEF Ledger!ImportsOf, Ledger!Of
            <4> QED
                BY <4>1, <4>2
        <3>3. \A i \in Ledger!ImportsOf(j.of) : import[i] # Ledger!NoImport
            BY <1>3, <2>1 DEF Ledger!ImportsOf
        <3> QED
            BY <3>1, <3>2, <3>3, RowsApart
    <2> QED
        BY <2>2, <2>3
<1> QED
    BY <1>4, <1>5

LEMMA WantTraced ==
    ASSUME Ledger!Bounds, UInv, NEW r \in Clients, Ledger!Want(r)
    PROVE  Lookups' /\ Traced'
<1>1. PICK x \in Ledger!NextRows(doing[r]) : doing' = [doing EXCEPT ![r].want = x]
    BY DEF Ledger!Want
<1>2. x \in Ledger!Rows /\ UNCHANGED <<account, txn, import, moved>> /\ doing[r] \in Jobs /\ doing \in [Clients -> Jobs]
      /\ doing[r].kind # "idle"
    BY <1>1, NextType DEF Ledger!Want, UInv, IInv, Types
<1> DEFINE new == [doing[r] EXCEPT !.want = x]
<1>3. /\ new.kind = doing[r].kind /\ new.of = doing[r].of /\ new.to = doing[r].to
      /\ new.adds = doing[r].adds /\ new.read = doing[r].read /\ new.want = x
    BY <1>2 DEF Jobs
<1>4. doing'[r] = new /\ \A q \in Clients : q # r => doing'[q] = doing[q]
    BY <1>1, <1>2
<1> HIDE DEF new
<1>5. \A q \in Clients : /\ doing'[q].kind = doing[q].kind /\ doing'[q].of = doing[q].of /\ doing'[q].to = doing[q].to
                         /\ doing'[q].adds = doing[q].adds /\ doing'[q].read = doing[q].read
    BY <1>3, <1>4
<1>6. ASSUME NEW q \in Clients, NEW y \in Ledger!Rows, Sought(doing'[q], y)
      PROVE  Sought(doing[q], y) \/ (q = r /\ y = x)
    BY <1>3, <1>4, <1>6 DEF Sought
<1>7. UndoReads'
    <2> SUFFICES ASSUME NEW q \in Clients, doing'[q].kind = "undo", NEW t \in TxnIds, Sought(doing'[q], Ledger!TxnRow(t))
                 PROVE  /\ Ledger!Known(doing'[q], Ledger!ImportRow(doing'[q].of))
                        /\ txn'[t] # Ledger!NoTxn => txn'[t].origin = doing'[q].of
        BY DEF UndoReads, Sought, Ledger!Known, Ledger!TxnRow, Ledger!ImportRow, Ledger!NoTxn
    <2>1. doing[q].kind = "undo"
        BY <1>5
    <2>2. CASE Sought(doing[q], Ledger!TxnRow(t))
        BY <1>2, <1>5, <2>1, <2>2 DEF UInv, Lookups, UndoReads, Ledger!Known
    <2>3. CASE q = r /\ Ledger!TxnRow(t) = x
        BY <1>2, <1>5, <2>1, <2>3, LooksFor DEF Ledger!Known
    <2> QED
        BY <1>6, <2>2, <2>3, RowOfTxn
<1>8. Seen'
    <2> SUFFICES ASSUME NEW q \in Clients, doing'[q].kind \in {"undo", "remove"}
                 PROVE  /\ \A t \in TxnIds : Sought(doing'[q], Ledger!TxnRow(t)) =>
                              /\ \A p \in Clients : t \notin doing'[p].adds
                              /\ doing'[q].read[Ledger!TxnRow(t)] = Gone => txn'[t] = Ledger!NoTxn
                        /\ \A i \in Imports : doing'[q].kind = "remove" /\ Sought(doing'[q], Ledger!ImportRow(i)) =>
                              /\ \A p \in Clients : doing'[p].kind = "import" => doing'[p].to # i
                              /\ doing'[q].read[Ledger!ImportRow(i)] = Gone => import'[i] = Ledger!NoImport
        BY DEF Seen, Sought, Ledger!TxnRow, Ledger!ImportRow, Ledger!NoTxn, Ledger!NoImport
    <2>0. doing[q].kind \in {"undo", "remove"}
        BY <1>5
    <2>1. ASSUME NEW t \in TxnIds, Sought(doing'[q], Ledger!TxnRow(t))
          PROVE  /\ \A p \in Clients : t \notin doing[p].adds
                 /\ doing[q].read[Ledger!TxnRow(t)] = Gone => txn[t] = Ledger!NoTxn
        <3>1. CASE Sought(doing[q], Ledger!TxnRow(t))
            BY <2>0, <3>1 DEF UInv, Lookups, Seen
        <3>2. CASE q = r /\ Ledger!TxnRow(t) = x
            <4>1. txn[t] # Ledger!NoTxn /\ doing[q].read[Ledger!TxnRow(t)] = NotYet
                BY <1>2, <2>0, <3>2, LooksFor
            <4> QED
                BY <4>1 DEF UInv, IInv, Reserved, Ledger!Bounds
        <3> QED
            BY <1>6, <2>1, <3>1, <3>2, RowOfTxn
    <2>2. ASSUME NEW i \in Imports, doing'[q].kind = "remove", Sought(doing'[q], Ledger!ImportRow(i))
          PROVE  /\ \A p \in Clients : doing[p].kind = "import" => doing[p].to # i
                 /\ doing[q].read[Ledger!ImportRow(i)] = Gone => import[i] = Ledger!NoImport
        <3>0. doing[q].kind = "remove"
            BY <1>5, <2>2
        <3>1. CASE Sought(doing[q], Ledger!ImportRow(i))
            BY <3>0, <3>1 DEF UInv, Lookups, Seen
        <3>2. CASE q = r /\ Ledger!ImportRow(i) = x
            <4>1. import[i] # Ledger!NoImport /\ doing[q].read[Ledger!ImportRow(i)] = NotYet
                BY <1>2, <3>0, <3>2, LooksFor
            <4> QED
                BY <4>1 DEF UInv, IInv, Reserved, Ledger!Bounds
        <3> QED
            BY <1>6, <2>2, <3>1, <3>2, RowOfImport
    <2> QED
        BY <1>2, <1>5, <2>1, <2>2
<1> QED
    BY <1>2, <1>7, <1>8, TracedStays DEF UInv, Lookups

LEMMA TakeTraced ==
    ASSUME Ledger!Bounds, UInv, NEW r \in Clients, Ledger!Take(r)
    PROVE  Lookups' /\ Traced'
<1> DEFINE x == doing[r].want
           new == [doing[r] EXCEPT !.want = Unset, !.read = [doing[r].read EXCEPT ![x] = Ledger!Row(x)]]
<1>1. /\ doing[r] \in Jobs /\ doing \in [Clients -> Jobs] /\ x \in Ledger!Rows /\ x # Unset
      /\ holder[x] = Unset /\ Unset \notin Clients
      /\ UNCHANGED <<account, txn, import, moved>>
      /\ doing' = [doing EXCEPT ![r] = new]
    <2>1. doing \in [Clients -> Jobs] /\ doing[r] \in Jobs /\ x \in Ledger!Rows \cup {Unset} /\ Unset \notin Clients
        BY DEF UInv, IInv, Types, Jobs, Ledger!Bounds
    <2>2. x # Unset /\ holder[x] = Unset /\ UNCHANGED <<account, txn, import, moved>>
        BY <2>1 DEF Ledger!Take, Ledger!Locked
    <2>3. doing' = [doing EXCEPT ![r] = new]
        BY DEF Ledger!Take
    <2> QED
        BY <2>1, <2>2, <2>3
<1>2. /\ new.kind = doing[r].kind /\ new.of = doing[r].of /\ new.to = doing[r].to
      /\ new.adds = doing[r].adds /\ new.read = [doing[r].read EXCEPT ![x] = Ledger!Row(x)] /\ new.want = Unset
    BY <1>1 DEF Jobs
<1>3. /\ new.read[x] = Ledger!Row(x)
      /\ \A y : y # x => new.read[y] = doing[r].read[y]
    BY <1>1, <1>2 DEF Jobs
<1> HIDE DEF new
<1>4. doing'[r] = new /\ \A q \in Clients : q # r => doing'[q] = doing[q]
    BY <1>1
<1>5. \A q \in Clients : /\ doing'[q].kind = doing[q].kind /\ doing'[q].of = doing[q].of /\ doing'[q].to = doing[q].to
                         /\ doing'[q].adds = doing[q].adds
    BY <1>2, <1>4
<1>6. ASSUME NEW q \in Clients, NEW y \in Ledger!Rows, Sought(doing'[q], y)
      PROVE  Sought(doing[q], y)
    <2>1. CASE q = r /\ y = x
        BY <1>1, <2>1 DEF Sought
    <2>2. CASE q = r /\ y # x
        <3>1. doing'[q].want = Unset /\ doing'[q].read[y] = doing[q].read[y]
            BY <1>2, <1>3, <1>4, <2>2
        <3> QED
            BY <1>6, <3>1 DEF Sought
    <2>3. CASE q # r
        BY <1>4, <1>6, <2>3
    <2> QED
        BY <2>1, <2>2, <2>3
<1>7. ASSUME NEW q \in Clients, NEW y \in Ledger!Rows, Ledger!Known(doing[q], y)
      PROVE  Ledger!Known(doing'[q], y)
    <2>1. holder[y] = q
        BY <1>7 DEF UInv, IInv, Held
    <2>2. y # x
        BY <1>1, <2>1
    <2> QED
        BY <1>3, <1>4, <1>7, <2>2 DEF Ledger!Known
<1>8. ASSUME NEW q \in Clients, NEW y \in Ledger!Rows, doing'[q].read[y] = Gone
      PROVE  doing[q].read[y] = Gone \/ ~Ledger!Exists(y)
    <2>1. Ledger!Exists(x) => Ledger!Row(x) # Gone
        <3>1. {Gone} \cap (Ledger!AccountRecords \cup Ledger!TxnRecords \cup Ledger!ImportRecords) = {}
            BY DEF Ledger!Bounds
        <3>2. ASSUME NEW a \in Accounts, x = Ledger!AccountRow(a), Ledger!Exists(x) PROVE Ledger!Row(x) \in Ledger!AccountRecords
            BY <3>2, RowOfAccount DEF UInv, IInv, Types
        <3>3. ASSUME NEW t \in TxnIds, x = Ledger!TxnRow(t), Ledger!Exists(x) PROVE Ledger!Row(x) \in Ledger!TxnRecords
            BY <3>3, RowOfTxn DEF UInv, IInv, Types
        <3>4. ASSUME NEW i \in Imports, x = Ledger!ImportRow(i), Ledger!Exists(x) PROVE Ledger!Row(x) \in Ledger!ImportRecords
            BY <3>4, RowOfImport DEF UInv, IInv, Types
        <3> HIDE DEF x
        <3> QED
            BY <1>1, <3>1, <3>2, <3>3, <3>4, TheRows
    <2>2. CASE q = r /\ y = x
        BY <1>3, <1>4, <1>8, <2>1, <2>2
    <2>3. CASE ~(q = r /\ y = x)
        BY <1>3, <1>4, <1>8, <2>3
    <2> QED
        BY <2>2, <2>3
<1>9. UndoReads'
    <2> SUFFICES ASSUME NEW q \in Clients, doing'[q].kind = "undo", NEW t \in TxnIds, Sought(doing'[q], Ledger!TxnRow(t))
                 PROVE  /\ Ledger!Known(doing'[q], Ledger!ImportRow(doing'[q].of))
                        /\ txn'[t] # Ledger!NoTxn => txn'[t].origin = doing'[q].of
        BY DEF UndoReads, Sought, Ledger!Known, Ledger!TxnRow, Ledger!ImportRow, Ledger!NoTxn
    <2>1. doing[q].kind = "undo" /\ Sought(doing[q], Ledger!TxnRow(t)) /\ doing[q].of \in Imports
        BY <1>5, <1>6, RowOfTxn DEF UInv, IInv, AllAsked, Asked
    <2>2. Ledger!Known(doing[q], Ledger!ImportRow(doing[q].of)) /\ (txn[t] # Ledger!NoTxn => txn[t].origin = doing[q].of)
        BY <2>1 DEF UInv, Lookups, UndoReads
    <2> QED
        BY <1>1, <1>5, <1>7, <2>1, <2>2, RowOfImport
<1>10. Seen'
    <2> SUFFICES ASSUME NEW q \in Clients, doing'[q].kind \in {"undo", "remove"}
                 PROVE  /\ \A t \in TxnIds : Sought(doing'[q], Ledger!TxnRow(t)) =>
                              /\ \A p \in Clients : t \notin doing'[p].adds
                              /\ doing'[q].read[Ledger!TxnRow(t)] = Gone => txn'[t] = Ledger!NoTxn
                        /\ \A i \in Imports : doing'[q].kind = "remove" /\ Sought(doing'[q], Ledger!ImportRow(i)) =>
                              /\ \A p \in Clients : doing'[p].kind = "import" => doing'[p].to # i
                              /\ doing'[q].read[Ledger!ImportRow(i)] = Gone => import'[i] = Ledger!NoImport
        BY DEF Seen, Sought, Ledger!TxnRow, Ledger!ImportRow, Ledger!NoTxn, Ledger!NoImport
    <2>0. doing[q].kind \in {"undo", "remove"} /\ doing'[q].kind = doing[q].kind
        BY <1>5
    <2>1. ASSUME NEW t \in TxnIds, Sought(doing'[q], Ledger!TxnRow(t))
          PROVE  /\ \A p \in Clients : t \notin doing[p].adds
                 /\ doing'[q].read[Ledger!TxnRow(t)] = Gone => txn[t] = Ledger!NoTxn
        <3>1. Sought(doing[q], Ledger!TxnRow(t))
            BY <1>6, <2>1, RowOfTxn
        <3>2. /\ \A p \in Clients : t \notin doing[p].adds
              /\ doing[q].read[Ledger!TxnRow(t)] = Gone => txn[t] = Ledger!NoTxn
            BY <2>0, <3>1 DEF UInv, Lookups, Seen
        <3> QED
            BY <1>8, <3>2, RowOfTxn
    <2>2. ASSUME NEW i \in Imports, doing'[q].kind = "remove", Sought(doing'[q], Ledger!ImportRow(i))
          PROVE  /\ \A p \in Clients : doing[p].kind = "import" => doing[p].to # i
                 /\ doing'[q].read[Ledger!ImportRow(i)] = Gone => import[i] = Ledger!NoImport
        <3>1. Sought(doing[q], Ledger!ImportRow(i))
            BY <1>6, <2>2, RowOfImport
        <3>2. /\ \A p \in Clients : doing[p].kind = "import" => doing[p].to # i
              /\ doing[q].read[Ledger!ImportRow(i)] = Gone => import[i] = Ledger!NoImport
            BY <2>0, <2>2, <3>1 DEF UInv, Lookups, Seen
        <3> QED
            BY <1>8, <3>2, RowOfImport
    <2> QED
        BY <1>1, <1>5, <2>1, <2>2
<1> QED
    BY <1>1, <1>9, <1>10, TracedStays DEF UInv, Lookups

\* A request that ends looks for nothing.
LEMMA EndLooksForNone ==
    ASSUME IInv, NEW r \in Clients, Ledger!End(r)
    PROVE  /\ doing'[r] = Ledger!Idle /\ \A q \in Clients : q # r => doing'[q] = doing[q]
           /\ Ledger!Idle.adds = {} /\ Ledger!Idle.kind = "idle"
           /\ \A q \in Clients, x \in Ledger!Rows : Sought(doing'[q], x) => q # r /\ Sought(doing[q], x)
<1>1. doing'[r] = Ledger!Idle /\ \A q \in Clients : q # r => doing'[q] = doing[q]
    BY EndType
<1>2. Ledger!Idle.adds = {} /\ Ledger!Idle.kind = "idle" /\ Ledger!Idle.want = Unset
    BY DEF Ledger!Idle
<1>3. \A x \in Ledger!Rows : ~Sought(Ledger!Idle, x)
    BY <1>2, IdleType DEF Sought
<1> QED
    BY <1>1, <1>2, <1>3

LEMMA EndTraced ==
    ASSUME UInv, NEW r \in Clients, Ledger!End(r), UNCHANGED <<account, txn, import, moved>>
    PROVE  Lookups' /\ Traced'
<1>1. Lookups'
    BY EndLooksForNone, LookupsStay DEF UInv
<1> QED
    BY <1>1, TracedStays DEF UInv

LEMMA LookTraced ==
    ASSUME UInv, NEW r \in Clients, Ledger!Look(r)
    PROVE  Lookups' /\ Traced'
<1>1. \A q \in Clients : q # r => doing'[q] = doing[q]
    BY DEF Ledger!Look, UInv, IInv, Types
<1>2. /\ UNCHANGED <<account, txn, import, moved>>
      /\ doing[r].kind = "update"
      /\ doing'[r].kind = doing[r].kind /\ doing'[r].adds = doing[r].adds
    BY DEF Ledger!Look, Ledger!Looks, UInv, IInv, Types, Jobs
<1>3. Lookups'
    BY <1>1, <1>2, LookupsStay DEF UInv
<1> QED
    BY <1>2, <1>3, TracedStays DEF UInv

LEMMA LeftTypes ==
    ASSUME Ledger!Bounds, Types, NEW i, NEW a
    PROVE  /\ Left(i, a) \subseteq TxnIds /\ IsFiniteSet(Left(i, a)) /\ LeftMakes(i, a) \in Int
           /\ \A t \in Left(i, a) : Ledger!Amount[t] = txn[t].amount /\ Ledger!Amount[t] \in Int
BY SumsMake DEF Left, LeftMakes, Ledger!In, Ledger!Of

\* An import's rows in an account, when none comes, goes or changes.
LEMMA LeftStays ==
    ASSUME Ledger!Bounds, Types, NEW i, NEW a,
           \A t \in TxnIds : \/ txn'[t] = txn[t]
                             \/ ~(txn[t].origin = i /\ txn[t].account = a) /\ ~(txn'[t].origin = i /\ txn'[t].account = a)
    PROVE  Left(i, a)' = Left(i, a) /\ LeftMakes(i, a)' = LeftMakes(i, a)
<1>1. Left(i, a)' = Left(i, a)
    BY DEF Left, Ledger!In, Ledger!Of
<1>2. \A t \in Left(i, a) : Ledger!Amount'[t] = Ledger!Amount[t]
    <2> SUFFICES ASSUME NEW t \in Left(i, a) PROVE txn'[t] = txn[t] /\ t \in TxnIds
        BY DEF Ledger!Amount
    <2> QED
        BY DEF Left, Ledger!In, Ledger!Of
<1>3. Ledger!Sum(Ledger!Amount', Left(i, a)) = Ledger!Sum(Ledger!Amount, Left(i, a))
    BY <1>2, LeftTypes, SumSame, SumIs
<1> QED
    BY <1>1, <1>3 DEF LeftMakes

\* Steps that touch no import and none of its rows.
LEMMA TracedKept ==
    ASSUME Ledger!Bounds, Types, Traced, UNCHANGED <<import, moved>>,
           \A b \in Accounts : /\ account'[b].linked => account[b].linked
                               /\ account'[b].exists => account[b].exists,
           \A t \in TxnIds : txn'[t] = txn[t] \/ (txn[t].origin \notin Imports /\ txn'[t].origin \notin Imports)
    PROVE  Traced'
<1>1. \A i \in Imports, a \in Accounts : /\ (AtHome(i)' <=> AtHome(i)) /\ Ledger!HomeChange[i]' = Ledger!HomeChange[i]
                                         /\ Left(i, a)' = Left(i, a) /\ LeftMakes(i, a)' = LeftMakes(i, a)
    BY LeftStays DEF AtHome, Ledger!HomeChange
<1>2. HomesKept' /\ OriginsExist'
    BY DEF Traced, HomesKept, OriginsExist, Ledger!NoImport
<1>3. OnlyAtHome' /\ MovedIs' /\ NotMoved'
    BY <1>1 DEF Traced, OnlyAtHome, MovedIs, NotMoved, Ledger!NoImport
<1> QED
    BY <1>2, <1>3 DEF Traced

\* A row the bank adds is nobody's.
LEMMA LookupsApart ==
    ASSUME Lookups, UNCHANGED <<import, doing>>, \A t \in TxnIds : txn'[t] = txn[t] \/ Ledger!Free(t)
    PROVE  Lookups'
<1>1. \A q \in Clients, t \in TxnIds : Sought(doing[q], Ledger!TxnRow(t)) => txn'[t] = txn[t]
    BY DEF Ledger!Free, Ledger!New, Sought
<1>2. UndoReads'
    <2> SUFFICES ASSUME NEW q \in Clients, doing[q].kind = "undo", NEW t \in TxnIds, Sought(doing[q], Ledger!TxnRow(t))
                 PROVE  /\ Ledger!Known(doing[q], Ledger!ImportRow(doing[q].of))
                        /\ txn'[t] # Ledger!NoTxn => txn'[t].origin = doing[q].of
        BY DEF UndoReads, Sought, Ledger!Known, Ledger!TxnRow, Ledger!ImportRow, Ledger!NoTxn
    <2> QED
        BY <1>1 DEF Lookups, UndoReads
<1>3. Seen'
    <2> SUFFICES ASSUME NEW q \in Clients, doing[q].kind \in {"undo", "remove"}
                 PROVE  /\ \A t \in TxnIds : Sought(doing[q], Ledger!TxnRow(t)) =>
                              /\ \A p \in Clients : t \notin doing[p].adds
                              /\ doing[q].read[Ledger!TxnRow(t)] = Gone => txn'[t] = Ledger!NoTxn
                        /\ \A i \in Imports : doing[q].kind = "remove" /\ Sought(doing[q], Ledger!ImportRow(i)) =>
                              /\ \A p \in Clients : doing[p].kind = "import" => doing[p].to # i
                              /\ doing[q].read[Ledger!ImportRow(i)] = Gone => import[i] = Ledger!NoImport
        BY DEF Seen, Sought, Ledger!TxnRow, Ledger!ImportRow, Ledger!NoTxn, Ledger!NoImport
    <2> QED
        BY <1>1 DEF Lookups, Seen
<1> QED
    BY <1>2, <1>3 DEF Lookups

LEMMA BankTraced ==
    ASSUME Ledger!Bounds, UInv, NEW a \in Accounts, Ledger!BankReports(a) \/ Ledger!BankLeaves(a) \/ Ledger!CloseOrOpen(a)
    PROVE  Lookups' /\ Traced'
<1>1. /\ UNCHANGED <<import, moved, doing>>
      /\ \A b \in Accounts : /\ account'[b].linked => account[b].linked
                             /\ account'[b].exists => account[b].exists
    BY DEF Ledger!BankReports, Ledger!BankLeaves, Ledger!CloseOrOpen, UInv, IInv, Types, Ledger!AccountRecords
<1>2. \A t \in TxnIds : \/ txn'[t] = txn[t]
                        \/ Ledger!Free(t) /\ txn[t].origin \notin Imports /\ txn'[t].origin \notin Imports
    <2>1. CASE Ledger!BankReports(a)
        <3>1. CASE UNCHANGED txn
            BY <3>1
        <3>2. CASE \E t \in TxnIds, amount \in Amounts :
                    Ledger!Free(t) /\ txn' = [txn EXCEPT ![t] = [account |-> a, amount |-> amount, origin |-> "bank"]]
            <4>1. PICK t \in TxnIds, amount \in Amounts :
                    Ledger!Free(t) /\ txn' = [txn EXCEPT ![t] = [account |-> a, amount |-> amount, origin |-> "bank"]]
                BY <3>2
            <4>2. txn[t].origin \notin Imports
                BY <4>1, RowOfTxn DEF Ledger!Free, Ledger!New, Ledger!NoTxn, Ledger!Bounds
            <4>3. "bank" \notin Imports
                BY DEF Ledger!Bounds
            <4>4. txn'[t].origin = "bank" /\ \A u \in TxnIds : u # t => txn'[u] = txn[u]
                BY <4>1 DEF UInv, IInv, Types
            <4> QED
                BY <4>1, <4>2, <4>3, <4>4
        <3> QED
            BY <2>1, <3>1, <3>2 DEF Ledger!BankReports
    <2>2. CASE Ledger!BankLeaves(a) \/ Ledger!CloseOrOpen(a)
        BY <2>2 DEF Ledger!BankLeaves, Ledger!CloseOrOpen
    <2> QED
        BY <2>1, <2>2
<1>3. Lookups'
    BY <1>1, <1>2, LookupsApart DEF UInv
<1>4. Traced'
    BY <1>1, <1>2, TracedKept DEF UInv, IInv
<1> QED
    BY <1>3, <1>4

\* An undo that is ready has found every row of its import that is left, and
\* takes out of each balance what they and the import did to it.
LEMMA UndoHas ==
    ASSUME Ledger!Bounds, UInv, NEW r \in Clients, Ledger!Ready(r), ~Ledger!Refused(doing[r]), doing[r].kind = "undo"
    PROVE  LET i == doing[r].of
           IN  /\ i \in Imports /\ import[i] # Ledger!NoImport /\ Ledger!Found(doing[r]) = Ledger!Of(i)
               /\ \A a \in Accounts : Ledger!Change(doing[r], a) =
                      -(LeftMakes(i, a) + (IF a = import[i].account THEN Ledger!HomeChange[i] ELSE 0))
<1> DEFINE j == doing[r]  i == j.of
<1>1. /\ i \in Imports /\ Ledger!Known(j, Ledger!ImportRow(i)) /\ Ledger!TheImport(j) = import[i]
      /\ import[i].account \in Accounts
    BY OthersHave DEF UInv, IInv, AllAsked, Asked
<1>2. import[i] # Ledger!NoImport
    BY <1>1, HeldImport DEF UInv, IInv
<1>3. \A t \in Ledger!Found(j) : t \in Ledger!Of(i)
    <2> SUFFICES ASSUME NEW t \in Ledger!Found(j) PROVE t \in Ledger!Of(i)
        OBVIOUS
    <2>1. t \in TxnIds /\ txn[t] # Ledger!NoTxn /\ Sought(j, Ledger!TxnRow(t))
        BY HeldTxn DEF Ledger!Found, Ledger!Known, Sought, UInv, IInv
    <2> QED
        BY <2>1 DEF UInv, Lookups, UndoReads, Ledger!Of
<1>4. \A t \in Ledger!Of(i) : t \in Ledger!Found(j)
    <2> SUFFICES ASSUME NEW t \in Ledger!Of(i) PROVE t \in TxnIds /\ Ledger!Known(j, Ledger!TxnRow(t))
        BY DEF Ledger!Found
    <2>1. t \in TxnIds /\ txn[t].origin \in Imports /\ Ledger!NoTxn.origin \notin Imports
        BY <1>1 DEF Ledger!Of, Ledger!NoTxn, Ledger!Bounds
    <2>2. Ledger!NextOfUndo(j) = {} /\ Ledger!TheImport(j) # NotYet
        BY <1>1 DEF Ledger!Ready, Ledger!NextRows, Ledger!Known, Ledger!TheImport
    <2>3. Ledger!Unread(j, {Ledger!TxnRow(u) : u \in Ledger!Of(i)}) = {}
        BY <2>2 DEF Ledger!NextOfUndo
    <2>4. j.read[Ledger!TxnRow(t)] # NotYet
        BY <2>3 DEF Ledger!Unread
    <2>5. j.read[Ledger!TxnRow(t)] # Gone
        BY <2>1, <2>4 DEF UInv, Lookups, Seen, Sought
    <2> QED
        BY <2>1, <2>4, <2>5 DEF Ledger!Known
<1>5. ASSUME NEW a \in Accounts
      PROVE  Ledger!Change(j, a) = -(LeftMakes(i, a) + (IF a = import[i].account THEN Ledger!HomeChange[i] ELSE 0))
    <2>1. Ledger!Found(j) \cap Ledger!In(a) = Left(i, a)
        BY <1>3, <1>4 DEF Left
    <2>2. Ledger!DeleteChange(j, a) = -LeftMakes(i, a) /\ LeftMakes(i, a) \in Int
        BY <2>1, DeleteIs, LeftTypes DEF LeftMakes, UInv, IInv
    <2>3. Ledger!HomeChange[i] = import[i].change - import[i].total
        BY <1>1, SumsMake DEF UInv, IInv
    <2>4. import[i].change \in Int /\ import[i].total \in Int
        BY <1>1, <1>2 DEF UInv, IInv, Types, Ledger!ImportRecords
    <2>5. Ledger!Change(j, a) = Ledger!UndoChange(j, a)
        BY DEF Ledger!Change
    <2> HIDE DEF j, i
    <2> QED
        BY <1>1, <2>2, <2>3, <2>4, <2>5 DEF Ledger!UndoChange
<1> QED
    BY <1>1, <1>2, <1>3, <1>4, <1>5

\* A removal that is ready has found all that goes with its account.
LEMMA RemoveHas ==
    ASSUME Ledger!Bounds, UInv, NEW r \in Clients, Ledger!Ready(r), ~Ledger!Refused(doing[r]), doing[r].kind = "remove"
    PROVE  LET c == doing[r].of
           IN  /\ c \in Accounts
               /\ \A i \in Imports : import[i].account = c => Ledger!Known(doing[r], Ledger!ImportRow(i))
               /\ \A t \in TxnIds : txn[t].account = c \/ txn[t].origin \in Ledger!ImportsOf(c) => t \in Ledger!Found(doing[r])
<1> DEFINE j == doing[r]  c == j.of
<1>1. c \in Accounts /\ Ledger!Known(j, Ledger!AccountRow(c))
    BY OthersHave DEF UInv, IInv, AllAsked, Asked
<1>2. Ledger!NextOfRemove(j) = {}
    BY DEF Ledger!Ready, Ledger!NextRows
<1>3. Ledger!Unread(j, {Ledger!TxnRow(t) : t \in Ledger!In(c) \cup UNION {Ledger!Of(i) : i \in Ledger!ImportsOf(c)}}
                       \cup {Ledger!ImportRow(i) : i \in Ledger!ImportsOf(c)}) = {}
    BY <1>1, <1>2 DEF Ledger!NextOfRemove
<1>4. Ledger!NoTxn.origin \notin Imports /\ Ledger!NoTxn.account \notin Accounts /\ Ledger!NoImport.account \notin Accounts
    BY DEF Ledger!NoTxn, Ledger!NoImport, Ledger!Bounds
<1>5. ASSUME NEW i \in Imports, import[i].account = c
      PROVE  Ledger!Known(j, Ledger!ImportRow(i))
    <2>1. j.read[Ledger!ImportRow(i)] # NotYet
        BY <1>3, <1>5 DEF Ledger!Unread, Ledger!ImportsOf
    <2>2. j.read[Ledger!ImportRow(i)] # Gone
        BY <1>1, <1>4, <1>5, <2>1 DEF UInv, Lookups, Seen, Sought
    <2> QED
        BY <2>1, <2>2 DEF Ledger!Known
<1>6. ASSUME NEW t \in TxnIds, txn[t].account = c \/ txn[t].origin \in Ledger!ImportsOf(c)
      PROVE  t \in Ledger!Found(j)
    <2>1. t \in Ledger!In(c) \cup UNION {Ledger!Of(i) : i \in Ledger!ImportsOf(c)}
        BY <1>6 DEF Ledger!In, Ledger!Of
    <2>2. j.read[Ledger!TxnRow(t)] # NotYet
        BY <1>3, <2>1 DEF Ledger!Unread
    <2>3. txn[t] # Ledger!NoTxn
        BY <1>1, <1>4, <1>6 DEF Ledger!ImportsOf
    <2>4. j.read[Ledger!TxnRow(t)] # Gone
        BY <2>2, <2>3 DEF UInv, Lookups, Seen, Sought
    <2> QED
        BY <2>2, <2>4 DEF Ledger!Known, Ledger!Found
<1> QED
    BY <1>1, <1>5, <1>6

\* What a commit does to a transaction it did not add.
LEMMA OthersAfter ==
    ASSUME Ledger!Bounds, UInv, NEW r \in Clients, Ledger!Commit(r), ~Ledger!Refused(doing[r]), NEW t \in TxnIds, t \notin doing[r].adds
    PROVE  /\ txn[t] = Ledger!NoTxn => txn'[t] = Ledger!NoTxn
           /\ \/ txn'[t] = Ledger!NoTxn
              \/ txn'[t].origin = txn[t].origin /\ (doing[r].kind # "update" => txn'[t] = txn[t])
              \/ /\ doing[r].kind = "remove" /\ txn[t].origin \in Ledger!ImportsOf(doing[r].of)
                 /\ txn'[t].origin = "hand"
<1> DEFINE j == doing[r]
<1>1. txn'[t] = Ledger!TxnAfter(j, t) /\ (t \in Ledger!Found(j) => txn[t] \in Ledger!TxnRecords) /\ j.kind \in Ledger!Kinds
    BY RowsAfter DEF UInv
<1>2. CASE t \notin Ledger!Found(j)
    BY <1>1, <1>2, AfterIs
<1>3. CASE t \in Ledger!Found(j)
    <2>1. txn[t] # Ledger!NoTxn
        BY <1>1, <1>3 DEF Ledger!NoTxn, Ledger!TxnRecords, Ledger!Bounds
    <2>2. CASE j.kind \in {"delete", "undo"}
        BY <1>1, <1>3, <2>1, <2>2, AfterIs
    <2>3. CASE j.kind = "update"
        <3>1. txn'[t] = [txn[t] EXCEPT !.account = j.to, !.amount = j.amount]
            BY <1>1, <1>3, <2>3, AfterIs
        <3> QED
            BY <1>1, <1>3, <2>1, <2>3, <3>1 DEF Ledger!TxnRecords
    <2>4. CASE j.kind = "remove"
        <3>1. CASE txn[t].account = j.of
            BY <1>1, <1>3, <2>1, <2>4, <3>1, AfterIs
        <3>2. CASE txn[t].account # j.of /\ txn[t].origin \in Ledger!ImportsOf(j.of)
            <4>1. txn'[t] = [txn[t] EXCEPT !.origin = "hand"]
                BY <1>1, <1>3, <2>4, <3>2 DEF Ledger!TxnAfter
            <4> QED
                BY <1>1, <1>3, <2>1, <2>4, <3>2, <4>1 DEF Ledger!TxnRecords
        <3>3. CASE txn[t].account # j.of /\ txn[t].origin \notin Ledger!ImportsOf(j.of)
            <4>1. txn'[t] = txn[t]
                BY <1>1, <2>4, <3>3 DEF Ledger!TxnAfter
            <4> QED
                BY <2>1, <2>4, <4>1
        <3> QED
            BY <3>1, <3>2, <3>3
    <2>5. CASE j.kind \in {"idle", "create", "import", "set"}
        <3>1. txn'[t] = txn[t]
            BY <1>1, <2>5, AfterIs
        <3> QED
            BY <2>1, <2>5, <3>1
    <2> QED
        BY <1>1, <2>2, <2>3, <2>4, <2>5 DEF Ledger!Kinds
<1> QED
    BY <1>2, <1>3

LEMMA CommitLookups ==
    ASSUME Ledger!Bounds, UInv, NEW r \in Clients, Ledger!Commit(r), ~Ledger!Refused(doing[r])
    PROVE  Lookups'
<1> DEFINE j == doing[r]
<1>1. Ledger!End(r) /\ Ledger!Ready(r)
    BY CommitDoes
<1>2. /\ doing'[r] = Ledger!Idle /\ Ledger!Idle.adds = {} /\ Ledger!Idle.kind = "idle"
      /\ \A q \in Clients : q # r => doing'[q] = doing[q]
      /\ \A q \in Clients, x \in Ledger!Rows : Sought(doing'[q], x) => q # r /\ Sought(doing[q], x)
    BY <1>1, EndLooksForNone DEF UInv
<1>3. ASSUME NEW q \in Clients, NEW t \in TxnIds, q # r, doing[q].kind \in {"undo", "remove"}, Sought(doing[q], Ledger!TxnRow(t))
      PROVE  t \notin j.adds
    BY <1>3 DEF UInv, Lookups, Seen
<1>4. UndoReads'
    <2> SUFFICES ASSUME NEW q \in Clients, doing'[q].kind = "undo", NEW t \in TxnIds, Sought(doing'[q], Ledger!TxnRow(t))
                 PROVE  /\ Ledger!Known(doing'[q], Ledger!ImportRow(doing'[q].of))
                        /\ txn'[t] # Ledger!NoTxn => txn'[t].origin = doing'[q].of
        BY DEF UndoReads, Sought, Ledger!Known, Ledger!TxnRow, Ledger!ImportRow, Ledger!NoTxn
    <2>1. q # r /\ doing'[q] = doing[q] /\ doing[q].kind = "undo" /\ Sought(doing[q], Ledger!TxnRow(t)) /\ t \notin j.adds
        BY <1>2, <1>3, RowOfTxn
    <2>2. /\ Ledger!Known(doing[q], Ledger!ImportRow(doing[q].of)) /\ doing[q].of \in Imports
          /\ txn[t] # Ledger!NoTxn => txn[t].origin = doing[q].of
        BY <2>1 DEF UInv, Lookups, UndoReads, IInv, AllAsked, Asked
    <2>3. txn[t] = Ledger!NoTxn => txn'[t] = Ledger!NoTxn
        BY <2>1, OthersAfter
    <2>4. ASSUME j.kind = "remove", txn[t].origin \in Ledger!ImportsOf(j.of), txn[t] # Ledger!NoTxn
          PROVE  FALSE
        <3>1. Ledger!Known(j, Ledger!ImportRow(doing[q].of))
            BY <1>1, <2>2, <2>4, RemoveHas DEF Ledger!ImportsOf
        <3>2. holder[Ledger!ImportRow(doing[q].of)] = r /\ holder[Ledger!ImportRow(doing[q].of)] = q
            BY <2>2, <3>1, HeldImport DEF UInv, IInv
        <3> QED
            BY <2>1, <3>2
    <2>5. txn'[t] # Ledger!NoTxn => txn'[t].origin = txn[t].origin
        BY <2>1, <2>3, <2>4, OthersAfter
    <2> QED
        BY <2>1, <2>2, <2>3, <2>5
<1>5. Seen'
    <2> SUFFICES ASSUME NEW q \in Clients, doing'[q].kind \in {"undo", "remove"}
                 PROVE  /\ \A t \in TxnIds : Sought(doing'[q], Ledger!TxnRow(t)) =>
                              /\ \A p \in Clients : t \notin doing'[p].adds
                              /\ doing'[q].read[Ledger!TxnRow(t)] = Gone => txn'[t] = Ledger!NoTxn
                        /\ \A i \in Imports : doing'[q].kind = "remove" /\ Sought(doing'[q], Ledger!ImportRow(i)) =>
                              /\ \A p \in Clients : doing'[p].kind = "import" => doing'[p].to # i
                              /\ doing'[q].read[Ledger!ImportRow(i)] = Gone => import'[i] = Ledger!NoImport
        BY DEF Seen, Sought, Ledger!TxnRow, Ledger!ImportRow, Ledger!NoTxn, Ledger!NoImport
    <2>0. q # r /\ doing'[q] = doing[q]
        BY <1>2
    <2>1. ASSUME NEW t \in TxnIds, Sought(doing[q], Ledger!TxnRow(t))
          PROVE  /\ \A p \in Clients : t \notin doing'[p].adds
                 /\ doing[q].read[Ledger!TxnRow(t)] = Gone => txn'[t] = Ledger!NoTxn
        <3>1. /\ \A p \in Clients : t \notin doing[p].adds
              /\ doing[q].read[Ledger!TxnRow(t)] = Gone => txn[t] = Ledger!NoTxn
            BY <2>0, <2>1 DEF UInv, Lookups, Seen
        <3> QED
            BY <1>2, <3>1, OthersAfter
    <2>2. ASSUME NEW i \in Imports, doing[q].kind = "remove", Sought(doing[q], Ledger!ImportRow(i))
          PROVE  /\ \A p \in Clients : doing'[p].kind = "import" => doing'[p].to # i
                 /\ doing[q].read[Ledger!ImportRow(i)] = Gone => import'[i] = Ledger!NoImport
        <3>1. /\ \A p \in Clients : doing[p].kind = "import" => doing[p].to # i
              /\ doing[q].read[Ledger!ImportRow(i)] = Gone => import[i] = Ledger!NoImport
            BY <2>2 DEF UInv, Lookups, Seen
        <3>2. import'[i] = Ledger!ImportAfter(j, i)
            BY RowsAfter DEF UInv
        <3>3. import'[i] \in {Ledger!NoImport, import[i]}
            BY <3>1, <3>2 DEF Ledger!ImportAfter
        <3> QED
            BY <1>2, <3>1, <3>3
    <2> QED
        BY <2>0, <2>1, <2>2
<1> QED
    BY <1>4, <1>5 DEF Lookups

\* Imports after a commit: one may be new, others are as they were or gone.
LEMMA ImportsAfter ==
    ASSUME Ledger!Bounds, UInv, NEW r \in Clients, Ledger!Commit(r), ~Ledger!Refused(doing[r]), NEW i \in Imports
    PROVE  /\ \A a \in Accounts : moved'[i][a] =
                  IF import'[i] = Ledger!NoImport THEN 0 ELSE moved[i][a] + Ledger!MovedBy(doing[r], i, a)
           /\ \/ /\ doing[r].kind = "import" /\ i = doing[r].to /\ doing[r].of \in Accounts
                 /\ import[i] = Ledger!NoImport /\ Ledger!Of(i) = {}
                 /\ import'[i] = [account |-> doing[r].of, total |-> Ledger!Total(doing[r]), change |-> Ledger!ImportChange(doing[r])]
              \/ /\ ~(doing[r].kind = "import" /\ i = doing[r].to)
                 /\ import'[i] \in {import[i], Ledger!NoImport}
<1> DEFINE j == doing[r]
<1>1. import'[i] = Ledger!ImportAfter(j, i) /\ Asked(j)
    BY RowsAfter DEF UInv
<1>2. moved' = [k \in Imports |-> [a \in Accounts |->
                   IF Ledger!ImportAfter(j, k) = Ledger!NoImport THEN 0 ELSE moved[k][a] + Ledger!MovedBy(j, k, a)]]
    BY DEF Ledger!Commit
<1>3. ASSUME j.kind = "import", i = j.to
      PROVE  j.of \in Accounts /\ import[i] = Ledger!NoImport /\ Ledger!Of(i) = {}
             /\ import'[i] = [account |-> j.of, total |-> Ledger!Total(j), change |-> Ledger!ImportChange(j)]
    <2>1. import[i] = Ledger!NoImport /\ j.of \in Accounts
        BY <1>1, <1>3 DEF UInv, IInv, Reserved, Asked
    <2>2. Ledger!Of(i) = {}
        BY <2>1 DEF UInv, Traced, OriginsExist, Ledger!Of
    <2>3. import'[i] = [account |-> j.of, total |-> Ledger!Total(j), change |-> Ledger!ImportChange(j)]
        BY <1>1, <1>3 DEF Ledger!ImportAfter
    <2> QED
        BY <2>1, <2>2, <2>3
<1>4. ~(j.kind = "import" /\ i = j.to) => import'[i] \in {import[i], Ledger!NoImport}
    BY <1>1 DEF Ledger!ImportAfter
<1> QED
    BY <1>1, <1>2, <1>3, <1>4

LEMMA CommitOrigins ==
    ASSUME Ledger!Bounds, UInv, NEW r \in Clients, Ledger!Commit(r), ~Ledger!Refused(doing[r])
    PROVE  HomesKept' /\ OriginsExist'
<1> DEFINE j == doing[r]
<1>1. HomesKept'
    BY BalanceMoves DEF UInv, Traced, HomesKept, IInv
<1>2. Ledger!Ready(r)
    BY CommitDoes
<1>3. Ledger!NoTxn.origin \notin Imports /\ "hand" \notin Imports /\ Ledger!NoImport.account \notin Accounts
    BY DEF Ledger!NoTxn, Ledger!NoImport, Ledger!Bounds
<1>4. ASSUME NEW t \in TxnIds, NEW i \in Imports, txn'[t].origin = i
      PROVE  import'[i] # Ledger!NoImport
    <2>1. CASE t \in j.adds
        <3>1. j.kind \in {"create", "import"} /\ txn'[t] = Ledger!TxnAfter(j, t)
            BY <2>1, RowsAfter DEF Asked, UInv
        <3>2. txn'[t].origin = IF j.kind = "create" THEN "hand" ELSE j.to
            <4>1. Ledger!TxnAfter(j, t) = [account |-> j.of, amount |-> j.amount,
                                           origin |-> IF j.kind = "create" THEN "hand" ELSE j.to]
                BY <2>1, <3>1, AfterIs
            <4> QED
                BY <3>1, <4>1
        <3>3. j.kind = "import" /\ i = j.to
            BY <1>3, <1>4, <3>1, <3>2
        <3>4. j.of \in Accounts /\ import'[i].account = j.of
            <4>1. j.of \in Accounts /\ import'[i] = [account |-> j.of, total |-> Ledger!Total(j), change |-> Ledger!ImportChange(j)]
                BY <3>3, ImportsAfter
            <4> QED
                BY <4>1
        <3> QED
            BY <1>3, <3>4
    <2>2. CASE t \notin j.adds
        <3>1. txn'[t] # Ledger!NoTxn /\ txn'[t].origin # "hand"
            BY <1>3, <1>4
        <3>2. txn[t].origin = i /\ txn[t] # Ledger!NoTxn
            BY <1>4, <2>2, <3>1, OthersAfter
        <3>3. import[i] # Ledger!NoImport
            BY <1>4, <3>2 DEF UInv, Traced, OriginsExist
        <3>4. ASSUME import'[i] = Ledger!NoImport PROVE FALSE
            <4>1. import'[i] = Ledger!ImportAfter(j, i) /\ txn'[t] = Ledger!TxnAfter(j, t)
                BY <1>4, RowsAfter DEF UInv
            <4>2. ~(j.kind = "import" /\ i = j.to)
                BY <1>4, <3>3, ImportsAfter
            <4>3. \/ j.kind = "undo" /\ i = j.of
                  \/ j.kind = "remove" /\ import[i].account = j.of
                BY <3>3, <3>4, <4>1, <4>2 DEF Ledger!ImportAfter
            <4>4. CASE j.kind = "undo" /\ i = j.of
                <5>1. t \in Ledger!Found(j)
                    BY <1>2, <3>2, <4>4, UndoHas DEF Ledger!Of
                <5> QED
                    <6>1. Ledger!TxnAfter(j, t) = Ledger!NoTxn
                        BY <4>4, <5>1, AfterIs
                    <6> QED
                        BY <3>1, <4>1, <6>1
            <4>5. CASE j.kind = "remove" /\ import[i].account = j.of
                <5>1. t \in Ledger!Found(j) /\ txn[t].origin \in Ledger!ImportsOf(j.of) /\ txn[t] \in Ledger!TxnRecords
                    BY <1>2, <1>4, <3>2, <4>5, RemoveHas, RowsAfter DEF Ledger!ImportsOf, UInv
                <5>2. txn[t].account # j.of
                    <6>1. txn[t].account = j.of => Ledger!TxnAfter(j, t) = Ledger!NoTxn
                        BY <4>5, <5>1, AfterIs
                    <6> QED
                        BY <3>1, <4>1, <6>1
                <5>3. txn'[t] = [txn[t] EXCEPT !.origin = "hand"]
                    BY <2>2, <4>1, <4>5, <5>1, <5>2 DEF Ledger!TxnAfter
                <5> QED
                    BY <3>1, <5>1, <5>3 DEF Ledger!TxnRecords
            <4> QED
                BY <4>3, <4>4, <4>5
        <3> QED
            BY <3>4
    <2> QED
        BY <2>1, <2>2
<1> QED
    BY <1>1, <1>4 DEF OriginsExist, Ledger!NoImport

\* The rows a commit adds are of the import it makes, or of none.
LEMMA AddsAre ==
    ASSUME Ledger!Bounds, UInv, NEW r \in Clients, Ledger!Commit(r), ~Ledger!Refused(doing[r]), NEW i \in Imports, NEW t \in doing[r].adds
    PROVE  /\ t \in TxnIds /\ txn[t] = Ledger!NoTxn /\ txn[t].origin # i
           /\ doing[r].kind \in {"create", "import"}
           /\ txn'[t].account = doing[r].of /\ txn'[t].amount = doing[r].amount
           /\ txn'[t].origin = i <=> doing[r].kind = "import" /\ i = doing[r].to
<1> DEFINE j == doing[r]
<1>1. t \in TxnIds /\ txn[t] = Ledger!NoTxn /\ txn'[t] = Ledger!TxnAfter(j, t) /\ Asked(j)
    BY RowsAfter DEF UInv
<1>2. i # Unset /\ i # "hand"
    BY DEF Ledger!Bounds
<1>3. txn[t].origin # i
    BY <1>1, <1>2 DEF Ledger!NoTxn
<1>4. j.kind \in {"create", "import"}
    BY <1>1 DEF Asked
<1>5. Ledger!TxnAfter(j, t) = [account |-> j.of, amount |-> j.amount,
                               origin |-> IF j.kind = "create" THEN "hand" ELSE j.to]
    BY <1>4, AfterIs
<1>6. /\ txn'[t].account = j.of /\ txn'[t].amount = j.amount
      /\ txn'[t].origin = IF j.kind = "create" THEN "hand" ELSE j.to
    BY <1>1, <1>5
<1> QED
    BY <1>1, <1>2, <1>3, <1>4, <1>5, <1>6

\* The one row an update changes.
LEMMA UpdateAfter ==
    ASSUME Ledger!Bounds, UInv, NEW r \in Clients, Ledger!Commit(r), ~Ledger!Refused(doing[r]), doing[r].kind = "update"
    PROVE  LET t == Ledger!Only(doing[r].txns)
           IN  /\ t \in TxnIds /\ Ledger!Found(doing[r]) = {t} /\ Ledger!TheTxn(doing[r], t) = txn[t] /\ txn[t] \in Ledger!TxnRecords
               /\ txn'[t] = [txn[t] EXCEPT !.account = doing[r].to, !.amount = doing[r].amount]
               /\ txn'[t].origin = txn[t].origin /\ txn'[t].account = doing[r].to /\ txn'[t].amount = doing[r].amount
               /\ \A u \in TxnIds : u # t => txn'[u] = txn[u]
               /\ doing[r].to \in Accounts /\ doing[r].amount \in Int
               /\ txn[t].account # doing[r].to => ~account[doing[r].to].linked
<1> DEFINE j == doing[r]  t == Ledger!Only(j.txns)
<1>1. /\ t \in TxnIds /\ Ledger!Found(j) = {t} /\ Ledger!TheTxn(j, t) = txn[t] /\ txn[t] \in Ledger!TxnRecords
      /\ txn[t].account # j.to => Ledger!Known(j, Ledger!AccountRow(j.to))
    BY CommitDoes, UpdateHas DEF UInv
<1>2. j.adds = {} /\ j.amount \in Int /\ j.to \in Accounts /\ \A u \in TxnIds : txn'[u] = Ledger!TxnAfter(j, u)
    BY RowsAfter DEF Asked, Jobs, UInv
<1>3. txn'[t] = [txn[t] EXCEPT !.account = j.to, !.amount = j.amount]
    <2>1. Ledger!TxnAfter(j, t) = [txn[t] EXCEPT !.account = j.to, !.amount = j.amount]
        BY <1>1, AfterIs
    <2> QED
        BY <1>1, <1>2, <2>1
<1>4. txn'[t].origin = txn[t].origin /\ txn'[t].account = j.to /\ txn'[t].amount = j.amount
    BY <1>1, <1>3 DEF Ledger!TxnRecords
<1>5. ASSUME NEW u \in TxnIds, u # t PROVE txn'[u] = txn[u]
    <2>1. u \notin j.adds \cup Ledger!Found(j)
        BY <1>1, <1>2, <1>5
    <2>2. Ledger!TxnAfter(j, u) = txn[u]
        BY <2>1, AfterIs
    <2> QED
        BY <1>2, <2>2
<1>6. ASSUME txn[t].account # j.to PROVE ~account[j.to].linked
    <2>1. Ledger!Known(j, Ledger!AccountRow(j.to)) /\ Ledger!TheAccount(j, j.to) = account[j.to]
        BY <1>1, <1>2, <1>6, HeldAccount DEF UInv, IInv
    <2>2. Ledger!TheTxn(j, t) # NotYet
        BY <1>1 DEF Ledger!Bounds
    <2>3. Ledger!Writable(Ledger!TheAccount(j, j.to))
        BY <1>1, <1>6, <2>2 DEF Ledger!Refused
    <2>4. Ledger!TheAccount(j, j.to) # NotYet
        BY <2>1 DEF Ledger!Known, Ledger!TheAccount
    <2> QED
        BY <2>1, <2>3, <2>4 DEF Ledger!Writable
<1> QED
    BY <1>1, <1>2, <1>3, <1>4, <1>5, <1>6

LEMMA CommitOnlyAtHome ==
    ASSUME Ledger!Bounds, UInv, NEW r \in Clients, Ledger!Commit(r), ~Ledger!Refused(doing[r])
    PROVE  OnlyAtHome'
<1> DEFINE j == doing[r]
<1> SUFFICES ASSUME NEW i \in Imports, AtHome(i)', NEW a \in Accounts, account'[a].linked,
                    NEW t \in TxnIds, txn'[t].origin = i, txn'[t].account = a
             PROVE  FALSE
    BY DEF OnlyAtHome, Left, Ledger!In, Ledger!Of
<1>1. account[a].linked /\ a \in KeptByBank
    BY BalanceMoves DEF UInv, IInv, Traced, HomesKept
<1>2. CASE j.kind = "import" /\ i = j.to
    <2>1. import'[i] = [account |-> j.of, total |-> Ledger!Total(j), change |-> Ledger!ImportChange(j)] /\ Ledger!Of(i) = {}
        BY <1>2, ImportsAfter
    <2>2. j.of \notin KeptByBank
        BY <2>1 DEF AtHome
    <2>3. CASE t \in j.adds
        <3>1. txn'[t].account = j.of
            BY <2>3, AddsAre
        <3> QED
            BY <1>1, <2>2, <3>1
    <2>4. CASE t \notin j.adds
        <3>1. txn'[t] = Ledger!TxnAfter(j, t) /\ Ledger!TxnAfter(j, t) = txn[t]
            <4>1. Ledger!TxnAfter(j, t) = txn[t]
                BY <1>2, <2>4, AfterIs
            <4> QED
                BY <4>1, RowsAfter DEF UInv
        <3> QED
            BY <2>1, <3>1 DEF Ledger!Of
    <2> QED
        BY <2>3, <2>4
<1>3. CASE ~(j.kind = "import" /\ i = j.to)
    <2>1. import'[i] = import[i] /\ AtHome(i)
        BY <1>3, ImportsAfter DEF AtHome
    <2>2. t \notin j.adds
        BY <1>3, AddsAre
    <2>3. ~(txn[t].origin = i /\ txn[t].account = a)
        BY <1>1, <2>1 DEF UInv, Traced, OnlyAtHome, Left, Ledger!In, Ledger!Of
    <2>4. i # Unset /\ i # "hand"
        BY DEF Ledger!Bounds
    <2>5. txn[t].origin = i /\ j.kind = "update"
        BY <2>2, <2>3, <2>4, OthersAfter DEF Ledger!NoTxn
    <2>6. t = Ledger!Only(j.txns) /\ j.to = a /\ txn[t].account # j.to
        BY <2>3, <2>5, UpdateAfter
    <2>7. ~account[j.to].linked
        BY <2>5, <2>6, UpdateAfter
    <2> QED
        BY <1>1, <2>6, <2>7
<1> QED
    BY <1>2, <1>3

\* How far a commit moves a balance.
LEMMA MovesAre ==
    ASSUME Ledger!Bounds, UInv, NEW r \in Clients, Ledger!Commit(r), ~Ledger!Refused(doing[r]), NEW a \in Accounts
    PROVE  Ledger!BalanceAfter(doing[r], a) - account[a].balance = IF account[a].linked THEN 0 ELSE Ledger!Change(doing[r], a)
<1> DEFINE j == doing[r]
<1>1. account[a].balance \in Int
    BY DEF UInv, IInv, Types, Ledger!AccountRecords
<1>2. Ledger!Change(j, a) \in Int /\ (~Ledger!Known(j, Ledger!AccountRow(a)) => Ledger!Change(j, a) = 0)
    BY CommitDoes, ChangeType DEF UInv
<1>3. Ledger!Known(j, Ledger!AccountRow(a)) => Ledger!TheAccount(j, a) = account[a]
    BY HeldAccount DEF UInv, IInv
<1>4. CASE ~Ledger!Known(j, Ledger!AccountRow(a)) \/ Ledger!TheAccount(j, a).linked \/ Ledger!Change(j, a) = 0
    <2>1. Ledger!BalanceAfter(j, a) = account[a].balance
        BY <1>4 DEF Ledger!BalanceAfter
    <2>2. account[a].linked \/ Ledger!Change(j, a) = 0
        BY <1>2, <1>3, <1>4
    <2> QED
        BY <1>1, <2>1, <2>2
<1>5. CASE ~(~Ledger!Known(j, Ledger!AccountRow(a)) \/ Ledger!TheAccount(j, a).linked \/ Ledger!Change(j, a) = 0)
    <2>1. Ledger!BalanceAfter(j, a) = account[a].balance + Ledger!Change(j, a) /\ ~account[a].linked
        BY <1>3, <1>5 DEF Ledger!BalanceAfter
    <2> QED
        BY <1>1, <1>2, <2>1
<1> QED
    BY <1>4, <1>5

LEMMA ImportMoved ==
    ASSUME Ledger!Bounds, UInv, NEW r \in Clients, Ledger!Commit(r), ~Ledger!Refused(doing[r]), doing[r].kind = "import",
           NEW i \in Imports, i = doing[r].to, AtHome(i)', NEW a \in Accounts
    PROVE  moved'[i][a] = LeftMakes(i, a)' + (IF a = import'[i].account THEN Ledger!HomeChange'[i] ELSE 0)
<1> DEFINE j == doing[r]
<1>1. /\ j.of \in Accounts /\ import[i] = Ledger!NoImport /\ Ledger!Of(i) = {}
      /\ import'[i] = [account |-> j.of, total |-> Ledger!Total(j), change |-> Ledger!ImportChange(j)]
      /\ moved'[i][a] = IF import'[i] = Ledger!NoImport THEN 0 ELSE moved[i][a] + Ledger!MovedBy(j, i, a)
    BY ImportsAfter
<1>2. /\ import'[i].account = j.of /\ Ledger!HomeChange'[i] = Ledger!ImportChange(j) - Ledger!Total(j)
      /\ Ledger!Total(j) \in Int /\ Ledger!ImportChange(j) \in Int
    <2>1. Ledger!Total(j) \in Int /\ Ledger!ImportChange(j) \in Int
        BY CommitDoes, ImportType DEF UInv
    <2> QED
        BY <1>1, <2>1 DEF Ledger!HomeChange
<1>3. import'[i] # Ledger!NoImport /\ ~account[j.of].linked
    BY <1>1, <1>2 DEF AtHome, UInv, Traced, HomesKept
<1>4. moved'[i][a] = IF a = j.of THEN Ledger!ImportChange(j) ELSE 0
    <2>1. moved[i][a] = 0
        BY <1>1 DEF UInv, Traced, NotMoved
    <2>2. Ledger!MovedBy(j, i, a) = Ledger!BalanceAfter(j, a) - account[a].balance
        BY DEF Ledger!MovedBy
    <2>3. Ledger!Change(j, a) = IF a = j.of THEN Ledger!ImportChange(j) ELSE 0
        BY DEF Ledger!Change
    <2>4. Ledger!MovedBy(j, i, a) = IF a = j.of THEN Ledger!ImportChange(j) ELSE 0
        BY <1>3, <2>2, <2>3, MovesAre
    <2> QED
        BY <1>1, <1>2, <1>3, <2>1, <2>4
<1>5. \A t \in TxnIds : /\ t \in j.adds => txn'[t].origin = i /\ txn'[t].account = j.of /\ txn'[t].amount = j.amount
                        /\ t \notin j.adds => txn'[t].origin # i
    <2>1. ASSUME NEW t \in TxnIds, t \notin j.adds PROVE txn'[t].origin # i
        <3>1. txn'[t] = Ledger!TxnAfter(j, t) /\ Ledger!TxnAfter(j, t) = txn[t]
            <4>1. Ledger!TxnAfter(j, t) = txn[t]
                BY <2>1, AfterIs
            <4> QED
                BY <4>1, RowsAfter DEF UInv
        <3> QED
            BY <1>1, <3>1 DEF Ledger!Of
    <2>2. ASSUME NEW t \in doing[r].adds
          PROVE  txn'[t].origin = i /\ txn'[t].account = doing[r].of /\ txn'[t].amount = doing[r].amount
        <3> HIDE DEF j
        <3>1. /\ txn'[t].origin = i <=> doing[r].kind = "import" /\ i = doing[r].to
              /\ txn'[t].account = doing[r].of /\ txn'[t].amount = doing[r].amount
            BY AddsAre
        <3> QED
            BY <3>1
    <2> QED
        BY <2>1, <2>2
<1>6. j.adds \in SUBSET TxnIds /\ j.amount \in Int
    BY RowsAfter DEF UInv, Jobs
<1>7. LeftMakes(i, a)' = IF a = j.of THEN Ledger!Total(j) ELSE 0
    <2>1. Left(i, a)' = IF a = j.of THEN j.adds ELSE {}
        BY <1>5, <1>6 DEF Left, Ledger!In, Ledger!Of
    <2>2. \A t \in j.adds : Ledger!Amount'[t] = j.amount
        BY <1>5, <1>6 DEF Ledger!Amount
    <2>3. IsFiniteSet(j.adds)
        BY <1>6, SumsMake DEF UInv, IInv
    <2>4. Ledger!Sum(Ledger!Amount', j.adds) = Cardinality(j.adds) * j.amount
        BY <1>6, <2>2, <2>3, SumEqual, SumIs
    <2>5. Ledger!Sum(Ledger!Amount', {}) = 0
        BY SumEmpty, SumIs
    <2> QED
        BY <2>1, <2>4, <2>5, TotalIs DEF LeftMakes
<1> QED
    BY <1>2, <1>4, <1>7

LEMMA MovedType ==
    ASSUME Ledger!Bounds, UInv, NEW r \in Clients, Ledger!Commit(r), ~Ledger!Refused(doing[r]), doing[r].kind \in {"update", "delete"},
           NEW i \in Imports, NEW a \in Accounts
    PROVE  Ledger!MovedBy(doing[r], i, a) \in Int
<1> DEFINE j == doing[r]  taken == {t \in Ledger!Found(j) : Ledger!TheTxn(j, t).origin = i /\ Ledger!TheTxn(j, t).account = a}
           h == [t \in taken |-> Ledger!TheTxn(j, t).amount]
<1>1. CASE j.kind = "delete"
    <2>1. taken \in SUBSET TxnIds /\ \A t \in taken : Ledger!TheTxn(j, t) = txn[t] /\ txn[t] \in Ledger!TxnRecords
        BY RowsAfter DEF UInv, Ledger!Found
    <2>2. IsFiniteSet(taken) /\ \A t \in taken : h[t] \in Int
        BY <2>1, SumsMake DEF UInv, IInv, Ledger!TxnRecords, Ledger!Bounds
    <2>3. Ledger!Sum(h, taken) \in Int
        BY <2>2, SumType, SumIs
    <2>4. Ledger!MovedBy(j, i, a) \in {-Ledger!Sum(h, taken), 0}
        BY <1>1 DEF Ledger!MovedBy
    <2> QED
        BY <2>3, <2>4
<1>2. CASE j.kind = "update"
    <2>1. Ledger!MovedBy(j, i, a) \in {Ledger!BalanceAfter(j, a) - account[a].balance, 0}
        BY <1>2 DEF Ledger!MovedBy
    <2>2. Ledger!Change(j, a) \in Int
        BY CommitDoes, ChangeType DEF UInv
    <2> QED
        BY <2>1, <2>2, MovesAre
<1> QED
    BY <1>1, <1>2

\* What a delete takes out of an import's rows.
LEMMA DeleteMoved ==
    ASSUME Ledger!Bounds, UInv, NEW r \in Clients, Ledger!Commit(r), ~Ledger!Refused(doing[r]), doing[r].kind = "delete",
           NEW i \in Imports, AtHome(i), NEW a \in Accounts
    PROVE  LeftMakes(i, a)' = LeftMakes(i, a) + Ledger!MovedBy(doing[r], i, a)
<1> DEFINE j == doing[r]  f == Ledger!Amount  g == Ledger!Amount'  S == Left(i, a)  T == Left(i, a)'  gone == Ledger!Found(j) \cap Left(i, a)
<1>0. j.adds = {} /\ i # Unset
    BY RowsAfter DEF Asked, UInv, Ledger!Bounds
<1>1. \A t \in TxnIds : txn'[t] = IF t \in Ledger!Found(j) THEN Ledger!NoTxn ELSE txn[t]
    <2> SUFFICES ASSUME NEW t \in TxnIds PROVE txn'[t] = IF t \in Ledger!Found(j) THEN Ledger!NoTxn ELSE txn[t]
        OBVIOUS
    <2>1. txn'[t] = Ledger!TxnAfter(j, t)
        BY RowsAfter DEF UInv
    <2>2. t \in Ledger!Found(j) => Ledger!TxnAfter(j, t) = Ledger!NoTxn
        BY AfterIs
    <2>3. t \notin Ledger!Found(j) => Ledger!TxnAfter(j, t) = txn[t]
        BY <1>0, AfterIs
    <2> QED
        BY <2>1, <2>2, <2>3
<1>2. T = S \ gone /\ gone \subseteq S
    BY <1>0, <1>1 DEF Left, Ledger!In, Ledger!Of, Ledger!NoTxn
<1>3. /\ IsFiniteSet(S) /\ IsFiniteSet(gone) /\ Ledger!Sum(f, S) \in Int /\ Ledger!Sum(f, gone) \in Int
      /\ \A t \in S : f[t] \in Int
      /\ \A t \in S \ gone : g[t] = f[t]
    <2>1. S \in SUBSET TxnIds /\ gone \in SUBSET TxnIds
        BY DEF Left, Ledger!In
    <2> QED
        BY <1>1, <2>1, SumsMake DEF Ledger!Amount, UInv, IInv
<1>4. LeftMakes(i, a) = Ledger!Sum(f, S) /\ LeftMakes(i, a)' = Ledger!Sum(g, T)
    BY DEF LeftMakes
<1>5. Ledger!MovedBy(j, i, a) = -Ledger!Sum(f, gone)
    <2>1. CASE account[a].linked
        <3>1. gone = {}
            BY <2>1 DEF UInv, Traced, OnlyAtHome
        <3>2. Ledger!MovedBy(j, i, a) = 0
            BY <2>1 DEF Ledger!MovedBy
        <3>3. Ledger!Sum(f, {}) = 0
            BY SumEmpty, SumIs
        <3> QED
            BY <3>1, <3>2, <3>3
    <2>2. CASE ~account[a].linked
        <3> DEFINE taken == {t \in Ledger!Found(j) : Ledger!TheTxn(j, t).origin = i /\ Ledger!TheTxn(j, t).account = a}
                   h == [t \in taken |-> Ledger!TheTxn(j, t).amount]
        <3>1. Ledger!MovedBy(j, i, a) = -Ledger!Sum(h, taken)
            BY <2>2 DEF Ledger!MovedBy
        <3>2. taken = gone /\ \A t \in gone : Ledger!TheTxn(j, t) = txn[t] /\ t \in TxnIds
            BY RowsAfter DEF Left, Ledger!In, Ledger!Of, UInv
        <3>3. \A t \in taken : f[t] = h[t]
            BY <3>2 DEF Ledger!Amount
        <3> HIDE DEF h, f, taken, gone
        <3>4. Ledger!Sum(f, taken) = Ledger!Sum(h, taken)
            BY <1>3, <3>2, <3>3, SumSame, SumIs
        <3> QED
            BY <3>1, <3>2, <3>4
    <2> QED
        BY <2>1, <2>2
<1> HIDE DEF f, g, S, T, gone
<1>6. Ledger!Sum(g, S \ gone) = Ledger!Sum(f, S) - Ledger!Sum(f, gone)
    BY <1>2, <1>3, SumShrinks
<1> QED
    BY <1>2, <1>3, <1>4, <1>5, <1>6

\* What an update moves of an import's row.
LEMMA UpdateMoved ==
    ASSUME Ledger!Bounds, UInv, NEW r \in Clients, Ledger!Commit(r), ~Ledger!Refused(doing[r]), doing[r].kind = "update",
           NEW i \in Imports, AtHome(i), AtHome(i)', NEW a \in Accounts
    PROVE  LeftMakes(i, a)' = LeftMakes(i, a) + Ledger!MovedBy(doing[r], i, a)
<1> DEFINE j == doing[r]  t == Ledger!Only(j.txns)  old == txn[t]
           f == Ledger!Amount  g == Ledger!Amount'  S == Left(i, a)  T == Left(i, a)'
<1>1. /\ t \in TxnIds /\ Ledger!Found(j) = {t} /\ Ledger!TheTxn(j, t) = old
      /\ old.account \in Accounts /\ old.amount \in Int
      /\ txn'[t].origin = old.origin /\ txn'[t].account = j.to /\ txn'[t].amount = j.amount
      /\ \A u \in TxnIds : u # t => txn'[u] = txn[u]
      /\ j.amount \in Int
    BY UpdateAfter DEF Ledger!TxnRecords, Ledger!Bounds
<1>2. Ledger!Sum(f, S) \in Int /\ Ledger!Sum(f, S) = LeftMakes(i, a) /\ Ledger!Sum(g, T) = LeftMakes(i, a)'
    BY LeftTypes DEF LeftMakes, UInv, IInv
<1>3. CASE old.origin # i
    <2>1. Ledger!MovedBy(j, i, a) = 0
        BY <1>1, <1>3 DEF Ledger!MovedBy
    <2>2. LeftMakes(i, a)' = LeftMakes(i, a)
        BY <1>1, <1>3, LeftStays DEF UInv, IInv
    <2> QED
        BY <1>2, <2>1, <2>2
<1>4. CASE old.origin = i /\ account[a].linked
    <2>1. Ledger!MovedBy(j, i, a) = 0
        <3>1. Ledger!MovedBy(j, i, a) = Ledger!BalanceAfter(j, a) - account[a].balance
            BY <1>1, <1>4 DEF Ledger!MovedBy
        <3> QED
            BY <1>4, <3>1, MovesAre
    <2>2. S = {} /\ T = {}
        BY <1>4, CommitOnlyAtHome, BalanceMoves DEF UInv, Traced, OnlyAtHome, IInv
    <2>3. Ledger!Sum(f, {}) = 0 /\ Ledger!Sum(g, {}) = 0
        BY SumEmpty, SumIs
    <2> QED
        BY <1>2, <2>1, <2>2, <2>3
<1>5. CASE old.origin = i /\ ~account[a].linked
    <2>1. Ledger!MovedBy(j, i, a) = (IF a = j.to THEN j.amount ELSE 0) - (IF a = old.account THEN old.amount ELSE 0)
        <3>1. Ledger!MovedBy(j, i, a) = Ledger!BalanceAfter(j, a) - account[a].balance
            BY <1>1, <1>5 DEF Ledger!MovedBy
        <3>2. Ledger!Change(j, a) = Ledger!UpdateChange(j, a)
            BY DEF Ledger!Change
        <3>3. Ledger!UpdateChange(j, a) = IF old.account # j.to
                                     THEN (IF a = j.to THEN j.amount ELSE 0) - (IF a = old.account THEN old.amount ELSE 0)
                                     ELSE IF a = old.account THEN j.amount - old.amount ELSE 0
            BY <1>1 DEF Ledger!UpdateChange
        <3>4. Ledger!MovedBy(j, i, a) = Ledger!UpdateChange(j, a)
            BY <1>5, <3>1, <3>2, MovesAre
        <3> HIDE DEF old
        <3> QED
            BY <1>1, <3>3, <3>4
    <2>2. /\ IsFiniteSet(S)
          /\ \A u \in S : f[u] \in Int /\ (u # t => g[u] = f[u])
          /\ f[t] = old.amount /\ g[t] = j.amount
        BY <1>1, LeftTypes DEF UInv, IInv, Ledger!Amount
    <2>3. /\ t \in S <=> a = old.account
          /\ T = IF a = j.to THEN S \cup {t} ELSE S \ {t}
        BY <1>1, <1>5 DEF Left, Ledger!In, Ledger!Of
    <2> HIDE DEF f, g, S, T, old, t
    <2>4. /\ T = S \cup {t} \/ T = S \ {t}
          /\ f[t] \in Int /\ g[t] \in Int
          /\ \A u \in S : f[u] \in Int
          /\ \A u \in S : u # t => g[u] = f[u]
        BY <1>1, <2>2, <2>3
    <2>5. Ledger!Sum(g, T) = Ledger!Sum(f, S) - (IF t \in S THEN f[t] ELSE 0) + (IF t \in T THEN g[t] ELSE 0)
        BY <2>2, <2>4, SumOfOne
    <2> QED
        BY <1>1, <1>2, <2>1, <2>2, <2>3, <2>5
<1> QED
    BY <1>3, <1>4, <1>5

\* Other commits leave the rows of an import that stays alone.
LEMMA RestMoved ==
    ASSUME Ledger!Bounds, UInv, NEW r \in Clients, Ledger!Commit(r), ~Ledger!Refused(doing[r]), doing[r].kind \notin {"update", "delete"},
           NEW i \in Imports, ~(doing[r].kind = "import" /\ i = doing[r].to), import[i] # Ledger!NoImport, import'[i] # Ledger!NoImport,
           NEW a \in Accounts, account'[a].exists
    PROVE  LeftMakes(i, a)' = LeftMakes(i, a) /\ Ledger!MovedBy(doing[r], i, a) = 0
<1> DEFINE j == doing[r]
<1>1. Ledger!MovedBy(j, i, a) = 0
    BY DEF Ledger!MovedBy
<1>2. /\ Ledger!Ready(r) /\ j.kind \in Ledger!Kinds /\ import'[i] = Ledger!ImportAfter(j, i)
      /\ i # Unset /\ i # "hand" /\ Ledger!NoTxn.origin = Unset /\ Ledger!NoTxn.account # a
    BY CommitDoes, RowsAfter DEF UInv, Ledger!Bounds, Ledger!NoTxn
<1>3. ASSUME NEW t \in TxnIds
      PROVE  \/ txn'[t] = txn[t]
             \/ ~(txn[t].origin = i /\ txn[t].account = a) /\ ~(txn'[t].origin = i /\ txn'[t].account = a)
    <2>0. txn'[t] = Ledger!TxnAfter(j, t) /\ (t \in Ledger!Found(j) => txn[t] \in Ledger!TxnRecords)
        BY RowsAfter DEF UInv
    <2>1. CASE t \in j.adds
        <3>1. txn[t].origin # i
            BY <2>1, AddsAre
        <3>2. txn'[t].origin = i <=> j.kind = "import" /\ i = j.to
            BY <2>1, AddsAre
        <3> QED
            BY <3>1, <3>2
    <2>2. CASE t \notin j.adds /\ t \notin Ledger!Found(j)
        BY <2>0, <2>2, AfterIs
    <2>3. CASE t \notin j.adds /\ j.kind \in {"idle", "create", "import", "set"}
        BY <2>0, <2>3, AfterIs
    <2>4. CASE t \in Ledger!Found(j) /\ j.kind = "undo"
        <3>1. txn[t].origin = j.of
            BY <1>2, <2>4, UndoHas DEF Ledger!Of
        <3>2. i # j.of
            BY <1>2, <2>4 DEF Ledger!ImportAfter
        <3>3. Ledger!TxnAfter(j, t) = Ledger!NoTxn
            BY <2>4, AfterIs
        <3> QED
            BY <1>2, <2>0, <3>1, <3>2, <3>3
    <2>5. CASE t \in Ledger!Found(j) /\ t \notin j.adds /\ j.kind = "remove"
        <3>1. a # j.of
            BY <2>5, BalanceMoves DEF UInv
        <3>2. i \notin Ledger!ImportsOf(j.of)
            <4>1. ~(Ledger!Known(j, Ledger!ImportRow(i)) /\ import[i].account = j.of)
                BY <1>2, <2>5 DEF Ledger!ImportAfter
            <4> QED
                BY <1>2, <2>5, <4>1, RemoveHas DEF Ledger!ImportsOf
        <3>3. CASE txn[t].account = j.of
            <4>1. Ledger!TxnAfter(j, t) = Ledger!NoTxn
                BY <2>5, <3>3, AfterIs
            <4> QED
                BY <1>2, <2>0, <3>1, <3>3, <4>1
        <3>4. CASE txn[t].account # j.of /\ txn[t].origin \in Ledger!ImportsOf(j.of)
            <4>1. Ledger!TxnAfter(j, t) = [txn[t] EXCEPT !.origin = "hand"]
                BY <2>5, <3>4 DEF Ledger!TxnAfter
            <4> QED
                BY <1>2, <2>0, <2>5, <3>2, <3>4, <4>1 DEF Ledger!TxnRecords
        <3>5. CASE txn[t].account # j.of /\ txn[t].origin \notin Ledger!ImportsOf(j.of)
            <4>1. Ledger!TxnAfter(j, t) = txn[t]
                BY <2>5, <3>5 DEF Ledger!TxnAfter
            <4> QED
                BY <2>0, <4>1
        <3> QED
            BY <3>3, <3>4, <3>5
    <2> QED
        BY <1>2, <2>1, <2>2, <2>3, <2>4, <2>5 DEF Ledger!Kinds
<1>4. LeftMakes(i, a)' = LeftMakes(i, a)
    BY <1>3, LeftStays DEF UInv, IInv
<1> QED
    BY <1>1, <1>4

LEMMA CommitMoved ==
    ASSUME Ledger!Bounds, UInv, NEW r \in Clients, Ledger!Commit(r), ~Ledger!Refused(doing[r])
    PROVE  MovedIs' /\ NotMoved'
<1> DEFINE j == doing[r]
<1>1. NotMoved'
    BY ImportsAfter DEF NotMoved, Ledger!NoImport
<1>2. ASSUME NEW i \in Imports, AtHome(i)', NEW a \in Accounts, account'[a].exists
      PROVE  moved'[i][a] = LeftMakes(i, a)' + (IF a = import'[i].account THEN Ledger!HomeChange'[i] ELSE 0)
    <2>1. CASE j.kind = "import" /\ i = j.to
        BY <1>2, <2>1, ImportMoved
    <2>2. CASE ~(j.kind = "import" /\ i = j.to)
        <3>1. import'[i] = import[i] /\ import[i] # Ledger!NoImport /\ AtHome(i) /\ Ledger!HomeChange'[i] = Ledger!HomeChange[i]
            <4>1. import'[i] \in {import[i], Ledger!NoImport}
                BY <2>2, ImportsAfter
            <4>2. import'[i] # Ledger!NoImport /\ import'[i].account \notin KeptByBank
                BY <1>2 DEF AtHome, Ledger!NoImport
            <4> QED
                BY <4>1, <4>2 DEF AtHome, Ledger!HomeChange
        <3>2. moved'[i][a] = moved[i][a] + Ledger!MovedBy(j, i, a)
            BY <3>1, ImportsAfter
        <3>3. account[a].exists
            BY <1>2, BalanceMoves DEF UInv
        <3>4. moved[i][a] = LeftMakes(i, a) + (IF a = import[i].account THEN Ledger!HomeChange[i] ELSE 0)
            BY <3>1, <3>3 DEF UInv, Traced, MovedIs
        <3>5. LeftMakes(i, a) \in Int /\ Ledger!HomeChange[i] \in Int
            BY LeftTypes, SumsMake DEF UInv, IInv
        <3>6. LeftMakes(i, a)' = LeftMakes(i, a) + Ledger!MovedBy(j, i, a) /\ Ledger!MovedBy(j, i, a) \in Int
            <4>1. CASE j.kind = "delete"
                <5>1. LeftMakes(i, a)' = LeftMakes(i, a) + Ledger!MovedBy(j, i, a)
                    BY <3>1, <4>1, DeleteMoved
                <5> QED
                    BY <5>1, <4>1, MovedType
            <4>2. CASE j.kind = "update"
                <5>1. LeftMakes(i, a)' = LeftMakes(i, a) + Ledger!MovedBy(j, i, a)
                    BY <1>2, <3>1, <4>2, UpdateMoved
                <5> QED
                    BY <5>1, <4>2, MovedType
            <4>3. CASE j.kind \notin {"update", "delete"}
                BY <1>2, <2>2, <3>1, <3>5, <4>3, RestMoved
            <4> QED
                BY <4>1, <4>2, <4>3
        <3> QED
            BY <3>1, <3>2, <3>4, <3>5, <3>6
    <2> QED
        BY <2>1, <2>2
<1>3. MovedIs'
    BY <1>2 DEF MovedIs, AtHome, Ledger!NoImport
<1> QED
    BY <1>1, <1>3

LEMMA CommitTraced ==
    ASSUME Ledger!Bounds, UInv, NEW r \in Clients, Ledger!Commit(r)
    PROVE  Lookups' /\ Traced'
<1>1. CASE Ledger!Refused(doing[r])
    BY <1>1, EndTraced DEF Ledger!Commit
<1>2. CASE ~Ledger!Refused(doing[r])
    BY <1>2, CommitLookups, CommitOrigins, CommitOnlyAtHome, CommitMoved DEF Traced
<1> QED
    BY <1>1, <1>2

LEMMA InitTraced == ASSUME Ledger!Bounds, Ledger!Init PROVE UInv
<1>1. IInv
    BY InitHolds
<1>2. Lookups
    BY IdleType DEF Ledger!Init, Lookups, UndoReads, Seen, Ledger!Idle
<1>3. Traced
    <2>1. Ledger!NoTxn.origin \notin Imports
        BY DEF Ledger!NoTxn, Ledger!Bounds
    <2>2. HomesKept /\ OriginsExist
        BY <2>1 DEF Ledger!Init, HomesKept, OriginsExist
    <2>3. OnlyAtHome /\ MovedIs /\ NotMoved
        BY DEF Ledger!Init, OnlyAtHome, MovedIs, NotMoved, AtHome
    <2> QED
        BY <2>2, <2>3 DEF Traced
<1> QED
    BY <1>1, <1>2, <1>3 DEF UInv

LEMMA NextTraced == ASSUME Ledger!Bounds, UInv, [Ledger!Next]_Ledger!vars PROVE UInv'
<1>1. IInv'
    BY NextKeeps DEF UInv
<1>2. ASSUME NEW r \in Clients, Ledger!Ask(r) \/ Ledger!Want(r) \/ Ledger!Take(r) \/ Ledger!Look(r) \/ Ledger!Commit(r) \/ Ledger!RollBack(r)
      PROVE  Lookups' /\ Traced'
    <2>1. CASE Ledger!RollBack(r)
        BY <2>1, EndTraced DEF Ledger!RollBack
    <2> QED
        BY <1>2, <2>1, AskTraced, WantTraced, TakeTraced, LookTraced, CommitTraced
<1>3. ASSUME NEW a \in Accounts, Ledger!BankReports(a) \/ Ledger!BankLeaves(a) \/ Ledger!CloseOrOpen(a)
      PROVE  Lookups' /\ Traced'
    BY <1>3, BankTraced
<1>4. CASE UNCHANGED Ledger!vars
    <2>1. UNCHANGED <<account, txn, import, doing, moved>>
        BY <1>4 DEF Ledger!vars
    <2>2. Lookups'
        BY <2>1, LookupsApart DEF UInv
    <2>3. UNCHANGED <<account, txn, import, moved>>
        BY <2>1
    <2> QED
        BY <1>1, <2>2, <2>3, TracedStays DEF UInv
<1>5. CASE \E r \in Clients : Ledger!Ask(r) \/ Ledger!Want(r) \/ Ledger!Take(r) \/ Ledger!Look(r) \/ Ledger!Commit(r) \/ Ledger!RollBack(r)
    BY <1>1, <1>2, <1>5 DEF UInv
<1>6. CASE \E a \in Accounts : Ledger!BankReports(a) \/ Ledger!BankLeaves(a) \/ Ledger!CloseOrOpen(a)
    BY <1>1, <1>3, <1>6 DEF UInv
<1> QED
    BY <1>4, <1>5, <1>6 DEF Ledger!Next

\* An import only goes by its undoing, unless its account goes with it.
LEMMA OnlyUndone ==
    ASSUME Ledger!Bounds, UInv, [Ledger!Next]_Ledger!vars, NEW i \in Imports, Ledger!Undone(i)
    PROVE  \E r \in Clients : Ledger!Commit(r) /\ ~Ledger!Refused(doing[r]) /\ doing[r].kind = "undo" /\ i = doing[r].of
<1>1. PICK r \in Clients : Ledger!Commit(r) /\ ~Ledger!Refused(doing[r])
    <2>1. import' # import
        BY DEF Ledger!Undone
    <2>2. ASSUME NEW r \in Clients, Ledger!Ask(r) \/ Ledger!Want(r) \/ Ledger!Take(r) \/ Ledger!Look(r) \/ Ledger!RollBack(r) PROVE FALSE
        <3>1. ~Ledger!Ask(r)
            BY <2>1 DEF Ledger!Ask, Ledger!AskCreate, Ledger!AskUpdate, Ledger!AskDelete, Ledger!AskImport, Ledger!AskUndo, Ledger!AskSet, Ledger!AskRemove, Ledger!Begin
        <3> QED
            BY <2>1, <2>2, <3>1 DEF Ledger!Want, Ledger!Take, Ledger!Look, Ledger!RollBack
    <2>3. ASSUME NEW a \in Accounts, Ledger!BankReports(a) \/ Ledger!BankLeaves(a) \/ Ledger!CloseOrOpen(a) PROVE FALSE
        BY <2>1, <2>3 DEF Ledger!BankReports, Ledger!BankLeaves, Ledger!CloseOrOpen
    <2>4. ASSUME NEW r \in Clients, Ledger!Commit(r), Ledger!Refused(doing[r]) PROVE FALSE
        BY <2>1, <2>4 DEF Ledger!Commit
    <2>5. \E r \in Clients : Ledger!Commit(r)
        BY <2>1, <2>2, <2>3 DEF Ledger!Next, Ledger!vars
    <2> QED
        BY <2>4, <2>5
<1> DEFINE j == doing[r]
<1>2. import'[i] = Ledger!ImportAfter(j, i) /\ import[i] # Ledger!NoImport
    BY <1>1, RowsAfter DEF UInv, Ledger!Undone
<1>3. ~(j.kind = "import" /\ i = j.to)
    BY <1>1, <1>2, ImportsAfter
<1>4. \/ j.kind = "undo" /\ i = j.of
      \/ j.kind = "remove" /\ import[i].account = j.of
    BY <1>2, <1>3 DEF Ledger!ImportAfter, Ledger!Undone
<1>5. ~(j.kind = "remove" /\ import[i].account = j.of)
    <2>1. import[i].account \in Accounts
        BY <1>2 DEF UInv, IInv, Types, Ledger!ImportRecords
    <2> QED
        BY <1>1, <2>1, BalanceMoves DEF UInv, Ledger!Undone
<1> QED
    BY <1>1, <1>4, <1>5

\* Undoing an import into an account that no bank ever kept takes out of each
\* balance the household keeps just what is still in it on account of the
\* import, wherever its transactions have been moved since (undo in
\* imports/service.py).
THEOREM UndosPutBack == Ledger!Bounds => (Ledger!Spec => UndoPutsBackAtHome)
<1>1. ASSUME Ledger!Bounds PROVE Ledger!Spec => UndoPutsBackAtHome
    <2>1. Ledger!Init => UInv
        BY <1>1, InitTraced
    <2>2. UInv /\ [Ledger!Next]_Ledger!vars => UInv'
        BY <1>1, NextTraced
    <2>3. ASSUME UInv, [Ledger!Next]_Ledger!vars
          PROVE  \A i \in Imports : Ledger!Undone(i) /\ import[i].account \notin KeptByBank => Ledger!TakenBack(i)
        <3> SUFFICES ASSUME NEW i \in Imports, Ledger!Undone(i), import[i].account \notin KeptByBank,
                            NEW a \in Accounts, account[a].exists, ~account[a].linked
                     PROVE  account'[a].balance = account[a].balance - moved[i][a]
            BY DEF Ledger!TakenBack
        <3>1. PICK r \in Clients : Ledger!Commit(r) /\ ~Ledger!Refused(doing[r]) /\ doing[r].kind = "undo" /\ i = doing[r].of
            BY <1>1, <2>3, OnlyUndone
        <3>2. /\ import[i] # Ledger!NoImport
              /\ Ledger!Change(doing[r], a) = -(LeftMakes(i, a) + (IF a = import[i].account THEN Ledger!HomeChange[i] ELSE 0))
            BY <1>1, <2>3, <3>1, UndoHas DEF Ledger!Commit
        <3>3. moved[i][a] = LeftMakes(i, a) + (IF a = import[i].account THEN Ledger!HomeChange[i] ELSE 0)
            BY <2>3, <3>2 DEF UInv, Traced, MovedIs, AtHome
        <3>4. account'[a].balance = Ledger!BalanceAfter(doing[r], a)
            <4>1. account'[a] = [account[a] EXCEPT !.balance = Ledger!BalanceAfter(doing[r], a)]
                BY <3>1, CommitDoes
            <4>2. account[a] \in Ledger!AccountRecords
                BY <2>3 DEF UInv, IInv, Types
            <4> QED
                BY <4>1, <4>2 DEF Ledger!AccountRecords
        <3>5. Ledger!BalanceAfter(doing[r], a) - account[a].balance = Ledger!Change(doing[r], a)
            BY <1>1, <2>3, <3>1, MovesAre
        <3>6. /\ Ledger!BalanceAfter(doing[r], a) \in Int /\ account[a].balance \in Int
              /\ LeftMakes(i, a) \in Int /\ Ledger!HomeChange[i] \in Int
            <4>1. account'[a] \in Ledger!AccountRecords /\ account[a] \in Ledger!AccountRecords
                BY <1>1, <2>3, <3>1, BalanceMoves DEF UInv, IInv, Types
            <4> QED
                BY <1>1, <2>3, <3>4, <4>1, LeftTypes, SumsMake DEF UInv, IInv, Ledger!AccountRecords
        <3> QED
            BY <3>2, <3>3, <3>4, <3>5, <3>6
    <2> QED
        BY <2>1, <2>2, <2>3, PTL DEF Ledger!Spec, UndoPutsBackAtHome, Ledger!UndoPutsBackAtHome
<1> QED
    BY <1>1

Connecting == {"asking", "refusing", "connecting"}

\* What a request that is connecting a bank may rely on.
Making(r) ==
    LET i == asking[r].item IN
    /\ i \in Link!Items /\ item[i].state = "billed" /\ ~link[i].there
    /\ \A q \in Clients \ {r} : asking[q].pc \in Connecting => asking[q].item # i
    /\ asking[r].pc = "connecting" => \A j \in asking[r].saw :
             /\ item[j].state # "none"
             /\ \A q \in Clients : asking[q].pc \in Connecting => asking[q].item # j
             /\ Link!SameBank(i, j) => item[i].shares \cap link[j].accounts \subseteq later[j]

\* What a request that is removing one relies on: the row's lock.
Removing(r) ==
    /\ link[asking[r].item].there
    /\ \A q \in Clients \ {r} : asking[q].pc \in {"removing", "deleting"} => asking[q].item # asking[r].item

Typed == Link!TypeOK /\ \A r \in Clients : asking[r].pc # "idle" => asking[r].item \in Link!Items

Facts ==
    /\ \A i \in Link!Connected : item[i].state # "none"
    /\ \A r \in Clients : asking[r].pc \in Connecting => Making(r)
    /\ \A r \in Clients : asking[r].pc \in {"removing", "deleting"} => Removing(r)
    /\ Link!BilledOnce

LinkInv == Typed /\ Facts

-----------------------------------------------------------------------------
LEMMA LinkInit == Link!Init => LinkInv /\ Link!NothingLeftBehind /\ Link!NewAwaits
<1> SUFFICES ASSUME Link!Init PROVE LinkInv /\ Link!NothingLeftBehind /\ Link!NewAwaits OBVIOUS
<1>1. Link!NoItem \in Link!Item /\ Link!NoConnection \in Link!Connection /\ Link!Idle \in Link!Request
  BY DEF Link!NoItem, Link!Item, Link!NoConnection, Link!Connection, Link!Idle, Link!Request
<1>2. Typed BY <1>1 DEF Link!Init, Link!TypeOK, Typed, Link!Idle
<1>3. Link!Connected = {} BY DEF Link!Init, Link!Connected, Link!NoConnection
<1>4. \A r \in Clients : asking[r].pc \notin Connecting BY DEF Link!Init, Link!Idle, Connecting
<1>6. \A r \in Clients : asking[r].pc \notin {"removing", "deleting"} BY DEF Link!Init, Link!Idle
<1>5. Link!NothingLeftBehind BY DEF Link!NothingLeftBehind, Link!Init, Link!NoItem
<1> QED BY <1>2, <1>3, <1>4, <1>5, <1>6 DEF LinkInv, Facts, Link!BilledOnce, Link!NewAwaits

LEMMA RequestNext ==
  ASSUME Typed, NEW r \in Clients, NEW stage \in {"asking", "refusing", "connecting", "removing", "deleting"},
         NEW i \in Link!Items, NEW saw \in SUBSET Link!Items
  PROVE  /\ Link!Set(r, stage, i, saw) => /\ asking' \in [Clients -> Link!Request]
                                          /\ \A q \in Clients : asking'[q].pc # "idle" => asking'[q].item \in Link!Items
         /\ Link!Done(r) => /\ asking' \in [Clients -> Link!Request]
                            /\ \A q \in Clients : asking'[q].pc # "idle" => asking'[q].item \in Link!Items
<1>1. asking \in [Clients -> Link!Request] /\ \A q \in Clients : asking[q].pc # "idle" => asking[q].item \in Link!Items
  BY DEF Typed, Link!TypeOK
<1>2. [pc |-> stage, item |-> i, saw |-> saw] \in Link!Request /\ Link!Idle \in Link!Request /\ Link!Idle.pc = "idle"
  BY DEF Link!Request, Link!Idle
<1> QED
  BY <1>1, <1>2 DEF Link!Set, Link!Done

LEMMA LinkTypes == ASSUME Typed, [Link!Next]_Link!vars PROVE Typed'
<1> USE DEF Typed, Link!TypeOK
<1>1. ASSUME NEW r \in Clients, NEW i \in Link!Items, NEW login \in Logins, NEW sharing \in SUBSET Link!AllAccounts,
             Link!Exchange(r, i, login, sharing)
      PROVE Typed'
  <2>1. [state |-> "billed", login |-> login, shares |-> sharing] \in Link!Item BY DEF Link!Item
  <2>2. item' \in [Link!Items -> Link!Item] /\ UNCHANGED <<link, beside, later>> BY <1>1, <2>1 DEF Link!Exchange
  <2>3. CASE Link!Set(r, "asking", i, {}) /\ UNCHANGED left
    BY <2>2, <2>3, RequestNext
  <2>4. CASE left' = left \cup {i} /\ UNCHANGED asking
    BY <2>2, <2>4
  <2> QED BY <1>1, <2>3, <2>4 DEF Link!Exchange
<1>2. ASSUME NEW r \in Clients, Link!Check(r) PROVE Typed'
  <2>1. asking[r].item \in Link!Items /\ Link!Connected \in SUBSET Link!Items BY <1>2 DEF Link!Check, Link!Connected
  <2>2. \/ Link!Set(r, "refusing", asking[r].item, {}) \/ Link!Set(r, "connecting", asking[r].item, Link!Connected)
    BY <1>2 DEF Link!Check
  <2>3. UNCHANGED <<item, link, left, beside, later>> BY <1>2 DEF Link!Check
  <2> QED BY <2>1, <2>2, <2>3, RequestNext
<1>3. ASSUME NEW r \in Clients, Link!Forget(r) PROVE Typed'
  <2>1. asking[r].item \in Link!Items BY <1>3 DEF Link!Forget
  <2>2. item' \in [Link!Items -> Link!Item] /\ left' \subseteq Link!Items
    BY <1>3, <2>1 DEF Link!Forget, Link!BilledAfter, Link!Item
  <2>3. Link!Done(r) /\ UNCHANGED <<link, beside, later>> BY <1>3 DEF Link!Forget
  <2> QED BY <2>1, <2>2, <2>3, RequestNext
<1>4. ASSUME NEW r \in Clients, Link!Connect(r) PROVE Typed'
  <2>1. asking[r].item \in Link!Items BY <1>4 DEF Link!Connect
  <2>2. [Link!NoConnection EXCEPT !.there = TRUE, !.accounts = item[asking[r].item].shares] \in Link!Connection
    BY <2>1 DEF Link!NoConnection, Link!Connection, Link!Item
  <2>3. link' \in [Link!Items -> Link!Connection] BY <1>4, <2>1, <2>2 DEF Link!Connect
  <2>4. beside' \in [Link!Items -> SUBSET Link!Items] BY <1>4, <2>1 DEF Link!Connect, Link!Connected
  <2>5. Link!Done(r) /\ UNCHANGED <<item, left, later>> BY <1>4 DEF Link!Connect
  <2> QED BY <2>1, <2>3, <2>4, <2>5, RequestNext
<1>5. ASSUME NEW r \in Clients, NEW i \in Link!Items, Link!Disconnect(r, i) PROVE Typed'
  <2>1. Link!Set(r, "removing", i, {}) /\ UNCHANGED <<item, link, left, beside, later>> BY <1>5 DEF Link!Disconnect
  <2> QED BY <2>1, RequestNext
<1>6. ASSUME NEW r \in Clients, Link!RemoveAtPlaid(r) PROVE Typed'
  <2>1. asking[r].item \in Link!Items BY <1>6 DEF Link!RemoveAtPlaid
  <2>2. item' \in [Link!Items -> Link!Item]
    <3>1. [item[asking[r].item] EXCEPT !.state = "removed"] \in Link!Item BY <2>1 DEF Link!Item
    <3>2. \/ item' = [item EXCEPT ![asking[r].item] = [@ EXCEPT !.state = "removed"]] \/ item' = item
      BY <1>6 DEF Link!RemoveAtPlaid
    <3> QED BY <2>1, <3>1, <3>2
  <2>3. (Link!Set(r, "deleting", asking[r].item, {}) \/ Link!Done(r)) /\ UNCHANGED <<link, left, beside, later>>
    BY <1>6 DEF Link!RemoveAtPlaid
  <2> QED BY <2>1, <2>2, <2>3, RequestNext
<1>7. ASSUME NEW r \in Clients, Link!Disconnected(r) PROVE Typed'
  <2>1. asking[r].item \in Link!Items BY <1>7 DEF Link!Disconnected
  <2>2. link' \in [Link!Items -> Link!Connection] BY <1>7 DEF Link!Disconnected, Link!NoConnection, Link!Connection
  <2>3. left' \subseteq Link!Items BY <1>7, <2>1 DEF Link!Disconnected
  <2>4. Link!Done(r) /\ UNCHANGED <<item, beside, later>> BY <1>7 DEF Link!Disconnected
  <2> QED BY <2>1, <2>2, <2>3, <2>4, RequestNext
<1>8. ASSUME NEW r \in Clients, Link!Die(r) PROVE Typed'
  <2>1. asking[r].item \in Link!Items BY <1>8 DEF Link!Die
  <2>2. left' \subseteq Link!Items BY <1>8, <2>1 DEF Link!Die
  <2>3. Link!Done(r) /\ UNCHANGED <<item, link, beside, later>> BY <1>8 DEF Link!Die
  <2> QED BY <2>1, <2>2, <2>3, RequestNext
<1>9. ASSUME NEW i \in Link!Items, NEW sharing \in SUBSET Link!AllAccounts, Link!ChooseAccounts(i, sharing) \/ Link!Reshare(i, sharing)
      PROVE Typed'
  <2>1. CASE Link!ChooseAccounts(i, sharing)
    <3>1. link[i].accounts \subseteq Link!AllAccounts /\ link[i].linked \subseteq Link!AllAccounts BY DEF Link!Connection
    <3>2. link' \in [Link!Items -> Link!Connection] BY <2>1, <3>1 DEF Link!ChooseAccounts, Link!Becomes, Link!Connection
    <3> QED BY <2>1, <3>2 DEF Link!ChooseAccounts
  <2>2. CASE Link!Reshare(i, sharing) BY <2>2 DEF Link!Reshare, Link!Item
  <2> QED BY <1>9, <2>1, <2>2
<1>10. ASSUME NEW i \in Link!Items, NEW a \in Link!AllAccounts, Link!DeleteAccount(i, a) PROVE Typed'
  <2>1. link[i] \in Link!Connection BY DEF Link!Connection
  <2>2. link' \in [Link!Items -> Link!Connection]
    BY <1>10, <2>1 DEF Link!DeleteAccount, Link!Becomes, Link!SkippedWith, Link!Connection
  <2> QED BY <1>10, <2>2 DEF Link!DeleteAccount
<1>11. ASSUME NEW i \in Link!Items, Link!Refresh(i) PROVE Typed'
  <2>1. item[i].shares \subseteq Link!AllAccounts BY DEF Link!Item
  <2>2. link' \in [Link!Items -> Link!Connection]
    <3>1. link[i] \in Link!Connection BY DEF Link!Connection
    <3> QED BY <1>11, <2>1, <3>1 DEF Link!Refresh, Link!Becomes, Link!Connection
  <2>3. later' \in [Link!Items -> SUBSET Link!AllAccounts] BY <1>11, <2>1 DEF Link!Refresh
  <2> QED BY <1>11, <2>2, <2>3 DEF Link!Refresh
<1>12. CASE UNCHANGED Link!vars BY <1>12 DEF Link!vars
<1> QED
  BY <1>1, <1>2, <1>3, <1>4, <1>5, <1>6, <1>7, <1>8, <1>9, <1>10, <1>11, <1>12 DEF Link!Next

-----------------------------------------------------------------------------
(* What is billed for is kept, being made, or left.                         *)

LEMMA NothingLeftStep == ASSUME Typed, Link!NothingLeftBehind, [Link!Next]_Link!vars PROVE Link!NothingLeftBehind'
<1> DEFINE Kept(k) == \/ link[k].there \/ k \in left
                      \/ \E q \in Clients : asking[q].item = k /\ asking[q].pc \in Connecting
<1> SUFFICES ASSUME NEW k \in Link!Items, item'[k].state = "billed" PROVE Kept(k)'
  BY DEF Link!NothingLeftBehind, Connecting
<1>0. item[k].state = "billed" => Kept(k) BY DEF Link!NothingLeftBehind, Connecting
<1> USE DEF Typed, Link!TypeOK, Connecting
<1>1. ASSUME NEW r \in Clients, NEW i \in Link!Items, NEW login \in Logins, NEW sharing \in SUBSET Link!AllAccounts,
             Link!Exchange(r, i, login, sharing)
      PROVE  Kept(k)'
  BY <1>0, <1>1 DEF Link!Exchange, Link!Set
<1>2. ASSUME NEW r \in Clients, Link!Check(r) PROVE Kept(k)'
  BY <1>0, <1>2 DEF Link!Check, Link!Set
<1>3. ASSUME NEW r \in Clients, Link!Forget(r) PROVE Kept(k)'
  <2>1. CASE k = asking[r].item
    <3>1. k \in left' \/ item' = [item EXCEPT ![k].state = "removed"]
      BY <1>3, <2>1 DEF Link!Forget, Link!BilledAfter
    <3>2. item' = [item EXCEPT ![k].state = "removed"] => item'[k].state = "removed"
      BY DEF Link!Item
    <3> QED BY <3>1, <3>2
  <2>2. CASE k # asking[r].item
    BY <1>0, <1>3, <2>2 DEF Link!Forget, Link!Done
  <2> QED BY <2>1, <2>2
<1>4. ASSUME NEW r \in Clients, Link!Connect(r) PROVE Kept(k)'
  BY <1>0, <1>4 DEF Link!Connect, Link!Done, Link!NoConnection
<1>5. ASSUME NEW r \in Clients, NEW i \in Link!Items, Link!Disconnect(r, i) PROVE Kept(k)'
  BY <1>0, <1>5 DEF Link!Disconnect, Link!Set
<1>6. ASSUME NEW r \in Clients, Link!RemoveAtPlaid(r) PROVE Kept(k)'
  <2>1. item[k].state = "billed" BY <1>6 DEF Link!RemoveAtPlaid, Link!Item
  <2>2. \A q \in Clients \ {r} : asking'[q] = asking[q] BY <1>6 DEF Link!RemoveAtPlaid, Link!Set, Link!Done
  <2> QED BY <1>0, <1>6, <2>1, <2>2 DEF Link!RemoveAtPlaid
<1>7. ASSUME NEW r \in Clients, Link!Disconnected(r) PROVE Kept(k)'
  BY <1>0, <1>7 DEF Link!Disconnected, Link!Done
<1>8. ASSUME NEW r \in Clients, Link!Die(r) PROVE Kept(k)'
  BY <1>0, <1>8 DEF Link!Die, Link!Done
<1>9. ASSUME NEW i \in Link!Items, NEW sharing \in SUBSET Link!AllAccounts, Link!ChooseAccounts(i, sharing) \/ Link!Reshare(i, sharing)
      PROVE Kept(k)'
  <2>1. CASE Link!ChooseAccounts(i, sharing) BY <1>0, <2>1 DEF Link!ChooseAccounts, Link!Becomes, Link!Connection
  <2>2. CASE Link!Reshare(i, sharing) BY <1>0, <2>2 DEF Link!Reshare, Link!Item
  <2> QED BY <1>9, <2>1, <2>2
<1>10. ASSUME NEW i \in Link!Items, NEW a \in Link!AllAccounts, Link!DeleteAccount(i, a) PROVE Kept(k)'
  BY <1>0, <1>10 DEF Link!DeleteAccount, Link!Becomes, Link!Connection
<1>11. ASSUME NEW i \in Link!Items, Link!Refresh(i) PROVE Kept(k)'
  BY <1>0, <1>11 DEF Link!Refresh, Link!Becomes, Link!Connection
<1>12. CASE UNCHANGED Link!vars BY <1>0, <1>12 DEF Link!vars
<1> QED
  BY <1>1, <1>2, <1>3, <1>4, <1>5, <1>6, <1>7, <1>8, <1>9, <1>10, <1>11, <1>12 DEF Link!Next

-----------------------------------------------------------------------------
(* What somebody decided about isn't new.                                   *)

Answered(i) == link[i].there => link[i].decided \subseteq link[i].linked \cup link[i].skipped

LEMMA NewIsUndecided == ASSUME Typed PROVE Link!NewAwaits <=> \A i \in Link!Items : Answered(i)
BY DEF Link!NewAwaits, Link!Listed, Link!Connected, Answered, Typed, Link!TypeOK, Link!Connection

LEMMA NewAwaitsStep == ASSUME Typed, Link!NewAwaits, [Link!Next]_Link!vars PROVE Link!NewAwaits'
<1>1. Typed' BY LinkTypes
<1>2. Link!NewAwaits' <=> \A i \in Link!Items : Answered(i)'
  BY <1>1 DEF Link!NewAwaits, Link!Listed, Link!Connected, Answered, Typed, Link!TypeOK, Link!Connection
<1>3. \A i \in Link!Items : Answered(i) BY NewIsUndecided
<1> SUFFICES \A k \in Link!Items : Answered(k)' BY <1>2
<1> USE <1>3 DEF Typed, Link!TypeOK, Answered
<1>4. ASSUME NEW r \in Clients,
             \/ \E i \in Link!Items, login \in Logins, sharing \in SUBSET Link!AllAccounts : Link!Exchange(r, i, login, sharing)
             \/ Link!Check(r) \/ Link!Forget(r) \/ \E i \in Link!Items : Link!Disconnect(r, i)
             \/ Link!RemoveAtPlaid(r) \/ Link!Die(r)
      PROVE  \A k \in Link!Items : Answered(k)'
  <2>1. UNCHANGED link BY <1>4 DEF Link!Exchange, Link!Check, Link!Forget, Link!Disconnect, Link!RemoveAtPlaid, Link!Die
  <2> QED BY <2>1
<1>5. ASSUME NEW r \in Clients, Link!Connect(r) \/ Link!Disconnected(r) PROVE \A k \in Link!Items : Answered(k)'
  <2>1. PICK i \in Link!Items : link' = [link EXCEPT ![i] = link'[i]] /\ link'[i].decided = {}
    <3>1. asking[r].item \in Link!Items BY <1>5 DEF Link!Connect, Link!Disconnected
    <3>2. CASE Link!Connect(r) BY <3>1, <3>2 DEF Link!Connect, Link!NoConnection
    <3>3. CASE Link!Disconnected(r) BY <3>1, <3>3 DEF Link!Disconnected, Link!NoConnection
    <3> QED BY <1>5, <3>2, <3>3
  <2> QED BY <2>1
<1>6. ASSUME NEW i \in Link!Items, NEW sharing \in SUBSET Link!AllAccounts, Link!ChooseAccounts(i, sharing) \/ Link!Reshare(i, sharing)
      PROVE  \A k \in Link!Items : Answered(k)'
  BY <1>6 DEF Link!ChooseAccounts, Link!Becomes, Link!Reshare
<1>7. ASSUME NEW i \in Link!Items, NEW a \in Link!AllAccounts, Link!DeleteAccount(i, a) PROVE \A k \in Link!Items : Answered(k)'
  BY <1>7 DEF Link!DeleteAccount, Link!Becomes, Link!SkippedWith
<1>8. ASSUME NEW i \in Link!Items, Link!Refresh(i) PROVE \A k \in Link!Items : Answered(k)'
  BY <1>8 DEF Link!Refresh, Link!Becomes
<1>9. CASE UNCHANGED Link!vars BY <1>9 DEF Link!vars
<1> QED BY <1>4, <1>5, <1>6, <1>7, <1>8, <1>9 DEF Link!Next

-----------------------------------------------------------------------------
(* No account is billed for twice.                                          *)

LEMMA SameBankNext ==
  ASSUME NEW i \in Link!Items, NEW j \in Link!Items, item'[i].login = item[i].login, item'[j].login = item[j].login
  PROVE  Link!SameBank(i, j)' <=> Link!SameBank(i, j)
BY DEF Link!SameBank

LEMMA StepExchange ==
  ASSUME LinkInv, NEW r \in Clients, NEW i \in Link!Items, NEW login \in Logins, NEW sharing \in SUBSET Link!AllAccounts,
         Link!Exchange(r, i, login, sharing)
  PROVE  Facts'
<1> USE DEF Typed, Link!TypeOK, LinkInv, Facts
<1>1. /\ \A j \in Link!Items \ {i} : item'[j] = item[j]
      /\ item'[i].state = "billed" /\ item'[i].shares = sharing
      /\ \A q \in Clients \ {r} : asking'[q] = asking[q]
      /\ UNCHANGED <<link, beside, later>> /\ item[i].state = "none" /\ asking[r].pc = "idle"
  BY DEF Link!Exchange, Link!Set
<1>2. i \notin Link!Connected /\ Link!Connected' = Link!Connected /\ Link!Connected \subseteq Link!Items
  BY <1>1 DEF Link!Connected
<1>3. \A q \in Clients : asking[q].pc \in Connecting => asking[q].item # i BY <1>1 DEF Making
<1>4. asking'[r].pc \in Connecting => asking'[r].pc = "asking" /\ asking'[r].item = i
  BY <1>1 DEF Link!Exchange, Link!Set, Connecting
<1>5. ASSUME NEW q \in Clients, asking'[q].pc \in Connecting PROVE Making(q)'
  <2>1. CASE q = r
    BY <1>1, <1>2, <1>3, <1>4, <1>5, <2>1 DEF Making, Link!Connected, Connecting
  <2>2. CASE q # r
    <3>1. Making(q) /\ asking'[q] = asking[q] /\ asking[q].item # i BY <1>1, <1>3, <1>5, <2>2
    <3>2. \A p \in Clients \ {q} : asking'[p].pc \in Connecting => asking'[p].item # asking[q].item
      BY <1>1, <1>4, <3>1 DEF Making
    <3>3. ASSUME asking[q].pc = "connecting", NEW j \in asking[q].saw
          PROVE  /\ item'[j].state # "none"
                 /\ \A p \in Clients : asking'[p].pc \in Connecting => asking'[p].item # j
                 /\ Link!SameBank(asking[q].item, j)' => item'[asking[q].item].shares \cap link'[j].accounts \subseteq later'[j]
      <4>1. j \in Link!Items BY <3>3 DEF Link!Request
      <4>2. j # i BY <1>1, <3>1, <3>3 DEF Making
      <4>3. asking[q].item \in Link!Items BY <3>1 DEF Making
      <4>4. Link!SameBank(asking[q].item, j)' <=> Link!SameBank(asking[q].item, j)
        BY <1>1, <3>1, <4>1, <4>2, <4>3 DEF Link!SameBank
      <4> QED BY <1>1, <1>4, <3>1, <3>3, <4>1, <4>2, <4>3, <4>4 DEF Making
    <3> QED BY <1>1, <1>2, <3>1, <3>2, <3>3 DEF Making
  <2> QED BY <2>1, <2>2
<1>6. ASSUME NEW q \in Clients, asking'[q].pc \in {"removing", "deleting"} PROVE Removing(q)'
  BY <1>1, <1>4, <1>6 DEF Removing, Link!Exchange, Link!Set
<1>7. Link!BilledOnce'
  <2>1. ASSUME NEW j \in Link!Connected, NEW k \in Link!Connected PROVE Link!SameBank(j, k)' <=> Link!SameBank(j, k)
    BY <1>1, <1>2, <2>1 DEF Link!SameBank
  <2> QED BY <1>1, <1>2, <2>1 DEF Link!BilledOnce
<1> QED BY <1>1, <1>2, <1>5, <1>6, <1>7 DEF Facts

\* What a step has to leave alone for the facts to go on holding.
Quietly ==
    /\ \A j \in Link!Items : /\ item'[j].login = item[j].login
                             /\ ~link[j].there => item'[j].shares = item[j].shares
                             /\ item[j].state # "none" => item'[j].state # "none"
                             /\ link'[j].there => link[j].there
                             /\ link'[j].accounts \subseteq link[j].accounts
    /\ \A q \in Clients : asking'[q].pc \in Connecting =>
          /\ asking[q].pc \in Connecting /\ asking'[q].item = asking[q].item
          /\ asking'[q].pc = "connecting" => asking'[q] = asking[q]
          /\ item'[asking[q].item].state = "billed"
    /\ UNCHANGED <<beside, later>>

LEMMA QuietStep ==
  ASSUME LinkInv, Quietly
  PROVE  /\ \A j \in Link!Connected' : item'[j].state # "none"
         /\ \A q \in Clients : asking'[q].pc \in Connecting => Making(q)'
         /\ Link!BilledOnce'
<1> USE DEF Typed, Link!TypeOK, LinkInv, Facts, Quietly
<1>1. Link!Connected' \subseteq Link!Connected /\ Link!Connected \subseteq Link!Items BY DEF Link!Connected
<1>2. ASSUME NEW j \in Link!Items, NEW k \in Link!Items PROVE Link!SameBank(j, k)' <=> Link!SameBank(j, k)
  BY SameBankNext
<1>3. ASSUME NEW q \in Clients, asking'[q].pc \in Connecting PROVE Making(q)'
  <2> DEFINE i == asking[q].item
  <2>1. Making(q) /\ asking'[q].item = i /\ i \in Link!Items /\ item'[i].state = "billed" /\ ~link'[i].there
    BY <1>3 DEF Making
  <2>2. \A p \in Clients \ {q} : asking'[p].pc \in Connecting => asking'[p].item # i
    BY <2>1 DEF Making
  <2>3. ASSUME asking'[q].pc = "connecting", NEW j \in asking'[q].saw
        PROVE  /\ item'[j].state # "none"
               /\ \A p \in Clients : asking'[p].pc \in Connecting => asking'[p].item # j
               /\ Link!SameBank(i, j)' => item'[i].shares \cap link'[j].accounts \subseteq later'[j]
    <3>1. asking'[q] = asking[q] /\ j \in asking[q].saw /\ j \in Link!Items BY <1>3, <2>3 DEF Link!Request
    <3>2. item'[i].shares = item[i].shares BY <2>1 DEF Making
    <3>3. Link!SameBank(i, j)' <=> Link!SameBank(i, j) BY <1>2, <2>1, <3>1
    <3>4. item[j].state # "none" /\ (\A p \in Clients : asking[p].pc \in Connecting => asking[p].item # j)
      BY <2>1, <2>3, <3>1 DEF Making
    <3>5. Link!SameBank(i, j) => item[i].shares \cap link[j].accounts \subseteq later[j]
      BY <2>1, <2>3, <3>1 DEF Making
    <3>6. link'[j].accounts \subseteq link[j].accounts BY <3>1
    <3> QED BY <3>1, <3>2, <3>3, <3>4, <3>5, <3>6
  <2> QED BY <2>1, <2>2, <2>3 DEF Making
<1>4. Link!BilledOnce'
  <2> SUFFICES ASSUME NEW j \in Link!Connected', NEW k \in Link!Connected', j # k, Link!SameBank(j, k)'
               PROVE  \/ k \in beside[j] \/ j \in beside[k]
                      \/ link'[j].accounts \cap link'[k].accounts \subseteq later[j] \cup later[k]
    BY DEF Link!BilledOnce
  <2>1. j \in Link!Connected /\ k \in Link!Connected /\ j \in Link!Items /\ k \in Link!Items BY <1>1
  <2>2. Link!SameBank(j, k) BY <1>2, <2>1
  <2>3. link'[j].accounts \subseteq link[j].accounts /\ link'[k].accounts \subseteq link[k].accounts BY <2>1
  <2> QED BY <2>1, <2>2, <2>3 DEF Link!BilledOnce
<1> QED BY <1>1, <1>3, <1>4

LEMMA StepQuietly ==
  ASSUME LinkInv,
         \/ \E r \in Clients : \/ Link!Forget(r) \/ \E i \in Link!Items : Link!Disconnect(r, i)
                              \/ Link!RemoveAtPlaid(r) \/ Link!Disconnected(r) \/ Link!Die(r)
         \/ \E i \in Link!Items : \/ \E sharing \in SUBSET Link!AllAccounts : Link!ChooseAccounts(i, sharing) \/ Link!Reshare(i, sharing)
                                 \/ \E a \in Link!AllAccounts : Link!DeleteAccount(i, a)
         \/ UNCHANGED Link!vars
  PROVE  Facts'
<1> USE DEF Typed, Link!TypeOK, LinkInv, Facts
<1> SUFFICES Quietly /\ \A q \in Clients : asking'[q].pc \in {"removing", "deleting"} => Removing(q)'
  BY QuietStep
<1>1. ASSUME NEW r \in Clients, Link!Forget(r)
      PROVE  Quietly /\ \A q \in Clients : asking'[q].pc \in {"removing", "deleting"} => Removing(q)'
  <2>1. Making(r) /\ asking[r].item \in Link!Items BY <1>1 DEF Link!Forget, Connecting, Making
  <2>2. \A j \in Link!Items : /\ item'[j].login = item[j].login /\ item'[j].shares = item[j].shares
                              /\ item[j].state # "none" => item'[j].state # "none"
                              /\ j # asking[r].item => item'[j] = item[j]
    BY <1>1, <2>1 DEF Link!Forget, Link!BilledAfter, Link!Item
  <2>3. \A q \in Clients \ {r} : asking'[q] = asking[q] BY <1>1 DEF Link!Forget, Link!Done
  <2>4. asking'[r].pc = "idle" BY <1>1 DEF Link!Forget, Link!Done, Link!Idle
  <2>5. UNCHANGED <<link, beside, later>> BY <1>1 DEF Link!Forget
  <2>6. ASSUME NEW q \in Clients, asking'[q].pc \in Connecting
        PROVE  asking'[q] = asking[q] /\ item'[asking[q].item].state = "billed"
    BY <2>1, <2>2, <2>3, <2>4, <2>6 DEF Making, Connecting
  <2>7. Quietly BY <2>2, <2>5, <2>6 DEF Quietly
  <2> QED BY <2>3, <2>4, <2>5, <2>7 DEF Removing
<1>2. ASSUME NEW r \in Clients, NEW i \in Link!Items, Link!Disconnect(r, i)
      PROVE  Quietly /\ \A q \in Clients : asking'[q].pc \in {"removing", "deleting"} => Removing(q)'
  <2>1. UNCHANGED <<item, link, beside, later>> /\ link[i].there /\ ~Link!Locked(i) BY <1>2 DEF Link!Disconnect
  <2>2. asking'[r].pc = "removing" /\ asking'[r].item = i /\ \A q \in Clients \ {r} : asking'[q] = asking[q]
    BY <1>2 DEF Link!Disconnect, Link!Set
  <2>3. Quietly BY <2>1, <2>2 DEF Quietly, Connecting, Making
  <2> QED BY <2>1, <2>2, <2>3 DEF Removing, Link!Locked
<1>3. ASSUME NEW r \in Clients, Link!RemoveAtPlaid(r)
      PROVE  Quietly /\ \A q \in Clients : asking'[q].pc \in {"removing", "deleting"} => Removing(q)'
  <2>1. Removing(r) /\ asking[r].item \in Link!Items BY <1>3 DEF Link!RemoveAtPlaid
  <2>2. \A j \in Link!Items : /\ item'[j].login = item[j].login /\ item'[j].shares = item[j].shares
                              /\ item[j].state # "none" => item'[j].state # "none"
                              /\ j # asking[r].item => item'[j] = item[j]
    BY <1>3, <2>1 DEF Link!RemoveAtPlaid, Link!Item
  <2>3. UNCHANGED <<link, beside, later>> BY <1>3 DEF Link!RemoveAtPlaid
  <2>4. /\ \A q \in Clients \ {r} : asking'[q] = asking[q]
        /\ asking'[r].pc \in {"idle", "deleting"}
        /\ asking'[r].pc = "deleting" => asking'[r].item = asking[r].item
    BY <1>3 DEF Link!RemoveAtPlaid, Link!Set, Link!Done, Link!Idle
  <2>5. ASSUME NEW q \in Clients, asking'[q].pc \in Connecting
        PROVE  asking'[q] = asking[q] /\ item'[asking[q].item].state = "billed"
    <3>1. q # r /\ asking'[q] = asking[q] BY <2>4, <2>5 DEF Connecting
    <3>2. Making(q) BY <2>5, <3>1
    <3>3. asking[q].item # asking[r].item BY <2>1, <3>2 DEF Making, Removing
    <3> QED BY <2>2, <3>1, <3>2, <3>3 DEF Making
  <2>6. Quietly BY <2>2, <2>3, <2>5 DEF Quietly
  <2>7. ASSUME NEW q \in Clients, asking'[q].pc \in {"removing", "deleting"} PROVE Removing(q)'
    BY <1>3, <2>1, <2>3, <2>4, <2>7 DEF Removing, Link!RemoveAtPlaid
  <2> QED BY <2>6, <2>7
<1>4. ASSUME NEW r \in Clients, Link!Disconnected(r)
      PROVE  Quietly /\ \A q \in Clients : asking'[q].pc \in {"removing", "deleting"} => Removing(q)'
  <2>1. Removing(r) /\ asking[r].item \in Link!Items BY <1>4 DEF Link!Disconnected
  <2>2. /\ UNCHANGED <<item, beside, later>>
        /\ \A j \in Link!Items : /\ link'[j].there => link[j].there
                                 /\ link'[j].accounts \subseteq link[j].accounts
                                 /\ j # asking[r].item => link'[j] = link[j]
    BY <1>4, <2>1 DEF Link!Disconnected, Link!NoConnection
  <2>3. asking'[r].pc = "idle" /\ \A q \in Clients \ {r} : asking'[q] = asking[q]
    BY <1>4 DEF Link!Disconnected, Link!Done, Link!Idle
  <2>4. Quietly BY <2>2, <2>3 DEF Quietly, Connecting, Making
  <2> QED BY <1>4, <2>1, <2>2, <2>3, <2>4 DEF Removing, Link!Disconnected
<1>5. ASSUME NEW r \in Clients, Link!Die(r)
      PROVE  Quietly /\ \A q \in Clients : asking'[q].pc \in {"removing", "deleting"} => Removing(q)'
  <2>1. UNCHANGED <<item, link, beside, later>> BY <1>5 DEF Link!Die
  <2>2. asking'[r].pc = "idle" /\ \A q \in Clients \ {r} : asking'[q] = asking[q] BY <1>5 DEF Link!Die, Link!Done, Link!Idle
  <2>3. Quietly BY <2>1, <2>2 DEF Quietly, Connecting, Making
  <2> QED BY <2>1, <2>2, <2>3 DEF Removing
<1>6. ASSUME NEW i \in Link!Items, NEW sharing \in SUBSET Link!AllAccounts, Link!ChooseAccounts(i, sharing)
      PROVE  Quietly /\ \A q \in Clients : asking'[q].pc \in {"removing", "deleting"} => Removing(q)'
  <2>1. UNCHANGED <<item, asking, beside, later>> BY <1>6 DEF Link!ChooseAccounts
  <2>2. \A j \in Link!Items : link'[j].there = link[j].there /\ link'[j].accounts = link[j].accounts
    BY <1>6 DEF Link!ChooseAccounts, Link!Becomes, Link!Connection
  <2>3. Quietly BY <2>1, <2>2 DEF Quietly, Making
  <2> QED BY <2>1, <2>2, <2>3 DEF Removing, Link!Request
<1>7. ASSUME NEW i \in Link!Items, NEW a \in Link!AllAccounts, Link!DeleteAccount(i, a)
      PROVE  Quietly /\ \A q \in Clients : asking'[q].pc \in {"removing", "deleting"} => Removing(q)'
  <2>1. UNCHANGED <<item, asking, beside, later>> BY <1>7 DEF Link!DeleteAccount
  <2>2. \A j \in Link!Items : link'[j].there = link[j].there /\ link'[j].accounts = link[j].accounts
    BY <1>7 DEF Link!DeleteAccount, Link!Becomes, Link!Connection
  <2>3. Quietly BY <2>1, <2>2 DEF Quietly, Making
  <2> QED BY <2>1, <2>2, <2>3 DEF Removing
<1>8. ASSUME NEW i \in Link!Items, NEW sharing \in SUBSET Link!AllAccounts, Link!Reshare(i, sharing)
      PROVE  Quietly /\ \A q \in Clients : asking'[q].pc \in {"removing", "deleting"} => Removing(q)'
  <2>1. UNCHANGED <<link, asking, beside, later>> /\ link[i].there BY <1>8 DEF Link!Reshare
  <2>2. \A j \in Link!Items : /\ item'[j].login = item[j].login /\ item'[j].state = item[j].state
                              /\ j # i => item'[j] = item[j]
    BY <1>8 DEF Link!Reshare, Link!Item
  <2>3. Quietly BY <2>1, <2>2 DEF Quietly, Making
  <2> QED BY <2>1, <2>3 DEF Removing
<1>9. CASE UNCHANGED Link!vars
  <2>1. UNCHANGED <<item, link, asking, beside, later>> BY <1>9 DEF Link!vars
  <2>2. Quietly BY <2>1 DEF Quietly, Making
  <2> QED BY <2>1, <2>2 DEF Removing
<1> QED BY <1>1, <1>2, <1>3, <1>4, <1>5, <1>6, <1>7, <1>8, <1>9

LEMMA StepCheck == ASSUME LinkInv, NEW r \in Clients, Link!Check(r) PROVE Facts'
<1> USE DEF Typed, Link!TypeOK, LinkInv, Facts
<1>1. /\ UNCHANGED <<item, link, beside, later>> /\ \A q \in Clients \ {r} : asking'[q] = asking[q]
      /\ asking'[r].pc \in {"refusing", "connecting"} /\ asking'[r].item = asking[r].item
      /\ asking[r].pc \in Connecting /\ Making(r)
      /\ asking'[r].pc = "connecting" => Link!Duplicates(asking[r].item) = {} /\ asking'[r].saw = Link!Connected
  BY DEF Link!Check, Link!Set, Connecting
<1>2. Link!Connected' = Link!Connected /\ \A j, k \in Link!Items : Link!SameBank(j, k)' <=> Link!SameBank(j, k)
  BY <1>1 DEF Link!Connected, Link!SameBank
<1>3. \A q \in Clients : /\ asking'[q].pc \in Connecting <=> asking[q].pc \in Connecting
                         /\ asking'[q].item = asking[q].item
  BY <1>1 DEF Connecting
<1>4. ASSUME NEW q \in Clients, asking'[q].pc \in Connecting PROVE Making(q)'
  <2>1. Making(q) /\ asking[q].item \in Link!Items BY <1>3, <1>4 DEF Making
  <2>2. ASSUME asking'[q].pc = "connecting", NEW j \in asking'[q].saw
        PROVE  /\ item[j].state # "none"
               /\ \A p \in Clients : asking[p].pc \in Connecting => asking[p].item # j
               /\ Link!SameBank(asking[q].item, j) => item[asking[q].item].shares \cap link[j].accounts \subseteq later[j]
    <3>1. CASE q # r BY <1>1, <2>1, <2>2, <3>1 DEF Making
    <3>2. CASE q = r
      <4>1. j \in Link!Connected /\ j \notin Link!Duplicates(asking[r].item) BY <1>1, <2>2, <3>2
      <4>2. Link!SameBank(asking[r].item, j) => item[asking[r].item].shares \cap link[j].accounts = {}
        BY <4>1 DEF Link!Duplicates
      <4>3. \A p \in Clients : asking[p].pc \in Connecting => asking[p].item # j
        BY <4>1 DEF Making, Link!Connected
      <4> QED BY <3>2, <4>1, <4>2, <4>3
    <3> QED BY <3>1, <3>2
  <2>3. \A j \in asking'[q].saw : asking'[q].pc = "connecting" => j \in Link!Items
    BY <1>1, <2>1 DEF Link!Connected, Link!Request
  <2> QED BY <1>1, <1>2, <1>3, <2>1, <2>2, <2>3 DEF Making
<1>5. \A q \in Clients : asking'[q].pc \in {"removing", "deleting"} => Removing(q)'
  BY <1>1 DEF Removing
<1>6. Link!BilledOnce' BY <1>1, <1>2 DEF Link!BilledOnce, Link!Connected
<1> QED BY <1>1, <1>2, <1>4, <1>5, <1>6

LEMMA StepConnect == ASSUME LinkInv, NEW r \in Clients, Link!Connect(r) PROVE Facts'
<1> USE DEF Typed, Link!TypeOK, LinkInv, Facts
<1> DEFINE i == asking[r].item
<1>1. /\ Making(r) /\ i \in Link!Items /\ asking[r].pc = "connecting"
      /\ UNCHANGED <<item, later>> /\ \A q \in Clients \ {r} : asking'[q] = asking[q]
      /\ asking'[r].pc = "idle"
  BY DEF Link!Connect, Link!Done, Link!Idle, Making, Connecting
<1>2. /\ \A j \in Link!Items \ {i} : link'[j] = link[j] /\ beside'[j] = beside[j]
      /\ link'[i].there /\ link'[i].accounts = item[i].shares
      /\ beside'[i] = Link!Connected \ asking[r].saw
  BY <1>1 DEF Link!Connect, Link!NoConnection
<1>3. Link!Connected' = Link!Connected \cup {i} /\ i \notin Link!Connected /\ Link!Connected \subseteq Link!Items
  BY <1>1, <1>2 DEF Link!Connected, Making
<1>4. \A j, k \in Link!Items : Link!SameBank(j, k)' <=> Link!SameBank(j, k) BY <1>1 DEF Link!SameBank
<1>5. ASSUME NEW q \in Clients, asking'[q].pc \in Connecting PROVE Making(q)'
  <2>1. q # r /\ asking'[q] = asking[q] /\ Making(q) /\ asking[q].item \in Link!Items /\ asking[q].item # i
    BY <1>1, <1>5 DEF Making, Connecting
  <2>2. \A p \in Clients : asking'[p].pc \in Connecting => asking'[p] = asking[p] BY <1>1 DEF Connecting
  <2>3. ASSUME asking[q].pc = "connecting", NEW j \in asking[q].saw
        PROVE  j \in Link!Items /\ link'[j] = link[j]
    BY <1>1, <1>2, <2>1, <2>3 DEF Making, Link!Request, Connecting
  <2> QED BY <1>1, <1>2, <1>4, <2>1, <2>2, <2>3 DEF Making
<1>6. \A q \in Clients : asking'[q].pc \in {"removing", "deleting"} => Removing(q)'
  BY <1>1, <1>2 DEF Removing
<1>7. \A j \in Link!Connected' : item'[j].state # "none" BY <1>1, <1>3 DEF Making
<1>8. ASSUME NEW j \in Link!Connected, Link!SameBank(i, j)
      PROVE  j \in beside'[i] \/ link'[i].accounts \cap link'[j].accounts \subseteq later'[j]
  BY <1>1, <1>2, <1>3, <1>8 DEF Making
<1>9. Link!BilledOnce'
  <2> SUFFICES ASSUME NEW j \in Link!Connected', NEW k \in Link!Connected', j # k, Link!SameBank(j, k)'
               PROVE  \/ k \in beside'[j] \/ j \in beside'[k]
                      \/ link'[j].accounts \cap link'[k].accounts \subseteq later'[j] \cup later'[k]
    BY DEF Link!BilledOnce
  <2>1. Link!SameBank(j, k)
    <3>1. j \in Link!Items /\ k \in Link!Items BY <1>1, <1>3
    <3> QED BY <1>4, <3>1
  <2>2. CASE j = i
    <3>1. Link!SameBank(i, k) BY <2>1, <2>2 DEF Link!SameBank
    <3> QED BY <1>3, <1>8, <2>2, <3>1
  <2>3. CASE k = i
    <3>1. Link!SameBank(i, j) BY <2>1, <2>3 DEF Link!SameBank
    <3> QED BY <1>3, <1>8, <2>3, <3>1
  <2>4. CASE j # i /\ k # i BY <1>1, <1>2, <1>3, <2>1, <2>4 DEF Link!BilledOnce
  <2> QED BY <2>2, <2>3, <2>4
<1> QED BY <1>5, <1>6, <1>7, <1>9

LEMMA StepRefresh == ASSUME LinkInv, NEW i \in Link!Items, Link!Refresh(i) PROVE Facts'
<1> USE DEF Typed, Link!TypeOK, LinkInv, Facts
<1>1. /\ UNCHANGED <<item, asking, beside>> /\ link[i].there
      /\ \A j \in Link!Items \ {i} : link'[j] = link[j] /\ later'[j] = later[j]
      /\ link'[i].there /\ link'[i].accounts = item[i].shares
      /\ later'[i] = later[i] \cup (item[i].shares \ link[i].accounts)
  BY DEF Link!Refresh, Link!Becomes
<1>2. Link!Connected' = Link!Connected /\ Link!Connected \subseteq Link!Items BY <1>1 DEF Link!Connected
<1>3. \A j, k \in Link!Items : Link!SameBank(j, k)' <=> Link!SameBank(j, k) BY <1>1 DEF Link!SameBank
<1>4. \A j \in Link!Items : link'[j].accounts \subseteq link[j].accounts \cup later'[j] /\ later[j] \subseteq later'[j]
  BY <1>1
<1>5. ASSUME NEW q \in Clients, asking'[q].pc \in Connecting PROVE Making(q)'
  <2>1. Making(q) /\ asking[q].item \in Link!Items /\ asking[q].item # i BY <1>1, <1>5 DEF Making
  <2>2. ASSUME asking[q].pc = "connecting", NEW j \in asking[q].saw, Link!SameBank(asking[q].item, j)
        PROVE  item[asking[q].item].shares \cap link'[j].accounts \subseteq later'[j]
    <3>1. j \in Link!Items BY <2>2 DEF Link!Request
    <3>2. item[asking[q].item].shares \cap link[j].accounts \subseteq later[j] BY <2>1, <2>2 DEF Making
    <3> QED BY <1>4, <3>1, <3>2
  <2>3. asking[q].saw \subseteq Link!Items BY DEF Link!Request
  <2> QED BY <1>1, <1>3, <2>1, <2>2, <2>3 DEF Making
<1>6. \A q \in Clients : asking'[q].pc \in {"removing", "deleting"} => Removing(q)'
  <2>1. \A j \in Link!Items : link[j].there => link'[j].there BY <1>1
  <2> QED BY <1>1, <2>1 DEF Removing
<1>7. Link!BilledOnce'
  <2> SUFFICES ASSUME NEW j \in Link!Connected, NEW k \in Link!Connected, j # k, Link!SameBank(j, k),
                      k \notin beside[j], j \notin beside[k]
               PROVE  link'[j].accounts \cap link'[k].accounts \subseteq later'[j] \cup later'[k]
    BY <1>1, <1>2, <1>3 DEF Link!BilledOnce
  <2>1. link[j].accounts \cap link[k].accounts \subseteq later[j] \cup later[k] BY DEF Link!BilledOnce
  <2> QED BY <1>2, <1>4, <2>1
<1> QED BY <1>1, <1>2, <1>5, <1>6, <1>7

-----------------------------------------------------------------------------
LEMMA LinkStep == ASSUME LinkInv, [Link!Next]_Link!vars PROVE LinkInv'
<1>1. Typed' BY LinkTypes DEF LinkInv
<1>2. Facts' BY StepExchange, StepCheck, StepConnect, StepRefresh, StepQuietly DEF Link!Next
<1> QED BY <1>1, <1>2 DEF LinkInv

\* Every reachable state is well typed.
THEOREM LinkTypeCorrect == Link!Spec => []Link!TypeOK
<1>1. Link!Init => Typed BY LinkInit DEF LinkInv
<1>2. Typed /\ [Link!Next]_Link!vars => Typed' BY LinkTypes
<1>3. Typed => Link!TypeOK BY DEF Typed
<1> QED BY <1>1, <1>2, <1>3, PTL DEF Link!Spec

\* Plaid bills once for each account of a bank, unless two connections were
\* being made at once, or the account was shared later.
THEOREM NoAccountBilledTwice == Link!Spec => []BilledOnce
<1>1. Link!Init => LinkInv BY LinkInit
<1>2. LinkInv /\ [Link!Next]_Link!vars => LinkInv' BY LinkStep
<1>3. LinkInv => Link!BilledOnce BY DEF LinkInv, Facts
<1> QED BY <1>1, <1>2, <1>3, PTL DEF Link!Spec, BilledOnce

\* No Item is billed for that Cashcove neither keeps nor is making a connection
\* of, unless Plaid couldn't be told or the process died.
THEOREM NoItemLeftBehind == Link!Spec => []NothingLeftBehind
<1>1. Link!Init => Typed /\ Link!NothingLeftBehind BY LinkInit DEF LinkInv
<1>2. Typed /\ Link!NothingLeftBehind /\ [Link!Next]_Link!vars => (Typed /\ Link!NothingLeftBehind)'
  BY LinkTypes, NothingLeftStep
<1> QED BY <1>1, <1>2, PTL DEF Link!Spec, NothingLeftBehind

\* What somebody decided about, and the bank still shares, is never new.
THEOREM NewMeansUndecided == Link!Spec => []NewAwaits
<1>1. Link!Init => Typed /\ Link!NewAwaits BY LinkInit DEF LinkInv
<1>2. Typed /\ Link!NewAwaits /\ [Link!Next]_Link!vars => (Typed /\ Link!NewAwaits)'
  BY LinkTypes, NewAwaitsStep
<1> QED BY <1>1, <1>2, PTL DEF Link!Spec, NewAwaits
=============================================================================
