------------------------------ MODULE BankLink ------------------------------
(***************************************************************************)
(* How banks are connected and removed: Items at Plaid, which bills for    *)
(* each until it is removed, and the connections the household keeps to    *)
(* them.                                                                   *)
(*                                                                         *)
(* Source: backend/app/plaid/connections.py, api/connections.py,           *)
(* plaid/client.py, plaid/errors.py.                                       *)
(*                                                                         *)
(* A connection has its Item's number.  An account is its name and mask.   *)
(* Keeping a connection up to date is BankSync; here a sync only brings    *)
(* what the bank shares.                                                   *)
(***************************************************************************)
EXTENDS Naturals, FiniteSets

CONSTANTS
    Requests,
    Logins,         \* what people sign in to in Plaid Link
    BankOf,         \* each login's institution; None when Plaid doesn't say
    AccountsOf,     \* each login's accounts
    MaxItems,       \* bound: Items ever made
    None

VARIABLES
    item,           \* Items at Plaid
    conn,           \* the connections' rows
    req,            \* what each request is doing, with which Item
    left,           \* history: Items nobody will remove, and nobody could help it
    beside,         \* history: which connections came while another was being made
    later           \* history: accounts that were shared after the bank was connected

vars == <<item, conn, req, left, beside, later>>

Items == 1..MaxItems
AllAccounts == UNION {AccountsOf[l] : l \in Logins}

Bounds == /\ MaxItems \in Nat /\ None \notin Logins
          /\ DOMAIN BankOf = Logins /\ DOMAIN AccountsOf = Logins

Item == [state : {"none", "billed", "removed"}, login : Logins \cup {None}, shares : SUBSET AllAccounts]
NoItem == [state |-> "none", login |-> None, shares |-> {}]
Connection == [there : BOOLEAN, accounts : SUBSET AllAccounts, linked : SUBSET AllAccounts,
               skipped : SUBSET AllAccounts, decided : SUBSET AllAccounts]
NoConnection == [there |-> FALSE, accounts |-> {}, linked |-> {}, skipped |-> {}, decided |-> {}]
Request == [pc : {"idle", "asking", "refusing", "connecting", "removing", "deleting"},
            item : Items \cup {0}, saw : SUBSET Items]
Idle == [pc |-> "idle", item |-> 0, saw |-> {}]

TypeOK ==
    /\ item \in [Items -> Item] /\ conn \in [Items -> Connection]
    /\ req \in [Requests -> Request]
    /\ left \subseteq Items /\ beside \in [Items -> SUBSET Items] /\ later \in [Items -> SUBSET AllAccounts]

Init ==
    /\ item = [i \in Items |-> NoItem] /\ conn = [i \in Items |-> NoConnection]
    /\ req = [r \in Requests |-> Idle]
    /\ left = {} /\ beside = [i \in Items |-> {}] /\ later = [i \in Items |-> {}]

Connected == {i \in Items : conn[i].there}
Set(r, pc, i, saw) == req' = [req EXCEPT ![r] = [pc |-> pc, item |-> i, saw |-> saw]]
Done(r) == req' = [req EXCEPT ![r] = Idle]
-----------------------------------------------------------------------------
(* Connecting                                                              *)

\* Someone went through Link; Plaid's answer may be lost once the Item is made.
Exchange(r, i, login, shares) ==
    /\ req[r].pc = "idle" /\ item[i].state = "none"
    /\ \A j \in 1..i - 1 : item[j].state # "none"
    /\ shares # {} /\ shares \subseteq AccountsOf[login]
    /\ item' = [item EXCEPT ![i] = [state |-> "billed", login |-> login, shares |-> shares]]
    /\ \/ Set(r, "asking", i, {}) /\ UNCHANGED left
       \/ left' = left \cup {i} /\ UNCHANGED req
    /\ UNCHANGED <<conn, beside, later>>

SameBank(i, j) == BankOf[item[i].login] # None /\ BankOf[item[i].login] = BankOf[item[j].login]

\* A slip: only what is imported counts as connected.
DuplicatesImported(i) == {j \in Connected : SameBank(i, j) /\ item[i].shares \cap conn[j].linked # {}}

\* The connections to the same accounts at the same bank.
Duplicates(i) == {j \in Connected : SameBank(i, j) /\ item[i].shares \cap conn[j].accounts # {}}

\* Plaid is asked for its accounts, or can't be; then the connections there are.
Check(r) ==
    LET i == req[r].item IN
    /\ req[r].pc = "asking"
    /\ \/ Set(r, "refusing", i, {})
       \/ Duplicates(i) = {} /\ Set(r, "connecting", i, Connected)
    /\ UNCHANGED <<item, conn, left, beside, later>>

\* A slip: Plaid isn't told.
BilledStill(i) == "billed"

BilledAfter(i) == "removed"

\* What isn't kept is given back to Plaid, which may refuse.
Forget(r) ==
    LET i == req[r].item IN
    /\ req[r].pc = "refusing"
    /\ \/ item' = [item EXCEPT ![i].state = BilledAfter(i)] /\ UNCHANGED left
       \/ left' = left \cup {i} /\ UNCHANGED item
    /\ Done(r) /\ UNCHANGED <<conn, beside, later>>

\* The bank's details are looked up, and it is kept with nothing imported.
Connect(r) ==
    LET i == req[r].item IN
    /\ req[r].pc = "connecting"
    /\ conn' = [conn EXCEPT ![i] = [NoConnection EXCEPT !.there = TRUE, !.accounts = item[i].shares]]
    /\ beside' = [beside EXCEPT ![i] = Connected \ req[r].saw]
    /\ Done(r) /\ UNCHANGED <<item, left, later>>
-----------------------------------------------------------------------------
(* Removing: the connection's row stays locked while Plaid is asked        *)

Locked(i) == \E r \in Requests : req[r].pc \in {"removing", "deleting"} /\ req[r].item = i

Disconnect(r, i) ==
    /\ req[r].pc = "idle" /\ conn[i].there /\ ~Locked(i)
    /\ Set(r, "removing", i, {})
    /\ UNCHANGED <<item, conn, left, beside, later>>

\* Plaid removes it, or has it no more; or refuses, and nothing changes; or can't
\* be asked, without keys or the connection's token.
RemoveAtPlaid(r) ==
    LET i == req[r].item IN
    /\ req[r].pc = "removing"
    /\ \/ item' = [item EXCEPT ![i].state = "removed"] /\ Set(r, "deleting", i, {})
       \/ Done(r) /\ UNCHANGED item
       \/ Set(r, "deleting", i, {}) /\ UNCHANGED item
    /\ UNCHANGED <<conn, left, beside, later>>

Disconnected(r) ==
    LET i == req[r].item IN
    /\ req[r].pc = "deleting"
    /\ conn' = [conn EXCEPT ![i] = NoConnection]
    /\ left' = IF item[i].state = "billed" THEN left \cup {i} ELSE left
    /\ Done(r) /\ UNCHANGED <<item, beside, later>>

\* The process dies, or the database refuses.
Die(r) ==
    /\ req[r].pc # "idle" /\ Done(r)
    /\ left' = IF req[r].pc \in {"asking", "refusing", "connecting"} THEN left \cup {req[r].item} ELSE left
    /\ UNCHANGED <<item, conn, beside, later>>
-----------------------------------------------------------------------------
(* Which of its accounts to import                                         *)

\* What a connection lists each account it shares as.
Listed(i, a) == IF a \in conn[i].linked THEN "imported" ELSE IF a \in conn[i].skipped THEN "skipped" ELSE "new"

Becomes(i, accounts, linked, skipped, decided) ==
    conn' = [conn EXCEPT ![i] = [there |-> TRUE, accounts |-> accounts, linked |-> linked,
                                 skipped |-> skipped, decided |-> decided]]

ChooseAccounts(i, chosen) ==
    /\ conn[i].there /\ ~Locked(i) /\ chosen # {} /\ chosen \subseteq conn[i].accounts
    /\ Becomes(i, conn[i].accounts, (conn[i].linked \ conn[i].accounts) \cup chosen,
               conn[i].accounts \ chosen, conn[i].accounts)
    /\ UNCHANGED <<item, req, left, beside, later>>

\* A slip: what the household deletes is forgotten.
SkippedBefore(i, a) == conn[i].skipped

SkippedWith(i, a) == conn[i].skipped \cup {a}

\* The household deletes an imported account.
DeleteAccount(i, a) ==
    /\ conn[i].there /\ ~Locked(i) /\ a \in conn[i].linked
    /\ Becomes(i, conn[i].accounts, conn[i].linked \ {a}, SkippedWith(i, a), conn[i].decided)
    /\ UNCHANGED <<item, req, left, beside, later>>

\* In Link's update mode, someone changes what the bank shares; or the bank does.
Reshare(i, shares) ==
    /\ conn[i].there /\ item[i].state = "billed"
    /\ shares # {} /\ shares \subseteq AccountsOf[item[i].login]
    /\ item' = [item EXCEPT ![i].shares = shares]
    /\ UNCHANGED <<conn, req, left, beside, later>>

\* A sync.  An account that isn't shared any more is the household's to keep.
Refresh(i) ==
    /\ conn[i].there /\ item[i].state = "billed" /\ ~Locked(i)
    /\ LET shares == item[i].shares IN
       /\ Becomes(i, shares, conn[i].linked \cap shares, conn[i].skipped, conn[i].decided \cap shares)
       /\ later' = [later EXCEPT ![i] = @ \cup (shares \ conn[i].accounts)]
    /\ UNCHANGED <<item, req, left, beside>>
-----------------------------------------------------------------------------
Next ==
    \/ \E r \in Requests :
          \/ \E i \in Items, login \in Logins, shares \in SUBSET AllAccounts : Exchange(r, i, login, shares)
          \/ Check(r) \/ Forget(r) \/ Connect(r)
          \/ \E i \in Items : Disconnect(r, i)
          \/ RemoveAtPlaid(r) \/ Disconnected(r) \/ Die(r)
    \/ \E i \in Items :
          \/ \E shares \in SUBSET AllAccounts : ChooseAccounts(i, shares) \/ Reshare(i, shares)
          \/ \E a \in AllAccounts : DeleteAccount(i, a)
          \/ Refresh(i)

Spec == Init /\ [][Next]_vars
-----------------------------------------------------------------------------
(* Plaid doesn't bill twice for one account of a bank (connections.py:187): *)
(* two connections to one bank share no account, unless both were being     *)
(* made at the same time, or it was shared after one of them was made.      *)
BilledOnce ==
    \A i, j \in Connected :
        i # j /\ SameBank(i, j) =>
            \/ j \in beside[i] \/ i \in beside[j]
            \/ conn[i].accounts \cap conn[j].accounts \subseteq later[i] \cup later[j]

(* Plaid doesn't bill for what Cashcove won't keep (connections.py:205): an  *)
(* Item that is billed for has its connection, or a request that is making   *)
(* it, unless Plaid refused or couldn't be asked, or the process died.       *)
NothingLeftBehind ==
    \A i \in Items : item[i].state = "billed" =>
        \/ conn[i].there \/ i \in left
        \/ \E r \in Requests : req[r].item = i /\ req[r].pc \in {"asking", "refusing", "connecting"}

(* "Any that are neither imported nor skipped are new, and waiting for       *)
(* someone to choose" (models/connection.py:83-84): what the household       *)
(* imported, left out or deleted, and the bank has shared ever since, isn't  *)
(* listed as new.                                                            *)
NewAwaits == \A i \in Connected : \A a \in conn[i].decided : Listed(i, a) # "new"
=============================================================================
