------------------------------- MODULE Imports -------------------------------
(* Statement files imported into an account (backend/app/imports/matching.py *)
(* and service.py): which of a file's rows the account already has, which it *)
(* may have, and what importing the others adds.  A file is a sequence of    *)
(* rows as they were read; a row that can't be read has the amount 0.        *)
(* Balances are in Ledger, categories and automations in Sorting.            *)
EXTENDS Integers, FiniteSets, FiniteSetsExt, SequencesExt

CONSTANTS Files,     \* the files people have, by name: sequences of rows
          Texts,     \* descriptions and payees, as compared (text_key)
          Hand,      \* what people enter and banks send: days, amounts and payees
          Slots,     \* the account's transactions, numbered
          WINDOW,    \* how many days apart two dates of one transaction can be
          MaxSteps,  \* how many steps a behaviour takes
          None

VARIABLES txns,    \* the account's transactions
          whole,   \* files whose new rows were all imported and whose others were recognised
          steps
vars == <<txns, whole, steps>>

NoTxn == [source |-> None]
Sources == {"hand", "plaid", "file"}
Bounds ==
    /\ WINDOW \in Nat /\ MaxSteps \in Nat /\ None \notin Texts
    /\ Slots \subseteq Nat /\ IsFiniteSet(Slots)
    /\ \A name \in DOMAIN Files :
          /\ Len(Files[name]) \in Nat /\ DOMAIN Files[name] = 1..Len(Files[name])
          /\ \A i \in DOMAIN Files[name] : LET row == Files[name][i] IN
                row.day \in Int /\ row.amount \in Int /\ row.text \in Texts
    /\ \A what \in Hand : what.day \in Int /\ what.amount \in Int \ {0} /\ what.payee \in Texts

Rows == {t \in Slots : txns[t] # NoTxn}
Free == Slots \ Rows

TypeOK ==
    /\ \A t \in Rows : /\ txns[t].source \in Sources /\ txns[t].payee \in Texts
                       /\ txns[t].text \in Texts \cup {None} /\ txns[t].at \in 1..MaxSteps
                       /\ txns[t].day \in Int /\ txns[t].amount \in Int \ {0}
    /\ whole \subseteq DOMAIN Files
    /\ steps \in 0..MaxSteps

Init == txns = [t \in Slots |-> NoTxn] /\ whole = {} /\ steps = 0

-----------------------------------------------------------------------------
(* Naming: the payee the latest transaction with a row's description has.    *)
Apart(a, b) == IF a < b THEN b - a ELSE a - b
Described(t) == IF txns[t].text # None THEN txns[t].text ELSE txns[t].payee
Goes(t) == {Described(t), txns[t].payee}
Content(row) == <<row.day, row.amount, row.text>>

\* Older first (SORT_ORDERS): by day, when they were saved, and then any order.
Age(t) == <<txns[t].day, txns[t].at, t>>
Less(a, b) == \E k \in DOMAIN a : a[k] < b[k] /\ \A j \in 1..k - 1 : a[j] = b[j]
Oldest(S) == CHOOSE t \in S : \A u \in S \ {t} : Less(Age(t), Age(u))
Latest(S) == CHOOSE t \in S : \A u \in S \ {t} : Less(Age(u), Age(t))
PayeeFor(row) == LET before == {t \in Rows : txns[t].text = row.text}
                IN IF before = {} THEN row.text ELSE txns[Latest(before)].payee

-----------------------------------------------------------------------------
(* Matching: each transaction is taken by at most one row.  took says which  *)
(* transaction each line has so far.                                         *)
Readable(file) == {i \in DOMAIN file : file[i].amount # 0}
Earlier(file, i) == Min({j \in Readable(file) : file[j].id = file[i].id})

\* Lines that repeat an earlier one with the same ID.  A row that differs from
\* the first with its ID goes without it.
Repeats(file) == {i \in Readable(file) : /\ file[i].id # None /\ Earlier(file, i) # i
                                         /\ Content(file[Earlier(file, i)]) = Content(file[i])}
Unrepeated(file) == Readable(file) \ Repeats(file)
OwnID(file, i) == IF file[i].id # None /\ Earlier(file, i) = i THEN file[i].id ELSE None

HasID(file, i) == {t \in Rows : OwnID(file, i) # None /\ txns[t].id = OwnID(file, i)}
IsIt(file, i, t) == /\ txns[t].amount = file[i].amount
                    /\ Apart(txns[t].day, file[i].day) <= WINDOW

\* A slip: a row keeps an ID the account has on something else.
KeptIDAlways(file, i) == OwnID(file, i)

\* The ID a row is imported with.  One the account has on a different amount, or
\* days apart, isn't the bank's own.
KeptID(file, i) ==
    IF \E t \in HasID(file, i) : ~IsIt(file, i, t) THEN None ELSE OwnID(file, i)

ByID(file) ==
    [i \in {i \in Unrepeated(file) : \E t \in HasID(file, i) : IsIt(file, i, t)}
        |-> CHOOSE t \in HasID(file, i) : TRUE]

Same(row) == {t \in Rows : /\ txns[t].day = row.day /\ txns[t].amount = row.amount
                           /\ row.text \in Goes(t)}

\* One with the same amount a few days either side.  Ones that came from a file
\* need the same day, unless the payee is the same too.
Near(row) ==
    LET payee == PayeeFor(row)
    IN {t \in Rows : /\ txns[t].amount = row.amount
                     /\ Apart(txns[t].day, row.day) <=
                          IF txns[t].source # "file" \/ payee \in Goes(t) THEN WINDOW ELSE 0}

\* How far a candidate is from a row: another payee, days, a file's, then older first.
Distance(row, t) ==
    <<IF PayeeFor(row) \in Goes(t) THEN 0 ELSE 1, Apart(txns[t].day, row.day),
      IF txns[t].source = "file" THEN 1 ELSE 0>> \o Age(t)
Nearest(row, S) == CHOOSE t \in S : \A u \in S \ {t} : Less(Distance(row, t), Distance(row, u))

Taken(took) == {took[i] : i \in DOMAIN took}
Candidates(row, how) == IF how = "same" THEN Same(row) ELSE Near(row)
Best(row, how, S) == IF how = "same" THEN Oldest(S) ELSE Nearest(row, S)

\* A slip: only the best candidate is looked at, even if another row has it.
TakeBest(took, i, row, how) ==
    LET best == Best(row, how, Candidates(row, how))
    IN IF i \in DOMAIN took \/ Candidates(row, how) = {} \/ best \in Taken(took) THEN took
       ELSE [j \in DOMAIN took \cup {i} |-> IF j = i THEN best ELSE took[j]]
Take(took, i, row, how) ==
    LET free == Candidates(row, how) \ Taken(took)
    IN IF i \in DOMAIN took \/ free = {} THEN took
       ELSE [j \in DOMAIN took \cup {i} |-> IF j = i THEN Best(row, how, free) ELSE took[j]]

\* Row by row, in the file's order.
Match(file, took, how) ==
    LET sofar[n \in 0..Len(file)] ==
          IF n = 0 THEN took
          ELSE IF n \in Unrepeated(file) THEN Take(sofar[n - 1], n, file[n], how) ELSE sofar[n - 1]
    IN sofar[Len(file)]

\* Every row's transaction, the surest matches first.
Possible(file) == Match(file, Match(file, ByID(file), "same"), "near")

Status(file) ==
    LET sure == DOMAIN ByID(file)
        maybe == DOMAIN Possible(file)
    IN [i \in DOMAIN file |->
          IF i \notin Readable(file) THEN "invalid"
          ELSE IF i \in Repeats(file) \cup sure THEN "duplicate"
          ELSE IF i \in maybe THEN "possible_duplicate" ELSE "new"]

\* Rows that aren't new have a transaction with their ID, or one of their day
\* that goes by their description.
Recognised(file) ==
    LET match == Possible(file) IN
    \A i \in DOMAIN match \ DOMAIN ByID(file) :
        txns[match[i]].day = file[i].day /\ Described(match[i]) = file[i].text

NewLines(file) == LET status == Status(file) IN {i \in DOMAIN file : status[i] = "new"}

-----------------------------------------------------------------------------
(* What people do.  An import reviews the file again once it has locked the  *)
(* account, so the lines chosen are any of those it can import, whatever the *)
(* preview they were ticked in said.  Rows saved together come out of the    *)
(* database in any order, so they take their places in any order.            *)
Step == steps < MaxSteps /\ steps' = steps + 1

\* The lowest free slots, for the lines given.
Places(lines) ==
    LET low == {t \in Free : Cardinality({u \in Free : u < t}) < Cardinality(lines)}
    IN Injection(lines, low)

Imported(row, id) == [day |-> row.day, amount |-> row.amount, text |-> row.text, id |-> id,
                      payee |-> PayeeFor(row), source |-> "file", at |-> steps + 1]

Import(name) ==
    LET file == Files[name]
        status == Status(file)
        importable == {i \in DOMAIN file : status[i] \in {"new", "possible_duplicate"}}
        new == {i \in importable : status[i] = "new"}
        added == [i \in importable |-> Imported(file[i], KeptID(file, i))]
    IN /\ Step
       /\ \E chosen \in SUBSET importable \ {{}} :
            /\ \E place \in Places(chosen) :
                  txns' = [t \in Slots |-> IF t \in Range(place)
                                          THEN added[CHOOSE i \in chosen : place[i] = t] ELSE txns[t]]
            /\ whole' = IF chosen = new /\ Recognised(file) THEN whole \cup {name} ELSE whole

\* Someone enters a transaction, or the bank's connection brings one in.
Enter(what, source) ==
    /\ Step /\ Free # {}
    /\ txns' = [txns EXCEPT ![Min(Free)] =
         [day |-> what.day, amount |-> what.amount, payee |-> what.payee, source |-> source,
          text |-> IF source = "hand" THEN None ELSE what.payee, id |-> None, at |-> steps + 1]]
    /\ UNCHANGED whole

\* What matched by its payee may not by another.
Rename(t, payee) ==
    /\ Step /\ txns[t].payee # payee
    /\ txns' = [txns EXCEPT ![t].payee = payee]
    /\ whole' = {}

Added(n) == {t \in Rows : txns[t].source = "file" /\ txns[t].at = n}

\* Undoing an import deletes what it added.
Undo(n) ==
    /\ Step
    /\ Added(n) # {}
    /\ txns' = [t \in Slots |-> IF t \in Added(n) THEN NoTxn ELSE txns[t]]
    /\ whole' = {}

DeleteTransaction(t) ==
    /\ Step
    /\ txns' = [txns EXCEPT ![t] = NoTxn]
    /\ whole' = {}

Next ==
    \/ \E name \in DOMAIN Files : Import(name)
    \/ \E what \in Hand, source \in {"hand", "plaid"} : Enter(what, source)
    \/ \E t \in Rows, payee \in Texts : Rename(t, payee)
    \/ \E n \in 1..MaxSteps : Undo(n)
    \/ \E t \in Rows : DeleteTransaction(t)

Spec == Init /\ [][Next]_vars

-----------------------------------------------------------------------------
(* "Leaving possible matches unticked means importing the same file again    *)
(* adds nothing" (README.md:349): so it is of a file all of whose rows were   *)
(* new or recognised, until something is deleted or renamed, as long as the  *)
(* account's transactions of one day and amount can be told apart: two that  *)
(* share a payee have the same description too.  Otherwise a row can be      *)
(* taken for another's transaction, and leave its own to a row of some days  *)
(* before (imports/matching.py:171-201, 289-308).                            *)
ToldApart == \A t, u \in Rows :
    (txns[t].day = txns[u].day /\ txns[t].amount = txns[u].amount /\ Goes(t) \cap Goes(u) # {})
        => Described(t) = Described(u)
WholeFilesAddNothing == ToldApart => \A name \in whole : NewLines(Files[name]) = {}

(* An account has each of a bank's IDs once (models/transaction.py:28-30),    *)
(* so no import is refused by the database for an ID it gave a row.           *)
IDsOnce == \A t, u \in Rows : txns[t].id # None /\ txns[t].id = txns[u].id => t = u
==============================================================================
