------------------------------ MODULE Recurring ------------------------------
(* Subscriptions and bills: which payments are whose, and when the next one *)
(* is due (backend/app/finance/subscriptions.py, api/recurring.py,          *)
(* models/subscription.py, and the part of finance/automations.py that      *)
(* links payments).  Requests lock the row they change and commit once, so  *)
(* each is one action; a payment that arrives is sorted by rules that were  *)
(* read earlier (a sync or an import reads them once), and is two.          *)
EXTENDS Calendar, FiniteSets

CONSTANTS
    Items, Payments,
    Accounts, Names,      \* a payee is a name at an account
    Cats,
    Frequencies,          \* the frequencies in use
    Days,                 \* the days people and banks speak of
    Edits,                \* the changes people ask for; see Unset
    MaxCycles,            \* how many payments ahead anyone counts
    MaxSteps,             \* how many steps a behaviour has
    None, Unset

VARIABLES
    item,                 \* subscriptions and bills
    pay,                  \* transactions
    rule,                 \* per name: the item an automation links it to
    closed,               \* accounts that are closed
    book,                 \* the rules an import or a sync holds, or None
    loose,                \* payments taken off by hand, or with what they were linked to by hand
                          \* or an automation, or that came by rules now old
    broke,                \* whether a request ended in an error nobody foresaw
    steps

vars == <<item, pay, rule, closed, book, loose, broke, steps>>

Keys == Accounts \X Names
Every == [weekly     |-> [days |-> 7, months |-> 0, early |-> 3],
          biweekly   |-> [days |-> 14, months |-> 0, early |-> 7],
          monthly    |-> [days |-> 0, months |-> 1, early |-> 15],
          bimonthly  |-> [days |-> 0, months |-> 2, early |-> 30],
          quarterly  |-> [days |-> 0, months |-> 3, early |-> 45],
          semiannual |-> [days |-> 0, months |-> 6, early |-> 91],
          annual     |-> [days |-> 0, months |-> 12, early |-> 182]]

Least(S) == CHOOSE n \in S : \A m \in S : n <= m
MaybeDay == AllDays \cup {None}
Item == [state : {"none", "here", "gone"}, key : Keys, every : DOMAIN Every, due : AllDays,
         cat : Cats \cup {None}, active : BOOLEAN, ends : MaybeDay, cancelled : MaybeDay]
Payment == [state : {"new", "here", "gone"}, key : Keys, day : AllDays, out : BOOLEAN,
            item : Items \cup {None}, cat : Cats \cup {None}]
Rules == [item : [Items -> Item], rule : [Names -> Items \cup {None}]]
Edit == [key : Keys \cup {Unset}, active : BOOLEAN \cup {Unset}, ends : MaybeDay \cup {Unset},
         cat : Cats \cup {None, Unset}, due : AllDays \cup {Unset}, every : DOMAIN Every \cup {Unset}]

Bounds ==
    /\ Ordered /\ Days \subseteq AllDays /\ Frequencies \subseteq DOMAIN Every
    /\ Keys # {} /\ Days # {} /\ Frequencies # {} /\ Edits \subseteq Edit
    /\ {None, Unset} \cap (Items \cup Cats \cup Keys) = {}
    /\ {MaxSteps, MaxCycles} \subseteq Nat

NoItem == [state |-> "none", key |-> CHOOSE k \in Keys : TRUE, every |-> CHOOSE f \in Frequencies : TRUE,
           due |-> Least(Days), cat |-> None, active |-> TRUE, ends |-> None, cancelled |-> None]
NoPayment == [state |-> "new", key |-> CHOOSE k \in Keys : TRUE, day |-> Least(Days), out |-> TRUE,
              item |-> None, cat |-> None]

Here(i) == item[i].state = "here"
There(t) == pay[t].state = "here"
Step == steps < MaxSteps /\ steps' = steps + 1

TypeOK ==
    /\ item \in [Items -> Item] /\ pay \in [Payments -> Payment]
    /\ rule \in [Names -> Items \cup {None}] /\ closed \subseteq Accounts
    /\ book \in Rules \cup {None}
    /\ loose \subseteq Payments /\ broke \in BOOLEAN /\ steps \in 0..MaxSteps

Init ==
    /\ item = [i \in Items |-> NoItem]
    /\ pay = [t \in Payments |-> NoPayment]
    /\ rule = [n \in Names |-> None] /\ closed = {} /\ book = None
    /\ loose = {} /\ broke = FALSE /\ steps = 0
------------------------------------------------------------------------------
(* When payments are due.                                                    *)

\* Counted from due each time, so the 31st is the 31st again after a short month.
DueAfter(due, f, k) ==
    IF Every[f].days > 0 THEN due + Every[f].days * k ELSE AddMonths(due, Every[f].months * k)

Cycles == 0..MaxCycles
\* A slip: as if every month had at most 28 days.
LongestShort(f) == IF Every[f].days > 0 THEN Every[f].days ELSE 28 * Every[f].months
Longest(f) == IF Every[f].days > 0 THEN Every[f].days ELSE 31 * Every[f].months

\* due_dates: a start a little before first, then each day until the last.
DueDates(due, f, first, last) ==
    LET start == Greater(0, (first - due) \div Longest(f) - 1)
        from == CHOOSE k \in Cycles : /\ k >= start /\ DueAfter(due, f, k) >= first
                                      /\ k > start => DueAfter(due, f, k - 1) < first
    IN {DueAfter(due, f, k) : k \in {n \in Cycles : n >= from /\ DueAfter(due, f, n) <= last}}

\* What settles the due date, and every one before it.
Advanced(it, paidOn) ==
    LET settled == paidOn + Every[it.every].early
        k == CHOOSE n \in Cycles : /\ DueAfter(it.due, it.every, n) > settled
                                   /\ n > 0 => DueAfter(it.due, it.every, n - 1) <= settled
    IN [it EXCEPT !.due = DueAfter(it.due, it.every, k)]

Stopped(it, today) == it.cancelled # None \/ (it.ends # None /\ it.ends <= today)
------------------------------------------------------------------------------
(* Which payments are whose.                                                 *)

\* Links payments by key: every one that goes out, and gives them the category.
Backfilled(i, it, rows) ==
    [t \in Payments |-> IF rows[t].state = "here" /\ rows[t].out /\ rows[t].key = it.key
                        THEN [rows[t] EXCEPT !.item = i, !.cat = IF it.cat = None THEN @ ELSE it.cat]
                        ELSE rows[t]]
Untracked(key, but) == \A i \in Items \ {but} : Here(i) => item[i].key # key
Open(key) == key[1] \notin closed
\* A row that is backfilled is no longer loose.
StillLoose(rows) == {t \in loose : rows[t].item = None}

Create(i, key, f, due, ends, cat) ==
    /\ Step /\ item[i].state = "none" /\ Open(key) /\ Untracked(key, i)
    /\ LET it == [state |-> "here", key |-> key, every |-> f, due |-> due, cat |-> cat,
                  active |-> TRUE, ends |-> ends, cancelled |-> None]
       IN /\ item' = [item EXCEPT ![i] = it]
          /\ pay' = Backfilled(i, it, pay)
          /\ loose' = StillLoose(pay')
    /\ UNCHANGED <<rule, closed, book, broke>>

Said(new, old) == IF new = Unset THEN old ELSE new
Detached(i, rows) ==
    [t \in Payments |-> IF rows[t].item = i /\ rows[t].key = item[i].key
                        THEN [rows[t] EXCEPT !.item = None] ELSE rows[t]]
Recategorised(i, cat, rows) ==
    [t \in Payments |-> IF rows[t].item = i THEN [rows[t] EXCEPT !.cat = cat] ELSE rows[t]]

\* A slip: only a new payee catches up, not a return from a pause.
CatchesUpForgotten(i, it) == it.active /\ it.key # item[i].key
\* A new payee, or a return from a pause, links what is already there.
CatchesUp(i, it) == it.active /\ (it.key # item[i].key \/ ~item[i].active)

Change(i, e) ==
    /\ Step /\ Here(i)
    /\ ~(item[i].cancelled # None /\ e.ends = None)
    /\ LET it == [item[i] EXCEPT !.key = Said(e.key, @), !.active = Said(e.active, @),
                      !.ends = Said(e.ends, @), !.cat = Said(e.cat, @), !.due = Said(e.due, @),
                      !.every = Said(e.every, @)]
           moved == it.key # item[i].key
           freed == IF moved THEN Detached(i, pay) ELSE pay
           sorted == IF e.cat = Unset THEN freed ELSE Recategorised(i, e.cat, freed)
       IN /\ Open(it.key) /\ (moved => Untracked(it.key, i))
          /\ item' = [item EXCEPT ![i] = it]
          /\ pay' = IF CatchesUp(i, it) THEN Backfilled(i, it, sorted) ELSE sorted
          /\ loose' = StillLoose(pay')
    /\ UNCHANGED <<rule, closed, book, broke>>

Cancel(i, on, ends) ==
    /\ Step /\ Here(i) /\ ~Stopped(item[i], on)
    /\ item' = [item EXCEPT ![i].cancelled = on, ![i].ends = IF ends = None THEN on ELSE ends]
    /\ UNCHANGED <<pay, rule, closed, book, loose, broke>>

\* Its next payment is the day given, or the first on its old schedule that is
\* not before today, looked for 13 months ahead: when there is none the request
\* breaks, and nothing is kept.
Reactivate(i, given, today) ==
    /\ Step /\ Here(i) /\ Stopped(item[i], today) /\ Open(item[i].key)
    /\ LET dates == DueDates(item[i].due, item[i].every, today, AddMonths(today, 13))
           it == [item[i] EXCEPT !.cancelled = None, !.ends = None, !.active = TRUE,
                                 !.due = IF given # None THEN given ELSE Least(dates)]
       IN IF given = None /\ dates = {}
          THEN broke' = TRUE /\ UNCHANGED <<item, pay, loose>>
          ELSE /\ item' = [item EXCEPT ![i] = it]
               /\ pay' = IF item[i].active THEN pay ELSE Backfilled(i, it, pay)
               /\ loose' = StillLoose(pay')
               /\ UNCHANGED broke
    /\ UNCHANGED <<rule, closed, book>>

Delete(i) ==
    /\ Step /\ Here(i)
    /\ item' = [item EXCEPT ![i] = [NoItem EXCEPT !.state = "gone"]]
    /\ pay' = [t \in Payments |-> IF pay[t].item = i THEN [pay[t] EXCEPT !.item = None] ELSE pay[t]]
    /\ rule' = [n \in Names |-> IF rule[n] = i THEN None ELSE rule[n]]
    /\ loose' = loose \cup {t \in Payments : pay[t].item = i /\ pay[t].key # item[i].key}
    /\ UNCHANGED <<closed, book, broke>>

Latest(rows, T) == CHOOSE d \in {rows[t].day : t \in T} : \A t \in T : rows[t].day <= d

\* Those already gone are skipped; a payment that comes in refuses them all.
Link(i, T) ==
    /\ Step /\ Here(i)
    /\ LET found == {t \in T : There(t)} IN
       /\ \A t \in found : pay[t].out
       /\ pay' = [t \in Payments |->
                     IF t \in found
                     THEN [pay[t] EXCEPT !.item = i, !.cat = IF item[i].cat = None THEN @ ELSE item[i].cat]
                     ELSE pay[t]]
       /\ item' = IF found = {} THEN item ELSE [item EXCEPT ![i] = Advanced(@, Latest(pay, found))]
       /\ loose' = loose \ found
    /\ UNCHANGED <<rule, closed, book, broke>>

Unlink(i, t) ==
    /\ Step /\ Here(i) /\ pay[t].item = i
    /\ pay' = [pay EXCEPT ![t].item = None]
    /\ loose' = loose \cup {t}
    /\ UNCHANGED <<item, rule, closed, book, broke>>

\* An automation for every payment with a name, saved to sort what is there.
SaveAutomation(n, i) ==
    /\ Step /\ Here(i) /\ rule[n] = None
    /\ rule' = [rule EXCEPT ![n] = i]
    /\ LET found == {t \in Payments : There(t) /\ pay[t].out /\ pay[t].key[2] = n} IN
       IF item[i].active /\ found # {}
       THEN /\ pay' = [t \in Payments |->
                          IF t \in found
                          THEN [pay[t] EXCEPT !.item = i, !.cat = IF item[i].cat = None THEN @ ELSE item[i].cat]
                          ELSE pay[t]]
            /\ item' = [item EXCEPT ![i] = Advanced(@, Latest(pay, found))]
            /\ loose' = loose \ found
       ELSE UNCHANGED <<pay, item, loose>>
    /\ UNCHANGED <<closed, book, broke>>

DeleteAutomation(n) ==
    /\ Step /\ rule[n] # None
    /\ rule' = [rule EXCEPT ![n] = None]
    /\ UNCHANGED <<item, pay, closed, book, loose, broke>>

CloseAccount(a) ==
    /\ Step /\ closed' = closed \cup {a}
    /\ UNCHANGED <<item, pay, rule, book, loose, broke>>
------------------------------------------------------------------------------
(* Payments that arrive.                                                     *)

LoadRules ==
    /\ book = None
    /\ book' = [item |-> item, rule |-> rule]
    /\ UNCHANGED <<item, pay, rule, closed, loose, broke, steps>>

Tracked(b, i) == b.item[i].state = "here" /\ b.item[i].active

\* The automation's item before the one whose own account and payee it has.
PickItem(b, key) ==
    IF b.rule[key[2]] # None /\ Tracked(b, b.rule[key[2]]) THEN b.rule[key[2]]
    ELSE LET own == {i \in Items : Tracked(b, i) /\ b.item[i].key = key}
         IN IF own = {} THEN None ELSE CHOOSE i \in own : TRUE

\* The payment, sorted by the book.  An item that is gone by now cannot be
\* linked to: the whole import fails, and is read again.
Arrive(t, key, day, out) ==
    /\ Step /\ book # None /\ pay[t].state = "new"
    /\ LET i == IF out THEN PickItem(book, key) ELSE None
           row == [state |-> "here", key |-> key, day |-> day, out |-> out, item |-> i,
                   cat |-> IF i = None THEN None ELSE book.item[i].cat]
           old == out /\ i = None /\ book.item # item
       IN /\ i # None => Here(i)
          /\ pay' = [pay EXCEPT ![t] = row]
          /\ item' = IF i = None \/ Advanced(book.item[i], day).due = book.item[i].due THEN item
                     ELSE [item EXCEPT ![i].due = Advanced(book.item[i], day).due]
          /\ loose' = IF old THEN loose \cup {t} ELSE loose
    /\ book' = None
    /\ UNCHANGED <<rule, closed, broke>>

GiveUpRules ==
    /\ book # None /\ book' = None
    /\ UNCHANGED <<item, pay, rule, closed, loose, broke, steps>>

Remove(t) ==
    /\ Step /\ There(t)
    /\ pay' = [pay EXCEPT ![t] = [NoPayment EXCEPT !.state = "gone"]]
    /\ loose' = loose \ {t}
    /\ UNCHANGED <<item, rule, closed, book, broke>>

InCalendar == \A i \in Items : item'[i].due \in AllDays

Next ==
    /\ \/ \E i \in Items, k \in Keys, f \in Frequencies, d \in Days,
             c \in Cats \cup {None} : Create(i, k, f, d, None, c)
       \/ \E i \in Items, e \in Edits : Change(i, e)
       \/ \E i \in Items, on \in Days, e \in Days \cup {None} : Cancel(i, on, e)
       \/ \E i \in Items, today \in Days, g \in Days \cup {None} : Reactivate(i, g, today)
       \/ \E i \in Items : Delete(i)
       \/ \E i \in Items, T \in SUBSET Payments : T # {} /\ Link(i, T)
       \/ \E i \in Items, t \in Payments : Unlink(i, t)
       \/ \E n \in Names, i \in Items : SaveAutomation(n, i)
       \/ \E n \in Names : DeleteAutomation(n)
       \/ \E a \in Accounts : CloseAccount(a)
       \/ LoadRules \/ GiveUpRules
       \/ \E t \in Payments, k \in Keys, d \in Days, out \in BOOLEAN : Arrive(t, k, d, out)
       \/ \E t \in Payments : Remove(t)
    /\ InCalendar

Spec == Init /\ [][Next]_vars
------------------------------------------------------------------------------
(* Every payment that goes out, with the account and payee of something that *)
(* is tracked, is linked to something, unless a person took it off, it was   *)
(* sorted by rules read before a change, or something else that it had been  *)
(* linked to was deleted (README.md:206-209): what arrived during a pause is *)
(* caught up on when it ends, and a new payee finds what was there           *)
(* (finance/subscriptions.py:433-435).                                       *)
CaughtUp ==
    \A t \in Payments \ loose, i \in Items :
        There(t) /\ pay[t].out /\ Here(i) /\ item[i].active /\ pay[t].key = item[i].key
            => pay[t].item # None

(* due_dates starts its count close to the first day instead of at the next  *)
(* payment, and still gives every due date of the days asked for, and no     *)
(* others, whatever the months between (finance/subscriptions.py:144-153).   *)
DueDatesRight(due, f, first, last) ==
    DueDates(due, f, first, last) = {DueAfter(due, f, k) : k \in Cycles} \cap (first..last)

(* Reactivating answers: it never ends in an error nobody foresaw.  This one *)
(* doesn't hold: an annual payment made half a year early is next due after  *)
(* the 13 months looked at (finance/subscriptions.py:484-487).               *)
ReactivationAnswers == ~broke
==============================================================================
