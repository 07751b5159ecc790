--------------------------- MODULE PlanningProofs ---------------------------
(***************************************************************************)
(* Proofs about what plans with money: the calendar, what recurs, budgets, *)
(* statement files and exchange rates, for any number of each and any      *)
(* calendar whose months have from 28 to 31 days.                          *)
(*                                                                         *)
(* Where a proof would go by induction over a number or a set it takes the *)
(* least number, or a smallest set, that would be wrong instead: there is  *)
(* one, since their orders are well-founded (Sums).                        *)
(***************************************************************************)
EXTENDS AssistantProofs

Cal == INSTANCE Calendar

-----------------------------------------------------------------------------
(* The calendar                                                              *)

LEMMA OneMonthMore ==
    ASSUME NEW a \in Int, NEW b \in Int, NEW c \in Int, NEW n \in Int, c - b \in 28..31,
           28 * (n - 1) <= b - a, b - a <= 31 * (n - 1)
    PROVE  28 * n <= c - a /\ c - a <= 31 * n
OBVIOUS

\* So many months are from 28 to 31 days each.
LEMMA MonthsApart ==
    ASSUME Cal!Ordered, NEW m \in 1..Len(Firsts), NEW n \in m..Len(Firsts)
    PROVE  /\ Firsts[m] \in Int /\ Firsts[n] \in Int
           /\ 28 * (n - m) <= Firsts[n] - Firsts[m] /\ Firsts[n] - Firsts[m] <= 31 * (n - m)
<1> DEFINE Wrong == {k \in m..Len(Firsts) : ~(28 * (k - m) <= Firsts[k] - Firsts[m] /\ Firsts[k] - Firsts[m] <= 31 * (k - m))}
<1>1. Len(Firsts) \in Nat /\ \A k \in 1..Len(Firsts) : Firsts[k] \in Int
    BY DEF Cal!Ordered
<1>2. SUFFICES ASSUME Wrong # {} PROVE FALSE
    <2>1. ASSUME Wrong = {} PROVE 28 * (n - m) <= Firsts[n] - Firsts[m] /\ Firsts[n] - Firsts[m] <= 31 * (n - m)
        <3>1. n \notin Wrong
            BY <2>1
        <3> QED
            BY <3>1
    <2> QED
        BY <1>1, <2>1
<1>3. PICK k \in Wrong : \A j \in Wrong : k <= j
    <2>1. Wrong \in SUBSET Nat
        BY <1>1
    <2> HIDE DEF Wrong
    <2> QED
        BY <1>2, <2>1, LeastNumber
<1>4. k # m /\ k \in m..Len(Firsts)
    BY <1>1
<1>5. k - 1 \in m..Len(Firsts) /\ k - 1 \notin Wrong /\ k - 1 \in 1..Len(Firsts) /\ k \in Int
    BY <1>1, <1>3, <1>4
<1>6. Firsts[k] - Firsts[k - 1] \in 28..31
    <2>1. k - 1 \in Cal!Months /\ (k - 1) + 1 = k
        BY <1>1, <1>4, <1>5 DEF Cal!Months
    <2> QED
        BY <2>1 DEF Cal!Ordered
<1>7. /\ 28 * ((k - 1) - m) <= Firsts[k - 1] - Firsts[m] /\ Firsts[k - 1] - Firsts[m] <= 31 * ((k - 1) - m)
      /\ ~(28 * (k - m) <= Firsts[k] - Firsts[m] /\ Firsts[k] - Firsts[m] <= 31 * (k - m))
    BY <1>3, <1>5
<1>8. Firsts[k] \in Int /\ Firsts[k - 1] \in Int /\ Firsts[m] \in Int /\ k \in Int /\ m \in Int
    BY <1>1, <1>4, <1>5
<1> HIDE DEF Wrong
<1> QED
    <2>1. 28 * ((k - m) - 1) <= Firsts[k - 1] - Firsts[m] /\ Firsts[k - 1] - Firsts[m] <= 31 * ((k - m) - 1)
        <3>1. (k - 1) - m = (k - m) - 1
            BY <1>8
        <3> QED
            BY <1>7, <3>1
    <2>2. 28 * (k - m) <= Firsts[k] - Firsts[m] /\ Firsts[k] - Firsts[m] <= 31 * (k - m)
        <3> DEFINE a == Firsts[m]
                   b == Firsts[k - 1]
                   c == Firsts[k]
                   d == k - m
        <3>1. a \in Int /\ b \in Int /\ c \in Int /\ d \in Int /\ c - b \in 28..31
            BY <1>6, <1>8
        <3>2. 28 * (d - 1) <= b - a /\ b - a <= 31 * (d - 1)
            BY <2>1
        <3> HIDE DEF a, b, c, d
        <3>3. 28 * d <= c - a /\ c - a <= 31 * d
            BY <3>1, <3>2, OneMonthMore
        <3> QED
            BY <3>3 DEF a, c, d
    <2> QED
        BY <1>7, <2>2

LEMMA MonthIs ==
    ASSUME Cal!Ordered, NEW d \in Cal!AllDays
    PROVE  /\ Cal!MonthOf(d) \in Cal!Months /\ d \in Int
           /\ Firsts[Cal!MonthOf(d)] <= d /\ d < Firsts[Cal!MonthOf(d) + 1]
<1> DEFINE Since == {m \in Cal!Months : d < Firsts[m + 1]}
<1>1. Len(Firsts) \in Nat /\ Len(Firsts) > 1 /\ \A k \in 1..Len(Firsts) : Firsts[k] \in Int
    BY DEF Cal!Ordered
<1>2. d \in Int /\ Firsts[1] <= d /\ d < Firsts[Len(Firsts)]
    BY <1>1 DEF Cal!AllDays, Cal!Beyond
<1>3. Len(Firsts) - 1 \in Since
    BY <1>1, <1>2 DEF Cal!Months
<1>4. PICK m \in Since : \A n \in Since : m <= n
    <2>1. Since \in SUBSET Nat
        BY <1>1 DEF Cal!Months
    <2> HIDE DEF Since
    <2> QED
        BY <1>3, <2>1, LeastNumber
<1>5. Firsts[m] <= d
    <2>1. CASE m = 1
        BY <1>2, <2>1
    <2>2. CASE m # 1
        BY <1>1, <1>2, <1>4, <2>2 DEF Cal!Months
    <2> QED
        BY <2>1, <2>2
<1> QED
    BY <1>2, <1>4, <1>5 DEF Cal!MonthOf

\* A day so many months on: in the calendar or just after it, not too far, and
\* never before one fewer months on.
LEMMA Added ==
    ASSUME Cal!Ordered, NEW d \in Cal!AllDays, NEW k \in Nat
    PROVE  /\ Cal!AddMonths(d, k) \in Int /\ Cal!AddMonths(d, k) <= d + 31 * k
           /\ Cal!AddMonths(d, k) <= Firsts[Len(Firsts)]
           /\ IF Cal!MonthOf(d) + k \in Cal!Months
              THEN /\ Firsts[Cal!MonthOf(d) + k] <= Cal!AddMonths(d, k)
                   /\ Cal!AddMonths(d, k) < Firsts[Cal!MonthOf(d) + k + 1]
              ELSE Cal!AddMonths(d, k) = Firsts[Len(Firsts)]
<1> DEFINE m == Cal!MonthOf(d)
           n == m + k
<1>1. /\ Len(Firsts) \in Nat /\ m \in 1..Len(Firsts) - 1 /\ d \in Int
      /\ Firsts[m] <= d /\ Firsts[m] \in Int /\ Firsts[Len(Firsts)] \in Int
    BY MonthIs DEF Cal!Ordered, Cal!Months
<1>0. m \in 1..Len(Firsts) /\ Len(Firsts) \in m..Len(Firsts)
    BY <1>1
<1> HIDE DEF m
<1>2. CASE n \in Cal!Months
    <2>1. n \in 1..Len(Firsts) /\ n + 1 \in 1..Len(Firsts) /\ n \in m..Len(Firsts) /\ n + 1 \in (n + 1)..Len(Firsts)
        BY <1>1, <1>2 DEF Cal!Months
    <2>2. /\ Firsts[n] \in Int /\ Firsts[n + 1] \in Int /\ Firsts[n + 1] - Firsts[n] \in 28..31
          /\ Firsts[n] - Firsts[m] <= 31 * k /\ Firsts[n + 1] <= Firsts[Len(Firsts)]
        <3>1. Firsts[n] \in Int /\ Firsts[n] - Firsts[m] <= 31 * (n - m)
            <4> HIDE DEF n
            <4> QED
                BY <1>0, <2>1, MonthsApart
        <3>2. n - m = k
            BY <1>1
        <3>3. Firsts[n + 1] \in Int /\ Firsts[n + 1] - Firsts[n] \in 28..31
            BY <1>2, <2>1 DEF Cal!Ordered
        <3>4. 28 * (Len(Firsts) - (n + 1)) <= Firsts[Len(Firsts)] - Firsts[n + 1]
            BY <1>1, <2>1, MonthsApart
        <3>5. Firsts[n + 1] <= Firsts[Len(Firsts)]
            BY <1>1, <2>1, <3>3, <3>4
        <3> QED
            BY <3>1, <3>2, <3>3, <3>5
    <2>3. Cal!AddMonths(d, k) = Firsts[n] + Cal!Lesser(d - Firsts[m], (Firsts[n + 1] - Firsts[n]) - 1)
        BY <1>2 DEF Cal!AddMonths, Cal!Length, m
    <2> HIDE DEF n
    <2>4. /\ Cal!AddMonths(d, k) \in Int /\ Cal!AddMonths(d, k) <= Firsts[n] + (d - Firsts[m])
          /\ Firsts[n] <= Cal!AddMonths(d, k) /\ Cal!AddMonths(d, k) < Firsts[n + 1]
        <3> DEFINE x == d - Firsts[m]
                   y == (Firsts[n + 1] - Firsts[n]) - 1
        <3>1. x \in Int /\ y \in Int /\ 0 <= x /\ 0 <= y /\ y < Firsts[n + 1] - Firsts[n]
            <4>1. x \in Int /\ 0 <= x
                BY <1>1
            <4> DEFINE gap == Firsts[n + 1] - Firsts[n]
            <4>2. gap \in 28..31
                BY <2>2
            <4> HIDE DEF gap, x
            <4>3. gap - 1 \in Int /\ 0 <= gap - 1 /\ gap - 1 < gap
                BY <4>2
            <4> QED
                BY <4>1, <4>3 DEF gap
        <3> HIDE DEF x, y
        <3>2. /\ Cal!Lesser(x, y) \in Int /\ Cal!Lesser(x, y) <= x
              /\ 0 <= Cal!Lesser(x, y) /\ Cal!Lesser(x, y) <= y
            BY <3>1 DEF Cal!Lesser
        <3>3. Cal!AddMonths(d, k) = Firsts[n] + Cal!Lesser(x, y)
            BY <2>3 DEF x, y
        <3>4. x = d - Firsts[m]
            BY DEF x
        <3> DEFINE a == Firsts[n]
                   b == Firsts[n + 1]
                   l == Cal!Lesser(x, y)
        <3>5. a \in Int /\ b \in Int /\ l \in Int /\ l <= x /\ 0 <= l /\ l <= y /\ y < b - a
            BY <2>2, <3>1, <3>2
        <3> HIDE DEF a, b, l
        <3>6. a + l \in Int /\ a + l <= a + x /\ a <= a + l /\ a + l < b
            BY <3>1, <3>5
        <3> QED
            BY <3>3, <3>4, <3>6 DEF a, b, l
    <2>5. Cal!AddMonths(d, k) <= d + 31 * k /\ Cal!AddMonths(d, k) <= Firsts[Len(Firsts)]
        <3> DEFINE a == Cal!AddMonths(d, k)
                   b == Firsts[n]
                   c == Firsts[m]
                   e == Firsts[n + 1]
                   z == Firsts[Len(Firsts)]
        <3>1. a \in Int /\ b \in Int /\ c \in Int /\ e \in Int /\ z \in Int /\ d \in Int /\ k \in Nat
            BY <1>1, <2>2, <2>4
        <3>2. a <= b + (d - c) /\ b - c <= 31 * k /\ a < e /\ e <= z
            BY <2>2, <2>4
        <3> HIDE DEF a, b, c, e, z
        <3>3. a <= d + 31 * k /\ a <= z
            BY <3>1, <3>2
        <3> QED
            BY <3>3 DEF a, z
    <2> QED
        BY <1>2, <2>4, <2>5 DEF n, m
<1>3. CASE n \notin Cal!Months
    <2>1. Cal!AddMonths(d, k) = Firsts[Len(Firsts)]
        BY <1>3 DEF Cal!AddMonths, Cal!Beyond, m
    <2>2. Firsts[Len(Firsts)] - Firsts[m] <= 31 * (Len(Firsts) - m)
        BY <1>0, MonthsApart
    <2>3. Len(Firsts) - m <= k
        BY <1>1, <1>3 DEF Cal!Months
    <2>4. Firsts[Len(Firsts)] <= d + 31 * k
        BY <1>1, <2>2, <2>3
    <2> QED
        BY <1>1, <1>3, <2>1, <2>4 DEF n, m
<1> QED
    BY <1>2, <1>3

LEMMA AddedInOrder ==
    ASSUME Cal!Ordered, NEW d \in Cal!AllDays, NEW k \in Nat, NEW j \in Nat, k <= j
    PROVE  Cal!AddMonths(d, k) <= Cal!AddMonths(d, j)
<1> DEFINE m == Cal!MonthOf(d)
<1>1. Len(Firsts) \in Nat /\ m \in 1..Len(Firsts) - 1
    BY MonthIs DEF Cal!Ordered, Cal!Months
<1>2. /\ Cal!AddMonths(d, k) \in Int /\ Cal!AddMonths(d, k) <= Firsts[Len(Firsts)]
      /\ Cal!AddMonths(d, j) \in Int
      /\ m + k \in Cal!Months => Cal!AddMonths(d, k) < Firsts[m + k + 1]
      /\ m + j \in Cal!Months => Firsts[m + j] <= Cal!AddMonths(d, j)
      /\ m + j \notin Cal!Months => Cal!AddMonths(d, j) = Firsts[Len(Firsts)]
    BY Added
<1> HIDE DEF m
<1>3. CASE k = j
    BY <1>2, <1>3
<1>4. CASE k # j /\ m + j \in Cal!Months
    <2>1. m + k \in Cal!Months /\ m + k + 1 \in 1..Len(Firsts) /\ m + j \in (m + k + 1)..Len(Firsts)
        BY <1>1, <1>4 DEF Cal!Months
    <2>2. /\ Firsts[m + k + 1] \in Int /\ Firsts[m + j] \in Int
          /\ 28 * ((m + j) - (m + k + 1)) <= Firsts[m + j] - Firsts[m + k + 1]
        BY <2>1, MonthsApart
    <2>3. Firsts[m + k + 1] <= Firsts[m + j]
        BY <1>1, <2>1, <2>2
    <2> QED
        BY <1>2, <1>4, <2>1, <2>2, <2>3
<1>5. CASE m + j \notin Cal!Months
    BY <1>2, <1>5
<1> QED
    BY <1>3, <1>4, <1>5

-----------------------------------------------------------------------------
(* Recurring: payments of what is tracked are linked                       *)

\* What EXCEPT needs to know of an item and of a payment.
ItemFields(x) == x = [f \in {"state", "key", "every", "due", "cat", "active", "ends", "cancelled"} |-> x[f]]
PayFields(x) == x = [f \in {"state", "key", "day", "out", "item", "cat"} |-> x[f]]
ItemsShaped(f) == f = [i \in Items |-> f[i]] /\ \A i \in Items : ItemFields(f[i])
RowsShaped(f) == f = [t \in Payments |-> f[t]] /\ \A t \in Payments : PayFields(f[t])

\* No two that are tracked have the same account and payee.  Without it, what one
\* lets go of could be another's.
OneEach == \A i, j \in Items : Rec!Here(i) /\ Rec!Here(j) /\ item[i].key = item[j].key => i = j

RecurringInv == ItemsShaped(item) /\ RowsShaped(pay) /\ OneEach /\ Rec!CaughtUp

\* A row that is the same but for what it is linked to and its category.
SameRow(x, y) == x.state = y.state /\ x.key = y.key /\ x.out = y.out

LEMMA BackfilledRows ==
    ASSUME NEW i, NEW it, NEW rows, RowsShaped(rows)
    PROVE  LET new == Rec!Backfilled(i, it, rows) IN
           /\ RowsShaped(new)
           /\ \A t \in Payments :
                /\ SameRow(new[t], rows[t])
                /\ new[t].item = IF rows[t].state = "here" /\ rows[t].out /\ rows[t].key = it.key
                                 THEN i ELSE rows[t].item
<1> DEFINE new == Rec!Backfilled(i, it, rows)
<1>1. new = [t \in Payments |-> new[t]]
    BY DEF Rec!Backfilled
<1>2. ASSUME NEW t \in Payments
      PROVE  /\ PayFields(new[t]) /\ SameRow(new[t], rows[t])
             /\ new[t].item = IF rows[t].state = "here" /\ rows[t].out /\ rows[t].key = it.key
                              THEN i ELSE rows[t].item
    <2> DEFINE takes == rows[t].state = "here" /\ rows[t].out /\ rows[t].key = it.key
    <2>1. PayFields(rows[t])
        BY DEF RowsShaped
    <2>2. CASE takes
        <3>1. PICK cat : new[t] = [rows[t] EXCEPT !.item = i, !.cat = cat]
            BY <2>2 DEF Rec!Backfilled
        <3> HIDE DEF new
        <3>2. PayFields(new[t]) /\ SameRow(new[t], rows[t]) /\ new[t].item = i
            BY <2>1, <3>1 DEF PayFields, SameRow
        <3> QED
            BY <2>2, <3>2
    <2>3. CASE ~takes
        BY <2>1, <2>3 DEF Rec!Backfilled, SameRow
    <2> QED
        BY <2>2, <2>3
<1> QED
    BY <1>1, <1>2 DEF RowsShaped

LEMMA DetachedRows ==
    ASSUME NEW i, NEW rows, RowsShaped(rows)
    PROVE  LET new == Rec!Detached(i, rows) IN
           /\ RowsShaped(new)
           /\ \A t \in Payments :
                /\ SameRow(new[t], rows[t])
                /\ new[t].item = IF rows[t].item = i /\ rows[t].key = item[i].key THEN None ELSE rows[t].item
<1> DEFINE new == Rec!Detached(i, rows)
<1>1. new = [t \in Payments |-> new[t]]
    BY DEF Rec!Detached
<1>2. ASSUME NEW t \in Payments
      PROVE  /\ PayFields(new[t]) /\ SameRow(new[t], rows[t])
             /\ new[t].item = IF rows[t].item = i /\ rows[t].key = item[i].key THEN None ELSE rows[t].item
    BY DEF Rec!Detached, RowsShaped, PayFields, SameRow
<1> QED
    BY <1>1, <1>2 DEF RowsShaped

LEMMA RecategorisedRows ==
    ASSUME NEW i, NEW cat, NEW rows, RowsShaped(rows)
    PROVE  LET new == Rec!Recategorised(i, cat, rows) IN
           /\ RowsShaped(new)
           /\ \A t \in Payments : SameRow(new[t], rows[t]) /\ new[t].item = rows[t].item
<1> DEFINE new == Rec!Recategorised(i, cat, rows)
<1>1. new = [t \in Payments |-> new[t]]
    BY DEF Rec!Recategorised
<1>2. ASSUME NEW t \in Payments
      PROVE  PayFields(new[t]) /\ SameRow(new[t], rows[t]) /\ new[t].item = rows[t].item
    BY DEF Rec!Recategorised, RowsShaped, PayFields, SameRow
<1> QED
    BY <1>1, <1>2 DEF RowsShaped

\* What tracks no more than before, and lets go of nothing but loose payments.
LEMMA TracksNoMore ==
    ASSUME RecurringInv, ItemsShaped(item'), RowsShaped(pay'),
           \A i \in Items : Rec!Here(i)' => /\ Rec!Here(i) /\ item'[i].key = item[i].key
                                            /\ item'[i].active = item[i].active,
           \A t \in Payments \ loose' : \/ pay'[t].state # "here" \/ pay'[t].item # None
                                        \/ t \notin loose /\ SameRow(pay'[t], pay[t]) /\ pay'[t].item = pay[t].item
    PROVE  RecurringInv'
<1>1. OneEach'
    BY DEF RecurringInv, OneEach
<1>2. Rec!CaughtUp'
    BY DEF RecurringInv, Rec!CaughtUp, Rec!There, Rec!Here, SameRow
<1> QED
    BY <1>1, <1>2 DEF RecurringInv

\* What tracks one more, or another payee, or again, takes up its payments.
LEMMA TakesUp ==
    ASSUME None \notin Items, RecurringInv, NEW i \in Items, NEW it, NEW rows, ItemFields(it), RowsShaped(rows),
           item' = [item EXCEPT ![i] = it], pay' = Rec!Backfilled(i, it, rows), loose' = Rec!StillLoose(pay'),
           \A j \in Items \ {i} : Rec!Here(j) => item[j].key # it.key,
           \A t \in Payments : SameRow(rows[t], pay[t]),
           \A t \in Payments : \/ rows[t].item = pay[t].item
                               \/ \A j \in Items \ {i} : Rec!Here(j) => item[j].key # pay[t].key
    PROVE  RecurringInv'
<1>1. /\ RowsShaped(pay')
      /\ \A t \in Payments : /\ SameRow(pay'[t], rows[t])
                             /\ pay'[t].item = IF rows[t].state = "here" /\ rows[t].out /\ rows[t].key = it.key
                                               THEN i ELSE rows[t].item
    BY BackfilledRows
<1>2. /\ ItemsShaped(item')
      /\ \A j \in Items : item'[j] = IF j = i THEN it ELSE item[j]
    BY DEF RecurringInv, ItemsShaped
<1>3. OneEach'
    BY <1>2 DEF RecurringInv, OneEach, Rec!Here
<1>4. Rec!CaughtUp'
    <2> SUFFICES ASSUME NEW t \in Payments \ loose', NEW j \in Items,
                        pay'[t].state = "here", pay'[t].out, item'[j].state = "here", item'[j].active,
                        pay'[t].key = item'[j].key, pay'[t].item = None
                 PROVE  FALSE
        BY DEF Rec!CaughtUp, Rec!There, Rec!Here
    <2>1. t \notin loose
        BY DEF Rec!StillLoose
    <2>2. j # i
        <3>1. SameRow(pay'[t], rows[t])
            BY <1>1
        <3>2. j = i => item'[j] = it
            BY <1>2
        <3>3. rows[t].state = "here" /\ rows[t].out /\ rows[t].key = it.key => pay'[t].item = i
            BY <1>1
        <3> QED
            BY <3>1, <3>2, <3>3 DEF SameRow
    <2>3. item'[j] = item[j]
        BY <1>2, <2>2
    <2>4. SameRow(pay'[t], pay[t]) /\ rows[t].item = None
        <3>1. SameRow(pay'[t], rows[t]) /\ SameRow(rows[t], pay[t])
            BY <1>1
        <3>2. pay'[t].item = i \/ pay'[t].item = rows[t].item
            BY <1>1
        <3> QED
            BY <3>1, <3>2 DEF SameRow
    <2>5. pay[t].item = None
        BY <2>2, <2>3, <2>4 DEF Rec!Here, SameRow
    <2> QED
        BY <2>1, <2>3, <2>4, <2>5 DEF RecurringInv, Rec!CaughtUp, Rec!There, Rec!Here, SameRow
<1> QED
    BY <1>1, <1>2, <1>3, <1>4 DEF RecurringInv

LEMMA CreateKeeps ==
    ASSUME None \notin Items, RecurringInv, NEW i \in Items, NEW key, NEW f, NEW due, NEW ends, NEW cat,
           Rec!Create(i, key, f, due, ends, cat)
    PROVE  RecurringInv'
<1> DEFINE it == [state |-> "here", key |-> key, every |-> f, due |-> due, cat |-> cat,
                  active |-> TRUE, ends |-> ends, cancelled |-> None]
<1>1. /\ item' = [item EXCEPT ![i] = it]
      /\ pay' = Rec!Backfilled(i, it, pay) /\ loose' = Rec!StillLoose(pay')
      /\ Rec!Untracked(key, i)
    BY DEF Rec!Create
<1>2. ItemFields(it) /\ it.key = key
    BY DEF ItemFields
<1> HIDE DEF it
<1>3. RowsShaped(pay) /\ \A t \in Payments : SameRow(pay[t], pay[t])
    BY DEF RecurringInv, SameRow
<1> QED
    BY <1>1, <1>2, <1>3, TakesUp DEF Rec!Untracked

LEMMA ChangeKeeps ==
    ASSUME None \notin Items, RecurringInv, NEW i \in Items, NEW e, Rec!Change(i, e)
    PROVE  RecurringInv'
<1> DEFINE it == [item[i] EXCEPT !.key = Rec!Said(e.key, @), !.active = Rec!Said(e.active, @),
                      !.ends = Rec!Said(e.ends, @), !.cat = Rec!Said(e.cat, @), !.due = Rec!Said(e.due, @),
                      !.every = Rec!Said(e.every, @)]
           moved == it.key # item[i].key
           freed == IF moved THEN Rec!Detached(i, pay) ELSE pay
           sorted == IF e.cat = Unset THEN freed ELSE Rec!Recategorised(i, e.cat, freed)
<1>1. /\ Rec!Here(i) /\ (moved => Rec!Untracked(it.key, i))
      /\ item' = [item EXCEPT ![i] = it]
      /\ pay' = IF Rec!CatchesUp(i, it) THEN Rec!Backfilled(i, it, sorted) ELSE sorted
      /\ loose' = Rec!StillLoose(pay')
    BY DEF Rec!Change
<1>2. ItemFields(it) /\ it.state = item[i].state
    BY DEF RecurringInv, ItemsShaped, ItemFields
<1>3. RowsShaped(pay) /\ \A t \in Payments : SameRow(pay[t], pay[t])
    BY DEF RecurringInv, SameRow
<1> HIDE DEF it
<1>4. RowsShaped(freed) /\ \A t \in Payments :
         /\ SameRow(freed[t], pay[t])
         /\ freed[t].item = IF moved /\ pay[t].item = i /\ pay[t].key = item[i].key THEN None ELSE pay[t].item
    <2>1. CASE moved
        BY <1>3, <2>1, DetachedRows
    <2>2. CASE ~moved
        BY <1>3, <2>2
    <2> QED
        BY <2>1, <2>2
<1> HIDE DEF freed
<1>5. RowsShaped(sorted) /\ \A t \in Payments : SameRow(sorted[t], pay[t]) /\ sorted[t].item = freed[t].item
    <2>1. CASE e.cat = Unset
        BY <1>4, <2>1
    <2>2. CASE e.cat # Unset
        <3>1. /\ RowsShaped(sorted)
              /\ \A t \in Payments : SameRow(sorted[t], freed[t]) /\ sorted[t].item = freed[t].item
            BY <1>4, <2>2, RecategorisedRows
        <3> HIDE DEF sorted
        <3> QED
            BY <1>4, <3>1 DEF SameRow
    <2> QED
        BY <2>1, <2>2
<1> HIDE DEF sorted
<1>6. \A j \in Items \ {i} : Rec!Here(j) => item[j].key # item[i].key
    BY <1>1 DEF RecurringInv, OneEach
<1>7. \A j \in Items \ {i} : Rec!Here(j) => item[j].key # it.key
    BY <1>1, <1>6 DEF Rec!Untracked
<1>8. CASE Rec!CatchesUp(i, it)
    <2>1. pay' = Rec!Backfilled(i, it, sorted)
        BY <1>1, <1>8
    <2>2. \A t \in Payments : \/ sorted[t].item = pay[t].item
                              \/ \A j \in Items \ {i} : Rec!Here(j) => item[j].key # pay[t].key
        BY <1>4, <1>5, <1>6
    <2> QED
        BY <1>1, <1>2, <1>5, <1>7, <2>1, <2>2, TakesUp
<1>9. CASE ~Rec!CatchesUp(i, it)
    <2>1. pay' = sorted
        BY <1>1, <1>9
    <2>2. ItemsShaped(item') /\ \A j \in Items : item'[j] = IF j = i THEN it ELSE item[j]
        BY <1>1, <1>2 DEF RecurringInv, ItemsShaped
    <2>3. OneEach'
        BY <1>2, <1>7, <2>2 DEF RecurringInv, OneEach, Rec!Here
    <2>4. Rec!CaughtUp'
        <3> SUFFICES ASSUME NEW t \in Payments \ loose', NEW j \in Items,
                            pay'[t].state = "here", pay'[t].out, item'[j].state = "here", item'[j].active,
                            pay'[t].key = item'[j].key, pay'[t].item = None
                     PROVE  FALSE
            BY DEF Rec!CaughtUp, Rec!There, Rec!Here
        <3>1. t \notin loose /\ SameRow(pay'[t], pay[t]) /\ pay'[t].item = freed[t].item
            BY <1>1, <1>5, <2>1 DEF Rec!StillLoose
        <3>2. item[j].state = "here" /\ item[j].active /\ item[j].key = item'[j].key
            BY <1>2, <1>9, <2>2 DEF Rec!CatchesUp
        <3>3. pay[t].item # None
            BY <3>1, <3>2 DEF RecurringInv, Rec!CaughtUp, Rec!There, Rec!Here, SameRow
        <3>4. moved /\ pay[t].key = item[i].key
            BY <1>4, <3>1, <3>3
        <3>5. j # i
            BY <1>9, <2>2, <3>4 DEF Rec!CatchesUp
        <3> QED
            BY <1>6, <3>1, <3>2, <3>4, <3>5 DEF Rec!Here, SameRow
    <2> QED
        BY <1>5, <2>1, <2>2, <2>3, <2>4 DEF RecurringInv
<1> QED
    BY <1>8, <1>9

LEMMA CancelKeeps ==
    ASSUME RecurringInv, NEW i \in Items, NEW on, NEW ends, Rec!Cancel(i, on, ends)
    PROVE  RecurringInv'
<1>1. item' = [item EXCEPT ![i].cancelled = on, ![i].ends = IF ends = None THEN on ELSE ends]
    BY DEF Rec!Cancel
<1>2. ItemsShaped(item') /\ \A j \in Items : /\ item'[j].state = item[j].state /\ item'[j].key = item[j].key
                                        /\ item'[j].active = item[j].active
    BY <1>1 DEF RecurringInv, ItemsShaped, ItemFields
<1>3. pay' = pay /\ loose' = loose
    BY DEF Rec!Cancel
<1>4. RowsShaped(pay') /\ \A t \in Payments : SameRow(pay'[t], pay[t])
    BY <1>3 DEF RecurringInv, SameRow
<1> QED
    BY <1>2, <1>3, <1>4, TracksNoMore DEF Rec!Here

LEMMA ReactivateKeeps ==
    ASSUME None \notin Items, RecurringInv, NEW i \in Items, NEW given, NEW now, Rec!Reactivate(i, given, now)
    PROVE  RecurringInv'
<1> DEFINE dates == Rec!DueDates(item[i].due, item[i].every, now, Rec!AddMonths(now, 13))
           it == [item[i] EXCEPT !.cancelled = None, !.ends = None, !.active = TRUE,
                                 !.due = IF given # None THEN given ELSE Rec!Least(dates)]
<1>1. /\ Rec!Here(i)
      /\ \/ UNCHANGED <<item, pay, loose>>
         \/ /\ item' = [item EXCEPT ![i] = it]
            /\ pay' = IF item[i].active THEN pay ELSE Rec!Backfilled(i, it, pay)
            /\ loose' = Rec!StillLoose(pay')
    BY DEF Rec!Reactivate
<1>2. ItemFields(it) /\ it.state = item[i].state /\ it.key = item[i].key /\ it.active
    BY DEF RecurringInv, ItemsShaped, ItemFields
<1> HIDE DEF it
<1>3. RowsShaped(pay) /\ \A t \in Payments : SameRow(pay[t], pay[t])
    BY DEF RecurringInv, SameRow
<1>4. CASE UNCHANGED <<item, pay, loose>>
    BY <1>4 DEF RecurringInv, OneEach, Rec!CaughtUp, Rec!Here, Rec!There
<1>5. CASE /\ item' = [item EXCEPT ![i] = it] /\ ~item[i].active
           /\ pay' = Rec!Backfilled(i, it, pay) /\ loose' = Rec!StillLoose(pay')
    <2>1. \A j \in Items \ {i} : Rec!Here(j) => item[j].key # it.key
        BY <1>1, <1>2 DEF RecurringInv, OneEach
    <2> QED
        BY <1>2, <1>3, <1>5, <2>1, TakesUp
<1>6. CASE /\ item' = [item EXCEPT ![i] = it] /\ item[i].active
           /\ pay' = pay /\ loose' = Rec!StillLoose(pay')
    <2>1. ItemsShaped(item') /\ \A j \in Items : item'[j] = IF j = i THEN it ELSE item[j]
        BY <1>2, <1>6 DEF RecurringInv, ItemsShaped
    <2>2. OneEach'
        BY <1>1, <1>2, <2>1 DEF RecurringInv, OneEach, Rec!Here
    <2>3. Rec!CaughtUp'
        BY <1>1, <1>2, <1>6, <2>1 DEF RecurringInv, Rec!CaughtUp, Rec!Here, Rec!There, Rec!StillLoose
    <2> QED
        BY <1>3, <1>6, <2>1, <2>2, <2>3 DEF RecurringInv
<1> QED
    BY <1>1, <1>4, <1>5, <1>6

LEMMA DeleteKeeps ==
    ASSUME RecurringInv, NEW i \in Items, Rec!Delete(i)
    PROVE  RecurringInv'
<1>1. /\ item' = [item EXCEPT ![i] = [Rec!NoItem EXCEPT !.state = "gone"]]
      /\ pay' = [t \in Payments |-> IF pay[t].item = i THEN [pay[t] EXCEPT !.item = None] ELSE pay[t]]
      /\ loose' = loose \cup {t \in Payments : pay[t].item = i /\ pay[t].key # item[i].key}
      /\ Rec!Here(i)
    BY DEF Rec!Delete
<1> DEFINE none == [Rec!NoItem EXCEPT !.state = "gone"]
<1>2. ItemFields(none) /\ none.state = "gone"
    <2>1. ItemFields(Rec!NoItem)
        BY DEF ItemFields, Rec!NoItem
    <2> QED
        BY <2>1 DEF ItemFields
<1> HIDE DEF none
<1>3. ItemsShaped(item') /\ \A j \in Items : item'[j] = IF j = i THEN none ELSE item[j]
    BY <1>1, <1>2 DEF RecurringInv, ItemsShaped, none
<1>4. RowsShaped(pay') /\ \A t \in Payments : /\ SameRow(pay'[t], pay[t])
                                         /\ pay'[t].item = IF pay[t].item = i THEN None ELSE pay[t].item
    <2>1. ASSUME NEW t \in Payments
          PROVE  /\ PayFields(pay'[t]) /\ SameRow(pay'[t], pay[t])
                 /\ pay'[t].item = IF pay[t].item = i THEN None ELSE pay[t].item
        <3>1. CASE pay[t].item = i
            BY <1>1, <3>1 DEF RecurringInv, RowsShaped, PayFields, SameRow
        <3>2. CASE pay[t].item # i
            BY <1>1, <3>2 DEF RecurringInv, RowsShaped, PayFields, SameRow
        <3> QED
            BY <3>1, <3>2
    <2> QED
        BY <1>1, <2>1 DEF RowsShaped
<1>5. OneEach'
    BY <1>2, <1>3 DEF RecurringInv, OneEach, Rec!Here
<1>6. Rec!CaughtUp'
    <2> SUFFICES ASSUME NEW t \in Payments \ loose', NEW j \in Items,
                        pay'[t].state = "here", pay'[t].out, item'[j].state = "here", item'[j].active,
                        pay'[t].key = item'[j].key, pay'[t].item = None
                 PROVE  FALSE
        BY DEF Rec!CaughtUp, Rec!There, Rec!Here
    <2>1. j # i /\ item'[j] = item[j]
        BY <1>2, <1>3
    <2>2. t \notin loose /\ pay[t].item # None
        BY <1>1, <1>4, <2>1 DEF RecurringInv, Rec!CaughtUp, Rec!There, Rec!Here, SameRow
    <2>3. pay[t].item = i /\ pay[t].key = item[i].key
        BY <1>1, <1>4, <2>2
    <2> QED
        BY <1>1, <1>4, <2>1, <2>3 DEF RecurringInv, OneEach, Rec!Here, SameRow
<1> QED
    BY <1>3, <1>4, <1>5, <1>6 DEF RecurringInv

\* An item that is next due another day is otherwise the same.
LEMMA Rescheduled ==
    ASSUME ItemsShaped(item), NEW i, item' = item \/ \E due : item' = [item EXCEPT ![i].due = due]
    PROVE  ItemsShaped(item') /\ \A j \in Items : /\ item'[j].state = item[j].state /\ item'[j].key = item[j].key
                                             /\ item'[j].active = item[j].active
<1>1. CASE item' = item
    BY <1>1
<1>2. ASSUME NEW due, item' = [item EXCEPT ![i].due = due]
      PROVE  ItemsShaped(item') /\ \A j \in Items : /\ item'[j].state = item[j].state /\ item'[j].key = item[j].key
                                                  /\ item'[j].active = item[j].active
    <2> DEFINE it == [item[i] EXCEPT !.due = due]
    <2>1. item' = [item EXCEPT ![i] = it]
        BY <1>2
    <2>2. i \in Items =>
              ItemFields(it) /\ it.state = item[i].state /\ it.key = item[i].key /\ it.active = item[i].active
        BY DEF ItemsShaped, ItemFields
    <2> HIDE DEF it
    <2>3. \A j \in Items : item'[j] = IF j = i THEN it ELSE item[j]
        BY <2>1 DEF ItemsShaped
    <2>4. item' = [j \in Items |-> item'[j]]
        BY <2>1 DEF ItemsShaped
    <2> QED
        BY <2>2, <2>3, <2>4 DEF ItemsShaped
<1> QED
    BY <1>1, <1>2

\* Payments that are linked by hand or by an automation.
LEMMA LinkedRows ==
    ASSUME RecurringInv, None \notin Items, NEW i \in Items, NEW found, NEW cat,
           pay' = [t \in Payments |-> IF t \in found
                                      THEN [pay[t] EXCEPT !.item = i, !.cat = IF cat = None THEN @ ELSE cat]
                                      ELSE pay[t]],
           item' = item \/ \E due : item' = [item EXCEPT ![i].due = due],
           loose' = loose \ found
    PROVE  RecurringInv'
<1>1. ASSUME NEW t \in Payments
      PROVE  /\ PayFields(pay'[t])
             /\ pay'[t].item # None \/ (t \notin found /\ pay'[t] = pay[t])
    <2>1. CASE t \in found
        <3>1. PICK c : pay'[t] = [pay[t] EXCEPT !.item = i, !.cat = c]
            BY <2>1
        <3> QED
            BY <3>1 DEF RecurringInv, RowsShaped, PayFields
    <2>2. CASE t \notin found
        BY <2>2 DEF RecurringInv, RowsShaped
    <2> QED
        BY <2>1, <2>2
<1>2. RowsShaped(pay')
    BY <1>1 DEF RowsShaped
<1>3. ItemsShaped(item') /\ \A j \in Items : /\ item'[j].state = item[j].state /\ item'[j].key = item[j].key
                                        /\ item'[j].active = item[j].active
    BY Rescheduled DEF RecurringInv
<1> QED
    BY <1>1, <1>2, <1>3, TracksNoMore DEF SameRow, Rec!Here

LEMMA LinkKeeps ==
    ASSUME RecurringInv, None \notin Items, NEW i \in Items, NEW T, Rec!Link(i, T)
    PROVE  RecurringInv'
<1> DEFINE found == {t \in T : Rec!There(t)}
<1>1. /\ pay' = [t \in Payments |->
                    IF t \in found
                    THEN [pay[t] EXCEPT !.item = i, !.cat = IF item[i].cat = None THEN @ ELSE item[i].cat]
                    ELSE pay[t]]
      /\ item' = item \/ item' = [item EXCEPT ![i] = Rec!Advanced(@, Rec!Latest(pay, found))]
      /\ loose' = loose \ found
    BY DEF Rec!Link
<1>2. item' = item \/ \E due : item' = [item EXCEPT ![i].due = due]
    BY <1>1 DEF Rec!Advanced
<1> HIDE DEF found
<1> QED
    BY <1>1, <1>2, LinkedRows

LEMMA SaveAutomationKeeps ==
    ASSUME RecurringInv, None \notin Items, NEW n, NEW i \in Items, Rec!SaveAutomation(n, i)
    PROVE  RecurringInv'
<1> DEFINE found == {t \in Payments : Rec!There(t) /\ pay[t].out /\ pay[t].key[2] = n}
<1>1. \/ UNCHANGED <<pay, item, loose>>
      \/ /\ pay' = [t \in Payments |->
                       IF t \in found
                       THEN [pay[t] EXCEPT !.item = i, !.cat = IF item[i].cat = None THEN @ ELSE item[i].cat]
                       ELSE pay[t]]
         /\ item' = [item EXCEPT ![i] = Rec!Advanced(@, Rec!Latest(pay, found))]
         /\ loose' = loose \ found
    BY DEF Rec!SaveAutomation
<1>2. CASE UNCHANGED <<pay, item, loose>>
    BY <1>2 DEF RecurringInv, OneEach, Rec!CaughtUp, Rec!Here, Rec!There
<1>3. CASE pay' = [t \in Payments |->
                      IF t \in found
                      THEN [pay[t] EXCEPT !.item = i, !.cat = IF item[i].cat = None THEN @ ELSE item[i].cat]
                      ELSE pay[t]]
           /\ item' = [item EXCEPT ![i] = Rec!Advanced(@, Rec!Latest(pay, found))]
           /\ loose' = loose \ found
    <2>1. \E due : item' = [item EXCEPT ![i].due = due]
        BY <1>3 DEF Rec!Advanced
    <2> HIDE DEF found
    <2> QED
        BY <1>3, <2>1, LinkedRows
<1> QED
    BY <1>1, <1>2, <1>3

LEMMA UnlinkKeeps ==
    ASSUME RecurringInv, NEW i \in Items, NEW t \in Payments, Rec!Unlink(i, t)
    PROVE  RecurringInv'
<1>1. pay' = [pay EXCEPT ![t].item = None] /\ loose' = loose \cup {t} /\ item' = item
    BY DEF Rec!Unlink
<1>2. RowsShaped(pay') /\ \A u \in Payments \ {t} : pay'[u] = pay[u]
    BY <1>1 DEF RecurringInv, RowsShaped, PayFields
<1>3. ItemsShaped(item')
    BY <1>1 DEF RecurringInv
<1> QED
    BY <1>1, <1>2, <1>3, TracksNoMore DEF SameRow, Rec!Here

LEMMA RemoveKeeps ==
    ASSUME RecurringInv, NEW t \in Payments, Rec!Remove(t)
    PROVE  RecurringInv'
<1> DEFINE went == [Rec!NoPayment EXCEPT !.state = "gone"]
<1>1. pay' = [pay EXCEPT ![t] = went] /\ loose' = loose \ {t} /\ item' = item
    BY DEF Rec!Remove
<1>2. PayFields(went) /\ went.state = "gone"
    <2>1. PayFields(Rec!NoPayment)
        BY DEF PayFields, Rec!NoPayment
    <2> QED
        BY <2>1 DEF PayFields
<1> HIDE DEF went
<1>3. RowsShaped(pay') /\ \A u \in Payments : pay'[u] = IF u = t THEN went ELSE pay[u]
    BY <1>1, <1>2 DEF RecurringInv, RowsShaped
<1>4. ItemsShaped(item')
    BY <1>1 DEF RecurringInv
<1>5. \A u \in Payments \ loose' : \/ pay'[u].state # "here" \/ pay'[u].item # None
                                   \/ u \notin loose /\ SameRow(pay'[u], pay[u]) /\ pay'[u].item = pay[u].item
    BY <1>1, <1>2, <1>3 DEF SameRow
<1> QED
    BY <1>1, <1>3, <1>4, <1>5, TracksNoMore DEF Rec!Here

\* A payment that rules which are not old find nothing for is nothing's.
LEMMA ArriveKeeps ==
    ASSUME RecurringInv, None \notin Items, NEW t \in Payments, NEW key, NEW day, NEW out, Rec!Arrive(t, key, day, out)
    PROVE  RecurringInv'
<1> DEFINE i == IF out THEN Rec!PickItem(rules, key) ELSE None
           row == [state |-> "here", key |-> key, day |-> day, out |-> out, item |-> i,
                   cat |-> IF i = None THEN None ELSE rules.item[i].cat]
           old == out /\ i = None /\ rules.item # item
<1>1. /\ pay' = [pay EXCEPT ![t] = row]
      /\ item' = item \/ \E due : item' = [item EXCEPT ![i].due = due]
      /\ loose' = IF old THEN loose \cup {t} ELSE loose
    BY DEF Rec!Arrive
<1>2. PayFields(row) /\ row.key = key /\ row.out = out /\ row.item = i
    BY DEF PayFields
<1>3. out /\ i = None /\ rules.item = item =>
         \A j \in Items : Rec!Here(j) /\ item[j].active => item[j].key # key
    BY DEF Rec!PickItem, Rec!Tracked, Rec!Here
<1> HIDE DEF i, row
<1>4. RowsShaped(pay') /\ \A u \in Payments : pay'[u] = IF u = t THEN row ELSE pay[u]
    BY <1>1, <1>2 DEF RecurringInv, RowsShaped
<1>5. ItemsShaped(item') /\ \A j \in Items : /\ item'[j].state = item[j].state /\ item'[j].key = item[j].key
                                        /\ item'[j].active = item[j].active
    BY <1>1, Rescheduled DEF RecurringInv
<1>6. OneEach'
    BY <1>5 DEF RecurringInv, OneEach, Rec!Here
<1>7. Rec!CaughtUp'
    <2> SUFFICES ASSUME NEW u \in Payments \ loose', NEW j \in Items,
                        pay'[u].state = "here", pay'[u].out, item'[j].state = "here", item'[j].active,
                        pay'[u].key = item'[j].key, pay'[u].item = None
                 PROVE  FALSE
        BY DEF Rec!CaughtUp, Rec!There, Rec!Here
    <2>1. CASE u = t
        BY <1>1, <1>2, <1>3, <1>4, <1>5, <2>1 DEF Rec!Here
    <2>2. CASE u # t
        BY <1>1, <1>4, <1>5, <2>2 DEF RecurringInv, Rec!CaughtUp, Rec!There, Rec!Here
    <2> QED
        BY <2>1, <2>2
<1> QED
    BY <1>4, <1>5, <1>6, <1>7 DEF RecurringInv

LEMMA RecurringStart == ASSUME Rec!Init PROVE RecurringInv
<1>1. ItemFields(Rec!NoItem) /\ Rec!NoItem.state = "none"
    BY DEF ItemFields, Rec!NoItem
<1>2. PayFields(Rec!NoPayment) /\ Rec!NoPayment.state = "new"
    BY DEF PayFields, Rec!NoPayment
<1> QED
    BY <1>1, <1>2 DEF Rec!Init, RecurringInv, ItemsShaped, RowsShaped, OneEach, Rec!CaughtUp, Rec!Here, Rec!There

LEMMA RecurringStep == ASSUME Rec!Bounds, RecurringInv, [Rec!Next]_Rec!vars PROVE RecurringInv'
<1>0. None \notin Items
    BY DEF Rec!Bounds
<1>1. CASE UNCHANGED <<item, pay, loose>>
    BY <1>1 DEF RecurringInv, OneEach, Rec!CaughtUp, Rec!Here, Rec!There
<1>2. CASE Rec!Next
    <2>1. ASSUME NEW i \in Items, NEW k, NEW f, NEW d, NEW c, Rec!Create(i, k, f, d, None, c)
          PROVE  RecurringInv'
        BY <1>0, <2>1, CreateKeeps
    <2>2. ASSUME NEW i \in Items, NEW e, Rec!Change(i, e) PROVE RecurringInv'
        BY <1>0, <2>2, ChangeKeeps
    <2>3. ASSUME NEW i \in Items, NEW on, NEW e, Rec!Cancel(i, on, e) PROVE RecurringInv'
        BY <2>3, CancelKeeps
    <2>4. ASSUME NEW i \in Items, NEW t, NEW g, Rec!Reactivate(i, g, t) PROVE RecurringInv'
        BY <1>0, <2>4, ReactivateKeeps
    <2>5. ASSUME NEW i \in Items, Rec!Delete(i) PROVE RecurringInv'
        BY <2>5, DeleteKeeps
    <2>6. ASSUME NEW i \in Items, NEW T, Rec!Link(i, T) PROVE RecurringInv'
        BY <1>0, <2>6, LinkKeeps
    <2>7. ASSUME NEW i \in Items, NEW t \in Payments, Rec!Unlink(i, t) PROVE RecurringInv'
        BY <2>7, UnlinkKeeps
    <2>8. ASSUME NEW n, NEW i \in Items, Rec!SaveAutomation(n, i) PROVE RecurringInv'
        BY <1>0, <2>8, SaveAutomationKeeps
    <2>9. ASSUME NEW n, Rec!DeleteAutomation(n) PROVE RecurringInv'
        BY <1>1, <2>9 DEF Rec!DeleteAutomation
    <2>10. ASSUME NEW a, Rec!CloseAccount(a) PROVE RecurringInv'
        BY <1>1, <2>10 DEF Rec!CloseAccount
    <2>11. CASE Rec!LoadRules \/ Rec!GiveUpRules
        BY <1>1, <2>11 DEF Rec!LoadRules, Rec!GiveUpRules
    <2>12. ASSUME NEW t \in Payments, NEW k, NEW d, NEW out, Rec!Arrive(t, k, d, out) PROVE RecurringInv'
        BY <1>0, <2>12, ArriveKeeps
    <2>13. ASSUME NEW t \in Payments, Rec!Remove(t) PROVE RecurringInv'
        BY <2>13, RemoveKeeps
    <2> QED
        BY <1>2, <2>1, <2>2, <2>3, <2>4, <2>5, <2>6, <2>7, <2>8, <2>9, <2>10, <2>11, <2>12, <2>13 DEF Rec!Next
<1> QED
    BY <1>1, <1>2 DEF Rec!vars

(* Whatever is tracked, paused, moved to another payee, cancelled, taken up   *)
(* again and deleted, and whatever payments arrive meanwhile: a payment with  *)
(* the account and payee of something that is tracked is linked, unless it is *)
(* one of the loose ones (finance/subscriptions.py:433-435).                  *)
THEOREM NoPaymentMissed == Rec!Bounds => (Rec!Spec => []CaughtUp)
<1>1. ASSUME Rec!Bounds PROVE Rec!Spec => []CaughtUp
    <2>1. Rec!Init => RecurringInv
        BY RecurringStart
    <2>2. RecurringInv /\ [Rec!Next]_Rec!vars => RecurringInv'
        BY <1>1, RecurringStep
    <2>3. RecurringInv => CaughtUp
        BY DEF RecurringInv, CaughtUp
    <2> QED
        BY <2>1, <2>2, <2>3, PTL DEF Rec!Spec
<1> QED
    BY <1>1

-----------------------------------------------------------------------------
(* Recurring: types                                                        *)

\* The first of some days.
LEMMA LeastIn ==
    ASSUME Cal!Ordered, NEW S \in SUBSET Cal!AllDays, S # {}
    PROVE  Rec!Least(S) \in S
<1> DEFINE Since == {d - Firsts[1] : d \in S}
<1>1. Firsts[1] \in Int /\ Firsts[Len(Firsts)] \in Int /\ \A d \in S : d \in Int /\ Firsts[1] <= d
    BY DEF Cal!Ordered, Cal!AllDays, Cal!Beyond
<1>2. Since \in SUBSET Nat /\ Since # {}
    BY <1>1
<1> HIDE DEF Since
<1>3. PICK n \in Since : \A m \in Since : n <= m
    BY <1>2, LeastNumber
<1>4. PICK d \in S : d - Firsts[1] = n
    BY <1>3 DEF Since
<1>5. ASSUME NEW c \in S PROVE d <= c
    <2>1. c - Firsts[1] \in Since
        BY DEF Since
    <2> QED
        BY <1>1, <1>3, <1>4, <2>1
<1> QED
    BY <1>5 DEF Rec!Least

LEMMA CalendarOfRec == Rec!Bounds => /\ Cal!Ordered /\ Rec!AllDays = Cal!AllDays /\ BillDays \in SUBSET Rec!AllDays
BY DEF Rec!Bounds, Rec!Ordered, Cal!Ordered, Rec!AllDays, Cal!AllDays, Rec!Beyond, Cal!Beyond, Rec!Months, Cal!Months

LEMMA NothingYet ==
    ASSUME Rec!Bounds
    PROVE  Rec!NoItem \in Rec!Item /\ Rec!NoPayment \in Rec!Payment
<1> DEFINE k == CHOOSE k \in Rec!Keys : TRUE
           f == CHOOSE f \in Frequencies : TRUE
           d == Rec!Least(BillDays)
<1>1. k \in Rec!Keys
    BY DEF Rec!Bounds
<1>2. f \in DOMAIN Rec!Every
    BY DEF Rec!Bounds
<1>3. d \in Rec!AllDays
    BY LeastIn, CalendarOfRec DEF Rec!Bounds
<1>4. /\ Rec!NoItem = [state |-> "none", key |-> k, every |-> f, due |-> d, cat |-> None, active |-> TRUE,
                       ends |-> None, cancelled |-> None]
      /\ Rec!NoPayment = [state |-> "new", key |-> k, day |-> d, out |-> TRUE, item |-> None, cat |-> None]
    BY DEF Rec!NoItem, Rec!NoPayment
<1> HIDE DEF k, f, d
<1> QED
    BY <1>1, <1>2, <1>3, <1>4 DEF Rec!Item, Rec!Payment, Rec!MaybeDay

\* An item that changes stays an item, as long as its due day is one.
LEMMA ItemsStay ==
    ASSUME item \in [Items -> Rec!Item], NEW i \in Items, NEW it, item' = [item EXCEPT ![i] = it],
           Rec!InCalendar, it.due \in Rec!AllDays => it \in Rec!Item
    PROVE  item' \in [Items -> Rec!Item]
<1>1. item'[i] = it
    OBVIOUS
<1>2. it.due \in Rec!AllDays
    BY <1>1 DEF Rec!InCalendar
<1> QED
    BY <1>2

\* A payment that is linked, and may get a category.
LEMMA PaymentLinked ==
    ASSUME NEW x \in Rec!Payment, NEW i \in Items \cup {None}, NEW cat \in Cats \cup {None}
    PROVE  /\ [x EXCEPT !.item = i] \in Rec!Payment /\ [x EXCEPT !.cat = cat] \in Rec!Payment
           /\ [x EXCEPT !.item = i, !.cat = IF cat = None THEN @ ELSE cat] \in Rec!Payment
BY DEF Rec!Payment

LEMMA BackfilledTyped ==
    ASSUME NEW i \in Items, NEW it, it.cat \in Cats \cup {None}, NEW rows \in [Payments -> Rec!Payment]
    PROVE  Rec!Backfilled(i, it, rows) \in [Payments -> Rec!Payment]
BY PaymentLinked DEF Rec!Backfilled

LEMMA LinkedTyped ==
    ASSUME NEW i \in Items, NEW found, NEW cat \in Cats \cup {None}, pay \in [Payments -> Rec!Payment],
           pay' = [t \in Payments |-> IF t \in found
                                      THEN [pay[t] EXCEPT !.item = i, !.cat = IF cat = None THEN @ ELSE cat]
                                      ELSE pay[t]]
    PROVE  pay' \in [Payments -> Rec!Payment]
BY PaymentLinked

\* A payment that is settled changes nothing but the day the next one is due.
LEMMA AdvancedTyped ==
    ASSUME NEW it \in Rec!Item, NEW d
    PROVE  Rec!Advanced(it, d).due \in Rec!AllDays => Rec!Advanced(it, d) \in Rec!Item
<1>1. \A n : [it EXCEPT !.due = n].due = n /\ (n \in Rec!AllDays => [it EXCEPT !.due = n] \in Rec!Item)
    BY DEF Rec!Item
<1>2. \E n : Rec!Advanced(it, d) = [it EXCEPT !.due = n]
    BY DEF Rec!Advanced
<1> QED
    BY <1>1, <1>2

\* What every action leaves right but for items and payments.
RestTyped ==
    /\ rule \in [Names -> Items \cup {None}] /\ closed \subseteq Accounts
    /\ rules \in Rec!Rules \cup {None}
    /\ loose \subseteq Payments /\ broke \in BOOLEAN /\ billSteps \in 0..MaxSteps

LEMMA StepCounts == ASSUME Rec!Bounds, billSteps \in 0..MaxSteps, Rec!Step PROVE billSteps' \in 0..MaxSteps
BY DEF Rec!Bounds, Rec!Step

LEMMA CreateTyped ==
    ASSUME Rec!Bounds, Rec!TypeOK, Rec!InCalendar, NEW i \in Items, NEW key \in Rec!Keys, NEW f \in Frequencies,
           NEW due \in BillDays, NEW cat \in Cats \cup {None}, Rec!Create(i, key, f, due, None, cat)
    PROVE  Rec!TypeOK'
<1> DEFINE it == [state |-> "here", key |-> key, every |-> f, due |-> due, cat |-> cat,
                  active |-> TRUE, ends |-> None, cancelled |-> None]
<1>1. /\ item' = [item EXCEPT ![i] = it] /\ pay' = Rec!Backfilled(i, it, pay) /\ loose' = Rec!StillLoose(pay')
      /\ UNCHANGED <<rule, closed, rules, broke>> /\ Rec!Step
    BY DEF Rec!Create
<1>2. it \in Rec!Item /\ it.cat = cat
    BY CalendarOfRec DEF Rec!Bounds, Rec!Item, Rec!MaybeDay
<1> HIDE DEF it
<1>3. item' \in [Items -> Rec!Item] /\ pay' \in [Payments -> Rec!Payment]
    BY <1>1, <1>2, ItemsStay, BackfilledTyped DEF Rec!TypeOK
<1>4. RestTyped'
    BY <1>1, StepCounts DEF Rec!TypeOK, RestTyped, Rec!StillLoose
<1> QED
    BY <1>3, <1>4 DEF Rec!TypeOK, RestTyped

LEMMA ChangeTyped ==
    ASSUME Rec!Bounds, Rec!TypeOK, Rec!InCalendar, NEW i \in Items, NEW e \in Edits, Rec!Change(i, e)
    PROVE  Rec!TypeOK'
<1> DEFINE it == [item[i] EXCEPT !.key = Rec!Said(e.key, @), !.active = Rec!Said(e.active, @),
                      !.ends = Rec!Said(e.ends, @), !.cat = Rec!Said(e.cat, @), !.due = Rec!Said(e.due, @),
                      !.every = Rec!Said(e.every, @)]
           freed == IF it.key # item[i].key THEN Rec!Detached(i, pay) ELSE pay
           sorted == IF e.cat = Unset THEN freed ELSE Rec!Recategorised(i, e.cat, freed)
<1>1. /\ item' = [item EXCEPT ![i] = it]
      /\ pay' = IF Rec!CatchesUp(i, it) THEN Rec!Backfilled(i, it, sorted) ELSE sorted
      /\ loose' = Rec!StillLoose(pay') /\ UNCHANGED <<rule, closed, rules, broke>> /\ Rec!Step
    BY DEF Rec!Change
<1>2. it \in Rec!Item /\ it.cat \in Cats \cup {None}
    <2>1. e \in Rec!Edit /\ item[i] \in Rec!Item
        BY DEF Rec!Bounds, Rec!TypeOK
    <2>2. /\ Rec!Said(e.key, item[i].key) \in Rec!Keys /\ Rec!Said(e.active, item[i].active) \in BOOLEAN
          /\ Rec!Said(e.ends, item[i].ends) \in Rec!MaybeDay /\ Rec!Said(e.cat, item[i].cat) \in Cats \cup {None}
          /\ Rec!Said(e.due, item[i].due) \in Rec!AllDays /\ Rec!Said(e.every, item[i].every) \in DOMAIN Rec!Every
        BY <2>1 DEF Rec!Edit, Rec!Item, Rec!Said
    <2> QED
        BY <2>1, <2>2 DEF Rec!Item
<1> HIDE DEF it
<1>3. freed \in [Payments -> Rec!Payment]
    BY PaymentLinked DEF Rec!TypeOK, Rec!Detached
<1> HIDE DEF freed
<1>4. sorted \in [Payments -> Rec!Payment]
    <2>1. e.cat # Unset => e.cat \in Cats \cup {None}
        BY DEF Rec!Bounds, Rec!Edit
    <2> QED
        BY <1>3, <2>1, PaymentLinked DEF Rec!Recategorised
<1> HIDE DEF sorted
<1>5. item' \in [Items -> Rec!Item] /\ pay' \in [Payments -> Rec!Payment]
    BY <1>1, <1>2, <1>4, ItemsStay, BackfilledTyped DEF Rec!TypeOK
<1>6. RestTyped'
    BY <1>1, StepCounts DEF Rec!TypeOK, RestTyped, Rec!StillLoose
<1> QED
    BY <1>5, <1>6 DEF Rec!TypeOK, RestTyped

LEMMA EndTyped ==
    ASSUME Rec!Bounds, Rec!TypeOK, Rec!InCalendar, NEW i \in Items, NEW on \in BillDays, NEW e \in BillDays \cup {None},
           Rec!Cancel(i, on, e) \/ Rec!Reactivate(i, e, on)
    PROVE  Rec!TypeOK'
<1>0. item[i] \in Rec!Item /\ on \in Rec!MaybeDay /\ e \in Rec!MaybeDay
    BY CalendarOfRec DEF Rec!TypeOK, Rec!MaybeDay
<1>1. CASE Rec!Cancel(i, on, e)
    <2> DEFINE it == [item[i] EXCEPT !.cancelled = on, !.ends = IF e = None THEN on ELSE e]
    <2>1. item' = [item EXCEPT ![i] = it] /\ UNCHANGED <<pay, rule, closed, rules, loose, broke>> /\ Rec!Step
        BY <1>1 DEF Rec!Cancel, Rec!TypeOK
    <2>2. it \in Rec!Item
        BY <1>0 DEF Rec!Item
    <2> HIDE DEF it
    <2>3. item' \in [Items -> Rec!Item]
        BY <2>1, <2>2, ItemsStay DEF Rec!TypeOK
    <2> QED
        BY <2>1, <2>3, StepCounts DEF Rec!TypeOK
<1>2. CASE Rec!Reactivate(i, e, on)
    <2> DEFINE dates == Rec!DueDates(item[i].due, item[i].every, on, Rec!AddMonths(on, 13))
               due == IF e # None THEN e ELSE Rec!Least(dates)
               it == [item[i] EXCEPT !.cancelled = None, !.ends = None, !.active = TRUE, !.due = due]
    <2>1. /\ UNCHANGED <<rule, closed, rules>> /\ Rec!Step
          /\ \/ broke' = TRUE /\ UNCHANGED <<item, pay, loose>>
             \/ /\ item' = [item EXCEPT ![i] = it]
                /\ pay' = IF item[i].active THEN pay ELSE Rec!Backfilled(i, it, pay)
                /\ loose' = Rec!StillLoose(pay') /\ UNCHANGED broke
        BY <1>2 DEF Rec!Reactivate
    <2>2. it.due = due /\ it.cat \in Cats \cup {None} /\ (due \in Rec!AllDays => it \in Rec!Item)
        <3> HIDE DEF due
        <3> QED
            BY <1>0 DEF Rec!Item, Rec!MaybeDay
    <2> HIDE DEF it, due
    <2>3. item' \in [Items -> Rec!Item] /\ pay' \in [Payments -> Rec!Payment]
        BY <2>1, <2>2, ItemsStay, BackfilledTyped DEF Rec!TypeOK
    <2>4. RestTyped'
        BY <2>1, StepCounts DEF Rec!TypeOK, RestTyped, Rec!StillLoose
    <2> QED
        BY <2>3, <2>4 DEF Rec!TypeOK, RestTyped
<1> QED
    BY <1>1, <1>2

LEMMA DeleteTyped ==
    ASSUME Rec!Bounds, Rec!TypeOK, Rec!InCalendar, NEW i \in Items, Rec!Delete(i)
    PROVE  Rec!TypeOK'
<1> DEFINE it == [Rec!NoItem EXCEPT !.state = "gone"]
<1>1. /\ item' = [item EXCEPT ![i] = it]
      /\ pay' = [t \in Payments |-> IF pay[t].item = i THEN [pay[t] EXCEPT !.item = None] ELSE pay[t]]
      /\ rule' = [n \in Names |-> IF rule[n] = i THEN None ELSE rule[n]]
      /\ loose' = loose \cup {t \in Payments : pay[t].item = i /\ pay[t].key # item[i].key}
      /\ UNCHANGED <<closed, rules, broke>> /\ Rec!Step
    BY DEF Rec!Delete
<1>2. it \in Rec!Item
    BY NothingYet DEF Rec!Item
<1> HIDE DEF it
<1>3. item' \in [Items -> Rec!Item] /\ pay' \in [Payments -> Rec!Payment]
    BY <1>1, <1>2, ItemsStay, PaymentLinked DEF Rec!TypeOK
<1>4. RestTyped'
    BY <1>1, StepCounts DEF Rec!TypeOK, RestTyped
<1> QED
    BY <1>3, <1>4 DEF Rec!TypeOK, RestTyped

LEMMA LinkingTyped ==
    ASSUME Rec!Bounds, Rec!TypeOK, Rec!InCalendar, NEW i \in Items,
           \/ \E T \in SUBSET Payments : Rec!Link(i, T)
           \/ \E t \in Payments : Rec!Unlink(i, t)
           \/ \E n \in Names : Rec!SaveAutomation(n, i)
    PROVE  Rec!TypeOK'
<1>0. item[i] \in Rec!Item /\ item[i].cat \in Cats \cup {None}
    BY DEF Rec!TypeOK, Rec!Item
<1>1. ASSUME NEW found,
             pay' = [t \in Payments |->
                        IF t \in found
                        THEN [pay[t] EXCEPT !.item = i, !.cat = IF item[i].cat = None THEN @ ELSE item[i].cat]
                        ELSE pay[t]],
             item' = item \/ item' = [item EXCEPT ![i] = Rec!Advanced(@, Rec!Latest(pay, found))]
      PROVE  item' \in [Items -> Rec!Item] /\ pay' \in [Payments -> Rec!Payment]
    <2>1. pay' \in [Payments -> Rec!Payment]
        BY <1>0, <1>1, LinkedTyped DEF Rec!TypeOK
    <2>2. ASSUME item' = [item EXCEPT ![i] = Rec!Advanced(@, Rec!Latest(pay, found))]
          PROVE  item' \in [Items -> Rec!Item]
        <3>1. PICK it : it = Rec!Advanced(item[i], Rec!Latest(pay, found))
            OBVIOUS
        <3>2. item' = [item EXCEPT ![i] = it] /\ (it.due \in Rec!AllDays => it \in Rec!Item)
            BY <1>0, <2>2, <3>1, AdvancedTyped DEF Rec!TypeOK
        <3> QED
            BY <3>2, ItemsStay DEF Rec!TypeOK
    <2> QED
        BY <1>1, <2>1, <2>2 DEF Rec!TypeOK
<1>2. ASSUME NEW T \in SUBSET Payments, Rec!Link(i, T) PROVE Rec!TypeOK'
    <2> DEFINE found == {t \in T : Rec!There(t)}
    <2>1. /\ pay' = [t \in Payments |->
                        IF t \in found
                        THEN [pay[t] EXCEPT !.item = i, !.cat = IF item[i].cat = None THEN @ ELSE item[i].cat]
                        ELSE pay[t]]
          /\ item' = item \/ item' = [item EXCEPT ![i] = Rec!Advanced(@, Rec!Latest(pay, found))]
          /\ loose' = loose \ found /\ UNCHANGED <<rule, closed, rules, broke>> /\ Rec!Step
        BY <1>2 DEF Rec!Link
    <2> HIDE DEF found
    <2>2. item' \in [Items -> Rec!Item] /\ pay' \in [Payments -> Rec!Payment]
        BY <1>1, <2>1
    <2>3. RestTyped'
        BY <2>1, StepCounts DEF Rec!TypeOK, RestTyped
    <2> QED
        BY <2>2, <2>3 DEF Rec!TypeOK, RestTyped
<1>3. ASSUME NEW t \in Payments, Rec!Unlink(i, t) PROVE Rec!TypeOK'
    <2>1. /\ pay' = [pay EXCEPT ![t].item = None] /\ loose' = loose \cup {t}
          /\ UNCHANGED <<item, rule, closed, rules, broke>> /\ Rec!Step
        BY <1>3 DEF Rec!Unlink
    <2>2. pay' \in [Payments -> Rec!Payment]
        BY <2>1, PaymentLinked DEF Rec!TypeOK
    <2> QED
        BY <2>1, <2>2, StepCounts DEF Rec!TypeOK
<1>4. ASSUME NEW n \in Names, Rec!SaveAutomation(n, i) PROVE Rec!TypeOK'
    <2> DEFINE found == {t \in Payments : Rec!There(t) /\ pay[t].out /\ pay[t].key[2] = n}
    <2>1. /\ rule' = [rule EXCEPT ![n] = i] /\ UNCHANGED <<closed, rules, broke>> /\ Rec!Step
          /\ \/ UNCHANGED <<pay, item, loose>>
             \/ /\ pay' = [t \in Payments |->
                              IF t \in found
                              THEN [pay[t] EXCEPT !.item = i, !.cat = IF item[i].cat = None THEN @ ELSE item[i].cat]
                              ELSE pay[t]]
                /\ item' = [item EXCEPT ![i] = Rec!Advanced(@, Rec!Latest(pay, found))]
                /\ loose' = loose \ found
        BY <1>4 DEF Rec!SaveAutomation
    <2> HIDE DEF found
    <2>2. item' \in [Items -> Rec!Item] /\ pay' \in [Payments -> Rec!Payment]
        BY <1>1, <2>1 DEF Rec!TypeOK
    <2>3. RestTyped'
        BY <2>1, StepCounts DEF Rec!TypeOK, RestTyped
    <2> QED
        BY <2>2, <2>3 DEF Rec!TypeOK, RestTyped
<1> QED
    BY <1>2, <1>3, <1>4

\* Rules that were read know of items, if not of those there are now.
LEMMA ArriveTyped ==
    ASSUME Rec!Bounds, Rec!TypeOK, Rec!InCalendar, NEW t \in Payments, NEW key \in Rec!Keys, NEW day \in BillDays,
           NEW out \in BOOLEAN, Rec!Arrive(t, key, day, out)
    PROVE  Rec!TypeOK'
<1> DEFINE i == IF out THEN Rec!PickItem(rules, key) ELSE None
           row == [state |-> "here", key |-> key, day |-> day, out |-> out, item |-> i,
                   cat |-> IF i = None THEN None ELSE rules.item[i].cat]
           old == out /\ i = None /\ rules.item # item
           due == Rec!Advanced(rules.item[i], day).due
           it == [item[i] EXCEPT !.due = due]
<1>1. /\ pay' = [pay EXCEPT ![t] = row]
      /\ item' = item \/ (i # None /\ item' = [item EXCEPT ![i].due = due])
      /\ loose' = IF old THEN loose \cup {t} ELSE loose
      /\ rules # None /\ rules' = None /\ UNCHANGED <<rule, closed, broke>> /\ Rec!Step
    BY DEF Rec!Arrive
<1>2. rules.item \in [Items -> Rec!Item] /\ rules.rule \in [Names -> Items \cup {None}]
    BY <1>1 DEF Rec!TypeOK, Rec!Rules
<1>3. i \in Items \cup {None}
    <2>1. key[2] \in Names
        BY DEF Rec!Keys
    <2> QED
        BY <1>2, <2>1 DEF Rec!PickItem
<1> HIDE DEF i
<1>4. row \in Rec!Payment
    <2>1. i # None => rules.item[i].cat \in Cats \cup {None}
        BY <1>2, <1>3 DEF Rec!Item
    <2> QED
        BY <1>3, <2>1, CalendarOfRec DEF Rec!Payment
<1> HIDE DEF row
<1>5. i # None => it.due = due /\ (due \in Rec!AllDays => it \in Rec!Item)
    <2> HIDE DEF due
    <2> QED
        BY <1>3 DEF Rec!TypeOK, Rec!Item
<1>6. item' \in [Items -> Rec!Item]
    <2>1. item' = item \/ (i # None /\ item' = [item EXCEPT ![i] = it])
        BY <1>1, <1>3 DEF Rec!TypeOK
    <2> HIDE DEF it, due
    <2> QED
        BY <1>3, <1>5, <2>1, ItemsStay DEF Rec!TypeOK
<1>7. pay' \in [Payments -> Rec!Payment]
    BY <1>1, <1>4 DEF Rec!TypeOK
<1>8. RestTyped'
    BY <1>1, StepCounts DEF Rec!TypeOK, RestTyped
<1> QED
    BY <1>6, <1>7, <1>8 DEF Rec!TypeOK, RestTyped

LEMMA RecurringTyped == Rec!Bounds /\ Rec!TypeOK /\ [Rec!Next]_Rec!vars => Rec!TypeOK'
<1> SUFFICES ASSUME Rec!Bounds, Rec!TypeOK, [Rec!Next]_Rec!vars PROVE Rec!TypeOK'
    OBVIOUS
<1>1. CASE UNCHANGED Rec!vars
    BY <1>1 DEF Rec!vars, Rec!TypeOK
<1>2. CASE Rec!Next
    <2>1. Rec!InCalendar
        BY <1>2 DEF Rec!Next
    <2>2. ASSUME NEW n \in Names, Rec!DeleteAutomation(n) PROVE Rec!TypeOK'
        BY <2>2, StepCounts DEF Rec!TypeOK, Rec!DeleteAutomation
    <2>3. ASSUME NEW a \in Accounts, Rec!CloseAccount(a) PROVE Rec!TypeOK'
        BY <2>3, StepCounts DEF Rec!TypeOK, Rec!CloseAccount
    <2>4. CASE Rec!LoadRules \/ Rec!GiveUpRules
        BY <2>4 DEF Rec!TypeOK, Rec!LoadRules, Rec!GiveUpRules, Rec!Rules
    <2>5. ASSUME NEW t \in Payments, Rec!Remove(t) PROVE Rec!TypeOK'
        <3>1. [Rec!NoPayment EXCEPT !.state = "gone"] \in Rec!Payment
            BY NothingYet DEF Rec!Payment
        <3> QED
            BY <2>5, <3>1, StepCounts DEF Rec!TypeOK, Rec!Remove
    <2> QED
        BY <1>2, <2>1, <2>2, <2>3, <2>4, <2>5, CreateTyped, ChangeTyped, EndTyped, DeleteTyped, LinkingTyped, ArriveTyped
           DEF Rec!Next
<1> QED
    BY <1>1, <1>2

LEMMA RecurringTypes == Rec!Bounds => (Rec!Spec => []Rec!TypeOK)
<1> SUFFICES ASSUME Rec!Bounds PROVE Rec!Spec => []Rec!TypeOK
    OBVIOUS
<1>1. Rec!Init => Rec!TypeOK
    <2> SUFFICES ASSUME Rec!Init PROVE Rec!TypeOK
        OBVIOUS
    <2>1. item \in [Items -> Rec!Item] /\ pay \in [Payments -> Rec!Payment]
        BY NothingYet DEF Rec!Init
    <2>2. rule \in [Names -> Items \cup {None}] /\ closed \subseteq Accounts /\ loose \subseteq Payments
          /\ rules \in Rec!Rules \cup {None}
        BY DEF Rec!Init
    <2>3. broke = FALSE /\ broke \in BOOLEAN
        BY Zenon DEF Rec!Init
    <2>4. billSteps \in 0..MaxSteps
        BY DEF Rec!Init, Rec!Bounds
    <2> QED
        BY <2>1, <2>2, <2>3, <2>4 DEF Rec!TypeOK
<1>2. Rec!TypeOK /\ [Rec!Next]_Rec!vars => Rec!TypeOK'
    BY RecurringTyped
<1> QED
    BY <1>1, <1>2, PTL DEF Rec!Spec

-----------------------------------------------------------------------------
(* Recurring: due dates                                                    *)

\* A day some payments after a due date, as far as the calendar goes.
LEMMA DueAfterIs ==
    ASSUME Cal!Ordered, NEW due \in Cal!AllDays, NEW f \in DOMAIN Rec!Every, NEW k \in Nat
    PROVE  /\ Rec!DueAfter(due, f, k) \in Int
           /\ Rec!DueAfter(due, f, k) <= due + Rec!Longest(f) * k
           /\ \A j \in Nat : k <= j => Rec!DueAfter(due, f, k) <= Rec!DueAfter(due, f, j)
<1>0. due \in Int
    BY MonthIs
<1>1. ASSUME NEW n \in {7, 14}, \A j \in Nat : Rec!DueAfter(due, f, j) = due + n * j, Rec!Longest(f) = n
      PROVE  /\ Rec!DueAfter(due, f, k) \in Int
             /\ Rec!DueAfter(due, f, k) <= due + Rec!Longest(f) * k
             /\ \A j \in Nat : k <= j => Rec!DueAfter(due, f, k) <= Rec!DueAfter(due, f, j)
    <2>1. CASE n = 7
        BY <1>0, <1>1, <2>1
    <2>2. CASE n = 14
        BY <1>0, <1>1, <2>2
    <2> QED
        BY <2>1, <2>2
<1>2. ASSUME NEW n \in {1, 2, 3, 6, 12}, \A j \in Nat : Rec!DueAfter(due, f, j) = Cal!AddMonths(due, n * j),
             Rec!Longest(f) = 31 * n
      PROVE  /\ Rec!DueAfter(due, f, k) \in Int
             /\ Rec!DueAfter(due, f, k) <= due + Rec!Longest(f) * k
             /\ \A j \in Nat : k <= j => Rec!DueAfter(due, f, k) <= Rec!DueAfter(due, f, j)
    <2>1. ASSUME NEW j \in Nat, k <= j PROVE n * k \in Nat /\ n * j \in Nat /\ n * k <= n * j
        BY <1>2, <2>1
    <2>2. n * k \in Nat /\ 31 * (n * k) = (31 * n) * k
        BY <1>2
    <2>3. Cal!AddMonths(due, n * k) \in Int /\ Cal!AddMonths(due, n * k) <= due + 31 * (n * k)
        BY <2>2, Added
    <2>4. ASSUME NEW j \in Nat, k <= j PROVE Cal!AddMonths(due, n * k) <= Cal!AddMonths(due, n * j)
        BY <2>1, <2>4, AddedInOrder
    <2> QED
        BY <1>2, <2>2, <2>3, <2>4
<1>3. \A j \in Nat : Rec!AddMonths(due, j) = Cal!AddMonths(due, j)
    BY DEF Rec!AddMonths, Cal!AddMonths, Rec!MonthOf, Cal!MonthOf, Rec!Months, Cal!Months, Rec!Lesser, Cal!Lesser,
           Rec!Length, Cal!Length, Rec!Beyond, Cal!Beyond
<1>4. CASE f = "weekly"
    BY <1>1, <1>4 DEF Rec!DueAfter, Rec!Longest, Rec!Every
<1>5. CASE f = "biweekly"
    BY <1>1, <1>5 DEF Rec!DueAfter, Rec!Longest, Rec!Every
<1>6. CASE f = "monthly"
    BY <1>2, <1>3, <1>6 DEF Rec!DueAfter, Rec!Longest, Rec!Every
<1>7. CASE f = "bimonthly"
    BY <1>2, <1>3, <1>7 DEF Rec!DueAfter, Rec!Longest, Rec!Every
<1>8. CASE f = "quarterly"
    BY <1>2, <1>3, <1>8 DEF Rec!DueAfter, Rec!Longest, Rec!Every
<1>9. CASE f = "semiannual"
    BY <1>2, <1>3, <1>9 DEF Rec!DueAfter, Rec!Longest, Rec!Every
<1>10. CASE f = "annual"
    BY <1>2, <1>3, <1>10 DEF Rec!DueAfter, Rec!Longest, Rec!Every
<1> QED
    BY <1>4, <1>5, <1>6, <1>7, <1>8, <1>9, <1>10 DEF Rec!Every

LEMMA LongestIs ==
    ASSUME NEW f \in DOMAIN Rec!Every
    PROVE  Rec!Longest(f) \in {7, 14, 31, 62, 93, 186, 372}
BY DEF Rec!Longest, Rec!Every

\* The count starts at a payment before which nothing asked for is due.
LEMMA StartsEarly ==
    ASSUME Cal!Ordered, NEW due \in Cal!AllDays, NEW f \in DOMAIN Rec!Every, NEW first \in Int,
           NEW k \in Nat, k < Rec!Greater(0, ((first - due) \div Rec!Longest(f)) - 1)
    PROVE  Rec!DueAfter(due, f, k) < first
<1> DEFINE n == Rec!Longest(f)
           gap == first - due
           q == gap \div n
<1>1. due \in Int /\ gap \in Int
    BY MonthIs
<1>2. n \in {7, 14, 31, 62, 93, 186, 372}
    BY LongestIs
<1>3. Rec!DueAfter(due, f, k) \in Int /\ Rec!DueAfter(due, f, k) <= due + n * k
    BY DueAfterIs
<1>4. k < Rec!Greater(0, q - 1)
    OBVIOUS
<1> HIDE DEF n
<1>5. n * k < gap
    <2> HIDE DEF gap
    <2>1. CASE n = 7
        BY <1>1, <1>4, <2>1 DEF Rec!Greater
    <2>2. CASE n = 14
        BY <1>1, <1>4, <2>2 DEF Rec!Greater
    <2>3. CASE n = 31
        BY <1>1, <1>4, <2>3 DEF Rec!Greater
    <2>4. CASE n = 62
        BY <1>1, <1>4, <2>4 DEF Rec!Greater
    <2>5. CASE n = 93
        BY <1>1, <1>4, <2>5 DEF Rec!Greater
    <2>6. CASE n = 186
        BY <1>1, <1>4, <2>6 DEF Rec!Greater
    <2>7. CASE n = 372
        BY <1>1, <1>4, <2>7 DEF Rec!Greater
    <2> QED
        BY <1>2, <2>1, <2>2, <2>3, <2>4, <2>5, <2>6, <2>7
<1>6. n * k \in Int
    BY <1>2
<1> QED
    BY <1>1, <1>3, <1>5, <1>6

(* Whatever the calendar, the due date and how often it comes: due_dates, which *)
(* starts counting near the first of the days asked for, gives every due date *)
(* among them and no other, as long as it counts far enough                  *)
(* (finance/subscriptions.py:144-153).                                       *)
THEOREM AllDueDates ==
    ASSUME Rec!Bounds, NEW due \in Rec!AllDays, NEW f \in DOMAIN Rec!Every, NEW first \in Int, NEW last \in Int,
           first <= Rec!DueAfter(due, f, MaxCycles)
    PROVE  Rec!DueDatesRight(due, f, first, last)
<1> DEFINE at(k) == Rec!DueAfter(due, f, k)
           start == Rec!Greater(0, ((first - due) \div Rec!Longest(f)) - 1)
           From(k) == k >= start /\ at(k) >= first /\ (k > start => at(k - 1) < first)
           from == CHOOSE k \in Rec!Cycles : From(k)
           Late == {k \in Rec!Cycles : k >= start /\ at(k) >= first}
<1>1. Cal!Ordered /\ MaxCycles \in Nat /\ due \in Cal!AllDays
    BY DEF Rec!Bounds, Rec!Ordered, Cal!Ordered, Rec!Months, Cal!Months, Rec!AllDays, Cal!AllDays, Rec!Beyond, Cal!Beyond
<1>2. start \in Nat
    <2>1. due \in Int
        BY <1>1, MonthIs
    <2>2. (first - due) \div Rec!Longest(f) \in Int
        BY <2>1, LongestIs
    <2> QED
        BY <2>2 DEF Rec!Greater
<1>3. \A k \in Nat : k < start => at(k) < first
    BY <1>1, StartsEarly
<1>4. \A k \in Nat : at(k) \in Int /\ \A j \in Nat : k <= j => at(k) <= at(j)
    BY <1>1, DueAfterIs
<1>5. Rec!DueDates(due, f, first, last) = {at(k) : k \in {n \in Rec!Cycles : n >= from /\ at(n) <= last}}
    BY DEF Rec!DueDates
<1>6. first <= at(MaxCycles)
    OBVIOUS
<1> HIDE DEF at, start
<1>7. from \in Rec!Cycles /\ From(from)
    <2>1. MaxCycles \in Late
        BY <1>1, <1>2, <1>3, <1>4, <1>6 DEF Rec!Cycles
    <2>2. Late \in SUBSET Nat
        BY <1>1 DEF Rec!Cycles
    <2>3. PICK k \in Late : \A j \in Late : k <= j
        <3> HIDE DEF Late
        <3> QED
            BY <2>1, <2>2, LeastNumber
    <2>4. ASSUME k > start PROVE at(k - 1) < first
        <3>1. k - 1 \in Nat /\ k - 1 >= start /\ k - 1 \in Rec!Cycles /\ k - 1 \notin Late
            BY <1>1, <1>2, <2>2, <2>3, <2>4 DEF Rec!Cycles
        <3> QED
            BY <1>4, <3>1
    <2>5. k \in Rec!Cycles /\ From(k)
        BY <2>3, <2>4
    <2> HIDE DEF From
    <2> QED
        BY <2>5
<1> HIDE DEF from
<1>8. \A k \in Rec!Cycles : k >= from <=> at(k) >= first
    <2> SUFFICES ASSUME NEW k \in Rec!Cycles PROVE k >= from <=> at(k) >= first
        OBVIOUS
    <2>1. k \in Nat /\ from \in Nat /\ at(k) \in Int /\ at(from) \in Int
        BY <1>1, <1>4, <1>7 DEF Rec!Cycles
    <2>2. CASE k >= from
        <3>1. at(from) <= at(k)
            BY <1>4, <2>1, <2>2
        <3> QED
            BY <1>7, <2>1, <2>2, <3>1
    <2>3. CASE k < from /\ from > start
        <3>1. from - 1 \in Nat /\ k <= from - 1
            BY <2>1, <2>3
        <3>2. at(k) <= at(from - 1) /\ at(from - 1) \in Int
            BY <1>4, <2>1, <3>1
        <3> QED
            BY <1>7, <2>1, <2>3, <3>2
    <2>4. CASE k < from /\ from = start
        BY <1>3, <2>1, <2>4
    <2> QED
        BY <1>2, <1>7, <2>1, <2>2, <2>3, <2>4
<1>9. Rec!DueDates(due, f, first, last) = {at(k) : k \in Rec!Cycles} \cap (first..last)
    <2>1. \A k \in Rec!Cycles : at(k) \in Int
        BY <1>1, <1>4 DEF Rec!Cycles
    <2> QED
        BY <1>5, <1>8, <2>1
<1> QED
    BY <1>9 DEF Rec!DueDatesRight, at

-----------------------------------------------------------------------------
(* Budgets: which link counts a transaction                                *)

OwnIDs(L) == \A l, m \in L : l.id = m.id => l = m
Linked == /\ link = [b \in Budgets |-> link[b]] /\ off = [b \in Budgets |-> off[b]]
          /\ \A b \in Budgets : /\ link[b] \subseteq Bud!Link
                                /\ OwnIDs(link[b])

LEMMA KindsOfThings ==
    ASSUME NEW l \in Bud!Link
    PROVE  /\ l.thing[1] \in {"transaction", "automation", "subscription", "category", "account"}
           /\ l.thing = <<l.thing[1], l.thing[2]>>
<1>1. l.thing \in Bud!Things
    BY DEF Bud!Link
<1> QED
    BY <1>1 DEF Bud!Things, Bud!Sources

\* Of some links with IDs of their own, one comes before the others.
LEMMA FirstIs ==
    ASSUME Bud!Bounds, NEW L \in SUBSET Bud!Link, L # {}, OwnIDs(L)
    PROVE  Bud!First(L) \in L /\ \A m \in L \ {Bud!First(L)} : Bud!Before(Bud!First(L), m)
<1> DEFINE rank(l) == Bud!Priority[l.thing[1]]
           Ranks == {rank(l) : l \in L}
<1>1. \A l \in L : l.id \in Nat /\ rank(l) \in Nat
    <2> SUFFICES ASSUME NEW l \in L PROVE l.id \in Nat /\ rank(l) \in Nat
        OBVIOUS
    <2>1. l.id \in Nat
        BY DEF Bud!Link, Bud!Bounds
    <2>2. l.thing[1] \in {"transaction", "automation", "subscription", "category", "account"}
        BY KindsOfThings
    <2> QED
        BY <2>1, <2>2 DEF Bud!Priority
<1>2. PICK r \in Ranks : \A s \in Ranks : r <= s
    <2>1. Ranks \in SUBSET Nat /\ Ranks # {}
        BY <1>1
    <2> HIDE DEF Ranks
    <2> QED
        BY <2>1, LeastNumber
<1> DEFINE Low == {l.id : l \in {m \in L : rank(m) = r}}
<1> HIDE DEF rank
<1>3. PICK n \in Low : \A i \in Low : n <= i
    <2>1. Low \in SUBSET Nat /\ Low # {}
        BY <1>1, <1>2
    <2> HIDE DEF Low
    <2> QED
        BY <2>1, LeastNumber
<1>4. PICK l \in L : rank(l) = r /\ l.id = n
    BY <1>3
<1>5. ASSUME NEW m \in L \ {l} PROVE Bud!Before(l, m)
    <2>1. r <= rank(m) /\ r \in Nat /\ rank(m) \in Nat
        BY <1>1, <1>2
    <2>2. rank(m) = r => n <= m.id /\ m.id # n /\ n \in Nat /\ m.id \in Nat
        BY <1>1, <1>3, <1>4 DEF OwnIDs
    <2>3. rank(l) < rank(m) \/ (rank(l) = rank(m) /\ l.id < m.id)
        BY <1>4, <2>1, <2>2
    <2> QED
        BY <2>3 DEF Bud!Before, rank
<1> QED
    BY <1>5 DEF Bud!First

\* A link of a transaction's own counts it and no other.
LEMMA OwnHits ==
    ASSUME NEW l, NEW t, NEW u, l.thing = <<"transaction", t>>
    PROVE  Bud!Hit(l, u) <=> t = u
BY DEF Bud!Hit

LEMMA SameHits ==
    ASSUME paused' = paused, NEW l, NEW t
    PROVE  Bud!Hit(l, t)' <=> Bud!Hit(l, t)
BY DEF Bud!Hit, Bud!AutoHits

\* What counts a transaction after a step that pauses and resumes nothing.
LEMMA CountedByAfter ==
    ASSUME paused' = paused, NEW b, NEW t
    PROVE  Bud!CountedBy(link[b], t)' = Bud!CountedBy(link'[b], t)
<1> DEFINE new == {l \in link'[b] : Bud!Hit(l, t)}
<1>1. {l \in link'[b] : Bud!Hit(l, t)'} = new
    BY SameHits
<1> HIDE DEF new
<1>2. Bud!CountedBy(link[b], t)' = IF new = {} THEN None ELSE Bud!First(new)
    BY <1>1 DEF Bud!CountedBy
<1>3. Bud!CountedBy(link'[b], t) = IF new = {} THEN None ELSE Bud!First(new)
    BY DEF Bud!CountedBy, new
<1> QED
    BY <1>2, <1>3

HasOwn(L, t) == \E l \in L : l.thing = <<"transaction", t>>
OwnAre(L, t, k) == \A l \in L : l.thing = <<"transaction", t>> => l.kind = k
Hits(L, t) == {l \in L : Bud!Hit(l, t)}

\* A link of a transaction's own goes before all others.
LEMMA CountsOwn ==
    ASSUME Bud!Bounds, NEW L \in SUBSET Bud!Link, OwnIDs(L), NEW t, NEW k, HasOwn(L, t), OwnAre(L, t, k)
    PROVE  Bud!CountedBy(L, t) # None /\ Bud!CountedBy(L, t).kind = k
<1> DEFINE hits == {l \in L : Bud!Hit(l, t)}
           f == Bud!First(hits)
<1>1. PICK l \in L : l.thing = <<"transaction", t>>
    BY DEF HasOwn
<1>2. l \in hits
    BY <1>1, OwnHits
<1>3. f \in hits /\ \A m \in hits \ {f} : Bud!Before(f, m)
    <2>1. hits \in SUBSET Bud!Link /\ hits # {} /\ OwnIDs(hits)
        BY <1>2 DEF OwnIDs
    <2> HIDE DEF hits
    <2> QED
        BY <2>1, FirstIs
<1>4. f \in L /\ Bud!Hit(f, t) /\ f \in Bud!Link /\ hits # {}
    BY <1>3
<1>5. f = l \/ Bud!Before(f, l)
    BY <1>2, <1>3
<1>6. Bud!CountedBy(L, t) = f
    BY <1>4 DEF Bud!CountedBy
<1> HIDE DEF f, hits
<1>7. f.thing[1] = "transaction"
    <2>1. CASE f = l
        BY <2>1, <1>1
    <2>2. CASE Bud!Before(f, l)
        <3>1. f.thing[1] \in {"transaction", "automation", "subscription", "category", "account"}
            BY <1>4, KindsOfThings
        <3>2. Bud!Priority[l.thing[1]] = 1
            BY <1>1 DEF Bud!Priority
        <3> QED
            BY <2>2, <3>1, <3>2 DEF Bud!Before, Bud!Priority
    <2> QED
        BY <1>5, <2>1, <2>2
<1>8. f.thing = <<"transaction", f.thing[2]>>
    BY <1>4, <1>7, KindsOfThings
<1>9. f.thing = <<"transaction", t>>
    BY <1>4, <1>8, OwnHits
<1>10. f # None
    BY <1>4 DEF Bud!Bounds
<1> QED
    BY <1>4, <1>6, <1>9, <1>10 DEF OwnAre

\* What new links are, and what links become whose kind is changed.
Fresh(new, L, things, kind) ==
    /\ new \subseteq Bud!Link
    /\ OwnIDs(L \cup new)
    /\ \A l \in new : l.kind = kind /\ l.thing \in things
    /\ \A x \in things : \E l \in new : l.thing = x
Rekinded(L, O, kind) == (L \ O) \cup {[l EXCEPT !.kind = kind] : l \in O}
Others(new, L, O, kind) ==
    /\ new \subseteq Bud!Link
    /\ OwnIDs(new)
    /\ {l.id : l \in new} = {l.id : l \in L}
    /\ \A l \in new : l \in L \ O \/ (l.kind = kind /\ \E m \in O : l.thing = m.thing)
    /\ \A m \in O : \E l \in new : l.thing = m.thing /\ l.kind = kind

LEMMA FreshLinks ==
    ASSUME Bud!Bounds, NEW L \in SUBSET Bud!Link, OwnIDs(L),
           NEW things \in SUBSET Bud!Things, NEW kind \in Bud!Kinds, NEW new \in Bud!NewLinks(L, things, kind)
    PROVE  Fresh(new, L, things, kind)
<1> DEFINE free == Ids \ {l.id : l \in L}
<1>1. PICK n \in [things -> free] : /\ \A x, y \in things : n[x] = n[y] => x = y
                                    /\ new = {[id |-> n[x], thing |-> x, kind |-> kind] : x \in things}
    BY DEF Bud!NewLinks
<1>2. ASSUME NEW l \in new PROVE \E x \in things : l = [id |-> n[x], thing |-> x, kind |-> kind]
    BY <1>1
<1>3. ASSUME NEW l \in new PROVE l.id \in free /\ l.id = n[l.thing] /\ l.thing \in things /\ l.kind = kind
    BY <1>1, <1>2
<1>4. ASSUME NEW l \in new PROVE l \in Bud!Link
    BY <1>1, <1>2 DEF Bud!Link
<1>5. ASSUME NEW l \in new, NEW m \in new, l.id = m.id PROVE l = m
    <2>1. l.thing = m.thing
        BY <1>1, <1>3, <1>5
    <2> QED
        BY <2>1, <1>2
<1>6. ASSUME NEW l \in new, NEW m \in L PROVE l.id # m.id
    BY <1>3
<1>7. ASSUME NEW x \in things PROVE \E l \in new : l.thing = x
    <2>1. [id |-> n[x], thing |-> x, kind |-> kind] \in new
        BY <1>1
    <2> QED
        BY <2>1
<1>8. OwnIDs(L \cup new)
    BY <1>5, <1>6 DEF OwnIDs
<1> QED
    BY <1>3, <1>4, <1>7, <1>8 DEF Fresh

\* Changing what kind some links are keeps their IDs and things.
LEMMA OtherKind ==
    ASSUME NEW L \in SUBSET Bud!Link, OwnIDs(L), NEW O \in SUBSET L, NEW kind \in Bud!Kinds
    PROVE  Others(Rekinded(L, O, kind), L, O, kind)
<1> DEFINE E(l) == [l EXCEPT !.kind = kind]
           new == Rekinded(L, O, kind)
<1>1. ASSUME NEW l \in Bud!Link
      PROVE  E(l) \in Bud!Link /\ E(l).id = l.id /\ E(l).thing = l.thing /\ E(l).kind = kind
    BY DEF Bud!Link
<1>2. new = (L \ O) \cup {E(l) : l \in O}
    BY DEF Rekinded
<1> HIDE DEF E, new
<1>3. new \subseteq Bud!Link
    BY <1>1, <1>2
<1>4. ASSUME NEW l \in new PROVE \E m \in L : l.id = m.id /\ (l = IF m \in O THEN E(m) ELSE m)
    BY <1>1, <1>2
<1>5. ASSUME NEW m \in L PROVE \E l \in new : l.id = m.id
    BY <1>1, <1>2
<1>6. OwnIDs(new)
    BY <1>4 DEF OwnIDs
<1>7. {l.id : l \in new} = {l.id : l \in L}
    <2>1. \A l \in new : \E m \in L : l.id = m.id
        BY <1>4
    <2> HIDE DEF E
    <2> QED
        BY ONLY <1>5, <2>1
<1>8. \A l \in new : l \in L \ O \/ (l.kind = kind /\ \E m \in O : l.thing = m.thing)
    BY <1>1, <1>2
<1>9. \A m \in O : \E l \in new : l.thing = m.thing /\ l.kind = kind
    BY <1>1, <1>2
<1> QED
    BY <1>3, <1>6, <1>7, <1>8, <1>9 DEF Others, new

\* Linking transactions, in the parts that the proofs use.
LEMMA LinkingIs ==
    ASSUME Bud!Bounds, Linked, NEW b \in Budgets, NEW T \in SUBSET Txns, NEW k \in Bud!Kinds,
           Bud!LinkTransactions(b, T, k)
    PROVE  /\ \A c \in Budgets \ {b} : link'[c] = link[c] /\ off'[c] = off[c]
           /\ link' = [c \in Budgets |-> link'[c]] /\ off' = [c \in Budgets |-> off'[c]]
           /\ off'[b] = off[b] \ T /\ paused' = paused
           /\ link'[b] \subseteq Bud!Link /\ OwnIDs(link'[b])
           /\ \A t \in T : HasOwn(link[b], t) \/ Bud!NeedsLink(b, t, k) => HasOwn(link'[b], t)
           /\ \A t \in T : OwnAre(link'[b], t, k)
           /\ \A t \in Txns : \/ t \in T /\ (HasOwn(link[b], t) \/ Bud!NeedsLink(b, t, k))
                              \/ Hits(link'[b], t) = Hits(link[b], t)
<1> DEFINE own == {l \in link[b] : l.thing[1] = "transaction" /\ l.thing[2] \in T}
           linked == {l.thing[2] : l \in own}
           needed == {<<"transaction", t>> : t \in {u \in T \ linked : Bud!NeedsLink(b, u, k)}}
           left == Rekinded(link[b], own, k)
<1>1. PICK new \in Bud!NewLinks(link[b], needed, k) :
          link' = [link EXCEPT ![b] = left \cup new]
    BY DEF Bud!LinkTransactions, Rekinded, Linked
<1>2. off' = [off EXCEPT ![b] = @ \ T] /\ paused' = paused
    BY DEF Bud!LinkTransactions
<1>3. link[b] \in SUBSET Bud!Link /\ OwnIDs(link[b])
    BY DEF Linked
<1>4. link'[b] = left \cup new
    BY <1>1 DEF Linked
<1>5. own \in SUBSET link[b]
    OBVIOUS
<1>6. Others(left, link[b], own, k)
    <2> HIDE DEF own
    <2> QED
        BY <1>3, <1>5, OtherKind
<1>7. needed \in SUBSET Bud!Things
    BY DEF Bud!Things
<1>8. new \in Bud!NewLinks(left, needed, k)
    BY <1>1, <1>6 DEF Bud!NewLinks, Others
<1> HIDE DEF left, needed
<1>9. Fresh(new, left, needed, k)
    BY <1>6, <1>7, <1>8, FreshLinks DEF Others
<1>10. ASSUME NEW t \in T
       PROVE  OwnAre(link'[b], t, k)
    <2>1. ASSUME NEW l \in left, l.thing = <<"transaction", t>> PROVE l.kind = k
        <3>1. l \in link[b] => l \in own
            BY <2>1
        <3> QED
            BY <1>6, <3>1 DEF Others
    <2> QED
        BY <1>4, <1>9, <2>1 DEF Fresh, OwnAre
<1>11. ASSUME NEW t \in T, NEW m \in link[b], m.thing = <<"transaction", t>>
       PROVE  HasOwn(link'[b], t)
    <2>1. m \in own
        BY <1>11
    <2> QED
        BY <1>4, <1>6, <1>11, <2>1 DEF Others, HasOwn
<1>12. ASSUME NEW t \in T, Bud!NeedsLink(b, t, k)
       PROVE  HasOwn(link'[b], t)
    <2>1. CASE t \in linked
        <3>1. PICK m \in own : m.thing[2] = t
            BY <2>1
        <3>2. m.thing = <<"transaction", t>>
            BY <1>3, <3>1, KindsOfThings
        <3> QED
            BY <1>11, <3>1, <3>2
    <2>2. CASE t \notin linked
        <3>1. <<"transaction", t>> \in needed
            BY <1>12, <2>2 DEF needed
        <3> QED
            BY <1>4, <1>9, <3>1 DEF Fresh, HasOwn
    <2> QED
        BY <2>1, <2>2
<1>13. ASSUME NEW t \in Txns,
              ~(t \in T /\ (HasOwn(link[b], t) \/ Bud!NeedsLink(b, t, k)))
       PROVE  Hits(link'[b], t) = Hits(link[b], t)
    <2>1. ASSUME NEW l \in own PROVE l.thing = <<"transaction", l.thing[2]>> /\ l.thing[2] # t
        BY <1>3, <1>13, KindsOfThings DEF HasOwn
    <2>2. \A l \in own : ~Bud!Hit(l, t)
        BY <2>1, OwnHits
    <2>3. ASSUME NEW l \in left, l \notin link[b] \ own PROVE ~Bud!Hit(l, t)
        <3>1. PICK m \in own : l.thing = m.thing
            BY <1>6, <2>3 DEF Others
        <3> QED
            BY <2>1, <3>1, OwnHits
    <2>4. ASSUME NEW l \in new PROVE ~Bud!Hit(l, t)
        <3>1. PICK u \in T \ linked : l.thing = <<"transaction", u>> /\ Bud!NeedsLink(b, u, k)
            BY <1>9 DEF needed, Fresh
        <3> QED
            BY <1>13, <3>1, OwnHits
    <2>5. link[b] \ own \subseteq left
        BY DEF left, Rekinded
    <2> HIDE DEF own
    <2> QED
        BY <1>4, <2>2, <2>3, <2>4, <2>5 DEF Hits
<1>14. link'[b] \subseteq Bud!Link /\ OwnIDs(link'[b])
    BY <1>4, <1>6, <1>9 DEF Others, Fresh
<1>15. /\ \A c \in Budgets \ {b} : link'[c] = link[c] /\ off'[c] = off[c]
       /\ link' = [c \in Budgets |-> link'[c]] /\ off' = [c \in Budgets |-> off'[c]]
       /\ off'[b] = off[b] \ T
    BY <1>1, <1>2 DEF Linked
<1> HIDE DEF own
<1> QED
    BY <1>2, <1>10, <1>11, <1>12, <1>13, <1>14, <1>15 DEF HasOwn

LEMMA LinkedStays ==
    ASSUME Bud!Bounds, Linked, [Bud!Next]_Bud!vars
    PROVE  Linked'
<1>1. ASSUME NEW b \in Budgets PROVE link[b] \in SUBSET Bud!Link /\ OwnIDs(link[b])
    BY DEF Linked
<1>2. ASSUME NEW L, NEW M \in SUBSET L, L \in SUBSET Bud!Link, OwnIDs(L)
      PROVE  M \in SUBSET Bud!Link /\ OwnIDs(M)
    BY <1>2 DEF OwnIDs
<1>3. ASSUME UNCHANGED <<link, off>> PROVE Linked'
    BY <1>3 DEF Linked
\* One budget's links.
<1>4. ASSUME NEW b \in Budgets, NEW L \in SUBSET Bud!Link, OwnIDs(L), NEW O,
             link' = [link EXCEPT ![b] = L], off' = [off EXCEPT ![b] = O] \/ off' = off
      PROVE  Linked'
    BY <1>4 DEF Linked
<1>5. CASE UNCHANGED Bud!vars
    BY <1>3, <1>5 DEF Bud!vars
<1>6. ASSUME NEW b \in Budgets, Bud!Delete(b) PROVE Linked'
    <2>1. OwnIDs({}) /\ {} \in SUBSET Bud!Link
        BY DEF OwnIDs
    <2> QED
        BY <1>4, <1>6, <2>1 DEF Bud!Delete
<1>7. ASSUME NEW b \in Budgets, NEW T \in SUBSET Txns, NEW k \in Bud!Kinds, Bud!LinkTransactions(b, T, k)
      PROVE  Linked'
    <2>1. link'[b] \subseteq Bud!Link /\ OwnIDs(link'[b])
        BY <1>7, LinkingIs
    <2>2. \A c \in Budgets \ {b} : link'[c] = link[c]
        BY <1>7, LinkingIs
    <2>3. link' = [c \in Budgets |-> link'[c]] /\ off' = [c \in Budgets |-> off'[c]]
        BY <1>7, LinkingIs
    <2> QED
        BY <1>1, <2>1, <2>2, <2>3 DEF Linked
<1>8. ASSUME NEW b \in Budgets, NEW t \in Txns, Bud!Unlink(b, t) PROVE Linked'
    <2> DEFINE left == {l \in link[b] : l.thing # <<"transaction", t>>}
               O == IF Bud!CountedBy(link'[b], t) # None THEN off[b] \cup {t} ELSE off[b]
    <2>1. link' = [link EXCEPT ![b] = left] /\ off' = [off EXCEPT ![b] = O]
        BY <1>8 DEF Bud!Unlink
    <2>2. left \in SUBSET Bud!Link /\ OwnIDs(left)
        BY <1>1, <1>2
    <2> HIDE DEF left, O
    <2> QED
        BY <1>4, <2>1, <2>2
<1>9. ASSUME NEW b \in Budgets, NEW x \in Bud!Sources, NEW k \in Bud!Kinds, Bud!AddSource(b, x, k)
      PROVE  Linked'
    <2>1. PICK new \in Bud!NewLinks(link[b], {x}, k) : link' = [link EXCEPT ![b] = link[b] \cup new] /\ off' = off
        BY <1>9 DEF Bud!AddSource, Linked
    <2>2. Fresh(new, link[b], {x}, k)
        BY <1>1, <2>1, FreshLinks DEF Bud!Things
    <2> DEFINE L == link[b] \cup new
    <2>3. L \in SUBSET Bud!Link /\ OwnIDs(L)
        BY <1>1, <2>2 DEF Fresh
    <2>4. link' = [link EXCEPT ![b] = L]
        BY <2>1
    <2> HIDE DEF L
    <2> QED
        BY <1>4, <2>1, <2>3, <2>4
<1>10. ASSUME NEW b \in Budgets, NEW l \in link[b], Bud!RemoveSource(b, l) PROVE Linked'
    <2> DEFINE L == link[b] \ {l}
    <2>1. link' = [link EXCEPT ![b] = L] /\ off' = off
        BY <1>10 DEF Bud!RemoveSource, Linked
    <2>2. L \in SUBSET Bud!Link /\ OwnIDs(L)
        BY <1>1, <1>2
    <2> HIDE DEF L
    <2> QED
        BY <1>4, <2>1, <2>2
<1>11. ASSUME NEW a \in Autos, NEW B \in SUBSET Budgets, NEW w \in [B -> Bud!Kinds], Bud!SetAutomationCounts(a, w)
       PROVE  Linked'
    <2> DEFINE x == <<"automation", a>>
               rest(b) == {l \in link[b] : l.thing # x}
               old(b) == link[b] \ rest(b)
    <2>0. PICK id \in Ids :
              /\ \A b \in DOMAIN w : \A l \in link[b] : l.thing # x => l.id # id
              /\ link' = [b \in Budgets |->
                     IF b \notin DOMAIN w THEN rest(b)
                     ELSE IF old(b) # {} THEN rest(b) \cup {[l EXCEPT !.kind = w[b]] : l \in old(b)}
                     ELSE rest(b) \cup {[id |-> id, thing |-> x, kind |-> w[b]]}]
        BY <1>11, Zenon DEF Bud!SetAutomationCounts
    <2>1. /\ \A b \in B : \A l \in link[b] : l.thing # x => l.id # id
          /\ \A b \in Budgets : link'[b] =
                     IF b \notin B THEN rest(b)
                     ELSE IF old(b) # {} THEN Rekinded(link[b], old(b), w[b])
                     ELSE rest(b) \cup {[id |-> id, thing |-> x, kind |-> w[b]]}
        <3>1. DOMAIN w = B
            OBVIOUS
        <3>2. ASSUME NEW b \in Budgets
              PROVE  rest(b) \cup {[l EXCEPT !.kind = w[b]] : l \in old(b)} = Rekinded(link[b], old(b), w[b])
            <4>1. link[b] \ old(b) = rest(b)
                OBVIOUS
            <4> HIDE DEF rest, old
            <4> QED
                BY <4>1 DEF Rekinded
        <3> HIDE DEF rest, old
        <3> QED
            BY <2>0, <3>1, <3>2
    <2>2. ASSUME NEW b \in Budgets PROVE link'[b] \in SUBSET Bud!Link /\ OwnIDs(link'[b])
        <3>1. rest(b) \in SUBSET Bud!Link /\ OwnIDs(rest(b)) /\ rest(b) \in SUBSET link[b]
            BY <1>1, <1>2
        <3>2. CASE b \notin B
            BY <2>1, <3>1, <3>2
        <3>3. CASE b \in B /\ old(b) # {}
            <4>1. link'[b] = Rekinded(link[b], old(b), w[b]) /\ w[b] \in Bud!Kinds /\ old(b) \in SUBSET link[b]
                BY <2>1, <3>3
            <4>2. Others(Rekinded(link[b], old(b), w[b]), link[b], old(b), w[b])
                <5> HIDE DEF old, rest
                <5> QED
                    BY <1>1, <4>1, OtherKind
            <4> HIDE DEF old, rest
            <4> QED
                BY <4>1, <4>2 DEF Others
        <3>4. CASE b \in B /\ old(b) = {}
            <4> DEFINE one == [id |-> id, thing |-> x, kind |-> w[b]]
            <4>1. link'[b] = rest(b) \cup {one} /\ \A l \in rest(b) : l.id # one.id
                BY <2>1, <3>4
            <4>2. one \in Bud!Link
                BY <3>4 DEF Bud!Link, Bud!Things, Bud!Sources
            <4> HIDE DEF rest, one
            <4> QED
                BY <3>1, <4>1, <4>2 DEF OwnIDs
        <3> QED
            BY <3>2, <3>3, <3>4
    <2>3. off' = off /\ link' = [b \in Budgets |-> link'[b]]
        BY <1>11, <2>0 DEF Bud!SetAutomationCounts
    <2> QED
        BY <2>2, <2>3 DEF Linked
<1>12. ASSUME NEW x \in Bud!Sources, Bud!Vanish(x) PROVE Linked'
    <2> DEFINE rest(b) == {l \in link[b] : l.thing # x}
    <2>1. link' = [b \in Budgets |-> rest(b)] /\ off' = off
        BY <1>12 DEF Bud!Vanish
    <2>2. ASSUME NEW b \in Budgets PROVE rest(b) \in SUBSET Bud!Link /\ OwnIDs(rest(b))
        BY <1>1, <1>2
    <2> HIDE DEF rest
    <2> QED
        BY <2>1, <2>2 DEF Linked
<1>13. ASSUME NEW b \in Budgets, NEW p, NEW n, NEW on, Bud!Create(b, p, on, n) \/ Bud!Change(b, p, on, n)
       PROVE  Linked'
    <2>1. CASE Bud!Create(b, p, on, n)
        BY <1>3, <2>1 DEF Bud!Create
    <2>2. CASE Bud!Change(b, p, on, n)
        BY <1>3, <2>2 DEF Bud!Change
    <2> QED
        BY <1>13, <2>1, <2>2
<1>14. ASSUME NEW a, Bud!Pause(a) \/ Bud!Tomorrow(a) PROVE Linked'
    BY <1>3, <1>14 DEF Bud!Pause, Bud!Tomorrow
<1> QED
    BY <1>5, <1>6, <1>7, <1>8, <1>9, <1>10, <1>11, <1>12, <1>13, <1>14 DEF Bud!Next

LEMMA LinkedAlways == Bud!Bounds => (Bud!Spec => []Linked)
<1> SUFFICES ASSUME Bud!Bounds PROVE Bud!Spec => []Linked
    OBVIOUS
<1>1. Bud!Init => Linked
    BY DEF Bud!Init, Linked, OwnIDs
<1>2. Linked /\ [Bud!Next]_Bud!vars => Linked'
    BY LinkedStays
<1> QED
    BY <1>1, <1>2, PTL DEF Bud!Spec

\* What a transaction counts as, after a step that changes no automation.
LEMMA AsAfter ==
    ASSUME paused' = paused, NEW b, NEW t
    PROVE  Bud!As(b, t)' = IF t \in off'[b] \/ Bud!CountedBy(link'[b], t) = None THEN None
                           ELSE Bud!CountedBy(link'[b], t).kind
<1>1. Bud!CountedBy(link[b], t)' = Bud!CountedBy(link'[b], t)
    BY CountedByAfter
<1> QED
    BY <1>1 DEF Bud!As

LEMMA LinkedCount ==
    ASSUME Bud!Bounds, Linked, NEW b \in Budgets, NEW T \in SUBSET Txns, NEW k \in Bud!Kinds,
           Bud!LinkTransactions(b, T, k), NEW t \in Txns
    PROVE  Bud!As(b, t)' = IF t \in T THEN k ELSE Bud!As(b, t)
<1>1. link'[b] \subseteq Bud!Link /\ OwnIDs(link'[b])
    BY LinkingIs
<1>2. off'[b] = off[b] \ T /\ paused' = paused
    BY LinkingIs
<1> DEFINE Own == HasOwn(link[b], t) \/ Bud!NeedsLink(b, t, k)
           Same == Hits(link'[b], t) = Hits(link[b], t)
<1>3. t \in T /\ Own => HasOwn(link'[b], t)
    BY LinkingIs
<1>8. t \in T => OwnAre(link'[b], t, k)
    BY LinkingIs
<1>4. (t \in T /\ Own) \/ Same
    BY LinkingIs
<1>5. Bud!As(b, t)' = IF t \in off'[b] \/ Bud!CountedBy(link'[b], t) = None THEN None
                      ELSE Bud!CountedBy(link'[b], t).kind
    BY <1>2, AsAfter
<1>6. CASE t \in T /\ Own
    <2>1. Bud!CountedBy(link'[b], t) # None /\ Bud!CountedBy(link'[b], t).kind = k
        BY <1>1, <1>3, <1>6, <1>8, CountsOwn
    <2> QED
        BY <1>2, <1>5, <1>6, <2>1
<1>7. CASE Same /\ ~(t \in T /\ Own)
    <2>1. Bud!CountedBy(link'[b], t) = Bud!CountedBy(link[b], t)
        BY <1>7 DEF Bud!CountedBy, Hits
    <2>2. t \in T => Bud!CountedBy(link[b], t) # None /\ Bud!CountedBy(link[b], t).kind = k
        BY <1>7 DEF Bud!NeedsLink
    <2> QED
        BY <1>2, <1>5, <2>1, <2>2 DEF Bud!As
<1> QED
    BY <1>4, <1>6, <1>7

LEMMA UnlinkedCounts ==
    ASSUME Linked, NEW b \in Budgets, NEW t \in Txns, Bud!Unlink(b, t), NEW u \in Txns
    PROVE  Bud!As(b, u)' = IF u = t THEN None ELSE Bud!As(b, u)
<1>1. /\ link'[b] = {l \in link[b] : l.thing # <<"transaction", t>>} /\ paused' = paused
      /\ off'[b] = IF Bud!CountedBy(link'[b], t) # None THEN off[b] \cup {t} ELSE off[b]
    BY DEF Bud!Unlink, Linked
<1>2. Bud!As(b, u)' = IF u \in off'[b] \/ Bud!CountedBy(link'[b], u) = None THEN None
                      ELSE Bud!CountedBy(link'[b], u).kind
    BY <1>1, AsAfter
<1>3. CASE u = t
    BY <1>1, <1>2, <1>3
<1>4. CASE u # t
    <2>1. \A l \in link[b] : Bud!Hit(l, u) => l.thing # <<"transaction", t>>
        BY <1>4, OwnHits
    <2>2. {l \in link'[b] : Bud!Hit(l, u)} = {l \in link[b] : Bud!Hit(l, u)}
        BY <1>1, <2>1
    <2>3. Bud!CountedBy(link'[b], u) = Bud!CountedBy(link[b], u)
        BY <2>2 DEF Bud!CountedBy
    <2> QED
        BY <1>1, <1>2, <1>4, <2>3 DEF Bud!As
<1> QED
    BY <1>3, <1>4

(* Linking makes transactions count as what was asked, and no other counts   *)
(* otherwise than before (finance/budget.py:768-826).                        *)
THEOREM LinksCountAsAsked == Bud!Bounds => (Bud!Spec => CountsAsAsked)
<1> SUFFICES ASSUME Bud!Bounds PROVE Bud!Spec => CountsAsAsked
    OBVIOUS
<1> DEFINE Counted == /\ \A b \in Budgets, T \in SUBSET Txns, k \in Bud!Kinds :
                          T # {} /\ Bud!LinkTransactions(b, T, k) =>
                              \A t \in Txns : Bud!As(b, t)' = IF t \in T THEN k ELSE Bud!As(b, t)
                    /\ \A b \in Budgets, t \in Txns :
                          Bud!Unlink(b, t) => \A u \in Txns : Bud!As(b, u)' = IF u = t THEN None ELSE Bud!As(b, u)
<1>1. Linked => Counted
    BY LinkedCount, UnlinkedCounts
<1>2. Linked /\ [Bud!Next]_Bud!vars => [Counted]_Bud!vars
    BY <1>1
<1> QED
    BY <1>2, LinkedAlways, PTL DEF Bud!Spec, CountsAsAsked, Bud!CountsAsAsked

-----------------------------------------------------------------------------
(* Budgets: periods that are over keep their amount                        *)

\* Where periods may start.
Anchored(p, on) == on \in Int /\ (Bud!Span[p].days = 0 => on \in Bud!AllDays)

LEMMA SpanIs ==
    ASSUME NEW p \in DOMAIN Bud!Span
    PROVE  Bud!Span[p].days \in {0, 7, 14} /\ (Bud!Span[p].days = 0 => Bud!Span[p].months \in {1, 12})
BY DEF Bud!Span

LEMMA MonthHas ==
    ASSUME Bud!Ordered, NEW d \in Bud!AllDays
    PROVE  /\ d \in Int /\ Bud!MonthOf(d) \in Bud!Months
           /\ Firsts[Bud!MonthOf(d)] <= d /\ d < Firsts[Bud!MonthOf(d) + 1]
BY MonthIs DEF Bud!Ordered, Bud!AllDays, Bud!Beyond, Bud!MonthOf, Bud!Months,
               Cal!Ordered, Cal!AllDays, Cal!Beyond, Cal!MonthOf, Cal!Months

LEMMA AddedIsDay ==
    ASSUME Bud!Ordered, NEW d \in Bud!AllDays, NEW k \in Int
    PROVE  Bud!AddMonths(d, k) \in Int
<1> DEFINE m == Bud!MonthOf(d)
<1>1. Len(Firsts) \in Nat /\ Len(Firsts) > 1 /\ \A n \in 1..Len(Firsts) : Firsts[n] \in Int
    BY DEF Bud!Ordered
<1>2. d \in Int /\ m \in 1..Len(Firsts) - 1
    BY MonthHas DEF Bud!Months
<1> HIDE DEF m
<1>3. CASE m + k \notin Bud!Months
    BY <1>1, <1>3 DEF Bud!AddMonths, Bud!Beyond, m
<1>4. CASE m + k \in Bud!Months
    <2> DEFINE n == m + k
    <2>1. n \in 1..Len(Firsts) /\ n + 1 \in 1..Len(Firsts) /\ m \in 1..Len(Firsts)
        BY <1>1, <1>2, <1>4 DEF Bud!Months
    <2>2. Bud!AddMonths(d, k) = Firsts[n] + Bud!Lesser(d - Firsts[m], (Firsts[n + 1] - Firsts[n]) - 1)
        BY <1>4 DEF Bud!AddMonths, Bud!Length, m
    <2> HIDE DEF n
    <2>3. Firsts[n] \in Int /\ d - Firsts[m] \in Int /\ (Firsts[n + 1] - Firsts[n]) - 1 \in Int
        BY <1>1, <1>2, <2>1
    <2> QED
        BY <2>2, <2>3 DEF Bud!Lesser
<1> QED
    BY <1>3, <1>4

LEMMA StartIsDay ==
    ASSUME Bud!Ordered, NEW p \in DOMAIN Bud!Span, NEW on, Anchored(p, on), NEW d \in Bud!AllDays
    PROVE  Bud!PeriodStart(p, on, d) \in Int
<1>1. d \in Int /\ Bud!MonthOf(d) \in Int /\ on \in Int
    <2>1. d \in Int /\ Bud!MonthOf(d) \in Bud!Months
        BY MonthHas
    <2> QED
        BY <2>1 DEF Bud!Months, Anchored, Bud!Ordered
<1>2. CASE Bud!Span[p].days > 0
    <2> DEFINE n == Bud!Span[p].days
    <2>1. n \in Nat \ {0}
        BY <1>2, SpanIs
    <2>2. Bud!PeriodStart(p, on, d) = on + ((d - on) \div n) * n
        BY <1>2 DEF Bud!PeriodStart
    <2> HIDE DEF n
    <2> QED
        BY <1>1, <2>1, <2>2
<1>3. CASE ~(Bud!Span[p].days > 0)
    <2> DEFINE step == Bud!Span[p].months
               index == ((Bud!MonthOf(d) - Bud!MonthOf(on)) \div step) * step
    <2>1. step \in {1, 12} /\ on \in Bud!AllDays
        BY <1>3, SpanIs DEF Anchored
    <2>2. Bud!MonthOf(on) \in Int
        BY <2>1, MonthHas DEF Bud!Months, Bud!Ordered
    <2>3. index \in Int /\ index - step \in Int
        BY <1>1, <2>1, <2>2
    <2>4. Bud!PeriodStart(p, on, d) = IF Bud!AddMonths(on, index) <= d THEN Bud!AddMonths(on, index)
                                      ELSE Bud!AddMonths(on, index - step)
        BY <1>3 DEF Bud!PeriodStart
    <2> HIDE DEF index, step
    <2> QED
        BY <2>1, <2>3, <2>4, AddedIsDay
<1> QED
    BY <1>2, <1>3

LEMMA DefaultIsStart ==
    ASSUME Bud!Ordered, NEW p \in DOMAIN Bud!Span, NEW d \in Bud!AllDays
    PROVE  Anchored(p, Bud!DefaultStart(p, d, 0, 1))
<1> DEFINE m == Bud!MonthOf(d)
           year == ((m - 1) % 12) + 1
<1>1. Len(Firsts) \in Nat /\ Len(Firsts) > 1 /\ \A n \in 1..Len(Firsts) : Firsts[n] \in Int
    BY DEF Bud!Ordered
<1>2. d \in Int /\ m \in 1..Len(Firsts) - 1
    BY MonthHas DEF Bud!Months
<1>3. year >= 1 /\ m - year + 1 \in 1..m
    <2> DEFINE x == m - 1
    <2>1. x \in Nat /\ year = (x % 12) + 1
        BY <1>1, <1>2
    <2> HIDE DEF m, x
    <2>2. x % 12 \in 0..11 /\ x % 12 <= x
        BY <2>1
    <2> QED
        BY <1>1, <1>2, <2>1, <2>2 DEF x
<1>4. ASSUME NEW n \in 1..Len(Firsts) - 1 PROVE Firsts[n] \in Bud!AllDays
    <2>1. n \in Cal!Months /\ Cal!Ordered /\ Firsts[n + 1] - Firsts[n] \in 28..31
        BY <1>4 DEF Bud!Ordered, Cal!Ordered, Bud!Months, Cal!Months
    <2>2. /\ Firsts[1] \in Int /\ Firsts[n] \in Int /\ 28 * (n - 1) <= Firsts[n] - Firsts[1]
        BY <1>1, <2>1, MonthsApart
    <2>3. 28 * (Len(Firsts) - n) <= Firsts[Len(Firsts)] - Firsts[n]
        <3>1. n \in 1..Len(Firsts) /\ Len(Firsts) \in n..Len(Firsts)
            BY <1>1
        <3> QED
            BY <2>1, <3>1, MonthsApart
    <2> QED
        BY <1>1, <2>2, <2>3 DEF Bud!AllDays, Bud!Beyond
<1>5. CASE Bud!Span[p].days > 0
    <2>1. Bud!DefaultStart(p, d, 0, 1) = d - ((((d - 1) % 7) - 0) % 7)
        BY <1>5 DEF Bud!DefaultStart
    <2>2. Bud!DefaultStart(p, d, 0, 1) \in Int
        BY <1>2, <2>1
    <2> QED
        BY <1>5, <2>2 DEF Anchored
<1>6. CASE ~(Bud!Span[p].days > 0)
    <2>1. Bud!DefaultStart(p, d, 0, 1) = IF p = "monthly" THEN Firsts[m] ELSE Firsts[m - year + 1]
        BY <1>3, <1>6 DEF Bud!DefaultStart
    <2>2. m \in 1..Len(Firsts) - 1 /\ m - year + 1 \in 1..Len(Firsts) - 1
        BY <1>1, <1>2, <1>3
    <2> HIDE DEF m, year
    <2>3. Bud!DefaultStart(p, d, 0, 1) \in Bud!AllDays
        BY <1>4, <2>1, <2>2
    <2> QED
        BY <2>3, MonthHas DEF Anchored
<1> QED
    BY <1>5, <1>6

\* What EXCEPT needs to know of a budget, and where its periods start.
BudgetFields(x) == x = [f \in {"state", "period", "anchor", "amounts"} |-> x[f]]
Standing ==
    /\ budget = [b \in Budgets |-> budget[b]]
    /\ present \in BudgetDays
    /\ \A b \in Budgets : /\ BudgetFields(budget[b])
                          /\ Bud!Here(b) => budget[b].period \in PeriodsInUse /\ Anchored(budget[b].period, budget[b].anchor)

LEMMA FirstDay ==
    ASSUME Bud!Bounds, BudgetDays # {}
    PROVE  Bud!Least(BudgetDays) \in BudgetDays
<1> DEFINE Since == {d - Firsts[1] : d \in BudgetDays}
<1>1. Firsts[1] \in Int /\ Firsts[Len(Firsts)] \in Int /\ \A d \in BudgetDays : d \in Int /\ Firsts[1] <= d
    BY DEF Bud!Bounds, Bud!Ordered, Bud!AllDays, Bud!Beyond
<1>2. Since \in SUBSET Nat /\ Since # {}
    BY <1>1
<1> HIDE DEF Since
<1>3. PICK n \in Since : \A m \in Since : n <= m
    BY <1>2, LeastNumber
<1>4. PICK d \in BudgetDays : d - Firsts[1] = n
    BY <1>3 DEF Since
<1>5. ASSUME NEW c \in BudgetDays PROVE d <= c
    <2>1. c - Firsts[1] \in Since
        BY DEF Since
    <2> QED
        BY <1>1, <1>3, <1>4, <2>1
<1> QED
    BY <1>5 DEF Bud!Least

AmountsAfter(x, start, n) ==
    IF n = None THEN x.amounts ELSE {a \in x.amounts : a.on # start} \cup {[on |-> start, amount |-> n]}

LEMMA ChangedIs ==
    ASSUME Bud!Bounds, Standing, NEW b \in Budgets, NEW p \in PeriodsInUse \cup {None},
           NEW on \in Anchors \cup {None}, NEW n, Bud!Change(b, p, on, n)
    PROVE  /\ budget' = [budget EXCEPT ![b] = budget'[b]] /\ present' = present
           /\ BudgetFields(budget'[b]) /\ budget'[b].state = "here"
           /\ \/ /\ p # None /\ p # budget[b].period /\ budget'[b].period = p
                 /\ budget'[b].anchor = IF on # None THEN on ELSE Bud!DefaultStart(p, present, 0, 1)
              \/ /\ budget'[b].period = budget[b].period
                 /\ budget'[b].anchor = IF on # None THEN on ELSE budget[b].anchor
                 /\ budget'[b].amounts =
                        AmountsAfter(budget[b], Bud!PeriodStart(budget'[b].period, budget'[b].anchor, present), n)
<1> DEFINE x == budget[b]
           kept == IF n # None THEN n ELSE Bud!AmountAt(x, Bud!StartOf(x, present))
           over == p # None /\ p # x.period
           at == IF on # None THEN on ELSE Bud!DefaultStart(p, present, 0, 1)
           moved == [x EXCEPT !.anchor = IF on # None THEN on ELSE x.anchor]
           turned == [x EXCEPT !.period = p, !.anchor = at, !.amounts = {[on |-> at, amount |-> kept]}]
           raised == [moved EXCEPT !.amounts = Bud!WithAmount(moved, Bud!StartOf(moved, present), n)]
           new == IF over THEN turned ELSE IF n # None THEN raised ELSE moved
<1>1. budget' = [budget EXCEPT ![b] = new] /\ present' = present /\ Bud!Here(b)
    BY DEF Bud!Change
<1>2. BudgetFields(x) /\ x.state = "here" /\ budget'[b] = new
    BY <1>1 DEF Standing, Bud!Here
<1>3. CASE over
    <2> HIDE DEF at, kept
    <2>1. new = turned
        BY <1>3
    <2>2. /\ turned = [f \in {"state", "period", "anchor", "amounts"} |-> turned[f]] /\ turned.state = x.state
          /\ turned.period = p /\ turned.anchor = at
        BY <1>2 DEF BudgetFields
    <2> HIDE DEF new, turned
    <2> QED
        BY <1>1, <1>2, <1>3, <2>1, <2>2 DEF BudgetFields, at
<1>4. CASE ~over
    <2> DEFINE where == IF on # None THEN on ELSE x.anchor
    <2>1. /\ moved = [f \in {"state", "period", "anchor", "amounts"} |-> moved[f]] /\ moved.state = x.state
          /\ moved.period = x.period /\ moved.anchor = where /\ moved.amounts = x.amounts
        BY <1>2 DEF BudgetFields
    <2> HIDE DEF moved, where
    <2> DEFINE start == Bud!PeriodStart(moved.period, moved.anchor, present)
               amounts == {a \in x.amounts : a.on # start} \cup {[on |-> start, amount |-> n]}
    <2>2. Bud!WithAmount(moved, Bud!StartOf(moved, present), n) = amounts
        BY <2>1 DEF Bud!WithAmount, Bud!StartOf
    <2> HIDE DEF amounts
    <2>3. raised = [moved EXCEPT !.amounts = amounts]
        BY <2>2
    <2> HIDE DEF raised
    <2>4. /\ raised = [f \in {"state", "period", "anchor", "amounts"} |-> raised[f]] /\ raised.state = x.state
          /\ raised.period = x.period /\ raised.anchor = where /\ raised.amounts = amounts
        BY <2>1, <2>3
    <2>5. new = IF n # None THEN raised ELSE moved
        BY <1>4
    <2>6. budget'[b].period = x.period /\ budget'[b].anchor = where /\ budget'[b].state = "here"
        BY <1>2, <2>1, <2>4, <2>5
    <2>7. BudgetFields(budget'[b])
        BY <1>2, <2>1, <2>4, <2>5 DEF BudgetFields
    <2>8. budget'[b].amounts = IF n = None THEN x.amounts ELSE amounts
        BY <1>2, <2>1, <2>4, <2>5
    <2>9. start = Bud!PeriodStart(budget'[b].period, budget'[b].anchor, present)
        BY <2>1, <2>6
    <2> HIDE DEF new, start
    <2> QED
        BY <1>1, <1>2, <2>6, <2>7, <2>8, <2>9 DEF where, amounts, AmountsAfter
<1> QED
    BY <1>3, <1>4

LEMMA NoBudgetIs == BudgetFields(Bud!NoBudget) /\ Bud!NoBudget.state = "none"
<1> DEFINE p == CHOOSE p \in PeriodsInUse : TRUE
           on == Bud!Least(Anchors)
<1>1. Bud!NoBudget = [state |-> "none", period |-> p, anchor |-> on, amounts |-> {}]
    BY DEF Bud!NoBudget
<1> HIDE DEF p, on
<1> QED
    BY <1>1 DEF BudgetFields

LEMMA CreatedIs ==
    ASSUME NEW b \in Budgets, NEW p, NEW on, NEW n, Bud!Create(b, p, on, n)
    PROVE  /\ budget' = [budget EXCEPT ![b] = budget'[b]] \/ b \notin DOMAIN budget
           /\ present' = present /\ ~Bud!Here(b)
           /\ b \in DOMAIN budget =>
                  /\ BudgetFields(budget'[b]) /\ budget'[b].period = p
                  /\ budget'[b].anchor = IF on = None THEN Bud!DefaultStart(p, present, 0, 1) ELSE on
<1> DEFINE at == IF on = None THEN Bud!DefaultStart(p, present, 0, 1) ELSE on
           new == [state |-> "here", period |-> p, anchor |-> at, amounts |-> {[on |-> at, amount |-> n]}]
<1>1. budget' = [budget EXCEPT ![b] = new] /\ present' = present /\ budget[b].state = "none"
    BY DEF Bud!Create
<1>2. /\ new = [f \in {"state", "period", "anchor", "amounts"} |-> new[f]]
      /\ new.period = p /\ new.anchor = at
    OBVIOUS
<1> HIDE DEF new
<1> QED
    BY <1>1, <1>2 DEF Bud!Here, BudgetFields

\* No other action changes a budget.
LEMMA RestOfNext ==
    ASSUME [Bud!Next]_Bud!vars
    PROVE  \/ budget' = budget /\ (present' = present \/ present' \in BudgetDays)
           \/ \E b \in Budgets, p \in PeriodsInUse, n \in Amounts, on \in Anchors \cup {None} : Bud!Create(b, p, on, n)
           \/ \E b \in Budgets, p \in PeriodsInUse \cup {None}, on \in Anchors \cup {None}, n \in Amounts \cup {None} :
                  Bud!Change(b, p, on, n)
           \/ \E b \in Budgets : budget' = [budget EXCEPT ![b] = Bud!NoBudget] /\ present' = present
<1> DEFINE Same == budget' = budget /\ (present' = present \/ present' \in BudgetDays)
<1>1. CASE UNCHANGED Bud!vars
    BY <1>1 DEF Bud!vars
<1>2. ASSUME NEW b \in Budgets, Bud!Delete(b)
      PROVE  budget' = [budget EXCEPT ![b] = Bud!NoBudget] /\ present' = present
    BY <1>2 DEF Bud!Delete
<1>3. ASSUME NEW b, NEW T, NEW k, Bud!LinkTransactions(b, T, k) PROVE Same
    BY <1>3 DEF Bud!LinkTransactions
<1>4. ASSUME NEW b, NEW t, Bud!Unlink(b, t) \/ Bud!RemoveSource(b, t) PROVE Same
    BY <1>4 DEF Bud!Unlink, Bud!RemoveSource
<1>5. ASSUME NEW b, NEW x, NEW k, Bud!AddSource(b, x, k) PROVE Same
    BY <1>5 DEF Bud!AddSource
<1>6. ASSUME NEW a, NEW w, Bud!SetAutomationCounts(a, w) PROVE Same
    BY <1>6 DEF Bud!SetAutomationCounts
<1>7. ASSUME NEW a, Bud!Pause(a) \/ Bud!Vanish(a) PROVE Same
    BY <1>7 DEF Bud!Pause, Bud!Vanish
<1>8. ASSUME NEW d \in BudgetDays, Bud!Tomorrow(d) PROVE Same
    BY <1>8 DEF Bud!Tomorrow
<1> HIDE DEF Same
<1>9. CASE Bud!Next
    BY <1>2, <1>3, <1>4, <1>5, <1>6, <1>7, <1>8, <1>9 DEF Bud!Next, Same
<1> QED
    BY <1>1, <1>9

LEMMA StandingStays ==
    ASSUME Bud!Bounds, Standing, [Bud!Next]_Bud!vars
    PROVE  Standing'
<1> DEFINE Right(x) == BudgetFields(x) /\ (x.state = "here" => x.period \in PeriodsInUse /\ Anchored(x.period, x.anchor))
<1>1. \A b \in Budgets : Right(budget[b])
    BY DEF Standing, Bud!Here
<1>2. ASSUME \A b \in Budgets : Right(budget'[b]), budget' = [b \in Budgets |-> budget'[b]], present' \in BudgetDays
      PROVE  Standing'
    BY <1>2 DEF Standing, Bud!Here
<1>3. \A a \in Anchors : Anchored("weekly", a) /\ \A p : Anchored(p, a)
    BY MonthHas DEF Bud!Bounds, Anchored
<1>4. \A p \in DOMAIN Bud!Span : Anchored(p, Bud!DefaultStart(p, present, 0, 1))
    BY DefaultIsStart DEF Bud!Bounds, Standing
<1>5. PeriodsInUse \subseteq DOMAIN Bud!Span
    BY DEF Bud!Bounds
<1>6. CASE budget' = budget /\ (present' = present \/ present' \in BudgetDays)
    BY <1>1, <1>2, <1>6 DEF Standing
<1>7. ASSUME NEW b \in Budgets, NEW p \in PeriodsInUse, NEW n \in Amounts, NEW on \in Anchors \cup {None},
             Bud!Create(b, p, on, n)
      PROVE  Standing'
    <2>1. /\ budget' = [budget EXCEPT ![b] = budget'[b]] /\ present' = present
          /\ BudgetFields(budget'[b]) /\ budget'[b].period = p
          /\ budget'[b].anchor = IF on = None THEN Bud!DefaultStart(p, present, 0, 1) ELSE on
        BY <1>7, CreatedIs DEF Standing
    <2>2. Right(budget'[b])
        BY <1>3, <1>4, <1>5, <2>1
    <2> HIDE DEF Right
    <2> QED
        BY <1>1, <1>2, <2>1, <2>2 DEF Standing
<1>8. ASSUME NEW b \in Budgets, NEW p \in PeriodsInUse \cup {None}, NEW on \in Anchors \cup {None},
             NEW n \in Amounts \cup {None}, Bud!Change(b, p, on, n)
      PROVE  Standing'
    <2>1. budget' = [budget EXCEPT ![b] = budget'[b]] /\ present' = present /\ BudgetFields(budget'[b])
        BY <1>8, ChangedIs
    <2>2. \/ /\ p # None /\ budget'[b].period = p
             /\ budget'[b].anchor = IF on # None THEN on ELSE Bud!DefaultStart(p, present, 0, 1)
          \/ /\ budget'[b].period = budget[b].period
             /\ budget'[b].anchor = IF on # None THEN on ELSE budget[b].anchor
        BY <1>8, ChangedIs
    <2>3. budget[b].period \in PeriodsInUse /\ Anchored(budget[b].period, budget[b].anchor)
        BY <1>8 DEF Bud!Change, Standing
    <2>4. Right(budget'[b])
        BY <1>3, <1>4, <1>5, <2>1, <2>2, <2>3
    <2> HIDE DEF Right
    <2> QED
        BY <1>1, <1>2, <2>1, <2>4 DEF Standing
<1>9. ASSUME NEW b \in Budgets, budget' = [budget EXCEPT ![b] = Bud!NoBudget], present' = present PROVE Standing'
    <2>1. Right(Bud!NoBudget)
        BY NoBudgetIs
    <2> HIDE DEF Right
    <2> QED
        BY <1>1, <1>2, <1>9, <2>1 DEF Standing
<1> QED
    BY <1>6, <1>7, <1>8, <1>9, RestOfNext

\* A change of one budget, and any other step.
LEMMA PastKept ==
    ASSUME Bud!Bounds, Standing, [Bud!Next]_Bud!vars, NEW b \in Budgets,
           Bud!Here(b), Bud!Here(b)', budget'[b].period = budget[b].period, budget'[b].anchor = budget[b].anchor,
           NEW d \in BudgetDays,
           Bud!StartOf(budget[b], d) < Bud!StartOf(budget[b], present),
           NEW e \in budget[b].amounts, e.on <= Bud!StartOf(budget[b], d)
    PROVE  Bud!AmountAt(budget'[b], Bud!StartOf(budget[b], d)) = Bud!AmountAt(budget[b], Bud!StartOf(budget[b], d))
<1> DEFINE start == Bud!StartOf(budget[b], d)
           now == Bud!StartOf(budget[b], present)
<1>1. start \in Int /\ now \in Int
    <2>1. d \in Bud!AllDays /\ present \in Bud!AllDays
        BY DEF Bud!Bounds, Standing
    <2>2. budget[b].period \in DOMAIN Bud!Span /\ Anchored(budget[b].period, budget[b].anchor) /\ Bud!Ordered
        BY DEF Standing, Bud!Bounds
    <2> QED
        BY <2>1, <2>2, StartIsDay DEF Bud!StartOf
<1>2. ASSUME budget'[b].amounts = budget[b].amounts
      PROVE  Bud!AmountAt(budget'[b], start) = Bud!AmountAt(budget[b], start)
    <2> HIDE DEF start
    <2> QED
        BY <1>2 DEF Bud!AmountAt
<1>3. ASSUME NEW p \in PeriodsInUse \cup {None}, NEW on \in Anchors \cup {None}, NEW n \in Amounts \cup {None},
             Bud!Change(b, p, on, n)
      PROVE  Bud!AmountAt(budget'[b], start) = Bud!AmountAt(budget[b], start)
    <2>1. budget'[b].amounts =
              AmountsAfter(budget[b], Bud!PeriodStart(budget'[b].period, budget'[b].anchor, present), n)
        BY <1>3, ChangedIs
    <2>2. budget'[b].amounts = budget[b].amounts
          \/ budget'[b].amounts = {a \in budget[b].amounts : a.on # now} \cup {[on |-> now, amount |-> n]}
        BY <2>1 DEF Bud!StartOf, AmountsAfter
    <2>3. ASSUME budget'[b].amounts = {a \in budget[b].amounts : a.on # now} \cup {[on |-> now, amount |-> n]}
          PROVE  Bud!AmountAt(budget'[b], start) = Bud!AmountAt(budget[b], start)
        <3>1. ~(now <= start)
            BY <1>1
        <3> HIDE DEF start, now
        <3> DEFINE before == {a \in budget[b].amounts : a.on <= start}
                   after == {a \in budget'[b].amounts : a.on <= start}
        <3>2. after = before
            BY <2>3, <3>1
        <3>3. before # {}
            BY DEF start
        <3>4. Bud!AmountAt(budget[b], start) = (CHOOSE a \in before : \A c \in before : c.on <= a.on).amount
            BY <3>3 DEF Bud!AmountAt
        <3>5. Bud!AmountAt(budget'[b], start) = (CHOOSE a \in after : \A c \in after : c.on <= a.on).amount
            BY <3>2, <3>3 DEF Bud!AmountAt
        <3> HIDE DEF before, after
        <3> QED
            BY <3>2, <3>4, <3>5
    <2> QED
        BY <1>2, <2>2, <2>3
<1>4. CASE budget'[b] = budget[b]
    BY <1>2, <1>4
<1>5. ASSUME NEW c \in Budgets, NEW p \in PeriodsInUse, NEW n \in Amounts, NEW on \in Anchors \cup {None},
             Bud!Create(c, p, on, n)
      PROVE  budget'[b] = budget[b]
    <2>1. c # b /\ budget' = [budget EXCEPT ![c] = budget'[c]]
        BY <1>5, CreatedIs DEF Standing
    <2> QED
        BY <2>1 DEF Standing
<1>6. ASSUME NEW c \in Budgets \ {b}, NEW p \in PeriodsInUse \cup {None}, NEW on \in Anchors \cup {None},
             NEW n \in Amounts \cup {None}, Bud!Change(c, p, on, n)
      PROVE  budget'[b] = budget[b]
    <2>1. budget' = [budget EXCEPT ![c] = budget'[c]]
        BY <1>6, ChangedIs
    <2> QED
        BY <2>1 DEF Standing
<1>7. ASSUME NEW c \in Budgets, budget' = [budget EXCEPT ![c] = Bud!NoBudget] PROVE budget'[b] = budget[b]
    <2>1. budget'[b].state = "here"
        BY DEF Bud!Here
    <2> QED
        BY <1>7, <2>1, NoBudgetIs DEF Standing
<1> HIDE DEF start
<1>8. Bud!AmountAt(budget'[b], start) = Bud!AmountAt(budget[b], start)
    BY <1>3, <1>4, <1>5, <1>6, <1>7, RestOfNext
<1> QED
    BY <1>8 DEF start

(* A change of the amount leaves every period that is over as it was         *)
(* (finance/budget.py:408-410).                                              *)
THEOREM PastPeriodsKeep == Bud!Bounds => (Bud!Spec => PastKeepsAmount)
<1> SUFFICES ASSUME Bud!Bounds PROVE Bud!Spec => PastKeepsAmount
    OBVIOUS
<1> DEFINE Kept == \A b \in Budgets :
          Bud!Here(b) /\ Bud!Here(b)' /\ budget'[b].period = budget[b].period /\ budget'[b].anchor = budget[b].anchor =>
              \A d \in BudgetDays :
                  LET start == Bud!StartOf(budget[b], d) IN
                  /\ start < Bud!StartOf(budget[b], present)
                  /\ \E a \in budget[b].amounts : a.on <= start
                  => Bud!AmountAt(budget'[b], start) = Bud!AmountAt(budget[b], start)
<1>1. BudgetDays = {} => Kept
    OBVIOUS
<1>2. Standing /\ [Bud!Next]_Bud!vars => Kept
    BY PastKept
<1>3. Bud!Init /\ BudgetDays # {} => Standing
    BY FirstDay, NoBudgetIs DEF Bud!Init, Standing, Bud!Here
<1>4. Standing /\ [Bud!Next]_Bud!vars => Standing'
    BY StandingStays
<1> HIDE DEF Kept
<1>5. Bud!Spec => [][Kept]_Bud!vars
    <2>1. CASE BudgetDays = {}
        <3>1. [Bud!Next]_Bud!vars => [Kept]_Bud!vars
            BY <1>1, <2>1
        <3> QED
            BY <3>1, PTL DEF Bud!Spec
    <2>2. CASE BudgetDays # {}
        <3>1. Bud!Init => Standing
            BY <1>3, <2>2
        <3>2. Standing /\ [Bud!Next]_Bud!vars => [Kept]_Bud!vars
            BY <1>2
        <3> QED
            BY <1>4, <3>1, <3>2, PTL DEF Bud!Spec
    <2> QED
        BY <2>1, <2>2
<1> QED
    BY <1>5 DEF Kept, PastKeepsAmount, Bud!PastKeepsAmount

-----------------------------------------------------------------------------
(* Budgets: every day is in one period                                     *)

\* The months of the calendar, as numbers.
LEMMA FirstsInOrder ==
    ASSUME Bud!Ordered, NEW m \in 1..Len(Firsts), NEW n \in 1..Len(Firsts), m <= n
    PROVE  Firsts[m] \in Int /\ Firsts[n] \in Int /\ Firsts[m] <= Firsts[n]
<1>1. Cal!Ordered /\ Len(Firsts) \in Nat
    BY DEF Bud!Ordered, Cal!Ordered, Bud!Months, Cal!Months
<1>2. n \in m..Len(Firsts)
    BY <1>1
<1>3. Firsts[m] \in Int /\ Firsts[n] \in Int /\ 28 * (n - m) <= Firsts[n] - Firsts[m]
    BY <1>1, <1>2, MonthsApart
<1> QED
    BY <1>1, <1>3

LEMMA MonthOnly ==
    ASSUME Bud!Ordered, NEW d \in Int, NEW m \in Bud!Months, Firsts[m] <= d, d < Firsts[m + 1]
    PROVE  Bud!MonthOf(d) = m /\ d \in Bud!AllDays
<1>1. Len(Firsts) \in Nat /\ Len(Firsts) > 1 /\ m \in 1..Len(Firsts) /\ m + 1 \in 1..Len(Firsts)
    BY DEF Bud!Ordered, Bud!Months
<1>2. ASSUME NEW n \in Bud!Months, Firsts[n] <= d, d < Firsts[n + 1] PROVE n = m
    <2>1. n \in 1..Len(Firsts) /\ n + 1 \in 1..Len(Firsts)
        BY <1>1 DEF Bud!Months
    <2>2. n < m => Firsts[n + 1] \in Int /\ Firsts[m] \in Int /\ Firsts[n + 1] <= Firsts[m]
        BY <1>1, <2>1, FirstsInOrder
    <2>3. m < n => Firsts[m + 1] \in Int /\ Firsts[n] \in Int /\ Firsts[m + 1] <= Firsts[n]
        BY <1>1, <2>1, FirstsInOrder
    <2> QED
        BY <1>1, <1>2, <2>1, <2>2, <2>3
<1>3. Firsts[1] \in Int /\ Firsts[m] \in Int /\ Firsts[1] <= Firsts[m]
    BY <1>1, FirstsInOrder
<1>4. Firsts[m + 1] \in Int /\ Firsts[Len(Firsts)] \in Int /\ Firsts[m + 1] <= Firsts[Len(Firsts)]
    BY <1>1, FirstsInOrder
<1>5. Bud!MonthOf(d) = m
    BY <1>2 DEF Bud!MonthOf
<1>6. d \in Bud!AllDays
    BY <1>3, <1>4 DEF Bud!AllDays, Bud!Beyond
<1> QED
    BY <1>5, <1>6

\* So many months later or earlier, it is that month.
LEMMA AddedWithin ==
    ASSUME Bud!Ordered, NEW d \in Bud!AllDays, NEW k \in Int, Bud!MonthOf(d) + k \in Bud!Months
    PROVE  LET n == Bud!MonthOf(d) + k
               a == Bud!AddMonths(d, k)
           IN a \in Bud!AllDays /\ Bud!MonthOf(a) = n /\ Firsts[n] <= a /\ a < Firsts[n + 1] /\ a \in Int
<1> DEFINE m == Bud!MonthOf(d)
           n == m + k
           a == Bud!AddMonths(d, k)
           x == d - Firsts[m]
           y == (Firsts[n + 1] - Firsts[n]) - 1
<1>1. Len(Firsts) \in Nat /\ \A i \in 1..Len(Firsts) : Firsts[i] \in Int
    BY DEF Bud!Ordered
<1>2. /\ n \in Bud!Months /\ n \in 1..Len(Firsts) /\ n + 1 \in 1..Len(Firsts) /\ m \in 1..Len(Firsts)
      /\ d \in Int /\ Firsts[m] <= d
    BY <1>1, MonthHas DEF Bud!Months
<1>3. Firsts[n + 1] - Firsts[n] \in 28..31
    BY <1>2 DEF Bud!Ordered
<1>4. x \in Int /\ y \in Int /\ 0 <= x /\ 0 <= y /\ Firsts[n] \in Int /\ Firsts[n + 1] \in Int
      /\ y < Firsts[n + 1] - Firsts[n]
    <2>1. Firsts[n] \in Int /\ Firsts[n + 1] \in Int /\ Firsts[m] \in Int
        BY <1>1, <1>2
    <2> DEFINE gap == Firsts[n + 1] - Firsts[n]
    <2> HIDE DEF n, m
    <2>2. x \in Int /\ 0 <= x
        BY <1>2, <2>1
    <2>3. gap \in 28..31 /\ y = gap - 1
        BY <1>3
    <2> HIDE DEF gap, x, y
    <2>4. y \in Int /\ 0 <= y /\ y < gap
        BY <2>3
    <2> QED
        BY <2>1, <2>2, <2>4 DEF gap
<1>5. a = Firsts[n] + Bud!Lesser(x, y)
    BY <1>2 DEF Bud!AddMonths, Bud!Length
<1> HIDE DEF x, y, a, n
<1>6. Bud!Lesser(x, y) \in Int /\ 0 <= Bud!Lesser(x, y) /\ Bud!Lesser(x, y) <= y
    BY <1>4 DEF Bud!Lesser
<1>7. a \in Int /\ Firsts[n] <= a /\ a < Firsts[n + 1]
    BY <1>4, <1>5, <1>6
<1>8. a \in Bud!AllDays /\ Bud!MonthOf(a) = n
    BY <1>2, <1>7, MonthOnly
<1> QED
    BY <1>7, <1>8 DEF a, n, m

\* A day from the start of a period to before the next one's is in the period.
LEMMA Located ==
    ASSUME Bud!Ordered, NEW p \in DOMAIN Bud!Span, ~(Bud!Span[p].days > 0), NEW on \in Bud!AllDays, NEW q \in Int,
           Bud!MonthOf(on) + q * Bud!Span[p].months \in Bud!Months,
           Bud!MonthOf(on) + (q + 1) * Bud!Span[p].months \in Bud!Months,
           NEW d \in Bud!AllDays,
           Bud!AddMonths(on, q * Bud!Span[p].months) <= d, d < Bud!AddMonths(on, (q + 1) * Bud!Span[p].months)
    PROVE  Bud!PeriodStart(p, on, d) = Bud!AddMonths(on, q * Bud!Span[p].months)
<1> DEFINE s == Bud!Span[p].months
           m == Bud!MonthOf(on)
           n == Bud!MonthOf(d)
           A(k) == Bud!AddMonths(on, k)
           low == m + q * s
           high == m + (q + 1) * s
           i == (n - m) \div s
<1>1. s \in {1, 12}
    BY SpanIs
<1>2. /\ m \in Int /\ n \in Int /\ d \in Int /\ n \in 1..Len(Firsts) /\ n + 1 \in 1..Len(Firsts)
      /\ Firsts[n] <= d /\ d < Firsts[n + 1] /\ Len(Firsts) \in Nat
    <2>1. n \in Bud!Months /\ d \in Int /\ Firsts[n] <= d /\ d < Firsts[n + 1]
        BY MonthHas
    <2>2. m \in Bud!Months
        BY MonthHas
    <2>3. Len(Firsts) \in Nat
        BY DEF Bud!Ordered
    <2> HIDE DEF m, n
    <2> QED
        BY <2>1, <2>2, <2>3 DEF Bud!Months
<1>3. q * s \in Int /\ (q + 1) * s \in Int /\ (q + 1) * s = q * s + s
    BY <1>1
<1>4. A(q * s) \in Int /\ Firsts[low] <= A(q * s) /\ A((q + 1) * s) \in Int /\ A((q + 1) * s) < Firsts[high + 1]
    BY <1>3, AddedWithin
<1>5. low \in 1..Len(Firsts) /\ high \in 1..Len(Firsts) /\ high + 1 \in 1..Len(Firsts)
    BY <1>2 DEF Bud!Months
<1>12. A(q * s) <= d /\ d < A((q + 1) * s)
    OBVIOUS
<1>6. low <= n
    <2>1. n < low => Firsts[n + 1] \in Int /\ Firsts[low] \in Int /\ Firsts[n + 1] <= Firsts[low]
        BY <1>2, <1>5, FirstsInOrder
    <2> HIDE DEF low, n, A
    <2> QED
        BY <1>2, <1>4, <1>5, <1>12, <2>1
<1>7. n <= high
    <2>1. high < n => Firsts[high + 1] \in Int /\ Firsts[n] \in Int /\ Firsts[high + 1] <= Firsts[n]
        BY <1>2, <1>5, FirstsInOrder
    <2> HIDE DEF high, n, A
    <2> QED
        BY <1>2, <1>4, <1>5, <1>12, <2>1
<1>8. i = q \/ i = q + 1
    <2> HIDE DEF m, n
    <2>1. CASE s = 1
        BY <1>2, <1>6, <1>7, <2>1
    <2>2. CASE s = 12
        BY <1>2, <1>6, <1>7, <2>2
    <2> QED
        BY <1>1, <2>1, <2>2
<1>9. Bud!PeriodStart(p, on, d) = IF A(i * s) <= d THEN A(i * s) ELSE A(i * s - s)
    BY DEF Bud!PeriodStart
<1>10. CASE i = q
    BY <1>9, <1>10
<1>11. CASE i = q + 1
    <2>1. i * s - s = q * s
        BY <1>1, <1>11
    <2>2. ~(A(i * s) <= d)
        BY <1>2, <1>4, <1>11
    <2> QED
        BY <1>9, <2>1, <2>2
<1> QED
    BY <1>8, <1>10, <1>11

LEMMA TwoBack ==
    ASSUME NEW p, NEW on, NEW start
    PROVE  Bud!StartsBack(p, on, start, 2) = <<Bud!PreviousStart(p, on, start), start>>
<1> DEFINE Is(back) == back = [n \in 0..2 - 1 |-> IF n = 0 THEN start ELSE Bud!PreviousStart(p, on, back[n - 1])]
           two == [n \in 0..2 - 1 |-> IF n = 0 THEN start ELSE Bud!PreviousStart(p, on, start)]
           chosen == CHOOSE back : Is(back)
<1>1. two[0] = start /\ two[1] = Bud!PreviousStart(p, on, start)
    OBVIOUS
<1>2. ASSUME NEW n \in 0..2 - 1
      PROVE  two[n] = IF n = 0 THEN start ELSE Bud!PreviousStart(p, on, two[n - 1])
    BY <1>1
<1>3. Is(two)
    <2>1. two = [n \in 0..2 - 1 |-> two[n]]
        OBVIOUS
    <2> HIDE DEF two
    <2> QED
        BY <1>2, <2>1
<1>4. Is(chosen)
    <2> HIDE DEF Is, two
    <2> QED
        BY <1>3
<1>5. Bud!StartsBack(p, on, start, 2) = [n \in 1..2 |-> chosen[2 - n]]
    BY Zenon DEF Bud!StartsBack
<1> HIDE DEF chosen
<1>6. chosen[0] = start /\ chosen[1] = Bud!PreviousStart(p, on, start)
    BY <1>4
<1> QED
    BY <1>5, <1>6

LEMMA WeeksIs ==
    ASSUME NEW n \in {7, 14}, NEW on \in Int, NEW d \in Int
    PROVE  LET start == on + ((d - on) \div n) * n
               end == start + n - 1
           IN /\ start \in Int /\ start <= d /\ d <= end
              /\ on + ((end - on) \div n) * n = start
              /\ on + (((end + 1) - on) \div n) * n = end + 1
              /\ on + ((((end + 1) - 1) - on) \div n) * n = start
<1>1. CASE n = 7
    BY <1>1
<1>2. CASE n = 14
    BY <1>2
<1> QED
    BY <1>1, <1>2

\* The calendar has the months around a day.
Room(p, day) == \A k \in (1 - 2 * Bud!Span[p].months)..Bud!Span[p].months : Bud!MonthOf(day) + k \in Bud!Months

LEMMA BetweenStarts ==
    ASSUME Bud!Ordered, NEW p \in DOMAIN Bud!Span, ~(Bud!Span[p].days > 0), NEW on \in Bud!AllDays,
           NEW day \in Bud!AllDays, Room(p, day)
    PROVE  \E q \in Int :
              /\ Bud!MonthOf(on) + q * Bud!Span[p].months \in Bud!Months
              /\ Bud!MonthOf(on) + (q + 1) * Bud!Span[p].months \in Bud!Months
              /\ Bud!AddMonths(on, q * Bud!Span[p].months) <= day
              /\ day < Bud!AddMonths(on, (q + 1) * Bud!Span[p].months)
<1> DEFINE s == Bud!Span[p].months
           m == Bud!MonthOf(on)
           n == Bud!MonthOf(day)
           A(k) == Bud!AddMonths(on, k)
           i == (n - m) \div s
<1>1. s \in {1, 12}
    BY SpanIs
<1>2. /\ m \in Int /\ n \in Int /\ day \in Int /\ n \in 1..Len(Firsts) /\ n + 1 \in 1..Len(Firsts)
      /\ Firsts[n] <= day /\ day < Firsts[n + 1] /\ Len(Firsts) \in Nat
    <2>1. n \in Bud!Months /\ day \in Int /\ Firsts[n] <= day /\ day < Firsts[n + 1]
        BY MonthHas
    <2>2. m \in Bud!Months
        BY MonthHas
    <2>3. Len(Firsts) \in Nat
        BY DEF Bud!Ordered
    <2> HIDE DEF m, n
    <2> QED
        BY <2>1, <2>2, <2>3 DEF Bud!Months
<1>3. \A k \in (1 - 2 * s)..s : n + k \in Bud!Months
    BY DEF Room
<1> HIDE DEF n, m
<1>4. i \in Int /\ m + i * s <= n /\ n < m + (i + 1) * s /\ m + i * s > n - s /\ (i + 1) * s = i * s + s
      /\ (i - 1) * s = i * s - s /\ i * s \in Int
    <2> DEFINE x == n - m
    <2>0. x \in Int
        BY <1>2
    <2>1. CASE s = 1
        <3> HIDE DEF x
        <3>1. x \div s = x
            BY <2>0, <2>1
        <3> QED
            BY <1>2, <2>1, <3>1 DEF x
    <2>2. CASE s = 12
        <3> HIDE DEF x
        <3>1. i = x \div 12
            BY <2>2 DEF x
        <3> HIDE DEF i
        <3>2. i \in Int /\ i * 12 <= x /\ x < i * 12 + 12
            BY <2>0, <3>1
        <3>3. m \in Int /\ n \in Int
            BY <1>2
        <3>4. n - m = x
            BY DEF x
        <3> QED
            BY <2>0, <2>2, <3>2, <3>3, <3>4
    <2> QED
        BY <1>1, <2>1, <2>2
<1> HIDE DEF i, s
<1> DEFINE k == (m + i * s) - n
<1>5. k \in Int /\ k <= 0 /\ k > 0 - s /\ m + i * s = n + k
    BY <1>1, <1>2, <1>4
<1>6. n + k \in Bud!Months /\ n + (k + s) \in Bud!Months /\ n + (k - s) \in Bud!Months
    <2>1. k \in (1 - 2 * s)..s /\ k + s \in (1 - 2 * s)..s /\ k - s \in (1 - 2 * s)..s
        BY <1>1, <1>5
    <2> HIDE DEF k
    <2> QED
        BY <1>3, <2>1
<1>7. m + i * s \in Bud!Months /\ m + (i + 1) * s \in Bud!Months /\ m + (i - 1) * s \in Bud!Months
    <2>1. m + i * s = n + k /\ m + (i + 1) * s = n + (k + s) /\ m + (i - 1) * s = n + (k - s)
        <3> HIDE DEF k
        <3> QED
            BY <1>1, <1>2, <1>4, <1>5
    <2> HIDE DEF k
    <2> QED
        BY <1>6, <2>1
<1>8. A(i * s) \in Int
    BY <1>4, <1>7, AddedWithin DEF m
<1>9. day < A((i + 1) * s)
    <2> DEFINE h == m + (i + 1) * s
    <2>1. Firsts[h] <= A((i + 1) * s) /\ A((i + 1) * s) \in Int /\ h \in 1..Len(Firsts)
        <3>1. PICK x \in Int : x = (i + 1) * s
            BY <1>1, <1>4
        <3>2. h = m + x /\ h \in Bud!Months
            BY <1>7, <3>1
        <3> HIDE DEF h
        <3>3. Firsts[h] <= A(x) /\ A(x) \in Int
            BY <3>2, AddedWithin DEF m
        <3>4. h \in 1..Len(Firsts)
            BY <1>2, <3>2 DEF Bud!Months
        <3> QED
            BY <3>1, <3>3, <3>4
    <2>2. n + 1 <= h
        BY <1>1, <1>2, <1>4
    <2> HIDE DEF h, A
    <2>3. Firsts[n + 1] \in Int /\ Firsts[h] \in Int /\ Firsts[n + 1] <= Firsts[h]
        BY <1>2, <2>1, <2>2, FirstsInOrder
    <2> QED
        BY <1>2, <2>1, <2>3
<1>10. A((i - 1) * s) <= day
    <2> DEFINE l == m + (i - 1) * s
    <2>1. A((i - 1) * s) < Firsts[l + 1] /\ A((i - 1) * s) \in Int /\ l + 1 \in 1..Len(Firsts)
        <3>1. PICK x \in Int : x = (i - 1) * s
            BY <1>1, <1>4
        <3>2. l = m + x /\ l \in Bud!Months
            BY <1>7, <3>1
        <3> HIDE DEF l
        <3>3. A(x) < Firsts[l + 1] /\ A(x) \in Int
            BY <3>2, AddedWithin DEF m
        <3>4. l + 1 \in 1..Len(Firsts)
            BY <1>2, <3>2 DEF Bud!Months
        <3> QED
            BY <3>1, <3>3, <3>4
    <2>2. l + 1 <= n
        BY <1>1, <1>2, <1>4
    <2> HIDE DEF l, A
    <2>3. Firsts[l + 1] \in Int /\ Firsts[n] \in Int /\ Firsts[l + 1] <= Firsts[n]
        BY <1>2, <2>1, <2>2, FirstsInOrder
    <2> QED
        BY <1>2, <2>1, <2>3
<1>11. CASE A(i * s) <= day
    BY <1>4, <1>7, <1>9, <1>11 DEF m, s
<1>12. CASE ~(A(i * s) <= day)
    <2>1. i - 1 \in Int /\ (i - 1) + 1 = i
        BY <1>4
    <2> HIDE DEF A
    <2>2. day < A(i * s)
        BY <1>2, <1>8, <1>12
    <2> QED
        BY <1>7, <1>10, <2>1, <2>2 DEF m, s, A
<1> QED
    BY <1>11, <1>12

(* Every day is in one period, and no period is part of another: budgets     *)
(* neither miss a day nor count one twice (finance/periods.py:4-9).          *)
THEOREM EveryDayIsInOnePeriod ==
    ASSUME Bud!Ordered, NEW p \in DOMAIN Bud!Span, NEW on \in Bud!AllDays, NEW day \in Bud!AllDays, Room(p, day)
    PROVE  Bud!DayInOnePeriod(p, on, day)
<1> DEFINE start == Bud!PeriodStart(p, on, day)
           end == Bud!PeriodEnd(p, on, start)
           Fits == /\ start <= day /\ day <= end /\ end + 1 \in Int
                   /\ Bud!PeriodStart(p, on, end) = start
                   /\ Bud!PeriodStart(p, on, end + 1) = end + 1
                   /\ Bud!PeriodStart(p, on, (end + 1) - 1) = start
<1>1. on \in Int /\ day \in Int
    BY MonthHas
<1>2. ASSUME Bud!Span[p].days > 0 PROVE Fits
    <2> DEFINE n == Bud!Span[p].days
               W(d) == on + ((d - on) \div n) * n
    <2>1. n \in {7, 14}
        BY <1>2, SpanIs
    <2>2. \A d : Bud!PeriodStart(p, on, d) = W(d)
        BY <1>2 DEF Bud!PeriodStart
    <2>3. start = W(day) /\ end = W(day) + n - 1
        <3>1. start = W(day)
            BY <2>2
        <3>4. W(day) \in Int
            BY <1>1, <2>1, WeeksIs
        <3> HIDE DEF start, W
        <3>3. Bud!NextStart(p, on, start) = start + n
            BY <1>2 DEF Bud!NextStart
        <3>2. end = Bud!NextStart(p, on, start) - 1
            BY DEF Bud!PeriodEnd
        <3> HIDE DEF end, n
        <3> QED
            BY <2>1, <3>1, <3>2, <3>3, <3>4
    <2> HIDE DEF n, start, end
    <2>4. /\ W(day) \in Int /\ W(day) <= day /\ day <= W(day) + n - 1
          /\ W(W(day) + n - 1) = W(day)
          /\ W((W(day) + n - 1) + 1) = (W(day) + n - 1) + 1
          /\ W(((W(day) + n - 1) + 1) - 1) = W(day)
        BY <1>1, <2>1, WeeksIs
    <2> HIDE DEF W
    <2>5. end + 1 \in Int
        BY <2>1, <2>3, <2>4
    <2> QED
        BY <2>2, <2>3, <2>4, <2>5
<1>3. ASSUME ~(Bud!Span[p].days > 0) PROVE Fits
    <2> DEFINE s == Bud!Span[p].months
               m == Bud!MonthOf(on)
               A(k) == Bud!AddMonths(on, k)
    <2>1. s \in {1, 12}
        BY <1>3, SpanIs
    <2>2. PICK q \in Int : /\ m + q * s \in Bud!Months /\ m + (q + 1) * s \in Bud!Months
                           /\ A(q * s) <= day /\ day < A((q + 1) * s)
        BY <1>3, BetweenStarts
    <2> DEFINE next == A((q + 1) * s)
    <2>3. q * s \in Int /\ (q + 1) * s \in Int /\ m \in Int /\ (q * s) \div s = q /\ ((q + 1) * s) \div s = q + 1
        <3>1. m \in Int
            BY MonthHas DEF Bud!Months, Bud!Ordered
        <3> HIDE DEF m
        <3>2. CASE s = 1
            BY <3>1, <3>2
        <3>3. CASE s = 12
            BY <3>1, <3>3
        <3> QED
            BY <2>1, <3>2, <3>3
    <2>4. start = A(q * s)
        BY <1>3, <2>2, Located
    <2>5. start \in Int /\ Bud!MonthOf(start) = m + q * s /\ Bud!MonthOf(start) - m = q * s
        <3>1. start \in Int /\ Bud!MonthOf(start) = m + q * s
            BY <2>2, <2>3, <2>4, AddedWithin
        <3> HIDE DEF start, m, s
        <3> QED
            BY <2>3, <3>1
    <2>6. Bud!NextStart(p, on, start) = next
        BY <1>3, <2>3, <2>5 DEF Bud!NextStart
    <2>7. end = next - 1
        BY <2>6 DEF Bud!PeriodEnd
    <2>8. next \in Int /\ next \in Bud!AllDays /\ Bud!MonthOf(next) = m + (q + 1) * s
        BY <2>2, <2>3, AddedWithin
    <2>9. end \in Int /\ end \in Bud!AllDays /\ A(q * s) <= end /\ end < next /\ day <= end /\ start <= day
        <3>1. Firsts[1] \in Int /\ Firsts[Len(Firsts)] \in Int
            BY DEF Bud!Ordered
        <3>2. A(q * s) \in Int /\ A(q * s) <= day /\ day < next
            BY <2>2, <2>4, <2>5
        <3> HIDE DEF A, start, end, next
        <3> QED
            BY <1>1, <2>4, <2>7, <2>8, <3>1, <3>2 DEF Bud!AllDays, Bud!Beyond
    <2>10. Bud!PeriodStart(p, on, end) = start
        <3> HIDE DEF end
        <3>1. Bud!PeriodStart(p, on, end) = A(q * s)
            BY <1>3, <2>2, <2>9, Located
        <3> QED
            BY <2>4, <3>1
    <2>11. Bud!PeriodStart(p, on, next) = next
        <3>1. Bud!MonthOf(next) - m = (q + 1) * s
            <4> HIDE DEF m, s, next
            <4> QED
                BY <2>3, <2>8
        <3> HIDE DEF next
        <3>2. ((Bud!MonthOf(next) - m) \div s) * s = (q + 1) * s
            BY <2>3, <3>1
        <3>3. next <= next /\ A((q + 1) * s) = next
            BY <2>8 DEF next
        <3> QED
            BY <1>3, <3>2, <3>3 DEF Bud!PeriodStart
    <2>12. end + 1 = next /\ (end + 1) - 1 = end
        <3> HIDE DEF next, end
        <3> QED
            BY <2>7, <2>8
    <2> HIDE DEF next, end, start
    <2> QED
        BY <2>8, <2>9, <2>10, <2>11, <2>12
<1>4. Fits
    BY <1>2, <1>3
<1>5. Bud!PreviousStart(p, on, end + 1) = start
    BY <1>4 DEF Bud!PreviousStart
<1>6. Bud!StartsBack(p, on, end + 1, 2) = <<start, end + 1>>
    BY <1>5, TwoBack
<1> HIDE DEF start, end
<1> QED
    BY <1>4, <1>5, <1>6 DEF Bud!DayInOnePeriod, start, end

-----------------------------------------------------------------------------
(* Budgets: the pages agree                                                  *)

\* The period a day is in, and the one before it, without a gap.
Neighbours(p, on, day) ==
    LET start == Bud!PeriodStart(p, on, day)
        prev == Bud!PreviousStart(p, on, start)
        end == Bud!PeriodEnd(p, on, start)
    IN /\ start \in Int /\ prev \in Int /\ end \in Int /\ prev < start /\ start <= day /\ day <= end
       /\ Bud!PeriodStart(p, on, prev) = prev /\ Bud!PeriodEnd(p, on, prev) = start - 1

LEMMA WeekBefore ==
    ASSUME NEW n \in {7, 14}, NEW on \in Int, NEW d \in Int
    PROVE  LET W(e) == on + ((e - on) \div n) * n
           IN /\ W(d) \in Int /\ W(d) <= d /\ d <= W(d) + n - 1
              /\ W(W(d) - 1) = W(d) - n
              /\ W(W(d) - n) = W(d) - n
<1>1. CASE n = 7
    BY <1>1
<1>2. CASE n = 14
    BY <1>2
<1> QED
    BY <1>1, <1>2

LEMMA WeeksNeighbour ==
    ASSUME NEW p \in DOMAIN Bud!Span, Bud!Span[p].days > 0, NEW on \in Int, NEW day \in Int
    PROVE  Neighbours(p, on, day)
<1> DEFINE n == Bud!Span[p].days
           W(d) == on + ((d - on) \div n) * n
<1>1. n \in {7, 14}
    BY SpanIs
<1>2. \A d : Bud!PeriodStart(p, on, d) = W(d) /\ Bud!NextStart(p, on, d) = d + n
    BY DEF Bud!PeriodStart, Bud!NextStart
<1> HIDE DEF n
<1>3. /\ W(day) \in Int /\ W(day) <= day /\ day <= W(day) + n - 1
      /\ W(W(day) - 1) = W(day) - n /\ W(W(day) - n) = W(day) - n
    BY <1>1, WeekBefore
<1> HIDE DEF W
<1>4. PICK start : start = W(day)
    OBVIOUS
<1>5. Bud!PeriodStart(p, on, day) = start /\ Bud!PreviousStart(p, on, start) = start - n
    BY <1>2, <1>3, <1>4 DEF Bud!PreviousStart
<1>6. Bud!PeriodEnd(p, on, start) = start + n - 1 /\ Bud!PeriodEnd(p, on, start - n) = start - 1
    BY <1>1, <1>2, <1>3, <1>4 DEF Bud!PeriodEnd
<1>7. Bud!PeriodStart(p, on, start - n) = start - n
    BY <1>2, <1>3, <1>4
<1> QED
    BY <1>1, <1>3, <1>4, <1>5, <1>6, <1>7 DEF Neighbours

LEMMA MonthsNeighbour ==
    ASSUME Bud!Ordered, NEW p \in DOMAIN Bud!Span, ~(Bud!Span[p].days > 0), NEW on \in Bud!AllDays,
           NEW day \in Bud!AllDays, Bud!Around(p, day)
    PROVE  Neighbours(p, on, day)
<1> DEFINE s == Bud!Span[p].months
           m == Bud!MonthOf(on)
           n == Bud!MonthOf(day)
           A(k) == Bud!AddMonths(on, k)
<1>1. s \in {1, 12}
    BY SpanIs
<1>2. Room(p, day)
    <2>1. (1 - 2 * s)..s \subseteq (-2 * s)..s
        BY <1>1
    <2> QED
        BY <2>1 DEF Room, Bud!Around
<1>3. PICK q \in Int : /\ m + q * s \in Bud!Months /\ m + (q + 1) * s \in Bud!Months
                       /\ A(q * s) <= day /\ day < A((q + 1) * s)
    BY <1>2, BetweenStarts
<1>4. m \in Int /\ n \in Int /\ day \in Int /\ Len(Firsts) \in Nat /\ n \in Bud!Months
      /\ Firsts[n] <= day /\ day < Firsts[n + 1]
    BY MonthHas DEF Bud!Months, Bud!Ordered
<1> HIDE DEF m
<1>5. /\ q * s \in Int /\ (q + 1) * s = q * s + s /\ (q - 1) * s = q * s - s /\ (q * s) \div s = q
      /\ (q - 1) * s \in Int /\ (q + 1) * s \in Int /\ ((q - 1) * s) \div s = q - 1 /\ (q - 1) + 1 = q
    <2>1. CASE s = 1
        BY <2>1
    <2>2. CASE s = 12
        BY <2>2
    <2> QED
        BY <1>1, <2>1, <2>2
<1>6. /\ A(q * s) \in Bud!AllDays /\ A(q * s) \in Int /\ Firsts[m + q * s] <= A(q * s)
      /\ Bud!MonthOf(A(q * s)) = m + q * s
    BY <1>3, <1>5, AddedWithin DEF m
<1>7. A((q + 1) * s) \in Int /\ A((q + 1) * s) < Firsts[m + (q + 1) * s + 1]
    BY <1>3, <1>5, AddedWithin DEF m
\* The month of the day is from the period's first to the next one's.
<1>8. m + q * s <= n
    <2> DEFINE h == m + q * s
    <2>1. h \in Bud!Months /\ Firsts[h] <= A(q * s)
        BY <1>3, <1>6
    <2>2. SUFFICES ASSUME n < h PROVE FALSE
        BY <1>4, <1>5
    <2> HIDE DEF h, A, n
    <2>3. n + 1 \in 1..Len(Firsts) /\ h \in 1..Len(Firsts) /\ n + 1 <= h
        BY <1>4, <2>1, <2>2 DEF Bud!Months
    <2>4. Firsts[n + 1] <= Firsts[h] /\ Firsts[n + 1] \in Int /\ Firsts[h] \in Int
        BY <2>3, FirstsInOrder
    <2> QED
        BY <1>3, <1>4, <1>6, <2>1, <2>4
<1>9. n <= m + (q + 1) * s
    <2> DEFINE h == m + (q + 1) * s
    <2>1. h \in Bud!Months /\ A((q + 1) * s) < Firsts[h + 1]
        BY <1>3, <1>7
    <2>2. SUFFICES ASSUME h < n PROVE FALSE
        BY <1>4, <1>5
    <2> HIDE DEF h, A, n
    <2>3. h + 1 \in 1..Len(Firsts) /\ n \in 1..Len(Firsts) /\ h + 1 <= n
        BY <1>4, <2>1, <2>2 DEF Bud!Months
    <2>4. Firsts[h + 1] <= Firsts[n] /\ Firsts[h + 1] \in Int /\ Firsts[n] \in Int
        BY <2>3, FirstsInOrder
    <2> QED
        BY <1>3, <1>4, <1>7, <2>1, <2>4
<1>10. m + (q - 1) * s \in Bud!Months
    <2> DEFINE k == m + (q - 1) * s - n
    <2>1. k \in (-2 * s)..s /\ n + k = m + (q - 1) * s
        <3>1. PICK x \in Int : x = q * s
            BY <1>5
        <3>2. k = m + (x - s) - n /\ m + (q - 1) * s = m + (x - s) /\ m + x <= n /\ n <= m + (x + s)
            BY <1>5, <1>8, <1>9, <3>1
        <3> HIDE DEF s, n, k
        <3>3. k \in Int /\ -2 * s <= k /\ k <= s
            <4>1. s = 1 \/ s = 12
                BY <1>1
            <4>2. m \in Int /\ n \in Int /\ s \in Int
                BY <1>4, <4>1
            <4>3. k = m + x - s - n /\ k \in Int
                BY <3>2, <4>2
            <4>4. k <= 0 - s /\ 0 - 2 * s <= k
                BY <3>2, <4>2, <4>3
            <4> QED
                BY <4>1, <4>3, <4>4
        <3> QED
            BY <1>1, <1>4, <3>2, <3>3
    <2> HIDE DEF k
    <2>2. n + k \in Bud!Months
        BY <2>1 DEF Bud!Around
    <2> QED
        BY <2>1, <2>2
<1> DEFINE start == A(q * s)
           prev == A((q - 1) * s)
<1>11. Bud!PeriodStart(p, on, day) = start
    BY <1>3, Located DEF m
<1>12. /\ prev \in Bud!AllDays /\ prev \in Int /\ prev < Firsts[m + (q - 1) * s + 1]
       /\ Bud!MonthOf(prev) = m + (q - 1) * s
    BY <1>5, <1>10, AddedWithin DEF m
<1>13. prev < start
    <2> DEFINE l == m + (q - 1) * s  h == m + q * s
    <2>1. l \in Bud!Months /\ h \in Bud!Months /\ l + 1 <= h
        <3>1. PICK x \in Int : x = q * s
            BY <1>5
        <3>2. l = m + (x - s) /\ h = m + x
            BY <1>5, <3>1
        <3>3. l \in Bud!Months /\ h \in Bud!Months
            BY <1>3, <1>10
        <3> HIDE DEF s, l, h
        <3> QED
            BY <1>1, <1>4, <3>1, <3>2, <3>3
    <2>2. prev < Firsts[l + 1] /\ Firsts[h] <= start
        BY <1>6, <1>12
    <2> HIDE DEF l, h, prev, start
    <2>3. l + 1 \in 1..Len(Firsts) /\ h \in 1..Len(Firsts)
        BY <1>4, <2>1 DEF Bud!Months
    <2>4. Firsts[l + 1] <= Firsts[h] /\ Firsts[l + 1] \in Int /\ Firsts[h] \in Int
        BY <2>1, <2>3, FirstsInOrder
    <2> QED
        BY <1>6, <1>12, <2>2, <2>4 DEF start
<1>14. start - 1 \in Bud!AllDays /\ prev <= start - 1 /\ start - 1 < start
    <2>1. Firsts[1] \in Int /\ Firsts[Len(Firsts)] \in Int
        BY DEF Bud!Ordered
    <2>2. start \in Int /\ start \in Bud!AllDays
        BY <1>6
    <2> HIDE DEF start, prev
    <2> QED
        BY <1>12, <1>13, <2>1, <2>2 DEF Bud!AllDays, Bud!Beyond
<1>15. \A d \in {prev, start - 1} : Bud!PeriodStart(p, on, d) = prev
    <2>1. \A d \in {prev, start - 1} : d \in Bud!AllDays /\ A((q - 1) * s) <= d /\ d < A(((q - 1) + 1) * s)
        BY <1>5, <1>12, <1>13, <1>14
    <2>2. m + ((q - 1) + 1) * s \in Bud!Months /\ q - 1 \in Int
        BY <1>3, <1>5
    <2> HIDE DEF start
    <2> QED
        BY <1>10, <2>1, <2>2, Located DEF m
<1>16. Bud!PreviousStart(p, on, start) = prev
    BY <1>15 DEF Bud!PreviousStart
<1>17. Bud!NextStart(p, on, prev) = start
    <2>1. Bud!MonthOf(prev) - m = (q - 1) * s
        <3> HIDE DEF prev, s
        <3> QED
            BY <1>4, <1>5, <1>12
    <2> HIDE DEF prev
    <2> QED
        BY <1>5, <2>1 DEF Bud!NextStart, m
<1>18. Bud!NextStart(p, on, start) = A((q + 1) * s)
    <2>1. Bud!MonthOf(start) - m = q * s
        <3> HIDE DEF start, s
        <3> QED
            BY <1>4, <1>5, <1>6 DEF start
    <2> HIDE DEF start
    <2> QED
        BY <1>5, <2>1 DEF Bud!NextStart, m
<1> DEFINE next == A((q + 1) * s)
<1>19. start \in Int /\ next \in Int /\ start <= day /\ day < next
    BY <1>3, <1>6, <1>7
<1> HIDE DEF start, prev, next
<1>20. Bud!PeriodEnd(p, on, start) = next - 1 /\ Bud!PeriodEnd(p, on, prev) = start - 1
    BY <1>17, <1>18 DEF Bud!PeriodEnd, next
<1> QED
    BY <1>4, <1>11, <1>12, <1>13, <1>15, <1>16, <1>19, <1>20 DEF Neighbours

-----------------------------------------------------------------------------
LEMMA FlowsSum ==
    ASSUME NEW F, IsFiniteSet(F), NEW v, \A f \in F : v[f] = f.value
    PROVE  Bud!MapThenSumSet(LAMBDA f : f.value, F) = SumOf(v, F)
<1> DEFINE G(g) == g = [s \in SUBSET F |-> IF s = {} THEN 0 ELSE Pick(s).value + g[s \ {Pick(s)}]]
           h == CHOOSE g : G(g)
<1>1. Bud!MapThenSumSet(LAMBDA f : f.value, F) = h[F]
    BY DEF Bud!MapThenSumSet, Bud!MapThenFoldSet, Pick
<1>2. \A s \in SUBSET F : s # {} => v[Pick(s)] = Pick(s).value
    BY DEF Pick
<1>3. \A g : G(g) <=> Adds(v, F, g)
    BY <1>2 DEF Adds
<1> HIDE DEF G
<1>4. Adds(v, F, h) /\ Adds(v, F, Folded(v, F))
    BY <1>3, AddsExists
<1> HIDE DEF h
<1>5. \A s \in (SUBSET F) \cap (SUBSET F) : h[s] = Folded(v, F)[s]
    BY <1>4, AddsAgree
<1> QED
    BY <1>1, <1>5 DEF SumOf

\* What a page says of its days and of its sources, added up.
DaysAdded(daily) == Bud!MapThenSumSet(LAMBDA d : daily[d]["income"] + daily[d]["spending"], DOMAIN daily)
SourcesAdded(sources) == Bud!MapThenSumSet(LAMBDA l : sources[l], DOMAIN sources)

LEMMA DaysSum ==
    ASSUME NEW daily, IsFiniteSet(DOMAIN daily), NEW v, \A d \in DOMAIN daily : v[d] = daily[d]["income"] + daily[d]["spending"]
    PROVE  DaysAdded(daily) = SumOf(v, DOMAIN daily)
<1> DEFINE F == DOMAIN daily
           OnDay(d) == daily[d]["income"] + daily[d]["spending"]
           G(g) == g = [s \in SUBSET F |-> IF s = {} THEN 0 ELSE OnDay(Pick(s)) + g[s \ {Pick(s)}]]
           h == CHOOSE g : G(g)
<1>1. DaysAdded(daily) = h[F]
    BY DEF DaysAdded, Bud!MapThenSumSet, Bud!MapThenFoldSet, Pick
<1>2. \A s \in SUBSET F : s # {} => v[Pick(s)] = OnDay(Pick(s))
    BY DEF Pick
<1> HIDE DEF OnDay
<1>3. \A g : G(g) <=> Adds(v, F, g)
    BY <1>2 DEF Adds
<1> HIDE DEF G
<1>4. Adds(v, F, h) /\ Adds(v, F, Folded(v, F))
    BY <1>3, AddsExists
<1> HIDE DEF h
<1>5. \A s \in (SUBSET F) \cap (SUBSET F) : h[s] = Folded(v, F)[s]
    BY <1>4, AddsAgree
<1> QED
    BY <1>1, <1>5 DEF SumOf

LEMMA SourcesSum ==
    ASSUME NEW v, IsFiniteSet(DOMAIN v)
    PROVE  SourcesAdded(v) = SumOf(v, DOMAIN v)
<1> DEFINE F == DOMAIN v
           G(g) == g = [s \in SUBSET F |-> IF s = {} THEN 0 ELSE v[Pick(s)] + g[s \ {Pick(s)}]]
           h == CHOOSE g : G(g)
<1>1. SourcesAdded(v) = h[F]
    BY DEF SourcesAdded, Bud!MapThenSumSet, Bud!MapThenFoldSet, Pick
<1>3. \A g : G(g) <=> Adds(v, F, g)
    BY DEF Adds
<1> HIDE DEF G
<1>4. Adds(v, F, h) /\ Adds(v, F, Folded(v, F))
    BY <1>3, AddsExists
<1> HIDE DEF h
<1>5. \A s \in (SUBSET F) \cap (SUBSET F) : h[s] = Folded(v, F)[s]
    BY <1>4, AddsAgree
<1> QED
    BY <1>1, <1>5 DEF SumOf

-----------------------------------------------------------------------------
\* What of some days counts toward a budget.
LEMMA FlowsAre ==
    ASSUME Bud!Bounds, Linked, NEW b \in Budgets, NEW first, NEW last
    PROVE  LET F == Bud!Flows(b, first, last) IN
           /\ IsFiniteSet(F)
           /\ \A f \in F : f.value \in Int /\ f.kind \in {"income", "spending"} /\ f.day \in Int /\ f.day \in first..last
<1> DEFINE C(t) == Bud!CountedBy(link[b], t)
           flow == [t \in Txns |-> [txn |-> t, day |-> Facts[t].day, kind |-> C(t).kind, by |-> C(t),
                                    value |-> IF C(t).kind = "income" THEN Facts[t].value ELSE -Facts[t].value]]
           T == {u \in Bud!Counted(b, first, last) : Facts[u].value # None}
<1>1. T \subseteq Txns /\ IsFiniteSet(T)
    <2>1. T \subseteq Txns /\ IsFiniteSet(Txns)
        BY DEF Bud!Counted, Bud!Bounds, Bud!IsFiniteSet, IsFiniteSet
    <2> HIDE DEF T
    <2> QED
        BY <2>1, FS_Subset
<1>2. Bud!Flows(b, first, last) = {flow[t] : t \in T}
    BY <1>1 DEF Bud!Flows
<1>3. ASSUME NEW t \in T PROVE C(t).kind \in {"income", "spending"}
    <2>1. C(t) # None
        BY DEF Bud!Counted
    <2>2. Hits(link[b], t) # {} /\ C(t) = Bud!First(Hits(link[b], t))
        BY <2>1 DEF Bud!CountedBy, Hits
    <2>3. Hits(link[b], t) \subseteq Bud!Link /\ OwnIDs(Hits(link[b], t))
        BY DEF Hits, Linked, OwnIDs
    <2>4. C(t) \in Bud!Link
        BY <2>2, <2>3, FirstIs
    <2> HIDE DEF C
    <2> QED
        BY <2>4 DEF Bud!Link, Bud!Kinds
<1>4. ASSUME NEW t \in T
      PROVE  Facts[t].value \in Int /\ Facts[t].day \in first..last /\ Facts[t].day \in Int
    <2>1. Facts[t] \in Bud!Fact /\ Facts[t].value # None /\ Facts[t].day \in first..last
        BY <1>1 DEF Bud!Bounds, Bud!Counted
    <2>2. Facts[t].day \in Bud!AllDays
        BY <2>1 DEF Bud!Fact
    <2>3. Facts[t].day \in Int
        BY <2>2, MonthHas DEF Bud!Bounds
    <2> QED
        BY <2>1, <2>3 DEF Bud!Fact
<1> HIDE DEF C, T
<1>5. IsFiniteSet({flow[t] : t \in T})
    BY <1>1, FiniteImage
<1>6. ASSUME NEW t \in T
      PROVE  /\ flow[t].value \in Int /\ flow[t].kind \in {"income", "spending"} /\ flow[t].day \in Int
             /\ flow[t].day \in first..last
    BY <1>1, <1>3, <1>4
<1> HIDE DEF flow
<1> QED
    BY <1>2, <1>5, <1>6

\* What counts in fewer days is some of what counts in more.
LEMMA FlowsWithin ==
    ASSUME Bud!Bounds, NEW b, NEW first \in Int, NEW last \in Int, NEW from \in first..last, NEW to \in Int, to <= last
    PROVE  Bud!Flows(b, from, to) = {f \in Bud!Flows(b, first, last) : f.day \in from..to}
<1>1. ASSUME NEW t \in Txns PROVE Facts[t].day \in Int
    <2>1. Facts[t] \in Bud!Fact
        BY DEF Bud!Bounds
    <2>2. Facts[t].day \in Bud!AllDays
        BY <2>1 DEF Bud!Fact
    <2> QED
        BY <2>2, MonthHas DEF Bud!Bounds
<1>2. {u \in Bud!Counted(b, from, to) : Facts[u].value # None}
          = {u \in Bud!Counted(b, first, last) : Facts[u].value # None /\ Facts[u].day \in from..to}
    BY <1>1 DEF Bud!Counted
<1> DEFINE C(t) == Bud!CountedBy(link[b], t)
           flow(t) == [txn |-> t, day |-> Facts[t].day, kind |-> C(t).kind, by |-> C(t),
                       value |-> IF C(t).kind = "income" THEN Facts[t].value ELSE -Facts[t].value]
<1>3. \A t : flow(t).day = Facts[t].day
    OBVIOUS
<1>4. \A x, y : Bud!Flows(b, x, y) = {flow(t) : t \in {u \in Bud!Counted(b, x, y) : Facts[u].value # None}}
    BY DEF Bud!Flows
<1> HIDE DEF flow
<1> QED
    BY <1>2, <1>3, <1>4

\* What comes in and what goes out is all there is.
LEMMA KindsSum ==
    ASSUME NEW F, IsFiniteSet(F), \A f \in F : f.value \in Int /\ f.kind \in {"income", "spending"},
           NEW v, \A f \in F : v[f] = f.value
    PROVE  /\ Bud!Total(F, "income") + Bud!Total(F, "spending") = SumOf(v, F)
           /\ Bud!Total(F, "income") \in Int /\ Bud!Total(F, "spending") \in Int
<1> DEFINE Of(k) == {f \in F : f.kind = k}
<1>1. \A k : Of(k) \subseteq F /\ IsFiniteSet(Of(k))
    BY FS_Subset
<1>2. \A f \in F : v[f] \in Int
    OBVIOUS
<1>3. \A k : Bud!Total(F, k) = SumOf(v, Of(k))
    <2> TAKE k
    <2>1. Bud!Total(F, k) = Bud!MapThenSumSet(LAMBDA f : f.value, Of(k))
        BY DEF Bud!Total
    <2>2. \A f \in Of(k) : v[f] = f.value
        OBVIOUS
    <2>3. IsFiniteSet(Of(k))
        BY <1>1
    <2> HIDE DEF Of
    <2> QED
        BY <2>1, <2>2, <2>3, FlowsSum
<1>4. Of("income") \cup Of("spending") = F /\ Of("income") \cap Of("spending") = {}
    OBVIOUS
<1>5. \A k : \A f \in Of(k) : v[f] \in Int
    BY <1>1, <1>2
<1> HIDE DEF Of
<1>6. SumOf(v, Of("income") \cup Of("spending")) = SumOf(v, F)
    BY <1>4, SumAlike
<1>7. SumOf(v, Of("income") \cup Of("spending")) = SumOf(v, Of("income")) + SumOf(v, Of("spending"))
    BY <1>1, <1>2, <1>4, SumApart
<1>8. SumOf(v, Of("income")) \in Int /\ SumOf(v, Of("spending")) \in Int
    BY <1>1, <1>5, SumType
<1> QED
    BY <1>3, <1>6, <1>7, <1>8

\* A page's days and its sources add up to what it says came in and went out.
LEMMA PageAdds ==
    ASSUME Bud!Bounds, Linked, NEW b \in Budgets, NEW on, NEW view, view = Bud!PeriodView(b, on)
    PROVE  /\ view.summary.income + view.summary.spent = DaysAdded(view.daily)
           /\ view.summary.income + view.summary.spent = SourcesAdded(view.sources)
<1> DEFINE x == budget[b]
           start == Bud!StartOf(x, on)
           end == Bud!EndOf(x, on)
<1>1. PICK F : F = Bud!Flows(b, start, end)
    OBVIOUS
<1> DEFINE v == [f \in F |-> f.value]
           days == {f.day : f \in F}
           bys == {f.by : f \in F}
           On(d) == {f \in F : f.day = d}
           By(l) == {f \in F : f.by = l}
<1>2. IsFiniteSet(F) /\ \A f \in F : f.value \in Int /\ f.kind \in {"income", "spending"}
    BY <1>1, FlowsAre
<1>3. view.summary.income = Bud!Total(F, "income") /\ view.summary.spent = Bud!Total(F, "spending")
    <2>1. view.summary = Bud!Summary(b, start)
        BY DEF Bud!PeriodView
    <2>2. Bud!Flows(b, start, Bud!PeriodEnd(x.period, x.anchor, start)) = F
        BY <1>1 DEF Bud!EndOf, Bud!StartOf
    <2> HIDE DEF start
    <2> QED
        BY <2>1, <2>2 DEF Bud!Summary
<1>4. view.daily = [d \in days |-> [k \in Bud!Kinds |-> Bud!Total(On(d), k)]]
    BY <1>1 DEF Bud!PeriodView
<1>5. view.sources = [l \in bys |-> Bud!MapThenSumSet(LAMBDA f : f.value, By(l))]
    BY <1>1 DEF Bud!PeriodView
<1> HIDE DEF start, end
<1>6. \A f \in F : v[f] = f.value /\ v[f] \in Int
    BY <1>2
<1>7. view.summary.income + view.summary.spent = SumOf(v, F)
    <2> HIDE DEF v
    <2> QED
        BY <1>2, <1>3, <1>6, KindsSum
<1>8. \A d : On(d) \subseteq F /\ IsFiniteSet(On(d))
    BY <1>2, FS_Subset
<1>9. \A l : By(l) \subseteq F /\ IsFiniteSet(By(l))
    BY <1>2, FS_Subset
<1>10. SumOf(v, F) = DaysAdded(view.daily)
    <2>1. PICK part : part = [f \in F |-> f.day]
        OBVIOUS
    <2>2. PICK all : all = Parts(F, part)
        OBVIOUS
    <2>3. PICK g : g = [d \in all |-> SumOf(v, On(d))]
        OBVIOUS
    <2>4. all = days /\ \A d : On(d) = Part(F, part, d)
        BY <2>1, <2>2 DEF Part, Parts
    <2>5. PICK daily : daily = view.daily
        OBVIOUS
    <2>6. IsFiniteSet(all)
        BY <1>2, <2>2, FiniteImage DEF Parts
    <2>7. ASSUME NEW d \in all PROVE g[d] = daily[d]["income"] + daily[d]["spending"]
        <3>1. daily[d]["income"] = Bud!Total(On(d), "income") /\ daily[d]["spending"] = Bud!Total(On(d), "spending")
            BY <1>4, <2>4, <2>5 DEF Bud!Kinds
        <3>2. IsFiniteSet(On(d)) /\ \A f \in On(d) : f.value \in Int /\ f.kind \in {"income", "spending"} /\ v[f] = f.value
            BY <1>2, <1>6, <1>8
        <3> HIDE DEF v, On
        <3>3. Bud!Total(On(d), "income") + Bud!Total(On(d), "spending") = SumOf(v, On(d))
            BY <3>2, KindsSum
        <3> QED
            BY <2>3, <3>1, <3>3
    <2>8. DOMAIN daily = all
        BY <1>4, <2>4, <2>5
    <2> HIDE DEF days, v, On
    <2>9. \A d \in all : g[d] = SumOf(v, Part(F, part, d))
        BY <2>3, <2>4
    <2>10. \A f \in F : v[f] \in Int
        BY <1>6
    <2>11. SumOf(v, F) = SumOf(g, all)
        <3>1. IsFiniteSet(F)
            BY <1>2
        <3> QED
            BY <2>2, <2>9, <2>10, <3>1, SumByPart
    <2>12. IsFiniteSet(DOMAIN daily) /\ \A d \in DOMAIN daily : g[d] = daily[d]["income"] + daily[d]["spending"]
        BY <2>6, <2>7, <2>8
    <2>13. DaysAdded(daily) = SumOf(g, DOMAIN daily)
        BY <2>12, DaysSum
    <2> QED
        BY <2>5, <2>8, <2>11, <2>13
<1>11. SumOf(v, F) = SourcesAdded(view.sources)
    <2>1. PICK part : part = [f \in F |-> f.by]
        OBVIOUS
    <2>2. PICK all : all = Parts(F, part)
        OBVIOUS
    <2>3. PICK g : g = view.sources
        OBVIOUS
    <2>4. all = bys /\ \A l : By(l) = Part(F, part, l)
        BY <2>1, <2>2 DEF Part, Parts
    <2>5. IsFiniteSet(all)
        BY <1>2, <2>2, FiniteImage DEF Parts
    <2>6. ASSUME NEW l \in all PROVE g[l] = SumOf(v, Part(F, part, l))
        <3>1. g[l] = Bud!MapThenSumSet(LAMBDA f : f.value, By(l))
            BY <1>5, <2>3, <2>4
        <3>2. IsFiniteSet(By(l)) /\ \A f \in By(l) : v[f] = f.value
            BY <1>6, <1>9
        <3> HIDE DEF By, v
        <3>3. Bud!MapThenSumSet(LAMBDA f : f.value, By(l)) = SumOf(v, By(l))
            BY <3>2, FlowsSum
        <3> QED
            BY <2>4, <3>1, <3>3
    <2>7. DOMAIN g = all
        BY <1>5, <2>3, <2>4
    <2>8. \A f \in F : v[f] \in Int
        BY <1>6
    <2> HIDE DEF bys, v, By
    <2>9. SumOf(v, F) = SumOf(g, all)
        <3>1. IsFiniteSet(F)
            BY <1>2
        <3>2. \A l \in all : g[l] = SumOf(v, Part(F, part, l))
            BY <2>6
        <3> QED
            BY <2>2, <2>8, <3>1, <3>2, SumByPart
    <2>10. SourcesAdded(g) = SumOf(g, DOMAIN g)
        BY <2>5, <2>7, SourcesSum
    <2> QED
        BY <2>3, <2>7, <2>9, <2>10
<1> QED
    BY <1>7, <1>10, <1>11

\* What counts in two neighbouring periods, by the one it is in.
LEMMA PeriodOfTwo ==
    ASSUME NEW prev \in Int, NEW start \in Int, prev < start, NEW day \in Int, prev <= day
    PROVE  Bud!PeriodOf(<<prev, start>>, day) = IF start <= day THEN 2 ELSE 1
<1> DEFINE S == {n \in DOMAIN <<prev, start>> : <<prev, start>>[n] <= day}
<1>1. Bud!PeriodOf(<<prev, start>>, day) = Cardinality(S)
    BY DEF Bud!PeriodOf, Bud!Cardinality, Bud!IsFiniteSet, Cardinality, IsFiniteSet
<1>2. DOMAIN <<prev, start>> = {1, 2}
    OBVIOUS
<1>3. S = IF start <= day THEN {1, 2} ELSE {1}
    BY <1>2
<1>4. Cardinality({1}) = 1 /\ Cardinality({1, 2}) = 2
    <2>1. IsFiniteSet({1}) /\ Cardinality({1}) = 1
        BY FS_Singleton
    <2>2. Cardinality({1} \cup {2}) = 1 + 1
        <3>1. 2 \notin {1}
            OBVIOUS
        <3> QED
            BY <2>1, <3>1, FS_AddElement
    <2>3. {1} \cup {2} = {1, 2}
        OBVIOUS
    <2> QED
        BY <2>1, <2>2, <2>3
<1> HIDE DEF S
<1> QED
    BY <1>1, <1>3, <1>4

\* Each period of the history is what its own page says.
LEMMA HistoryIs ==
    ASSUME Bud!Bounds, Linked, NEW b \in Budgets, NEW on \in Int,
           Neighbours(budget[b].period, budget[b].anchor, on)
    PROVE  LET past == Bud!History(b, on, 2) IN
           /\ past[2] = Bud!PeriodView(b, on).summary
           /\ past[1] = Bud!PeriodView(b, past[1].start).summary
<1>1. PICK x : x = budget[b]
    OBVIOUS
<1>2. PICK start : start = Bud!PeriodStart(x.period, x.anchor, on)
    OBVIOUS
<1>3. PICK prev : prev = Bud!PreviousStart(x.period, x.anchor, start)
    OBVIOUS
<1>4. PICK end : end = Bud!PeriodEnd(x.period, x.anchor, start)
    OBVIOUS
<1>5. /\ start \in Int /\ prev \in Int /\ end \in Int /\ prev < start /\ start <= on /\ on <= end
      /\ Bud!PeriodStart(x.period, x.anchor, prev) = prev /\ Bud!PeriodEnd(x.period, x.anchor, prev) = start - 1
    BY <1>1, <1>2, <1>3, <1>4 DEF Neighbours
<1>6. start <= end
    BY <1>5
<1>7. Bud!StartsBack(x.period, x.anchor, start, 2) = <<prev, start>>
    BY <1>3, TwoBack
<1>8. PICK F : F = Bud!Flows(b, prev, end)
    OBVIOUS
<1> DEFINE Of(n) == {f \in F : Bud!PeriodOf(<<prev, start>>, f.day) = n}
<1>9. Of(2) = Bud!Flows(b, start, end) /\ Of(1) = Bud!Flows(b, prev, start - 1)
    <2>1. \A f \in F : f.day \in Int /\ prev <= f.day /\ f.day <= end
        BY <1>5, <1>8, FlowsAre
    <2>2. \A f \in F : Bud!PeriodOf(<<prev, start>>, f.day) = IF start <= f.day THEN 2 ELSE 1
        BY <1>5, <2>1, PeriodOfTwo
    <2>3. Of(2) = {f \in F : f.day \in start..end} /\ Of(1) = {f \in F : f.day \in prev..(start - 1)}
        BY <1>5, <2>1, <2>2
    <2>4. Bud!Flows(b, start, end) = {f \in F : f.day \in start..end}
        BY <1>5, <1>6, <1>8, FlowsWithin
    <2>5. Bud!Flows(b, prev, start - 1) = {f \in F : f.day \in prev..(start - 1)}
        BY <1>5, <1>6, <1>8, FlowsWithin
    <2> QED
        BY <2>3, <2>4, <2>5
<1> DEFINE past == Bud!History(b, on, 2)
<1>10. past = [n \in 1..2 |-> [start |-> <<prev, start>>[n], amount |-> Bud!AmountAt(x, <<prev, start>>[n]),
                              income |-> Bud!Total(Of(n), "income"), spent |-> Bud!Total(Of(n), "spending")]]
    <2>1. Bud!StartsBack(budget[b].period, budget[b].anchor, Bud!StartOf(budget[b], on), 2) = <<prev, start>>
        BY <1>1, <1>2, <1>7 DEF Bud!StartOf
    <2>2. <<prev, start>>[1] = prev /\ <<prev, start>>[2] = start
        OBVIOUS
    <2>3. Bud!Flows(b, <<prev, start>>[1], Bud!PeriodEnd(budget[b].period, budget[b].anchor, <<prev, start>>[2])) = F
        BY <1>1, <1>4, <1>8, <2>2
    <2> QED
        BY <1>1, <2>1, <2>3 DEF Bud!History
<1>11. \A day : Bud!PeriodView(b, day).summary = Bud!Summary(b, Bud!StartOf(budget[b], day))
    BY DEF Bud!PeriodView
<1>12. \A n : Bud!Summary(b, n) =
           LET G == Bud!Flows(b, n, Bud!PeriodEnd(x.period, x.anchor, n))
           IN [start |-> n, amount |-> Bud!AmountAt(x, n), income |-> Bud!Total(G, "income"), spent |-> Bud!Total(G, "spending")]
    BY <1>1 DEF Bud!Summary
<1> HIDE DEF Of
<1>13. past[2] = Bud!Summary(b, start) /\ past[1] = Bud!Summary(b, prev) /\ past[1].start = prev
    <2>1. past[2] = [start |-> start, amount |-> Bud!AmountAt(x, start), income |-> Bud!Total(Of(2), "income"), spent |-> Bud!Total(Of(2), "spending")]
        BY <1>10
    <2>2. past[1] = [start |-> prev, amount |-> Bud!AmountAt(x, prev), income |-> Bud!Total(Of(1), "income"), spent |-> Bud!Total(Of(1), "spending")]
        BY <1>10
    <2> HIDE DEF past
    <2> QED
        BY <1>4, <1>5, <1>9, <1>12, <2>1, <2>2
<1>14. Bud!StartOf(budget[b], on) = start /\ Bud!StartOf(budget[b], prev) = prev
    BY <1>1, <1>2, <1>5 DEF Bud!StartOf
<1> QED
    BY <1>11, <1>13, <1>14

LEMMA ViewsNow ==
    ASSUME Bud!Bounds, Bud!InReach, Linked, Standing
    PROVE  ViewsAgree
<1> SUFFICES ASSUME NEW b \in Budgets, Bud!Here(b)
             PROVE  LET view == Bud!PeriodView(b, present)
                        flowed == view.summary.income + view.summary.spent
                        past == Bud!History(b, present, 2)
                    IN /\ past[2] = view.summary
                       /\ past[1] = Bud!PeriodView(b, past[1].start).summary
                       /\ flowed = DaysAdded(view.daily)
                       /\ flowed = SourcesAdded(view.sources)
                       /\ view.gone <= view.length
    BY DEF ViewsAgree, Bud!ViewsAgree, DaysAdded, SourcesAdded
<1>1. PICK p, on : p = budget[b].period /\ on = budget[b].anchor
    OBVIOUS
<1>2. /\ p \in PeriodsInUse /\ p \in DOMAIN Bud!Span /\ on \in Int /\ (~(Bud!Span[p].days > 0) => on \in Bud!AllDays)
      /\ present \in BudgetDays /\ present \in Bud!AllDays /\ present \in Int /\ Bud!Ordered
    <2>1. p \in PeriodsInUse /\ p \in DOMAIN Bud!Span /\ Anchored(p, on) /\ present \in BudgetDays
          /\ present \in Bud!AllDays /\ Bud!Ordered
        BY <1>1 DEF Standing, Bud!Bounds
    <2> QED
        BY <2>1, SpanIs, MonthHas DEF Anchored
<1>3. Neighbours(p, on, present)
    BY <1>2, WeeksNeighbour, MonthsNeighbour DEF Bud!InReach
<1>4. LET view == Bud!PeriodView(b, present)
      IN view.gone <= view.length
    <2>1. PICK start, end : start = Bud!PeriodStart(p, on, present) /\ end = Bud!PeriodEnd(p, on, start)
        OBVIOUS
    <2>2. start \in Int /\ end \in Int /\ start <= present /\ present <= end
        BY <1>3, <2>1 DEF Neighbours
    <2>3. start = Bud!StartOf(budget[b], present) /\ end = Bud!EndOf(budget[b], present)
        BY <1>1, <2>1 DEF Bud!StartOf, Bud!EndOf
    <2>4. /\ Bud!PeriodView(b, present).gone = Bud!Greater(0, Bud!Lesser(present - start + 1, end - start + 1))
          /\ Bud!PeriodView(b, present).length = end - start + 1
        BY <2>3 DEF Bud!PeriodView
    <2> QED
        BY <1>2, <2>2, <2>4 DEF Bud!Greater, Bud!Lesser
<1>5. PICK view : view = Bud!PeriodView(b, present)
    OBVIOUS
<1>6. /\ view.summary.income + view.summary.spent = DaysAdded(view.daily)
      /\ view.summary.income + view.summary.spent = SourcesAdded(view.sources)
    BY <1>5, PageAdds
<1>7. LET past == Bud!History(b, present, 2) IN
      /\ past[2] = Bud!PeriodView(b, present).summary
      /\ past[1] = Bud!PeriodView(b, past[1].start).summary
    BY <1>1, <1>2, <1>3, HistoryIs
<1> QED
    BY <1>4, <1>5, <1>6, <1>7

(* A budget's pages and its history agree: each period of the history is what *)
(* its own page says, and a page's days and its sources each add up to what   *)
(* it says came in and went out (finance/budget.py:337-352, 577-709).         *)
THEOREM PagesAgree == Bud!Bounds /\ Bud!InReach => (Bud!Spec => []ViewsAgree)
<1> SUFFICES ASSUME Bud!Bounds, Bud!InReach PROVE Bud!Spec => []ViewsAgree
    OBVIOUS
<1>1. Bud!Init => Standing
    BY FirstDay, NoBudgetIs DEF Bud!Init, Standing, Bud!Here, Bud!Bounds
<1>2. Standing /\ [Bud!Next]_Bud!vars => Standing'
    BY StandingStays
<1>3. Linked /\ Standing => ViewsAgree
    BY ViewsNow
<1>4. Bud!Spec => []Linked
    BY LinkedAlways
<1> QED
    BY <1>1, <1>2, <1>3, <1>4, PTL DEF Bud!Spec

-----------------------------------------------------------------------------
(* Budgets: types                                                            *)

\* The amount of a period is one that the budget was given.
LEMMA AmountIs ==
    ASSUME Bud!Ordered, NEW x, x.amounts \in SUBSET Bud!Amount, x.amounts # {}, NEW start
    PROVE  Bud!AmountAt(x, start) \in Amounts
<1> DEFINE S == {a \in x.amounts : a.on <= start}
           D == Bud!AllDays
<1>1. /\ Firsts[1] \in Int /\ Bud!Beyond \in Int
      /\ \A a \in x.amounts : a.on \in Int /\ Firsts[1] <= a.on /\ a.on <= Bud!Beyond /\ a.amount \in Amounts
    BY DEF Bud!Ordered, Bud!Amount, Bud!AllDays, Bud!Beyond
<1>2. CASE S # {}
    <2> DEFINE Left == {Bud!Beyond - a.on : a \in S}
    <2>1. Left \in SUBSET Nat /\ Left # {}
        BY <1>1, <1>2
    <2> HIDE DEF Left
    <2>2. PICK n \in Left : \A m \in Left : n <= m
        BY <2>1, LeastNumber
    <2>3. PICK a \in S : Bud!Beyond - a.on = n
        BY <2>2 DEF Left
    <2>4. \A c \in S : c.on <= a.on
        <3> TAKE c \in S
        <3>1. Bud!Beyond - c.on \in Left
            BY DEF Left
        <3> QED
            BY <1>1, <2>2, <2>3, <3>1
    <2>5. Bud!AmountAt(x, start) = (CHOOSE a1 \in S : \A c \in S : c.on <= a1.on).amount
        BY <1>2 DEF Bud!AmountAt
    <2>6. (CHOOSE a1 \in S : \A c \in S : c.on <= a1.on) \in S
        <3> HIDE DEF S
        <3> QED
            BY <2>4
    <2> QED
        BY <1>1, <2>5, <2>6
<1>3. CASE S = {}
    <2> DEFINE Since == {a.on - Firsts[1] : a \in x.amounts}
    <2>1. Since \in SUBSET Nat /\ Since # {}
        BY <1>1
    <2> HIDE DEF Since
    <2>2. PICK n \in Since : \A m \in Since : n <= m
        BY <2>1, LeastNumber
    <2>3. PICK a \in x.amounts : a.on - Firsts[1] = n
        BY <2>2 DEF Since
    <2>4. \A c \in x.amounts : a.on <= c.on
        <3> TAKE c \in x.amounts
        <3>1. c.on - Firsts[1] \in Since
            BY DEF Since
        <3> QED
            BY <1>1, <2>2, <2>3, <3>1
    <2>5. Bud!AmountAt(x, start) = (CHOOSE a1 \in x.amounts : \A c \in x.amounts : a1.on <= c.on).amount
        BY <1>3 DEF Bud!AmountAt
    <2>6. (CHOOSE a1 \in x.amounts : \A c \in x.amounts : a1.on <= c.on) \in x.amounts
        BY <2>4
    <2> QED
        BY <1>1, <2>5, <2>6
<1> QED
    BY <1>2, <1>3

\* Periods around a day start on days of the calendar.
LEMMA StartInCalendar ==
    ASSUME Bud!Ordered, NEW p \in DOMAIN Bud!Span, NEW on \in Bud!AllDays, NEW d \in Bud!AllDays, Bud!Around(p, d)
    PROVE  Bud!PeriodStart(p, on, d) \in Bud!AllDays
<1>1. on \in Int /\ d \in Int
    BY MonthHas
<1>2. CASE Bud!Span[p].days > 0
    <2> DEFINE n == Bud!Span[p].days
    <2>1. n \in {7, 14} /\ d - n \in Bud!AllDays
        BY <1>2, SpanIs DEF Bud!Around
    <2>2. Bud!PeriodStart(p, on, d) = on + ((d - on) \div n) * n
        BY <1>2 DEF Bud!PeriodStart
    <2> HIDE DEF n
    <2> DEFINE W(e) == on + ((e - on) \div n) * n
    <2>3. W(d) \in Int /\ W(d) <= d /\ d <= W(d) + n - 1
        BY <1>1, <2>1, WeekBefore
    <2> HIDE DEF W
    <2>4. PICK w : w = W(d)
        OBVIOUS
    <2>5. w \in Int /\ w <= d /\ d - n <= w
        BY <1>1, <2>1, <2>3, <2>4
    <2>6. w \in Bud!AllDays
        BY <1>1, <2>1, <2>5 DEF Bud!AllDays, Bud!Beyond, Bud!Ordered
    <2> QED
        BY <2>2, <2>4, <2>6 DEF W
<1>3. CASE ~(Bud!Span[p].days > 0)
    <2> DEFINE s == Bud!Span[p].months
               A(k) == Bud!AddMonths(on, k)
    <2>1. s \in {1, 12}
        BY <1>3, SpanIs
    <2>2. Room(p, d)
        <3>1. (1 - 2 * s)..s \subseteq (-2 * s)..s
            BY <2>1
        <3> QED
            BY <3>1 DEF Room, Bud!Around
    <2>3. PICK q \in Int : /\ Bud!MonthOf(on) + q * s \in Bud!Months /\ Bud!MonthOf(on) + (q + 1) * s \in Bud!Months
                           /\ A(q * s) <= d /\ d < A((q + 1) * s)
        BY <1>3, <2>2, BetweenStarts
    <2>4. Bud!PeriodStart(p, on, d) = A(q * s)
        BY <1>3, <2>3, Located
    <2>5. q * s \in Int
        BY <2>1
    <2>6. A(q * s) \in Bud!AllDays
        BY <2>3, <2>5, AddedWithin
    <2> QED
        BY <2>4, <2>6
<1> QED
    BY <1>2, <1>3

LEMMA DefaultInCalendar ==
    ASSUME Bud!Ordered, NEW p \in DOMAIN Bud!Span, NEW d \in Bud!AllDays, Bud!Around(p, d)
    PROVE  Bud!DefaultStart(p, d, 0, 1) \in Bud!AllDays
<1>1. CASE Bud!Span[p].days = 0
    BY <1>1, DefaultIsStart DEF Anchored
<1>2. CASE Bud!Span[p].days # 0
    <2>1. Bud!Span[p].days \in {7, 14} /\ d \in Int
        BY <1>2, SpanIs, MonthHas
    <2>2. Bud!DefaultStart(p, d, 0, 1) = d - ((((d - 1) % 7) - 0) % 7)
        BY <2>1 DEF Bud!DefaultStart
    <2>3. PICK e \in 0..6 : e = (((d - 1) % 7) - 0) % 7
        BY <2>1
    <2>4. d - e \in Int /\ d - Bud!Span[p].days <= d - e /\ d - e <= d
        <3>1. PICK w \in {7, 14} : w = Bud!Span[p].days
            BY <2>1
        <3>2. e \in 0..6
            BY <2>3
        <3>3. d - e \in Int /\ d - w <= d - e /\ d - e <= d
            BY <2>1, <3>2
        <3> QED
            BY <3>1, <3>3
    <2>5. d - Bud!Span[p].days \in Bud!AllDays
        BY DEF Bud!Around
    <2>6. d - e \in Bud!AllDays
        BY <2>1, <2>4, <2>5 DEF Bud!AllDays, Bud!Beyond, Bud!Ordered
    <2> QED
        BY <2>2, <2>3, <2>6
<1> QED
    BY <1>1, <1>2

\* Every budget there is has an amount, and periods of a length in use.
Budgeted(x) == x \in Bud!Budget /\ (x.state = "here" => x.amounts # {} /\ x.period \in PeriodsInUse)
BudgetsInv == Bud!TypeOK /\ Linked /\ \A b \in Budgets : Budgeted(budget[b])

\* What every action leaves right but for budgets, links and what was said.
BudgetRestTyped == off \in [Budgets -> SUBSET Txns] /\ paused \subseteq Autos /\ gone \subseteq Bud!Sources
                   /\ present \in BudgetDays /\ budgetSteps \in 0..MaxSteps
Says(x) == x \in [from : Bud!AllDays \cup {None}, amount : Amounts \cup {None}]

LEMMA NoBudgetTyped == ASSUME Bud!Bounds PROVE Budgeted(Bud!NoBudget) /\ Says(Bud!Unsaid)
<1> DEFINE p == CHOOSE p \in PeriodsInUse : TRUE
           on == Bud!Least(Anchors)
<1>1. p \in PeriodsInUse /\ PeriodsInUse \subseteq DOMAIN Bud!Span
    BY DEF Bud!Bounds
<1>2. on \in Bud!AllDays
    <2>1. Cal!Ordered /\ Bud!AllDays = Cal!AllDays /\ Anchors \in SUBSET Bud!AllDays /\ Anchors # {}
        BY DEF Bud!Bounds, Bud!Ordered, Cal!Ordered, Bud!AllDays, Cal!AllDays, Bud!Beyond, Cal!Beyond,
               Bud!Months, Cal!Months
    <2>2. Rec!Least(Anchors) \in Anchors /\ Rec!Least(Anchors) = Bud!Least(Anchors)
        BY <2>1, LeastIn DEF Rec!Least, Bud!Least
    <2> QED
        BY <2>1, <2>2
<1>3. Bud!NoBudget = [state |-> "none", period |-> p, anchor |-> on, amounts |-> {}]
    BY DEF Bud!NoBudget
<1> HIDE DEF p, on
<1>4. Budgeted(Bud!NoBudget)
    BY <1>1, <1>2, <1>3 DEF Budgeted, Bud!Budget
<1> QED
    BY <1>4 DEF Says, Bud!Unsaid

LEMMA BudgetsTyped ==
    ASSUME BudgetsInv, Linked', BudgetRestTyped', NEW b \in Budgets, NEW x, Budgeted(x), NEW s, Says(s),
           budget' = [budget EXCEPT ![b] = x], said' = [said EXCEPT ![b] = s]
    PROVE  BudgetsInv'
<1>1. budget \in [Budgets -> Bud!Budget] /\ said \in [Budgets -> [from : Bud!AllDays \cup {None}, amount : Amounts \cup {None}]]
    BY DEF BudgetsInv, Bud!TypeOK
<1>2. budget' \in [Budgets -> Bud!Budget] /\ \A c \in Budgets : Budgeted(budget'[c])
    BY <1>1 DEF Budgeted, BudgetsInv
<1>3. said' \in [Budgets -> [from : Bud!AllDays \cup {None}, amount : Amounts \cup {None}]]
    BY <1>1 DEF Says
<1>4. link' \in [Budgets -> SUBSET Bud!Link]
    BY DEF Linked
<1> QED
    BY <1>2, <1>3, <1>4 DEF BudgetsInv, Bud!TypeOK, BudgetRestTyped

LEMMA BudgetStepCounts == ASSUME Bud!Bounds, budgetSteps \in 0..MaxSteps, Bud!Step PROVE budgetSteps' \in 0..MaxSteps
BY DEF Bud!Bounds, Bud!Step

LEMMA OneAmount ==
    ASSUME NEW on \in Bud!AllDays, NEW n \in Amounts
    PROVE  {[on |-> on, amount |-> n]} \in SUBSET Bud!Amount /\ {[on |-> on, amount |-> n]} # {}
BY DEF Bud!Amount

LEMMA CreatedTyped ==
    ASSUME Bud!Bounds, Bud!InReach, BudgetsInv, Linked', NEW b \in Budgets, NEW p \in PeriodsInUse, NEW n \in Amounts,
           NEW on \in Anchors \cup {None}, Bud!Create(b, p, on, n)
    PROVE  BudgetsInv'
<1> DEFINE at == IF on = None THEN Bud!DefaultStart(p, present, 0, 1) ELSE on
           x == [state |-> "here", period |-> p, anchor |-> at, amounts |-> {[on |-> at, amount |-> n]}]
<1>1. /\ budget' = [budget EXCEPT ![b] = x] /\ said' = [said EXCEPT ![b] = Bud!Unsaid]
      /\ UNCHANGED <<link, off, paused, gone, present>> /\ Bud!Step
    BY DEF Bud!Create
<1>2. at \in Bud!AllDays /\ p \in DOMAIN Bud!Span
    BY DefaultInCalendar DEF Bud!Bounds, Bud!InReach, BudgetsInv, Bud!TypeOK
<1> HIDE DEF at
<1>3. Budgeted(x)
    <2>1. {[on |-> at, amount |-> n]} \in SUBSET Bud!Amount /\ {[on |-> at, amount |-> n]} # {}
        BY <1>2, OneAmount
    <2>2. PICK amounts : amounts = {[on |-> at, amount |-> n]}
        OBVIOUS
    <2> QED
        BY <1>2, <2>1, <2>2 DEF Budgeted, Bud!Budget
<1>4. BudgetRestTyped'
    BY <1>1, BudgetStepCounts DEF BudgetsInv, Bud!TypeOK, BudgetRestTyped
<1> HIDE DEF x
<1> QED
    BY <1>1, <1>3, <1>4, NoBudgetTyped, BudgetsTyped

LEMMA ChangedTyped ==
    ASSUME Bud!Bounds, Bud!InReach, BudgetsInv, Linked', NEW b \in Budgets, NEW p \in PeriodsInUse \cup {None},
           NEW on \in Anchors \cup {None}, NEW n \in Amounts \cup {None}, Bud!Change(b, p, on, n)
    PROVE  BudgetsInv'
<1>0. PICK x : x = budget[b]
    OBVIOUS
<1>1. /\ x \in Bud!Budget /\ x.state = "here" /\ x.amounts # {} /\ x.period \in PeriodsInUse /\ PeriodsInUse \subseteq DOMAIN Bud!Span
      /\ present \in BudgetDays /\ present \in Bud!AllDays /\ Bud!Ordered /\ Says(said[b])
      /\ \A q \in PeriodsInUse : Bud!Around(q, present)
    BY <1>0 DEF BudgetsInv, Budgeted, Bud!TypeOK, Bud!Change, Bud!Here, Bud!Bounds, Bud!InReach, Says
<1> DEFINE kept == IF n # None THEN n ELSE Bud!AmountAt(x, Bud!StartOf(x, present))
           over == p # None /\ p # x.period
           anchor == IF on # None THEN on ELSE x.anchor
           moved == [x EXCEPT !.anchor = anchor]
           at == IF on # None THEN on ELSE Bud!DefaultStart(p, present, 0, 1)
           start == Bud!StartOf(moved, present)
           amounts == Bud!WithAmount(moved, start, n)
<1>2. /\ budget' = [budget EXCEPT ![b] =
             IF over THEN [x EXCEPT !.period = p, !.anchor = at, !.amounts = {[on |-> at, amount |-> kept]}]
             ELSE IF n # None THEN [moved EXCEPT !.amounts = amounts] ELSE moved]
      /\ said' = [said EXCEPT ![b] = IF over THEN Bud!Unsaid ELSE IF n # None THEN [from |-> start, amount |-> n] ELSE said[b]]
      /\ UNCHANGED <<link, off, paused, gone, present>> /\ Bud!Step
    BY <1>0 DEF Bud!Change
<1>3. kept \in Amounts
    <2>1. x.amounts \in SUBSET Bud!Amount
        BY <1>1 DEF Bud!Budget
    <2>2. \A s : Bud!AmountAt(x, s) \in Amounts
        BY <1>1, <2>1, AmountIs
    <2> QED
        BY <2>2
<1>4. anchor \in Bud!AllDays
    BY <1>1 DEF Bud!Bounds, Bud!Budget
<1>5. over => at \in Bud!AllDays /\ p \in PeriodsInUse
    BY <1>1, DefaultInCalendar DEF Bud!Bounds
<1> HIDE DEF kept, anchor, at
<1>6. moved \in Bud!Budget /\ moved.state = x.state /\ moved.amounts = x.amounts /\ moved.period = x.period /\ moved.anchor = anchor
    BY <1>1, <1>4 DEF Bud!Budget
<1>7. start \in Bud!AllDays
    <2> HIDE DEF moved
    <2>1. start = Bud!PeriodStart(x.period, anchor, present)
        BY <1>6 DEF Bud!StartOf
    <2> QED
        BY <1>1, <1>4, <2>1, StartInCalendar
<1> HIDE DEF start
<1>8. n # None => amounts \in SUBSET Bud!Amount /\ amounts # {}
    <2>1. n # None => {[on |-> start, amount |-> n]} \in SUBSET Bud!Amount
        BY <1>7, OneAmount
    <2>2. x.amounts \in SUBSET Bud!Amount
        BY <1>1 DEF Bud!Budget
    <2> QED
        BY <1>6, <2>1, <2>2 DEF Bud!WithAmount
<1> HIDE DEF amounts, moved
<1>9. BudgetRestTyped'
    BY <1>2, BudgetStepCounts DEF BudgetsInv, Bud!TypeOK, BudgetRestTyped
<1>10. CASE over
    <2> DEFINE y == [x EXCEPT !.period = p, !.anchor = at, !.amounts = {[on |-> at, amount |-> kept]}]
    <2>1. Budgeted(y)
        <3>1. {[on |-> at, amount |-> kept]} \in SUBSET Bud!Amount /\ {[on |-> at, amount |-> kept]} # {}
            BY <1>3, <1>5, <1>10, OneAmount
        <3>2. PICK one : one = {[on |-> at, amount |-> kept]}
            OBVIOUS
        <3> QED
            BY <1>1, <1>5, <1>10, <3>1, <3>2 DEF Budgeted, Bud!Budget
    <2> HIDE DEF y
    <2>2. budget' = [budget EXCEPT ![b] = y] /\ said' = [said EXCEPT ![b] = Bud!Unsaid]
        BY <1>2, <1>10 DEF y
    <2> QED
        BY <1>9, <2>1, <2>2, NoBudgetTyped, BudgetsTyped
<1>11. CASE ~over /\ n # None
    <2> DEFINE y == [moved EXCEPT !.amounts = amounts]
               s == [from |-> start, amount |-> n]
    <2>1. Budgeted(y)
        BY <1>1, <1>6, <1>8, <1>11 DEF Budgeted, Bud!Budget
    <2>2. Says(s)
        BY <1>7, <1>11 DEF Says
    <2> HIDE DEF y, s
    <2>3. budget' = [budget EXCEPT ![b] = y] /\ said' = [said EXCEPT ![b] = s]
        BY <1>2, <1>11 DEF y, s
    <2> QED
        BY <1>9, <2>1, <2>2, <2>3, BudgetsTyped
<1>12. CASE ~over /\ n = None
    <2>1. Budgeted(moved)
        BY <1>1, <1>6 DEF Budgeted
    <2>2. budget' = [budget EXCEPT ![b] = moved] /\ said' = [said EXCEPT ![b] = said[b]]
        BY <1>2, <1>12
    <2> QED
        BY <1>1, <1>9, <2>1, <2>2, BudgetsTyped
<1> QED
    BY <1>10, <1>11, <1>12

\* The actions that change no budget.
LEMMA LinksTyped ==
    ASSUME BudgetsInv, Linked', BudgetRestTyped', UNCHANGED <<budget, said>>
    PROVE  BudgetsInv'
BY DEF BudgetsInv, Bud!TypeOK, Linked, BudgetRestTyped

LEMMA BudgetsStay ==
    ASSUME Bud!Bounds, Bud!InReach, BudgetsInv, [Bud!Next]_Bud!vars
    PROVE  BudgetsInv'
<1>1. Linked' /\ BudgetRestTyped
    BY LinkedStays DEF BudgetsInv, Bud!TypeOK, BudgetRestTyped
<1>2. Bud!Step => budgetSteps' \in 0..MaxSteps
    BY <1>1, BudgetStepCounts DEF BudgetRestTyped
<1>3. ASSUME NEW b \in Budgets, Bud!Delete(b) PROVE BudgetsInv'
    <2>1. /\ budget' = [budget EXCEPT ![b] = Bud!NoBudget] /\ said' = [said EXCEPT ![b] = Bud!Unsaid]
          /\ off' = [off EXCEPT ![b] = {}] /\ UNCHANGED <<paused, gone, present>> /\ Bud!Step
        BY <1>3 DEF Bud!Delete
    <2>2. BudgetRestTyped'
        BY <1>1, <1>2, <2>1 DEF BudgetRestTyped
    <2> QED
        BY <1>1, <2>1, <2>2, NoBudgetTyped, BudgetsTyped
<1>4. ASSUME NEW b \in Budgets, NEW T \in SUBSET Txns, NEW k, Bud!LinkTransactions(b, T, k) PROVE BudgetsInv'
    <2>1. UNCHANGED <<budget, paused, gone, present, said>> /\ off' = [off EXCEPT ![b] = @ \ T] /\ Bud!Step
        BY <1>4 DEF Bud!LinkTransactions
    <2>2. BudgetRestTyped'
        BY <1>1, <1>2, <2>1 DEF BudgetRestTyped
    <2> QED
        BY <1>1, <2>1, <2>2, LinksTyped
<1>5. ASSUME NEW b \in Budgets, NEW t \in Txns, Bud!Unlink(b, t) PROVE BudgetsInv'
    <2>1. UNCHANGED <<budget, paused, gone, present, said>> /\ Bud!Step
          /\ (off' = [off EXCEPT ![b] = @ \cup {t}] \/ off' = [off EXCEPT ![b] = @])
        BY <1>5 DEF Bud!Unlink
    <2>2. BudgetRestTyped'
        BY <1>1, <1>2, <2>1 DEF BudgetRestTyped
    <2> QED
        BY <1>1, <2>1, <2>2, LinksTyped
<1>6. ASSUME UNCHANGED <<budget, off, paused, gone, present, said>>, Bud!Step \/ budgetSteps' = budgetSteps PROVE BudgetsInv'
    BY <1>1, <1>2, <1>6, LinksTyped DEF BudgetRestTyped
<1>7. ASSUME NEW b, NEW x, NEW k, Bud!AddSource(b, x, k) PROVE BudgetsInv'
    BY <1>6, <1>7 DEF Bud!AddSource
<1>8. ASSUME NEW b, NEW l, Bud!RemoveSource(b, l) PROVE BudgetsInv'
    BY <1>6, <1>8 DEF Bud!RemoveSource
<1>9. ASSUME NEW a, NEW w, Bud!SetAutomationCounts(a, w) PROVE BudgetsInv'
    BY <1>6, <1>9 DEF Bud!SetAutomationCounts
<1>10. ASSUME NEW a \in Autos, Bud!Pause(a) PROVE BudgetsInv'
    <2>1. UNCHANGED <<budget, link, off, gone, present, said>> /\ paused' \subseteq Autos /\ Bud!Step
        BY <1>1, <1>10 DEF Bud!Pause, BudgetRestTyped
    <2> QED
        BY <1>1, <1>2, <2>1, LinksTyped DEF BudgetRestTyped
<1>11. ASSUME NEW x \in Bud!Sources, Bud!Vanish(x) PROVE BudgetsInv'
    <2>1. UNCHANGED <<budget, off, paused, present, said>> /\ gone' \subseteq Bud!Sources /\ Bud!Step
        BY <1>1, <1>11 DEF Bud!Vanish, BudgetRestTyped
    <2> QED
        BY <1>1, <1>2, <2>1, LinksTyped DEF BudgetRestTyped
<1>12. ASSUME NEW d \in BudgetDays, Bud!Tomorrow(d) PROVE BudgetsInv'
    <2>1. UNCHANGED <<budget, off, paused, gone, said, budgetSteps>> /\ present' \in BudgetDays
        BY <1>12 DEF Bud!Tomorrow
    <2> QED
        BY <1>1, <2>1, LinksTyped DEF BudgetRestTyped
<1>13. CASE UNCHANGED Bud!vars
    BY <1>6, <1>13 DEF Bud!vars
<1> QED
    BY <1>1, <1>3, <1>4, <1>5, <1>7, <1>8, <1>9, <1>10, <1>11, <1>12, <1>13, CreatedTyped, ChangedTyped DEF Bud!Next

LEMMA BudgetsStart == ASSUME Bud!Bounds, Bud!Init PROVE BudgetsInv
<1>1. /\ budget = [b \in Budgets |-> Bud!NoBudget] /\ link = [b \in Budgets |-> {}] /\ off = [b \in Budgets |-> {}]
      /\ paused = {} /\ gone = {} /\ present = Bud!Least(BudgetDays) /\ said = [b \in Budgets |-> Bud!Unsaid] /\ budgetSteps = 0
    BY DEF Bud!Init
<1>2. present \in BudgetDays /\ budgetSteps \in 0..MaxSteps
    BY <1>1, FirstDay DEF Bud!Bounds
<1>3. Linked
    BY <1>1 DEF Linked, OwnIDs
<1>4. Budgeted(Bud!NoBudget) /\ Says(Bud!Unsaid)
    BY NoBudgetTyped
<1>5. budget \in [Budgets -> Bud!Budget] /\ \A b \in Budgets : Budgeted(budget[b])
    BY <1>1, <1>4 DEF Budgeted
<1>6. said \in [Budgets -> [from : Bud!AllDays \cup {None}, amount : Amounts \cup {None}]]
    BY <1>1, <1>4 DEF Says
<1> QED
    BY <1>1, <1>2, <1>3, <1>5, <1>6 DEF BudgetsInv, Bud!TypeOK

LEMMA BudgetTypes == Bud!Bounds /\ Bud!InReach => (Bud!Spec => []Bud!TypeOK)
<1> SUFFICES ASSUME Bud!Bounds, Bud!InReach PROVE Bud!Spec => []Bud!TypeOK
    OBVIOUS
<1>1. Bud!Init => BudgetsInv
    BY BudgetsStart
<1>2. BudgetsInv /\ [Bud!Next]_Bud!vars => BudgetsInv'
    BY BudgetsStay
<1>3. BudgetsInv => Bud!TypeOK
    BY DEF BudgetsInv
<1> QED
    BY <1>1, <1>2, <1>3, PTL DEF Bud!Spec

-----------------------------------------------------------------------------
(* The calendar and those who ask it                                         *)

\* Days of a calendar that reaches as far as what is asked of it.
DuesInReach ==
    \A x \in Dues :
        /\ x.due \in Rec!AllDays /\ x.every \in DOMAIN Rec!Every /\ x.first \in Int /\ x.span \in Int
        /\ x.first <= Rec!DueAfter(x.due, x.every, MaxCycles)
PeriodsInReach ==
    \A x \in Periods :
        /\ x.period \in DOMAIN Bud!Span /\ x.anchor \in Bud!AllDays /\ x.day \in Bud!AllDays
        /\ Room(x.period, x.day)

(* Whatever day is asked about, due dates are all those of the days asked    *)
(* for, and every day is in one of a budget's periods, as long as the        *)
(* calendar reaches far enough (finance/subscriptions.py:144-153,            *)
(* finance/periods.py:4-9).                                                  *)
THEOREM CalendarAnswers ==
    ASSUME Rec!Bounds, Bud!Bounds, DuesInReach, PeriodsInReach
    PROVE  CalendarRight
<1>1. Bud!Ordered
    BY DEF Bud!Bounds
<1>2. ASSUME probe \in Dues
      PROVE  Rec!DueDatesRight(probe.due, probe.every, probe.first, probe.first + probe.span)
    <2>1. /\ probe.due \in Rec!AllDays /\ probe.every \in DOMAIN Rec!Every /\ probe.first \in Int
          /\ probe.first + probe.span \in Int /\ probe.first <= Rec!DueAfter(probe.due, probe.every, MaxCycles)
        BY <1>2 DEF DuesInReach
    <2> QED
        BY <2>1, AllDueDates
<1>3. ASSUME probe \in Periods
      PROVE  Bud!DayInOnePeriod(probe.period, probe.anchor, probe.day)
    <2>1. /\ probe.period \in DOMAIN Bud!Span /\ probe.anchor \in Bud!AllDays /\ probe.day \in Bud!AllDays
          /\ Room(probe.period, probe.day)
        BY <1>3 DEF PeriodsInReach
    <2> QED
        BY <1>1, <2>1, EveryDayIsInOnePeriod
<1> QED
    BY <1>2, <1>3 DEF CalendarRight

-----------------------------------------------------------------------------
(* Imports: finite sets of transactions, and the order they are tried in     *)
(*                                                                           *)
(* A file whose rows were all new or recognised has a transaction of its own *)
(* for each of its rows, apart from those that repeat another (Fits): the    *)
(* one with the row's ID or one with its day, amount and description.        *)
(* Matching may give a row another row's transaction, but only one that      *)
(* can't be told from its own, so the other can have that instead: what is   *)
(* left over is always enough for the rows that are left (Fitting).          *)

LEMMA FiniteIs == \A S : Imp!IsFiniteSet(S) <=> IsFiniteSet(S)
BY DEF Imp!IsFiniteSet, IsFiniteSet

LEMMA LessEither ==
    ASSUME NEW K \in Nat, NEW a \in [1..K -> Int], NEW b \in [1..K -> Int], a # b
    PROVE  Imp!Less(a, b) \/ Imp!Less(b, a)
<1> DEFINE D == {k \in 1..K : a[k] # b[k]}
<1>1. D # {} /\ D \in SUBSET Nat
    OBVIOUS
<1>2. PICK k \in D : \A j \in D : k <= j
    <2> HIDE DEF D
    <2> QED
        BY <1>1, LeastNumber
<1>3. \A j \in 1..k - 1 : a[j] = b[j]
    BY <1>2
<1>4. a[k] < b[k] \/ b[k] < a[k]
    BY <1>2
<1> QED
    BY <1>2, <1>3, <1>4 DEF Imp!Less

LEMMA LessOn ==
    ASSUME NEW K \in Nat, NEW a \in [1..K -> Int], NEW b \in [1..K -> Int], NEW c \in [1..K -> Int],
           Imp!Less(a, b), Imp!Less(b, c)
    PROVE  Imp!Less(a, c)
<1>1. PICK k \in 1..K : a[k] < b[k] /\ \A j \in 1..k - 1 : a[j] = b[j]
    BY DEF Imp!Less
<1>2. PICK l \in 1..K : b[l] < c[l] /\ \A j \in 1..l - 1 : b[j] = c[j]
    BY DEF Imp!Less
<1>3. CASE k <= l
    <2>1. a[k] < c[k] /\ \A j \in 1..k - 1 : a[j] = c[j]
        BY <1>1, <1>2, <1>3
    <2> QED
        BY <2>1 DEF Imp!Less
<1>4. CASE l < k
    <2>1. a[l] < c[l] /\ \A j \in 1..l - 1 : a[j] = c[j]
        BY <1>1, <1>2, <1>4
    <2> QED
        BY <2>1 DEF Imp!Less
<1> QED
    BY <1>3, <1>4

\* A finite set has a first element and a last one, in an order of their own.
LEMMA FirstAndLast ==
    ASSUME NEW S, IsFiniteSet(S), S # {}, NEW K \in Nat, NEW f \in [S -> [1..K -> Int]],
           \A t, u \in S : f[t] = f[u] => t = u
    PROVE  /\ \E t \in S : \A u \in S \ {t} : Imp!Less(f[t], f[u])
           /\ \E t \in S : \A u \in S \ {t} : Imp!Less(f[u], f[t])
<1> DEFINE Ends(s) == /\ \E t \in s : \A u \in s \ {t} : Imp!Less(f[t], f[u])
                      /\ \E t \in s : \A u \in s \ {t} : Imp!Less(f[u], f[t])
           B == {s \in SUBSET S : s # {} /\ ~Ends(s)}
<1>1. SUFFICES ASSUME B # {} PROVE FALSE
    OBVIOUS
<1>2. PICK m \in B : \A s \in SUBSET m : s # m => s \notin B
    <2>1. B \subseteq SUBSET S
        OBVIOUS
    <2> HIDE DEF B
    <2> QED
        BY <1>1, <2>1, SmallestSet
<1>3. PICK x \in m : TRUE
    BY <1>2
<1>4. CASE m \ {x} = {}
    BY <1>2, <1>3, <1>4
<1>5. CASE m \ {x} # {}
    <2> DEFINE s == m \ {x}
    <2>0. s \in SUBSET m /\ s # m /\ m \in SUBSET S
        BY <1>2, <1>3
    <2>1. Ends(s) /\ s \subseteq S /\ x \in S
        <3>1. s \notin B /\ s \in SUBSET S /\ x \in S
            BY <1>2, <1>3, <2>0
        <3> HIDE DEF Ends
        <3> QED
            BY <1>5, <3>1
    <2>2. PICK t \in s : \A u \in s \ {t} : Imp!Less(f[t], f[u])
        BY <2>1
    <2>3. PICK v \in s : \A u \in s \ {v} : Imp!Less(f[u], f[v])
        BY <2>1
    <2>4. \A u \in S : f[u] \in [1..K -> Int]
        OBVIOUS
    <2>5. Imp!Less(f[t], f[x]) \/ Imp!Less(f[x], f[t])
        <3>1. f[t] # f[x] /\ t \in S
            BY <2>1, <2>2
        <3> QED
            BY <2>1, <2>4, <3>1, LessEither
    <2>6. Imp!Less(f[v], f[x]) \/ Imp!Less(f[x], f[v])
        <3>1. f[v] # f[x] /\ v \in S
            BY <2>1, <2>3
        <3> QED
            BY <2>1, <2>4, <3>1, LessEither
    <2>7. \E y \in m : \A u \in m \ {y} : Imp!Less(f[y], f[u])
        <3>1. CASE Imp!Less(f[t], f[x])
            <4>1. \A u \in m \ {t} : Imp!Less(f[t], f[u])
                BY <2>2, <3>1
            <4> QED
                BY <2>2, <4>1
        <3>2. CASE Imp!Less(f[x], f[t])
            <4>1. ASSUME NEW u \in m \ {x} PROVE Imp!Less(f[x], f[u])
                <5>1. u = t \/ Imp!Less(f[t], f[u])
                    BY <2>2
                <5>2. u \in S /\ t \in S
                    BY <1>2, <2>1
                <5> QED
                    BY <2>1, <2>4, <3>2, <5>1, <5>2, LessOn
            <4> QED
                BY <1>3, <4>1
        <3> QED
            BY <2>5, <3>1, <3>2
    <2>8. \E y \in m : \A u \in m \ {y} : Imp!Less(f[u], f[y])
        <3>1. CASE Imp!Less(f[x], f[v])
            <4>1. \A u \in m \ {v} : Imp!Less(f[u], f[v])
                BY <2>3, <3>1
            <4> QED
                BY <2>3, <4>1
        <3>2. CASE Imp!Less(f[v], f[x])
            <4>1. ASSUME NEW u \in m \ {x} PROVE Imp!Less(f[u], f[x])
                <5>1. u = v \/ Imp!Less(f[u], f[v])
                    BY <2>3
                <5>2. u \in S /\ v \in S
                    BY <1>2, <2>1
                <5> QED
                    BY <2>1, <2>4, <3>2, <5>1, <5>2, LessOn
            <4> QED
                BY <1>3, <4>1
        <3> QED
            BY <2>6, <3>1, <3>2
    <2> QED
        BY <1>2, <2>7, <2>8
<1> QED
    BY <1>4, <1>5

LEMMA EnterMin ==
    ASSUME Imp!Bounds, Imp!Free # {}
    PROVE  Imp!Min(Imp!Free) \in Imp!Free
<1>1. Imp!Free \in SUBSET Nat
    BY DEF Imp!Bounds, Imp!Free
<1>2. \E n \in Imp!Free : \A m \in Imp!Free : n <= m
    BY <1>1, LeastNumber
<1> QED
    BY <1>2 DEF Imp!Min

LEMMA OldestIs ==
    ASSUME Imp!Bounds, Imp!TypeOK, NEW S \in SUBSET Imp!Rows, S # {}
    PROVE  Imp!Oldest(S) \in S /\ Imp!Latest(S) \in S
<1> DEFINE f == [t \in S |-> Imp!Age(t)]
<1>1. IsFiniteSet(S)
    BY FiniteIs, FS_Subset DEF Imp!Bounds, Imp!Rows
<1>2. \A t \in S : t \in Int /\ txns[t].day \in Int /\ txns[t].at \in Int
    BY DEF Imp!Bounds, Imp!TypeOK, Imp!Rows
<1>3. f \in [S -> [1..3 -> Int]]
    BY <1>2 DEF Imp!Age
<1>4. \A t, u \in S : f[t] = f[u] => t = u
    BY DEF Imp!Age
<1>5. \A t \in S : f[t] = Imp!Age(t)
    OBVIOUS
<1> HIDE DEF f
<1>6. /\ \E t \in S : \A u \in S \ {t} : Imp!Less(f[t], f[u])
      /\ \E t \in S : \A u \in S \ {t} : Imp!Less(f[u], f[t])
    BY <1>1, <1>3, <1>4, FirstAndLast
<1>7. /\ \E t \in S : \A u \in S \ {t} : Imp!Less(Imp!Age(t), Imp!Age(u))
      /\ \E t \in S : \A u \in S \ {t} : Imp!Less(Imp!Age(u), Imp!Age(t))
    BY <1>5, <1>6
<1> QED
    BY <1>7 DEF Imp!Oldest, Imp!Latest

LEMMA Joined ==
    ASSUME NEW a \in Int, NEW b \in Int, NEW c \in Int, NEW d \in Int, NEW e \in Int, NEW g \in Int
    PROVE  <<a, b, c>> \o <<d, e, g>> = <<a, b, c, d, e, g>>
<1> DEFINE x == <<a, b, c>> \o <<d, e, g>>
           y == <<a, b, c, d, e, g>>
<1>1. <<a, b, c>> \in Seq(Int) /\ <<d, e, g>> \in Seq(Int) /\ y \in Seq(Int) /\ Len(y) = 6
    OBVIOUS
<1>2. x \in Seq(Int) /\ Len(x) = 6
    BY <1>1
<1>3. \A i \in 1..6 : x[i] = y[i]
    BY <1>1
<1> HIDE DEF x, y
<1>4. x = [i \in 1..6 |-> x[i]] /\ y = [i \in 1..6 |-> y[i]]
    BY <1>1, <1>2
<1>5. x = y
    BY <1>3, <1>4
<1> QED
    BY <1>5 DEF x, y

LEMMA NearestIs ==
    ASSUME Imp!Bounds, Imp!TypeOK, NEW row, row.day \in Int, NEW S \in SUBSET Imp!Rows, S # {}
    PROVE  Imp!Nearest(row, S) \in S
<1> DEFINE f == [t \in S |-> Imp!Distance(row, t)]
<1>1. IsFiniteSet(S)
    BY FiniteIs, FS_Subset DEF Imp!Bounds, Imp!Rows
<1>2. \A t \in S : t \in Int /\ txns[t].day \in Int /\ txns[t].at \in Int
    BY DEF Imp!Bounds, Imp!TypeOK, Imp!Rows
<1>3. \A t \in S : \E a, b, c \in Int :
         Imp!Distance(row, t) = <<a, b, c, txns[t].day, txns[t].at, t>>
    <2> SUFFICES ASSUME NEW t \in S PROVE \E a, b, c \in Int :
                     Imp!Distance(row, t) = <<a, b, c, txns[t].day, txns[t].at, t>>
        OBVIOUS
    <2> DEFINE a == IF Imp!PayeeFor(row) \in Imp!Goes(t) THEN 0 ELSE 1
               b == Imp!Apart(txns[t].day, row.day)
               c == IF txns[t].source = "file" THEN 1 ELSE 0
    <2>1. a \in Int /\ b \in Int /\ c \in Int
        BY <1>2 DEF Imp!Apart
    <2>2. Imp!Distance(row, t) = <<a, b, c>> \o <<txns[t].day, txns[t].at, t>>
        BY DEF Imp!Distance, Imp!Age
    <2> HIDE DEF a, b, c
    <2>3. <<a, b, c>> \o <<txns[t].day, txns[t].at, t>> = <<a, b, c, txns[t].day, txns[t].at, t>>
        BY <1>2, <2>1, Joined
    <2> QED
        BY <2>1, <2>2, <2>3
<1>4. \A t \in S : f[t] = Imp!Distance(row, t)
    OBVIOUS
<1>5. f \in [S -> [1..6 -> Int]]
    <2>1. \A t \in S : Imp!Distance(row, t) \in [1..6 -> Int]
        BY <1>2, <1>3
    <2> QED
        BY <2>1
<1>6. \A t \in S : f[t][6] = t
    BY <1>3, <1>4
<1>7. \A t, u \in S : f[t] = f[u] => t = u
    BY <1>6
<1> HIDE DEF f
<1>8. \E t \in S : \A u \in S \ {t} : Imp!Less(f[t], f[u])
    <2>1. 6 \in Nat
        OBVIOUS
    <2> QED
        BY <1>1, <1>5, <1>7, <2>1, FirstAndLast
<1>9. \E t \in S : \A u \in S \ {t} : Imp!Less(Imp!Distance(row, t), Imp!Distance(row, u))
    BY <1>4, <1>8
<1> QED
    BY <1>9 DEF Imp!Nearest

-----------------------------------------------------------------------------
(* Imports: matching, row by row                                           *)

Runs(file, took, how, L, g) ==
    g = [n \in 0..L |->
            IF n = 0 THEN took
            ELSE IF n \in Imp!Unrepeated(file) THEN Imp!Take(g[n - 1], n, file[n], how) ELSE g[n - 1]]

LEMMA RunsExist ==
    ASSUME NEW file, NEW took, NEW how, NEW L \in Nat
    PROVE  \E g : Runs(file, took, how, L, g)
<1> DEFINE B == {k \in Nat : ~ \E g : Runs(file, took, how, k, g)}
<1>1. SUFFICES ASSUME B # {} PROVE FALSE
    OBVIOUS
<1>2. PICK k \in B : \A j \in B : k <= j
    <2>1. B \in SUBSET Nat
        OBVIOUS
    <2> HIDE DEF B
    <2> QED
        BY <1>1, <2>1, LeastNumber
<1>3. CASE k = 0
    <2> DEFINE g == [n \in 0..0 |-> took]
    <2>1. Runs(file, took, how, 0, g)
        BY DEF Runs
    <2> QED
        BY <1>2, <1>3, <2>1
<1>4. CASE k # 0
    <2>1. k - 1 \in Nat /\ k - 1 \notin B
        BY <1>2, <1>4
    <2>2. PICK h : Runs(file, took, how, k - 1, h)
        BY <2>1
    <2> DEFINE before(n) == IF n = 0 THEN took
                            ELSE IF n \in Imp!Unrepeated(file) THEN Imp!Take(h[n - 1], n, file[n], how)
                            ELSE h[n - 1]
               g == [n \in 0..k |-> before(n)]
    <2>3. \A n \in 0..k - 1 : h[n] = before(n)
        BY <2>2 DEF Runs
    <2>4. \A n \in 0..k - 1 : g[n] = h[n]
        BY <1>2, <2>3
    <2>5. \A n \in 0..k : before(n) = IF n = 0 THEN took
                                      ELSE IF n \in Imp!Unrepeated(file) THEN Imp!Take(g[n - 1], n, file[n], how)
                                      ELSE g[n - 1]
        <3> SUFFICES ASSUME NEW n \in 0..k, n # 0 PROVE g[n - 1] = h[n - 1]
            OBVIOUS
        <3>1. n - 1 \in 0..k - 1
            BY <1>2
        <3> HIDE DEF g
        <3> QED
            BY <2>4, <3>1
    <2>6. Runs(file, took, how, k, g)
        BY <2>5 DEF Runs
    <2> HIDE DEF g
    <2> QED
        BY <1>2, <2>6
<1> QED
    BY <1>3, <1>4

LEMMA MatchIs ==
    ASSUME NEW file, NEW took, NEW how, Len(file) \in Nat
    PROVE  \E g : /\ g[0] = took /\ Imp!Match(file, took, how) = g[Len(file)]
                  /\ \A n \in 1..Len(file) :
                        g[n] = IF n \in Imp!Unrepeated(file) THEN Imp!Take(g[n - 1], n, file[n], how)
                               ELSE g[n - 1]
<1> DEFINE g == CHOOSE g : Runs(file, took, how, Len(file), g)
<1>1. Runs(file, took, how, Len(file), g)
    BY RunsExist
<1>2. Imp!Match(file, took, how) = g[Len(file)]
    BY DEF Imp!Match, Runs
<1> HIDE DEF g
<1>3. g[0] = took
    BY <1>1 DEF Runs
<1>4. \A n \in 1..Len(file) :
         g[n] = IF n \in Imp!Unrepeated(file) THEN Imp!Take(g[n - 1], n, file[n], how) ELSE g[n - 1]
    BY <1>1 DEF Runs
<1> QED
    BY <1>2, <1>3, <1>4

LEMMA BestIs ==
    ASSUME Imp!Bounds, Imp!TypeOK, NEW row, row.day \in Int, NEW how,
           NEW S \in SUBSET Imp!Candidates(row, how), S # {}
    PROVE  Imp!Best(row, how, S) \in S
<1>1. S \in SUBSET Imp!Rows
    BY DEF Imp!Candidates, Imp!Same, Imp!Near
<1> QED
    BY <1>1, OldestIs, NearestIs DEF Imp!Best

\* A row takes one nobody has, if there is one for it; the others keep theirs.
Takes(took, i, row, how, took2) ==
    LET free == Imp!Candidates(row, how) \ Imp!Taken(took)
    IN  /\ DOMAIN took \subseteq DOMAIN took2 /\ DOMAIN took2 \subseteq DOMAIN took \cup {i}
        /\ \A j \in DOMAIN took : took2[j] = took[j]
        /\ i \in DOMAIN took2 /\ i \notin DOMAIN took => took2[i] \in free
        /\ free # {} => i \in DOMAIN took2

LEMMA TakeIs ==
    ASSUME Imp!Bounds, Imp!TypeOK, NEW took, NEW i, NEW row, row.day \in Int, NEW how
    PROVE  Takes(took, i, row, how, Imp!Take(took, i, row, how))
<1> DEFINE free == Imp!Candidates(row, how) \ Imp!Taken(took)
           took2 == Imp!Take(took, i, row, how)
<1>1. CASE i \in DOMAIN took \/ free = {}
    <2>1. took2 = took
        BY <1>1 DEF Imp!Take
    <2> HIDE DEF took2
    <2> QED
        BY <1>1, <2>1 DEF took2, Takes
<1>2. CASE i \notin DOMAIN took /\ free # {}
    <2> DEFINE best == Imp!Best(row, how, free)
    <2>1. took2 = [j \in DOMAIN took \cup {i} |-> IF j = i THEN best ELSE took[j]]
        BY <1>2 DEF Imp!Take
    <2>2. best \in free
        <3>1. free \in SUBSET Imp!Candidates(row, how)
            OBVIOUS
        <3> HIDE DEF free
        <3> QED
            BY <1>2, <3>1, BestIs
    <2> HIDE DEF best, took2
    <2>3. DOMAIN took2 = DOMAIN took \cup {i} /\ took2[i] = best /\ \A j \in DOMAIN took : took2[j] = took[j]
        BY <1>2, <2>1
    <2>4. Takes(took, i, row, how, took2)
        BY <2>2, <2>3 DEF Takes
    <2> QED
        BY <2>4 DEF took2
<1> QED
    BY <1>1, <1>2

-----------------------------------------------------------------------------
(* Imports: an account has each of a bank's IDs once                       *)

\* What EXCEPT needs to know of a row.
Fields(x) == x = [day |-> x.day, amount |-> x.amount, text |-> x.text, id |-> x.id,
                  payee |-> x.payee, source |-> x.source, at |-> x.at]
Written == \A t \in Imp!Rows : Fields(txns[t])

ImportsInv == txns = [t \in Slots |-> txns[t]] /\ Written /\ Imp!IDsOnce

\* Two lines of a file have the same ID only if one goes without it.
LEMMA OwnIDsDiffer ==
    ASSUME NEW file, NEW i, NEW j, Imp!OwnID(file, i) # None, Imp!OwnID(file, i) = Imp!OwnID(file, j)
    PROVE  i = j
<1>1. /\ file[i].id = file[j].id
      /\ Imp!Earlier(file, i) = i /\ Imp!Earlier(file, j) = j
    BY DEF Imp!OwnID
<1>2. Imp!Earlier(file, i) = Imp!Earlier(file, j)
    BY <1>1 DEF Imp!Earlier
<1> QED
    BY <1>1, <1>2

\* A line that is imported with an ID has one the account doesn't have.
LEMMA KeptIsNew ==
    ASSUME NEW file, NEW i \in DOMAIN file, Imp!Status(file)[i] \in {"new", "possible_duplicate"},
           Imp!KeptID(file, i) # None
    PROVE  /\ Imp!KeptID(file, i) = Imp!OwnID(file, i)
           /\ \A t \in Imp!Rows : txns[t].id # Imp!KeptID(file, i)
<1>1. /\ Imp!KeptID(file, i) = Imp!OwnID(file, i)
      /\ \A t \in Imp!HasID(file, i) : Imp!IsIt(file, i, t)
    BY DEF Imp!KeptID
<1>2. i \in Imp!Unrepeated(file) /\ i \notin DOMAIN Imp!ByID(file)
    BY DEF Imp!Status, Imp!Unrepeated
<1>3. Imp!HasID(file, i) = {}
    BY <1>1, <1>2 DEF Imp!ByID
<1> QED
    BY <1>1, <1>3 DEF Imp!HasID

\* What an import adds, row by row.
LEMMA ImportAdds ==
    ASSUME NEW name, Imp!Import(name)
    PROVE  \E put \in SUBSET Imp!Free : \E line \in [put -> DOMAIN Files[name]] :
              /\ \A t, u \in put : line[t] = line[u] => t = u
              /\ \A t \in put : Imp!Status(Files[name])[line[t]] \in {"new", "possible_duplicate"}
              /\ txns' = [t \in Slots |-> IF t \in put
                              THEN Imp!Imported(Files[name][line[t]], Imp!KeptID(Files[name], line[t]))
                              ELSE txns[t]]
<1> DEFINE file == Files[name]
           importable == {i \in DOMAIN file : Imp!Status(file)[i] \in {"new", "possible_duplicate"}}
           added == [i \in importable |-> Imp!Imported(file[i], Imp!KeptID(file, i))]
<1>1. PICK chosen \in SUBSET importable : \E place \in Imp!Places(chosen) :
         txns' = [t \in Slots |-> IF t \in Imp!Range(place)
                                  THEN added[CHOOSE i \in chosen : place[i] = t] ELSE txns[t]]
    BY DEF Imp!Import
<1>0. PICK place \in Imp!Places(chosen) :
         txns' = [t \in Slots |-> IF t \in Imp!Range(place)
                                  THEN added[CHOOSE i \in chosen : place[i] = t] ELSE txns[t]]
    BY <1>1
<1> DEFINE put == Imp!Range(place)
           line == [t \in put |-> CHOOSE i \in chosen : place[i] = t]
<1>2. place \in [chosen -> Imp!Free] /\ \A i, j \in chosen : place[i] = place[j] => i = j
    BY DEF Imp!Places, Imp!Injection, Imp!IsInjective
<1>3. \A t \in put : line[t] \in chosen /\ place[line[t]] = t
    <2> SUFFICES ASSUME NEW t \in put PROVE line[t] \in chosen /\ place[line[t]] = t
        OBVIOUS
    <2>1. \E i \in chosen : place[i] = t
        BY <1>2 DEF Imp!Range
    <2> QED
        BY <2>1
<1>4. put \in SUBSET Imp!Free
    BY <1>2 DEF Imp!Range
<1>5. txns' = [t \in Slots |-> IF t \in put THEN Imp!Imported(file[line[t]], Imp!KeptID(file, line[t])) ELSE txns[t]]
    BY <1>0, <1>3
<1>6. line \in [put -> DOMAIN file]
    BY <1>3
<1>7. \A t \in put : Imp!Status(file)[line[t]] \in {"new", "possible_duplicate"}
    BY <1>3
<1>8. \A t, u \in put : line[t] = line[u] => t = u
    BY <1>3
<1> HIDE DEF put, line
<1> QED
    BY <1>4, <1>5, <1>6, <1>7, <1>8

LEMMA ImportKeeps ==
    ASSUME ImportsInv, NEW name \in DOMAIN Files, Imp!Import(name)
    PROVE  ImportsInv'
<1> DEFINE file == Files[name]
<1>1. PICK put \in SUBSET Imp!Free : \E line \in [put -> DOMAIN file] :
              /\ \A t, u \in put : line[t] = line[u] => t = u
              /\ \A t \in put : Imp!Status(file)[line[t]] \in {"new", "possible_duplicate"}
              /\ txns' = [t \in Slots |-> IF t \in put
                              THEN Imp!Imported(file[line[t]], Imp!KeptID(file, line[t]))
                              ELSE txns[t]]
    BY ImportAdds
<1>2. PICK line \in [put -> DOMAIN file] :
              /\ \A t, u \in put : line[t] = line[u] => t = u
              /\ \A t \in put : Imp!Status(file)[line[t]] \in {"new", "possible_duplicate"}
              /\ txns' = [t \in Slots |-> IF t \in put
                              THEN Imp!Imported(file[line[t]], Imp!KeptID(file, line[t]))
                              ELSE txns[t]]
    BY <1>1
<1> HIDE DEF file
<1>3. \A t \in put : txns'[t].id = Imp!KeptID(file, line[t]) /\ Fields(txns'[t])
    BY <1>2 DEF Imp!Imported, Fields, Imp!Free
<1>4. \A t \in Imp!Rows' : t \in put \/ (t \in Imp!Rows /\ t \notin put /\ txns'[t] = txns[t])
    BY <1>2 DEF Imp!Rows
<1>5. \A t \in put : \A u \in Imp!Rows : txns'[t].id # None => txns[u].id # txns'[t].id
    BY <1>2, <1>3, KeptIsNew
<1>6. \A t, u \in put : txns'[t].id # None /\ txns'[t].id = txns'[u].id => t = u
    <2> SUFFICES ASSUME NEW t \in put, NEW u \in put, txns'[t].id # None, txns'[t].id = txns'[u].id
                 PROVE  t = u
        OBVIOUS
    <2>1. /\ Imp!KeptID(file, line[t]) # None /\ Imp!KeptID(file, line[u]) # None
          /\ Imp!KeptID(file, line[t]) = Imp!KeptID(file, line[u])
        BY <1>3
    <2>2. Imp!OwnID(file, line[t]) # None /\ Imp!OwnID(file, line[t]) = Imp!OwnID(file, line[u])
        BY <1>2, <2>1, KeptIsNew
    <2>3. line[t] = line[u]
        BY <2>2, OwnIDsDiffer
    <2> QED
        BY <1>2, <2>3
<1>7. Imp!IDsOnce'
    <2> SUFFICES ASSUME NEW t \in Imp!Rows', NEW u \in Imp!Rows', txns'[t].id # None, txns'[t].id = txns'[u].id
                 PROVE  t = u
        BY DEF Imp!IDsOnce
    <2>1. CASE t \in put /\ u \in put
        BY <1>6, <2>1
    <2>2. CASE t \in put /\ u \notin put
        BY <1>4, <1>5, <2>2
    <2>3. CASE t \notin put /\ u \in put
        BY <1>4, <1>5, <2>3
    <2>4. CASE t \notin put /\ u \notin put
        BY <1>4, <2>4 DEF ImportsInv, Imp!IDsOnce
    <2> QED
        BY <2>1, <2>2, <2>3, <2>4
<1>8. Written'
    BY <1>3, <1>4 DEF ImportsInv, Written
<1> QED
    BY <1>2, <1>7, <1>8 DEF ImportsInv

\* What leaves every other row's ID as it was, and gives none a new one.
LEMMA OnlyLess ==
    ASSUME ImportsInv, txns' = [t \in Slots |-> txns'[t]],
           \A t \in Imp!Rows' : Fields(txns'[t]) /\ (txns'[t].id = None \/ (t \in Imp!Rows /\ txns'[t].id = txns[t].id))
    PROVE  ImportsInv'
BY DEF ImportsInv, Written, Imp!IDsOnce

LEMMA ImportsStart == ASSUME Imp!Init PROVE ImportsInv
BY DEF Imp!Init, ImportsInv, Written, Imp!IDsOnce, Imp!Rows

LEMMA ImportsStep == ASSUME ImportsInv, [Imp!Next]_<<txns, whole, fileSteps>> PROVE ImportsInv'
<1>1. CASE UNCHANGED <<txns, whole, fileSteps>>
    BY <1>1 DEF ImportsInv, Written, Imp!IDsOnce, Imp!Rows
<1>2. ASSUME NEW name \in DOMAIN Files, Imp!Import(name) PROVE ImportsInv'
    BY <1>2, ImportKeeps
<1>3. ASSUME NEW what \in Hand, NEW source \in {"hand", "plaid"}, Imp!Enter(what, source) PROVE ImportsInv'
    <2> DEFINE slot == Imp!Min(Imp!Free)
               row == [day |-> what.day, amount |-> what.amount, payee |-> what.payee, source |-> source,
                       text |-> IF source = "hand" THEN None ELSE what.payee, id |-> None, at |-> fileSteps + 1]
    <2>1. txns' = [txns EXCEPT ![slot] = row]
        BY <1>3 DEF Imp!Enter
    <2>2. Fields(row) /\ row.id = None
        BY DEF Fields
    <2> HIDE DEF slot, row
    <2>3. \A t \in Slots : txns'[t] = IF t = slot THEN row ELSE txns[t]
        BY <2>1 DEF ImportsInv
    <2>4. txns' = [t \in Slots |-> txns'[t]]
        BY <2>1 DEF ImportsInv
    <2> QED
        BY <2>2, <2>3, <2>4, OnlyLess DEF Imp!Rows, ImportsInv, Written
<1>4. ASSUME NEW t \in Imp!Rows, NEW payee \in Texts, Imp!Rename(t, payee) PROVE ImportsInv'
    <2>1. txns' = [txns EXCEPT ![t] = [txns[t] EXCEPT !.payee = payee]]
        BY <1>4 DEF Imp!Rename
    <2>2. Fields(txns[t])
        BY DEF ImportsInv, Written
    <2>3. Fields([txns[t] EXCEPT !.payee = payee]) /\ [txns[t] EXCEPT !.payee = payee].id = txns[t].id
        BY <2>2 DEF Fields
    <2>4. \A u \in Slots : txns'[u] = IF u = t THEN [txns[t] EXCEPT !.payee = payee] ELSE txns[u]
        BY <2>1 DEF ImportsInv
    <2>5. txns' = [u \in Slots |-> txns'[u]]
        BY <2>1 DEF ImportsInv
    <2> QED
        BY <2>3, <2>4, <2>5, OnlyLess DEF Imp!Rows, ImportsInv, Written
<1>5. ASSUME NEW n, Imp!Undo(n) PROVE ImportsInv'
    <2>1. txns' = [t \in Slots |-> IF t \in Imp!Added(n) THEN Imp!NoTxn ELSE txns[t]]
        BY <1>5 DEF Imp!Undo
    <2> QED
        BY <2>1, OnlyLess DEF Imp!Rows, ImportsInv, Written
<1>6. ASSUME NEW t \in Imp!Rows, Imp!DeleteTransaction(t) PROVE ImportsInv'
    <2>1. txns' = [txns EXCEPT ![t] = Imp!NoTxn]
        BY <1>6 DEF Imp!DeleteTransaction
    <2> QED
        BY <2>1, OnlyLess DEF Imp!Rows, ImportsInv, Written
<1> QED
    BY <1>1, <1>2, <1>3, <1>4, <1>5, <1>6 DEF Imp!Next

(* An account has each of a bank's IDs at most once, whatever files are      *)
(* imported, in whatever order, and whatever is entered, renamed, undone or  *)
(* deleted between them (imports/matching.py:140-169, 271-286).              *)
THEOREM IDsStayUnique == Imp!Spec => []IDsOnce
<1>1. ImportsInv => IDsOnce
    BY DEF ImportsInv, IDsOnce
<1> QED
    BY ImportsStart, ImportsStep, <1>1, PTL DEF Imp!Spec, Imp!vars

-----------------------------------------------------------------------------
(* Imports: a file that is imported again                                  *)

ReadFile(file) == /\ Len(file) \in Nat /\ DOMAIN file = 1..Len(file)
                  /\ \A i \in DOMAIN file : file[i].day \in Int /\ file[i].amount \in Int /\ file[i].text \in Texts

LEMMA FilesAreRead == ASSUME Imp!Bounds, NEW name \in DOMAIN Files PROVE ReadFile(Files[name])
BY DEF Imp!Bounds, ReadFile

LEMMA UnrepeatedIn == \A file : Imp!Unrepeated(file) \subseteq DOMAIN file
BY DEF Imp!Unrepeated, Imp!Readable

\* Each row has a transaction of its own, of its amount.
OneEachRow(file, took) ==
    /\ DOMAIN took \subseteq Imp!Unrepeated(file)
    /\ \A i \in DOMAIN took : took[i] \in Imp!Rows /\ txns[took[i]].amount = file[i].amount
    /\ \A i, j \in DOMAIN took : took[i] = took[j] => i = j

LEMMA MatchOneEach ==
    ASSUME Imp!Bounds, Imp!TypeOK, NEW file, ReadFile(file), NEW took, OneEachRow(file, took), NEW how
    PROVE  LET all == Imp!Match(file, took, how)
           IN  /\ OneEachRow(file, all) /\ DOMAIN took \subseteq DOMAIN all
               /\ \A j \in DOMAIN took : all[j] = took[j]
<1>1. PICK g : /\ g[0] = took /\ Imp!Match(file, took, how) = g[Len(file)]
               /\ \A n \in 1..Len(file) :
                     g[n] = IF n \in Imp!Unrepeated(file) THEN Imp!Take(g[n - 1], n, file[n], how) ELSE g[n - 1]
    BY MatchIs DEF ReadFile
<1> DEFINE Good(n) == /\ OneEachRow(file, g[n]) /\ DOMAIN took \subseteq DOMAIN g[n]
                      /\ \A j \in DOMAIN took : g[n][j] = took[j]
           B == {n \in 0..Len(file) : ~Good(n)}
<1>2. B = {}
    <2>1. SUFFICES ASSUME B # {} PROVE FALSE
        OBVIOUS
    <2>2. PICK n \in B : \A j \in B : n <= j
        <3>1. B \in SUBSET Nat
            BY DEF ReadFile
        <3> HIDE DEF B
        <3> QED
            BY <2>1, <3>1, LeastNumber
    <2>3. n # 0
        BY <1>1, <2>2
    <2>4. n \in 1..Len(file) /\ n - 1 \in 0..Len(file) /\ Good(n - 1) /\ ~Good(n)
        <3> HIDE DEF Good
        <3> QED
            BY <2>2, <2>3 DEF ReadFile
    <2>5. CASE n \notin Imp!Unrepeated(file)
        BY <1>1, <2>4, <2>5
    <2>6. CASE n \in Imp!Unrepeated(file)
        <3> DEFINE a == g[n - 1]  b == g[n]
        <3>1. b = Imp!Take(a, n, file[n], how) /\ file[n].day \in Int
            BY <1>1, <2>4, <2>6 DEF ReadFile
        <3> HIDE DEF a, b
        <3>2. /\ DOMAIN a \subseteq DOMAIN b /\ DOMAIN b \subseteq DOMAIN a \cup {n}
              /\ \A j \in DOMAIN a : b[j] = a[j]
              /\ n \in DOMAIN b /\ n \notin DOMAIN a => b[n] \in Imp!Candidates(file[n], how) \ Imp!Taken(a)
            <4>1. Takes(a, n, file[n], how, b)
                BY <3>1, TakeIs
            <4> QED
                BY <4>1 DEF Takes
        <3>3. n \in DOMAIN b /\ n \notin DOMAIN a => /\ b[n] \in Imp!Rows /\ txns[b[n]].amount = file[n].amount
                                                     /\ \A j \in DOMAIN a : b[n] # a[j]
            BY <3>2 DEF Imp!Candidates, Imp!Same, Imp!Near, Imp!Taken
        <3>4. OneEachRow(file, a) /\ DOMAIN took \subseteq DOMAIN a /\ \A j \in DOMAIN took : a[j] = took[j]
            BY <2>4 DEF a
        <3>5. OneEachRow(file, b)
            BY <2>6, <3>2, <3>3, <3>4 DEF OneEachRow
        <3>6. Good(n)
            BY <3>2, <3>4, <3>5 DEF b
        <3> QED
            BY <2>4, <3>6
    <2> QED
        BY <2>5, <2>6
<1>3. Good(Len(file))
    <2> HIDE DEF Good
    <2> QED
        BY <1>2 DEF ReadFile
<1> QED
    BY <1>1, <1>3

LEMMA ByIDIs ==
    ASSUME Imp!IDsOnce, NEW file
    PROVE  /\ OneEachRow(file, Imp!ByID(file))
           /\ \A i \in DOMAIN Imp!ByID(file) : /\ Imp!ByID(file)[i] \in Imp!HasID(file, i)
                                               /\ Imp!IsIt(file, i, Imp!ByID(file)[i])
<1>1. ASSUME NEW i \in DOMAIN Imp!ByID(file)
      PROVE  /\ Imp!ByID(file)[i] \in Imp!HasID(file, i)
             /\ Imp!IsIt(file, i, Imp!ByID(file)[i])
    <2>1. PICK t \in Imp!HasID(file, i) : Imp!IsIt(file, i, t)
        BY DEF Imp!ByID
    <2>2. \A u \in Imp!HasID(file, i) : u = t
        BY DEF Imp!HasID, Imp!IDsOnce
    <2>3. Imp!ByID(file)[i] = CHOOSE u \in Imp!HasID(file, i) : TRUE
        BY DEF Imp!ByID
    <2> QED
        BY <2>1, <2>2, <2>3
<1>2. DOMAIN Imp!ByID(file) \subseteq Imp!Unrepeated(file)
    BY DEF Imp!ByID
<1>3. ASSUME NEW i \in DOMAIN Imp!ByID(file), NEW j \in DOMAIN Imp!ByID(file),
             Imp!ByID(file)[i] = Imp!ByID(file)[j]
      PROVE  i = j
    BY <1>1, <1>3, OwnIDsDiffer DEF Imp!HasID
<1> QED
    BY <1>1, <1>2, <1>3 DEF OneEachRow, Imp!HasID, Imp!IsIt

\* The transaction of a row: with its content, or with its ID.
Own(file, i, t) == /\ txns[t].day = file[i].day /\ txns[t].amount = file[i].amount
                   /\ Imp!Described(t) = file[i].text
Marked(file, i, t) == t \in Imp!HasID(file, i) /\ Imp!IsIt(file, i, t)

\* Enough is left over for the rows that are left.
Fitting(file, took, h) ==
    LET left == Imp!Unrepeated(file) \ DOMAIN took
    IN  /\ \A i \in left : h[i] \in Imp!Rows \ Imp!Taken(took) /\ Own(file, i, h[i])
        /\ \A i, j \in left : h[i] = h[j] => i = j

\* A row that takes another's transaction leaves one that does as well.
LEMMA TakeFits ==
    ASSUME Imp!Bounds, Imp!TypeOK, Imp!ToldApart, NEW file, ReadFile(file), NEW i \in Imp!Unrepeated(file),
           NEW took, NEW h, Fitting(file, took, h)
    PROVE  LET took2 == Imp!Take(took, i, file[i], "same")
           IN  /\ i \in DOMAIN took2 /\ DOMAIN took \subseteq DOMAIN took2
               /\ \E h2 : Fitting(file, took2, h2)
<1> DEFINE took2 == Imp!Take(took, i, file[i], "same")
           free == Imp!Same(file[i]) \ Imp!Taken(took)
           left == Imp!Unrepeated(file) \ DOMAIN took
<1>0. file[i].day \in Int /\ i \in DOMAIN file /\ free = Imp!Candidates(file[i], "same") \ Imp!Taken(took)
    BY UnrepeatedIn DEF ReadFile, Imp!Candidates
<1>1. /\ DOMAIN took \subseteq DOMAIN took2 /\ DOMAIN took2 \subseteq DOMAIN took \cup {i}
      /\ \A j \in DOMAIN took : took2[j] = took[j]
      /\ i \in DOMAIN took2 /\ i \notin DOMAIN took => took2[i] \in free
      /\ free # {} => i \in DOMAIN took2
    <2>1. Takes(took, i, file[i], "same", took2)
        BY <1>0, TakeIs
    <2> HIDE DEF took2
    <2> QED
        BY <2>1 DEF Takes, Imp!Candidates
<1>2. \A t \in Imp!Rows : Own(file, i, t) => t \in Imp!Same(file[i])
    BY DEF Own, Imp!Same, Imp!Goes
<1> HIDE DEF took2
<1>3. CASE i \in DOMAIN took
    <2>1. DOMAIN took2 = DOMAIN took /\ \A j \in DOMAIN took : took2[j] = took[j]
        BY <1>1, <1>3
    <2>2. Imp!Taken(took2) = Imp!Taken(took)
        BY <2>1 DEF Imp!Taken
    <2>3. Fitting(file, took2, h)
        BY <2>1, <2>2 DEF Fitting
    <2> QED
        BY <1>1, <1>3, <2>3 DEF took2
<1>4. CASE i \notin DOMAIN took
    <2>1. i \in left /\ h[i] \in free
        BY <1>2, <1>4 DEF Fitting
    <2> DEFINE b == took2[i]
    <2>2. i \in DOMAIN took2 /\ b \in free /\ DOMAIN took2 = DOMAIN took \cup {i}
        BY <1>1, <1>4, <2>1
    <2>3. Imp!Taken(took2) = Imp!Taken(took) \cup {b}
        BY <1>1, <2>2 DEF Imp!Taken
    <2>4. Imp!Unrepeated(file) \ DOMAIN took2 = left \ {i}
        BY <2>2
    <2>5. /\ \A j \in left : h[j] \in Imp!Rows \ Imp!Taken(took) /\ Own(file, j, h[j])
          /\ \A j, k \in left : h[j] = h[k] => j = k
        BY DEF Fitting
    <2> HIDE DEF b, left, free
    <2>6. CASE \E k \in left \ {i} : h[k] = b
        <3>1. PICK k \in left \ {i} : h[k] = b
            BY <2>6
        <3> DEFINE h2 == [j \in left \ {i} |-> IF j = k THEN h[i] ELSE h[j]]
        <3>2. Own(file, k, h[i])
            <4>1. /\ Own(file, k, b) /\ Own(file, i, h[i]) /\ h[i] \in Imp!Rows /\ b \in Imp!Rows
                BY <2>1, <2>5, <3>1
            <4>2. b \in Imp!Same(file[i]) /\ h[i] \in Imp!Same(file[i])
                BY <2>1, <2>2 DEF free
            <4>3. /\ txns[b].day = txns[h[i]].day /\ txns[b].amount = txns[h[i]].amount
                  /\ file[i].text \in Imp!Goes(b) \cap Imp!Goes(h[i])
                BY <4>2 DEF Imp!Same
            <4>4. Imp!Described(b) = Imp!Described(h[i])
                BY <4>1, <4>3 DEF Imp!ToldApart
            <4> QED
                BY <4>1, <4>3, <4>4 DEF Own
        <3>3. \A j \in left \ {i} : h2[j] \in Imp!Rows \ Imp!Taken(took2) /\ Own(file, j, h2[j])
            BY <2>1, <2>3, <2>5, <3>1, <3>2
        <3>4. \A j, l \in left \ {i} : h2[j] = h2[l] => j = l
            BY <2>1, <2>5, <3>1
        <3> HIDE DEF h2
        <3>5. Fitting(file, took2, h2)
            BY <2>4, <3>3, <3>4 DEF Fitting
        <3> QED
            BY <1>1, <2>2, <3>5 DEF took2
    <2>7. CASE \A k \in left \ {i} : h[k] # b
        <3>1. Fitting(file, took2, h)
            BY <2>3, <2>4, <2>5, <2>7 DEF Fitting
        <3> QED
            BY <1>1, <2>2, <3>1 DEF took2
    <2> QED
        BY <2>6, <2>7
<1> QED
    BY <1>3, <1>4

LEMMA AllTake ==
    ASSUME Imp!Bounds, Imp!TypeOK, Imp!ToldApart, NEW file, ReadFile(file), NEW took, NEW h, Fitting(file, took, h)
    PROVE  Imp!Unrepeated(file) \subseteq DOMAIN Imp!Match(file, took, "same")
<1>1. PICK g : /\ g[0] = took /\ Imp!Match(file, took, "same") = g[Len(file)]
               /\ \A n \in 1..Len(file) :
                     g[n] = IF n \in Imp!Unrepeated(file) THEN Imp!Take(g[n - 1], n, file[n], "same") ELSE g[n - 1]
    BY MatchIs DEF ReadFile
<1> DEFINE Good(n) == /\ \E k : Fitting(file, g[n], k)
                      /\ \A j \in Imp!Unrepeated(file) : j <= n => j \in DOMAIN g[n]
           B == {n \in 0..Len(file) : ~Good(n)}
<1>0. Imp!Unrepeated(file) \subseteq 1..Len(file) /\ Len(file) \in Nat
    BY UnrepeatedIn DEF ReadFile
<1>2. B = {}
    <2>1. SUFFICES ASSUME B # {} PROVE FALSE
        OBVIOUS
    <2>2. PICK n \in B : \A j \in B : n <= j
        <3>1. B \in SUBSET Nat
            BY <1>0
        <3> HIDE DEF B
        <3> QED
            BY <2>1, <3>1, LeastNumber
    <2>3. n # 0
        <3>1. Fitting(file, g[0], h)
            BY <1>1
        <3>2. \A j \in Imp!Unrepeated(file) : ~(j <= 0)
            BY <1>0
        <3>3. Good(0)
            BY <3>1, <3>2
        <3> QED
            BY <2>2, <3>3
    <2>4. n \in 1..Len(file) /\ n - 1 \in 0..Len(file) /\ Good(n - 1) /\ ~Good(n)
        <3> HIDE DEF Good
        <3> QED
            BY <1>0, <2>2, <2>3
    <2>5. CASE n \notin Imp!Unrepeated(file)
        <3>1. g[n] = g[n - 1]
            BY <1>1, <2>4, <2>5
        <3>2. \A j \in Imp!Unrepeated(file) : j <= n => j <= n - 1
            BY <1>0, <2>4, <2>5
        <3>3. Good(n)
            BY <2>4, <3>1, <3>2
        <3> QED
            BY <2>4, <3>3
    <2>6. CASE n \in Imp!Unrepeated(file)
        <3>1. PICK k : Fitting(file, g[n - 1], k)
            BY <2>4
        <3>2. g[n] = Imp!Take(g[n - 1], n, file[n], "same")
            BY <1>1, <2>4, <2>6
        <3>3. /\ n \in DOMAIN g[n] /\ DOMAIN g[n - 1] \subseteq DOMAIN g[n]
              /\ \E h2 : Fitting(file, g[n], h2)
            BY <2>6, <3>1, <3>2, TakeFits
        <3>4. \A j \in Imp!Unrepeated(file) : j <= n => j = n \/ j <= n - 1
            BY <1>0, <2>4
        <3>5. Good(n)
            BY <2>4, <3>3, <3>4
        <3> QED
            BY <2>4, <3>5
    <2> QED
        BY <2>5, <2>6
<1>3. Good(Len(file))
    <2> HIDE DEF Good
    <2> QED
        BY <1>0, <1>2
<1>4. \A j \in Imp!Unrepeated(file) : j <= Len(file)
    BY <1>0
<1> QED
    BY <1>1, <1>3, <1>4

\* Every row of a file has its transaction, and none has another row's ID.
Fits(file, m) ==
    /\ \A i \in Imp!Unrepeated(file) : m[i] \in Imp!Rows /\ (Own(file, i, m[i]) \/ Marked(file, i, m[i]))
    /\ \A i, j \in Imp!Unrepeated(file) : m[i] = m[j] => i = j
    /\ \A i, k \in Imp!Unrepeated(file) : Marked(file, i, m[k]) => i = k

LEMMA NearOnlyAdds ==
    ASSUME Imp!Bounds, Imp!TypeOK, Imp!IDsOnce, NEW file, ReadFile(file)
    PROVE  LET same == Imp!Match(file, Imp!ByID(file), "same")
               all == Imp!Possible(file)
           IN  /\ OneEachRow(file, all)
               /\ DOMAIN Imp!ByID(file) \subseteq DOMAIN same /\ DOMAIN same \subseteq DOMAIN all
               /\ \A i \in DOMAIN Imp!ByID(file) : all[i] = Imp!ByID(file)[i]
<1> DEFINE same == Imp!Match(file, Imp!ByID(file), "same")
           all == Imp!Match(file, same, "near")
<1>1. OneEachRow(file, Imp!ByID(file))
    BY ByIDIs
<1>2. /\ OneEachRow(file, same) /\ DOMAIN Imp!ByID(file) \subseteq DOMAIN same
      /\ \A j \in DOMAIN Imp!ByID(file) : same[j] = Imp!ByID(file)[j]
    BY <1>1, MatchOneEach
<1> HIDE DEF same
<1>3. OneEachRow(file, all) /\ DOMAIN same \subseteq DOMAIN all /\ \A j \in DOMAIN same : all[j] = same[j]
    BY <1>2, MatchOneEach
<1>4. Imp!Possible(file) = all
    BY DEF Imp!Possible, same
<1> HIDE DEF all
<1> QED
    BY <1>2, <1>3, <1>4 DEF same

LEMMA NewAre ==
    ASSUME Imp!Bounds, Imp!TypeOK, Imp!IDsOnce, NEW file, ReadFile(file)
    PROVE  Imp!NewLines(file) = Imp!Unrepeated(file) \ DOMAIN Imp!Possible(file)
<1>1. DOMAIN Imp!ByID(file) \subseteq DOMAIN Imp!Possible(file)
    BY NearOnlyAdds
<1>2. Imp!Readable(file) \subseteq DOMAIN file
    BY DEF Imp!Readable
<1>3. ASSUME NEW i \in DOMAIN file
      PROVE  Imp!Status(file)[i] = "new" <=> i \in Imp!Unrepeated(file) \ DOMAIN Imp!Possible(file)
    BY <1>1 DEF Imp!Status, Imp!Unrepeated
<1>4. Imp!NewLines(file) = {i \in DOMAIN file : Imp!Status(file)[i] = "new"}
    BY DEF Imp!NewLines
<1> QED
    BY <1>2, <1>3, <1>4 DEF Imp!Unrepeated

LEMMA NothingIsNew ==
    ASSUME Imp!Bounds, Imp!TypeOK, Imp!IDsOnce, Imp!ToldApart, NEW file, ReadFile(file), NEW m, Fits(file, m)
    PROVE  Imp!NewLines(file) = {}
<1> DEFINE took == Imp!ByID(file)
           left == Imp!Unrepeated(file) \ DOMAIN took
<1>1. \A i \in DOMAIN took : Marked(file, i, took[i]) /\ i \in Imp!Unrepeated(file)
    BY ByIDIs DEF Marked, OneEachRow
<1>2. ASSUME NEW i \in left PROVE Own(file, i, m[i]) /\ m[i] \in Imp!Rows /\ m[i] \notin Imp!Taken(took)
    <2>1. ~Marked(file, i, m[i])
        BY DEF Marked, Imp!ByID
    <2>2. ASSUME NEW j \in DOMAIN took, took[j] = m[i] PROVE FALSE
        <3>1. Marked(file, j, m[i])
            BY <1>1, <2>2
        <3> QED
            BY <1>1, <2>2, <3>1 DEF Fits
    <2> QED
        BY <2>1, <2>2 DEF Fits, Imp!Taken
<1>3. Fitting(file, took, m)
    BY <1>2 DEF Fitting, Fits
<1>4. Imp!Unrepeated(file) \subseteq DOMAIN Imp!Match(file, took, "same")
    BY <1>3, AllTake
<1>5. DOMAIN Imp!Match(file, took, "same") \subseteq DOMAIN Imp!Possible(file)
    BY NearOnlyAdds
<1> QED
    BY <1>4, <1>5, NewAre

-----------------------------------------------------------------------------
(* Imports: what steps keep                                                *)

WholeFilesFit == \A name \in whole : \E m : Fits(Files[name], m)

FilesInv == ImportsInv /\ Imp!TypeOK /\ WholeFilesFit

\* What is there stays as it is.
Kept == \A t \in Imp!Rows : t \in Imp!Rows' /\ txns'[t] = txns[t]

LEMMA FitsStay ==
    ASSUME Kept, NEW file, NEW m, Fits(file, m)
    PROVE  Fits(file, m)'
<1>1. ASSUME NEW i \in Imp!Unrepeated(file), NEW k \in Imp!Unrepeated(file)
      PROVE  /\ (m[k] \in Imp!Rows)' /\ (Own(file, i, m[k])' <=> Own(file, i, m[k]))
             /\ (Marked(file, i, m[k])' <=> Marked(file, i, m[k]))
    <2>1. m[k] \in Imp!Rows /\ m[k] \in Imp!Rows' /\ txns'[m[k]] = txns[m[k]]
        BY DEF Kept, Fits
    <2>2. Own(file, i, m[k])' <=> Own(file, i, m[k])
        BY <2>1 DEF Own, Imp!Described
    <2>3. Marked(file, i, m[k])' <=> Marked(file, i, m[k])
        BY <2>1 DEF Marked, Imp!HasID, Imp!IsIt
    <2> QED
        BY <2>1, <2>2, <2>3
<1> QED
    BY <1>1 DEF Fits

LEMMA PayeeTyped ==
    ASSUME Imp!Bounds, Imp!TypeOK, NEW row, row.text \in Texts
    PROVE  Imp!PayeeFor(row) \in Texts
<1> DEFINE before == {t \in Imp!Rows : txns[t].text = row.text}
<1>1. before # {} => Imp!Latest(before) \in before
    <2>1. before \in SUBSET Imp!Rows
        OBVIOUS
    <2> HIDE DEF before
    <2> QED
        BY <2>1, OldestIs
<1> QED
    BY <1>1 DEF Imp!PayeeFor, Imp!TypeOK

\* An import, with what goes where: the lines chosen, each in a place that was free.
LEMMA ImportIs ==
    ASSUME Imp!Bounds, NEW name \in DOMAIN Files, Imp!Import(name)
    PROVE  LET file == Files[name]
               importable == {i \in DOMAIN file : Imp!Status(file)[i] \in {"new", "possible_duplicate"}}
           IN  \E chosen \in SUBSET importable : \E place \in [chosen -> Imp!Free] :
                  /\ \A i, j \in chosen : place[i] = place[j] => i = j
                  /\ txns' = [t \in Slots |-> txns'[t]]
                  /\ \A i \in chosen : txns'[place[i]] = Imp!Imported(file[i], Imp!KeptID(file, i))
                  /\ \A t \in Slots : (\A i \in chosen : place[i] # t) => txns'[t] = txns[t]
                  /\ whole' = IF chosen = Imp!NewLines(file) /\ Imp!Recognised(file)
                              THEN whole \cup {name} ELSE whole
<1> DEFINE file == Files[name]
           importable == {i \in DOMAIN file : Imp!Status(file)[i] \in {"new", "possible_duplicate"}}
           new == {i \in importable : Imp!Status(file)[i] = "new"}
           added == [i \in importable |-> Imp!Imported(file[i], Imp!KeptID(file, i))]
<1>1. PICK chosen \in SUBSET importable :
         /\ \E place \in Imp!Places(chosen) :
               txns' = [t \in Slots |-> IF t \in Imp!Range(place)
                                        THEN added[CHOOSE i \in chosen : place[i] = t] ELSE txns[t]]
         /\ whole' = IF chosen = new /\ Imp!Recognised(file) THEN whole \cup {name} ELSE whole
    BY DEF Imp!Import
<1>2. PICK place \in Imp!Places(chosen) :
         txns' = [t \in Slots |-> IF t \in Imp!Range(place)
                                  THEN added[CHOOSE i \in chosen : place[i] = t] ELSE txns[t]]
    BY <1>1
<1>3. place \in [chosen -> Imp!Free] /\ \A i, j \in chosen : place[i] = place[j] => i = j
    BY DEF Imp!Places, Imp!Injection, Imp!IsInjective
<1>4. new = Imp!NewLines(file)
    BY DEF Imp!NewLines
<1>5. txns' = [t \in Slots |-> txns'[t]]
    BY <1>2
<1>6. ASSUME NEW i \in chosen PROVE txns'[place[i]] = Imp!Imported(file[i], Imp!KeptID(file, i))
    <2>1. place[i] \in Imp!Range(place) /\ place[i] \in Slots /\ i \in importable
        BY <1>3 DEF Imp!Range, Imp!Free
    <2>2. (CHOOSE j \in chosen : place[j] = place[i]) = i
        BY <1>3
    <2>3. txns'[place[i]] = added[CHOOSE j \in chosen : place[j] = place[i]]
        BY <1>2, <2>1
    <2> QED
        BY <2>1, <2>2, <2>3
<1>7. ASSUME NEW t \in Slots, \A i \in chosen : place[i] # t PROVE txns'[t] = txns[t]
    <2>1. t \notin Imp!Range(place)
        BY <1>3, <1>7 DEF Imp!Range
    <2> QED
        BY <1>2, <2>1
<1> HIDE DEF new
<1> QED
    BY <1>1, <1>3, <1>4, <1>5, <1>6, <1>7

\* Lines that are imported, and what they become.
LEMMA ImportedTyped ==
    ASSUME Imp!Bounds, Imp!TypeOK, Imp!Step, NEW file, ReadFile(file), NEW i \in DOMAIN file,
           Imp!Status(file)[i] \in {"new", "possible_duplicate"}, NEW id
    PROVE  LET t == Imp!Imported(file[i], id)
           IN  /\ t # Imp!NoTxn /\ t.source \in Imp!Sources /\ t.payee \in Texts /\ t.text \in Texts \cup {None}
               /\ t.at \in 1..MaxSteps /\ t.day \in Int /\ t.amount \in Int \ {0}
<1>1. file[i].amount # 0
    BY DEF Imp!Status, Imp!Readable
<1>2. Imp!PayeeFor(file[i]) \in Texts
    BY PayeeTyped DEF ReadFile
<1>3. fileSteps + 1 \in 1..MaxSteps
    BY DEF Imp!Step, Imp!TypeOK, Imp!Bounds
<1> DEFINE t == Imp!Imported(file[i], id)
<1>4. /\ t.day = file[i].day /\ t.amount = file[i].amount /\ t.text = file[i].text
      /\ t.payee = Imp!PayeeFor(file[i]) /\ t.source = "file" /\ t.at = fileSteps + 1
    BY DEF Imp!Imported
<1>5. t # Imp!NoTxn
    BY DEF Imp!Imported, Imp!NoTxn
<1> HIDE DEF t
<1>6. /\ t # Imp!NoTxn /\ t.source \in Imp!Sources /\ t.payee \in Texts /\ t.text \in Texts \cup {None}
      /\ t.at \in 1..MaxSteps /\ t.day \in Int /\ t.amount \in Int \ {0}
    BY <1>1, <1>2, <1>3, <1>4, <1>5 DEF ReadFile, Imp!Sources
<1> QED
    BY <1>6 DEF t

LEMMA ImportTypes ==
    ASSUME Imp!Bounds, Imp!TypeOK, NEW name \in DOMAIN Files, Imp!Import(name)
    PROVE  Imp!TypeOK' /\ Kept
<1> DEFINE file == Files[name]
           importable == {i \in DOMAIN file : Imp!Status(file)[i] \in {"new", "possible_duplicate"}}
<1> DEFINE Put(chosen, place) ==
             /\ txns' = [t \in Slots |-> txns'[t]]
             /\ \A i \in chosen : txns'[place[i]] = Imp!Imported(file[i], Imp!KeptID(file, i))
             /\ \A t \in Slots : (\A i \in chosen : place[i] # t) => txns'[t] = txns[t]
             /\ whole' = IF chosen = Imp!NewLines(file) /\ Imp!Recognised(file) THEN whole \cup {name} ELSE whole
<1>0. PICK chosen \in SUBSET importable : \E place \in [chosen -> Imp!Free] : Put(chosen, place)
    BY ImportIs
<1>1. PICK place \in [chosen -> Imp!Free] : Put(chosen, place)
    BY <1>0
<1>2. Imp!Step
    BY DEF Imp!Import
<1>3. ReadFile(file)
    BY FilesAreRead
<1> HIDE DEF file
<1>4. Kept
    <2> SUFFICES ASSUME NEW t \in Imp!Rows PROVE t \in Imp!Rows' /\ txns'[t] = txns[t]
        BY DEF Kept
    <2>1. t \in Slots /\ \A i \in chosen : place[i] # t
        BY DEF Imp!Rows, Imp!Free
    <2> QED
        BY <1>1, <2>1 DEF Imp!Rows
<1>5. ASSUME NEW t \in Imp!Rows'
      PROVE  /\ txns'[t].source \in Imp!Sources /\ txns'[t].payee \in Texts /\ txns'[t].text \in Texts \cup {None}
             /\ txns'[t].at \in 1..MaxSteps /\ txns'[t].day \in Int /\ txns'[t].amount \in Int \ {0}
    <2>1. CASE \E i \in chosen : place[i] = t
        <3>1. PICK i \in chosen : place[i] = t
            BY <2>1
        <3>2. i \in DOMAIN file /\ Imp!Status(file)[i] \in {"new", "possible_duplicate"}
            OBVIOUS
        <3>3. txns'[t] = Imp!Imported(file[i], Imp!KeptID(file, i))
            BY <1>1, <3>1
        <3> QED
            BY <1>2, <1>3, <3>2, <3>3, ImportedTyped
    <2>2. CASE \A i \in chosen : place[i] # t
        <3>1. t \in Imp!Rows /\ txns'[t] = txns[t]
            BY <1>1, <2>2 DEF Imp!Rows
        <3> QED
            BY <3>1 DEF Imp!TypeOK
    <2> QED
        BY <2>1, <2>2
<1>6. whole' \subseteq DOMAIN Files
    BY <1>1 DEF Imp!TypeOK
<1>7. fileSteps' \in 0..MaxSteps
    BY <1>2 DEF Imp!Step, Imp!TypeOK, Imp!Bounds
<1> QED
    BY <1>4, <1>5, <1>6, <1>7 DEF Imp!TypeOK

\* A file all of whose new lines are imported, and the rest recognised, fits.
LEMMA ImportFits ==
    ASSUME Imp!Bounds, Imp!TypeOK, ImportsInv, ImportsInv', NEW name \in DOMAIN Files, Imp!Import(name), Kept,
           Imp!Recognised(Files[name]), NEW place \in [Imp!NewLines(Files[name]) -> Imp!Free],
           \A i, j \in Imp!NewLines(Files[name]) : place[i] = place[j] => i = j,
           \A i \in Imp!NewLines(Files[name]) :
               txns'[place[i]] = Imp!Imported(Files[name][i], Imp!KeptID(Files[name], i)),
           \A t \in Slots : (\A i \in Imp!NewLines(Files[name]) : place[i] # t) => txns'[t] = txns[t]
    PROVE  \E m : Fits(Files[name], m)'
<1> DEFINE file == Files[name]
           new == Imp!NewLines(file)
<1>0. PICK took, sure : took = Imp!Possible(file) /\ sure = Imp!ByID(file)
    OBVIOUS
<1>m. PICK m : m = [i \in Imp!Unrepeated(file) |-> IF i \in DOMAIN took THEN took[i] ELSE place[i]]
    OBVIOUS
<1>1. ReadFile(file) /\ Imp!IDsOnce /\ Imp!IDsOnce'
    BY FilesAreRead DEF ImportsInv
<1>2. new = Imp!Unrepeated(file) \ DOMAIN took
    BY <1>0, <1>1, NewAre
<1>3. OneEachRow(file, took) /\ DOMAIN sure \subseteq DOMAIN took /\ \A i \in DOMAIN sure : took[i] = sure[i]
    BY <1>0, <1>1, NearOnlyAdds
<1>4. \A i \in DOMAIN sure : Marked(file, i, took[i])
    BY <1>0, <1>1, <1>3, ByIDIs DEF Marked
<1>5. \A i \in DOMAIN took \ DOMAIN sure : Own(file, i, took[i])
    <2> SUFFICES ASSUME NEW i \in DOMAIN took \ DOMAIN sure PROVE Own(file, i, took[i])
        OBVIOUS
    <2>1. txns[took[i]].day = file[i].day /\ Imp!Described(took[i]) = file[i].text
        BY <1>0 DEF Imp!Recognised
    <2>2. txns[took[i]].amount = file[i].amount
        BY <1>3 DEF OneEachRow
    <2> QED
        BY <2>1, <2>2 DEF Own
<1>6. ASSUME NEW i \in DOMAIN took
      PROVE  /\ took[i] \in Imp!Rows' /\ txns'[took[i]] = txns[took[i]]
             /\ (Own(file, i, took[i]) => Own(file, i, took[i])')
             /\ \A j : Marked(file, j, took[i])' <=> Marked(file, j, took[i])
    <2>1. took[i] \in Imp!Rows /\ took[i] \in Imp!Rows' /\ txns'[took[i]] = txns[took[i]]
        BY <1>3 DEF OneEachRow, Kept
    <2> HIDE DEF file
    <2> QED
        BY <2>1 DEF Own, Marked, Imp!HasID, Imp!IsIt, Imp!Described
<1>7. ASSUME NEW i \in new
      PROVE  /\ i \in DOMAIN file /\ Imp!Status(file)[i] = "new" /\ place[i] \in Imp!Free
             /\ place[i] \in Imp!Rows' /\ txns'[place[i]].id = Imp!KeptID(file, i) /\ Own(file, i, place[i])'
    <2>1. i \in DOMAIN file /\ Imp!Status(file)[i] = "new" /\ place[i] \in Imp!Free
        BY DEF Imp!NewLines
    <2>2. txns'[place[i]] = Imp!Imported(file[i], Imp!KeptID(file, i))
        OBVIOUS
    <2>3. file[i].text # None
        BY <1>1, <2>1 DEF ReadFile, Imp!Bounds
    <2> HIDE DEF file, new
    <2> QED
        BY <2>1, <2>2, <2>3 DEF Imp!Imported, Imp!Rows, Imp!Free, Imp!NoTxn, Own, Imp!Described
<1> HIDE DEF file, new
<1>8. \A i \in Imp!Unrepeated(file) : i \in DOMAIN took \/ i \in new
    BY <1>2
<1>9. /\ \A i \in DOMAIN took : m[i] = took[i]
      /\ \A i \in new : m[i] = place[i] /\ i \in Imp!Unrepeated(file) /\ i \notin DOMAIN took
    BY <1>2, <1>3, <1>m DEF OneEachRow
<1>10. ASSUME NEW i \in Imp!Unrepeated(file)
       PROVE  (m[i] \in Imp!Rows /\ (Own(file, i, m[i]) \/ Marked(file, i, m[i])))'
    BY <1>4, <1>5, <1>6, <1>7, <1>8, <1>9
<1>11. ASSUME NEW i \in Imp!Unrepeated(file), NEW k \in Imp!Unrepeated(file), m[i] = m[k] PROVE i = k
    <2>1. ASSUME NEW j \in DOMAIN took, NEW l \in new PROVE took[j] # place[l]
        BY <1>3, <1>7 DEF OneEachRow, Imp!Free
    <2> QED
        BY <1>3, <1>8, <1>9, <1>11, <2>1 DEF OneEachRow, new, file
<1>12. ASSUME NEW i \in Imp!Unrepeated(file), NEW k \in Imp!Unrepeated(file), Marked(file, i, m[k])' PROVE i = k
    <2>1. CASE k \in DOMAIN took
        <3>1. Marked(file, i, took[k])
            BY <1>6, <1>9, <1>12, <2>1
        <3>2. i \in DOMAIN sure
            BY <1>0, <3>1 DEF Marked, Imp!ByID
        <3>3. sure[i] \in Imp!HasID(file, i) /\ took[i] = sure[i]
            BY <1>0, <1>1, <1>3, <3>2, ByIDIs
        <3>4. sure[i] = took[k]
            BY <1>1, <3>1, <3>3 DEF Marked, Imp!HasID, Imp!IDsOnce
        <3> QED
            BY <1>3, <2>1, <3>2, <3>3, <3>4 DEF OneEachRow
    <2>2. CASE k \in new
        <3>1. Imp!OwnID(file, i) # None /\ txns'[place[k]].id = Imp!OwnID(file, i)
            BY <1>9, <1>12, <2>2 DEF Marked, Imp!HasID, Imp!OwnID, Imp!Earlier, Imp!Readable
        <3>2. Imp!KeptID(file, k) = Imp!OwnID(file, k)
            BY <1>7, <2>2, <3>1, KeptIsNew
        <3> QED
            BY <1>7, <2>2, <3>1, <3>2, OwnIDsDiffer
    <2> QED
        BY <1>8, <2>1, <2>2
<1> QED
    BY <1>10, <1>11, <1>12 DEF Fits, file

LEMMA StayingFits ==
    ASSUME WholeFilesFit, Kept, NEW name \in DOMAIN Files, name \in whole
    PROVE  \E m : Fits(Files[name], m)'
<1>1. PICK m : Fits(Files[name], m)
    BY DEF WholeFilesFit
<1>2. Fits(Files[name], m)'
    BY <1>1, FitsStay
<1> QED
    BY <1>2

LEMMA ImportKeepsFiles ==
    ASSUME Imp!Bounds, FilesInv, NEW name \in DOMAIN Files, Imp!Import(name)
    PROVE  FilesInv'
<1> DEFINE file == Files[name]
           importable == {i \in DOMAIN file : Imp!Status(file)[i] \in {"new", "possible_duplicate"}}
           Put(chosen, place) ==
             /\ \A i, j \in chosen : place[i] = place[j] => i = j
             /\ txns' = [t \in Slots |-> txns'[t]]
             /\ \A i \in chosen : txns'[place[i]] = Imp!Imported(file[i], Imp!KeptID(file, i))
             /\ \A t \in Slots : (\A i \in chosen : place[i] # t) => txns'[t] = txns[t]
             /\ whole' = IF chosen = Imp!NewLines(file) /\ Imp!Recognised(file) THEN whole \cup {name} ELSE whole
<1>1. PICK chosen \in SUBSET importable : \E place \in [chosen -> Imp!Free] : Put(chosen, place)
    BY ImportIs
<1>2. PICK place \in [chosen -> Imp!Free] : Put(chosen, place)
    BY <1>1
<1>3. ImportsInv' /\ Imp!TypeOK' /\ Kept
    BY ImportKeeps, ImportTypes DEF FilesInv
<1>4. ASSUME NEW f \in whole' PROVE f \in whole \/ (f = name /\ chosen = Imp!NewLines(file) /\ Imp!Recognised(file))
    BY <1>2
<1>5. CASE chosen = Imp!NewLines(file) /\ Imp!Recognised(file)
    <2>1. \E m : Fits(file, m)'
        BY <1>2, <1>3, <1>5, ImportFits DEF FilesInv
    <2>2. ASSUME NEW f \in whole' PROVE \E m : Fits(Files[f], m)'
        <3>1. f \in DOMAIN Files
            BY <1>3 DEF Imp!TypeOK
        <3> HIDE DEF Put
        <3> QED
            BY <1>3, <1>4, <2>1, <3>1, StayingFits DEF FilesInv
    <2> QED
        BY <1>3, <2>2 DEF FilesInv, WholeFilesFit
<1>6. CASE ~(chosen = Imp!NewLines(file) /\ Imp!Recognised(file))
    <2>1. ASSUME NEW f \in whole' PROVE \E m : Fits(Files[f], m)'
        <3>1. f \in DOMAIN Files
            BY <1>3 DEF Imp!TypeOK
        <3> HIDE DEF Put
        <3> QED
            BY <1>3, <1>4, <1>6, <3>1, StayingFits DEF FilesInv
    <2> QED
        BY <1>3, <2>1 DEF FilesInv, WholeFilesFit
<1> QED
    BY <1>5, <1>6

LEMMA EnterKeepsFiles ==
    ASSUME Imp!Bounds, FilesInv, ImportsInv', NEW what \in Hand, NEW source \in {"hand", "plaid"},
           Imp!Enter(what, source)
    PROVE  FilesInv'
<1> DEFINE slot == Imp!Min(Imp!Free)
           row == [day |-> what.day, amount |-> what.amount, payee |-> what.payee, source |-> source,
                   text |-> IF source = "hand" THEN None ELSE what.payee, id |-> None, at |-> fileSteps + 1]
<1>1. /\ txns' = [txns EXCEPT ![slot] = row] /\ whole' = whole /\ fileSteps' = fileSteps + 1 /\ fileSteps < MaxSteps
      /\ slot \in Imp!Free
    BY EnterMin DEF Imp!Enter, Imp!Step
<1>2. /\ row.source \in Imp!Sources /\ row.payee \in Texts /\ row.text \in Texts \cup {None}
      /\ row.at \in 1..MaxSteps /\ row.day \in Int /\ row.amount \in Int \ {0}
    BY <1>1 DEF Imp!Bounds, Imp!Sources, FilesInv, Imp!TypeOK
<1> HIDE DEF slot, row
<1>3. \A t \in Slots : txns'[t] = IF t = slot THEN row ELSE txns[t]
    BY <1>1 DEF FilesInv, ImportsInv
<1>4. Kept
    BY <1>1, <1>3 DEF Kept, Imp!Rows, Imp!Free
<1>5. Imp!TypeOK'
    <2>1. fileSteps' \in 0..MaxSteps /\ whole' \subseteq DOMAIN Files
        BY <1>1 DEF FilesInv, Imp!TypeOK, Imp!Bounds
    <2>2. ASSUME NEW t \in Imp!Rows'
          PROVE  /\ txns'[t].source \in Imp!Sources /\ txns'[t].payee \in Texts /\ txns'[t].text \in Texts \cup {None}
                 /\ txns'[t].at \in 1..MaxSteps /\ txns'[t].day \in Int /\ txns'[t].amount \in Int \ {0}
        <3>1. t \in Slots /\ (t # slot => t \in Imp!Rows)
            BY <1>3 DEF Imp!Rows
        <3> QED
            BY <1>2, <1>3, <3>1 DEF FilesInv, Imp!TypeOK
    <2> QED
        BY <2>1, <2>2 DEF Imp!TypeOK
<1>6. ASSUME NEW f \in whole' PROVE \E m : Fits(Files[f], m)'
    <2>1. f \in DOMAIN Files /\ f \in whole
        BY <1>1 DEF FilesInv, Imp!TypeOK
    <2> QED
        BY <1>4, <2>1, StayingFits DEF FilesInv
<1> QED
    BY <1>5, <1>6 DEF FilesInv, WholeFilesFit

\* What is renamed or deleted may be what a file's row was recognised by.
LEMMA ForgetKeepsFiles ==
    ASSUME Imp!Bounds, FilesInv, ImportsInv', Imp!Step, whole' = {},
           \A t \in Imp!Rows' : /\ t \in Imp!Rows /\ txns'[t].source = txns[t].source /\ txns'[t].text = txns[t].text
                                /\ txns'[t].at = txns[t].at /\ txns'[t].day = txns[t].day
                                /\ txns'[t].amount = txns[t].amount /\ txns'[t].payee \in Texts
    PROVE  FilesInv'
<1>1. fileSteps' \in 0..MaxSteps
    BY DEF Imp!Step, Imp!Bounds, FilesInv, Imp!TypeOK
<1> QED
    BY <1>1 DEF FilesInv, Imp!TypeOK, WholeFilesFit

LEMMA FilesStart == ASSUME Imp!Bounds, Imp!Init PROVE FilesInv
<1>1. ImportsInv
    BY ImportsStart
<1> QED
    BY <1>1 DEF FilesInv, Imp!Init, Imp!TypeOK, WholeFilesFit, Imp!Rows, Imp!Bounds

LEMMA FilesStep ==
    ASSUME Imp!Bounds, FilesInv, [Imp!Next]_<<txns, whole, fileSteps>>
    PROVE  FilesInv'
<1>0. ImportsInv'
    BY ImportsStep DEF FilesInv
<1>1. CASE UNCHANGED <<txns, whole, fileSteps>>
    <2>1. Imp!TypeOK' /\ Kept
        BY <1>1 DEF FilesInv, Imp!TypeOK, Imp!Rows, Kept
    <2>2. ASSUME NEW f \in whole' PROVE \E m : Fits(Files[f], m)'
        <3>1. f \in DOMAIN Files /\ f \in whole
            BY <1>1 DEF FilesInv, Imp!TypeOK
        <3> QED
            BY <2>1, <3>1, StayingFits DEF FilesInv
    <2> QED
        BY <1>0, <2>1, <2>2 DEF FilesInv, WholeFilesFit
<1>2. ASSUME NEW name \in DOMAIN Files, Imp!Import(name) PROVE FilesInv'
    BY <1>2, ImportKeepsFiles
<1>3. ASSUME NEW what \in Hand, NEW source \in {"hand", "plaid"}, Imp!Enter(what, source) PROVE FilesInv'
    BY <1>0, <1>3, EnterKeepsFiles
<1>4. ASSUME NEW t \in Imp!Rows, NEW payee \in Texts, Imp!Rename(t, payee) PROVE FilesInv'
    <2>1. /\ txns' = [txns EXCEPT ![t] = [txns[t] EXCEPT !.payee = payee]] /\ Imp!Step /\ whole' = {}
        BY <1>4 DEF Imp!Rename
    <2>2. ASSUME NEW u \in Imp!Rows'
          PROVE  /\ u \in Imp!Rows /\ txns'[u].source = txns[u].source /\ txns'[u].text = txns[u].text
                 /\ txns'[u].at = txns[u].at /\ txns'[u].day = txns[u].day
                 /\ txns'[u].amount = txns[u].amount /\ txns'[u].payee \in Texts
        <3>1. u \in Slots /\ txns'[u] = IF u = t THEN [txns[t] EXCEPT !.payee = payee] ELSE txns[u]
            BY <2>1 DEF FilesInv, ImportsInv, Imp!Rows
        <3>2. u \in Imp!Rows /\ Fields(txns[u])
            BY <3>1 DEF Imp!Rows, FilesInv, ImportsInv, Written
        <3> QED
            BY <3>1, <3>2 DEF Fields, FilesInv, Imp!TypeOK
    <2> QED
        BY <1>0, <2>1, <2>2, ForgetKeepsFiles
<1>5. ASSUME NEW n, Imp!Undo(n) PROVE FilesInv'
    <2>1. /\ txns' = [t \in Slots |-> IF t \in Imp!Added(n) THEN Imp!NoTxn ELSE txns[t]] /\ Imp!Step /\ whole' = {}
        BY <1>5 DEF Imp!Undo
    <2>2. \A u \in Imp!Rows' : u \in Imp!Rows /\ txns'[u] = txns[u] /\ txns[u].payee \in Texts
        BY <2>1 DEF Imp!Rows, FilesInv, Imp!TypeOK
    <2> QED
        BY <1>0, <2>1, <2>2, ForgetKeepsFiles
<1>6. ASSUME NEW t \in Imp!Rows, Imp!DeleteTransaction(t) PROVE FilesInv'
    <2>1. txns' = [txns EXCEPT ![t] = Imp!NoTxn] /\ Imp!Step /\ whole' = {}
        BY <1>6 DEF Imp!DeleteTransaction
    <2>2. \A u \in Imp!Rows' : u \in Imp!Rows /\ txns'[u] = txns[u] /\ txns[u].payee \in Texts
        BY <2>1 DEF Imp!Rows, FilesInv, ImportsInv, Imp!TypeOK
    <2> QED
        BY <1>0, <2>1, <2>2, ForgetKeepsFiles
<1> QED
    BY <1>1, <1>2, <1>3, <1>4, <1>5, <1>6 DEF Imp!Next

(* A file whose rows were all imported or recognised adds nothing when it is *)
(* imported again, whatever else was imported or entered since and until     *)
(* something is renamed or deleted, as long as the account's transactions    *)
(* can be told apart (imports/matching.py:171-201, 289-308).                 *)
THEOREM WholeFilesStayWhole == Imp!Bounds => (Imp!Spec => []WholeFilesAddNothing)
<1> SUFFICES ASSUME Imp!Bounds PROVE Imp!Spec => []WholeFilesAddNothing
    OBVIOUS
<1>1. Imp!Init => FilesInv
    BY FilesStart
<1>2. FilesInv /\ [Imp!Next]_<<txns, whole, fileSteps>> => FilesInv'
    BY FilesStep
<1>3. FilesInv => WholeFilesAddNothing
    <2> SUFFICES ASSUME FilesInv, Imp!ToldApart, NEW name \in whole PROVE Imp!NewLines(Files[name]) = {}
        BY DEF WholeFilesAddNothing, Imp!WholeFilesAddNothing
    <2>1. name \in DOMAIN Files
        BY DEF FilesInv, Imp!TypeOK
    <2>2. PICK m : Fits(Files[name], m)
        BY DEF FilesInv, WholeFilesFit
    <2> QED
        BY <2>1, <2>2, FilesAreRead, NothingIsNew DEF FilesInv, ImportsInv
<1> QED
    BY <1>1, <1>2, <1>3, PTL DEF Imp!Spec, Imp!vars

LEMMA FileTypes == Imp!Bounds => (Imp!Spec => []Imp!TypeOK)
<1> SUFFICES ASSUME Imp!Bounds PROVE Imp!Spec => []Imp!TypeOK
    OBVIOUS
<1>1. Imp!Init => FilesInv
    BY FilesStart
<1>2. FilesInv /\ [Imp!Next]_<<txns, whole, fileSteps>> => FilesInv'
    BY FilesStep
<1>3. FilesInv => Imp!TypeOK
    BY DEF FilesInv
<1> QED
    BY <1>1, <1>2, <1>3, PTL DEF Imp!Spec, Imp!vars

-----------------------------------------------------------------------------
(* Exchange rates: when no two requests fetch a currency's first rates at    *)
(* the same time, its span has no holes, and every request converts each day *)
(* at the right rate.                                                        *)

USE DaysAssumption, ChunkAssumption, FirstAloneAssumption

\* A gap next to what is there, or in it.
Touches(gap, s) == gap.first <= s.last + 1 /\ s.first <= gap.last + 1

\* What is left to ask for is next to the span (or everything, when there is none), and
\* with the span makes up the days wanted.
Fetching(b, s, rates) ==
    /\ b.gap # Nothing /\ b.gap.first <= b.next /\ b.next <= b.gap.last + 1
    /\ b.fetched = rates \cap (b.gap.first..(b.next - 1))
    /\ s = Nothing => b.gap = b.want /\ b.rest = Nothing
    /\ s # Nothing => Touches(b.gap, s) /\ (b.rest # Nothing => Touches(b.rest, s))
    /\ In(b.want) \subseteq In(s) \cup In(b.gap) \cup In(b.rest)

Final(b, day) == b.last < day /\ b.want.last <= b.last /\ b.gap.last < day /\ b.rest.last < day

\* What holds of a request's book, whatever the other requests do.
Sound(b, s, day, rates) ==
    /\ b.rows = rates \cap In(b.loaded)
    /\ Final(b, day) /\ (b.state # "closed" => 1 <= b.last)
    /\ b.state = "asking" => Fetching(b, s, rates)
    /\ b.state = "loading" => In(b.want) \subseteq In(s) /\ s # Nothing

FirstOnes == FirstAlone /\ span = Nothing =>
                 \A p, q \in Requests : book[p].state = "asking" /\ book[q].state = "asking" => p = q

RatesInv ==
    /\ TypeOK /\ SpanIsWhole /\ FirstOnes
    /\ span.last < today
    /\ \A p \in Requests : Sound(book[p], span, today, has)

-----------------------------------------------------------------------------
(* Ranges and books                                                        *)

LEMMA SpanFacts ==
    ASSUME NEW s \in Span
    PROVE  /\ s.first \in Nat /\ s.last \in Nat /\ 1 <= s.first /\ s.first <= LastDay + 1 /\ s.last <= LastDay
           /\ s # Nothing <=> s.first <= s.last
           /\ s = [first |-> s.first, last |-> s.last]
BY DEF Span, DayRange, Nothing

LEMMA MakesSpan ==
    ASSUME NEW first \in Nat, NEW last \in Nat, 1 <= first, first <= last, last <= LastDay
    PROVE  [first |-> first, last |-> last] \in Span /\ [first |-> first, last |-> last] # Nothing
BY DEF Span, DayRange, Nothing

LEMMA NothingIs == Nothing \in Span /\ Nothing.last = 0 /\ Nothing.first = 1 /\ In(Nothing) = {}
BY DEF Span, DayRange, Nothing, In

LEMMA ClosedIs ==
    /\ Closed \in Book /\ Closed.state = "closed" /\ Closed.rows = {} /\ Closed.loaded = Nothing
    /\ Closed.last = 0 /\ Closed.want = Nothing /\ Closed.gap = Nothing /\ Closed.rest = Nothing
BY NothingIs DEF Closed, Book

LEMMA ClosedIsSound ==
    ASSUME NEW s, NEW day \in Nat, NEW rates, 1 <= day
    PROVE  Sound(Closed, s, day, rates)
<1>1. Closed.rows = rates \cap In(Closed.loaded)
  BY ClosedIs, NothingIs
<1>2. Final(Closed, day)
  BY ClosedIs, NothingIs DEF Final
<1> QED
  BY <1>1, <1>2, ClosedIs DEF Sound

LEMMA AskingIs ==
    ASSUME NEW b \in Book, NEW gap \in Span, NEW rest \in Span
    PROVE  Asking(b, gap, rest) \in Book
<1>1. gap.first \in 1..(LastDay + 1)
  BY SpanFacts
<1> QED
  BY <1>1 DEF Asking, Book

LEMMA BookTypes ==
    ASSUME NEW b \in Book
    PROVE  /\ b.want \in Span /\ b.gap \in Span /\ b.rest \in Span /\ b.loaded \in Span
           /\ b.next \in Nat /\ 1 <= b.next /\ b.last \in Nat /\ b.last <= LastDay
           /\ b.fetched \subseteq Days /\ b.rows \subseteq Days
BY DEF Book

\* A span that grows leaves every book as sound as it was.
LEMMA SoundAsItGrows ==
    ASSUME NEW b \in Book, NEW s \in Span, NEW t \in Span, NEW day \in Nat, NEW rates, s # Nothing,
           t.first <= s.first, s.last <= t.last, Sound(b, s, day, rates)
    PROVE  Sound(b, t, day, rates)
<1>1. t # Nothing /\ In(s) \subseteq In(t)
  BY SpanFacts DEF In
<1>2. \A g \in Span : Touches(g, s) => Touches(g, t)
  BY SpanFacts DEF Touches
<1> QED
  BY <1>1, <1>2, BookTypes DEF Sound, Fetching

LEMMA SoundAnotherDay ==
    ASSUME NEW b \in Book, NEW s, NEW day \in Nat, NEW rates, Sound(b, s, day, rates)
    PROVE  Sound(b, s, day + 1, rates)
<1>1. \A k \in Nat : k < day => k < day + 1
  OBVIOUS
<1>2. b.last \in Nat /\ b.gap.last \in Nat /\ b.rest.last \in Nat
  BY BookTypes, SpanFacts
<1> QED
  BY <1>1, <1>2 DEF Sound, Final

-----------------------------------------------------------------------------
(* The invariant                                                           *)

LEMMA RatesStart == Init => RatesInv
<1> SUFFICES ASSUME Init PROVE RatesInv
  OBVIOUS
<1>1. TypeOK
  BY NothingIs, ClosedIs DEF Init, TypeOK, Days
<1>2. SpanIsWhole /\ FirstOnes /\ span.last < today
  BY NothingIs, ClosedIs DEF Init, SpanIsWhole, FirstOnes
<1>3. \A p \in Requests : Sound(book[p], span, today, has)
  <2> TAKE p \in Requests
  <2>1. book[p] = Closed /\ today = 1
    BY DEF Init
  <2> QED
    BY <2>1, ClosedIsSound
<1> QED
  BY <1>1, <1>2, <1>3 DEF RatesInv

\* A step that only changes one request's book, to one that is sound.
LEMMA OneBook ==
    ASSUME RatesInv, NEW p \in Requests, NEW b \in Book, book' = [book EXCEPT ![p] = b],
           UNCHANGED <<has, today, span, stored>>, Sound(b, span, today, has),
           b.state = "asking" => book[p].state = "asking"
                              \/ (FirstAlone /\ span = Nothing => \A q \in Requests : book[q].state # "asking")
    PROVE  RatesInv'
<1>1. TypeOK'
  BY DEF RatesInv, TypeOK
<1>2. SpanIsWhole' /\ (span.last < today)'
  BY DEF RatesInv, SpanIsWhole
<1>3. FirstOnes'
  BY DEF RatesInv, FirstOnes, TypeOK
<1>4. \A q \in Requests : Sound(book[q], span, today, has)'
  BY DEF RatesInv, TypeOK, Sound, Final, Fetching
<1> QED
  BY <1>1, <1>2, <1>3, <1>4 DEF RatesInv

LEMMA OpenInv ==
    ASSUME RatesInv, NEW p \in Requests, Open(p)
    PROVE  RatesInv'
<1> DEFINE b == [Closed EXCEPT !.state = "open", !.last = Yesterday(today)]
<1>1. today \in Nat /\ Yesterday(today) \in 0..LastDay /\ 1 <= Yesterday(today) /\ Yesterday(today) < today
  BY DEF RatesInv, TypeOK, Open, Yesterday, Days
<1>2. b \in Book /\ b.state = "open" /\ b.rows = {} /\ b.loaded = Nothing /\ b.last = Yesterday(today)
          /\ b.want = Nothing /\ b.gap = Nothing /\ b.rest = Nothing /\ 1 <= b.last
  BY <1>1, ClosedIs DEF Book
<1>3. book' = [book EXCEPT ![p] = b] /\ UNCHANGED <<has, today, span, stored>>
  BY DEF Open
<1> HIDE DEF b
<1>4. Sound(b, span, today, has)
  BY <1>1, <1>2, NothingIs DEF Sound, Final
<1> QED
  BY <1>2, <1>3, <1>4, OneBook

\* What Needing asks for is sound: the gaps touch the span and fill what is missing.
LEMMA NeedingIsSound ==
    ASSUME NEW b \in Book, NEW want \in Span, want # Nothing, b.want = want, span \in Span, NEW day \in Nat,
           want.last <= b.last, b.last < day, 1 <= b.last, span.last < day, b.rows = has \cap In(b.loaded), NEW new, new = Needing(b, want)
    PROVE  new \in Book /\ Sound(new, span, day, has)
<1> DEFINE earlier == Before(want)
           later == After(want)
<1>1. /\ want.first \in Nat /\ want.last \in Nat /\ 1 <= want.first /\ want.first <= want.last /\ want.last <= LastDay
      /\ span.first \in Nat /\ span.last \in Nat /\ 1 <= span.first /\ span.first <= LastDay + 1 /\ b.last \in Nat
  BY SpanFacts, BookTypes
<1>2. /\ earlier \in Span /\ earlier.last < day
      /\ want.first < span.first => earlier # Nothing /\ earlier.first = want.first /\ earlier.last = span.first - 1
      /\ want.first >= span.first => earlier = Nothing
  <2>1. CASE want.first < span.first
    <3>1. earlier = [first |-> want.first, last |-> span.first - 1]
      BY <2>1 DEF Before
    <3>2. earlier \in Span /\ earlier # Nothing
      BY <1>1, <2>1, <3>1, MakesSpan
    <3>3. span.first - 1 < day
      BY <1>1, <2>1, SpanFacts DEF Nothing
    <3> QED
      BY <1>1, <2>1, <3>1, <3>2, <3>3
  <2>2. CASE want.first >= span.first
    BY <1>1, <2>2, NothingIs DEF Before
  <2> QED
    BY <1>1, <2>1, <2>2
<1>3. /\ later \in Span /\ later.last < day
      /\ span.last < want.last => later # Nothing /\ later.first = span.last + 1 /\ later.last = want.last
      /\ want.last <= span.last => later = Nothing
  <2>1. CASE span.last < want.last
    <3>1. later = [first |-> span.last + 1, last |-> want.last]
      BY <1>1, <2>1 DEF After
    <3> QED
      BY <1>1, <2>1, <3>1, MakesSpan
  <2>2. CASE want.last <= span.last
    BY <1>1, <2>2, NothingIs DEF After
  <2> QED
    BY <1>1, <2>1, <2>2
<1> HIDE DEF earlier, later
<1>4. CASE span = Nothing
  <2>1. new = Asking(b, want, Nothing)
    BY <1>4 DEF Needing
  <2>2. new \in Book /\ new.state = "asking" /\ new.gap = want /\ new.rest = Nothing /\ new.next = want.first
        /\ new.fetched = {} /\ new.want = want /\ new.last = b.last /\ new.loaded = b.loaded /\ new.rows = b.rows
    <3>1. new \in Book
      BY <2>1, AskingIs, NothingIs
    <3> QED
      BY <2>1, <3>1 DEF Asking, Book
  <2>3. Fetching(new, span, has)
    BY <1>1, <1>4, <2>2 DEF Fetching
  <2>4. Final(new, day)
    BY <1>1, <2>2, NothingIs DEF Final
  <2> QED
    BY <2>2, <2>3, <2>4 DEF Sound
<1>5. CASE span # Nothing /\ earlier = Nothing
  <2>1. new = Asking(b, later, Nothing)
    BY <1>5 DEF Needing, earlier, later
  <2>2. new \in Book /\ new.gap = later /\ new.rest = Nothing /\ new.next = later.first
        /\ new.fetched = {} /\ new.want = want /\ new.last = b.last /\ new.loaded = b.loaded /\ new.rows = b.rows
        /\ new.state = IF later = Nothing THEN "loading" ELSE "asking"
    <3>1. new \in Book
      BY <2>1, <1>3, AskingIs, NothingIs
    <3> QED
      BY <2>1, <1>3, <3>1 DEF Asking, Book
  <2>3. span.first <= span.last
    BY <1>5, SpanFacts
  <2>4. ASSUME new.state = "asking" PROVE Fetching(new, span, has)
    BY <1>1, <1>2, <1>3, <1>5, <2>2, <2>3, <2>4, NothingIs DEF Fetching, Touches, In
  <2>5. ASSUME new.state = "loading" PROVE In(new.want) \subseteq In(span)
    BY <1>1, <1>2, <1>3, <1>5, <2>2, <2>5 DEF In
  <2>6. Final(new, day)
    BY <1>1, <1>3, <2>2, NothingIs DEF Final
  <2> QED
    BY <1>5, <2>2, <2>4, <2>5, <2>6 DEF Sound
<1>6. CASE span # Nothing /\ earlier # Nothing
  <2>1. new = Asking(b, earlier, later)
    BY <1>6 DEF Needing, earlier, later
  <2>2. new \in Book /\ new.gap = earlier /\ new.rest = later /\ new.next = earlier.first
        /\ new.fetched = {} /\ new.want = want /\ new.last = b.last /\ new.loaded = b.loaded /\ new.rows = b.rows
        /\ new.state = "asking"
    <3>1. new \in Book
      BY <2>1, <1>2, <1>3, <1>6, AskingIs
    <3> QED
      BY <2>1, <1>2, <1>3, <1>6, <3>1 DEF Asking, Book
  <2>3. span.first <= span.last
    BY <1>6, SpanFacts
  <2>4. Fetching(new, span, has)
    BY <1>1, <1>2, <1>3, <1>6, <2>2, <2>3, NothingIs DEF Fetching, Touches, In
  <2>5. Final(new, day)
    BY <1>1, <1>2, <1>3, <2>2 DEF Final
  <2> QED
    BY <2>2, <2>4, <2>5 DEF Sound
<1> QED
  BY <1>4, <1>5, <1>6

LEMMA PrepareInv ==
    ASSUME RatesInv, NEW p \in Requests, NEW first \in Days, NEW last \in Days, Prepare(p, first, last)
    PROVE  RatesInv'
<1> DEFINE want == [first |-> Smaller(first, book[p].last), last |-> Smaller(last, book[p].last)]
           b == [book[p] EXCEPT !.want = want]
           new == Needing(b, want)
<1>1. book[p] \in Book /\ span \in Span /\ today \in Nat /\ Sound(book[p], span, today, has) /\ span.last < today
  BY DEF RatesInv, TypeOK, Days
<1>2. book[p].last \in Nat /\ book[p].last <= LastDay /\ 1 <= book[p].last /\ book[p].last < today
      /\ book[p].rows = has \cap In(book[p].loaded)
  BY <1>1, BookTypes DEF Prepare, Sound, Final
<1>3. want \in Span /\ want # Nothing /\ want.last <= book[p].last
  <2>1. /\ want.first \in Nat /\ want.last \in Nat /\ 1 <= want.first /\ want.first <= want.last
        /\ want.last <= book[p].last /\ want.last <= LastDay
    BY <1>2 DEF Smaller, Days, Prepare
  <2> QED
    BY <2>1, MakesSpan
<1>4. b \in Book /\ b.want = want /\ b.last = book[p].last /\ b.rows = book[p].rows /\ b.loaded = book[p].loaded
  BY <1>1, <1>3 DEF Book
<1>5. book' = [book EXCEPT ![p] = new] /\ UNCHANGED <<has, today, span, stored>>
  BY DEF Prepare
<1>6. FirstAlone /\ span = Nothing => \A q \in Requests : book[q].state # "asking"
  BY DEF Prepare
<1> HIDE DEF want, b
<1>7. new \in Book /\ Sound(new, span, today, has)
  BY <1>1, <1>2, <1>3, <1>4, NeedingIsSound
<1> HIDE DEF new
<1> QED
  BY <1>5, <1>6, <1>7, OneBook

LEMMA RatesAsked ==
    ASSUME RatesInv, NEW p \in Requests, Ask(p)
    PROVE  RatesInv'
<1> DEFINE b == book[p]
           end == ChunkEnd(b)
           new == Told(b)
<1>1. b \in Book /\ span \in Span /\ has \subseteq Days /\ Sound(b, span, today, has) /\ b.state = "asking"
  BY DEF RatesInv, TypeOK, Ask
<1>2. /\ b.gap \in Span /\ b.gap.first \in Nat /\ b.gap.last \in Nat /\ b.gap.last <= LastDay /\ b.next \in Nat
      /\ 1 <= b.next /\ b.fetched \subseteq Days
  BY <1>1, BookTypes, SpanFacts
<1>3. end \in Nat /\ b.next <= end /\ end <= b.gap.last /\ b.gap.first <= b.next
  BY <1>1, <1>2 DEF ChunkEnd, Smaller, Ask, Sound, Fetching
<1> HIDE DEF end
<1>4. new = [b EXCEPT !.fetched = b.fetched \cup (has \cap (b.next..end)), !.next = end + 1]
  BY DEF Told, end
<1>5. b.fetched \cup (has \cap (b.next..end)) = has \cap (b.gap.first..end)
  BY <1>1, <1>2, <1>3 DEF Sound, Fetching
<1>6. new \in Book
  <2>1. b.fetched \cup (has \cap (b.next..end)) \subseteq Days
    BY <1>1, <1>2
  <2>2. end + 1 \in 1..(LastDay + 1)
    BY <1>2, <1>3
  <2> QED
    BY <1>1, <1>4, <2>1, <2>2 DEF Book
<1>7. /\ new.fetched = has \cap (b.gap.first..((end + 1) - 1)) /\ new.next = end + 1 /\ new.gap = b.gap /\ new.rest = b.rest
      /\ new.want = b.want /\ new.last = b.last /\ new.loaded = b.loaded /\ new.rows = b.rows /\ new.state = "asking"
  BY <1>1, <1>3, <1>4, <1>5 DEF Book
<1>8. book' = [book EXCEPT ![p] = new] /\ UNCHANGED <<has, today, span, stored>>
  BY DEF Ask
<1> HIDE DEF new
<1>9. Fetching(new, span, has)
  BY <1>1, <1>2, <1>3, <1>7 DEF Sound, Fetching
<1>10. Sound(new, span, today, has)
  BY <1>1, <1>7, <1>9 DEF Sound, Final
<1> QED
  BY <1>1, <1>6, <1>8, <1>10, OneBook

LEMMA FailInv ==
    ASSUME RatesInv, NEW p \in Requests, Fail(p)
    PROVE  RatesInv'
<1> DEFINE b == book[p]
           new == [Asking(b, Nothing, Nothing) EXCEPT !.state = "open", !.unavailable = TRUE]
<1>1. b \in Book /\ today \in Nat /\ Sound(b, span, today, has) /\ b.state = "asking"
  BY DEF RatesInv, TypeOK, Fail, Days
<1>2. Asking(b, Nothing, Nothing) \in Book
  BY <1>1, AskingIs, NothingIs
<1>3. new \in Book
  BY <1>2 DEF Book
<1>4. /\ new.gap = Nothing /\ new.rest = Nothing /\ new.want = b.want /\ new.last = b.last /\ new.loaded = b.loaded
      /\ new.rows = b.rows /\ new.state = "open"
  BY <1>1 DEF Asking, Book
<1>5. book' = [book EXCEPT ![p] = new] /\ UNCHANGED <<has, today, span, stored>>
  BY DEF Fail
<1>6. b.last \in Nat
  BY <1>1, BookTypes
<1> HIDE DEF new
<1>7. Sound(new, span, today, has)
  BY <1>1, <1>4, <1>6, NothingIs DEF Sound, Final
<1> QED
  BY <1>3, <1>4, <1>5, <1>7, OneBook

LEMMA LoadInv ==
    ASSUME RatesInv, NEW p \in Requests, Load(p)
    PROVE  RatesInv'
<1> DEFINE b == book[p]
           new == [b EXCEPT !.state = "open", !.loaded = b.want, !.rows = stored \cap In(b.want)]
<1>1. b \in Book /\ Sound(b, span, today, has) /\ b.state = "loading" /\ stored \subseteq Days
      /\ stored = has \cap In(span)
  BY DEF RatesInv, TypeOK, Load, SpanIsWhole
<1>2. stored \cap In(b.want) = has \cap In(b.want)
  BY <1>1 DEF Sound
<1>3. new \in Book
  BY <1>1 DEF Book
<1>4. /\ new.gap = b.gap /\ new.rest = b.rest /\ new.want = b.want /\ new.last = b.last /\ new.loaded = b.want
      /\ new.rows = has \cap In(b.want) /\ new.state = "open"
  BY <1>1, <1>2 DEF Book
<1>5. book' = [book EXCEPT ![p] = new] /\ UNCHANGED <<has, today, span, stored>>
  BY DEF Load
<1> HIDE DEF new
<1>6. Sound(new, span, today, has)
  BY <1>1, <1>4 DEF Sound, Final
<1> QED
  BY <1>3, <1>4, <1>5, <1>6, OneBook

LEMMA CloseInv ==
    ASSUME RatesInv, NEW p \in Requests, Close(p)
    PROVE  RatesInv'
<1>1. today \in Nat /\ 1 <= today
  BY DEF RatesInv, TypeOK, Days
<1>2. book' = [book EXCEPT ![p] = Closed] /\ UNCHANGED <<has, today, span, stored>>
  BY DEF Close
<1> QED
  BY <1>1, <1>2, ClosedIs, ClosedIsSound, OneBook

LEMMA NewDayInv == RatesInv /\ NewDay => RatesInv'
<1> SUFFICES ASSUME RatesInv, NewDay PROVE RatesInv'
  OBVIOUS
<1>1. today \in Nat /\ today' = today + 1 /\ span \in Span /\ UNCHANGED <<has, span, stored, book>>
  BY DEF RatesInv, TypeOK, NewDay, Days
<1>2. TypeOK'
  BY <1>1 DEF RatesInv, TypeOK, NewDay, Days
<1>3. SpanIsWhole' /\ FirstOnes'
  BY <1>1 DEF RatesInv, SpanIsWhole, FirstOnes
<1>4. (span.last < today)'
  BY <1>1, SpanFacts DEF RatesInv
<1>5. ASSUME NEW p \in Requests PROVE Sound(book[p], span, today, has)'
  BY <1>1, SoundAnotherDay DEF RatesInv, TypeOK
<1> QED
  BY <1>2, <1>3, <1>4, <1>5 DEF RatesInv

LEMMA StoreInv ==
    ASSUME RatesInv, FirstAlone, NEW p \in Requests, Store(p)
    PROVE  RatesInv'
<1> DEFINE b == book[p]
           new == Asking(b, b.rest, Nothing)
           grown == Spread(span, b.gap)
<1>1. /\ b \in Book /\ span \in Span /\ today \in Nat /\ has \subseteq Days /\ stored = has \cap In(span)
      /\ span.last < today /\ Sound(b, span, today, has) /\ b.state = "asking" /\ b.next > b.gap.last
  BY DEF RatesInv, TypeOK, SpanIsWhole, Store, Days
<1>2. /\ b.gap \in Span /\ b.rest \in Span /\ b.gap.first \in Nat /\ b.gap.last \in Nat /\ b.gap.last <= LastDay
      /\ 1 <= b.gap.first /\ b.gap.first <= b.gap.last /\ b.next = b.gap.last + 1
      /\ span.first \in Nat /\ span.last \in Nat /\ span.last <= LastDay /\ 1 <= span.first
  BY <1>1, BookTypes, SpanFacts DEF Sound, Fetching
<1>3. b.fetched = has \cap In(b.gap)
  BY <1>1, <1>2 DEF Sound, Fetching, In
<1>4. /\ grown \in Span /\ grown # Nothing /\ grown.last < today
      /\ grown.first <= b.gap.first /\ b.gap.last <= grown.last
      /\ span # Nothing => grown.first <= span.first /\ span.last <= grown.last
      /\ In(grown) = In(span) \cup In(b.gap)
  <2>1. CASE span = Nothing
    BY <1>1, <1>2, <2>1, SpanFacts, NothingIs DEF Spread, Sound, Final
  <2>2. CASE span # Nothing
    <3>1. span.first <= span.last /\ b.gap.first <= span.last + 1 /\ span.first <= b.gap.last + 1 /\ b.gap.last < today
      BY <1>1, <2>2, SpanFacts DEF Sound, Fetching, Final, Touches
    <3>2. grown = [first |-> Smaller(span.first, b.gap.first), last |-> Larger(span.last, b.gap.last)]
      BY <2>2 DEF Spread
    <3>3. /\ grown.first \in Nat /\ grown.last \in Nat /\ grown.first <= span.first /\ grown.first <= b.gap.first
          /\ grown.first \in {span.first, b.gap.first} /\ grown.last \in {span.last, b.gap.last}
          /\ span.last <= grown.last /\ b.gap.last <= grown.last
      BY <1>2, <3>2 DEF Smaller, Larger
    <3>4. grown \in Span /\ grown # Nothing
      <4>1. 1 <= grown.first /\ grown.first <= grown.last /\ grown.last <= LastDay
        BY <1>2, <3>1, <3>3
      <4>2. grown = [first |-> grown.first, last |-> grown.last]
        BY <3>2
      <4> QED
        BY <3>3, <4>1, <4>2, MakesSpan
    <3>5. grown.last < today
      BY <1>1, <3>1, <3>3
    <3> HIDE DEF grown
    <3>6. In(grown) = In(span) \cup In(b.gap)
      BY <1>2, <3>1, <3>3 DEF In
    <3> QED
      BY <3>3, <3>4, <3>5, <3>6
  <2> QED
    BY <2>1, <2>2
<1>5. new \in Book
  BY <1>1, <1>2, AskingIs, NothingIs
<1>6. /\ new.state = (IF b.rest = Nothing THEN "loading" ELSE "asking")
      /\ new.gap = b.rest /\ new.rest = Nothing /\ new.next = b.rest.first /\ new.fetched = {}
      /\ new.want = b.want /\ new.last = b.last /\ new.loaded = b.loaded /\ new.rows = b.rows
  BY <1>1 DEF Asking, Book
<1>7. /\ book' = [book EXCEPT ![p] = new] /\ span' = grown /\ stored' = stored \cup b.fetched
      /\ UNCHANGED <<has, today>>
  BY DEF Store
<1> HIDE DEF new, grown
<1>8. Sound(new, grown, today, has)
  <2>1. Final(new, today)
    <3>1. 0 < today
      BY <1>1, BookTypes DEF Sound, Final
    <3> QED
      BY <1>1, <1>6, <3>1, NothingIs DEF Sound, Final
  <2>2. ASSUME new.state = "asking" PROVE Fetching(new, grown, has)
    <3>1. b.rest # Nothing /\ span # Nothing /\ Touches(b.rest, span)
      BY <1>1, <1>6, <2>2 DEF Sound, Fetching
    <3>2. /\ b.rest.first \in Nat /\ b.rest.last \in Nat /\ b.rest.first <= b.rest.last
          /\ grown.first \in Nat /\ grown.last \in Nat
      BY <1>2, <1>4, <3>1, SpanFacts
    <3>3. Touches(b.rest, grown)
      BY <1>2, <1>4, <3>1, <3>2 DEF Touches
    <3>4. In(new.want) \subseteq In(grown) \cup In(new.gap)
      BY <1>1, <1>4, <1>6 DEF Sound, Fetching
    <3>5. new.fetched = has \cap (new.gap.first..(new.next - 1))
      BY <1>6, <3>2
    <3> QED
      BY <1>4, <1>6, <3>1, <3>2, <3>3, <3>4, <3>5 DEF Fetching
  <2>3. ASSUME new.state = "loading" PROVE In(new.want) \subseteq In(grown)
    BY <1>1, <1>4, <1>6, <2>3, NothingIs DEF Sound, Fetching
  <2> QED
    BY <1>1, <1>4, <1>6, <2>1, <2>2, <2>3 DEF Sound
<1>9. ASSUME NEW q \in Requests, q # p PROVE Sound(book[q], grown, today, has)
  <2>1. book[q] \in Book /\ Sound(book[q], span, today, has)
    BY DEF RatesInv, TypeOK
  <2>2. CASE span # Nothing
    BY <1>1, <1>4, <2>1, <2>2, SoundAsItGrows
  <2>3. CASE span = Nothing
    <3>1. book[q].state # "asking" /\ book[q].state # "loading"
      BY <1>1, <1>9, <2>1, <2>3 DEF RatesInv, FirstOnes, Sound
    <3> QED
      BY <2>1, <3>1 DEF Sound
  <2> QED
    BY <2>2, <2>3
<1>10. TypeOK'
  BY <1>1, <1>3, <1>4, <1>5, <1>7 DEF RatesInv, TypeOK, In, Days
<1>11. SpanIsWhole'
  BY <1>1, <1>3, <1>4, <1>7 DEF SpanIsWhole
<1>12. FirstOnes' /\ (span.last < today)'
  BY <1>4, <1>7 DEF FirstOnes
<1>13. ASSUME NEW q \in Requests PROVE Sound(book'[q], span', today', has')
  BY <1>7, <1>8, <1>9 DEF RatesInv, TypeOK
<1> QED
  BY <1>10, <1>11, <1>12, <1>13 DEF RatesInv

-----------------------------------------------------------------------------
(* Theorems                                                                *)

LEMMA RatesStay ==
    ASSUME FirstAlone
    PROVE  RatesInv /\ [Next]_vars => RatesInv'
<1> SUFFICES ASSUME RatesInv, [Next]_vars PROVE RatesInv'
  OBVIOUS
<1>1. CASE Next
  BY <1>1, OpenInv, RatesAsked, FailInv, StoreInv, LoadInv, CloseInv, PrepareInv, NewDayInv DEF Next
<1>2. CASE UNCHANGED vars
  BY <1>2 DEF vars, RatesInv, TypeOK, SpanIsWhole, FirstOnes
<1> QED
  BY <1>1, <1>2

\* Every row, and what a request holds, has its type.
THEOREM TypeCorrect == ASSUME FirstAlone PROVE Spec => []TypeOK
<1>1. RatesInv => TypeOK
  BY DEF RatesInv
<1> QED
  BY <1>1, RatesStart, RatesStay, PTL DEF Spec

\* models/exchange_rate.py: the span's days have all been fetched.  When no two requests fetch
\* a currency's first rates at once, none of its days is missing that the source has.
THEOREM SpansAreWhole == ASSUME FirstAlone PROVE Spec => []SpanIsWhole
<1>1. RatesInv => SpanIsWhole
  BY DEF RatesInv
<1> QED
  BY <1>1, RatesStart, RatesStay, PTL DEF Spec

\* Each day a request prepared is converted at the latest rate that the source has by then.
THEOREM RatesAreRight == ASSUME FirstAlone PROVE Spec => []RightRate
<1>1. RatesInv => RightRate
  BY DEF RatesInv, Sound, RightRate
<1> QED
  BY <1>1, RatesStart, RatesStay, PTL DEF Spec

\* models/exchange_rate.py: "Only days that are over are kept".
THEOREM KeptDaysAreOver == ASSUME FirstAlone PROVE Spec => []OnlyFinalDays
<1>1. RatesInv => OnlyFinalDays
  BY SpanFacts DEF RatesInv, TypeOK, SpanIsWhole, OnlyFinalDays, In, Days
<1> QED
  BY <1>1, RatesStart, RatesStay, PTL DEF Spec

-----------------------------------------------------------------------------
(* All of them                                                               *)

(* Whatever rates are fetched, subscriptions, budgets and payments change,   *)
(* files are imported and the AI proposes: every variable keeps its type,    *)
(* each link, period and account is one there is, and no payment or          *)
(* subscription has a category that isn't in the books.                      *)
THEOREM PlanningIsTyped ==
    ASSUME FirstAlone, Rec!Bounds, Bud!Bounds, Bud!InReach, Imp!Bounds, Asst!Bounds
    PROVE  Spec /\ Rec!Spec /\ Bud!Spec /\ Imp!Spec /\ Asst!Spec => []TypesOK
<1>1. /\ Spec => []TypeOK
      /\ Rec!Spec => []Rec!TypeOK
      /\ Bud!Spec => []Bud!TypeOK
      /\ Imp!Spec => []Imp!TypeOK
      /\ Asst!Spec => []Asst!TypeOK
    BY TypeCorrect, RecurringTypes, BudgetTypes, FileTypes, AskTypes
<1>2. TypeOK /\ Rec!TypeOK /\ Bud!TypeOK /\ Imp!TypeOK /\ Asst!TypeOK => TypesOK
    BY DEF TypesOK
<1> QED
    BY <1>1, <1>2, PTL
=============================================================================
