------------------------------ MODULE Calendar ------------------------------
(* Days and months as the backend counts them (finance/subscriptions.py and *)
(* finance/periods.py).  A day is a number; Firsts are the first days of    *)
(* the months, in order, and of the one after the last.                     *)
EXTENDS Integers, Sequences

CONSTANT Firsts

Months == 1..Len(Firsts) - 1
Beyond == Firsts[Len(Firsts)]
\* Months have from 28 to 31 days.
Ordered == /\ Firsts \in Seq(Int) /\ Len(Firsts) > 1
           /\ \A m \in Months : Firsts[m + 1] - Firsts[m] \in 28..31
AllDays == Firsts[1]..Beyond - 1
Length(m) == Firsts[m + 1] - Firsts[m]
Lesser(a, b) == IF a < b THEN a ELSE b
Greater(a, b) == IF a < b THEN b ELSE a

MonthOf(d) == CHOOSE m \in Months : Firsts[m] <= d /\ d < Firsts[m + 1]

\* The same day of the month k months later, or that month's last day when it
\* is shorter.  A day the calendar no longer has comes out as the day after it.
AddMonths(d, k) ==
    LET from == MonthOf(d) IN
    IF from + k \notin Months THEN Beyond
    ELSE Firsts[from + k] + Lesser(d - Firsts[from], Length(from + k) - 1)
=============================================================================
