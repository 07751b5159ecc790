------------------------------- MODULE Periods -------------------------------
(* The periods a budget repeats in (backend/app/finance/periods.py), counted *)
(* in both directions from a day one of them starts on, its anchor.          *)
EXTENDS Calendar

Span == [weekly |-> [days |-> 7, months |-> 0], biweekly |-> [days |-> 14, months |-> 0],
         monthly |-> [days |-> 0, months |-> 1], yearly |-> [days |-> 0, months |-> 12]]

\* The first day of the period a day is in.
PeriodStart(p, anchor, day) ==
    IF Span[p].days > 0 THEN anchor + ((day - anchor) \div Span[p].days) * Span[p].days
    ELSE LET step == Span[p].months
             index == ((MonthOf(day) - MonthOf(anchor)) \div step) * step
             start == AddMonths(anchor, index)
         IN IF start <= day THEN start ELSE AddMonths(anchor, index - step)

NextStart(p, anchor, start) ==
    IF Span[p].days > 0 THEN start + Span[p].days
    ELSE LET step == Span[p].months
         IN AddMonths(anchor, ((MonthOf(start) - MonthOf(anchor)) \div step + 1) * step)

PreviousStart(p, anchor, start) == PeriodStart(p, anchor, start - 1)
PeriodEnd(p, anchor, start) == NextStart(p, anchor, start) - 1

\* The first days of so many periods that end with the one of start, the earliest first.
StartsBack(p, anchor, start, count) ==
    LET back[n \in 0..count - 1] == IF n = 0 THEN start ELSE PreviousStart(p, anchor, back[n - 1])
    IN [n \in 1..count |-> back[count - n]]

\* Where periods start unless a budget says otherwise: weeks on the household's
\* first day of the week, months on the 1st, years in the budget year's first
\* month.  Day 1 is a Monday, and weekdays count from 0.
DefaultStart(p, today, weekStartsOn, firstMonth) ==
    LET m == MonthOf(today)
        ofYear == ((m - 1) % 12) + 1
    IN IF Span[p].days > 0 THEN today - ((((today - 1) % 7) - weekStartsOn) % 7)
       ELSE IF p = "monthly" THEN Firsts[m]
       ELSE Firsts[IF ofYear >= firstMonth THEN m - ofYear + firstMonth ELSE m - 12 - ofYear + firstMonth]

(* Periods follow one another without gaps, so every day is in exactly one   *)
(* of them: a day's period starts on or before it and ends on or after it,   *)
(* is that of its own first and last day, and is the one before the period   *)
(* that starts the day after it ends (finance/periods.py:4-9).               *)
DayInOnePeriod(p, anchor, day) ==
    LET start == PeriodStart(p, anchor, day)
        end == PeriodEnd(p, anchor, start)
    IN /\ start <= day /\ day <= end
       /\ PeriodStart(p, anchor, end) = start
       /\ PeriodStart(p, anchor, end + 1) = end + 1
       /\ PreviousStart(p, anchor, end + 1) = start
       /\ StartsBack(p, anchor, end + 1, 2) = <<start, end + 1>>
==============================================================================
