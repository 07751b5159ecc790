--------------------------- MODULE ExchangeRates ---------------------------
(***************************************************************************)
(* How requests fetch and share the exchange rates of one currency: what   *)
(* the database lacks of the days a request converts is asked of the rate  *)
(* server, a year at a time, and kept with the span of days that were      *)
(* asked for, so nobody asks for them again.                               *)
(*                                                                         *)
(* Source: backend/app/finance/exchange_rates.py and dashboard.py,         *)
(* models/exchange_rate.py.                                                *)
(*                                                                         *)
(* A rate is the day it is of.  Other currencies have rows of their own; a *)
(* server that can't be reached is not asked about those either.           *)
(***************************************************************************)
EXTENDS Naturals

CONSTANTS
    Requests,   \* the threads that serve requests
    LastDay,    \* bound: the days there are, from 1
    ChunkDays,  \* the most days asked for at once
    FirstAlone  \* no two requests fetch a currency's first rates at once

ASSUME DaysAssumption == LastDay \in Nat \ {0}
ASSUME ChunkAssumption == ChunkDays \in Nat \ {0}
ASSUME FirstAloneAssumption == FirstAlone \in BOOLEAN

VARIABLES
    has,        \* the days that the rate server has rates for
    today,
    span,       \* the exchange_rate_spans row: the days asked for
    stored,     \* the days of the exchange_rates rows
    book        \* each request's RateBook, and how far it has got

vars == <<has, today, span, stored, book>>

Days == 1..LastDay

-----------------------------------------------------------------------------
(* Ranges of days and a request's book                                     *)

DayRange == [first : 1..(LastDay + 1), last : 0..LastDay]
In(range) == range.first..range.last
Nothing == [first |-> 1, last |-> 0]
Span == {range \in DayRange : range = Nothing \/ range.first <= range.last}

Book == [state : {"closed", "open", "asking", "loading"}, last : 0..LastDay,
         want : Span, gap : Span, rest : Span, next : 1..(LastDay + 1), fetched : SUBSET Days,
         loaded : Span, rows : SUBSET Days, unavailable : BOOLEAN]

Closed == [state |-> "closed", last |-> 0, want |-> Nothing, gap |-> Nothing, rest |-> Nothing, next |-> 1,
           fetched |-> {}, loaded |-> Nothing, rows |-> {}, unavailable |-> FALSE]

Smaller(a, b) == IF a <= b THEN a ELSE b
Larger(a, b) == IF a <= b THEN b ELSE a

TypeOK ==
    /\ has \subseteq Days /\ today \in Days
    /\ span \in Span /\ stored \subseteq Days
    /\ book \in [Requests -> Book]

Init ==
    /\ has \in SUBSET Days
    /\ today = 1
    /\ span = Nothing /\ stored = {}
    /\ book = [p \in Requests |-> Closed]

-----------------------------------------------------------------------------
(* A request                                                               *)

Yesterday(day) == day - 1

Open(p) ==
    /\ book[p].state = "closed" /\ today > 1
    /\ book' = [book EXCEPT ![p] = [Closed EXCEPT !.state = "open", !.last = Yesterday(today)]]
    /\ UNCHANGED <<has, today, span, stored>>

\* A slip: without looking whether there are any.
BeforeAlways(want) == [first |-> want.first, last |-> span.first - 1]

Before(want) ==
    IF want.first < span.first THEN [first |-> want.first, last |-> span.first - 1] ELSE Nothing

\* A slip: later days are asked for only when no earlier ones are.
AfterIfNotBefore(want) ==
    IF want.last > span.last /\ Before(want) = Nothing THEN [first |-> span.last + 1, last |-> want.last] ELSE Nothing

After(want) ==
    IF want.last > span.last THEN [first |-> span.last + 1, last |-> want.last] ELSE Nothing

Asking(b, gap, rest) ==
    [b EXCEPT !.state = IF gap = Nothing THEN "loading" ELSE "asking",
              !.gap = gap, !.rest = rest, !.next = gap.first, !.fetched = {}]

\* What is asked for the days wanted: all of them when there is no span yet, else
\* those before it, and after that those after it.
Needing(b, want) ==
    LET earlier == Before(want)
        later == After(want)
    IN  IF span = Nothing THEN Asking(b, want, Nothing)
        ELSE IF earlier = Nothing THEN Asking(b, later, Nothing)
        ELSE Asking(b, earlier, later)

Covers(outer, inner) == outer.first <= inner.first /\ inner.last <= outer.last

\* Days up to its last one, which a request that asks again only widens, unless they
\* couldn't be fetched or are there already.
Prepare(p, first, last) ==
    LET b == book[p]
        want == [first |-> Smaller(first, b.last), last |-> Smaller(last, b.last)]
    IN  /\ b.state = "open" /\ ~b.unavailable /\ first <= last
        /\ b.loaded # Nothing => Covers(want, b.loaded) /\ want # b.loaded
        /\ FirstAlone /\ span = Nothing => \A q \in Requests : book[q].state # "asking"
        /\ book' = [book EXCEPT ![p] = Needing([b EXCEPT !.want = want], want)]
        /\ UNCHANGED <<has, today, span, stored>>

ChunkEnd(b) == Smaller(b.gap.last, b.next + ChunkDays - 1)

Told(b) == [b EXCEPT !.fetched = b.fetched \cup (has \cap (b.next..ChunkEnd(b))), !.next = ChunkEnd(b) + 1]

\* The server answers with the rates it has for the next days.
Ask(p) ==
    /\ book[p].state = "asking" /\ book[p].next <= book[p].gap.last
    /\ book' = [book EXCEPT ![p] = Told(book[p])]
    /\ UNCHANGED <<has, today, span, stored>>

\* It doesn't, or there is none: what was fetched of this gap is forgotten.
Fail(p) ==
    /\ book[p].state = "asking" /\ book[p].next <= book[p].gap.last
    /\ book' = [book EXCEPT ![p] = [Asking(book[p], Nothing, Nothing) EXCEPT !.state = "open", !.unavailable = TRUE]]
    /\ UNCHANGED <<has, today, span, stored>>

\* A slip: the last to fetch says which days there are.
SpreadOver(range, gap) == gap

\* The upsert's least and greatest.
Spread(range, gap) ==
    IF range = Nothing THEN gap
    ELSE [first |-> Smaller(range.first, gap.first), last |-> Larger(range.last, gap.last)]

\* The commit that ends a fetch, and what is left to fetch.
Store(p) ==
    /\ book[p].state = "asking" /\ book[p].next > book[p].gap.last
    /\ stored' = stored \cup book[p].fetched
    /\ span' = Spread(span, book[p].gap)
    /\ book' = [book EXCEPT ![p] = Asking(book[p], book[p].rest, Nothing)]
    /\ UNCHANGED <<has, today>>

\* The rates of the days wanted, read from the database.
Load(p) ==
    /\ book[p].state = "loading"
    /\ book' = [book EXCEPT ![p] = [book[p] EXCEPT !.state = "open", !.loaded = book[p].want,
                                                   !.rows = stored \cap In(book[p].want)]]
    /\ UNCHANGED <<has, today, span, stored>>

\* The request ends, or dies wherever it is.
Close(p) ==
    /\ book[p].state # "closed"
    /\ book' = [book EXCEPT ![p] = Closed]
    /\ UNCHANGED <<has, today, span, stored>>

NewDay ==
    /\ today < LastDay /\ today' = today + 1
    /\ UNCHANGED <<has, span, stored, book>>

Next ==
    \/ \E p \in Requests : Open(p) \/ Ask(p) \/ Fail(p) \/ Store(p) \/ Load(p) \/ Close(p)
    \/ \E p \in Requests, first, last \in Days : Prepare(p, first, last)
    \/ NewDay

Spec == Init /\ [][Next]_vars

-----------------------------------------------------------------------------
(* Properties                                                              *)

\* The day whose rate RateBook.convert uses of these, or 0 when there is none.
RateDay(rows, day) ==
    IF \E r \in rows : r <= day
    THEN CHOOSE r \in rows : r <= day /\ \A s \in rows : s <= day => s <= r
    ELSE 0

\* models/exchange_rate.py: the days of the span have been fetched, "which is every
\* day from the first to the last.  A day in it without a rate is one the rate source
\* has none for, so it isn't asked for again."
SpanIsWhole == stored = has \cap In(span)

\* A request converts each day it prepared at that day's own rate, or when the source
\* has none, at the one before it, and never at an older one that happened to be kept.
RightRate ==
    \A p \in Requests : LET b == book[p] IN
        \A day \in In(b.loaded) : RateDay(b.rows, day) = RateDay(has \cap In(b.loaded), day)

\* "Only days that are over are kept, so a rate never changes once it's stored."
OnlyFinalDays == \A day \in stored : day < today
=============================================================================
