------------------------------- MODULE Budgets -------------------------------
(* Budgets: what counts toward them, what each of their periods has, and    *)
(* what a period came to (backend/app/finance/budget.py, api/budget.py,     *)
(* models/budget.py).  Each request changes one budget and commits once, so *)
(* each is one action; what a page shows is worked out from the tables.     *)
EXTENDS Periods, FiniteSetsExt

CONSTANTS
    Budgets, Txns,
    Facts,              \* what each transaction is, see Fact
    Autos, Subs, Accounts, Cats,
    PeriodsInUse, Anchors, Days, Amounts,
    Ids,                \* links have random ids, which order those that tie
    MaxSteps,
    None

VARIABLES
    budget, link, off,
    paused,             \* automations that sort nothing for now
    gone,               \* what a link may name that was deleted
    today,              \* where the people are
    said,               \* per budget: the amount last asked for, and the first day it is for
    steps

vars == <<budget, link, off, paused, gone, today, said, steps>>

Kinds == {"income", "spending"}
\* In the order they are tried, which is why a transaction counts once.
Priority == [transaction |-> 1, automation |-> 2, subscription |-> 3, category |-> 4, account |-> 5]
Sources == ({"automation"} \X Autos) \cup ({"subscription"} \X Subs) \cup ({"category"} \X Cats)
               \cup ({"account"} \X Accounts)
Things == Sources \cup ({"transaction"} \X Txns)

\* value is in the household's currency, None where there is no rate; later are
\* the automations made before it arrived.
Fact == [day : AllDays, amount : Int, value : Int \cup {None}, transfer : BOOLEAN, account : Accounts,
         cat : Cats \cup {None}, sub : Subs \cup {None}, autos : SUBSET Autos, later : SUBSET Autos]
Link == [id : Ids, thing : Things, kind : Kinds]
Amount == [on : AllDays, amount : Amounts]
Budget == [state : {"none", "here"}, period : DOMAIN Span, anchor : AllDays, amounts : SUBSET Amount]

Bounds ==
    /\ Ordered /\ Facts \in [Txns -> Fact] /\ Days \cup Anchors \subseteq AllDays
    /\ PeriodsInUse \subseteq DOMAIN Span /\ Ids \subseteq Nat /\ MaxSteps \in Nat
    /\ PeriodsInUse # {} /\ Days # {} /\ Anchors # {} /\ None \notin Link /\ IsFiniteSet(Txns)
\* The calendar has the days around those that people see their budgets on.
Around(p, day) ==
    /\ \A k \in (-2 * Span[p].months)..Span[p].months : MonthOf(day) + k \in Months
    /\ day - Span[p].days \in AllDays
InReach == \A p \in PeriodsInUse, d \in Days : Around(p, d)

Least(S) == CHOOSE n \in S : \A m \in S : n <= m
NoBudget == [state |-> "none", period |-> CHOOSE p \in PeriodsInUse : TRUE, anchor |-> Least(Anchors),
             amounts |-> {}]
Unsaid == [from |-> None, amount |-> None]
Here(b) == budget[b].state = "here"
Step == steps < MaxSteps /\ steps' = steps + 1

TypeOK ==
    /\ budget \in [Budgets -> Budget] /\ link \in [Budgets -> SUBSET Link]
    /\ off \in [Budgets -> SUBSET Txns] /\ paused \subseteq Autos /\ gone \subseteq Sources
    /\ today \in Days /\ said \in [Budgets -> [from : AllDays \cup {None}, amount : Amounts \cup {None}]]
    /\ steps \in 0..MaxSteps

Init ==
    /\ budget = [b \in Budgets |-> NoBudget] /\ link = [b \in Budgets |-> {}]
    /\ off = [b \in Budgets |-> {}] /\ paused = {} /\ gone = {} /\ today = Least(Days)
    /\ said = [b \in Budgets |-> Unsaid] /\ steps = 0
------------------------------------------------------------------------------
(* What counts.                                                              *)

\* FUTURE automations count only what arrived after they were made.
AutoHits(t, a) == a \in Facts[t].autos /\ a \notin paused \cup Facts[t].later

Hit(l, t) ==
    LET f == Facts[t]
        what == l.thing[2]
    IN CASE l.thing[1] = "transaction" -> what = t
         [] l.thing[1] = "automation" -> AutoHits(t, what)
         [] l.thing[1] = "subscription" -> what = f.sub /\ f.amount < 0
         [] l.thing[1] = "category" -> what = f.cat
         [] l.thing[1] = "account" -> /\ what = f.account /\ ~f.transfer
                                      /\ IF l.kind = "spending" THEN f.amount < 0 ELSE f.amount > 0

Before(l, m) == \/ Priority[l.thing[1]] < Priority[m.thing[1]]
                \/ Priority[l.thing[1]] = Priority[m.thing[1]] /\ l.id < m.id
First(L) == CHOOSE l \in L : \A m \in L \ {l} : Before(l, m)
\* The link that counts a transaction among some links; None when none does.
CountedBy(L, t) == LET hits == {l \in L : Hit(l, t)} IN IF hits = {} THEN None ELSE First(hits)

\* The transactions that count in some days, and those taken off that would.
Counted(b, first, last) ==
    {t \in Txns \ off[b] : Facts[t].day \in first..last /\ CountedBy(link[b], t) # None}
TakenOff(b, first, last) ==
    {t \in off[b] : Facts[t].day \in first..last /\ CountedBy(link[b], t) # None}
------------------------------------------------------------------------------
(* Amounts.                                                                  *)

\* The latest amount to start on or before the period, or the earliest.
AmountAt(x, start) ==
    LET started == {a \in x.amounts : a.on <= start}
    IN IF started = {} THEN (CHOOSE a \in x.amounts : \A c \in x.amounts : a.on <= c.on).amount
       ELSE (CHOOSE a \in started : \A c \in started : c.on <= a.on).amount

StartOf(x, day) == PeriodStart(x.period, x.anchor, day)
EndOf(x, day) == PeriodEnd(x.period, x.anchor, StartOf(x, day))

Create(b, p, anchor, amount) ==
    /\ Step /\ budget[b].state = "none"
    /\ LET on == IF anchor = None THEN DefaultStart(p, today, 0, 1) ELSE anchor IN
       /\ budget' = [budget EXCEPT ![b] = [state |-> "here", period |-> p, anchor |-> on,
                                           amounts |-> {[on |-> on, amount |-> amount]}]]
       /\ said' = [said EXCEPT ![b] = Unsaid]
    /\ UNCHANGED <<link, off, paused, gone, today>>

\* A slip: the amount there is, is changed.
WithAmountRewritten(x, start, amount) ==
    {[a EXCEPT !.amount = IF AmountAt(x, start) = a.amount THEN amount ELSE @] : a \in x.amounts}
\* A new amount, or another one for a period that has one of its own.
WithAmount(x, start, amount) ==
    {a \in x.amounts : a.on # start} \cup {[on |-> start, amount |-> amount]}

\* Each of period, anchor and amount is None when it is left out.
Change(b, p, anchor, amount) ==
    /\ Step /\ Here(b)
    /\ LET x == budget[b]
           kept == IF amount # None THEN amount ELSE AmountAt(x, StartOf(x, today))
           over == p # None /\ p # x.period
           moved == [x EXCEPT !.anchor = IF anchor # None THEN anchor ELSE @]
           on == IF anchor # None THEN anchor ELSE DefaultStart(p, today, 0, 1)
       IN /\ budget' = [budget EXCEPT ![b] =
                 IF over THEN [x EXCEPT !.period = p, !.anchor = on,
                                        !.amounts = {[on |-> on, amount |-> kept]}]
                 ELSE IF amount # None
                 THEN [moved EXCEPT !.amounts = WithAmount(moved, StartOf(moved, today), amount)]
                 ELSE moved]
          /\ said' = [said EXCEPT ![b] =
                 IF over THEN Unsaid
                 ELSE IF amount # None THEN [from |-> StartOf(moved, today), amount |-> amount]
                 ELSE @]
    /\ UNCHANGED <<link, off, paused, gone, today>>

Delete(b) ==
    /\ Step /\ Here(b)
    /\ budget' = [budget EXCEPT ![b] = NoBudget] /\ said' = [said EXCEPT ![b] = Unsaid]
    /\ link' = [link EXCEPT ![b] = {}] /\ off' = [off EXCEPT ![b] = {}]
    /\ UNCHANGED <<paused, gone, today>>
------------------------------------------------------------------------------
(* Links.                                                                    *)

NewLinks(L, things, kind) ==
    LET free == Ids \ {l.id : l \in L} IN
    {{[id |-> n[x], thing |-> x, kind |-> kind] : x \in things} :
        n \in {f \in [things -> free] : \A x, y \in things : f[x] = f[y] => x = y}}

\* A slip: one the budget counts already, as whatever, gets no link of its own.
NeedsLinkUnlessCounted(b, t, kind) == CountedBy(link[b], t) = None
\* One that counts that way already does not need a link of its own.
NeedsLink(b, t, kind) ==
    LET by == CountedBy(link[b], t) IN by = None \/ (by # None /\ by.kind # kind)

\* Counts transactions, and puts back those that were taken off.
LinkTransactions(b, T, kind) ==
    /\ Step /\ Here(b)
    /\ LET own == {l \in link[b] : l.thing[1] = "transaction" /\ l.thing[2] \in T}
           linked == {l.thing[2] : l \in own}
           needed == {<<"transaction", t>> : t \in {u \in T \ linked : NeedsLink(b, u, kind)}}
       IN \E new \in NewLinks(link[b], needed, kind) :
              link' = [link EXCEPT ![b] = (@ \ own) \cup {[l EXCEPT !.kind = kind] : l \in own} \cup new]
    /\ off' = [off EXCEPT ![b] = @ \ T]
    /\ UNCHANGED <<budget, paused, gone, today, said>>

\* Its own link goes, and what still counts it is overruled.
Unlink(b, t) ==
    /\ Step /\ Here(b)
    /\ link' = [link EXCEPT ![b] = {l \in @ : l.thing # <<"transaction", t>>}]
    /\ off' = [off EXCEPT ![b] = IF CountedBy(link'[b], t) # None THEN @ \cup {t} ELSE @]
    /\ UNCHANGED <<budget, paused, gone, today, said>>

\* Once per thing; an account may count as both.  Subscriptions are spending.
AddSource(b, thing, kind) ==
    /\ Step /\ Here(b) /\ thing \notin gone
    /\ thing[1] = "subscription" => kind = "spending"
    /\ \A l \in link[b] : l.thing = thing => thing[1] = "account" /\ l.kind # kind
    /\ \E new \in NewLinks(link[b], {thing}, kind) : link' = [link EXCEPT ![b] = @ \cup new]
    /\ UNCHANGED <<budget, off, paused, gone, today, said>>

RemoveSource(b, l) ==
    /\ Step /\ Here(b) /\ l.thing[1] # "transaction"
    /\ link' = [link EXCEPT ![b] = @ \ {l}]
    /\ UNCHANGED <<budget, off, paused, gone, today, said>>

\* An automation counts toward exactly these budgets, as these kinds.
SetAutomationCounts(a, wanted) ==
    LET thing == <<"automation", a>> IN
    /\ Step /\ thing \notin gone /\ \A b \in DOMAIN wanted : Here(b)
    /\ \E id \in Ids :
          /\ \A b \in DOMAIN wanted : \A l \in link[b] : l.thing # thing => l.id # id
          /\ link' = [b \in Budgets |->
                 LET rest == {l \in link[b] : l.thing # thing}
                     old == link[b] \ rest
                 IN IF b \notin DOMAIN wanted THEN rest
                    ELSE IF old # {} THEN rest \cup {[l EXCEPT !.kind = wanted[b]] : l \in old}
                    ELSE rest \cup {[id |-> id, thing |-> thing, kind |-> wanted[b]]}]
    /\ UNCHANGED <<budget, off, paused, gone, today, said>>

\* Around the budgets: an automation is paused or resumed, what a link names is
\* deleted (and the link with it), and a day passes.
Pause(a) ==
    /\ Step /\ paused' = (paused \ {a}) \cup ({a} \ paused)
    /\ UNCHANGED <<budget, link, off, gone, today, said>>
Vanish(thing) ==
    /\ Step /\ thing \notin gone /\ gone' = gone \cup {thing}
    /\ link' = [b \in Budgets |-> {l \in link[b] : l.thing # thing}]
    /\ UNCHANGED <<budget, off, paused, today, said>>
Tomorrow(d) ==
    /\ d > today /\ today' = d
    /\ UNCHANGED <<budget, link, off, paused, gone, said, steps>>

Next ==
    \/ \E b \in Budgets, p \in PeriodsInUse, n \in Amounts, on \in Anchors \cup {None} : Create(b, p, on, n)
    \/ \E b \in Budgets, p \in PeriodsInUse \cup {None}, on \in Anchors \cup {None},
          n \in Amounts \cup {None} : Change(b, p, on, n)
    \/ \E b \in Budgets : Delete(b)
    \/ \E b \in Budgets, T \in SUBSET Txns, k \in Kinds : T # {} /\ LinkTransactions(b, T, k)
    \/ \E b \in Budgets, t \in Txns : Unlink(b, t)
    \/ \E b \in Budgets, x \in Sources, k \in Kinds : AddSource(b, x, k)
    \/ \E b \in Budgets : \E l \in link[b] : RemoveSource(b, l)
    \/ \E a \in Autos, B \in SUBSET Budgets : \E w \in [B -> Kinds] : SetAutomationCounts(a, w)
    \/ \E a \in Autos : Pause(a)
    \/ \E x \in Sources : Vanish(x)
    \/ \E d \in Days : Tomorrow(d)

Spec == Init /\ [][Next]_vars
------------------------------------------------------------------------------
(* What a period came to.                                                    *)

\* Each transaction's flow: what it counts as, by which link, and for how much.
\* Those of a currency without rates are left out.
Flows(b, first, last) ==
    {[txn |-> t, day |-> Facts[t].day, kind |-> CountedBy(link[b], t).kind,
      by |-> CountedBy(link[b], t),
      value |-> IF CountedBy(link[b], t).kind = "income" THEN Facts[t].value ELSE -Facts[t].value] :
        t \in {u \in Counted(b, first, last) : Facts[u].value # None}}
Total(F, kind) == MapThenSumSet(LAMBDA f : f.value, {f \in F : f.kind = kind})

Summary(b, start) ==
    LET x == budget[b]
        F == Flows(b, start, PeriodEnd(x.period, x.anchor, start))
    IN [start |-> start, amount |-> AmountAt(x, start), income |-> Total(F, "income"),
        spent |-> Total(F, "spending")]

PeriodView(b, on) ==
    LET x == budget[b]
        start == StartOf(x, on)
        end == EndOf(x, on)
        F == Flows(b, start, end)
        amount == AmountAt(x, start)
        length == end - start + 1
        days == {f.day : f \in F}
    IN [summary |-> Summary(b, start), current |-> start = StartOf(x, today),
        gone |-> Greater(0, Lesser(today - start + 1, length)), length |-> length,
        left |-> amount - Total(F, "spending"), saved |-> Total(F, "income") - Total(F, "spending"),
        daily |-> [d \in days |-> [k \in Kinds |-> Total({f \in F : f.day = d}, k)]],
        sources |-> [l \in {f.by : f \in F} |-> MapThenSumSet(LAMBDA f : f.value, {f \in F : f.by = l})],
        removed |-> Cardinality(TakenOff(b, start, end))]

\* A slip: a day on which a period starts is in the one before it.
PeriodOfLate(starts, day) == Greater(1, Cardinality({n \in DOMAIN starts : starts[n] < day}))
\* Each day is in the latest period that started on or before it.
PeriodOf(starts, day) == Cardinality({n \in DOMAIN starts : starts[n] <= day})

History(b, on, count) ==
    LET x == budget[b]
        starts == StartsBack(x.period, x.anchor, StartOf(x, on), count)
        F == Flows(b, starts[1], PeriodEnd(x.period, x.anchor, starts[count]))
        In(n) == {f \in F : PeriodOf(starts, f.day) = n}
    IN [n \in 1..count |-> [start |-> starts[n], amount |-> AmountAt(x, starts[n]),
                            income |-> Total(In(n), "income"), spent |-> Total(In(n), "spending")]]
------------------------------------------------------------------------------
(* A change of the amount leaves every period that is over, since the budget *)
(* began, as it was (finance/budget.py:408-410; models/budget.py:77-79).     *)
PastKeepsAmount ==
    [][\A b \in Budgets :
          Here(b) /\ Here(b)' /\ budget'[b].period = budget[b].period /\ budget'[b].anchor = budget[b].anchor =>
              \A d \in Days :
                  LET start == StartOf(budget[b], d) IN
                  /\ start < StartOf(budget[b], today)
                  /\ \E a \in budget[b].amounts : a.on <= start
                  => AmountAt(budget'[b], start) = AmountAt(budget[b], start)]_vars

(* Linking transactions makes each of them count as what was asked, whatever *)
(* counted it before or overruled that, and taking one off stops it counting;*)
(* neither changes how any other transaction counts (finance/budget.py:      *)
(* 768-826).                                                                 *)
As(b, t) == IF t \in off[b] \/ CountedBy(link[b], t) = None THEN None ELSE CountedBy(link[b], t).kind
CountsAsAsked ==
    [][/\ \A b \in Budgets, T \in SUBSET Txns, k \in Kinds :
             T # {} /\ LinkTransactions(b, T, k) =>
                 \A t \in Txns : As(b, t)' = IF t \in T THEN k ELSE As(b, t)
       /\ \A b \in Budgets, t \in Txns :
             Unlink(b, t) => \A u \in Txns : As(b, u)' = IF u = t THEN None ELSE As(b, u)]_vars

(* The pages agree: each period of the history is what its own page says,    *)
(* and a page's days and its sources each add up to what it says came in and *)
(* went out (finance/budget.py:337-352, 577-609, 624-709).                   *)
ViewsAgree ==
    \A b \in Budgets :
        Here(b) =>
            LET view == PeriodView(b, today)
                flowed == view.summary.income + view.summary.spent
                past == History(b, today, 2)
            IN /\ past[2] = view.summary
               /\ past[1] = PeriodView(b, past[1].start).summary
               /\ flowed = MapThenSumSet(LAMBDA d : view.daily[d]["income"] + view.daily[d]["spending"], DOMAIN view.daily)
               /\ flowed = MapThenSumSet(LAMBDA l : view.sources[l], DOMAIN view.sources)
               /\ view.gone <= view.length

(* "A new amount applies from the period the person is in"                   *)
(* (schemas/budget.py:50): it is what that period and the ones after it      *)
(* have until another is asked for.                                          *)
NewAmountHolds ==
    \A b \in Budgets :
        said[b].from # None =>
            \A d \in Days : LET start == StartOf(budget[b], d)
                            IN start >= said[b].from => AmountAt(budget[b], start) = said[b].amount
==============================================================================
