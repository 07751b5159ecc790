------------------------------ MODULE Planning ------------------------------
(* What the household plans and keeps, side by side: exchange rates, what     *)
(* recurs, budgets, the statement files people import and the changes the AI *)
(* proposes.  None reads another's state.                                    *)
EXTENDS ExchangeRates, Integers, Sequences

CONSTANTS
    Firsts, MaxSteps, None, Unset,
    \* What recurs.
    Items, Payments, Accounts, Names, Cats, Frequencies, BillDays, Edits, MaxCycles,
    \* Budgets.
    Budgets, Txns, Facts, Autos, Subs, BudgetAccounts, PeriodsInUse, Anchors, BudgetDays, Amounts, Ids,
    \* Statement files.
    Files, Texts, Hand, Slots, WINDOW,
    \* The AI's changes.
    Chats, Groups, Proposals, Payees, PayeeOf, Asks, Asked, ROUNDS, FIXES, MAX_CHANGES,
    AskTxns, AskCats, AskItems, AskBudgets,
    \* Days somebody asks the calendar about.
    Dues, Periods

VARIABLES
    item, pay, rule, closed, rules, loose, broke, billSteps,
    budget, link, off, paused, gone, present, said, budgetSteps,
    txns, whole, fileSteps,
    books, proposal, chat, req, seen, made,
    probe       \* what is asked of the calendar

recurring == <<item, pay, rule, closed, rules, loose, broke, billSteps>>
budgets == <<budget, link, off, paused, gone, present, said, budgetSteps>>
imports == <<txns, whole, fileSteps>>
asking == <<books, proposal, chat, req, seen, made>>

Rec == INSTANCE Recurring WITH Days <- BillDays, book <- rules, steps <- billSteps
Bud == INSTANCE Budgets WITH Accounts <- BudgetAccounts, Days <- BudgetDays, today <- present, steps <- budgetSteps
Imp == INSTANCE Imports WITH steps <- fileSteps
Asst == INSTANCE Assistant WITH
    Txns <- AskTxns, Cats <- AskCats, Items <- AskItems, Budgets <- AskBudgets

-----------------------------------------------------------------------------
TypesOK == TypeOK /\ Rec!TypeOK /\ Bud!TypeOK /\ Imp!TypeOK /\ Asst!TypeOK

\* Every payment of what is tracked is linked to it (README.md:206-209).
CaughtUp == Rec!CaughtUp

\* A change of the amount leaves periods that are over as they were (finance/budget.py:408-410).
PastKeepsAmount == Bud!PastKeepsAmount
\* A transaction counts as somebody said it should (finance/budget.py:768-826).
CountsAsAsked == Bud!CountsAsAsked
\* A budget's pages and its history agree (finance/budget.py:337-352, 577-709).
ViewsAgree == Bud!ViewsAgree
\* A new amount applies from the period people are in (schemas/budget.py:50).
NewAmountHolds == Bud!NewAmountHolds

\* A file that is imported again adds nothing (README.md:349).
WholeFilesAddNothing == Imp!WholeFilesAddNothing
\* An account has each of a bank's IDs once (models/transaction.py:28-30).
IDsOnce == Imp!IDsOnce

\* Codes the AI writes mean the rows it was shown under them (ai/tools/base.py:89-93).
CodesMeanTheirRows == Asst!CodesMeanTheirRows
\* What it proposes is decided once, and made whole or not at all (ai/proposals.py:181-250).
Decides == Asst!Decides

(* Due dates are all those of the days asked for (finance/subscriptions.py), *)
(* and every day is in one of a budget's periods (finance/periods.py).       *)
CalendarRight ==
    /\ probe \in Dues =>
          Rec!DueDatesRight(probe.due, probe.every, probe.first, probe.first + probe.span)
    /\ probe \in Periods => Bud!DayInOnePeriod(probe.period, probe.anchor, probe.day)
=============================================================================
