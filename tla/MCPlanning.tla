----------------------------- MODULE MCPlanning -----------------------------
(* Small instances for TLC of what the household plans and keeps: exchange   *)
(* rates, subscriptions and bills, budgets, the statement files they import  *)
(* and the changes the AI proposes.  A behaviour is about one of these; a    *)
(* focus without steps checks a calculation on each of many inputs.           *)
EXTENDS Planning, TLC

CONSTANTS Chat

VARIABLES
    focus,
    kept        \* what a file is written from, and how

\* The first days of the 36 months from January 2025, and of the next one.
MCFirsts == <<1, 32, 60, 91, 121, 152, 182, 213, 244, 274, 305, 335, 366, 397, 425, 456, 486, 517, 547,
              578, 609, 639, 670, 700, 731, 762, 790, 821, 851, 882, 912, 943, 974, 1004, 1035, 1065, 1096>>

-----------------------------------------------------------------------------
(* Subscriptions and bills                                                   *)
NoEdit == [key |-> Unset, active |-> Unset, ends |-> Unset, cat |-> Unset, due |-> Unset, every |-> Unset]
MCEdits == {[NoEdit EXCEPT !.active = FALSE], [NoEdit EXCEPT !.active = TRUE],
            [NoEdit EXCEPT !.key = <<1, "gym">>], [NoEdit EXCEPT !.key = <<2, "gym">>, !.active = TRUE],
            [NoEdit EXCEPT !.ends = 60, !.cat = "c", !.every = "annual", !.due = 60],
            [NoEdit EXCEPT !.ends = None, !.cat = None]}

-----------------------------------------------------------------------------
(* Budgets                                                                   *)
Groceries == [day |-> 430, amount |-> -5, value |-> -5, transfer |-> FALSE, account |-> "acc", cat |-> "c",
              sub |-> None, autos |-> {}, later |-> {}]
MCFacts == 1 :> Groceries @@ 2 :> [Groceries EXCEPT !.day = 425, !.amount = 3, !.value = 3, !.autos = {"a"},
                                                    !.cat = None]

-----------------------------------------------------------------------------
(* Statement files                                                           *)
Row(d, amount, text, id) == [day |-> d, amount |-> amount, text |-> text, id |-> id]
MCFiles == [days |-> <<Row(2, 1, "y", None), Row(3, 1, "y", None), Row(3, 1, "x", None)>>,
            ids |-> <<Row(1, 1, "x", "A"), Row(1, 1, "x", "A"), Row(3, 1, "y", "A"), Row(2, 0, "y", None), Row(3, 1, "y", None)>>,
            more |-> <<Row(1, 2, "x", "A"), Row(3, 1, "x", "B")>>]

MCHand == {[day |-> 1, amount |-> 1, payee |-> "x"]}

MCWords == [day |-> <<"transaction date", "date", "posted date">>, way |-> <<"debit credit", "type">>,
            out |-> <<"debit", "withdrawals">>, in |-> <<"credit", "deposits">>, amount |-> <<"amount", "value">>,
            balance |-> <<"balance">>, id |-> <<"id", "reference">>, payee |-> <<"payee", "name">>]

Csv == INSTANCE CsvLayouts WITH Words <- MCWords

-----------------------------------------------------------------------------
(* The AI's changes                                                          *)
NoStep == [tool |-> None, txns |-> {}, item |-> None, budget |-> None, cat |-> None, group |-> None,
           newGroup |-> FALSE, payee |-> None, finds |-> {}, sets |-> {}]
Change(tool) == [NoStep EXCEPT !.tool = tool]
MCAsks ==
    {<<[Change("category") EXCEPT !.cat = 2, !.group = 2, !.newGroup = TRUE],
       [Change("categorize") EXCEPT !.cat = 2, !.txns = {"t1"}]>>,
     <<[Change("categorize") EXCEPT !.txns = {"t2"}]>>,
     <<[Change("recurring") EXCEPT !.cat = 1, !.payee = "x", !.finds = {"x"}], Change("budget")>>,
     <<[Change("source") EXCEPT !.budget = "b", !.cat = 1], [Change("source") EXCEPT !.budget = "b", !.item = "i"]>>,
     <<[Change("automation") EXCEPT !.finds = {"x"}, !.cat = 1, !.item = "i"],
       [Change("change budget") EXCEPT !.budget = "b"]>>,
     <<[Change("update recurring") EXCEPT !.item = "i", !.sets = {"cancel", "category"}],
       [Change("update recurring") EXCEPT !.item = "i", !.sets = {"reactivate"}]>>,
     <<Change("budget"), Change("budget"), Change("budget")>>}

MCPayeeOf == [t1 |-> "x", t2 |-> "y"]

\* What a behaviour about codes, saved conversations or decisions leaves out.
Undecided ==
    /\ \A r \in Requests : req'[r].pc # "approving"
    /\ \A p \in {1, 2} : proposal'[p].status \in {"none", "pending"} /\ ~proposal'[p].aged
AskFocus ==
    /\ focus = "codes" =>
          /\ Undecided /\ UNCHANGED <<books, chat>>
          /\ \A p \in {1, 2} : \A k \in DOMAIN proposal'[p].steps : proposal'[p].steps[k].tool = "categorize"
    /\ focus = "chats" =>
          /\ Undecided /\ UNCHANGED <<books, seen>> /\ proposal'[2].status = "none"
          /\ \A r \in Requests : req'[r].rounds = 0
          /\ chat'[Chat] # None => Len(chat'[Chat]) <= 2
    /\ focus = "decide" =>
          /\ UNCHANGED chat
          /\ Len(proposal'[1].steps) + Len(proposal'[2].steps) <= 3 /\ ~proposal'[2].aged
          /\ \A r \in Requests :
                /\ req'[r].pc = "asking" => \A q \in Requests \ {r} : req[q].pc = "idle" /\ req[q].told = "nothing"
                /\ req'[r].rounds <= Len(req'[r].shown) /\ req'[r].fixes = 0

-----------------------------------------------------------------------------
ASSUME Rec!Bounds /\ Bud!Bounds /\ Bud!InReach /\ Imp!Bounds /\ Asst!Bounds

\* What the budget is is one behaviour's matter, what counts toward it another's.
BudgetFocus ==
    /\ focus = "amounts" => UNCHANGED <<link, off, paused, gone>>
    /\ focus = "links" => UNCHANGED present /\ budgetSteps < 4 /\ (budget[1].state # "none" => UNCHANGED budget)

Steps == [rates |-> {"rates"}, bills |-> {"bills"}, budgets |-> {"amounts", "links"}, files |-> {"files"},
          ask |-> {"codes", "chats", "decide"}]

\* Inputs of what is calculated.
MCDues == [due : {31, 60, 182}, every : DOMAIN Rec!Every, first : 31..70 \cup 880..940, span : {30, 120}]
MCPeriods == [period : DOMAIN Bud!Span, anchor : {366, 380, 396, 425}, day : 366..730]
Histories == {h \in UNION {[1..n -> [day : {1, 2}, amount : {-2, -1, 1, 2}]] : n \in 1..4} :
                  \A i \in 1..Len(h) - 1 : h[i].day <= h[i + 1].day}
Signs == {"split", "word", "signed", "spent"}
Ways == [signs : Signs, newest : BOOLEAN, owed : BOOLEAN]
Layouts == [signs : Signs, newest : BOOLEAN, owed : {FALSE}, names : {"plain", "long", "none"},
            turned : BOOLEAN, summary : BOOLEAN]
LaidOut == {<<[day |-> 1, amount |-> -2]>>, <<[day |-> 1, amount |-> 1], [day |-> 2, amount |-> -2]>>,
            <<[day |-> 1, amount |-> -1], [day |-> 1, amount |-> 2], [day |-> 2, amount |-> -2]>>}

PlanInit ==
    /\ Init /\ Rec!Init /\ Bud!Init /\ Imp!Init /\ Asst!Init
    /\ focus \in UNION {Steps[m] : m \in DOMAIN Steps} \cup {"days", "csv", "layout"}
    /\ focus # "rates" => has = {}
    /\ probe \in IF focus = "days" THEN Dues \cup Periods ELSE {None}
    /\ kept \in IF focus = "csv" THEN Histories
               ELSE IF focus = "layout" THEN LaidOut \X Layouts ELSE {None}

PlanNext ==
    /\ \/ focus \in Steps.rates /\ Next /\ UNCHANGED <<recurring, budgets, imports, asking>>
       \/ focus \in Steps.bills /\ Rec!Next /\ UNCHANGED <<vars, budgets, imports, asking>>
       \/ focus \in Steps.budgets /\ Bud!Next /\ BudgetFocus /\ UNCHANGED <<vars, recurring, imports, asking>>
       \/ focus \in Steps.files /\ Imp!Next /\ fileSteps < 4 /\ UNCHANGED <<vars, recurring, budgets, asking>>
       \/ focus \in Steps.ask /\ Asst!Next /\ AskFocus /\ UNCHANGED <<vars, recurring, budgets, imports>>
    /\ UNCHANGED <<focus, probe, kept>>

PlanSpec == PlanInit /\ [][PlanNext]_<<vars, recurring, budgets, imports, asking, focus, probe, kept>>

-----------------------------------------------------------------------------
(* A history is read right from a bank's file, whichever way it is written    *)
(* and laid out, and with a format saved from a file laid out like it.       *)
FilesReadRight ==
    /\ focus = "csv" => \A ways \in Ways : Csv!ReadsRight(kept, ways)
    /\ focus = "layout" =>
          \A file \in {Csv!Table(kept[1], kept[2])} :
             /\ Csv!LayoutRight(kept[1], kept[2], file)
             /\ \A layout \in {Csv!DetectLayout(file)}, other \in {w \in Layouts : w.signs = kept[2].signs} :
                   Csv!SavedRight(kept[1], kept[2], layout, file, other)

Symmetry == Permutations(Requests) \cup Permutations(Items)
=============================================================================
