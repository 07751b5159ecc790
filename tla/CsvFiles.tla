------------------------------ MODULE CsvFiles ------------------------------
(* How a bank's CSV file is read (backend/app/imports/csvfile.py): which way *)
(* each amount goes, from the columns there are and what is in them, and the *)
(* balance the file ends on.  A line has a cell by each of its columns' names; *)
(* an empty one, or one that can't be read, is None.                         *)
EXTENDS Integers, FiniteSets, Sequences, SequencesExt

CONSTANTS None

InWords == {"credit"}
OutWords == {"debit"}

Size(v) == IF v < 0 THEN -v ELSE v
Count(s, Test(_)) == Len(SelectSeq(s, Test))

-----------------------------------------------------------------------------
(* Working out how the file gives amounts.                                   *)
Cells(lines, column) == {lines[i][column] : i \in DOMAIN lines} \ {None}

\* Separate columns for money in and out, an amount beside a column saying which
\* way it went, or one signed amount.
Style(columns, lines) ==
    IF columns \cap {"in", "out"} # {} THEN "split"
    ELSE IF /\ {"amount", "way"} \subseteq columns
            /\ Cells(lines, "way") # {} /\ Cells(lines, "way") \subseteq InWords \cup OutWords
            /\ \A v \in Cells(lines, "amount") : v >= 0
         THEN "direction" ELSE "one"

\* Banks that write what was spent without a sign: most amounts are positive.
Flip(lines) ==
    LET given == SelectSeq(lines, LAMBDA l : l.amount # None)
    IN 2 * Count(given, LAMBDA l : l.amount > 0) > Len(given)

Detect(columns, lines) ==
    LET style == Style(columns, lines)
    IN [style |-> style, flip |-> style = "one" /\ Flip(lines)]

-----------------------------------------------------------------------------
(* Reading a line: its day and its amount, or nothing when it has a problem. *)
Written(options, line) == IF options.style = "split" THEN <<line.in, line.out>> ELSE <<line.amount>>

Signed(options, values, way) ==
    CASE options.style = "split" -> Size(values[1]) - Size(values[2])
      [] options.style = "direction" -> IF way \in InWords THEN Size(values[1]) ELSE -Size(values[1])
      [] options.style = "one" -> IF options.flip THEN -values[1] ELSE values[1]

ReadLine(options, line) ==
    LET written == Written(options, line)
        values == [k \in DOMAIN written |-> IF written[k] = None THEN 0 ELSE written[k]]
        amount == Signed(options, values, line.way)
        unread == line.day = None \/ (\A k \in DOMAIN written : written[k] = None) \/ amount = 0
    IN [day |-> line.day, amount |-> IF unread THEN None ELSE amount, balance |-> line.balance]

Read(columns, lines) ==
    LET options == Detect(columns, lines) IN [i \in DOMAIN lines |-> ReadLine(options, lines[i])]

-----------------------------------------------------------------------------
(* The balance after the file's latest transaction.  Files list newest or    *)
(* oldest first, and some give what's owed; both show in how the balance     *)
(* moves from one line to the next.                                          *)
Points(rows) == SelectSeq(rows, LAMBDA r : r.day # None /\ r.amount # None /\ r.balance # None)

Change(points, i) == points[i + 1].balance - points[i].balance
Votes(points, Test(_)) == Cardinality({i \in 1..Len(points) - 1 : Test(i)})

Owed(points) ==
    Votes(points, LAMBDA i : Change(points, i) \in {-points[i + 1].amount, points[i].amount})
        > Votes(points, LAMBDA i : Change(points, i) \in {points[i + 1].amount, -points[i].amount})

NewestFirst(points) ==
    LET before == Votes(points, LAMBDA i : Size(Change(points, i)) = Size(points[i].amount))
        after == Votes(points, LAMBDA i : Size(Change(points, i)) = Size(points[i + 1].amount))
    IN IF before # after THEN before > after
       ELSE points[1].day > points[Len(points)].day

\* A slip: files are taken to list the newest line last.
ClosingOfLast(rows) ==
    LET points == Points(rows)
    IN IF points = <<>> THEN None
       ELSE IF Owed(points) THEN -Last(points).balance ELSE Last(points).balance

Closing(rows) ==
    LET points == Points(rows)
        latest == CHOOSE day \in {points[i].day : i \in DOMAIN points} :
                     \A i \in DOMAIN points : points[i].day <= day
        last == SelectSeq(points, LAMBDA p : p.day = latest)
        point == IF NewestFirst(points) THEN Head(last) ELSE Last(last)
    IN IF points = <<>> THEN None
       ELSE IF Owed(points) THEN -point.balance ELSE point.balance

-----------------------------------------------------------------------------
(* What an account's history looks like in a bank's file, each way banks have *)
(* of writing it.  ways.signs says how amounts are given: in columns of their *)
(* own, beside a word, with a sign, or with a sign for money in ("spent").    *)
Balances(history) ==
    LET after[n \in 0..Len(history)] == IF n = 0 THEN 0 ELSE after[n - 1] + history[n].amount
    IN after

Columns(signs) == {"day", "balance"} \cup
    CASE signs = "split" -> {"in", "out"} [] signs = "word" -> {"amount", "way"} [] OTHER -> {"amount"}

Line(h, balance, signs, owed) ==
    [day |-> h.day,
     balance |-> IF owed THEN -balance ELSE balance,
     in |-> IF signs = "split" /\ h.amount > 0 THEN h.amount ELSE None,
     out |-> IF signs = "split" /\ h.amount < 0 THEN -h.amount ELSE None,
     amount |-> CASE signs = "split" -> None [] signs = "word" -> Size(h.amount)
                  [] signs = "signed" -> h.amount [] signs = "spent" -> -h.amount,
     way |-> IF signs # "word" THEN None ELSE IF h.amount > 0 THEN "credit" ELSE "debit"]

File(history, ways) ==
    LET lines == [i \in DOMAIN history |->
                     Line(history[i], Balances(history)[i], ways.signs, ways.owed)]
    IN IF ways.newest THEN Reverse(lines) ELSE lines

\* A file of signed amounts doesn't say which sign is money out: most should be.
SignsKnown(history, signs) ==
    LET into == Count(history, LAMBDA h : h.amount > 0)
    IN CASE signs = "signed" -> 2 * into <= Len(history)
         [] signs = "spent" -> 2 * into < Len(history)
         [] OTHER -> TRUE

\* Two neighbours of different sizes show how the balance moves.
MovesKnown(history) ==
    \E i \in 1..Len(history) - 1 : Size(history[i].amount) # Size(history[i + 1].amount)

(* However a bank writes an account's history, and in whichever order, every *)
(* line is read as the money it was (imports/csvfile.py:563-660), and the    *)
(* file's balance is the one the account ends on (csvfile.py:663-699),       *)
(* whenever the file holds enough to tell.                                   *)
ReadsRight(history, ways) ==
    LET rows == Read(Columns(ways.signs), File(history, ways))
        read == IF ways.newest THEN Reverse(rows) ELSE rows
    IN SignsKnown(history, ways.signs) =>
         /\ \A i \in DOMAIN history : read[i].amount = history[i].amount
         /\ MovesKnown(history) => Closing(rows) = Balances(history)[Len(history)]
=============================================================================
