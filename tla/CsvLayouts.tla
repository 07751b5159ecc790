------------------------------ MODULE CsvLayouts ------------------------------
(* Where a CSV file's transactions start and which of its columns is which,  *)
(* as its names and what is in it say, or a format saved from another file   *)
(* (backend/app/imports/csvfile.py, imports/service.py).                     *)
(*                                                                           *)
(* A file is its lines, each the cells it is split into.  A cell is what it  *)
(* can be read as and what it says; text says its words as they are compared *)
(* and the words it starts with.  Files are shorter than the sample that is  *)
(* looked at.                                                                *)
EXTENDS CsvFiles

CONSTANTS Words     \* the names banks give each field's column, most likely first

Fields == <<"day", "way", "out", "in", "amount", "balance", "id", "payee">>

Blank == [is |-> "blank", says |-> None]
IsDate(cell) == cell.is = "date"
IsAmount(cell) == cell.is \in {"cents", "number"}
CellAt(line, k) == IF k \in DOMAIN line THEN line[k] ELSE Blank
Filled(line) == Count(line, LAMBDA c : c.is # "blank")
Has(line, Test(_)) == \E k \in DOMAIN line : Test(line[k])

-----------------------------------------------------------------------------
(* Where it starts: the first line with a day and an amount that is as wide  *)
(* as most, or the names above it.  A summary above them is narrower.        *)
Found(file) == {i \in DOMAIN file : Has(file[i], IsDate) /\ Has(file[i], IsAmount)}

Width(file, found) ==
    LET Wide(w) == Cardinality({i \in found : Len(file[i]) = w})
        widths == {Len(file[i]) : i \in found}
    IN CHOOSE w \in widths : \A v \in widths : Wide(v) < Wide(w) \/ (Wide(v) = Wide(w) /\ v <= w)

StartAt(file, first) ==
    LET above == {i \in 1..first - 1 : \A j \in i..first - 1 : Filled(file[j]) >= 2}
        names == {i \in above : ~Has(file[i], LAMBDA c : IsDate(c) \/ IsAmount(c))}
    IN IF names # {} THEN [row |-> Max(names), header |-> TRUE] ELSE [row |-> first, header |-> FALSE]

Start(file) ==
    IF Found(file) = {} THEN [row |-> 1, header |-> TRUE]
    ELSE StartAt(file, Min({i \in Found(file) : Len(file[i]) >= Width(file, Found(file))}))

FirstRow(layout) == IF layout.header THEN layout.row + 1 ELSE layout.row
Data(layout, file) == SelectSeq(SubSeq(file, FirstRow(layout), Len(file)), LAMBDA line : Filled(line) > 0)
Headers(layout, file) == IF layout.header /\ layout.row \in DOMAIN file THEN file[layout.row] ELSE <<>>

-----------------------------------------------------------------------------
(* Which column is which.                                                    *)
Taken(found) == {found[f] : f \in DOMAIN found}

\* The column of those left whose name is the likeliest one for a field.
ByName(found, names, field, Is(_, _)) ==
    LET named == {k \in DOMAIN names \ Taken(found) : names[k].is = "text"}
        ranks == {p \in (DOMAIN Words[field]) \X named : Is(names[p[2]].says, Words[field][p[1]])}
        best == CHOOSE p \in ranks : \A q \in ranks : p[1] < q[1] \/ (p[1] = q[1] /\ p[2] <= q[2])
    IN IF ranks = {} THEN found ELSE found @@ (field :> best[2])

\* Names as they are known, then ones that go on after one that is.
AllByName(names) ==
    LET known == FoldLeft(LAMBDA f, field : ByName(f, names, field, LAMBDA name, word : name.word = word),
                          <<>>, Fields)
    IN FoldLeft(LAMBDA f, field :
                   IF field \in DOMAIN f THEN f
                   ELSE ByName(f, names, field, LAMBDA name, word : word \in name.starts),
                known, Fields)

Mostly(cells, Test(_)) == cells # <<>> /\ 5 * Count(cells, Test) >= 4 * Len(cells)

\* What has no name is the first column with days in it, and the first with cents.
ByContent(found, field, data, Test(_)) ==
    LET Column(k) == SelectSeq([i \in DOMAIN data |-> CellAt(data[i], k)], LAMBDA c : c.is # "blank")
        width == Max({0} \cup {Len(data[i]) : i \in DOMAIN data})
        fit == {k \in 1..width \ Taken(found) : Test(Column(k))}
    IN IF fit = {} THEN found ELSE found @@ (field :> Min(fit))

Dated(found, data) ==
    IF "day" \in DOMAIN found THEN found
    ELSE ByContent(found, "day", data, LAMBDA cells : Mostly(cells, IsDate))

Priced(found, data) ==
    IF {"amount", "in", "out"} \cap DOMAIN found # {} THEN found
    ELSE ByContent(found, "amount", data,
                   LAMBDA cells : Mostly(cells, IsAmount) /\ Has(cells, LAMBDA c : c.is = "cents"))

Guess(names, data) == Priced(Dated(AllByName(names), data), data)

-----------------------------------------------------------------------------
(* Reading with a layout.                                                    *)
Said(layout, line, field) ==
    LET cell == IF field \in DOMAIN layout.columns THEN CellAt(line, layout.columns[field]) ELSE Blank
    IN CASE field = "day" -> IF IsDate(cell) THEN cell.says ELSE None
         [] field = "way" -> IF cell.is = "text" THEN cell.says.word ELSE None
         [] OTHER -> IF IsAmount(cell) THEN cell.says ELSE None

LinesOf(layout, file) ==
    LET data == Data(layout, file) IN
    [i \in DOMAIN data |-> [f \in {"day", "way", "in", "out", "amount", "balance"} |-> Said(layout, data[i], f)]]

Guessed(file, start) ==
    [row |-> start.row, header |-> start.header,
     columns |-> Guess(IF start.header THEN file[start.row] ELSE <<>>, Data(start, file))]

\* The columns a style of amounts doesn't need are left out.
Settled(guess, options) ==
    LET unused == CASE options.style = "split" -> {"amount", "way"}
                    [] options.style = "one" -> {"way"}
                    [] OTHER -> {}
    IN [row |-> guess.row, header |-> guess.header, options |-> options,
        columns |-> [f \in DOMAIN guess.columns \ unused |-> guess.columns[f]]]

WithAmounts(guess, file) == Settled(guess, Detect(DOMAIN guess.columns, LinesOf(guess, file)))

\* The layout that fits a file best.
DetectLayout(file) == WithAmounts(Guessed(file, Start(file)), file)

Missing(layout) ==
    LET columns == DOMAIN layout.columns IN
    \/ "day" \notin columns
    \/ CASE layout.options.style = "split" -> {"in", "out"} \cap columns = {}
         [] layout.options.style = "direction" -> ~{"amount", "way"} \subseteq columns
         [] layout.options.style = "one" -> "amount" \notin columns

ReadWith(layout, file) ==
    LET lines == LinesOf(layout, file) IN
    IF Missing(layout) THEN <<>> ELSE [i \in DOMAIN lines |-> ReadLine(layout.options, lines[i])]

-----------------------------------------------------------------------------
(* Formats saved from another file.                                          *)
NameOf(cell) == CASE cell.is = "text" -> cell.says.word [] cell.is = "blank" -> "" [] OTHER -> "not a name"
NamesOf(line) == [k \in DOMAIN line |-> NameOf(line[k])]

\* Moved to where the names are now, below a longer or a shorter summary.
Relocated(layout, saved, file) ==
    LET rows == {i \in DOMAIN file : NamesOf(file[i]) = NamesOf(saved)}
    IN IF saved = <<>> \/ rows = {} THEN layout ELSE [layout EXCEPT !.row = Min(rows)]

Renamed(layout, saved, file) ==
    {k \in Taken(layout.columns) :
        NameOf(CellAt(saved, k)) # NameOf(CellAt(Headers(layout, file), k))}

\* A format somebody chose is refused for a file it doesn't suit.
Misfit(layout, saved, file) ==
    LET rows == ReadWith(layout, file) IN
    \/ Missing(layout)
    \/ saved # <<>> /\ layout.header /\ Renamed(layout, saved, file) # {}
    \/ rows # <<>> /\ \A i \in DOMAIN rows : rows[i].amount = None

\* A file is read as it was detected, unless a format was chosen for it or one
\* was saved from a file with the same names.
LayoutFor(saved, chosen, detected, file) ==
    LET headers == NamesOf(Headers(detected, file))
    IN IF chosen \/ (headers # <<>> /\ headers = NamesOf(saved.headers))
       THEN Relocated(saved.layout, saved.headers, file) ELSE detected

Refused == <<>>
ReadUnlessRefused(layout, saved, chosen, file) ==
    IF chosen /\ Misfit(layout, saved.headers, file) THEN Refused ELSE ReadWith(layout, file)

ReadCsv(saved, chosen, file) ==
    ReadUnlessRefused(LayoutFor(saved, chosen, DetectLayout(file), file), saved, chosen, file)

-----------------------------------------------------------------------------
(* A file as a bank may write it: with its columns named, named at length or *)
(* not named, in either order, and perhaps a summary above them.             *)
Text(word) == [is |-> "text", says |-> [word |-> word, starts |-> {}]]
Cents(v) == IF v = None THEN Blank ELSE [is |-> "cents", says |-> v]
Named(ways, word) ==
    IF ways.names = "plain" THEN Text(word)
    ELSE [is |-> "text", says |-> [word |-> word \o " here", starts |-> {word}]]

\* A column: its name, and what it says in a line.
Laid(ways) ==
    <<[name |-> "posted date", field |-> "posted"], [name |-> "check", field |-> "check"],
      [name |-> "date", field |-> "day"]>>
    \o (CASE ways.signs = "split" -> <<[name |-> "debit", field |-> "out"], [name |-> "credit", field |-> "in"]>>
           [] ways.signs = "word" -> <<[name |-> "type", field |-> "way"], [name |-> "amount", field |-> "amount"]>>
           [] OTHER -> <<[name |-> "amount", field |-> "amount"]>>)
    \o <<[name |-> "balance", field |-> "balance"]>>

Cell(line, field) ==
    CASE field = "posted" -> [is |-> "date", says |-> line.day + 1]
      [] field = "check" -> [is |-> "number", says |-> 7]
      [] field = "day" -> [is |-> "date", says |-> line.day]
      [] field = "way" -> Text(line.way)
      [] OTHER -> Cents(line[field])

Table(history, ways) ==
    LET laid == SelectSeq(Laid(ways), LAMBDA c : ways.names # "none" \/ c.field # "posted")
        Turned(line) == IF ways.turned THEN Reverse(line) ELSE line
        lines == File(history, ways)
        summary == <<<<Text("balance"), [is |-> "date", says |-> 9], Cents(9)>>, <<>>>>
        names == <<Turned([k \in DOMAIN laid |-> Named(ways, laid[k].name)])>>
    IN (IF ways.summary THEN summary ELSE <<>>) \o (IF ways.names = "none" THEN <<>> ELSE names)
       \o [i \in DOMAIN lines |-> Turned([k \in DOMAIN laid |-> Cell(lines[i], laid[k].field)])]

\* Without names, the first column with cents has to hold amounts that have a sign.
ToldApart(ways) == ways.names = "none" => ways.signs \in {"signed", "spent"} /\ ~ways.turned

RowsRight(history, ways, rows) ==
    LET read == IF ways.newest THEN Reverse(rows) ELSE rows IN
    /\ Len(rows) = Len(history)
    /\ \A i \in DOMAIN history : read[i].amount = history[i].amount /\ read[i].day = history[i].day
    /\ ways.names # "none" /\ MovesKnown(history) => Closing(rows) = Balances(history)[Len(history)]

Told(history, ways) == SignsKnown(history, ways.signs) /\ ToldApart(ways)

(* Whichever way its columns are laid out, a file is read as the history it   *)
(* is of when that can be told (csvfile.py:285-337, 497-560).                *)
LayoutRight(history, ways, file) ==
    Told(history, ways) => RowsRight(history, ways, ReadWith(DetectLayout(file), file))

(* A format saved from one file reads another right, matched by its names or *)
(* chosen and wherever its names are, or is refused (imports/service.py:     *)
(* 110-145); without names it has to start where the other one did.          *)
SavedRight(history, ways, layout, file, other) ==
    LET saved == [layout |-> layout, headers |-> Headers(layout, file)] IN
    Told(history, ways) =>
        /\ ToldApart(other) => RowsRight(history, other, ReadCsv(saved, FALSE, Table(history, other)))
        /\ LET rows == ReadCsv(saved, TRUE, Table(history, other)) IN
           \/ rows = Refused
           \/ ways.names = "none" /\ other.summary # ways.summary
           \/ RowsRight(history, [other EXCEPT !.names = ways.names], rows)
=============================================================================
