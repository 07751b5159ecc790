------------------------------ MODULE Assistant ------------------------------
(* The AI an admin asks about the household: the rounds of one answer, what *)
(* it may propose, and how that is decided on (backend/app/ai/chat.py,      *)
(* ai/proposals.py, ai/tools/base.py, ai/tools/changes.py, api/ai.py).      *)
(* A category is its name.  One admin, whose requests overlap; an approval  *)
(* is one transaction of several steps, whose rows nobody else can delete.  *)
EXTENDS FiniteSets, Integers, Sequences, SequencesExt

CONSTANTS
    Requests, Chats, Txns, Cats, Groups, Items, Budgets,
    Proposals,      \* 1..n, made in this order
    Payees, PayeeOf,
    Asks,           \* the changes an AI may ask for at once, see Blank
    Asked,          \* bound: the questions asked
    ROUNDS, FIXES, MAX_CHANGES,
    None

VARIABLES
    books,          \* what the changes are about
    proposal,
    chat,           \* saved conversations: their turns, or None
    req,            \* the requests under way
    seen,           \* the codes the AI has been given, and for which row
    made            \* per proposal, how often each of its changes was committed

vars == <<books, proposal, chat, req, seen, made>>

\* A change: its tool and what it is given.  finds are the payees its text matches.
Blank == [tool |-> None, txns |-> {}, item |-> None, budget |-> None, cat |-> None, group |-> None,
          newGroup |-> FALSE, payee |-> None, finds |-> {}, sets |-> {}]
Refs(s) == ({"T"} \X s.txns) \cup ({"S"} \X ({s.item} \ {None})) \cup ({"B"} \X ({s.budget} \ {None}))
Rows == ({"T"} \X Txns) \cup ({"S"} \X Items) \cup ({"B"} \X Budgets)
Code == [kind : {"T", "S", "B"}, tag : 0..Asked, n : 1..Cardinality(Rows)]

NoItem == [state |-> "none", payee |-> None, cat |-> None, active |-> FALSE, stopped |-> FALSE]
NoProposal == [status |-> "none", steps |-> << >>, meant |-> << >>, aged |-> FALSE]
Idle == [pc |-> "idle", chat |-> None, had |-> << >>, tag |-> 0, shown |-> << >>, rounds |-> 0, fixes |-> 0,
         of |-> 0, k |-> 0, ids |-> << >>, told |-> "nothing"]

Changes == [tool : STRING, txns : SUBSET Txns, item : Items \cup {None}, budget : Budgets \cup {None},
            cat : Cats \cup {None}, group : Groups \cup {None}, newGroup : BOOLEAN,
            payee : Payees \cup {None}, finds : SUBSET Payees, sets : SUBSET STRING]

Bounds ==
    /\ PayeeOf \in [Txns -> Payees] /\ {Asked, ROUNDS, FIXES, MAX_CHANGES} \subseteq Nat
    /\ Proposals \subseteq Nat \ {0}
    /\ None \notin Cats /\ None \notin Items \cup Budgets \cup Payees \cup Chats
    /\ Asks \subseteq Seq(Changes) \ {<< >>} /\ IsFiniteSet(Rows) /\ Cats # {} /\ Groups # {}
    /\ \A a \in Asks : \A k \in DOMAIN a :
          /\ a[k].tool = "category" => None \notin {a[k].cat, a[k].group}
          /\ a[k].tool = "update recurring" => a[k].item # None

TypeOK ==
    /\ books.cats \subseteq Cats /\ books.groups \subseteq Groups
    /\ \A t \in Txns : books.tx[t].cat \in books.cats \cup {None}
    /\ \A i \in Items : books.items[i].cat \in books.cats \cup {None}
    /\ \A p \in Proposals : proposal[p].status \in {"none", "pending", "approved", "rejected"}
    /\ \A r \in Requests : req[r].pc \in {"idle", "asking", "saving", "approving"}
    /\ seen \subseteq [code : Code, row : Rows]

Init ==
    /\ books = [cats |-> {CHOOSE c \in Cats : TRUE}, groups |-> {CHOOSE g \in Groups : TRUE},
                tx |-> [t \in Txns |-> [here |-> TRUE, cat |-> None, chosen |-> FALSE, item |-> None]],
                items |-> [i \in Items |-> NoItem], autos |-> << >>, budgets |-> {}, sources |-> {}]
    /\ proposal = [p \in Proposals |-> NoProposal] /\ chat = [c \in Chats |-> None]
    /\ req = [r \in Requests |-> Idle] /\ seen = {}
    /\ made = [p \in Proposals |-> << >>]
------------------------------------------------------------------------------
(* Codes                                                                     *)

\* A slip: every answer numbers its rows alike.
NewTagAlike == 1
\* Two random letters, new for every request; two that come out the same are left out.
NewTag == 1 + Max({0} \cup {e.code.tag : e \in seen} \cup {req[r].tag : r \in Requests})

\* A row's code in an answer: its kind, the answer's tag, and its number among those of its kind.
CodeOf(q, row) ==
    [kind |-> row[1], tag |-> q.tag,
     n |-> Cardinality({i \in DOMAIN q.shown : /\ q.shown[i][1] = row[1]
                                               /\ \E j \in i..Len(q.shown) : q.shown[j] = row})]
\* The rows this answer showed under a code.
Resolve(q, code) == {row \in ToSet(q.shown) : CodeOf(q, row) = code}
------------------------------------------------------------------------------
(* Checking a change when the AI asks for it                                 *)

Tracked(b, payee) == \E i \in Items : b.items[i].state = "here" /\ b.items[i].payee = payee
HasItem(b, i) == b.items[i].state = "here"
Known(b, new, cat) == cat \in b.cats \cup new \cup {None}

CategorizeWorded(s) == s.txns # {}
CategoryWorded(b, new, s) == ~(s.cat \in b.cats \cup new) /\ (s.group \in b.groups \/ s.newGroup)
AutomationWorded(s) == s.cat # None \/ s.item # None
RecurringWorded(b, s) == ~Tracked(b, s.payee)
UpdateWorded(b, s) == HasItem(b, s.item) /\ s.sets # {} /\ ~{"reactivate", "pause"} \subseteq s.sets
ChangeBudgetWorded(b, s) == s.budget \in b.budgets
SourceWorded(b, s) == s.budget \in b.budgets /\ (s.cat = None) # (s.item = None)

Worded(b, new, s) ==
    /\ s.tool # "category" => Known(b, new, s.cat)
    /\ CASE s.tool = "categorize" -> CategorizeWorded(s)
         [] s.tool = "category" -> CategoryWorded(b, new, s)
         [] s.tool = "automation" -> AutomationWorded(s)
         [] s.tool = "recurring" -> RecurringWorded(b, s)
         [] s.tool = "update recurring" -> UpdateWorded(b, s)
         [] s.tool = "budget" -> TRUE
         [] s.tool = "change budget" -> ChangeBudgetWorded(b, s)
         [] s.tool = "source" -> SourceWorded(b, s)

\* Categories that earlier changes of the same answer add may be used by later ones.
NewCats(steps, k) == {steps[j].cat : j \in {i \in 1..k - 1 : steps[i].tool = "category"}}
AllWorded(b, steps) ==
    Len(steps) <= MAX_CHANGES /\ \A k \in DOMAIN steps : Worded(b, NewCats(steps, k), steps[k])
------------------------------------------------------------------------------
(* Making a change, after checking it again                                  *)

CategoryRuns(b, s) == s.cat \notin b.cats /\ (s.group \in b.groups \/ s.newGroup)
UpdateRuns(b, s) ==
    /\ HasItem(b, s.item)
    /\ "cancel" \in s.sets => ~b.items[s.item].stopped
    /\ "reactivate" \in s.sets => b.items[s.item].stopped
SourceRuns(b, s) ==
    /\ s.budget \in b.budgets /\ (s.item # None => HasItem(b, s.item))
    /\ <<s.budget, s.cat, s.item>> \notin b.sources

Runs(b, s) ==
    /\ s.tool # "category" => s.cat \in b.cats \cup {None}
    /\ CASE s.tool = "category" -> CategoryRuns(b, s)
         [] s.tool = "automation" -> s.item # None => HasItem(b, s.item)
         [] s.tool = "recurring" -> ~Tracked(b, s.payee)
         [] s.tool = "update recurring" -> UpdateRuns(b, s)
         [] s.tool = "change budget" -> s.budget \in b.budgets
         [] s.tool = "source" -> SourceRuns(b, s)
         [] OTHER -> TRUE

Each(b, T, F(_)) == [b EXCEPT !.tx = [t \in Txns |-> IF t \in T /\ b.tx[t].here THEN F(b.tx[t]) ELSE b.tx[t]]]
Given(cat, old) == IF cat = None THEN old ELSE cat

\* An automation, at the end of those there are, sorts what no older one of its kind does.
Sorted(b, s, i) ==
    LET Older(P(_)) == UNION {b.autos[n].finds : n \in {m \in DOMAIN b.autos : P(b.autos[m])}}
        catFinds == s.finds \ Older(LAMBDA a : a.cat # None)
        itemFinds == s.finds \ Older(LAMBDA a : a.item # None)
        Sort(x, payee) ==
            [x EXCEPT !.item = IF i # None /\ b.items[i].active /\ payee \in itemFinds THEN i ELSE @,
                      !.cat = IF s.cat # None /\ payee \in catFinds /\ ~x.chosen THEN s.cat ELSE @]
    IN [b EXCEPT !.autos = Append(@, [finds |-> s.finds, cat |-> s.cat, item |-> i]),
                 !.tx = [t \in Txns |-> IF b.tx[t].here /\ "future" \notin s.sets
                                         THEN Sort(b.tx[t], PayeeOf[t]) ELSE b.tx[t]]]

Created(b, s, i) ==
    Each([b EXCEPT !.items[i] = [state |-> "here", payee |-> s.payee, cat |-> s.cat, active |-> TRUE,
                                 stopped |-> FALSE]],
         {t \in Txns : PayeeOf[t] = s.payee}, LAMBDA x : [x EXCEPT !.item = i, !.cat = Given(s.cat, @)])

Updated(b, s) ==
    LET i == s.item
        resumed == ~b.items[i].active /\ s.sets \cap {"resume", "reactivate"} # {}
        set == [b.items[i] EXCEPT
                   !.cat = IF "category" \in s.sets THEN s.cat ELSE @,
                   !.active = IF "pause" \in s.sets THEN FALSE
                              ELSE @ \/ s.sets \cap {"resume", "reactivate"} # {},
                   !.stopped = IF "cancel" \in s.sets THEN TRUE ELSE @ /\ "reactivate" \notin s.sets]
        recategorised ==
            Each([b EXCEPT !.items[i] = set], {t \in Txns : b.tx[t].item = i},
                 LAMBDA x : IF "category" \in s.sets THEN [x EXCEPT !.cat = s.cat] ELSE x)
    IN Each(recategorised, IF resumed THEN {t \in Txns : PayeeOf[t] = set.payee} ELSE {},
            LAMBDA x : [x EXCEPT !.item = i, !.cat = Given(set.cat, @)])

Categorized(b, s) == Each(b, s.txns, LAMBDA x : [x EXCEPT !.cat = s.cat, !.chosen = TRUE])
CategoryAdded(b, s) == [b EXCEPT !.cats = @ \cup {s.cat}, !.groups = @ \cup {s.group}]
SourceAdded(b, s) == [b EXCEPT !.sources = @ \cup {<<s.budget, s.cat, s.item>>}]

\* The books after a change; new is the row it adds, if it adds one.
Run(b, s, new) ==
    CASE s.tool = "categorize" -> Categorized(b, s)
      [] s.tool = "category" -> CategoryAdded(b, s)
      [] s.tool = "automation" -> Sorted(b, s, s.item)
      [] s.tool = "recurring" -> IF s.finds = {} THEN Created(b, s, new) ELSE Sorted(Created(b, s, new), s, new)
      [] s.tool = "update recurring" -> Updated(b, s)
      [] s.tool = "budget" -> [b EXCEPT !.budgets = @ \cup {new}]
      [] s.tool = "source" -> SourceAdded(b, s)
      [] OTHER -> b

\* The books as a request sees them after so many of its changes.
After(b, steps, ids, n) ==
    LET after[k \in 0..n] == IF k = 0 THEN b ELSE Run(after[k - 1], steps[k], ids[k])
    IN after[n]
------------------------------------------------------------------------------
(* A question                                                                *)

Set(r, q) == req' = [req EXCEPT ![r] = q]
Done(r, p, what) == Set(r, [Idle EXCEPT !.of = p, !.told = what])

Ask(r, c) ==
    /\ req[r].pc = "idle" /\ NewTag <= Asked
    /\ c # None => chat[c] # None
    /\ Set(r, [Idle EXCEPT !.pc = "asking", !.chat = c, !.tag = NewTag,
                           !.had = IF c = None THEN << >> ELSE chat[c]])
    /\ UNCHANGED <<books, proposal, chat, seen, made>>

Round(r) == req[r].pc = "asking" /\ req[r].rounds < ROUNDS
Reply(q, p) == [q EXCEPT !.pc = "saving", !.of = p, !.shown = << >>, !.rounds = 0, !.fixes = 0]

InBooks(row) ==
    CASE row[1] = "T" -> books.tx[row[2]].here
      [] row[1] = "S" -> HasItem(books, row[2])
      [] row[1] = "B" -> row[2] \in books.budgets

\* Look-ups go first, and changes asked for with them are left for another round.
LookUp(r, row) ==
    /\ Round(r) /\ InBooks(row) /\ row \notin ToSet(req[r].shown)
    /\ LET q == [req[r] EXCEPT !.rounds = @ + 1, !.shown = Append(@, row)] IN
       /\ Set(r, q) /\ seen' = seen \cup {[code |-> CodeOf(q, row), row |-> row]}
    /\ UNCHANGED <<books, proposal, chat, made>>

\* A look-up that finds nothing, or a tool there isn't.
InVain(r) ==
    /\ Round(r) /\ Set(r, [req[r] EXCEPT !.rounds = @ + 1])
    /\ UNCHANGED <<books, proposal, chat, seen, made>>

\* Words alone, or no round left.
OnlyWords(r) ==
    /\ req[r].pc = "asking" /\ Set(r, Reply(req[r], 0))
    /\ UNCHANGED <<books, proposal, chat, seen, made>>

\* The steps that codes and names stand for; what a code doesn't stand for is None.
RowFor(q, w, kind, id) ==
    LET found == Resolve(q, w[<<kind, id>>]) IN IF found = {} THEN None ELSE (CHOOSE x \in found : TRUE)[2]
Resolved(q, w, s) ==
    [s EXCEPT !.txns = {RowFor(q, w, "T", t) : t \in s.txns},
              !.item = IF s.item = None THEN None ELSE RowFor(q, w, "S", s.item),
              !.budget = IF s.budget = None THEN None ELSE RowFor(q, w, "B", s.budget)]
AllRefs(a) == UNION {Refs(a[k]) : k \in DOMAIN a}
\* The AI writes the rows it means as any code it was given for them.
Written(a) == {w \in [AllRefs(a) -> {e.code : e \in seen}] :
                   \A row \in AllRefs(a) : [code |-> w[row], row |-> row] \in seen}

\* Changes are kept, and committed, when none of them has a problem.
Propose(r, p, a, w) ==
    LET steps == [k \in DOMAIN a |-> Resolved(req[r], w, a[k])] IN
    /\ Round(r) /\ proposal[p].status = "none" /\ (p - 1 \in Proposals => proposal[p - 1].status # "none")
    /\ \A row \in AllRefs(a) : Resolve(req[r], w[row]) # {}
    /\ AllWorded(books, steps)
    /\ proposal' = [proposal EXCEPT ![p] = [NoProposal EXCEPT !.status = "pending", !.steps = steps,
                                                              !.meant = [k \in DOMAIN a |-> Refs(a[k])]]]
    /\ made' = [made EXCEPT ![p] = [k \in DOMAIN a |-> 0]]
    /\ Set(r, Reply(req[r], p))
    /\ UNCHANGED <<books, chat, seen>>

\* The AI is asked to put a problem right, a few times.
PutRight(r, a, w) ==
    LET steps == [k \in DOMAIN a |-> Resolved(req[r], w, a[k])] IN
    /\ Round(r)
    /\ (\A row \in AllRefs(a) : Resolve(req[r], w[row]) # {}) => ~AllWorded(books, steps)
    /\ Set(r, IF req[r].fixes >= FIXES THEN Reply(req[r], 0)
              ELSE [req[r] EXCEPT !.rounds = @ + 1, !.fixes = @ + 1])
    /\ UNCHANGED <<books, proposal, chat, seen, made>>

\* The reply is kept with the conversation as it was read before the AI was asked.
Save(r, new) ==
    /\ req[r].pc = "saving"
    /\ LET c == IF req[r].chat = None THEN new ELSE req[r].chat IN
       IF req[r].chat # None /\ chat[c] = None THEN UNCHANGED chat
       ELSE /\ req[r].chat = None => chat[new] = None
            /\ chat' = [chat EXCEPT ![c] = Append(req[r].had, [tag |-> req[r].tag, proposal |-> req[r].of])]
    /\ Set(r, Idle)
    /\ UNCHANGED <<books, proposal, seen, made>>

DeleteChat(c) ==
    /\ chat[c] # None /\ chat' = [chat EXCEPT ![c] = None]
    /\ UNCHANGED <<books, proposal, req, seen, made>>
------------------------------------------------------------------------------
(* A decision                                                                *)

\* A slip: the row is read without a lock.
LockedNever(p) == FALSE
Locked(p) == \E r \in Requests : req[r].pc = "approving" /\ req[r].of = p

Settled(r, p) ==
    /\ proposal[p].status \in {"approved", "rejected"} /\ Done(r, p, proposal[p].status)
    /\ UNCHANGED <<books, proposal, chat, seen, made>>

Approve(r, p) ==
    /\ req[r].pc = "idle" /\ proposal[p].status = "pending" /\ ~Locked(p)
    /\ IF proposal[p].aged THEN Done(r, p, "nothing changed")
       ELSE Set(r, [Idle EXCEPT !.pc = "approving", !.of = p])
    /\ UNCHANGED <<books, proposal, chat, seen, made>>

Reject(r, p) ==
    /\ req[r].pc = "idle" /\ proposal[p].status = "pending" /\ ~Locked(p)
    /\ proposal' = [proposal EXCEPT ![p].status = "rejected"] /\ Done(r, p, "rejected")
    /\ UNCHANGED <<books, chat, seen, made>>

DecideAgain(r, p) == req[r].pc = "idle" /\ ~Locked(p) /\ Settled(r, p)

View(r) == After(books, proposal[req[r].of].steps, req[r].ids, req[r].k)
Approving == {r \in Requests : req[r].pc = "approving"}
DoneSteps(r) == {proposal[req[r].of].steps[k] : k \in 1..req[r].k}
\* Names of categories and groups, and rows, that other approvals add wait for their end.
Waits(r, s) ==
    \E q \in Approving \ {r} : \E d \in DoneSteps(q) :
        \/ d.tool = "category" /\ s.tool = d.tool /\ d.cat = s.cat
        \/ d.newGroup /\ s.newGroup /\ d.group = s.group
        \/ d.tool = "source" /\ s.tool = "source" /\ <<d.budget, d.cat, d.item>> = <<s.budget, s.cat, s.item>>
        \/ d.tool = "update recurring" /\ s.tool = d.tool /\ d.item = s.item
        \/ d.tool = "categorize" /\ s.tool = d.tool /\ d.txns \cap s.txns # {}

\* The rows there is room for, that a step may add.
NewRow(r, s) ==
    LET inUse == UNION {ToSet(req[q].ids) : q \in Approving} IN
    CASE s.tool = "recurring" -> {i \in Items : books.items[i].state = "none"} \ inUse
      [] s.tool = "budget" -> Budgets \ (books.budgets \cup inUse)
      [] OTHER -> {None}

\* One change, on what the changes before it left; one that can't be made undoes them all.
RunStep(r, new) ==
    LET q == req[r]
        s == proposal[q.of].steps[q.k + 1]
    IN  /\ q.pc = "approving" /\ q.k < Len(proposal[q.of].steps) /\ ~Waits(r, s)
        /\ new \in NewRow(r, s)
        /\ IF Runs(View(r), s) THEN Set(r, [q EXCEPT !.k = @ + 1, !.ids = Append(@, new)])
           ELSE Done(r, q.of, "nothing changed")
        /\ UNCHANGED <<books, proposal, chat, seen, made>>

Commit(r) ==
    LET q == req[r] IN
    /\ q.pc = "approving" /\ q.k = Len(proposal[q.of].steps)
    /\ books' = View(r)
    /\ made' = [made EXCEPT ![q.of] = [k \in DOMAIN @ |-> @[k] + 1]]
    /\ proposal' = [proposal EXCEPT ![q.of].status = "approved"]
    /\ Done(r, q.of, "approved")
    /\ UNCHANGED <<chat, seen>>

\* The process dies, the AI can't be reached, or the database refuses: what was
\* committed stays.
Die(r) == req[r].pc # "idle" /\ Set(r, Idle) /\ UNCHANGED <<books, proposal, chat, seen, made>>
------------------------------------------------------------------------------
(* Meanwhile                                                                 *)

\* Nobody decided on it in time.
Age(p) ==
    /\ proposal[p].status = "pending" /\ ~proposal[p].aged
    /\ proposal' = [proposal EXCEPT ![p].aged = TRUE]
    /\ UNCHANGED <<books, chat, req, seen, made>>

\* People delete a category, a payment, a subscription or a budget.
InHand(Uses(_)) == \E r \in Approving : \E d \in DoneSteps(r) : Uses(d)
DeleteCategory(c) ==
    /\ c \in books.cats /\ ~InHand(LAMBDA d : d.cat = c)
    /\ books' = [books EXCEPT !.cats = @ \ {c},
                     !.tx = [t \in Txns |-> IF @[t].cat = c THEN [@[t] EXCEPT !.cat = None, !.chosen = FALSE] ELSE @[t]],
                     !.items = [i \in Items |-> IF @[i].cat = c THEN [@[i] EXCEPT !.cat = None] ELSE @[i]],
                     !.autos = [n \in DOMAIN @ |-> IF @[n].cat = c THEN [@[n] EXCEPT !.cat = None] ELSE @[n]],
                     !.sources = {x \in @ : x[2] # c}]
    /\ UNCHANGED <<proposal, chat, req, seen, made>>
DeleteTransaction(t) ==
    /\ books.tx[t].here /\ ~InHand(LAMBDA d : t \in d.txns)
    /\ books' = [books EXCEPT !.tx[t].here = FALSE]
    /\ UNCHANGED <<proposal, chat, req, seen, made>>

Next ==
    \/ \E r \in Requests :
          \/ \E c \in Chats \cup {None} : Ask(r, c)
          \/ \E row \in Rows : LookUp(r, row)
          \/ InVain(r) \/ OnlyWords(r)
          \/ \E a \in Asks : \E w \in Written(a) : PutRight(r, a, w) \/ \E p \in Proposals : Propose(r, p, a, w)
          \/ \E c \in Chats : Save(r, c)
          \/ \E p \in Proposals : Approve(r, p) \/ Reject(r, p) \/ DecideAgain(r, p)
          \/ \E new \in Items \cup Budgets \cup {None} : RunStep(r, new)
          \/ Commit(r) \/ Die(r)
    \/ \E c \in Chats : DeleteChat(c)
    \/ \E p \in Proposals : Age(p)
    \/ \E c \in Cats : DeleteCategory(c)
    \/ \E t \in Txns : DeleteTransaction(t)

Spec == Init /\ [][Next]_vars
------------------------------------------------------------------------------
(* "The changes the AI proposed, all together or not at all": however often *)
(* and at whatever moment a proposal is approved, turned down, left or       *)
(* interrupted, it is decided on once, made once if it is approved and not   *)
(* at all otherwise, and every answer says which (ai/proposals.py:181-250).  *)
D == INSTANCE Decision WITH
        MaxChanges <- MAX_CHANGES,
        status <- [p \in Proposals |-> proposal[p].status],
        told <- [r \in Requests |-> IF req[r].pc = "idle" THEN [of |-> req[r].of, what |-> req[r].told]
                                    ELSE [of |-> 0, what |-> "nothing"]]
Decides == D!Spec

(* A code the AI remembers from an earlier answer is not taken for one of   *)
(* this answer's: what is proposed is about the rows it was shown under the  *)
(* codes it wrote (ai/tools/base.py:89-93).                                  *)
CodesMeanTheirRows ==
    \A p \in Proposals : \A k \in DOMAIN proposal[p].steps : Refs(proposal[p].steps[k]) = proposal[p].meant[k]
==============================================================================
