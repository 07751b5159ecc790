------------------------------ MODULE Sorting ------------------------------
(***************************************************************************)
(* Who gives a transaction its category: the household's automations when  *)
(* it arrives, changes, or is there when an automation that covers the     *)
(* past is saved; the people, whose choice the automations keep; and the   *)
(* AI, whose reviews only suggest.  They all run at once, on rows they     *)
(* read a moment before.                                                   *)
(*                                                                         *)
(* Source: backend/app/finance/automations.py and transactions.py,         *)
(* api/automations.py, transactions.py and categories.py, plaid/sync.py,   *)
(* imports/service.py, ai/reviews.py.                                      *)
(*                                                                         *)
(* What an automation looks at in a transaction (payee, description,       *)
(* account, amount, direction) is its "text".  An automation's number is   *)
(* its age: the oldest one wins.                                           *)
(***************************************************************************)
EXTENDS Naturals, FiniteSets

CONSTANTS
    Txns, Cats, Texts,
    Requests,       \* the threads that serve admins
    Sync,           \* the bank sync
    Reviews,        \* the second opinions asked for
    None,
    SyncsAlone,     \* nobody chooses for a transaction a sync is about to write
    MaxAutos,       \* bound: automations ever made
    MaxSaves,       \* bound: automations saved
    MaxEdits,       \* bound: what people and the bank change
    MaxRestarts     \* bound: restarts of the container

ASSUME NoneAssumption == None \notin Txns \cup Cats \cup Texts
ASSUME SyncAssumption == Sync \notin Requests
ASSUME BoundsAssumption == /\ {MaxAutos, MaxSaves, MaxEdits, MaxRestarts} \subseteq Nat
                           /\ SyncsAlone \in BOOLEAN

VARIABLES
    cats,       \* the categories there are
    txn,        \* the transactions' rows
    autos,      \* the automations' rows, by age
    job,        \* what each request and the sync have read and are about to write
    review,     \* the reviews' rows, and how far each has got
    recs,       \* the recommendations' rows: one per transaction and category
    wish,       \* history: the category someone last chose for a transaction
    saves, edits, restarts

writeVars == <<job, saves, edits, restarts>>
vars == <<cats, txn, autos, job, review, recs, wish, saves, edits, restarts>>

Procs == Requests \cup {Sync}
Ages == 1..MaxAutos
Given == Cats \cup {None}

-----------------------------------------------------------------------------
(* Rows                                                                    *)

Transaction == [state : {"new", "here", "gone"}, text : Texts \cup {None}, category : Given, chosen : BOOLEAN]
Settings == [texts : SUBSET Texts, category : Given, past : BOOLEAN, active : BOOLEAN]
Automation == [state : {"unborn", "saved", "gone"}, set : Settings]
Recommendation == [status : {"none", "open", "applied", "dismissed"}, current : Given]
Job == [kind : {"idle", "adding", "changing", "saving"}, txn : Txns \cup {None}, text : Texts \cup {None},
        category : Given, chosen : BOOLEAN, age : 0..MaxAutos, set : Settings, reach : SUBSET Texts]
Review == [status : {"none", "pending", "running", "done", "failed"}, alive : BOOLEAN, left : SUBSET Txns,
           at : {"between", "asking", "storing"}, txn : Txns \cup {None}, seen : Given, pick : Given,
           offered : SUBSET Cats]

NoSettings == [texts |-> {}, category |-> None, past |-> FALSE, active |-> FALSE]
NoTxn == [state |-> "new", text |-> None, category |-> None, chosen |-> FALSE]
NoAutomation == [state |-> "unborn", set |-> NoSettings]
NoRec == [status |-> "none", current |-> None]
RowJob(kind, t, text, category, chosen) ==
    [kind |-> kind, txn |-> t, text |-> text, category |-> category, chosen |-> chosen,
     age |-> 0, set |-> NoSettings, reach |-> {}]
SetJob(age, set, reach) ==
    [kind |-> "saving", txn |-> None, text |-> None, category |-> None, chosen |-> FALSE,
     age |-> age, set |-> set, reach |-> reach]
NoJob == RowJob("idle", None, None, None, FALSE)
NoReview == [status |-> "none", alive |-> FALSE, left |-> {}, at |-> "between", txn |-> None,
             seen |-> None, pick |-> None, offered |-> {}]

Here(t) == txn[t].state = "here"
Exist == cats \cup {None}

\* The automations that RuleBook.load finds and that give a category to this.
Rules(text) == {n \in Ages : /\ autos[n].state = "saved" /\ autos[n].set.active
                             /\ text \in autos[n].set.texts /\ autos[n].set.category # None}

\* The oldest wins.
Picked(text) ==
    IF \E n \in Rules(text) : \A m \in Rules(text) : n <= m
    THEN autos[CHOOSE n \in Rules(text) : \A m \in Rules(text) : n <= m].set.category
    ELSE None

\* The category RuleBook.sort leaves a transaction with.
Sorted(text, category, kept) ==
    IF Picked(text) # None /\ ~kept THEN Picked(text) ELSE category

\* The texts an automation doesn't sort, because an older one gives those a category.
Claimed(age) == {text \in Texts : \E n \in Rules(text) : n < age}

\* Nothing points at a row that is gone: transactions, automations and
\* suggestions have categories that exist, whoever removes those meanwhile.
TypeOK ==
    /\ cats \subseteq Cats
    /\ txn \in [Txns -> Transaction] /\ \A t \in Txns : txn[t].category \in Exist
    /\ autos \in [Ages -> Automation] /\ \A n \in Ages : autos[n].set.category \in Exist
    /\ job \in [Procs -> Job]
    /\ \A p \in Procs : job[p].kind = "saving" => job[p].age \in Ages /\ job[p].set.category \in Exist
    /\ review \in [Reviews -> Review]
    /\ recs \in [Txns -> [Cats -> Recommendation]]
    /\ \A t \in Txns, c \in Cats : recs[t][c].current \in Exist
    /\ \A t \in Txns, c \in Cats : recs[t][c].status # "none" => c \in cats /\ Here(t)
    /\ wish \in [Txns -> Given]
    /\ saves \in Nat /\ edits \in Nat /\ restarts \in Nat

Init ==
    /\ cats = Cats
    /\ txn = [t \in Txns |-> NoTxn]
    /\ autos = [n \in Ages |-> NoAutomation]
    /\ job = [p \in Procs |-> NoJob]
    /\ review = [r \in Reviews |-> NoReview]
    /\ recs = [t \in Txns |-> [c \in Cats |-> NoRec]]
    /\ wish = [t \in Txns |-> None]
    /\ saves = 0 /\ edits = 0 /\ restarts = 0

-----------------------------------------------------------------------------
(* Transactions arrive                                                     *)

\* By hand, in a file or from the bank, with the category its form, file or
\* bank says.  It is sorted as it is made, and inserted later.
Arrive(p, t, text, category, byHand) ==
    /\ job[p].kind = "idle" /\ txn[t].state = "new"
    /\ \A q \in Procs : job[q].txn # t
    /\ category \in Exist
    /\ byHand => p # Sync
    /\ LET chosen == byHand /\ category # None
       IN  job' = [job EXCEPT ![p] = RowJob("adding", t, text, Sorted(text, category, chosen), chosen)]
    /\ UNCHANGED <<cats, txn, autos, review, recs, wish, saves, edits, restarts>>

\* The commit, or a rollback when the category is gone by now.
Insert(p) ==
    /\ job[p].kind = "adding"
    /\ job' = [job EXCEPT ![p] = NoJob]
    /\ \/ /\ job[p].category \in Exist
          /\ txn' = [txn EXCEPT ![job[p].txn] =
                 [state |-> "here", text |-> job[p].text, category |-> job[p].category, chosen |-> job[p].chosen]]
          /\ wish' = [wish EXCEPT ![job[p].txn] = IF job[p].chosen THEN job[p].category ELSE None]
       \/ /\ job[p].category \notin Exist
          /\ UNCHANGED <<txn, wish>>
    /\ UNCHANGED <<cats, autos, review, recs, saves, edits, restarts>>

\* The bank changed a transaction: its row is read, unlocked, and sorted again.
\* Its category is written only when the sorting changed it.
BankChanges(t, text) ==
    /\ job[Sync].kind = "idle" /\ Here(t) /\ edits < MaxEdits
    /\ LET sorted == Sorted(text, txn[t].category, txn[t].chosen)
           write == IF sorted # txn[t].category THEN sorted ELSE None
       IN  job' = [job EXCEPT ![Sync] = RowJob("changing", t, text, write, FALSE)]
    /\ edits' = edits + 1
    /\ UNCHANGED <<cats, txn, autos, review, recs, wish, saves, restarts>>

Rewritten(row, j) == [row EXCEPT !.text = j.text, !.category = IF j.category = None THEN @ ELSE j.category]

\* The sync writes what it changed, or fails when the row or its category is gone.
SyncWrites ==
    LET j == job[Sync] IN
    /\ j.kind = "changing"
    /\ job' = [job EXCEPT ![Sync] = NoJob]
    /\ \/ /\ Here(j.txn) /\ j.category \in Exist
          /\ txn' = [txn EXCEPT ![j.txn] = Rewritten(@, j)]
       \/ /\ ~(Here(j.txn) /\ j.category \in Exist)
          /\ UNCHANGED txn
    /\ UNCHANGED <<cats, autos, review, recs, wish, saves, edits, restarts>>

-----------------------------------------------------------------------------
(* Automations                                                             *)

Locked(age) == \E p \in Procs : job[p].kind = "saving" /\ job[p].age = age

Free(age) == autos[age].state = "unborn" /\ ~Locked(age)

\* Writes the automation's row, looks at the ones that win over it, and is about to
\* sort what is there: everything it covers, or what its new texts do.
Save(p, age, set, texts) ==
    /\ job[p].kind = "idle" /\ saves < MaxSaves
    /\ set.texts # {} /\ set.category \in Exist
    /\ LET reach == IF set.active /\ set.past /\ set.category # None THEN texts \ Claimed(age) ELSE {}
       IN  job' = [job EXCEPT ![p] = SetJob(age, set, reach)]
    /\ saves' = saves + 1
    /\ UNCHANGED <<cats, txn, autos, review, recs, wish, edits, restarts>>

CreateAutomation(p, set) ==
    /\ p # Sync /\ set.active
    /\ \E age \in Ages : /\ Free(age) /\ \A n \in 1..(age - 1) : ~Free(n)
                         /\ Save(p, age, set, set.texts)

SortsEverythingAgain(old, set) ==
    \/ set.active /\ ~old.active
    \/ set.past /\ ~old.past
    \/ set.category # old.category

UpdateAutomation(p, age, set) ==
    /\ p # Sync /\ autos[age].state = "saved" /\ ~Locked(age)
    /\ LET old == autos[age].set
       IN  Save(p, age, set, IF SortsEverythingAgain(old, set) THEN set.texts ELSE set.texts \ old.texts)

\* A slip: the sorting of what is there forgets who chose.
SortableAll(t, reach) == Here(t) /\ txn[t].text \in reach

\* _give_category's conditions, which the UPDATE looks at as it locks each row.
Sortable(t, reach) == Here(t) /\ txn[t].text \in reach /\ ~txn[t].chosen

CommitAutomation(p) ==
    LET j == job[p] IN
    /\ j.kind = "saving"
    /\ autos' = [autos EXCEPT ![j.age] = [state |-> "saved", set |-> j.set]]
    /\ txn' = [t \in Txns |-> IF Sortable(t, j.reach) THEN [txn[t] EXCEPT !.category = j.set.category] ELSE txn[t]]
    /\ job' = [job EXCEPT ![p] = NoJob]
    /\ UNCHANGED <<cats, review, recs, wish, saves, edits, restarts>>

DeleteAutomation(age) ==
    /\ autos[age].state = "saved" /\ ~Locked(age)
    /\ autos' = [autos EXCEPT ![age] = [NoAutomation EXCEPT !.state = "gone"]]
    /\ UNCHANGED <<cats, txn, review, recs, wish, writeVars>>

-----------------------------------------------------------------------------
(* People                                                                  *)

Edit == edits < MaxEdits /\ edits' = edits + 1

\* Whether a person may choose for it now.
Choosable(t) == Here(t) /\ (SyncsAlone => ~(job[Sync].kind = "changing" /\ job[Sync].txn = t))

\* PATCH /transactions/{id}: the category, when the request has one (choosing
\* the one it has already changes nothing), and then what automations look at,
\* by which they sort it again.
UpdateTransaction(t, text, says, category) ==
    /\ Edit /\ Choosable(t) /\ (says \/ text # txn[t].text)
    /\ says => category \in Exist
    /\ ~says => category = txn[t].category
    /\ LET differs == category # txn[t].category
           chosen == IF differs THEN category # None ELSE txn[t].chosen
           kept == says \/ chosen
       IN  /\ txn' = [txn EXCEPT ![t] = [@ EXCEPT !.text = text, !.chosen = chosen,
                  !.category = IF text # txn[t].text THEN Sorted(text, category, kept) ELSE category]]
           /\ wish' = IF differs THEN [wish EXCEPT ![t] = category] ELSE wish
    /\ UNCHANGED <<cats, autos, job, review, recs, saves, restarts>>

\* Several at once, in one UPDATE: chosen even where it has that category already.
Categorize(t, category) ==
    /\ Edit /\ Choosable(t) /\ category \in Exist
    /\ txn' = [txn EXCEPT ![t] = [@ EXCEPT !.category = category, !.chosen = category # None]]
    /\ wish' = [wish EXCEPT ![t] = category]
    /\ UNCHANGED <<cats, autos, job, review, recs, saves, restarts>>

DeleteTransaction(t) ==
    /\ Edit /\ Here(t)
    /\ txn' = [txn EXCEPT ![t] = [NoTxn EXCEPT !.state = "gone"]]
    /\ recs' = [recs EXCEPT ![t] = [c \in Cats |-> NoRec]]
    /\ wish' = [wish EXCEPT ![t] = None]
    /\ UNCHANGED <<cats, autos, job, review, saves, restarts>>

\* DELETE /categories/{id}: its transactions and automations move to another
\* one, or have none.  It waits for an automation being saved that has it.
Refiled(x, c, moveTo) == IF x = c THEN moveTo ELSE x

\* A slip: automations aren't moved.
AutosLeft(c, moveTo) == autos

RefiledSet(set, c, moveTo) == [set EXCEPT !.category = Refiled(@, c, moveTo)]
AutosAfter(c, moveTo) == [n \in Ages |-> [autos[n] EXCEPT !.set = RefiledSet(@, c, moveTo)]]

\* The suggestions of it go with it; the ones for transactions that had it forget that.
RecsAfter(c) == [t \in Txns |-> [d \in Cats |->
    IF d = c THEN NoRec ELSE [recs[t][d] EXCEPT !.current = Refiled(@, c, None)]]]

DeleteCategory(c, moveTo) ==
    /\ Edit /\ c \in cats /\ moveTo \in Exist \ {c}
    /\ \A p \in Procs : job[p].kind = "saving" => c \notin {job[p].set.category, autos[job[p].age].set.category}
    /\ cats' = cats \ {c}
    /\ txn' = [t \in Txns |-> [txn[t] EXCEPT !.category = Refiled(@, c, moveTo)]]
    /\ autos' = AutosAfter(c, moveTo)
    /\ recs' = RecsAfter(c)
    /\ wish' = [t \in Txns |-> Refiled(wish[t], c, moveTo)]
    /\ UNCHANGED <<job, review, saves, restarts>>

-----------------------------------------------------------------------------
(* Second opinions                                                         *)

Waiting(t) == \E c \in Cats : recs[t][c].status = "open"

ToReview == {t \in Txns : Here(t) /\ ~txn[t].chosen /\ ~Waiting(t)}

\* Some of what there is to review, as the request or the import asked.
StartReview(r, ids) ==
    /\ review[r].status = "none" /\ ids \subseteq ToReview
    /\ review' = [review EXCEPT ![r] = [NoReview EXCEPT !.left = ids, !.alive = ids # {},
                                        !.status = IF ids # {} THEN "pending" ELSE "done"]]
    /\ UNCHANGED <<cats, txn, autos, recs, wish, writeVars>>

Goes(r, status) == review[r].alive /\ review[r].status = status

RunReview(r) ==
    /\ Goes(r, "pending")
    /\ review' = [review EXCEPT ![r] = [@ EXCEPT !.status = "running", !.offered = cats]]
    /\ UNCHANGED <<cats, txn, autos, recs, wish, writeVars>>

Past(r, t) == [review[r] EXCEPT !.left = @ \ {t}, !.at = "between", !.txn = None, !.seen = None, !.pick = None]

Failed(r) == [NoReview EXCEPT !.status = "failed"]

\* A batch of one: those chosen or deleted since are left out.
ReadBatch(r, t) ==
    /\ Goes(r, "running") /\ review[r].at = "between" /\ t \in review[r].left
    /\ review' = [review EXCEPT ![r] =
           IF Here(t) /\ ~txn[t].chosen
           THEN [@ EXCEPT !.at = "asking", !.txn = t, !.seen = txn[t].category] ELSE Past(r, t)]
    /\ UNCHANGED <<cats, txn, autos, recs, wish, writeVars>>

\* The AI answers, and what was suggested before is looked at; or it fails.
Answer(r) ==
    LET v == review[r] IN
    /\ Goes(r, "running") /\ v.at = "asking"
    /\ \/ \E c \in v.offered :
             review' = [review EXCEPT ![r] =
                 IF c # v.seen /\ ~Waiting(v.txn) /\ recs[v.txn][c].status = "none"
                 THEN [@ EXCEPT !.at = "storing", !.pick = c] ELSE Past(r, v.txn)]
       \/ review' = [review EXCEPT ![r] = Past(r, v.txn)]
       \/ review' = [review EXCEPT ![r] = Failed(r)]
    /\ UNCHANGED <<cats, txn, autos, recs, wish, writeVars>>

\* The unique constraint on a transaction and the category suggested for it.
NewSuggestion(t, c) == recs[t][c].status = "none"

\* One that refers to what is gone, or is there already, fails the review.
StoreSuggestion(r) ==
    LET v == review[r] IN
    /\ Goes(r, "running") /\ v.at = "storing"
    /\ \/ /\ Here(v.txn) /\ {v.pick, v.seen} \subseteq Exist /\ NewSuggestion(v.txn, v.pick)
          /\ recs' = [recs EXCEPT ![v.txn] = [@ EXCEPT ![v.pick] = [status |-> "open", current |-> v.seen]]]
          /\ review' = [review EXCEPT ![r] = Past(r, v.txn)]
       \/ /\ ~(Here(v.txn) /\ {v.pick, v.seen} \subseteq Exist /\ NewSuggestion(v.txn, v.pick))
          /\ review' = [review EXCEPT ![r] = Failed(r)]
          /\ UNCHANGED recs
    /\ UNCHANGED <<cats, txn, autos, wish, writeVars>>

FinishReview(r) ==
    /\ Goes(r, "running") /\ review[r].at = "between" /\ review[r].left = {}
    /\ review' = [review EXCEPT ![r] = [NoReview EXCEPT !.status = "done"]]
    /\ UNCHANGED <<cats, txn, autos, recs, wish, writeVars>>

Now(rec, status) == [rec EXCEPT !.status = status]
Decided(t, c, status) == [recs EXCEPT ![t] = [@ EXCEPT ![c] = Now(recs[t][c], status)]]

\* A slip: one that was turned down can still be applied.
AwaitsStill(t, c) == recs[t][c].status # "none"

Awaits(t, c) == recs[t][c].status = "open"

\* As if someone chose it, unless it has another category by now or was chosen
\* since: then the suggestion is dismissed.
Apply(t, c) ==
    /\ Awaits(t, c)
    /\ \/ /\ Choosable(t)
          /\ txn[t].category = recs[t][c].current /\ ~txn[t].chosen
          /\ txn' = [txn EXCEPT ![t] = [@ EXCEPT !.category = c, !.chosen = TRUE]]
          /\ wish' = [wish EXCEPT ![t] = c]
          /\ recs' = Decided(t, c, "applied")
       \/ /\ txn[t].category # recs[t][c].current \/ txn[t].chosen
          /\ recs' = Decided(t, c, "dismissed")
          /\ UNCHANGED <<txn, wish>>
    /\ UNCHANGED <<cats, autos, review, writeVars>>

Dismiss(t, c) ==
    /\ Awaits(t, c)
    /\ recs' = Decided(t, c, "dismissed")
    /\ UNCHANGED <<cats, txn, autos, review, wish, writeVars>>

\* A slip: one that never started is forgotten.
UnfinishedStarted == {"running"}

Unfinished == {"pending", "running"}

\* Someone looks at the reviews, long after a restart cut some off.  One
\* that still runs ends well before it would count as stale.
StopStale ==
    /\ \E r \in Reviews : review[r].status \in Unfinished /\ ~review[r].alive
    /\ review' = [r \in Reviews |->
           IF review[r].status \in Unfinished /\ ~review[r].alive THEN Failed(r) ELSE review[r]]
    /\ UNCHANGED <<cats, txn, autos, recs, wish, writeVars>>

\* Nothing uncommitted survives, and no review goes on.
Restart ==
    /\ restarts < MaxRestarts /\ restarts' = restarts + 1
    /\ job' = [p \in Procs |-> NoJob]
    /\ review' = [r \in Reviews |-> [review[r] EXCEPT !.alive = FALSE]]
    /\ UNCHANGED <<cats, txn, autos, recs, wish, saves, edits>>

-----------------------------------------------------------------------------

Arrivals == \E p \in Procs, t \in Txns, text \in Texts, category \in Given, byHand \in BOOLEAN :
                Arrive(p, t, text, category, byHand)
Writes == SyncWrites \/ \E p \in Procs : Insert(p) \/ CommitAutomation(p)
BankEdits == \E t \in Txns, text \in Texts : BankChanges(t, text)
Automating == \/ \E p \in Requests, set \in Settings :
                     CreateAutomation(p, set) \/ \E age \in Ages : UpdateAutomation(p, age, set)
              \/ \E age \in Ages : DeleteAutomation(age)
Choosing == \/ \E t \in Txns, text \in Texts, says \in BOOLEAN, category \in Given :
                   UpdateTransaction(t, text, says, category)
            \/ \E t \in Txns, category \in Given : Categorize(t, category)
            \/ \E t \in Txns : DeleteTransaction(t)
            \/ \E c \in Cats, moveTo \in Given : DeleteCategory(c, moveTo)
Deciding == \E t \in Txns, c \in Cats : Apply(t, c) \/ Dismiss(t, c)
Reviewing(r) == \/ RunReview(r) \/ Answer(r) \/ StoreSuggestion(r) \/ FinishReview(r)
                \/ \E t \in Txns : ReadBatch(r, t)
Asking == \E r \in Reviews, ids \in SUBSET Txns : StartReview(r, ids)

\* What happens while the container runs.
Working == \/ Arrivals \/ Writes \/ BankEdits \/ Automating \/ Choosing \/ Deciding
           \/ Asking \/ \E r \in Reviews : Reviewing(r)

Next == Working \/ StopStale \/ Restart

Spec == Init /\ [][Next]_vars

\* A review that runs goes on, since every request to an AI times out, and the
\* household looks at its reviews again: the page that shows one asks about it
\* until it is over.
FairSpec == Spec /\ (\A r \in Reviews : WF_vars(Reviewing(r))) /\ WF_vars(StopStale)

-----------------------------------------------------------------------------
(* Properties                                                              *)

\* automations.py: automations "never take one away or change what someone
\* chose by hand".  A transaction has the category someone last chose for it,
\* and is marked so, whatever sorts, reviews or refiles meanwhile.
ChoiceKept == \A t \in Txns : wish[t] # None => txn[t].category = wish[t] /\ txn[t].chosen

\* models/ai.py: "Something suggested, and then dismissed, isn't suggested
\* again": a suggestion someone decided about never waits again.
DecidedOnce == [][\A t \in Txns, c \in Cats :
    recs[t][c].status \in {"applied", "dismissed"} => recs'[t][c].status \in {recs[t][c].status, "none"}]_vars

\* Every review ends, even one that a restart cut off, so it "doesn't look busy for good".
ReviewsEnd == \A r \in Reviews : review[r].status \in {"pending", "running"} ~> review[r].status \in {"done", "failed"}
=============================================================================
