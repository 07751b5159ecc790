--------------------------- MODULE SortingProofs ---------------------------
(***************************************************************************)
(* Proofs about Sorting for any transactions, categories, texts, requests  *)
(* and reviews, however many automations there are and however often       *)
(* anything changes: nothing points at a category that is gone, a decided  *)
(* suggestion never waits again, and, when nobody chooses for a            *)
(* transaction a sync is about to write, what someone chose stays.         *)
(***************************************************************************)
EXTENDS Sorting, TLAPS

USE NoneAssumption, SyncAssumption, BoundsAssumption

\* TypeOK in two parts: the rows' types, and what they point at.
Types ==
    /\ cats \subseteq Cats
    /\ txn \in [Txns -> Transaction] /\ autos \in [Ages -> Automation]
    /\ job \in [Procs -> Job] /\ review \in [Reviews -> Review]
    /\ recs \in [Txns -> [Cats -> Recommendation]]
    /\ wish \in [Txns -> Given]
    /\ saves \in Nat /\ edits \in Nat /\ restarts \in Nat

Saving(p) == job[p].kind = "saving" => job[p].age \in Ages /\ job[p].set.category \in Exist

References ==
    /\ \A t \in Txns : txn[t].category \in Exist
    /\ \A n \in Ages : autos[n].set.category \in Exist
    /\ \A p \in Procs : Saving(p)
    /\ \A t \in Txns, c \in Cats : recs[t][c].current \in Exist
    /\ \A t \in Txns, c \in Cats : recs[t][c].status # "none" => c \in cats /\ Here(t)

-----------------------------------------------------------------------------
(* The rows that the actions make                                          *)

LEMMA EmptyRows ==
    /\ NoSettings \in Settings /\ NoTxn \in Transaction /\ NoAutomation \in Automation
    /\ NoRec \in Recommendation /\ NoJob \in Job /\ NoReview \in Review
<1>1. NoSettings \in Settings
  BY DEF NoSettings, Settings, Given
<1> QED
  BY <1>1 DEF NoTxn, Transaction, NoAutomation, Automation, NoRec, Recommendation, NoJob, RowJob, Job,
              NoReview, Review, Given

LEMMA JobsAre ==
    /\ \A kind \in {"idle", "adding", "changing"}, t \in Txns \cup {None}, text \in Texts \cup {None},
          category \in Given, chosen \in BOOLEAN : RowJob(kind, t, text, category, chosen) \in Job
    /\ \A age \in Ages, set \in Settings, reach \in SUBSET Texts : SetJob(age, set, reach) \in Job
BY EmptyRows DEF Job, RowJob, SetJob, Ages, Given

LEMMA PickedIsGiven ==
    ASSUME Types, References, NEW text
    PROVE  Picked(text) \in Exist
<1>1. CASE \E n \in Rules(text) : \A m \in Rules(text) : n <= m
  <2> DEFINE n == CHOOSE n \in Rules(text) : \A m \in Rules(text) : n <= m
  <2>1. n \in Rules(text)
    BY <1>1
  <2>2. n \in Ages
    BY <2>1 DEF Rules
  <2>3. Picked(text) = autos[n].set.category
    BY <1>1 DEF Picked
  <2> QED
    BY <2>2, <2>3 DEF References
<1>2. CASE ~\E n \in Rules(text) : \A m \in Rules(text) : n <= m
  BY <1>2 DEF Picked, Exist
<1> QED
  BY <1>1, <1>2

LEMMA SortedIsGiven ==
    ASSUME Types, References, NEW text, NEW category \in Exist, NEW kept
    PROVE  Sorted(text, category, kept) \in Exist
BY PickedIsGiven DEF Sorted

LEMMA ExistIsGiven == Types => Exist \subseteq Given
BY DEF Types, Exist, Given

-----------------------------------------------------------------------------
(* Types                                                                   *)

LEMMA InitTypes == Init => Types /\ References
<1> SUFFICES ASSUME Init PROVE Types /\ References
  OBVIOUS
<1>1. Types
  BY EmptyRows DEF Init, Types, Given
<1>2. References
  BY DEF Init, References, Exist, Saving, NoTxn, NoAutomation, NoSettings, NoJob, RowJob, NoRec
<1> QED
  BY <1>1, <1>2

LEMMA ArriveTypes ==
    ASSUME Types, References, NEW p \in Procs, NEW t \in Txns, NEW text \in Texts, NEW category \in Given,
           NEW byHand \in BOOLEAN, Arrive(p, t, text, category, byHand)
    PROVE  Types' /\ References'
<1> DEFINE chosen == byHand /\ category # None
           new == RowJob("adding", t, text, Sorted(text, category, chosen), chosen)
<1>1. new \in Job /\ new.kind = "adding"
  <2>1. Sorted(text, category, chosen) \in Given
    BY SortedIsGiven, ExistIsGiven DEF Arrive
  <2>2. new.kind = "adding"
    BY DEF RowJob
  <2> QED
    BY <2>1, <2>2, JobsAre
<1>2. job' = [job EXCEPT ![p] = new]
  BY DEF Arrive
<1> HIDE DEF new
<1>3. Types'
  BY <1>1, <1>2 DEF Types, Arrive
<1>4. References'
  BY <1>1, <1>2 DEF References, Types, Arrive, Saving, Exist, Here
<1> QED
  BY <1>3, <1>4

LEMMA InsertTypes ==
    ASSUME Types, References, NEW p \in Procs, Insert(p)
    PROVE  Types' /\ References'
<1>1. job' = [job EXCEPT ![p] = NoJob] /\ NoJob \in Job /\ NoJob.kind = "idle"
  BY EmptyRows DEF Insert, NoJob, RowJob
<1>2. job[p] \in Job
  BY DEF Types
<1> DEFINE row == [state |-> "here", text |-> job[p].text, category |-> job[p].category, chosen |-> job[p].chosen]
<1>3. row \in Transaction
  BY <1>2 DEF Job, Transaction
<1>4. CASE job[p].category \in Exist /\ txn' = [txn EXCEPT ![job[p].txn] = row]
           /\ wish' = [wish EXCEPT ![job[p].txn] = IF job[p].chosen THEN job[p].category ELSE None]
  <2> HIDE DEF row
  <2>1. row.category \in Exist /\ row.state = "here"
    BY <1>4 DEF row
  <2>2. wish' \in [Txns -> Given]
    BY <1>4, ExistIsGiven DEF Types, Given
  <2>3. Types'
    BY <1>1, <1>3, <1>4, <2>2 DEF Types, Insert
  <2>4. References'
    BY <1>1, <1>4, <2>1 DEF Types, References, Insert, Saving, Exist, Here
  <2> QED
    BY <2>3, <2>4
<1>5. CASE UNCHANGED <<txn, wish>>
  <2>1. Types'
    BY <1>1, <1>5 DEF Types, Insert
  <2>2. References'
    BY <1>1, <1>5 DEF Types, References, Insert, Saving, Exist, Here
  <2> QED
    BY <2>1, <2>2
<1> QED
  BY <1>4, <1>5 DEF Insert

LEMMA BankChangesTypes ==
    ASSUME Types, References, NEW t \in Txns, NEW text \in Texts, BankChanges(t, text)
    PROVE  Types' /\ References'
<1> DEFINE sorted == Sorted(text, txn[t].category, txn[t].chosen)
           write == IF sorted # txn[t].category THEN sorted ELSE None
           new == RowJob("changing", t, text, write, FALSE)
<1>1. new \in Job /\ new.kind = "changing"
  <2>1. write \in Given
    BY SortedIsGiven, ExistIsGiven DEF References, Given
  <2>2. new.kind = "changing"
    BY DEF RowJob
  <2> QED
    BY <2>1, <2>2, JobsAre
<1>2. job' = [job EXCEPT ![Sync] = new]
  BY DEF BankChanges
<1> HIDE DEF new
<1>3. Types'
  <2>1. edits' \in Nat
    BY DEF Types, BankChanges
  <2> QED
    BY <1>1, <1>2, <2>1 DEF Types, BankChanges
<1>4. References'
  BY <1>1, <1>2 DEF References, Types, BankChanges, Saving, Exist, Here
<1> QED
  BY <1>3, <1>4

LEMMA SyncWritesTypes ==
    ASSUME Types, References, SyncWrites
    PROVE  Types' /\ References'
<1> DEFINE j == job[Sync]
           row == Rewritten(txn[j.txn], j)
<1>1. job' = [job EXCEPT ![Sync] = NoJob] /\ NoJob \in Job /\ NoJob.kind = "idle"
  BY EmptyRows DEF SyncWrites, NoJob, RowJob
<1>2. j \in Job
  BY DEF Types, Procs
<1>3. UNCHANGED <<cats, autos, review, recs, wish, saves, edits, restarts>>
  BY DEF SyncWrites
<1>4. job' \in [Procs -> Job] /\ \A p \in Procs : Saving(p)'
  BY <1>1, <1>3 DEF Types, References, Saving, Exist
<1>5. CASE Here(j.txn) /\ j.category \in Exist /\ j.txn \in Txns /\ txn' = [txn EXCEPT ![j.txn] = row]
  <2>1. txn[j.txn] \in Transaction /\ txn[j.txn].category \in Exist
    BY <1>5 DEF Types, References
  <2>2. row \in Transaction /\ row.category \in Exist /\ row.state = "here"
    BY <1>2, <1>5, <2>1, ExistIsGiven DEF Transaction, Job, Here, Rewritten
  <2> HIDE DEF row, j
  <2>3. Types'
    BY <1>5, <1>3, <1>4, <2>2 DEF Types
  <2>4. References'
    BY <1>5, <1>3, <1>4, <2>2 DEF Types, References, Exist, Here
  <2> QED
    BY <2>3, <2>4
<1>6. CASE UNCHANGED txn
  <2>1. Types'
    BY <1>6, <1>3, <1>4 DEF Types
  <2>2. References'
    BY <1>6, <1>3, <1>4 DEF References, Exist, Here
  <2> QED
    BY <2>1, <2>2
<1>7. CASE Here(j.txn) /\ j.category \in Exist /\ txn' = [txn EXCEPT ![j.txn] = row] /\ j.txn \notin Txns
  <2>1. UNCHANGED txn
    BY <1>7 DEF Types
  <2> QED
    BY <2>1, <1>6
<1>8. \/ Here(j.txn) /\ j.category \in Exist /\ txn' = [txn EXCEPT ![j.txn] = row]
      \/ UNCHANGED txn
  BY DEF SyncWrites
<1> QED
  BY <1>5, <1>6, <1>7, <1>8

LEMMA SaveTypes ==
    ASSUME Types, References, NEW p \in Procs, NEW age \in Ages, NEW set \in Settings,
           NEW texts \in SUBSET Texts, Save(p, age, set, texts)
    PROVE  Types' /\ References'
<1> DEFINE reach == IF set.active /\ set.past /\ set.category # None THEN texts \ Claimed(age) ELSE {}
           new == SetJob(age, set, reach)
<1>1. new \in Job /\ new.age = age /\ new.set = set
  <2>1. reach \in SUBSET Texts
    OBVIOUS
  <2>2. new.age = age /\ new.set = set
    BY DEF SetJob
  <2> QED
    BY <2>1, <2>2, JobsAre
<1>2. job' = [job EXCEPT ![p] = new] /\ set.category \in Exist
  BY DEF Save
<1> HIDE DEF new
<1>3. Types'
  <2>1. saves' \in Nat
    BY DEF Types, Save
  <2> QED
    BY <1>1, <1>2, <2>1 DEF Types, Save
<1>4. References'
  BY <1>1, <1>2 DEF References, Types, Save, Saving, Exist, Here
<1> QED
  BY <1>3, <1>4

LEMMA CommitAutomationTypes ==
    ASSUME Types, References, NEW p \in Procs, CommitAutomation(p)
    PROVE  Types' /\ References'
<1> DEFINE j == job[p]
           new == [state |-> "saved", set |-> j.set]
<1>1. job' = [job EXCEPT ![p] = NoJob] /\ NoJob \in Job /\ NoJob.kind = "idle"
  BY EmptyRows DEF CommitAutomation, NoJob, RowJob
<1>2. j.age \in Ages /\ j.set \in Settings /\ j.set.category \in Exist
  BY DEF Types, References, Saving, CommitAutomation, Job
<1>3. new \in Automation /\ new.set.category \in Exist
  BY <1>2 DEF Automation
<1>4. autos' = [autos EXCEPT ![j.age] = new]
  BY DEF CommitAutomation
<1>5. \A t \in Txns : /\ txn'[t] \in Transaction /\ txn'[t].category \in Exist
                      /\ txn'[t].state = txn[t].state
  <2> TAKE t \in Txns
  <2>1. txn[t] \in Transaction /\ txn[t].category \in Exist
    BY DEF Types, References
  <2>2. txn'[t] = [txn[t] EXCEPT !.category = j.set.category] \/ txn'[t] = txn[t]
    BY DEF CommitAutomation
  <2> QED
    BY <1>2, <2>1, <2>2, ExistIsGiven DEF Transaction
<1>6. txn' = [t \in Txns |-> txn'[t]]
  BY DEF CommitAutomation
<1>7. txn' \in [Txns -> Transaction]
  BY <1>5, <1>6
<1>8. UNCHANGED <<cats, review, recs, wish, saves, edits, restarts>>
  BY DEF CommitAutomation
<1> HIDE DEF new, j
<1>9. Types'
  <2>1. autos' \in [Ages -> Automation] /\ job' \in [Procs -> Job]
    BY <1>1, <1>3, <1>4 DEF Types
  <2> QED
    BY <1>7, <1>8, <2>1 DEF Types
<1>10. References'
  BY <1>1, <1>3, <1>4, <1>5, <1>8 DEF Types, References, Saving, Exist, Here
<1> QED
  BY <1>9, <1>10

LEMMA DeleteAutomationTypes ==
    ASSUME Types, References, NEW age \in Ages, DeleteAutomation(age)
    PROVE  Types' /\ References'
<1> DEFINE new == [NoAutomation EXCEPT !.state = "gone"]
<1>1. new \in Automation /\ new.set.category = None
  BY EmptyRows DEF NoAutomation, Automation, NoSettings
<1>2. autos' = [autos EXCEPT ![age] = new]
  BY DEF DeleteAutomation
<1> HIDE DEF new
<1>3. Types'
  BY <1>1, <1>2 DEF Types, DeleteAutomation, writeVars
<1>4. References'
  BY <1>1, <1>2 DEF Types, References, DeleteAutomation, writeVars, Saving, Exist, Here
<1> QED
  BY <1>3, <1>4

\* A transaction gets a category that exists, and no row goes.
LEMMA ChosenTypes ==
    ASSUME Types, References, NEW t \in Txns, NEW row \in Transaction, row.category \in Exist,
           row.state = txn[t].state, txn' = [txn EXCEPT ![t] = row],
           NEW category \in Exist, wish' = wish \/ wish' = [wish EXCEPT ![t] = category],
           edits' \in Nat, UNCHANGED <<cats, autos, job, review, recs, saves, restarts>>
    PROVE  Types' /\ References'
<1>1. wish' \in [Txns -> Given]
  BY ExistIsGiven DEF Types
<1>2. Types'
  BY <1>1 DEF Types
<1>3. References'
  BY DEF Types, References, Saving, Exist, Here
<1> QED
  BY <1>2, <1>3

LEMMA UpdateTransactionTypes ==
    ASSUME Types, References, NEW t \in Txns, NEW text \in Texts, NEW says \in BOOLEAN, NEW category \in Given,
           UpdateTransaction(t, text, says, category)
    PROVE  Types' /\ References'
<1> DEFINE differs == category # txn[t].category
           chosen == IF differs THEN category # None ELSE txn[t].chosen
           kept == says \/ chosen
           given == IF text # txn[t].text THEN Sorted(text, category, kept) ELSE category
           row == [txn[t] EXCEPT !.text = text, !.chosen = chosen, !.category = given]
<1>1. txn[t] \in Transaction /\ txn[t].category \in Exist
  BY DEF Types, References
<1>2. category \in Exist
  BY <1>1 DEF UpdateTransaction
<1>3. given \in Exist
  BY <1>2, SortedIsGiven
<1>4. chosen \in BOOLEAN
  BY <1>1 DEF Transaction
<1>5. txn' = [txn EXCEPT ![t] = row]
  BY DEF UpdateTransaction
<1>6. wish' = wish \/ wish' = [wish EXCEPT ![t] = category]
  BY DEF UpdateTransaction
<1> HIDE DEF given, chosen
<1>7. row \in Transaction /\ row.category \in Exist /\ row.state = txn[t].state
  BY <1>1, <1>3, <1>4, ExistIsGiven DEF Transaction
<1>8. edits' \in Nat /\ UNCHANGED <<cats, autos, job, review, recs, saves, restarts>>
  BY DEF UpdateTransaction, Edit, Types
<1> HIDE DEF row
<1> QED
  BY <1>2, <1>5, <1>6, <1>7, <1>8, ChosenTypes

LEMMA CategorizeTypes ==
    ASSUME Types, References, NEW t \in Txns, NEW category \in Given, Categorize(t, category)
    PROVE  Types' /\ References'
<1> DEFINE chosen == category # None
           row == [txn[t] EXCEPT !.category = category, !.chosen = chosen]
<1>1. txn[t] \in Transaction
  BY DEF Types
<1>2. category \in Exist
  BY DEF Categorize
<1>3. chosen \in BOOLEAN
  OBVIOUS
<1>4. txn' = [txn EXCEPT ![t] = row]
  BY DEF Categorize
<1> HIDE DEF chosen
<1>5. row \in Transaction /\ row.category \in Exist /\ row.state = txn[t].state
  BY <1>1, <1>2, <1>3 DEF Transaction
<1>6. /\ edits' \in Nat /\ UNCHANGED <<cats, autos, job, review, recs, saves, restarts>>
      /\ wish' = [wish EXCEPT ![t] = category]
  BY DEF Categorize, Edit, Types
<1> HIDE DEF row
<1> QED
  BY <1>2, <1>4, <1>5, <1>6, ChosenTypes

LEMMA DeleteTransactionTypes ==
    ASSUME Types, References, NEW t \in Txns, DeleteTransaction(t)
    PROVE  Types' /\ References'
<1> DEFINE row == [NoTxn EXCEPT !.state = "gone"]
           none == [c \in Cats |-> NoRec]
<1>1. row \in Transaction /\ row.category = None
  BY EmptyRows DEF NoTxn, Transaction
<1>2. none \in [Cats -> Recommendation] /\ \A c \in Cats : none[c].status = "none" /\ none[c].current = None
  BY EmptyRows DEF NoRec
<1>3. txn' = [txn EXCEPT ![t] = row] /\ recs' = [recs EXCEPT ![t] = none]
  BY DEF DeleteTransaction
<1> HIDE DEF row, none
<1>4. Types'
  <2>1. edits' \in Nat /\ wish' \in [Txns -> Given]
    BY DEF DeleteTransaction, Edit, Types, Given
  <2>2. txn' \in [Txns -> Transaction] /\ recs' \in [Txns -> [Cats -> Recommendation]]
    BY <1>1, <1>2, <1>3 DEF Types
  <2>3. UNCHANGED <<cats, autos, job, review, saves, restarts>>
    BY DEF DeleteTransaction
  <2> QED
    BY <2>1, <2>2, <2>3 DEF Types
<1>5. References'
  <2>1. UNCHANGED <<cats, autos, job>>
    BY DEF DeleteTransaction
  <2>2. \A n \in Txns : txn'[n].category \in Exist
    BY <1>1, <1>3 DEF Types, References, Exist
  <2>3. \A n \in Txns, c \in Cats :
           recs'[n][c].current \in Exist /\ (recs'[n][c].status # "none" => c \in cats /\ Here(n)')
    <3> TAKE n \in Txns, c \in Cats
    <3>1. CASE n = t
      BY <1>2, <1>3, <3>1 DEF Types, Exist
    <3>2. CASE n # t
      BY <1>3, <3>2 DEF Types, References, Here
    <3> QED
      BY <3>1, <3>2
  <2> QED
    BY <2>1, <2>2, <2>3 DEF References, Saving, Exist
<1> QED
  BY <1>4, <1>5

LEMMA DeleteCategoryTypes ==
    ASSUME Types, References, NEW c \in Cats, NEW moveTo \in Given, DeleteCategory(c, moveTo)
    PROVE  Types' /\ References'
<1>1. /\ cats' = cats \ {c} /\ c \in cats /\ moveTo \in Exist \ {c} /\ c # None
      /\ txn' = [t \in Txns |-> [txn[t] EXCEPT !.category = Refiled(@, c, moveTo)]]
      /\ autos' = [n \in Ages |-> [autos[n] EXCEPT !.set = RefiledSet(@, c, moveTo)]]
      /\ recs' = [t \in Txns |-> [d \in Cats |->
             IF d = c THEN NoRec ELSE [recs[t][d] EXCEPT !.current = Refiled(@, c, None)]]]
      /\ wish' = [t \in Txns |-> Refiled(wish[t], c, moveTo)]
      /\ UNCHANGED <<job, review, saves, restarts>>
  BY DEF DeleteCategory, AutosAfter, RecsAfter
<1>2. \A x \in Exist : Refiled(x, c, moveTo) \in Exist' /\ Refiled(x, c, None) \in Exist'
  BY <1>1 DEF Exist, Refiled
<1>3. Exist' \subseteq Given
  BY <1>1 DEF Exist, Types, Given
<1>4. \A t \in Txns : /\ txn'[t] \in Transaction /\ txn'[t].category \in Exist'
                      /\ txn'[t].state = txn[t].state
  <2> TAKE t \in Txns
  <2>1. txn[t] \in Transaction /\ txn[t].category \in Exist
    BY DEF Types, References
  <2>2. txn'[t] = [txn[t] EXCEPT !.category = Refiled(txn[t].category, c, moveTo)]
    BY <1>1
  <2> QED
    BY <1>2, <1>3, <2>1, <2>2 DEF Transaction
<1>5. \A n \in Ages : autos'[n] \in Automation /\ autos'[n].set.category \in Exist'
  <2> TAKE n \in Ages
  <2>1. autos[n] \in Automation /\ autos[n].set.category \in Exist /\ autos[n].set \in Settings
    BY DEF Types, References, Automation
  <2> DEFINE set == RefiledSet(autos[n].set, c, moveTo)
  <2>2. autos'[n] = [autos[n] EXCEPT !.set = set]
    BY <1>1
  <2>3. set \in Settings /\ set.category \in Exist'
    BY <1>2, <1>3, <2>1 DEF Settings, RefiledSet
  <2> HIDE DEF set
  <2> QED
    BY <2>1, <2>2, <2>3 DEF Automation
<1>6. \A t \in Txns, d \in Cats :
         /\ recs'[t][d] \in Recommendation /\ recs'[t][d].current \in Exist'
         /\ recs'[t][d].status # "none" => d # c /\ recs'[t][d].status = recs[t][d].status
  <2> TAKE t \in Txns, d \in Cats
  <2>1. recs[t][d] \in Recommendation /\ recs[t][d].current \in Exist
    BY DEF Types, References
  <2>2. CASE d = c
    <3>1. recs'[t][d] = NoRec
      BY <1>1, <2>2
    <3> QED
      BY <3>1, EmptyRows DEF NoRec, Exist
  <2>3. CASE d # c
    <3>1. recs'[t][d] = [recs[t][d] EXCEPT !.current = Refiled(recs[t][d].current, c, None)]
      BY <1>1, <2>3
    <3> QED
      BY <1>2, <1>3, <2>1, <2>3, <3>1 DEF Recommendation
  <2> QED
    BY <2>2, <2>3
<1>7. Types'
  <2>1. cats' \subseteq Cats /\ edits' \in Nat
    BY <1>1 DEF Types, DeleteCategory, Edit
  <2>2. txn' \in [Txns -> Transaction] /\ autos' \in [Ages -> Automation]
    BY <1>1, <1>4, <1>5
  <2>3. recs' \in [Txns -> [Cats -> Recommendation]]
    <3>1. \A t \in Txns : recs'[t] \in [Cats -> Recommendation]
      BY <1>1, <1>6
    <3> QED
      BY <1>1, <3>1
  <2>4. wish' \in [Txns -> Given]
    BY <1>1 DEF Types, Refiled
  <2> QED
    BY <1>1, <2>1, <2>2, <2>3, <2>4 DEF Types
<1>8. References'
  <2>1. \A p \in Procs : Saving(p)'
    BY <1>1 DEF References, Saving, Exist, DeleteCategory
  <2>2. ASSUME NEW t \in Txns, NEW d \in Cats, recs'[t][d].status # "none"
        PROVE  d \in cats' /\ Here(t)'
    <3>1. d # c /\ recs[t][d].status # "none"
      BY <1>6, <2>2
    <3>2. d \in cats /\ Here(t)
      BY <3>1 DEF References
    <3>3. cats' = cats \ {c} /\ txn'[t].state = txn[t].state
      BY <1>1, <1>4
    <3> QED
      BY <3>1, <3>2, <3>3 DEF Here
  <2> QED
    BY <1>4, <1>5, <1>6, <2>1, <2>2 DEF References
<1> QED
  BY <1>7, <1>8

-----------------------------------------------------------------------------
(* Second opinions                                                         *)

LEMMA ReviewTypes ==
    ASSUME Types, References, review' \in [Reviews -> Review],
           UNCHANGED <<cats, txn, autos, recs, wish, writeVars>>
    PROVE  Types' /\ References'
<1>1. Types'
  BY DEF Types, writeVars
<1>2. References'
  BY DEF References, writeVars, Saving, Exist, Here
<1> QED
  BY <1>1, <1>2

LEMMA PastIsReview ==
    ASSUME Types, NEW r \in Reviews, NEW t
    PROVE  Past(r, t) \in Review
<1>1. review[r] \in Review
  BY DEF Types
<1> QED
  BY <1>1 DEF Past, Review, Given

LEMMA FailedIsReview == \A r \in Reviews : Failed(r) \in Review
BY EmptyRows DEF Failed, Review

LEMMA RunningTypes ==
    ASSUME Types, References, NEW r \in Reviews,
           \/ \E ids \in SUBSET Txns : StartReview(r, ids)
           \/ RunReview(r) \/ Answer(r) \/ FinishReview(r)
           \/ \E t \in Txns : ReadBatch(r, t)
    PROVE  Types' /\ References'
<1>1. review[r] \in Review
  BY DEF Types
<1>2. SUFFICES ASSUME NEW v \in Review, review' = [review EXCEPT ![r] = v]
               PROVE  review' \in [Reviews -> Review]
  <2>1. CASE \E ids \in SUBSET Txns : StartReview(r, ids)
    <3>1. PICK ids \in SUBSET Txns : StartReview(r, ids)
      BY <2>1
    <3> DEFINE v == [NoReview EXCEPT !.left = ids, !.alive = ids # {},
                                     !.status = IF ids # {} THEN "pending" ELSE "done"]
    <3>2. v \in Review
      <4>1. CASE ids = {}
        BY <4>1, EmptyRows DEF Review
      <4>2. CASE ids # {}
        BY <4>2, EmptyRows DEF Review
      <4> QED
        BY <4>1, <4>2
    <3>3. review' = [review EXCEPT ![r] = v] /\ UNCHANGED <<cats, txn, autos, recs, wish, writeVars>>
      BY <3>1 DEF StartReview
    <3> HIDE DEF v
    <3> QED
      BY <1>2, <3>2, <3>3, ReviewTypes
  <2>2. CASE RunReview(r)
    <3> DEFINE v == [review[r] EXCEPT !.status = "running", !.offered = cats]
    <3>1. v \in Review
      BY <1>1 DEF Review, Types
    <3>2. review' = [review EXCEPT ![r] = v] /\ UNCHANGED <<cats, txn, autos, recs, wish, writeVars>>
      BY <2>2 DEF RunReview
    <3> HIDE DEF v
    <3> QED
      BY <1>2, <3>1, <3>2, ReviewTypes
  <2>3. CASE Answer(r)
    <3>1. UNCHANGED <<cats, txn, autos, recs, wish, writeVars>>
      BY <2>3 DEF Answer
    <3>2. PICK v : /\ review' = [review EXCEPT ![r] = v]
                   /\ \/ \E c \in review[r].offered : v = [review[r] EXCEPT !.at = "storing", !.pick = c]
                      \/ v = Past(r, review[r].txn)
                      \/ v = Failed(r)
      BY <2>3 DEF Answer
    <3>3. v \in Review
      <4>1. \A c \in review[r].offered : [review[r] EXCEPT !.at = "storing", !.pick = c] \in Review
        <5> TAKE c \in review[r].offered
        <5>1. c \in Given
          BY <1>1 DEF Review, Given
        <5> QED
          BY <1>1, <5>1 DEF Review
      <4> QED
        BY <3>2, <4>1, PastIsReview, FailedIsReview
    <3> QED
      BY <1>2, <3>1, <3>2, <3>3, ReviewTypes
  <2>4. CASE FinishReview(r)
    <3> DEFINE v == [NoReview EXCEPT !.status = "done"]
    <3>1. v \in Review
      BY EmptyRows DEF Review
    <3>2. review' = [review EXCEPT ![r] = v] /\ UNCHANGED <<cats, txn, autos, recs, wish, writeVars>>
      BY <2>4 DEF FinishReview
    <3> HIDE DEF v
    <3> QED
      BY <1>2, <3>1, <3>2, ReviewTypes
  <2>5. CASE \E t \in Txns : ReadBatch(r, t)
    <3>1. PICK t \in Txns : ReadBatch(r, t)
      BY <2>5
    <3> DEFINE read == [review[r] EXCEPT !.at = "asking", !.txn = t, !.seen = txn[t].category]
               v == IF Here(t) /\ ~txn[t].chosen THEN read ELSE Past(r, t)
    <3>2. read \in Review
      <4>1. txn[t].category \in Given
        BY DEF Types, Transaction
      <4> QED
        BY <1>1, <4>1 DEF Review
    <3>3. v \in Review
      BY <3>2, PastIsReview
    <3>4. review' = [review EXCEPT ![r] = v] /\ UNCHANGED <<cats, txn, autos, recs, wish, writeVars>>
      BY <3>1 DEF ReadBatch
    <3> HIDE DEF v
    <3> QED
      BY <1>2, <3>3, <3>4, ReviewTypes
  <2> QED
    BY <2>1, <2>2, <2>3, <2>4, <2>5
<1> QED
  BY <1>2 DEF Types

LEMMA StoreSuggestionTypes ==
    ASSUME Types, References, NEW r \in Reviews, StoreSuggestion(r)
    PROVE  Types' /\ References'
<1> DEFINE v == review[r]
           rec == [status |-> "open", current |-> v.seen]
<1>1. v \in Review
  BY DEF Types
<1>2. CASE /\ Here(v.txn) /\ {v.pick, v.seen} \subseteq Exist /\ NewSuggestion(v.txn, v.pick)
           /\ recs' = [recs EXCEPT ![v.txn] = [@ EXCEPT ![v.pick] = rec]]
           /\ review' = [review EXCEPT ![r] = Past(r, v.txn)]
  <2>1. UNCHANGED <<cats, txn, autos, wish, writeVars>>
    BY DEF StoreSuggestion
  <2>2. rec \in Recommendation /\ rec.current \in Exist
    BY <1>1, <1>2 DEF Review, Recommendation
  <2>3. \A t \in Txns, c \in Cats : recs'[t][c] = IF t = v.txn /\ c = v.pick THEN rec ELSE recs[t][c]
    BY <1>2 DEF Types
  <2>4. recs' \in [Txns -> [Cats -> Recommendation]]
    BY <1>2, <2>2 DEF Types
  <2>5. review' \in [Reviews -> Review]
    BY <1>2, PastIsReview DEF Types
  <2>6. Types'
    BY <2>1, <2>4, <2>5 DEF Types, writeVars
  <2>7. v.pick \in cats \cup {None}
    BY <1>2 DEF Exist
  <2>8. \A t \in Txns, c \in Cats :
           recs'[t][c].current \in Exist /\ (recs'[t][c].status # "none" => c \in cats /\ Here(t))
    <3> TAKE t \in Txns, c \in Cats
    <3> HIDE DEF rec
    <3> QED
      BY <1>2, <2>2, <2>3, <2>7 DEF References
  <2> HIDE DEF v, rec
  <2> QED
    BY <2>1, <2>6, <2>8 DEF References, Saving, Exist, Here, writeVars
<1>3. CASE review' = [review EXCEPT ![r] = Failed(r)] /\ UNCHANGED recs
  <2>1. review' \in [Reviews -> Review]
    BY <1>3, FailedIsReview DEF Types
  <2> QED
    BY <1>3, <2>1, ReviewTypes DEF StoreSuggestion
<1> QED
  BY <1>2, <1>3 DEF StoreSuggestion

LEMMA DecisionTypes ==
    ASSUME Types, References, NEW t \in Txns, NEW c \in Cats, Apply(t, c) \/ Dismiss(t, c)
    PROVE  Types' /\ References'
<1>1. recs[t][c] \in Recommendation /\ recs[t][c].status = "open" /\ c \in cats /\ Here(t)
  BY DEF Apply, Dismiss, Awaits, Types, References
<1>2. \A status \in {"applied", "dismissed"} :
         /\ Decided(t, c, status) \in [Txns -> [Cats -> Recommendation]]
         /\ \A u \in Txns, d \in Cats : /\ Decided(t, c, status)[u][d].current = recs[u][d].current
                                        /\ Decided(t, c, status)[u][d].status # "none" => d \in cats /\ Here(u)
  <2> TAKE status \in {"applied", "dismissed"}
  <2> DEFINE new == Now(recs[t][c], status)
  <2>1. new \in Recommendation /\ new.current = recs[t][c].current
    BY <1>1 DEF Recommendation, Now
  <2>2. Decided(t, c, status) = [recs EXCEPT ![t] = [recs[t] EXCEPT ![c] = new]]
    BY DEF Decided
  <2> HIDE DEF new
  <2>3. Decided(t, c, status) \in [Txns -> [Cats -> Recommendation]]
    BY <2>1, <2>2 DEF Types
  <2>4. \A u \in Txns, d \in Cats : Decided(t, c, status)[u][d] = IF u = t /\ d = c THEN new ELSE recs[u][d]
    BY <2>2 DEF Types
  <2> QED
    BY <1>1, <2>1, <2>3, <2>4 DEF References
<1>3. \E status \in {"applied", "dismissed"} : recs' = Decided(t, c, status)
  BY DEF Apply, Dismiss, Awaits
<1>4. UNCHANGED <<cats, autos, review, writeVars>>
  BY DEF Apply, Dismiss, Awaits
<1>5. /\ txn' \in [Txns -> Transaction] /\ wish' \in [Txns -> Given]
      /\ \A u \in Txns : txn'[u].category \in Exist /\ txn'[u].state = txn[u].state
  <2>1. CASE UNCHANGED <<txn, wish>>
    BY <2>1 DEF Types, References
  <2>2. CASE txn' = [txn EXCEPT ![t] = [@ EXCEPT !.category = c, !.chosen = TRUE]]
             /\ wish' = [wish EXCEPT ![t] = c]
    <3> DEFINE row == [txn[t] EXCEPT !.category = c, !.chosen = TRUE]
    <3>1. row \in Transaction /\ row.category = c /\ row.state = txn[t].state
      <4>1. txn[t] \in Transaction
        BY DEF Types
      <4>2. c \in Given
        BY DEF Given
      <4> QED
        BY <4>1, <4>2 DEF Transaction
    <3>2. txn' = [txn EXCEPT ![t] = row]
      BY <2>2
    <3> HIDE DEF row
    <3> QED
      BY <1>1, <2>2, <3>1, <3>2 DEF Types, References, Exist, Given
  <2> QED
    BY <2>1, <2>2 DEF Apply, Dismiss, Awaits
<1>6. Types'
  BY <1>2, <1>3, <1>4, <1>5 DEF Types, writeVars
<1>7. References'
  <2>1. PICK status \in {"applied", "dismissed"} : recs' = Decided(t, c, status)
    BY <1>3
  <2>2. cats' = cats /\ autos' = autos /\ job' = job
    BY <1>4 DEF writeVars
  <2>3. (\A p \in Procs : Saving(p)') /\ (\A n \in Ages : autos'[n].set.category \in Exist')
    BY <2>2 DEF References, Saving, Exist
  <2>4. \A u \in Txns : txn'[u].category \in Exist' /\ (Here(u) => Here(u)')
    BY <1>5, <2>2 DEF Here, Exist
  <2>5. ASSUME NEW u \in Txns, NEW d \in Cats
        PROVE  recs'[u][d].current \in Exist' /\ (recs'[u][d].status # "none" => d \in cats' /\ Here(u)')
    <3>1. recs'[u][d].current \in Exist /\ (recs'[u][d].status # "none" => d \in cats /\ Here(u))
      <4>1. recs[u][d].current \in Exist
        BY DEF References
      <4>2. recs'[u][d].current = recs[u][d].current
        BY <1>2, <2>1
      <4>3. recs'[u][d].status # "none" => d \in cats /\ Here(u)
        BY <1>2, <2>1
      <4> QED
        BY <4>1, <4>2, <4>3
    <3> QED
      BY <2>2, <2>4, <3>1 DEF Exist
  <2> QED
    BY <2>3, <2>4, <2>5 DEF References
<1> QED
  BY <1>6, <1>7

LEMMA StopStaleTypes ==
    ASSUME Types, References, StopStale
    PROVE  Types' /\ References'
<1>1. review' \in [Reviews -> Review]
  BY FailedIsReview DEF StopStale, Types
<1> QED
  BY <1>1, ReviewTypes DEF StopStale

LEMMA RestartTypes ==
    ASSUME Types, References, Restart
    PROVE  Types' /\ References'
<1>1. job' = [p \in Procs |-> NoJob] /\ NoJob \in Job /\ NoJob.kind = "idle"
  BY EmptyRows DEF Restart, NoJob, RowJob
<1>2. review' \in [Reviews -> Review]
  <2>1. \A r \in Reviews : [review[r] EXCEPT !.alive = FALSE] \in Review
    <3> TAKE r \in Reviews
    <3>1. review[r] \in Review
      BY DEF Types
    <3> QED
      BY <3>1 DEF Review
  <2> QED
    BY <2>1 DEF Restart
<1>3. Types'
  <2>1. restarts' \in Nat /\ job' \in [Procs -> Job]
    BY <1>1 DEF Types, Restart
  <2> QED
    BY <1>2, <2>1 DEF Types, Restart
<1>4. References'
  BY <1>1 DEF References, Restart, Saving, Exist, Here
<1> QED
  BY <1>3, <1>4

LEMMA NextTypes == Types /\ References /\ [Next]_vars => Types' /\ References'
<1> SUFFICES ASSUME Types, References, [Next]_vars PROVE Types' /\ References'
  OBVIOUS
<1>1. CASE Arrivals
  BY <1>1, ArriveTypes DEF Arrivals
<1>2. CASE Writes
  BY <1>2, SyncWritesTypes, InsertTypes, CommitAutomationTypes DEF Writes
<1>3. CASE BankEdits
  BY <1>3, BankChangesTypes DEF BankEdits
<1>4. CASE Automating
  <2>1. CASE \E p \in Requests, set \in Settings : CreateAutomation(p, set)
    <3>1. PICK p \in Requests, set \in Settings : CreateAutomation(p, set)
      BY <2>1
    <3>2. PICK age \in Ages : Save(p, age, set, set.texts)
      BY <3>1 DEF CreateAutomation
    <3> QED
      BY <3>2, SaveTypes DEF Procs, Settings
  <2>2. CASE \E p \in Requests, set \in Settings, age \in Ages : UpdateAutomation(p, age, set)
    <3>1. PICK p \in Requests, set \in Settings, age \in Ages : UpdateAutomation(p, age, set)
      BY <2>2
    <3>2. PICK texts \in SUBSET Texts : Save(p, age, set, texts)
      BY <3>1 DEF UpdateAutomation, Settings
    <3> QED
      BY <3>2, SaveTypes DEF Procs
  <2>3. CASE \E age \in Ages : DeleteAutomation(age)
    BY <2>3, DeleteAutomationTypes
  <2> QED
    BY <1>4, <2>1, <2>2, <2>3 DEF Automating
<1>5. CASE Choosing
  BY <1>5, UpdateTransactionTypes, CategorizeTypes, DeleteTransactionTypes, DeleteCategoryTypes DEF Choosing
<1>6. CASE Deciding
  BY <1>6, DecisionTypes DEF Deciding
<1>7. CASE Asking
  BY <1>7, RunningTypes DEF Asking
<1>8. CASE \E r \in Reviews : Reviewing(r)
  BY <1>8, RunningTypes, StoreSuggestionTypes DEF Reviewing
<1>9. CASE StopStale \/ Restart
  BY <1>9, StopStaleTypes, RestartTypes
<1>10. CASE UNCHANGED vars
  <2>1. UNCHANGED <<cats, txn, autos, recs, wish, writeVars>> /\ review' \in [Reviews -> Review]
    BY <1>10 DEF vars, writeVars, Types
  <2> QED
    BY <2>1, ReviewTypes
<1> QED
  BY <1>1, <1>2, <1>3, <1>4, <1>5, <1>6, <1>7, <1>8, <1>9, <1>10 DEF Next, Working

\* Whatever people, automations, the bank and the AI do at once, and wherever a
\* restart cuts them off, rows have their types and nothing points at a category
\* or a transaction that is gone.
THEOREM TypeCorrect == Spec => []TypeOK
<1>1. Spec => [](Types /\ References)
  BY InitTypes, NextTypes, PTL DEF Spec
<1>2. Types /\ References => TypeOK
  BY DEF Types, References, Saving, TypeOK
<1> QED
  BY <1>1, <1>2, PTL

-----------------------------------------------------------------------------
(* Choices                                                                 *)

IsNew(t) == txn[t].state = "new"
Adding(p) == job[p].kind = "adding"
Changing == job[Sync].kind = "changing"

\* What is being added is not there yet, and what the sync changes has been.
Apart ==
    /\ Changing => job[Sync].txn \in Txns /\ ~IsNew(job[Sync].txn)
    /\ \A p \in Procs : Adding(p) => job[p].txn \in Txns /\ IsNew(job[p].txn)
    /\ \A p, q \in Procs : p # q /\ Adding(p) /\ Adding(q) => job[p].txn # job[q].txn

\* A category that the sync is about to write is for a transaction that nobody
\* chose for.
Gentle == Changing /\ job[Sync].category # None => wish[job[Sync].txn] = None

ChoiceInv == Apart /\ Gentle /\ ChoiceKept

\* Each job stays as it is or ends, and transactions that were there stay or go.
Onward ==
    /\ \A p \in Procs : job'[p] = job[p] \/ job'[p].kind \notin {"adding", "changing"}
    /\ \A t \in Txns : IsNew(t)' <=> IsNew(t)

LEMMA ApartStays == Apart /\ Onward => Apart'
<1> SUFFICES ASSUME Apart, Onward PROVE Apart'
  OBVIOUS
<1>1. \A p \in Procs : (job'[p].kind \in {"adding", "changing"}) => job'[p] = job[p]
  BY DEF Onward
<1>2. Sync \in Procs
  BY DEF Procs
<1>3. Changing' => job'[Sync].txn \in Txns /\ txn'[job'[Sync].txn].state # "new"
  BY <1>1, <1>2 DEF Apart, Onward, Changing, IsNew
<1>4. \A p \in Procs : Adding(p)' => job'[p].txn \in Txns /\ txn'[job'[p].txn].state = "new"
  BY <1>1 DEF Apart, Onward, Adding, IsNew
<1>5. \A p, q \in Procs : p # q /\ Adding(p)' /\ Adding(q)' => job'[p].txn # job'[q].txn
  BY <1>1 DEF Apart, Adding
<1> QED
  BY <1>3, <1>4, <1>5 DEF Apart, Adding, Changing, IsNew

\* Nobody chose, and what was chosen stays.
LEMMA LeftAlone ==
    ASSUME ChoiceInv, Onward, UNCHANGED wish,
           \A t \in Txns : wish[t] # None => txn'[t].category = txn[t].category /\ txn'[t].chosen = txn[t].chosen
    PROVE  ChoiceInv'
<1>1. Apart'
  BY ApartStays DEF ChoiceInv
<1>2. Changing' => job'[Sync] = job[Sync]
  BY DEF Onward, Changing, Procs
<1>3. Gentle'
  BY <1>2 DEF ChoiceInv, Gentle, Changing
<1>4. ChoiceKept'
  BY DEF ChoiceInv, ChoiceKept
<1> QED
  BY <1>1, <1>3, <1>4 DEF ChoiceInv

\* Someone chooses for a transaction that the sync leaves alone.
LEMMA ChoiceMade ==
    ASSUME Types, ChoiceInv, SyncsAlone, NEW t \in Txns, Choosable(t), NEW row, row.state = txn[t].state,
           txn' = [txn EXCEPT ![t] = row], UNCHANGED job,
           NEW category, wish' = [wish EXCEPT ![t] = category],
           category # None => row.category = category /\ row.chosen
    PROVE  ChoiceInv'
<1>1. ChoiceKept'
  BY DEF ChoiceInv, ChoiceKept, Types
<1>2. Onward
  BY DEF Onward, IsNew, Types
<1>3. Changing => job[Sync].txn # t /\ job[Sync].txn \in Txns
  BY DEF Choosable, Changing, ChoiceInv, Apart
<1>4. Gentle'
  BY <1>3 DEF ChoiceInv, Gentle, Changing, Types
<1> QED
  BY <1>1, <1>2, <1>4, ApartStays DEF ChoiceInv

LEMMA ArriveChoice ==
    ASSUME Types, ChoiceInv, NEW p \in Procs, NEW t \in Txns, NEW text \in Texts, NEW category \in Given,
           NEW byHand \in BOOLEAN, Arrive(p, t, text, category, byHand)
    PROVE  ChoiceInv'
<1> DEFINE chosen == byHand /\ category # None
           new == RowJob("adding", t, text, Sorted(text, category, chosen), chosen)
<1>1. new.kind = "adding" /\ new.txn = t
  BY DEF RowJob
<1>2. job' = [job EXCEPT ![p] = new]
  BY DEF Arrive
<1>3. UNCHANGED <<txn, wish>> /\ IsNew(t) /\ \A q \in Procs : job[q].txn # t
  BY DEF Arrive, IsNew
<1> HIDE DEF new
<1>4. Apart'
  BY <1>1, <1>2, <1>3 DEF ChoiceInv, Apart, Changing, Adding, IsNew, Types, Procs
<1>5. Gentle'
  BY <1>1, <1>2, <1>3 DEF ChoiceInv, Gentle, Changing, Types, Procs
<1> QED
  BY <1>3, <1>4, <1>5 DEF ChoiceInv, ChoiceKept

LEMMA InsertChoice ==
    ASSUME Types, ChoiceInv, NEW p \in Procs, Insert(p)
    PROVE  ChoiceInv'
<1> DEFINE t == job[p].txn
           row == [state |-> "here", text |-> job[p].text, category |-> job[p].category, chosen |-> job[p].chosen]
           category == IF job[p].chosen THEN job[p].category ELSE None
<1>1. job' = [job EXCEPT ![p] = NoJob] /\ NoJob.kind = "idle"
  BY DEF Insert, NoJob, RowJob
<1>2. t \in Txns /\ IsNew(t) /\ Adding(p)
  BY DEF Insert, ChoiceInv, Apart, Adding
<1>3. \A q \in Procs : q # p /\ Adding(q) => job[q].txn # t
  BY <1>2 DEF ChoiceInv, Apart
<1>4. Changing => job[Sync].txn # t /\ p # Sync
  BY <1>2 DEF ChoiceInv, Apart, Changing, Adding
<1>5. CASE UNCHANGED <<txn, wish>>
  <2>1. Onward
    BY <1>1, <1>5 DEF Onward, IsNew, Types
  <2> QED
    BY <1>5, <2>1, LeftAlone
<1>6. CASE txn' = [txn EXCEPT ![t] = row] /\ wish' = [wish EXCEPT ![t] = category]
  <2>1. row.state = "here" /\ (category # None => row.category = category /\ row.chosen)
    OBVIOUS
  <2> HIDE DEF row, category, t
  <2>2. ChoiceKept'
    BY <1>6, <2>1 DEF ChoiceInv, ChoiceKept, Types
  <2>3. \A q \in Procs : Adding(q)' => q # p /\ Adding(q) /\ job'[q] = job[q]
    BY <1>1 DEF Adding, Types
  <2>4. Changing' => Changing /\ job'[Sync] = job[Sync]
    BY <1>1 DEF Changing, Types, Procs
  <2>5. \A u \in Txns : u # t => txn'[u] = txn[u] /\ wish'[u] = wish[u]
    BY <1>6 DEF Types
  <2>6. Gentle'
    BY <1>4, <2>4, <2>5 DEF ChoiceInv, Apart, Gentle, Changing
  <2>7. Changing' => job'[Sync].txn \in Txns /\ txn'[job'[Sync].txn].state # "new"
    BY <1>4, <2>4, <2>5 DEF ChoiceInv, Apart, IsNew
  <2>8. \A q \in Procs : Adding(q)' => job'[q].txn \in Txns /\ txn'[job'[q].txn].state = "new"
    BY <1>3, <2>3, <2>5 DEF ChoiceInv, Apart, IsNew
  <2>9. \A q, s \in Procs : q # s /\ Adding(q)' /\ Adding(s)' => job'[q].txn # job'[s].txn
    BY <2>3 DEF ChoiceInv, Apart
  <2>10. Apart'
    BY <2>7, <2>8, <2>9 DEF Apart, IsNew
  <2> QED
    BY <2>2, <2>6, <2>10 DEF ChoiceInv
<1> QED
  BY <1>5, <1>6 DEF Insert

LEMMA BankChangesChoice ==
    ASSUME Types, ChoiceInv, NEW t \in Txns, NEW text \in Texts, BankChanges(t, text)
    PROVE  ChoiceInv'
<1> DEFINE sorted == Sorted(text, txn[t].category, txn[t].chosen)
           write == IF sorted # txn[t].category THEN sorted ELSE None
           new == RowJob("changing", t, text, write, FALSE)
<1>1. write # None => wish[t] = None
  <2>1. wish[t] # None => txn[t].chosen
    BY DEF ChoiceInv, ChoiceKept
  <2> QED
    BY <2>1 DEF Sorted
<1>2. new.kind = "changing" /\ new.txn = t /\ new.category = write
  BY DEF RowJob
<1>3. job' = [job EXCEPT ![Sync] = new] /\ UNCHANGED <<txn, wish>> /\ ~IsNew(t)
  BY DEF BankChanges, Here, IsNew
<1> HIDE DEF new, write
<1>4. Apart'
  BY <1>2, <1>3 DEF ChoiceInv, Apart, Changing, Adding, IsNew, Types, Procs
<1>5. Gentle'
  BY <1>1, <1>2, <1>3 DEF Gentle, Types, Procs
<1> QED
  BY <1>3, <1>4, <1>5 DEF ChoiceInv, ChoiceKept

LEMMA SyncWritesChoice ==
    ASSUME Types, ChoiceInv, SyncWrites
    PROVE  ChoiceInv'
<1> DEFINE j == job[Sync]
<1>1. job' = [job EXCEPT ![Sync] = NoJob] /\ NoJob.kind = "idle" /\ UNCHANGED wish /\ Changing
  BY DEF SyncWrites, NoJob, RowJob, Changing
<1>2. j.txn \in Txns /\ txn[j.txn] \in Transaction
  BY <1>1 DEF ChoiceInv, Apart, Types
<1>3. txn' = [txn EXCEPT ![j.txn] = Rewritten(txn[j.txn], j)] \/ txn' = txn
  BY DEF SyncWrites
<1>4. LET row == Rewritten(txn[j.txn], j) IN
      /\ row.state = txn[j.txn].state /\ row.chosen = txn[j.txn].chosen
      /\ j.category = None => row.category = txn[j.txn].category
  BY <1>2 DEF Rewritten, Transaction
<1>5. j.category # None => wish[j.txn] = None
  BY <1>1 DEF ChoiceInv, Gentle
<1>6. Onward
  BY <1>1, <1>2, <1>3, <1>4 DEF Onward, IsNew, Types
<1> QED
  BY <1>1, <1>2, <1>3, <1>4, <1>5, <1>6, LeftAlone DEF Types

LEMMA SaveChoice ==
    ASSUME Types, ChoiceInv, NEW p \in Procs, NEW age, NEW set, NEW texts, Save(p, age, set, texts)
    PROVE  ChoiceInv'
<1> DEFINE reach == IF set.active /\ set.past /\ set.category # None THEN texts \ Claimed(age) ELSE {}
           new == SetJob(age, set, reach)
<1>1. new.kind = "saving"
  BY DEF SetJob
<1>2. job' = [job EXCEPT ![p] = new] /\ UNCHANGED <<txn, wish>>
  BY DEF Save
<1> HIDE DEF new
<1>3. Onward
  BY <1>1, <1>2 DEF Onward, IsNew, Types
<1> QED
  BY <1>2, <1>3, LeftAlone

LEMMA CommitAutomationChoice ==
    ASSUME Types, ChoiceInv, NEW p \in Procs, CommitAutomation(p)
    PROVE  ChoiceInv'
<1>1. job' = [job EXCEPT ![p] = NoJob] /\ NoJob.kind = "idle" /\ UNCHANGED wish
  BY DEF CommitAutomation, NoJob, RowJob
<1>2. \A t \in Txns : txn'[t].state = txn[t].state /\ (txn[t].chosen => txn'[t] = txn[t])
  <2> TAKE t \in Txns
  <2>1. txn[t] \in Transaction
    BY DEF Types
  <2>2. txn'[t] = IF Sortable(t, job[p].reach) THEN [txn[t] EXCEPT !.category = job[p].set.category] ELSE txn[t]
    BY DEF CommitAutomation
  <2> QED
    BY <2>1, <2>2 DEF Sortable, Transaction
<1>3. Onward
  BY <1>1, <1>2 DEF Onward, IsNew, Types
<1> QED
  BY <1>1, <1>2, <1>3, LeftAlone DEF ChoiceInv, ChoiceKept

LEMMA UpdateTransactionChoice ==
    ASSUME Types, ChoiceInv, SyncsAlone, NEW t \in Txns, NEW text \in Texts, NEW says \in BOOLEAN,
           NEW category \in Given, UpdateTransaction(t, text, says, category)
    PROVE  ChoiceInv'
<1> DEFINE differs == category # txn[t].category
           chosen == IF differs THEN category # None ELSE txn[t].chosen
           kept == says \/ chosen
           given == IF text # txn[t].text THEN Sorted(text, category, kept) ELSE category
           row == [txn[t] EXCEPT !.text = text, !.chosen = chosen, !.category = given]
<1>1. txn[t] \in Transaction
  BY DEF Types
<1>2. txn' = [txn EXCEPT ![t] = row] /\ UNCHANGED job /\ Choosable(t)
  BY DEF UpdateTransaction
<1>3. wish' = IF differs THEN [wish EXCEPT ![t] = category] ELSE wish
  BY DEF UpdateTransaction
<1>4. ~says => ~differs
  BY DEF UpdateTransaction
<1>5. kept => given = category
  BY DEF Sorted
<1>6. differs => kept
  BY <1>4
<1> HIDE DEF given
<1>7. row.state = txn[t].state /\ row.category = given /\ row.chosen = chosen
  BY <1>1 DEF Transaction
<1> HIDE DEF row
<1>8. CASE differs
  <2>1. category # None => row.category = category /\ row.chosen
    BY <1>5, <1>6, <1>7, <1>8
  <2> QED
    BY <1>2, <1>3, <1>7, <1>8, <2>1, ChoiceMade
<1>9. CASE ~differs
  <2>1. txn[t].chosen => row.category = txn[t].category /\ row.chosen = txn[t].chosen
    BY <1>5, <1>7, <1>9
  <2>2. Onward
    BY <1>2, <1>7 DEF Onward, IsNew, Types
  <2> QED
    BY <1>2, <1>3, <1>9, <2>1, <2>2, LeftAlone DEF ChoiceInv, ChoiceKept, Types
<1> QED
  BY <1>8, <1>9

LEMMA CategorizeChoice ==
    ASSUME Types, ChoiceInv, SyncsAlone, NEW t \in Txns, NEW category \in Given, Categorize(t, category)
    PROVE  ChoiceInv'
<1> DEFINE chosen == category # None
           row == [txn[t] EXCEPT !.category = category, !.chosen = chosen]
<1>1. txn[t] \in Transaction
  BY DEF Types
<1>2. /\ txn' = [txn EXCEPT ![t] = row] /\ UNCHANGED job /\ Choosable(t)
      /\ wish' = [wish EXCEPT ![t] = category]
  BY DEF Categorize
<1>3. row.state = txn[t].state /\ row.category = category /\ row.chosen = chosen
  BY <1>1 DEF Transaction
<1> HIDE DEF row
<1> QED
  BY <1>2, <1>3, ChoiceMade

LEMMA DeleteTransactionChoice ==
    ASSUME Types, ChoiceInv, NEW t \in Txns, DeleteTransaction(t)
    PROVE  ChoiceInv'
<1> DEFINE row == [NoTxn EXCEPT !.state = "gone"]
<1>1. /\ txn' = [txn EXCEPT ![t] = row] /\ UNCHANGED job /\ Here(t)
      /\ wish' = [wish EXCEPT ![t] = None]
  BY DEF DeleteTransaction
<1>2. row.state = "gone"
  BY DEF NoTxn
<1> HIDE DEF row
<1>3. Onward
  BY <1>1, <1>2 DEF Onward, IsNew, Here, Types
<1>4. Gentle'
  BY <1>1 DEF ChoiceInv, Apart, Gentle, Changing, Types
<1>5. ChoiceKept'
  BY <1>1 DEF ChoiceInv, ChoiceKept, Types
<1> QED
  BY <1>3, <1>4, <1>5, ApartStays DEF ChoiceInv

LEMMA DeleteCategoryChoice ==
    ASSUME Types, ChoiceInv, NEW c \in Cats, NEW moveTo \in Given, DeleteCategory(c, moveTo)
    PROVE  ChoiceInv'
<1>1. /\ txn' = [t \in Txns |-> [txn[t] EXCEPT !.category = Refiled(@, c, moveTo)]]
      /\ wish' = [t \in Txns |-> Refiled(wish[t], c, moveTo)]
      /\ UNCHANGED job /\ c # None
  BY DEF DeleteCategory
<1>2. \A t \in Txns : /\ txn'[t].category = Refiled(txn[t].category, c, moveTo)
                      /\ txn'[t].chosen = txn[t].chosen /\ txn'[t].state = txn[t].state
                      /\ wish'[t] = Refiled(wish[t], c, moveTo)
  <2> TAKE t \in Txns
  <2>1. txn[t] \in Transaction
    BY DEF Types
  <2>2. txn'[t] = [txn[t] EXCEPT !.category = Refiled(txn[t].category, c, moveTo)]
    BY <1>1
  <2> QED
    BY <1>1, <2>1, <2>2 DEF Transaction
<1>3. Onward
  BY <1>1, <1>2 DEF Onward, IsNew
<1>4. Gentle'
  BY <1>1, <1>2 DEF ChoiceInv, Apart, Gentle, Changing, Refiled
<1>5. ChoiceKept'
  BY <1>1, <1>2 DEF ChoiceInv, ChoiceKept, Refiled
<1> QED
  BY <1>3, <1>4, <1>5, ApartStays DEF ChoiceInv

LEMMA ApplyChoice ==
    ASSUME Types, ChoiceInv, SyncsAlone, NEW t \in Txns, NEW c \in Cats, Apply(t, c) \/ Dismiss(t, c)
    PROVE  ChoiceInv'
<1>1. UNCHANGED job
  BY DEF Apply, Dismiss, Awaits, writeVars
<1>2. CASE UNCHANGED <<txn, wish>>
  <2>1. Onward
    BY <1>1, <1>2 DEF Onward, IsNew
  <2> QED
    BY <1>2, <2>1, LeftAlone
<1> DEFINE row == [txn[t] EXCEPT !.category = c, !.chosen = TRUE]
<1>3. CASE txn' = [txn EXCEPT ![t] = row] /\ wish' = [wish EXCEPT ![t] = c] /\ Choosable(t)
  <2>1. txn[t] \in Transaction
    BY DEF Types
  <2>2. row.state = txn[t].state /\ row.category = c /\ row.chosen
    BY <2>1 DEF Transaction
  <2> HIDE DEF row
  <2> QED
    BY <1>1, <1>3, <2>2, ChoiceMade
<1> QED
  BY <1>2, <1>3 DEF Apply, Dismiss, Awaits

LEMMA OthersChoice ==
    ASSUME ChoiceInv, UNCHANGED <<txn, wish>>,
           job' = job \/ job' = [p \in Procs |-> NoJob]
    PROVE  ChoiceInv'
<1>1. Onward
  BY DEF Onward, IsNew, NoJob, RowJob
<1> QED
  BY <1>1, LeftAlone

LEMMA NextChoice == SyncsAlone /\ Types /\ ChoiceInv /\ [Next]_vars => ChoiceInv'
<1> SUFFICES ASSUME SyncsAlone, Types, ChoiceInv, [Next]_vars PROVE ChoiceInv'
  OBVIOUS
<1>1. CASE Arrivals
  BY <1>1, ArriveChoice DEF Arrivals
<1>2. CASE Writes
  BY <1>2, SyncWritesChoice, InsertChoice, CommitAutomationChoice DEF Writes
<1>3. CASE BankEdits
  BY <1>3, BankChangesChoice DEF BankEdits
<1>4. CASE Automating
  <2>1. CASE \E p \in Requests, set \in Settings : CreateAutomation(p, set)
    BY <2>1, SaveChoice DEF CreateAutomation, Procs
  <2>2. CASE \E p \in Requests, set \in Settings, age \in Ages : UpdateAutomation(p, age, set)
    BY <2>2, SaveChoice DEF UpdateAutomation, Procs
  <2>3. CASE \E age \in Ages : DeleteAutomation(age)
    BY <2>3, OthersChoice DEF DeleteAutomation, writeVars
  <2> QED
    BY <1>4, <2>1, <2>2, <2>3 DEF Automating
<1>5. CASE Choosing
  BY <1>5, UpdateTransactionChoice, CategorizeChoice, DeleteTransactionChoice, DeleteCategoryChoice DEF Choosing
<1>6. CASE Deciding
  BY <1>6, ApplyChoice DEF Deciding
<1>7. CASE Asking
  BY <1>7, OthersChoice DEF Asking, StartReview, writeVars
<1>8. CASE \E r \in Reviews : Reviewing(r)
  BY <1>8, OthersChoice DEF Reviewing, RunReview, Answer, StoreSuggestion, FinishReview, ReadBatch, writeVars
<1>9. CASE StopStale \/ Restart
  BY <1>9, OthersChoice DEF StopStale, Restart, writeVars
<1>10. CASE UNCHANGED vars
  BY <1>10, OthersChoice DEF vars
<1> QED
  BY <1>1, <1>2, <1>3, <1>4, <1>5, <1>6, <1>7, <1>8, <1>9, <1>10 DEF Next, Working

\* When nobody chooses for a transaction between a sync's reading and writing it,
\* a transaction always has the category someone last chose for it.
THEOREM ChoicesAreKept ==
    ASSUME SyncsAlone
    PROVE  Spec => []ChoiceKept
<1>1. Init => ChoiceInv
  BY DEF Init, ChoiceInv, Apart, Gentle, ChoiceKept, Changing, Adding, NoJob, RowJob, Procs
<1>2. Types /\ References /\ ChoiceInv /\ [Next]_vars => (Types /\ References /\ ChoiceInv)'
  BY NextTypes, NextChoice
<1>3. Init => Types /\ References /\ ChoiceInv
  BY <1>1, InitTypes
<1>4. ChoiceInv => ChoiceKept
  BY DEF ChoiceInv
<1> QED
  BY <1>2, <1>3, <1>4, PTL DEF Spec

-----------------------------------------------------------------------------
(* Decisions                                                               *)

Kept == \A t \in Txns, c \in Cats :
    recs[t][c].status \in {"applied", "dismissed"} => recs'[t][c].status \in {recs[t][c].status, "none"}

LEMMA NextKeeps == Types /\ [Next]_vars => Kept
<1> SUFFICES ASSUME Types, [Next]_vars PROVE Kept
  OBVIOUS
<1>1. CASE UNCHANGED recs
  BY <1>1 DEF Kept
<1>2. ASSUME NEW t \in Txns, DeleteTransaction(t)
      PROVE  Kept
  <2>1. recs' = [recs EXCEPT ![t] = [c \in Cats |-> NoRec]]
    BY <1>2 DEF DeleteTransaction
  <2> QED
    BY <2>1 DEF Kept, NoRec, Types
<1>3. ASSUME NEW c \in Cats, NEW moveTo \in Given, DeleteCategory(c, moveTo)
      PROVE  Kept
  <2> SUFFICES ASSUME NEW t \in Txns, NEW d \in Cats
               PROVE  recs'[t][d].status \in {recs[t][d].status, "none"}
    BY DEF Kept
  <2>1. recs[t][d] \in Recommendation
    BY DEF Types
  <2>2. recs'[t][d] = NoRec \/ recs'[t][d] = [recs[t][d] EXCEPT !.current = Refiled(recs[t][d].current, c, None)]
    BY <1>3 DEF DeleteCategory, RecsAfter
  <2> QED
    BY <2>1, <2>2 DEF NoRec, Recommendation
<1>4. ASSUME NEW r \in Reviews, StoreSuggestion(r)
      PROVE  Kept
  <2> DEFINE v == review[r]
             rec == [status |-> "open", current |-> v.seen]
  <2>1. CASE recs' = [recs EXCEPT ![v.txn] = [@ EXCEPT ![v.pick] = rec]] /\ NewSuggestion(v.txn, v.pick)
    <3>1. \A t \in Txns, c \in Cats : recs'[t][c] = IF t = v.txn /\ c = v.pick THEN rec ELSE recs[t][c]
      BY <2>1 DEF Types
    <3> HIDE DEF rec
    <3> QED
      BY <2>1, <3>1 DEF Kept, NewSuggestion
  <2> QED
    BY <1>1, <1>4, <2>1 DEF StoreSuggestion
<1>5. ASSUME NEW t \in Txns, NEW c \in Cats, Apply(t, c) \/ Dismiss(t, c)
      PROVE  Kept
  <2>1. PICK status \in {"applied", "dismissed"} : recs' = Decided(t, c, status)
    BY <1>5 DEF Apply, Dismiss, Awaits
  <2>2. recs[t][c].status = "open"
    BY <1>5 DEF Apply, Dismiss, Awaits
  <2>3. \A u \in Txns, d \in Cats : u # t \/ d # c => recs'[u][d] = recs[u][d]
    BY <2>1 DEF Decided, Types
  <2> QED
    BY <2>2, <2>3 DEF Kept
<1>6. CASE Arrivals \/ Writes \/ BankEdits
  BY <1>1, <1>6 DEF Arrivals, Arrive, Writes, SyncWrites, Insert, CommitAutomation, BankEdits, BankChanges
<1>7. CASE Automating
  BY <1>1, <1>7 DEF Automating, CreateAutomation, UpdateAutomation, Save, DeleteAutomation
<1>8. CASE Choosing
  <2>1. ASSUME NEW t \in Txns, NEW text \in Texts, NEW says \in BOOLEAN, NEW category \in Given,
               UpdateTransaction(t, text, says, category)
        PROVE  UNCHANGED recs
    BY <2>1 DEF UpdateTransaction
  <2>2. ASSUME NEW t \in Txns, NEW category \in Given, Categorize(t, category)
        PROVE  UNCHANGED recs
    BY <2>2 DEF Categorize
  <2> QED
    BY <1>1, <1>2, <1>3, <1>8, <2>1, <2>2 DEF Choosing
<1>9. CASE Deciding
  BY <1>5, <1>9 DEF Deciding
<1>10. CASE Asking \/ (\E r \in Reviews : Reviewing(r)) \/ StopStale \/ Restart
  BY <1>1, <1>4, <1>10 DEF Asking, StartReview, Reviewing, RunReview, Answer, FinishReview, ReadBatch, StopStale, Restart
<1>11. CASE UNCHANGED vars
  BY <1>1, <1>11 DEF vars
<1> QED
  BY <1>6, <1>7, <1>8, <1>9, <1>10, <1>11 DEF Next, Working

\* Whoever decided about a suggestion is never asked about it again, however many
\* reviews look at the same transaction at once.
THEOREM DecisionsStay == Spec => DecidedOnce
<1>1. Types /\ References /\ [Next]_vars => (Types /\ References)' /\ [Kept]_vars
  BY NextTypes, NextKeeps
<1>2. Init => Types /\ References
  BY InitTypes
<1>3. [Kept]_vars <=> [\A t \in Txns, c \in Cats :
         recs[t][c].status \in {"applied", "dismissed"} => recs'[t][c].status \in {recs[t][c].status, "none"}]_vars
  BY DEF Kept
<1> QED
  BY <1>1, <1>2, <1>3, PTL DEF Spec, DecidedOnce
=============================================================================
