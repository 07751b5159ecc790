-------------------------- MODULE BankSyncProofs --------------------------
(***************************************************************************)
(* Proofs about BankSync, for every set of accounts, transactions and      *)
(* request threads and for every bound.                                    *)
(***************************************************************************)
EXTENDS BankSync, TLAPS

USE ProcsAssumption, FlagsAssumption, BoundsAssumption, NoneAssumption

-----------------------------------------------------------------------------
(* What an account's stream said is always a full picture of the account.  *)

LEMMA SaidType ==
    ASSUME TypeOK, NEW x \in ExtIds, NEW n \in Nat
    PROVE  Said(x, n) \in Content
<1>1. log[x] \in Seq(Content) /\ Len(log[x]) \in Nat
    BY DEF TypeOK
<1>2. Nothing \in Content
    BY DEF Nothing, Content
<1>3. CASE n = 0 \/ Len(log[x]) = 0
    BY <1>2, <1>3 DEF Said
<1>4. CASE ~(n = 0 \/ Len(log[x]) = 0)
    <2> DEFINE k == IF n <= Len(log[x]) THEN n ELSE Len(log[x])
    <2>1. k \in 1..Len(log[x])
        BY <1>1, <1>4
    <2>2. log[x][k] \in Content
        BY <1>1, <2>1
    <2> QED
        BY <1>4, <2>2 DEF Said
<1> QED
    BY <1>3, <1>4

\* A step of the bank's keeps the streams what they are.
LEMMA BankSaysType ==
    ASSUME TypeOK, NEW x \in ExtIds, NEW content \in Content, BankSays(x, content),
           Len(log[x]) < MaxEvents
    PROVE  /\ log' \in [ExtIds -> Seq(Content)]
           /\ \A y \in ExtIds : Len(log'[y]) <= MaxEvents
<1>1. /\ log \in [ExtIds -> Seq(Content)]
      /\ \A y \in ExtIds : Len(log[y]) <= MaxEvents
      /\ Len(log[x]) < MaxEvents
      /\ log' = [log EXCEPT ![x] = Append(log[x], content)]
    BY DEF TypeOK, BankSays
<1>2. /\ Append(log[x], content) \in Seq(Content)
      /\ Len(Append(log[x], content)) = Len(log[x]) + 1
    BY <1>1
<1>3. log' \in [ExtIds -> Seq(Content)]
    BY <1>1, <1>2
<1>4. Len(log[x]) \in Nat
    BY <1>1
<1>5. \A y \in ExtIds : Len(log'[y]) <= MaxEvents
    BY <1>1, <1>2, <1>4
<1> QED
    BY <1>3, <1>5

LEMMA LatestType ==
    ASSUME TypeOK, NEW x \in ExtIds
    PROVE  Latest(x) \in Content /\ Now(x) \in Nat \ {0}
<1>1. Len(log[x]) \in Nat
    BY DEF TypeOK
<1> QED
    BY <1>1, SaidType DEF Latest, Now

-----------------------------------------------------------------------------
(* The row a sync writes is a row.                                         *)

LEMMA RowAfterType ==
    ASSUME TypeOK, NEW x \in ExtIds, NEW r \in Read, NEW rows \in [TxnIds -> Row], NEW t \in TxnIds
    PROVE  RowAfter(x, r, rows, t) \in Row
<1>1. r.upto \in Nat
    BY DEF Read, Cursor
<1>2. Said(x, r.upto)[t] \in 0..MaxEvents
    BY <1>1, SaidType DEF Content
<1>3. NoRow \in Row /\ rows[t] \in Row
    BY DEF NoRow, Row
<1>4. replaces[x][t] # None => replaces[x][t] \in TxnIds
    BY DEF TypeOK
<1>5. (replaces[x][t] # None /\ rows[replaces[x][t]].chosen) \in BOOLEAN
    BY <1>4 DEF Row
<1>6. [rows[t] EXCEPT !.version = Said(x, r.upto)[t]] \in Row
    BY <1>2, <1>3 DEF Row
<1> QED
    BY <1>2, <1>3, <1>5, <1>6 DEF RowAfter, Row

LEMMA AppliedType ==
    ASSUME TypeOK, NEW p \in Procs, NEW x \in ExtIds
    PROVE  Applied(p, x) \in Account /\ Applied(p, x).gen = acct[x].gen
<1> DEFINE r == job[p].reads[x]
           rowsAfter == [t \in TxnIds |-> RowAfter(x, r, acct[x].rows, t)]
<1>1. r \in Read /\ job[p].cursors[x] \in Cursor \cup {NoCursor}
    BY DEF TypeOK, Job
<1>2. acct[x] \in Account
    BY DEF TypeOK
<1>3. rowsAfter \in [TxnIds -> Row]
    BY <1>1, <1>2, RowAfterType DEF Account
<1>4. r.cursor \in Cursor \cup {NoCursor}
    BY <1>1 DEF Read
<1>5. PICK c \in Cursor \cup {NoCursor} :
          Applied(p, x) = [acct[x] EXCEPT !.rows = rowsAfter, !.cursor = c]
    BY <1>1, <1>2, <1>4 DEF Applied, NextCursor, Account
<1> QED
    BY <1>2, <1>3, <1>5 DEF Account

-----------------------------------------------------------------------------
(* TypeOK, action by action.                                               *)

LEMMA TypeInit == Init => TypeOK
<1> SUFFICES ASSUME Init PROVE TypeOK
    OBVIOUS
<1>1. NotRead \in Read /\ NoPages \in Pages
    BY DEF NotRead, Pages, Read, Cursor
<1>2. NoJob \in Job
    BY <1>1 DEF NoJob, Job, Errors, Cursor
<1>3. NoAccount \in Account
    BY DEF NoAccount, Account, Row, NoRow
<1>4. \A x \in ExtIds : Len(log[x]) = 0 /\ log[x] \in Seq(Content)
    BY DEF Init
<1>5. log \in [ExtIds -> Seq(Content)] /\ \A x \in ExtIds : Len(log[x]) <= MaxEvents
    BY <1>4 DEF Init
<1> QED
    BY <1>2, <1>3, <1>5 DEF Init, TypeOK, Healths, Stages, Errors

LEMMA NoJobType == NoJob \in Job /\ NoAccount \in Account
<1>1. NotRead \in Read /\ NoPages \in Pages
    BY DEF NotRead, Pages, Read, Cursor
<1> QED
    BY <1>1 DEF NoJob, Job, Errors, Cursor, NoAccount, Account, Row, NoRow

\* The parts of a job and of an account that an action sets.
LEMMA JobParts ==
    ASSUME NEW j \in Job
    PROVE  /\ \A code \in Errors : [j EXCEPT !.outcome = code] \in Job
           /\ \A s \in SUBSET ExtIds : [j EXCEPT !.shared = s] \in Job
           /\ \A g \in Pages :
                 /\ [j EXCEPT !.pages = g] \in Job
                 /\ \A x \in ExtIds, r \in Read :
                       [j EXCEPT !.pages = g, !.reads = [@ EXCEPT ![x] = r]] \in Job
BY DEF Job

LEMMA AccountParts ==
    ASSUME NEW a \in Account, NEW t \in TxnIds
    PROVE  /\ a.rows[t] \in Row
           /\ \A row \in Row, c \in SUBSET TxnIds :
                 /\ [a EXCEPT !.rows = [@ EXCEPT ![t] = row], !.chose = c] \in Account
                 /\ [a EXCEPT !.rows = [@ EXCEPT ![t] = row], !.gone = c] \in Account
BY DEF Account

LEMMA TypeNext == TypeOK /\ [Next]_vars => TypeOK'
<1> SUFFICES ASSUME TypeOK, [Next]_vars PROVE TypeOK'
    OBVIOUS
<1> USE DEF TypeOK, bankVars, connVars, boundVars
<1>1. ASSUME NEW x \in ExtIds, NEW t \in TxnIds, Len(log[x]) < MaxEvents, BankAdds(x, t)
      PROVE  TypeOK'
    <2>1. Latest(x) \in Content /\ Now(x) \in Nat \ {0}
        BY LatestType
    <2>2. PICK content : BankSays(x, content) /\ content \in Content
                         /\ replaces' \in [ExtIds -> [TxnIds -> TxnIds \cup {None}]]
        <3>1. Now(x) \in 0..MaxEvents
            BY <1>1, <2>1 DEF Now
        <3>3. CASE /\ BankSays(x, [Latest(x) EXCEPT ![t] = Now(x)])
                   /\ UNCHANGED replaces
            BY <2>1, <3>1, <3>3 DEF Content
        <3>4. ASSUME NEW u \in TxnIds,
                     BankSays(x, [Latest(x) EXCEPT ![t] = Now(x), ![u] = 0]),
                     replaces' = [replaces EXCEPT ![x][t] = u]
              PROVE  \E content : BankSays(x, content) /\ content \in Content
                         /\ replaces' \in [ExtIds -> [TxnIds -> TxnIds \cup {None}]]
            <4>1. [Latest(x) EXCEPT ![t] = Now(x), ![u] = 0] \in Content
                <5> HIDE DEF TypeOK, Latest, Now
                <5> QED
                    BY <2>1, <3>1 DEF Content
            <4>2. replaces' \in [ExtIds -> [TxnIds -> TxnIds \cup {None}]]
                BY <3>4
            <4> QED
                BY <3>4, <4>1, <4>2
        <3> QED
            BY <1>1, <3>3, <3>4 DEF BankAdds
    <2> QED
        BY <1>1, <2>2, BankSaysType DEF BankSays
<1>2. ASSUME NEW x \in ExtIds, NEW t \in TxnIds, Len(log[x]) < MaxEvents, BankChanges(x, t)
      PROVE  TypeOK'
    <2>1. Latest(x) \in Content /\ Now(x) \in Nat \ {0}
        BY LatestType
    <2>2. PICK v \in {Now(x), 0} : BankSays(x, [Latest(x) EXCEPT ![t] = v])
        BY <1>2 DEF BankChanges
    <2>3. v \in 0..MaxEvents
        BY <1>2, <2>1, <2>2 DEF Now
    <2>4. [Latest(x) EXCEPT ![t] = v] \in Content
        BY <2>1, <2>3 DEF Content
    <2> QED
        BY <1>2, <2>2, <2>4, BankSaysType DEF BankSays, BankChanges
<1>3. ASSUME NEW x \in ExtIds, BankSharesOrNot(x) PROVE TypeOK'
    BY <1>3 DEF BankSharesOrNot
<1>4. CASE HealthChanges
    BY <1>4 DEF HealthChanges
<1>5. CASE Recovers
    BY <1>5 DEF Recovers, Healths
<1>6. CASE HistoryProgresses
    BY <1>6 DEF HistoryProgresses, Stages
<1>7. ASSUME NEW p \in Requests, SyncNow(p) PROVE TypeOK'
    BY <1>7 DEF SyncNow, Call
<1>8. ASSUME NEW p \in Requests, NEW chosen \in SUBSET ExtIds, ChooseAccounts(p, chosen) PROVE TypeOK'
    <2>1. \A x \in chosen \ Linked : Import(x) \in Account /\ imports[x] + 1 \in 0..MaxImports
        <3> TAKE x \in chosen \ Linked
        <3>1. imports[x] \in 0..MaxImports /\ imports[x] < MaxImports
            BY <1>8 DEF ChooseAccounts
        <3>2. imports[x] + 1 \in 0..MaxImports
            BY <3>1
        <3>3. KnownToASync(x) \in BOOLEAN
            BY DEF KnownToASync
        <3> QED
            BY <3>2, <3>3, NoJobType DEF Import, Account
    <2>2. acct' \in [ExtIds -> Account]
        BY <1>8, <2>1, NoJobType DEF ChooseAccounts
    <2>3. imports' \in [ExtIds -> 0..MaxImports]
        BY <1>8, <2>1 DEF ChooseAccounts
    <2> QED
        BY <1>8, <2>2, <2>3 DEF ChooseAccounts, SkippedAfter, Call
<1>9. ASSUME NEW x \in ExtIds, DeleteAccount(x) PROVE TypeOK'
    BY <1>9, NoJobType DEF DeleteAccount
<1>10. ASSUME NEW x \in ExtIds, NEW t \in TxnIds, ChooseOn(x, t) PROVE TypeOK'
    <2>1. acct' \in [ExtIds -> Account]
        <3>1. acct[x] \in Account /\ acct[x].chose \cup {t} \in SUBSET TxnIds
            BY DEF Account
        <3>2. [acct[x].rows[t] EXCEPT !.chosen = TRUE] \in Row
            <4>1. acct[x].rows[t] \in Row
                BY <3>1, AccountParts
            <4> HIDE DEF TypeOK
            <4> QED
                BY <4>1 DEF Row
        <3>3. acct' = [acct EXCEPT ![x] = [acct[x] EXCEPT
                  !.rows = [@ EXCEPT ![t] = [acct[x].rows[t] EXCEPT !.chosen = TRUE]],
                  !.chose = acct[x].chose \cup {t}]]
            BY <1>10, Zenon DEF ChooseOn
        <3> QED
            BY <3>1, <3>2, <3>3, AccountParts
    <2> QED
        BY <1>10, <2>1 DEF ChooseOn
<1>11. ASSUME NEW x \in ExtIds, NEW t \in TxnIds, DeleteTransaction(x, t) PROVE TypeOK'
    <2>1. acct' \in [ExtIds -> Account]
        <3>1. acct[x] \in Account /\ acct[x].gone \cup {t} \in SUBSET TxnIds
            BY DEF Account
        <3>2. NoRow \in Row
            BY DEF Row, NoRow
        <3>3. acct' = [acct EXCEPT ![x] = [acct[x] EXCEPT
                  !.rows = [@ EXCEPT ![t] = NoRow], !.gone = acct[x].gone \cup {t}]]
            BY <1>11, Zenon DEF DeleteTransaction
        <3> QED
            BY <3>1, <3>2, <3>3, AccountParts
    <2> QED
        BY <1>11, <2>1 DEF DeleteTransaction
<1>12. CASE Disconnect
    BY <1>12, NoJobType DEF Disconnect
<1>13. CASE LeasePasses
    BY <1>13 DEF LeasePasses
<1>14. CASE WindowPasses
    BY <1>14 DEF WindowPasses
<1>15. CASE WorkerPicks
    BY <1>15 DEF WorkerPicks, Call
<1>16. ASSUME NEW p \in Procs, Claim(p) PROVE TypeOK'
    BY <1>16 DEF Claim
<1>17. ASSUME NEW p \in Procs, Snapshot(p) PROVE TypeOK'
    <2>1. [NoJob EXCEPT
              !.gens = [x \in ExtIds |-> acct[x].gen],
              !.cursors = [x \in ExtIds |-> acct[x].cursor],
              !.hadAny = \E x \in Linked, t \in TxnIds : HasRow(acct[x].rows, t)] \in Job
        BY NoJobType DEF Job, Account
    <2> QED
        <3>1. pc' \in [Procs -> {"idle", "calling", "claimed", "asking", "reading",
                                 "read", "failed", "releasing"}]
            BY <1>17 DEF Snapshot
        <3>2. job' \in [Procs -> Job]
            <4>1. job \in [Procs -> Job]
                OBVIOUS
            <4> HIDE DEF TypeOK
            <4>2. \/ job' = [job EXCEPT ![p] = [NoJob EXCEPT
                        !.gens = [x \in ExtIds |-> acct[x].gen],
                        !.cursors = [x \in ExtIds |-> acct[x].cursor],
                        !.hadAny = \E x \in Linked, t \in TxnIds : HasRow(acct[x].rows, t)]]
                  \/ job' = job
                BY <1>17, Zenon DEF Snapshot
            <4> QED
                BY <2>1, <4>1, <4>2, Zenon
        <3> QED
            BY <1>17, <3>1, <3>2 DEF Snapshot
<1>18. ASSUME NEW p \in Procs, GetAccounts(p) PROVE TypeOK'
    <2>1. job' \in [Procs -> Job]
        <3>1. job \in [Procs -> Job] /\ shares \in SUBSET ExtIds
            OBVIOUS
        <3>2. CASE Fail(p, FailureOf(health))
            <4>1. FailureOf(health) \in Errors
                BY DEF FailureOf, Errors
            <4> HIDE DEF TypeOK
            <4> QED
                BY <3>1, <3>2, <4>1, JobParts DEF Fail
        <3>3. CASE job' = [job EXCEPT ![p].shared = shares]
            <4> HIDE DEF TypeOK
            <4> QED
                BY <3>1, <3>3, JobParts
        <3> QED
            BY <1>18, <3>2, <3>3 DEF GetAccounts
    <2> QED
        BY <1>18, <2>1 DEF GetAccounts, Fail
<1>19. ASSUME NEW p \in Procs, BeginPages(p) PROVE TypeOK'
    <2>1. job' \in [Procs -> Job]
        <3>1. PICK x \in ExtIds :
                  job' = [job EXCEPT ![p].pages = [account |-> x, size |-> Len(log[x]), attempt |-> 1]]
            BY <1>19 DEF BeginPages, ToRead
        <3>2. [account |-> x, size |-> Len(log[x]), attempt |-> 1]
                  \in Pages
            BY DEF Pages
        <3> QED
            BY <3>1, <3>2, JobParts
    <2> QED
        BY <1>19, <2>1 DEF BeginPages
<1>20. ASSUME NEW p \in Procs, EndPages(p) PROVE TypeOK'
    <2>1. job' \in [Procs -> Job]
        <3> DEFINE x == job[p].pages.account
                   n == job[p].pages.attempt
        <3>1. /\ job[p] \in Job /\ job[p].pages \in Pages
              /\ x \in ExtIds /\ n \in 1..PageAttempts /\ job[p].pages.size \in 0..MaxEvents
            BY <1>20 DEF Job, EndPages, Pages
        <3>2. CASE Fail(p, FailureOf(health))
            BY <3>2, JobParts DEF Fail, FailureOf, Errors
        <3>3. CASE Fail(p, "other")
            BY <3>3, JobParts DEF Fail, Errors
        <3>4. CASE PagesRead(p, x)
            <4>1. PICK ahead \in {0, 1} :
                      job' = [job EXCEPT ![p] = [@ EXCEPT
                          !.pages = NoPages,
                          !.reads[x] = [from |-> From(job[p].cursors[x]), upto |-> job[p].pages.size,
                                        cursor |-> job[p].pages.size + ahead, stage |-> progress]]]
                BY <3>4 DEF PagesRead
            <4>2. [from |-> From(job[p].cursors[x]), upto |-> job[p].pages.size,
                   cursor |-> job[p].pages.size + ahead, stage |-> progress] \in Read
                <5>1. job[p].cursors[x] \in Cursor \cup {NoCursor} /\ job[p].pages.size \in 0..MaxEvents
                    BY <3>1 DEF Job
                <5>2. progress \in Stages
                    OBVIOUS
                <5> HIDE DEF TypeOK, x
                <5> QED
                    BY <5>1, <5>2 DEF From, Read, Cursor
            <4>3. NoPages \in Pages /\ x \in ExtIds
                BY <3>1 DEF Pages
            <4>4. job \in [Procs -> Job]
                OBVIOUS
            <4> HIDE DEF TypeOK, x
            <4> QED
                BY <4>1, <4>2, <4>3, <4>4, <3>1, JobParts
        <3>5. CASE /\ job' = [job EXCEPT ![p].pages =
                                 [account |-> x, size |-> Len(log[x]), attempt |-> n + 1]]
                   /\ n # PageAttempts
            <4>1. [account |-> x, size |-> Len(log[x]), attempt |-> n + 1] \in Pages
                <5>1. Len(log[x]) \in 0..MaxEvents
                    BY <3>1
                <5> HIDE DEF TypeOK, x, n
                <5>2. n + 1 \in 1..PageAttempts
                    <6>1. n \in 1..PageAttempts /\ n # PageAttempts /\ PageAttempts \in Nat
                        BY <3>1, <3>5, BoundsAssumption
                    <6> QED
                        BY <6>1
                <5> QED
                    BY <3>1, <5>1, <5>2 DEF Pages
            <4>2. job \in [Procs -> Job]
                OBVIOUS
            <4> HIDE DEF TypeOK, x, n
            <4> QED
                BY <3>1, <3>5, <4>1, <4>2, JobParts
        <3> QED
            BY <1>20, <3>2, <3>3, <3>4, <3>5, Zenon DEF EndPages, LastAttempt
    <2> QED
        BY <1>20, <2>1 DEF EndPages, Fail
<1>21. ASSUME NEW p \in Procs, AllRead(p) PROVE TypeOK'
    <2>1. job' \in [Procs -> Job]
        BY <1>21, JobParts DEF AllRead, Trouble, Errors
    <2> QED
        BY <1>21, <2>1 DEF AllRead
<1>22. ASSUME NEW p \in Procs, Apply(p) PROVE TypeOK'
    <2>1. acct' \in [ExtIds -> Account] /\ history' \in Stages
        <3>1. \A x \in ExtIds : Applied(p, x) \in Account
            BY AppliedType
        <3>2. \A S : LeastOf(S) \in Stages
            BY DEF LeastOf, Stages
        <3>3. CASE ~connected
            BY <1>22, <3>3 DEF Apply
        <3>4. CASE connected
            <4>1. acct' \in [ExtIds -> Account]
                <5>1. acct \in [ExtIds -> Account]
                    OBVIOUS
                <5> HIDE DEF TypeOK
                <5> QED
                    BY <1>22, <3>1, <3>4, <5>1, NoJobType DEF Apply
            <4> QED
                BY <1>22, <3>2, <3>4, <4>1 DEF Apply
        <3> QED
            BY <3>3, <3>4
    <2>2. error' \in Errors /\ available' \subseteq ExtIds
        BY <1>22 DEF Apply, Finish, Job
    <2> QED
        BY <1>22, <2>1, <2>2, NoJobType DEF Apply, Finish, Done
<1>23. ASSUME NEW p \in Procs, RecordFailure(p) PROVE TypeOK'
    <2>1. error' \in Errors
        BY <1>23 DEF RecordFailure, Finish, Job
    <2> QED
        BY <1>23, <2>1, NoJobType DEF RecordFailure, Finish, Done
<1>24. ASSUME NEW p \in Procs, Release(p) PROVE TypeOK'
    BY <1>24, NoJobType DEF Release, Done
<1>25. ASSUME NEW p \in Procs, Breaks(p) PROVE TypeOK'
    BY <1>25 DEF Breaks
<1>26. ASSUME NEW p \in Procs, Crash(p) PROVE TypeOK'
    BY <1>26, NoJobType DEF Crash, Done
<1>27. CASE UNCHANGED vars
    BY <1>27 DEF vars
<1> QED
    BY <1>1, <1>2, <1>3, <1>4, <1>5, <1>6, <1>7, <1>8, <1>9, <1>10, <1>11, <1>12, <1>13, <1>14,
       <1>15, <1>16, <1>17, <1>18, <1>19, <1>20, <1>21, <1>22, <1>23, <1>24, <1>25, <1>26, <1>27
       DEF Next, Bank, BankReports, Household, Time, Step

\* Every value stays within its type: in particular, a sync never begins more
\* attempts at an account's pages than PAGE_ATTEMPTS.
THEOREM TypeCorrect == Spec => []TypeOK
<1>1. Init => TypeOK
    BY TypeInit
<1>2. TypeOK /\ [Next]_vars => TypeOK'
    BY TypeNext
<1> QED
    BY <1>1, <1>2, PTL DEF Spec

-----------------------------------------------------------------------------
(* One sync at a time                                                      *)
(*                                                                         *)
(* OneSyncAtATime is not inductive: a caller could claim the connection    *)
(* while another sync runs if the claim were not there, which is what      *)
(* ClaimGuardsSync rules out.  Each needs the other, because a sync drops  *)
(* the claim when it ends, whoever holds it.                               *)

Apart == TypeOK /\ OneSyncAtATime /\ ClaimGuardsSync

LEMMA ApartInit == Init => Apart
<1> SUFFICES ASSUME Init PROVE Apart
    OBVIOUS
<1>1. Syncing = {}
    BY DEF Init, Syncing
<1> QED
    BY <1>1, TypeInit DEF Apart, OneSyncAtATime, ClaimGuardsSync

LEMMA ApartNext == LeaseHonoured /\ Apart /\ [Next]_vars => Apart'
<1> SUFFICES ASSUME LeaseHonoured, Apart, [Next]_vars PROVE Apart'
    OBVIOUS
<1> USE DEF bankVars, connVars, boundVars
<1>0. TypeOK' /\ pc \in [Procs -> {"idle", "calling", "claimed", "asking", "reading",
                                   "read", "failed", "releasing"}]
    BY TypeNext DEF Apart, TypeOK
<1> SUFFICES (OneSyncAtATime /\ ClaimGuardsSync)'
    BY <1>0 DEF Apart
\* What changes neither who syncs, nor the claim, nor the connection.
<1>1. ASSUME Syncing' = Syncing, claim' = claim, connected' = connected
      PROVE  (OneSyncAtATime /\ ClaimGuardsSync)'
    BY <1>1 DEF Apart, OneSyncAtATime, ClaimGuardsSync
\* A sync moving on.
<1>2. ASSUME NEW p \in Procs, p \in Syncing, claim' = claim, connected' = connected,
             NEW s \in {"asking", "reading", "read", "failed", "releasing"},
             pc' = [pc EXCEPT ![p] = s]
      PROVE  (OneSyncAtATime /\ ClaimGuardsSync)'
    <2>1. Syncing' = Syncing
        BY <1>0, <1>2 DEF Syncing
    <2> QED
        BY <1>1, <1>2, <2>1
\* A call that has not claimed anything.
<1>3. ASSUME NEW p \in Procs, p \notin Syncing, claim' = claim, connected' = connected,
             NEW s \in {"idle", "calling"}, pc' = [pc EXCEPT ![p] = s]
      PROVE  (OneSyncAtATime /\ ClaimGuardsSync)'
    <2>1. Syncing' = Syncing
        BY <1>0, <1>3 DEF Syncing
    <2> QED
        BY <1>1, <1>3, <2>1
\* The one sync there is ends.
<1>4. ASSUME NEW p \in Procs, p \in Syncing, pc' = [pc EXCEPT ![p] = "idle"]
      PROVE  (OneSyncAtATime /\ ClaimGuardsSync)'
    <2>1. Syncing' = {}
        BY <1>0, <1>4 DEF Apart, OneSyncAtATime, Syncing
    <2> QED
        BY <2>1 DEF OneSyncAtATime, ClaimGuardsSync
<1>5. ASSUME NEW x \in ExtIds, NEW t \in TxnIds, BankReports(x, t)
      PROVE  (OneSyncAtATime /\ ClaimGuardsSync)'
    BY <1>1, <1>5 DEF BankReports, BankAdds, BankChanges, BankSays, Syncing
<1>6. ASSUME NEW x \in ExtIds, BankSharesOrNot(x) \/ DeleteAccount(x)
      PROVE  (OneSyncAtATime /\ ClaimGuardsSync)'
    BY <1>1, <1>6 DEF BankSharesOrNot, DeleteAccount, Syncing
<1>7. CASE HealthChanges \/ Recovers \/ HistoryProgresses \/ WindowPasses
    BY <1>1, <1>7 DEF HealthChanges, Recovers, HistoryProgresses, WindowPasses, Syncing
<1>8. ASSUME NEW x \in ExtIds, NEW t \in TxnIds, ChooseOn(x, t) \/ DeleteTransaction(x, t)
      PROVE  (OneSyncAtATime /\ ClaimGuardsSync)'
    BY <1>1, <1>8 DEF ChooseOn, DeleteTransaction, Syncing
<1>9. CASE Disconnect
    <2>1. Syncing' = Syncing /\ connected' = FALSE
        BY <1>9 DEF Disconnect, Syncing
    <2> QED
        BY <2>1 DEF Apart, OneSyncAtATime, ClaimGuardsSync
<1>10. CASE LeasePasses
    <2>1. Syncing = {} /\ Syncing' = {}
        BY <1>0, <1>10 DEF LeasePasses, Syncing
    <2> QED
        BY <2>1 DEF OneSyncAtATime, ClaimGuardsSync
<1>11. CASE WorkerPicks
    BY <1>3, <1>11 DEF WorkerPicks, Call, Procs, Syncing
<1>12. ASSUME NEW p \in Requests, SyncNow(p) PROVE (OneSyncAtATime /\ ClaimGuardsSync)'
    BY <1>3, <1>12 DEF SyncNow, Call, Procs, Syncing
<1>13. ASSUME NEW p \in Requests, NEW chosen \in SUBSET ExtIds, ChooseAccounts(p, chosen)
       PROVE (OneSyncAtATime /\ ClaimGuardsSync)'
    BY <1>3, <1>13 DEF ChooseAccounts, Call, Procs, Syncing
<1>14. ASSUME NEW p \in Procs, Claim(p) PROVE (OneSyncAtATime /\ ClaimGuardsSync)'
    <2>1. CASE ~Claimable
        BY <1>3, <1>14, <2>1 DEF Claim, Syncing
    <2>2. CASE Claimable
        <3>1. Syncing = {}
            BY <2>2 DEF Claimable, Apart, ClaimGuardsSync
        <3>2. claim' = "fresh" /\ pc' = [pc EXCEPT ![p] = "claimed"]
            BY <1>14, <2>2 DEF Claim
        <3>3. Syncing' = {p}
            BY <1>0, <3>1, <3>2 DEF Syncing
        <3> QED
            BY <3>2, <3>3 DEF OneSyncAtATime, ClaimGuardsSync
    <2> QED
        BY <2>1, <2>2
<1>15. ASSUME NEW p \in Procs, Snapshot(p) PROVE (OneSyncAtATime /\ ClaimGuardsSync)'
    BY <1>2, <1>4, <1>15 DEF Snapshot, Syncing
<1>16. ASSUME NEW p \in Procs, GetAccounts(p) PROVE (OneSyncAtATime /\ ClaimGuardsSync)'
    BY <1>2, <1>16 DEF GetAccounts, Fail, Syncing
<1>17. ASSUME NEW p \in Procs, BeginPages(p) PROVE (OneSyncAtATime /\ ClaimGuardsSync)'
    BY <1>1, <1>17 DEF BeginPages, Syncing
<1>18. ASSUME NEW p \in Procs, EndPages(p) PROVE (OneSyncAtATime /\ ClaimGuardsSync)'
    <2>1. claim' = claim /\ connected' = connected /\ p \in Syncing
        BY <1>18 DEF EndPages, Syncing
    <2>2. pc' = pc \/ pc' = [pc EXCEPT ![p] = "failed"]
        BY <1>18 DEF EndPages, Fail
    <2> QED
        BY <1>1, <1>2, <2>1, <2>2 DEF Syncing
<1>19. ASSUME NEW p \in Procs, AllRead(p) PROVE (OneSyncAtATime /\ ClaimGuardsSync)'
    BY <1>2, <1>19 DEF AllRead, Syncing
<1>20. ASSUME NEW p \in Procs, Apply(p) \/ RecordFailure(p) \/ Release(p)
       PROVE (OneSyncAtATime /\ ClaimGuardsSync)'
    BY <1>4, <1>20 DEF Apply, RecordFailure, Release, Done, Syncing
<1>21. ASSUME NEW p \in Procs, Breaks(p) PROVE (OneSyncAtATime /\ ClaimGuardsSync)'
    BY <1>2, <1>21 DEF Breaks, Syncing
<1>22. ASSUME NEW p \in Procs, Crash(p) PROVE (OneSyncAtATime /\ ClaimGuardsSync)'
    <2>1. CASE p \in Syncing
        BY <1>4, <1>22, <2>1 DEF Crash, Done
    <2>2. CASE p \notin Syncing
        BY <1>3, <1>22, <2>2 DEF Crash, Done
    <2> QED
        BY <2>1, <2>2
<1>23. CASE UNCHANGED vars
    BY <1>1, <1>23 DEF vars, Syncing
<1> QED
    BY <1>5, <1>6, <1>7, <1>8, <1>9, <1>10, <1>11, <1>12, <1>13, <1>14, <1>15, <1>16, <1>17,
       <1>18, <1>19, <1>20, <1>21, <1>22, <1>23
       DEF Next, Bank, Household, Time, Step

\* When no sync outlives LEASE, the schedule and the requests never sync the
\* connection at the same time, however they interleave, crash or break, and
\* a running sync always has its claim.
THEOREM SyncsStayApart ==
    ASSUME LeaseHonoured
    PROVE  Spec => [](OneSyncAtATime /\ ClaimGuardsSync)
<1>1. Init => Apart
    BY ApartInit
<1>2. Apart /\ [Next]_vars => Apart'
    BY ApartNext
<1>3. Apart => OneSyncAtATime /\ ClaimGuardsSync
    BY DEF Apart
<1> QED
    BY <1>1, <1>2, <1>3, PTL DEF Spec

-----------------------------------------------------------------------------
(* Imported or skipped                                                     *)

LEMMA ImportedOrSkippedNext == TypeOK /\ ImportedOrSkipped /\ [Next]_vars => ImportedOrSkipped'
<1> SUFFICES ASSUME TypeOK, ImportedOrSkipped, [Next]_vars PROVE ImportedOrSkipped'
    OBVIOUS
<1> USE DEF bankVars, connVars, boundVars
<1>t. acct \in [ExtIds -> Account] /\ imports \in [ExtIds -> Nat] /\ NoAccount.gen = 0
    BY DEF TypeOK, NoAccount
\* Fewer accounts linked and as many skipped, which is what most steps do.
<1>1. ASSUME Linked' \subseteq Linked, skipped' = skipped PROVE ImportedOrSkipped'
    BY <1>1 DEF ImportedOrSkipped
<1>2. ASSUME acct' = acct, skipped' = skipped PROVE ImportedOrSkipped'
    BY <1>1, <1>2 DEF Linked
<1>3. ASSUME NEW x \in ExtIds, NEW t \in TxnIds, BankReports(x, t)
      PROVE  ImportedOrSkipped'
    BY <1>2, <1>3 DEF BankReports, BankAdds, BankChanges, BankSays
<1>4. CASE \/ \E x \in ExtIds : BankSharesOrNot(x)
           \/ HealthChanges \/ Recovers \/ HistoryProgresses \/ Time \/ WorkerPicks
    BY <1>2, <1>4 DEF BankSharesOrNot, HealthChanges, Recovers, HistoryProgresses, Time,
       LeasePasses, WindowPasses, WorkerPicks
<1>5. ASSUME NEW p \in Procs, \/ Claim(p) \/ Snapshot(p) \/ GetAccounts(p) \/ BeginPages(p) \/ EndPages(p)
                              \/ AllRead(p) \/ RecordFailure(p) \/ Release(p) \/ Breaks(p) \/ Crash(p)
      PROVE  ImportedOrSkipped'
    BY <1>2, <1>5 DEF Claim, Snapshot, GetAccounts, BeginPages, EndPages, AllRead, RecordFailure,
       Release, Breaks, Crash
<1>6. ASSUME NEW p \in Procs, Apply(p) PROVE ImportedOrSkipped'
    <2>1. \A x \in ExtIds : acct'[x] \in {acct[x], NoAccount, Applied(p, x)}
        BY <1>6, <1>t DEF Apply
    <2>2. \A x \in ExtIds : Applied(p, x).gen = acct[x].gen
        BY AppliedType
    <2>3. Linked' \subseteq Linked
        BY <1>6, <1>t, <2>1, <2>2 DEF Linked, Apply
    <2> QED
        BY <1>1, <1>6, <2>3 DEF Apply
<1>7. ASSUME NEW p \in Requests, SyncNow(p) PROVE ImportedOrSkipped'
    BY <1>2, <1>7 DEF SyncNow
\* Exactly the accounts left out are skipped; any other linked one is not shared.
<1>8. ASSUME NEW p \in Requests, NEW chosen \in SUBSET ExtIds, ChooseAccounts(p, chosen)
      PROVE  ImportedOrSkipped'
    <2>1. skipped' = available \ chosen
        BY <1>8 DEF ChooseAccounts, SkippedAfter
    <2>2. ASSUME NEW x \in ExtIds, x \in available \ chosen PROVE acct'[x].gen = 0
        <3>1. acct'[x] = IF x \in Linked THEN NoAccount ELSE acct[x]
            BY <1>8, <2>2 DEF ChooseAccounts
        <3> QED
            BY <1>t, <3>1 DEF Linked
    <2> QED
        BY <2>1, <2>2 DEF ImportedOrSkipped, Linked
<1>9. ASSUME NEW x \in ExtIds, DeleteAccount(x) PROVE ImportedOrSkipped'
    BY <1>9, <1>t DEF DeleteAccount, ImportedOrSkipped, Linked
<1>10. ASSUME NEW x \in ExtIds, NEW t \in TxnIds, ChooseOn(x, t) \/ DeleteTransaction(x, t)
       PROVE  ImportedOrSkipped'
    <2>1. \A y \in ExtIds : acct'[y].gen = acct[y].gen
        <3>1. acct[x] \in Account
            BY <1>t
        <3>2. CASE ChooseOn(x, t)
            <4>1. acct' = [acct EXCEPT ![x] = [acct[x] EXCEPT
                      !.rows = [@ EXCEPT ![t] = [acct[x].rows[t] EXCEPT !.chosen = TRUE]],
                      !.chose = acct[x].chose \cup {t}]]
                BY <3>2, Zenon DEF ChooseOn
            <4> QED
                BY <1>t, <3>1, <4>1 DEF Account
        <3>3. CASE DeleteTransaction(x, t)
            <4>1. acct' = [acct EXCEPT ![x] = [acct[x] EXCEPT
                      !.rows = [@ EXCEPT ![t] = NoRow], !.gone = acct[x].gone \cup {t}]]
                BY <3>3, Zenon DEF DeleteTransaction
            <4> QED
                BY <1>t, <3>1, <4>1 DEF Account
        <3> QED
            BY <1>10, <3>2, <3>3
    <2> QED
        BY <1>1, <1>10, <2>1 DEF ChooseOn, DeleteTransaction, Linked
<1>11. CASE Disconnect
    BY <1>1, <1>11, <1>t DEF Disconnect, Linked
<1>12. CASE UNCHANGED vars
    BY <1>2, <1>12 DEF vars
<1> QED
    BY <1>3, <1>4, <1>5, <1>6, <1>7, <1>8, <1>9, <1>10, <1>11, <1>12
       DEF Next, Bank, Household, Step

\* No account is both kept up to date and listed as skipped, whatever the
\* bank, the household and any number of syncs do.
THEOREM NeverBothImportedAndSkipped == Spec => []ImportedOrSkipped
<1>1. Init => TypeOK /\ ImportedOrSkipped
    BY TypeInit DEF Init, ImportedOrSkipped
<1>2. TypeOK /\ ImportedOrSkipped /\ [Next]_vars => (TypeOK /\ ImportedOrSkipped)'
    BY TypeNext, ImportedOrSkippedNext
<1> QED
    BY <1>1, <1>2, PTL DEF Spec

-----------------------------------------------------------------------------
(* The inductive invariant                                                 *)

\* The syncs that know accounts and cursors and may still write.
Talking == {p \in Procs : pc[p] \in {"asking", "reading", "read"}}

\* The bank never sends again what it took back.
NeverReused == \A x \in ExtIds, t \in TxnIds : \A i, j, k \in 0..Len(log[x]) :
    i <= j /\ j <= k /\ Said(x, i)[t] # 0 /\ Said(x, j)[t] = 0 => Said(x, k)[t] = 0

\* What the row a of the account x says of its stream.
Held(x, a) ==
    /\ From(a.cursor) <= Len(log[x])
    /\ \A t \in TxnIds :
        /\ a.rows[t].version = 0 => a.rows[t] = NoRow
        /\ t \in a.gone \/ a.rows[t] # NoRow => \E i \in 0..From(a.cursor) : Said(x, i)[t] # 0
        /\ t \in a.gone => a.rows[t] = NoRow
        /\ ~a.midSync =>
            a.rows[t].version = IF t \in a.gone THEN 0 ELSE Said(x, From(a.cursor))[t]

\* What the sync j knows of x, whose row is a: its cursor has not moved since,
\* or the row is a new one, which still holds nothing.
Knows(x, a, j) ==
    j.gens[x] # 0 =>
        /\ From(j.cursors[x]) <= Len(log[x])
        /\ a.gen = j.gens[x] => j.cursors[x] = a.cursor
        /\ a.gen \notin {0, j.gens[x]} =>
            /\ a.cursor = NoCursor /\ a.gone = {} /\ a.midSync
            /\ \A t \in TxnIds : a.rows[t] = NoRow

\* What the sync j has read of x so far.
HasRead(x, j) ==
    /\ j.reads[x] # NotRead =>
        /\ j.gens[x] # 0
        /\ j.reads[x].from = From(j.cursors[x])
        /\ j.reads[x].from <= j.reads[x].upto
        /\ j.reads[x].upto <= Len(log[x])
        /\ j.reads[x].cursor = j.reads[x].upto \/ (j.cursors[x] = NoCursor /\ j.reads[x].upto = 0)
    /\ j.pages # NoPages /\ j.pages.account = x =>
        /\ j.gens[x] # 0
        /\ From(j.cursors[x]) <= j.pages.size
        /\ j.pages.size <= Len(log[x])

Numbered(x) == acct[x].gen <= imports[x] /\ \A p \in Talking : job[p].gens[x] <= imports[x]

Faithful ==
    /\ NeverReused
    /\ \A x \in ExtIds : Held(x, acct[x]) /\ Numbered(x)
    /\ \A p \in Talking, x \in ExtIds : Knows(x, acct[x], job[p]) /\ HasRead(x, job[p])

Inv == Apart /\ Faithful

-----------------------------------------------------------------------------
(* What an account may become                                              *)

LEMMA NothingHeld ==
    ASSUME TypeOK, NEW x \in ExtIds, NEW a, a.cursor = NoCursor, a.gone = {},
           a.rows = [t \in TxnIds |-> NoRow]
    PROVE  Held(x, a)
<1>1. From(a.cursor) = 0 /\ Len(log[x]) \in Nat
    BY DEF From, TypeOK
<1>2. \A t \in TxnIds : a.rows[t] = NoRow /\ Said(x, 0)[t] = 0
    BY DEF Said, Nothing
<1> QED
    BY <1>1, <1>2 DEF Held, NoRow

\* Nothing changed between two positions of a stream that say the same.
LEMMA Unchanged ==
    ASSUME NEW x \in ExtIds, NEW r, ~Changed(x, r), NEW t \in TxnIds
    PROVE  Said(x, r.from)[t] = Said(x, r.upto)[t]
BY DEF Changed, Added, Removed, Modified

LEMMA AppliedHeld ==
    ASSUME TypeOK, NeverReused, NEW p \in Procs, NEW x \in ExtIds, acct[x].gen # 0,
           Held(x, acct[x]), Knows(x, acct[x], job[p]), HasRead(x, job[p]),
           job[p].reads[x] # NotRead
    PROVE  Held(x, Applied(p, x))
<1> DEFINE a == acct[x]
           b == Applied(p, x)
           c == job[p].cursors[x]
           r == job[p].reads[x]
           same == a.gen = job[p].gens[x]
<1>1. /\ r.from = From(c) /\ r.from <= r.upto /\ r.upto <= Len(log[x])
      /\ r.cursor = r.upto \/ (c = NoCursor /\ r.upto = 0)
      /\ job[p].gens[x] # 0
    BY DEF HasRead
<1>2. /\ a \in Account /\ r \in Read /\ Len(log[x]) \in Nat
      /\ r.from \in Nat /\ r.upto \in Nat /\ c \in Cursor \cup {NoCursor}
    BY DEF TypeOK, Job, Read, Cursor
<1>3. From(a.cursor) \in Nat /\ From(a.cursor) <= Len(log[x])
    BY <1>2 DEF Account, Cursor, From, Held
<1>4. \A n \in Nat, t \in TxnIds : Said(x, n)[t] \in Nat
    BY SaidType DEF Content
\* The cursor the session has is the row's, whichever row it is.
<1>5. /\ same => c = a.cursor
      /\ ~same => a.cursor = NoCursor /\ a.gone = {} /\ a.midSync /\ \A t \in TxnIds : a.rows[t] = NoRow
    BY <1>1 DEF Knows
<1>6. b = [a EXCEPT !.rows = [t \in TxnIds |-> RowAfter(x, r, a.rows, t)],
                    !.cursor = NextCursor(x, r, a.cursor)]
    BY <1>2, <1>5 DEF Applied, Account
<1>7. /\ b.cursor = NextCursor(x, r, a.cursor) /\ b.gone = a.gone /\ b.midSync = a.midSync
      /\ \A t \in TxnIds : b.rows[t] = RowAfter(x, r, a.rows, t)
    BY <1>2, <1>6 DEF Account
<1>8. From(a.cursor) <= r.upto
    BY <1>1, <1>2, <1>5 DEF From
<1>9. Changed(x, r) => r.cursor = r.upto
    <2>1. r.upto = 0 => r.from = 0
        BY <1>1, <1>2
    <2> QED
        BY <1>1, <2>1 DEF Changed, Added, Removed, Modified
\* The new cursor is where the pages ended, unless there is still none.
<1>10. \/ b.cursor = r.upto
       \/ b.cursor = NoCursor /\ a.cursor = NoCursor /\ ~Changed(x, r)
    BY <1>1, <1>5, <1>7, <1>9 DEF NextCursor
<1>11. /\ From(b.cursor) \in Nat /\ From(a.cursor) <= From(b.cursor)
       /\ From(b.cursor) <= Len(log[x])
       /\ Changed(x, r) => b.cursor = r.upto
    BY <1>1, <1>2, <1>3, <1>8, <1>10 DEF From
<1>12. ASSUME NEW t \in TxnIds, t \in Added(x, r) \cup Modified(x, r)
       PROVE  Changed(x, r) /\ Said(x, r.upto)[t] # 0
    BY <1>12 DEF Changed, Added, Modified
\* What the household deleted is not among what was added.
<1>13. ASSUME NEW t \in a.gone, t \in TxnIds PROVE t \notin Added(x, r) /\ a.rows[t] = NoRow
    <2>1. PICK i \in 0..From(a.cursor) : Said(x, i)[t] # 0
        BY <1>13 DEF Held
    <2>2. same /\ r.from = From(a.cursor)
        BY <1>1, <1>5, <1>13
    <2>3. i \in 0..Len(log[x]) /\ r.from \in 0..Len(log[x]) /\ r.upto \in 0..Len(log[x]) /\ i <= r.from
        BY <1>1, <1>2, <1>3, <2>1, <2>2
    <2>4. Said(x, r.from)[t] = 0 => Said(x, r.upto)[t] = 0
        <3> DEFINE m == r.from
                   n == r.upto
        <3>1. m \in 0..Len(log[x]) /\ n \in 0..Len(log[x]) /\ i <= m /\ m <= n
            BY <1>1, <2>3
        <3> HIDE DEF m, n
        <3>2. Said(x, m)[t] = 0 => Said(x, n)[t] = 0
            BY <1>13, <2>1, <2>3, <3>1 DEF NeverReused
        <3> QED
            BY <3>2 DEF m, n
    <2> QED
        BY <1>13, <2>4 DEF Added, Held
<1>14. ASSUME NEW t \in TxnIds
       PROVE  /\ b.rows[t].version = 0 => b.rows[t] = NoRow
              /\ t \in b.gone \/ b.rows[t] # NoRow => \E i \in 0..From(b.cursor) : Said(x, i)[t] # 0
              /\ t \in b.gone => b.rows[t] = NoRow
              /\ ~b.midSync =>
                  b.rows[t].version = IF t \in b.gone THEN 0 ELSE Said(x, From(b.cursor))[t]
    <2>0. a.rows[t] \in Row /\ a.rows \in [TxnIds -> Row]
        BY <1>2 DEF Account
    <2> DEFINE old == a.rows[t]
               new == RowAfter(x, r, a.rows, t)
               v == Said(x, r.upto)[t]
    <2>1. b.rows[t] = new
        BY <1>7
    \* Every way a row comes out of a sync.
    <2>2. \/ t \in Removed(x, r) /\ new = NoRow
          \/ t \in Added(x, r) \cup Modified(x, r) /\ new.version = v /\ (t \in Added(x, r) \/ old # NoRow)
          \/ t \notin Removed(x, r) \cup Added(x, r) /\ new = old
              /\ (t \in Modified(x, r) => old = NoRow)
        BY <2>0 DEF RowAfter, HasRow, Row
    <2>3. t \in Added(x, r) \cup Modified(x, r) => v # 0 /\ From(b.cursor) = r.upto
        BY <1>2, <1>11, <1>12 DEF From
    <2>4. b.rows[t].version = 0 => b.rows[t] = NoRow
        BY <2>1, <2>2, <2>3 DEF Held
    <2>5. t \in b.gone => b.rows[t] = NoRow
        BY <1>7, <1>13, <2>1, <2>2
    <2>6. ASSUME t \in b.gone \/ b.rows[t] # NoRow
          PROVE  \E i \in 0..From(b.cursor) : Said(x, i)[t] # 0
        <3>1. CASE t \in a.gone \/ old # NoRow
            <4>1. PICK i \in 0..From(a.cursor) : Said(x, i)[t] # 0
                BY <3>1 DEF Held
            <4>2. i \in 0..From(b.cursor)
                BY <1>3, <1>11
            <4> QED
                BY <4>1, <4>2
        <3>2. CASE t \in Added(x, r) \cup Modified(x, r)
            BY <1>2, <1>11, <2>3, <3>2
        <3> QED
            BY <1>7, <2>1, <2>2, <2>6, <3>1, <3>2
    <2>7. ASSUME ~b.midSync
          PROVE  b.rows[t].version = IF t \in b.gone THEN 0 ELSE Said(x, From(b.cursor))[t]
        <3>1. same /\ r.from = From(a.cursor)
            BY <1>1, <1>5, <1>7, <2>7
        <3>2. old.version = IF t \in a.gone THEN 0 ELSE Said(x, r.from)[t]
            BY <1>7, <2>7, <3>1 DEF Held
        <3>3. CASE t \in a.gone
            BY <1>7, <2>1, <2>5, <3>3 DEF NoRow
        <3>4. CASE t \notin a.gone /\ ~Changed(x, r)
            <4>1. Said(x, r.from)[t] = v /\ new = old
                BY <2>2, <3>4, Unchanged DEF Changed
            <4>2. Said(x, From(b.cursor))[t] = v
                BY <1>1, <1>2, <1>10, <3>1, <4>1 DEF From
            <4> QED
                BY <1>7, <2>1, <3>2, <3>4, <4>1, <4>2
        <3>5. CASE t \notin a.gone /\ Changed(x, r)
            <4>1. From(b.cursor) = r.upto
                BY <1>2, <1>11, <3>5 DEF From
            <4>2. new.version = v
                <5>1. CASE t \in Removed(x, r)
                    <6>1. t \notin Added(x, r) \cup Modified(x, r) /\ v = 0
                        BY <5>1 DEF Removed, Added, Modified
                    <6> QED
                        BY <2>2, <5>1, <6>1 DEF NoRow
                <5>2. CASE t \in Modified(x, r)
                    <6>1. t \notin Removed(x, r) /\ Said(x, r.from)[t] # 0
                        BY <5>2 DEF Removed, Modified
                    <6>2. old # NoRow
                        BY <3>2, <3>5, <6>1 DEF NoRow
                    <6> QED
                        BY <2>2, <5>2, <6>1, <6>2
                <5>3. CASE t \notin Removed(x, r) \cup Modified(x, r)
                    BY <2>2, <3>2, <3>5, <5>3 DEF Removed, Added, Modified
                <5> QED
                    BY <5>1, <5>2, <5>3
            <4> QED
                BY <1>7, <2>1, <3>5, <4>1, <4>2
        <3> QED
            BY <3>3, <3>4, <3>5
    <2> QED
        BY <2>4, <2>5, <2>6, <2>7
<1> QED
    BY <1>11, <1>14 DEF Held

-----------------------------------------------------------------------------
(* The bank says something more                                            *)

LEMMA SaidKept ==
    ASSUME TypeOK, NEW x \in ExtIds, NEW content \in Content, BankSays(x, content)
    PROVE  /\ \A y \in ExtIds : /\ Len(log[y]) \in Nat /\ Len(log'[y]) \in Nat
                                /\ Len(log'[y]) = IF y = x THEN Len(log[y]) + 1 ELSE Len(log[y])
                                /\ \A n \in 0..Len(log[y]) : Said(y, n)' = Said(y, n)
           /\ \A n \in Nat : n = Len(log[x]) + 1 => Said(x, n)' = content
<1>1. /\ log \in [ExtIds -> Seq(Content)]
      /\ log' = [log EXCEPT ![x] = Append(log[x], content)]
    BY DEF TypeOK, BankSays
<1>2. /\ Len(log[x]) \in Nat /\ Len(log'[x]) = Len(log[x]) + 1
      /\ log'[x][Len(log[x]) + 1] = content
      /\ \A i \in 1..Len(log[x]) : log'[x][i] = log[x][i]
    BY <1>1
<1>3. \A n \in Nat : n = Len(log[x]) + 1 => Said(x, n)' = content
    BY <1>2 DEF Said
<1>4. ASSUME NEW y \in ExtIds
      PROVE  /\ Len(log[y]) \in Nat /\ Len(log'[y]) \in Nat
             /\ Len(log'[y]) = IF y = x THEN Len(log[y]) + 1 ELSE Len(log[y])
             /\ \A n \in 0..Len(log[y]) : Said(y, n)' = Said(y, n)
    <2>1. CASE y = x
        BY <1>2, <2>1 DEF Said
    <2>2. CASE y # x
        BY <1>1, <2>2 DEF Said
    <2> QED
        BY <2>1, <2>2
<1> QED
    BY <1>3, <1>4

\* Nothing known so far depends on what is said next.
LEMMA BankKeepsFaith ==
    ASSUME TypeOK, Faithful, NEW x \in ExtIds, NEW content \in Content, BankSays(x, content),
           \A t \in TxnIds : Latest(x)[t] = 0 /\ (\E i \in 0..Len(log[x]) : Said(x, i)[t] # 0)
                             => content[t] = 0
    PROVE  Faithful'
<1>1. /\ \A y \in ExtIds : /\ Len(log[y]) \in Nat /\ Len(log'[y]) \in Nat
                           /\ Len(log'[y]) = IF y = x THEN Len(log[y]) + 1 ELSE Len(log[y])
                           /\ \A n \in 0..Len(log[y]) : Said(y, n)' = Said(y, n)
      /\ \A n \in Nat : n = Len(log[x]) + 1 => Said(x, n)' = content
    BY SaidKept
<1>2. acct' = acct /\ imports' = imports /\ pc' = pc /\ job' = job /\ Talking' = Talking
    BY DEF BankSays, boundVars, Talking
<1>3. NeverReused'
    <2> SUFFICES ASSUME NEW y \in ExtIds, NEW t \in TxnIds,
                        NEW i \in 0..Len(log'[y]), NEW j \in 0..Len(log'[y]), NEW k \in 0..Len(log'[y]),
                        i <= j, j <= k, Said(y, i)'[t] # 0, Said(y, j)'[t] = 0
                 PROVE  Said(y, k)'[t] = 0
        BY DEF NeverReused
    <2>1. CASE k \in 0..Len(log[y])
        <3>1. i \in 0..Len(log[y]) /\ j \in 0..Len(log[y])
            BY <1>1, <2>1
        <3> QED
            BY <1>1, <2>1, <3>1 DEF Faithful, NeverReused
    <2>2. CASE k \notin 0..Len(log[y])
        <3>1. y = x /\ k = Len(log[x]) + 1
            BY <1>1, <2>2
        <3>2. CASE j = k
            BY <3>2
        <3>3. CASE j # k
            <4>1. i \in 0..Len(log[x]) /\ j \in 0..Len(log[x]) /\ Len(log[x]) \in 0..Len(log[x])
                BY <1>1, <3>1, <3>3
            <4>2. Said(x, i)[t] # 0 /\ Said(x, j)[t] = 0
                BY <1>1, <3>1, <4>1
            <4>3. Said(x, Len(log[x]))[t] = 0
                BY <4>1, <4>2 DEF Faithful, NeverReused
            <4> QED
                <5>1. Latest(x)[t] = 0 /\ (\E m \in 0..Len(log[x]) : Said(x, m)[t] # 0)
                    BY <4>1, <4>2, <4>3 DEF Latest
                <5>2. content[t] = 0
                    BY <5>1
                <5> QED
                    BY <1>1, <3>1, <5>2
        <3> QED
            BY <3>2, <3>3
    <2> QED
        BY <2>1, <2>2
<1>4. ASSUME NEW y \in ExtIds PROVE Held(y, acct[y])'
    <2> DEFINE a == acct[y]
    <2>1. Held(y, a) /\ From(a.cursor) \in Nat /\ From(a.cursor) <= Len(log[y])
        BY DEF Faithful, Held, TypeOK, Account, Cursor, From
    <2>2. \A n \in 0..From(a.cursor) : Said(y, n)' = Said(y, n)
        BY <1>1, <2>1
    <2>3. From(a.cursor) <= Len(log'[y])
        BY <1>1, <2>1
    <2> QED
        BY <1>2, <2>1, <2>2, <2>3 DEF Held, From
<1>5. ASSUME NEW p \in Talking, NEW y \in ExtIds PROVE Knows(y, acct[y], job[p])' /\ HasRead(y, job[p])'
    <2>0. Len(log[y]) <= Len(log'[y]) /\ Len(log[y]) \in Nat /\ Len(log'[y]) \in Nat
        BY <1>1
    <2>1. /\ From(job[p].cursors[y]) \in Nat /\ job[p].reads[y].upto \in Nat
          /\ job[p].pages.size \in Nat
        <3>1. job[p] \in Job
            BY DEF TypeOK, Talking
        <3>2. /\ job[p].cursors[y] \in Cursor \cup {NoCursor} /\ job[p].reads[y] \in Read
              /\ job[p].pages \in Pages
            BY <3>1 DEF Job
        <3> QED
            BY <3>2 DEF Pages, NoPages, Cursor, From, Read
    <2>2. Knows(y, acct[y], job[p]) /\ HasRead(y, job[p])
        BY DEF Faithful
    <2> QED
        BY <1>2, <2>0, <2>1, <2>2 DEF Knows, HasRead, From
<1>6. \A y \in ExtIds : Numbered(y)'
    BY <1>2 DEF Faithful, Numbered
<1> QED
    BY <1>2, <1>3, <1>4, <1>5, <1>6 DEF Faithful

LEMMA BankStep ==
    ASSUME TypeOK, Faithful, NEW x \in ExtIds, NEW t \in TxnIds, BankReports(x, t)
    PROVE  Faithful'
<1>1. /\ Latest(x) \in Content /\ Now(x) \in Nat \ {0} /\ Len(log[x]) \in Nat
      /\ \A i \in 0..Len(log[x]), u \in TxnIds :
            Said(x, i)[u] # 0 => i \in 1..Len(log[x]) /\ log[x][i][u] # 0
    BY LatestType DEF Said, Nothing, TypeOK
<1>2. Now(x) \in 0..MaxEvents
    BY <1>1 DEF BankReports, Now
<1>3. CASE BankAdds(x, t)
    <2>0. \A i \in 1..Len(log[x]) : log[x][i][t] = 0
        BY <1>3 DEF BankAdds
    <2>1. CASE BankSays(x, [Latest(x) EXCEPT ![t] = Now(x)])
        <3>1. [Latest(x) EXCEPT ![t] = Now(x)] \in Content
            BY <1>1, <1>2, <2>1 DEF Content
        <3> DEFINE content == [Latest(x) EXCEPT ![t] = Now(x)]
        <3>2. \A u \in TxnIds : Latest(x)[u] = 0 /\ (\E i \in 0..Len(log[x]) : Said(x, i)[u] # 0)
                                => content[u] = 0
            BY <1>1, <2>0 DEF Content
        <3> HIDE DEF content
        <3> QED
            BY <2>1, <3>1, <3>2, BankKeepsFaith DEF content
    <2>2. ASSUME NEW pending \in TxnIds \ {t}, Latest(x)[pending] # 0,
                 BankSays(x, [Latest(x) EXCEPT ![t] = Now(x), ![pending] = 0])
          PROVE  Faithful'
        <3> DEFINE content == [Latest(x) EXCEPT ![t] = Now(x), ![pending] = 0]
        <3>1. content \in Content
            BY <1>1, <1>2, <2>2 DEF Content
        <3>2. \A u \in TxnIds : Latest(x)[u] = 0 /\ (\E i \in 0..Len(log[x]) : Said(x, i)[u] # 0)
                                => content[u] = 0
            BY <1>1, <2>0 DEF Content
        <3> HIDE DEF content
        <3> QED
            BY <2>2, <3>1, <3>2, BankKeepsFaith DEF content
    <2> QED
        BY <1>3, <2>1, <2>2 DEF BankAdds
<1>4. CASE BankChanges(x, t)
    <2>1. PICK v \in {Now(x), 0} : BankSays(x, [Latest(x) EXCEPT ![t] = v]) /\ Latest(x)[t] # 0
        BY <1>4 DEF BankChanges
    <2> DEFINE content == [Latest(x) EXCEPT ![t] = v]
    <2>2. content \in Content
        BY <1>1, <1>2, <2>1 DEF Content
    <2>3. \A u \in TxnIds : Latest(x)[u] = 0 /\ (\E i \in 0..Len(log[x]) : Said(x, i)[u] # 0)
                            => content[u] = 0
        BY <1>1, <2>1 DEF Content
    <2> HIDE DEF content
    <2> QED
        BY <2>1, <2>2, <2>3, BankKeepsFaith DEF content
<1> QED
    BY <1>3, <1>4 DEF BankReports

-----------------------------------------------------------------------------
(* The other steps                                                         *)

\* A step that leaves the streams alone keeps the faith when every account it
\* leaves and every sync still talking do.
LEMMA FaithfulStep ==
    ASSUME Faithful, UNCHANGED log,
           \A x \in ExtIds : Held(x, acct'[x]) /\ Numbered(x)',
           \A p \in Talking', x \in ExtIds : Knows(x, acct'[x], job'[p]) /\ HasRead(x, job'[p])
    PROVE  Faithful'
<1>1. \A x \in ExtIds, n \in Nat : Said(x, n)' = Said(x, n)
    BY DEF Said
<1>2. NeverReused'
    <2>1. \A x \in ExtIds : \A i \in 0..Len(log[x]) : Said(x, i)' = Said(x, i)
        BY <1>1
    <2> QED
        BY <2>1 DEF Faithful, NeverReused
<1>3. ASSUME NEW x \in ExtIds PROVE Held(x, acct[x])'
    BY DEF Held, From, Said
<1>4. ASSUME NEW p \in Talking', NEW x \in ExtIds PROVE (Knows(x, acct[x], job[p]) /\ HasRead(x, job[p]))'
    BY DEF Knows, HasRead, From
<1> QED
    BY <1>2, <1>3, <1>4 DEF Faithful

\* A step that does not touch what Faithful is about.
LEMMA QuietStep ==
    ASSUME Faithful, UNCHANGED <<log, acct, imports>>, Talking' \subseteq Talking,
           \A p \in Talking' : job'[p] = job[p]
    PROVE  Faithful'
<1>1. \A x \in ExtIds : Held(x, acct'[x]) /\ Numbered(x)'
    BY DEF Faithful, Numbered
<1>2. \A p \in Talking', x \in ExtIds : Knows(x, acct'[x], job'[p]) /\ HasRead(x, job'[p])
    BY DEF Faithful
<1> QED
    BY <1>1, <1>2, FaithfulStep

\* A step of a sync that reads on, and remembers what the bank said.
LEMMA TalkingStep ==
    ASSUME TypeOK, Faithful, UNCHANGED <<log, acct, imports>>, NEW p \in Talking, NEW j,
           job' = [job EXCEPT ![p] = j], Talking' \subseteq Talking,
           j.gens = job[p].gens, j.cursors = job[p].cursors,
           \A x \in ExtIds : HasRead(x, j)
    PROVE  Faithful'
<1>1. p \in Procs /\ job \in [Procs -> Job] /\ Talking \subseteq Procs
    BY DEF Talking, TypeOK
<1>2. job'[p] = j /\ \A q \in Talking : q # p => job'[q] = job[q]
    BY <1>1
<1>3. \A x \in ExtIds : Held(x, acct'[x]) /\ Numbered(x)'
    BY <1>1, <1>2 DEF Faithful, Numbered
<1>4. \A q \in Talking', x \in ExtIds : Knows(x, acct'[x], job'[q]) /\ HasRead(x, job'[q])
    BY <1>2 DEF Faithful, Knows
<1> QED
    BY <1>3, <1>4, FaithfulStep

\* A step of the household's, which may replace accounts.
LEMMA HouseholdStep ==
    ASSUME Faithful, UNCHANGED <<log, job>>, Talking' = Talking,
           \A x \in ExtIds : Held(x, acct'[x]) /\ acct'[x].gen <= imports'[x] /\ imports[x] <= imports'[x],
           imports \in [ExtIds -> Nat], imports' \in [ExtIds -> Nat],
           \A p \in Talking, x \in ExtIds : job[p].gens[x] \in Nat,
           \A p \in Talking, x \in ExtIds : Knows(x, acct'[x], job[p])
    PROVE  Faithful'
<1>1. \A x \in ExtIds : Held(x, acct'[x]) /\ Numbered(x)'
    <2> SUFFICES ASSUME NEW x \in ExtIds, NEW p \in Talking PROVE job[p].gens[x] <= imports'[x]
        BY DEF Numbered
    <2>1. job[p].gens[x] <= imports[x] /\ imports[x] <= imports'[x]
        BY DEF Faithful, Numbered
    <2>2. imports[x] \in Nat /\ imports'[x] \in Nat /\ job[p].gens[x] \in Nat
        OBVIOUS
    <2> QED
        BY <2>1, <2>2
<1>2. \A p \in Talking', x \in ExtIds : Knows(x, acct'[x], job'[p]) /\ HasRead(x, job'[p])
    BY DEF Faithful
<1> QED
    BY <1>1, <1>2, FaithfulStep

LEMMA FaithfulInit == Init => Faithful
<1> SUFFICES ASSUME Init PROVE Faithful
    OBVIOUS
<1>1. TypeOK
    BY TypeInit
<1>2. Talking = {}
    BY DEF Init, Talking
<1>3. \A x \in ExtIds : Len(log[x]) = 0
    BY DEF Init
<1>4. \A x \in ExtIds, n \in Nat : Said(x, n) = Nothing
    BY <1>3 DEF Said
<1>5. NeverReused
    BY <1>3, <1>4 DEF NeverReused, Nothing
<1>6. \A x \in ExtIds : Held(x, acct[x]) /\ Numbered(x)
    <2> SUFFICES ASSUME NEW x \in ExtIds PROVE Held(x, acct[x]) /\ Numbered(x)
        OBVIOUS
    <2>1. acct[x] = NoAccount /\ imports[x] = 0
        BY DEF Init
    <2>2. Held(x, acct[x])
        BY <1>1, <2>1, NothingHeld DEF NoAccount
    <2>3. Numbered(x)
        BY <1>2, <2>1 DEF NoAccount, Numbered
    <2> QED
        BY <2>2, <2>3
<1> QED
    BY <1>2, <1>5, <1>6 DEF Faithful

LEMMA FaithfulNext == LeaseHonoured /\ Inv /\ [Next]_vars => Faithful'
<1> SUFFICES ASSUME LeaseHonoured, Inv, [Next]_vars PROVE Faithful'
    OBVIOUS
<1> USE DEF bankVars, connVars, boundVars
<1>0. TypeOK /\ Faithful /\ OneSyncAtATime
    BY DEF Inv, Apart
<1>t. /\ pc \in [Procs -> {"idle", "calling", "claimed", "asking", "reading",
                           "read", "failed", "releasing"}]
      /\ job \in [Procs -> Job] /\ acct \in [ExtIds -> Account]
      /\ imports \in [ExtIds -> Nat] /\ Requests \subseteq Procs
      /\ Talking \subseteq Procs
      /\ \A p \in Talking, x \in ExtIds : job[p].gens[x] \in Nat /\ job[p] \in Job
    BY <1>0 DEF TypeOK, Procs, Talking, Job
\* Bank
<1>1. ASSUME NEW x \in ExtIds, NEW t \in TxnIds, BankReports(x, t) PROVE Faithful'
    BY <1>0, <1>1, BankStep
<1>2. ASSUME NEW x \in ExtIds, BankSharesOrNot(x) PROVE Faithful'
    BY <1>0, <1>2, QuietStep DEF BankSharesOrNot, Talking
<1>3. CASE HealthChanges \/ Recovers \/ HistoryProgresses \/ WindowPasses \/ LeasePasses
    BY <1>0, <1>3, QuietStep
       DEF HealthChanges, Recovers, HistoryProgresses, WindowPasses, LeasePasses, Talking
\* Starting and ending a sync
<1>4. ASSUME NEW p \in Procs, NEW s \in {"idle", "calling", "claimed", "failed", "releasing"},
             UNCHANGED <<log, acct, imports>>, pc' = [pc EXCEPT ![p] = s],
             \A q \in Procs \ {p} : job'[q] = job[q]
      PROVE  Faithful'
    BY <1>0, <1>4, <1>t, QuietStep DEF Talking
<1>5. CASE WorkerPicks
    BY <1>4, <1>5 DEF WorkerPicks, Call, Procs
<1>6. ASSUME NEW p \in Requests, SyncNow(p) PROVE Faithful'
    BY <1>4, <1>6 DEF SyncNow, Call, Procs
<1>7. ASSUME NEW p \in Procs, Claim(p) PROVE Faithful'
    BY <1>4, <1>7 DEF Claim
<1>8. ASSUME NEW p \in Procs, RecordFailure(p) \/ Release(p) \/ Crash(p) \/ Breaks(p) PROVE Faithful'
    <2>1. job' = job \/ job' = [job EXCEPT ![p] = NoJob]
        BY <1>8 DEF RecordFailure, Release, Crash, Breaks, Done
    <2>2. \A q \in Procs \ {p} : job'[q] = job[q]
        BY <1>t, <2>1
    <2> QED
        BY <1>4, <1>8, <2>2 DEF RecordFailure, Release, Crash, Breaks, Done
<1>9. ASSUME NEW p \in Procs, Snapshot(p) PROVE Faithful'
    <2>1. CASE ~connected
        BY <1>4, <1>9, <2>1 DEF Snapshot
    <2>2. CASE connected
        <3> DEFINE j == [NoJob EXCEPT
                  !.gens = [x \in ExtIds |-> acct[x].gen],
                  !.cursors = [x \in ExtIds |-> acct[x].cursor],
                  !.hadAny = \E x \in Linked, t \in TxnIds : HasRow(acct[x].rows, t)]
        <3>1. job' = [job EXCEPT ![p] = j] /\ pc' = [pc EXCEPT ![p] = "asking"]
              /\ UNCHANGED <<log, acct, imports>>
            BY <1>9, <2>2, Zenon DEF Snapshot
        <3>2. \A x \in ExtIds : j.gens[x] = acct[x].gen /\ j.cursors[x] = acct[x].cursor
                                /\ j.reads[x] = NotRead /\ j.pages = NoPages
            BY DEF NoJob
        <3> HIDE DEF j
        <3>3. Talking' = Talking \cup {p} /\ job'[p] = j /\ \A q \in Procs \ {p} : job'[q] = job[q]
            BY <1>t, <3>1 DEF Talking
        <3>4. \A x \in ExtIds : Knows(x, acct[x], j) /\ HasRead(x, j)
            BY <1>0, <3>2 DEF Faithful, Held, Knows, HasRead
        <3>5. \A x \in ExtIds : Held(x, acct'[x]) /\ Numbered(x)'
            BY <1>0, <1>t, <3>1, <3>2, <3>3 DEF Faithful, Numbered
        <3>6. \A q \in Talking', x \in ExtIds : Knows(x, acct'[x], job'[q]) /\ HasRead(x, job'[q])
            <4> SUFFICES ASSUME NEW q \in Talking', NEW x \in ExtIds
                         PROVE  Knows(x, acct'[x], job'[q]) /\ HasRead(x, job'[q])
                OBVIOUS
            <4>1. CASE q = p
                BY <3>1, <3>3, <3>4, <4>1
            <4>2. CASE q # p
                <5>1. q \in Talking /\ job'[q] = job[q] /\ acct' = acct
                    BY <1>t, <3>1, <3>3, <4>2
                <5> QED
                    BY <1>0, <5>1 DEF Faithful
            <4> QED
                BY <4>1, <4>2
        <3> QED
            BY <1>0, <3>1, <3>5, <3>6, FaithfulStep
    <2> QED
        BY <2>1, <2>2
\* Asking Plaid
<1>10. ASSUME NEW p \in Procs, pc[p] \in {"asking", "reading", "read"}
       PROVE  /\ p \in Talking /\ job[p] \in Job
              /\ \A x \in ExtIds : Knows(x, acct[x], job[p]) /\ HasRead(x, job[p])
    BY <1>0, <1>10, <1>t DEF Talking, Faithful
<1>11. ASSUME NEW p \in Procs, NEW code, Fail(p, code), UNCHANGED <<log, acct, imports>> PROVE Faithful'
    <2>1. \A q \in Procs \ {p} : job'[q] = job[q]
        BY <1>11, <1>t DEF Fail
    <2> QED
        BY <1>4, <1>11, <2>1 DEF Fail
<1>12. ASSUME NEW p \in Procs, GetAccounts(p) PROVE Faithful'
    <2>1. CASE health \in {"login", "broken"}
        BY <1>11, <1>12, <2>1 DEF GetAccounts
    <2>2. CASE health \notin {"login", "broken"}
        <3> DEFINE j == [job[p] EXCEPT !.shared = shares]
        <3>1. job' = [job EXCEPT ![p] = j] /\ pc' = [pc EXCEPT ![p] = "reading"]
              /\ UNCHANGED <<log, acct, imports>> /\ pc[p] = "asking"
            BY <1>12, <2>2 DEF GetAccounts
        <3>2. /\ j.gens = job[p].gens /\ j.cursors = job[p].cursors
              /\ j.reads = job[p].reads /\ j.pages = job[p].pages
            BY <1>t DEF Job
        <3>3. p \in Talking /\ \A x \in ExtIds : HasRead(x, job[p])
            BY <1>10, <3>1
        <3>4. Talking' \subseteq Talking
            BY <1>t, <3>1, <3>3 DEF Talking
        <3> HIDE DEF j
        <3>5. \A x \in ExtIds : HasRead(x, j)
            BY <3>2, <3>3 DEF HasRead
        <3> QED
            BY <1>0, <3>1, <3>2, <3>3, <3>4, <3>5, TalkingStep
    <2> QED
        BY <2>1, <2>2
<1>13. ASSUME NEW p \in Procs, AllRead(p) PROVE Faithful'
    <2>1. PICK code : job' = [job EXCEPT ![p] = [job[p] EXCEPT !.outcome = code]]
        BY <1>13 DEF AllRead
    <2> DEFINE j == [job[p] EXCEPT !.outcome = code]
    <2>2. /\ j.gens = job[p].gens /\ j.cursors = job[p].cursors
          /\ j.reads = job[p].reads /\ j.pages = job[p].pages
        BY <1>t DEF Job
    <2>3. p \in Talking /\ \A x \in ExtIds : HasRead(x, job[p])
        BY <1>10, <1>13 DEF AllRead
    <2>4. Talking' \subseteq Talking /\ UNCHANGED <<log, acct, imports>>
        BY <1>13, <1>t, <2>3 DEF Talking, AllRead
    <2> HIDE DEF j
    <2>5. \A x \in ExtIds : HasRead(x, j)
        BY <2>2, <2>3 DEF HasRead
    <2> QED
        BY <1>0, <2>1, <2>2, <2>3, <2>4, <2>5, TalkingStep DEF j
<1>14. ASSUME NEW p \in Procs, pc[p] = "reading", UNCHANGED <<log, acct, imports, pc>>,
              NEW x \in ExtIds, NEW size, NEW attempt, job[p].gens[x] # 0, size = Len(log[x]),
              job' = [job EXCEPT ![p] = [job[p] EXCEPT
                         !.pages = [account |-> x, size |-> size, attempt |-> attempt]]]
       PROVE  Faithful'
    <2> DEFINE j == [job[p] EXCEPT !.pages = [account |-> x, size |-> size, attempt |-> attempt]]
    <2>1. /\ j.gens = job[p].gens /\ j.cursors = job[p].cursors /\ j.reads = job[p].reads
          /\ j.pages.account = x /\ j.pages.size = size
        BY <1>t DEF Job
    <2>2. p \in Talking /\ \A y \in ExtIds : Knows(y, acct[y], job[p]) /\ HasRead(y, job[p])
        BY <1>10, <1>14
    <2>3. Len(log[x]) \in Nat
        BY <1>0 DEF TypeOK
    <2>4. Talking' \subseteq Talking
        BY <1>14 DEF Talking
    <2> HIDE DEF j
    <2>5. \A y \in ExtIds : HasRead(y, j)
        BY <1>14, <2>1, <2>2, <2>3 DEF HasRead, Knows
    <2> QED
        BY <1>0, <1>14, <2>1, <2>2, <2>4, <2>5, TalkingStep DEF j
<1>15. ASSUME NEW p \in Procs, BeginPages(p) PROVE Faithful'
    <2>1. PICK x \in ToRead(p) :
              job' = [job EXCEPT ![p].pages = [account |-> x, size |-> Len(log[x]), attempt |-> 1]]
        BY <1>15 DEF BeginPages
    <2>2. x \in ExtIds /\ job[p].gens[x] # 0
        BY <2>1 DEF ToRead
    <2> QED
        BY <1>14, <1>15, <2>1, <2>2 DEF BeginPages
<1>16. ASSUME NEW p \in Procs, EndPages(p) PROVE Faithful'
    <2> DEFINE x == job[p].pages.account
    <2>1. /\ pc[p] = "reading" /\ UNCHANGED <<log, acct, imports>>
          /\ job[p].pages # NoPages
        BY <1>16 DEF EndPages
    <2>2. /\ p \in Talking /\ job[p] \in Job
          /\ \A y \in ExtIds : Knows(y, acct[y], job[p]) /\ HasRead(y, job[p])
        BY <1>10, <2>1
    <2>3. x \in ExtIds
        BY <2>1, <2>2 DEF Job, Pages
    <2>4. /\ job[p].gens[x] # 0
          /\ From(job[p].cursors[x]) <= job[p].pages.size /\ job[p].pages.size <= Len(log[x])
        BY <2>1, <2>2, <2>3 DEF HasRead
    <2>5. CASE \E code : Fail(p, code)
        BY <1>11, <2>1, <2>5
    <2>6. CASE PagesRead(p, x) /\ pc' = pc
        <3>1. PICK ahead \in (IF job[p].cursors[x] = NoCursor /\ job[p].pages.size = 0
                              THEN {0, 1} ELSE {0}) :
                job' = [job EXCEPT ![p] = [@ EXCEPT
                    !.pages = NoPages,
                    !.reads[x] = [from |-> From(job[p].cursors[x]), upto |-> job[p].pages.size,
                                  cursor |-> job[p].pages.size + ahead, stage |-> progress]]]
            BY <2>6 DEF PagesRead
        <3> DEFINE new == [from |-> From(job[p].cursors[x]), upto |-> job[p].pages.size,
                           cursor |-> job[p].pages.size + ahead, stage |-> progress]
                   j == [job[p] EXCEPT !.pages = NoPages, !.reads = [@ EXCEPT ![x] = new]]
        <3>2. job' = [job EXCEPT ![p] = j]
            BY <3>1
        <3>3. /\ j.gens = job[p].gens /\ j.cursors = job[p].cursors /\ j.pages = NoPages
              /\ \A y \in ExtIds : j.reads[y] = IF y = x THEN new ELSE job[p].reads[y]
            BY <2>2, <2>3 DEF Job
        <3>4. /\ new.from = From(job[p].cursors[x]) /\ new.upto = job[p].pages.size
              /\ new.cursor = new.upto \/ (job[p].cursors[x] = NoCursor /\ new.upto = 0)
            <4>1. job[p].pages.size \in Nat
                BY <2>2 DEF Job, Pages, NoPages
            <4> HIDE DEF x
            <4> QED
                BY <3>1, <4>1
        <3> HIDE DEF j, new, x
        <3>5. \A y \in ExtIds : HasRead(y, j)
            BY <2>2, <2>4, <3>3, <3>4 DEF HasRead
        <3>6. Talking' \subseteq Talking
            BY <2>6 DEF Talking
        <3> QED
            BY <1>0, <2>1, <2>2, <3>2, <3>3, <3>5, <3>6, TalkingStep
    <2>7. CASE /\ job' = [job EXCEPT ![p].pages =
                             [account |-> x, size |-> Len(log[x]), attempt |-> job[p].pages.attempt + 1]]
               /\ pc' = pc
        BY <1>14, <2>1, <2>3, <2>4, <2>7
    <2> QED
        BY <1>16, <2>5, <2>6, <2>7, Zenon DEF EndPages
\* Writing
<1>17. ASSUME NEW p \in Procs, Apply(p) PROVE Faithful'
    <2>1. /\ p \in Talking /\ \A x \in ExtIds : Knows(x, acct[x], job[p]) /\ HasRead(x, job[p])
        BY <1>10, <1>17 DEF Apply
    <2>2. Talking' = {} /\ UNCHANGED <<log, imports>>
        BY <1>0, <1>17, <1>t DEF Apply, Done, Talking, OneSyncAtATime, Syncing
    <2>3. ASSUME NEW x \in ExtIds PROVE Held(x, acct'[x]) /\ acct'[x].gen <= imports'[x]
        <3>1. Held(x, acct[x]) /\ acct[x].gen <= imports[x] /\ imports[x] \in Nat
            BY <1>0, <1>t DEF Faithful, Numbered
        <3>2. CASE acct'[x] = acct[x]
            BY <2>2, <3>1, <3>2
        <3>3. CASE acct'[x] = NoAccount
            BY <1>0, <2>2, <3>1, <3>3, NothingHeld DEF NoAccount
        <3>4. CASE acct'[x] = Applied(p, x) /\ acct[x].gen # 0 /\ job[p].reads[x] # NotRead
            <4>1. Held(x, Applied(p, x))
                BY <1>0, <2>1, <3>1, <3>4, AppliedHeld DEF Faithful
            <4>2. Applied(p, x).gen = acct[x].gen
                BY <1>0, AppliedType
            <4> QED
                BY <2>2, <3>1, <3>4, <4>1, <4>2
        <3> QED
            BY <1>17, <3>2, <3>3, <3>4 DEF Apply, Linked
    <2>4. \A x \in ExtIds : Numbered(x)'
        BY <2>2, <2>3 DEF Numbered
    <2> QED
        BY <1>0, <2>2, <2>3, <2>4, FaithfulStep
\* The household
<1>18. ASSUME NEW p \in Requests, NEW chosen \in SUBSET ExtIds, ChooseAccounts(p, chosen) PROVE Faithful'
    <2>1. Talking' = Talking /\ UNCHANGED <<log, job>>
        BY <1>18, <1>t DEF ChooseAccounts, Call, Talking
    <2>2. ASSUME NEW x \in ExtIds
          PROVE  /\ Held(x, acct'[x]) /\ acct'[x].gen <= imports'[x]
                 /\ imports[x] <= imports'[x] /\ imports'[x] \in Nat
                 /\ \A q \in Talking : Knows(x, acct'[x], job[q])
        <3>1. /\ Held(x, acct[x]) /\ acct[x].gen <= imports[x] /\ imports[x] \in Nat
              /\ \A q \in Talking : Knows(x, acct[x], job[q]) /\ job[q].gens[x] <= imports[x]
                                    /\ job[q].gens[x] \in Nat
            BY <1>0, <1>t DEF Faithful, Numbered
        <3>2. imports'[x] = IF x \in chosen \ Linked THEN imports[x] + 1 ELSE imports[x]
            BY <1>18 DEF ChooseAccounts
        <3>3. CASE x \in chosen \ Linked /\ acct'[x] = Import(x)
            <4>1. /\ acct'[x].gen = imports[x] + 1 /\ acct'[x].cursor = NoCursor /\ acct'[x].gone = {}
                  /\ acct'[x].rows = [t \in TxnIds |-> NoRow] /\ acct'[x].midSync = KnownToASync(x)
                BY <3>3 DEF Import, NoAccount
            <4>2. Held(x, acct'[x])
                BY <1>0, <4>1, NothingHeld
            <4>3. ASSUME NEW q \in Talking PROVE Knows(x, acct'[x], job[q])
                <5>1. job[q].gens[x] # 0 => KnownToASync(x)
                    BY <4>3, <1>t DEF KnownToASync, Talking
                <5>2. job[q].gens[x] # 0 => Knows(x, acct[x], job[q]) /\ acct'[x].gen # job[q].gens[x]
                    BY <3>1, <4>1
                <5> QED
                    BY <4>1, <5>1, <5>2 DEF Knows
            <4> QED
                BY <3>1, <3>2, <3>3, <4>1, <4>2, <4>3
        <3>4. CASE acct'[x] = NoAccount
            BY <1>0, <3>1, <3>2, <3>4, NothingHeld DEF NoAccount, Knows
        <3>5. CASE acct'[x] = acct[x]
            <4>1. acct[x].gen \in Nat
                BY <1>t DEF Account
            <4> QED
                BY <3>1, <3>2, <3>5, <4>1
        <3> QED
            BY <1>18, <3>3, <3>4, <3>5 DEF ChooseAccounts
    <2>3. imports' \in [ExtIds -> Nat]
        BY <1>18, <2>2 DEF ChooseAccounts
    <2> QED
        BY <1>0, <1>t, <2>1, <2>2, <2>3, HouseholdStep
<1>19. ASSUME UNCHANGED <<log, job, pc, imports>>,
              \A x \in ExtIds : acct'[x] \in {acct[x], NoAccount}
       PROVE  Faithful'
    <2>1. Talking' = Talking
        BY <1>19 DEF Talking
    <2>2. \A x \in ExtIds : Held(x, NoAccount) /\ NoAccount.gen = 0
        BY <1>0, NothingHeld DEF NoAccount
    <2>3. \A x \in ExtIds : Held(x, acct'[x]) /\ acct'[x].gen <= imports'[x] /\ imports[x] <= imports'[x]
        BY <1>0, <1>19, <1>t, <2>2 DEF Faithful, Numbered
    <2>4. \A q \in Talking, x \in ExtIds : Knows(x, acct'[x], job[q])
        BY <1>0, <1>19, <2>2 DEF Faithful, Knows
    <2> QED
        BY <1>0, <1>19, <1>t, <2>1, <2>3, <2>4, HouseholdStep
<1>20. ASSUME NEW x \in ExtIds, DeleteAccount(x) PROVE Faithful'
    BY <1>19, <1>20, <1>t DEF DeleteAccount
<1>21. CASE Disconnect
    BY <1>19, <1>21 DEF Disconnect
\* A row whose version and presence stay, or which the household deletes.
<1>22. ASSUME UNCHANGED <<log, job, pc, imports>>, NEW x \in ExtIds, NEW t \in TxnIds, NEW b,
              acct' = [acct EXCEPT ![x] = b], acct[x].rows[t] # NoRow,
              b.gen = acct[x].gen, b.cursor = acct[x].cursor, b.midSync = acct[x].midSync,
              Held(x, b)
       PROVE  Faithful'
    <2>1. Talking' = Talking
        BY <1>22 DEF Talking
    <2>2. acct'[x] = b /\ \A y \in ExtIds \ {x} : acct'[y] = acct[y]
        BY <1>22, <1>t
    <2>3. \A y \in ExtIds : Held(y, acct'[y]) /\ acct'[y].gen <= imports'[y] /\ imports[y] <= imports'[y]
        BY <1>0, <1>22, <1>t, <2>2 DEF Faithful, Numbered
    <2>4. \A q \in Talking, y \in ExtIds : Knows(y, acct'[y], job[q])
        <3> SUFFICES ASSUME NEW q \in Talking, NEW y \in ExtIds PROVE Knows(y, acct'[y], job[q])
            OBVIOUS
        <3>1. Knows(y, acct[y], job[q])
            BY <1>0 DEF Faithful
        <3>2. CASE y = x
            BY <1>22, <2>2, <3>1, <3>2 DEF Knows
        <3>3. CASE y # x
            BY <2>2, <3>1, <3>3
        <3> QED
            BY <3>2, <3>3
    <2> QED
        BY <1>0, <1>22, <1>t, <2>1, <2>3, <2>4, HouseholdStep
<1>23. ASSUME NEW x \in ExtIds, NEW t \in TxnIds, ChooseOn(x, t) PROVE Faithful'
    <2> DEFINE a == acct[x]
               row == [a.rows[t] EXCEPT !.chosen = TRUE]
               b == [a EXCEPT !.rows = [@ EXCEPT ![t] = row], !.chose = @ \cup {t}]
    <2>1. acct' = [acct EXCEPT ![x] = b] /\ a.rows[t] # NoRow /\ UNCHANGED <<log, job, pc, imports>>
        BY <1>23, Zenon DEF ChooseOn, HasRow
    <2>2. a \in Account /\ Held(x, a) /\ a.rows[t] \in Row
        BY <1>0, <1>t DEF Faithful, Account
    <2>3. /\ b.gen = a.gen /\ b.cursor = a.cursor /\ b.midSync = a.midSync /\ b.gone = a.gone
          /\ \A u \in TxnIds : b.rows[u] = IF u = t THEN row ELSE a.rows[u]
        BY <2>2 DEF Account
    <2>4. row.version = a.rows[t].version /\ row # NoRow
        BY <2>2 DEF Row, NoRow
    <2>5. t \notin a.gone /\ a.rows[t].version # 0
        BY <2>1, <2>2 DEF Held
    <2> HIDE DEF b, row
    <2>6. Held(x, b)
        BY <2>1, <2>2, <2>3, <2>4, <2>5 DEF Held
    <2> QED
        BY <1>22, <2>1, <2>3, <2>6
<1>24. ASSUME NEW x \in ExtIds, NEW t \in TxnIds, DeleteTransaction(x, t) PROVE Faithful'
    <2> DEFINE a == acct[x]
               b == [a EXCEPT !.rows = [@ EXCEPT ![t] = NoRow], !.gone = @ \cup {t}]
    <2>1. acct' = [acct EXCEPT ![x] = b] /\ a.rows[t] # NoRow /\ UNCHANGED <<log, job, pc, imports>>
        BY <1>24, Zenon DEF DeleteTransaction, HasRow
    <2>2. a \in Account /\ Held(x, a)
        BY <1>0, <1>t DEF Faithful
    <2>3. /\ b.gen = a.gen /\ b.cursor = a.cursor /\ b.midSync = a.midSync /\ b.gone = a.gone \cup {t}
          /\ \A u \in TxnIds : b.rows[u] = IF u = t THEN NoRow ELSE a.rows[u]
        BY <2>2 DEF Account
    <2> HIDE DEF b
    <2>4. Held(x, b)
        BY <2>1, <2>2, <2>3 DEF Held, NoRow
    <2> QED
        BY <1>22, <2>1, <2>3, <2>4
<1>25. CASE UNCHANGED vars
    BY <1>0, <1>25, QuietStep DEF vars, Talking
<1> QED
    BY <1>1, <1>2, <1>3, <1>5, <1>6, <1>7, <1>8, <1>9, <1>12, <1>13, <1>15, <1>16, <1>17, <1>18,
       <1>20, <1>21, <1>23, <1>24, <1>25 DEF Next, Bank, Household, Time, Step

\* When no sync outlives LEASE, a linked account that was not imported under a
\* running sync always holds exactly what its stream said at its cursor, less
\* what the household deleted, and what it deleted stays deleted.
THEOREM AccountsMirrorTheirCursors ==
    ASSUME LeaseHonoured
    PROVE  Spec => [](MirrorsItsCursor /\ DeletedStaysDeleted)
<1>1. Init => Inv
    BY ApartInit, FaithfulInit DEF Inv
<1>2. Inv /\ [Next]_vars => Inv'
    BY ApartNext, FaithfulNext DEF Inv
<1>3. Inv => MirrorsItsCursor /\ DeletedStaysDeleted
    <2> SUFFICES ASSUME TypeOK, \A x \in ExtIds : Held(x, acct[x])
                 PROVE  MirrorsItsCursor /\ DeletedStaysDeleted
        BY DEF Inv, Apart, Faithful
    <2>1. MirrorsItsCursor
        BY DEF Held, MirrorsItsCursor, Mirrors, Linked
    <2>2. DeletedStaysDeleted
        BY DEF TypeOK, Account, Held, DeletedStaysDeleted, HasRow, Linked
    <2> QED
        BY <2>1, <2>2
<1> QED
    BY <1>1, <1>2, <1>3, PTL DEF Spec

-----------------------------------------------------------------------------
(* What the household chose                                                *)
(*                                                                         *)
(* ChoicesSurvivePosting is not inductive: what keeps a choice when a      *)
(* posted transaction comes in is that its pending one was there, with the *)
(* choice, at the cursor the sync read from.  The bank says both changes   *)
(* in one event (Posted), so a cursor is before it or after it.            *)

\* A posted transaction came in the very event that took its pending one away.
Posted(x) == \A t \in TxnIds :
    LET before == replaces[x][t]
    IN  before # None =>
            \E k \in 1..Len(log[x]) :
                /\ Said(x, k - 1)[before] # 0 /\ Said(x, k)[before] = 0 /\ Said(x, k)[t] # 0
                /\ \A i \in 0..k - 1 : Said(x, i)[t] = 0

\* What the row a of the account x remembers of what was chosen.
Remembers(x, a) == ~a.midSync =>
    \A t \in TxnIds :
        /\ t \in a.chose => \E i \in 0..From(a.cursor) : Said(x, i)[t] # 0
        /\ a.rows[t] # NoRow /\ t \in a.chose => a.rows[t].chosen
        /\ a.rows[t] # NoRow /\ replaces[x][t] \in a.chose \ a.gone => a.rows[t].chosen

Kept == \A x \in ExtIds : Posted(x) /\ Remembers(x, acct[x])

\* A row that holds nothing has nothing to remember.
LEMMA NothingRemembered ==
    ASSUME NEW x \in ExtIds, NEW a, a.chose = {}, \A t \in TxnIds : a.rows[t] = NoRow
    PROVE  Remembers(x, a)
BY DEF Remembers

\* Nothing chosen is lost when the bank says something more.
LEMMA KeptByBank ==
    ASSUME TypeOK, Faithful, Kept, NEW x \in ExtIds, NEW t \in TxnIds, BankReports(x, t)
    PROVE  Kept'
<1>1. /\ Latest(x) \in Content /\ Now(x) \in Nat \ {0} /\ Len(log[x]) \in Nat
      /\ Now(x) = Len(log[x]) + 1 /\ Now(x) \in 0..MaxEvents
    BY LatestType DEF Now, BankReports, TypeOK
\* Either nothing is replaced, or t, which is new, replaces a pending one.
<1>2. PICK content \in Content :
          /\ BankSays(x, content)
          /\ \/ replaces' = replaces
             \/ /\ \A i \in 1..Len(log[x]) : log[x][i][t] = 0
                /\ \E u \in TxnIds \ {t} :
                      /\ Latest(x)[u] # 0 /\ content[u] = 0 /\ content[t] # 0
                      /\ replaces' = [replaces EXCEPT ![x][t] = u]
    <2>1. ASSUME NEW v \in 0..MaxEvents PROVE [Latest(x) EXCEPT ![t] = v] \in Content
        BY <1>1 DEF Content
    <2>2. CASE BankChanges(x, t)
        <3>1. PICK v \in {Now(x), 0} : BankSays(x, [Latest(x) EXCEPT ![t] = v])
            BY <2>2 DEF BankChanges
        <3>2. v \in 0..MaxEvents
            BY <1>1, <3>1
        <3>3. replaces' = replaces
            BY <2>2 DEF BankChanges
        <3> QED
            BY <2>1, <3>1, <3>2, <3>3
    <2>3. CASE BankAdds(x, t) /\ BankSays(x, [Latest(x) EXCEPT ![t] = Now(x)]) /\ UNCHANGED replaces
        BY <1>1, <2>1, <2>3
    <2>4. ASSUME NEW u \in TxnIds \ {t}, BankAdds(x, t), Latest(x)[u] # 0,
                 BankSays(x, [Latest(x) EXCEPT ![t] = Now(x), ![u] = 0]),
                 replaces' = [replaces EXCEPT ![x][t] = u]
          PROVE  \E content \in Content :
                    /\ BankSays(x, content)
                    /\ \A i \in 1..Len(log[x]) : log[x][i][t] = 0
                    /\ Latest(x)[u] # 0 /\ content[u] = 0 /\ content[t] # 0
        <3> DEFINE content == [Latest(x) EXCEPT ![t] = Now(x), ![u] = 0]
        <3>1. content \in Content /\ content[u] = 0 /\ content[t] # 0
            <4> HIDE DEF Latest, Now
            <4> QED
                BY <1>1 DEF Content
        <3>2. \A i \in 1..Len(log[x]) : log[x][i][t] = 0
            BY <2>4 DEF BankAdds
        <3> QED
            BY <2>4, <3>1, <3>2
    <2> QED
        BY <2>2, <2>3, <2>4 DEF BankReports, BankAdds
<1>3. /\ \A y \in ExtIds : /\ Len(log[y]) \in Nat /\ Len(log'[y]) \in Nat
                           /\ Len(log'[y]) = IF y = x THEN Len(log[y]) + 1 ELSE Len(log[y])
                           /\ \A n \in 0..Len(log[y]) : Said(y, n)' = Said(y, n)
      /\ \A n \in Nat : n = Len(log[x]) + 1 => Said(x, n)' = content
    BY <1>2, SaidKept
<1>4. acct' = acct /\ replaces \in [ExtIds -> [TxnIds -> TxnIds \cup {None}]]
    BY <1>2 DEF BankSays, TypeOK
<1>5. ASSUME NEW i \in 0..Len(log[x]), \A k \in 1..Len(log[x]) : log[x][k][t] = 0
      PROVE  Said(x, i)[t] = 0
    BY <1>1, <1>5 DEF Said, Nothing
<1>6. ASSUME NEW y \in ExtIds PROVE Posted(y)'
    <2> SUFFICES ASSUME NEW u \in TxnIds, replaces'[y][u] # None
                 PROVE  \E k \in 1..Len(log'[y]) :
                            /\ Said(y, k - 1)'[replaces'[y][u]] # 0
                            /\ Said(y, k)'[replaces'[y][u]] = 0 /\ Said(y, k)'[u] # 0
                            /\ \A i \in 0..k - 1 : Said(y, i)'[u] = 0
        BY DEF Posted
    <2>1. CASE replaces'[y][u] = replaces[y][u]
        <3>1. PICK k \in 1..Len(log[y]) :
                  /\ Said(y, k - 1)[replaces[y][u]] # 0
                  /\ Said(y, k)[replaces[y][u]] = 0 /\ Said(y, k)[u] # 0
                  /\ \A i \in 0..k - 1 : Said(y, i)[u] = 0
            BY <2>1 DEF Kept, Posted
        <3>2. k \in 1..Len(log'[y]) /\ k \in 0..Len(log[y]) /\ k - 1 \in 0..Len(log[y])
              /\ \A i \in 0..k - 1 : i \in 0..Len(log[y])
            BY <1>3, <3>1
        <3>3. Said(y, k)' = Said(y, k) /\ Said(y, k - 1)' = Said(y, k - 1)
              /\ \A i \in 0..k - 1 : Said(y, i)' = Said(y, i)
            BY <1>3, <3>2
        <3> QED
            BY <2>1, <3>1, <3>2, <3>3
    <2>2. CASE replaces'[y][u] # replaces[y][u]
        <3>1. /\ y = x /\ u = t /\ \A i \in 1..Len(log[x]) : log[x][i][t] = 0
              /\ Latest(x)[replaces'[y][u]] # 0 /\ content[replaces'[y][u]] = 0 /\ content[t] # 0
            BY <1>2, <1>4, <2>2
        <3>2. PICK n \in Nat : n = Len(log[x])
            BY <1>3
        <3>3. PICK k \in Nat : k = n + 1
            BY <3>2
        <3>4. /\ k \in 1..Len(log'[x]) /\ k - 1 = n /\ n \in 0..Len(log[x])
            BY <1>3, <3>2, <3>3
        <3>5. Said(x, k)' = content /\ Said(x, n)' = Latest(x)
            BY <1>3, <3>2, <3>3, <3>4 DEF Latest
        <3>6. \A i \in 0..n : Said(x, i)'[t] = 0
            BY <1>3, <1>5, <3>1, <3>2
        <3> QED
            BY <3>1, <3>4, <3>5, <3>6
    <2> QED
        BY <2>1, <2>2
<1>7. ASSUME NEW y \in ExtIds PROVE Remembers(y, acct[y])'
    <2> DEFINE a == acct[y]
    <2>1. Held(y, a) /\ Remembers(y, a) /\ From(a.cursor) \in Nat /\ From(a.cursor) <= Len(log[y])
        BY DEF Faithful, Held, Kept, TypeOK, Account, Cursor, From
    <2>2. \A i \in 0..From(a.cursor) : Said(y, i)' = Said(y, i) /\ i \in 0..Len(log[y])
        BY <1>3, <2>1
    \* The new one has no row yet, so which it replaces does not matter.
    <2>3. ASSUME NEW u \in TxnIds, a.rows[u] # NoRow PROVE replaces'[y][u] = replaces[y][u]
        <3>1. PICK i \in 0..From(a.cursor) : Said(y, i)[u] # 0
            BY <2>1, <2>3 DEF Held
        <3> QED
            BY <1>2, <1>4, <1>5, <2>2, <3>1
    <2> QED
        BY <1>4, <2>1, <2>2, <2>3 DEF Remembers, From
<1> QED
    BY <1>6, <1>7 DEF Kept

\* A posted transaction that a sync writes takes over what was chosen about
\* the pending one, whose row is there for as long as the cursor is before it.
LEMMA AppliedRemembers ==
    ASSUME TypeOK, NeverReused, NEW p \in Procs, NEW x \in ExtIds, acct[x].gen # 0,
           Held(x, acct[x]), Knows(x, acct[x], job[p]), HasRead(x, job[p]),
           job[p].reads[x] # NotRead, Posted(x), Remembers(x, acct[x])
    PROVE  Remembers(x, Applied(p, x))
<1> DEFINE a == acct[x]
           b == Applied(p, x)
           c == job[p].cursors[x]
           r == job[p].reads[x]
<1>1. /\ r.from = From(c) /\ r.from <= r.upto /\ r.upto <= Len(log[x])
      /\ r.cursor = r.upto \/ (c = NoCursor /\ r.upto = 0)
      /\ job[p].gens[x] # 0
    BY DEF HasRead
<1>2. /\ a \in Account /\ r \in Read /\ Len(log[x]) \in Nat
      /\ r.from \in Nat /\ r.upto \in Nat /\ c \in Cursor \cup {NoCursor}
    BY DEF TypeOK, Job, Read, Cursor
<1>3. a.gen = job[p].gens[x] => c = a.cursor
    BY <1>1 DEF Knows
<1>4. a.midSync \/ a.gen = job[p].gens[x]
    BY <1>1 DEF Knows
<1>5. b.midSync = a.midSync
    BY <1>2 DEF Applied, Account
<1> SUFFICES ASSUME ~a.midSync PROVE Remembers(x, b)
    BY <1>5 DEF Remembers
<1>6. /\ b.chose = a.chose /\ b.gone = a.gone /\ b.cursor = NextCursor(x, r, a.cursor)
      /\ \A t \in TxnIds : b.rows[t] = RowAfter(x, r, a.rows, t)
    BY <1>2, <1>3, <1>4 DEF Applied, Account
<1>7. r.from = From(a.cursor)
    BY <1>1, <1>3, <1>4
<1>8. From(b.cursor) \in Nat /\ From(a.cursor) <= From(b.cursor)
    <2>1. /\ c = a.cursor /\ NoCursor \notin Nat
          /\ r.cursor \in Nat \cup {NoCursor} /\ From(c) \in Nat /\ From(r.cursor) \in Nat
        BY <1>2, <1>3, <1>4, NoneAssumption DEF Read, Cursor, From
    <2>2. b.cursor = r.cursor \/ (b.cursor = NoCursor /\ a.cursor = NoCursor)
        <3>1. b.cursor = NextCursor(x, r, a.cursor)
            BY <1>6
        <3> HIDE DEF a, b, r
        <3> QED
            BY <3>1 DEF NextCursor
    <2>3. From(c) <= From(r.cursor)
        <3>1. CASE r.cursor = r.upto
            BY <1>1, <1>2, <2>1, <3>1 DEF From
        <3>2. CASE c = NoCursor
            BY <2>1, <3>2 DEF From
        <3> QED
            BY <1>1, <3>1, <3>2
    <2> HIDE DEF b
    <2> QED
        BY <2>1, <2>2, <2>3
\* The positions of the stream this is about.
<1>9. PICK m \in Nat, n \in Nat : m = r.from /\ n = r.upto
    BY <1>2
<1>10. m \in 0..Len(log[x]) /\ n \in 0..Len(log[x]) /\ m <= n
    BY <1>1, <1>2, <1>9
<1>11. \A t \in TxnIds : /\ a.rows[t].version = 0 => a.rows[t] = NoRow
                         /\ a.rows[t].version = IF t \in a.gone THEN 0 ELSE Said(x, m)[t]
    BY <1>7, <1>9 DEF Held
<1>12. \A t \in TxnIds :
          /\ t \in a.chose => \E i \in 0..m : Said(x, i)[t] # 0
          /\ a.rows[t] # NoRow /\ t \in a.chose => a.rows[t].chosen
          /\ a.rows[t] # NoRow /\ replaces[x][t] \in a.chose \ a.gone => a.rows[t].chosen
    BY <1>7, <1>9 DEF Remembers
\* What is new was never there before.
<1>13. ASSUME NEW t \in TxnIds, t \in Added(x, r), NEW i \in 0..m PROVE Said(x, i)[t] = 0
    <2>1. Said(x, m)[t] = 0 /\ Said(x, n)[t] # 0
        BY <1>9, <1>13 DEF Added
    <2>2. i \in 0..Len(log[x]) /\ i <= m
        BY <1>10
    <2> QED
        BY <1>10, <2>1, <2>2 DEF NeverReused
\* The pending one is at the cursor, so its row is there, with the choice.
<1>14. ASSUME NEW t \in TxnIds, t \in Added(x, r), NEW u \in TxnIds, replaces[x][t] = u,
              u \in a.chose \ a.gone
       PROVE  a.rows[u].chosen
    <2>1. PICK k \in 1..Len(log[x]) :
              /\ Said(x, k - 1)[u] # 0 /\ Said(x, k)[t] # 0
        BY <1>14, NoneAssumption DEF Posted
    <2>2. k - 1 \in 0..Len(log[x]) /\ k \in 0..Len(log[x])
        BY <1>2
    <2>3. m <= k - 1
        <3>1. k \notin 0..m
            BY <1>13, <1>14, <2>1
        <3> QED
            BY <2>2, <3>1, <1>10
    <2>4. PICK i \in 0..m : Said(x, i)[u] # 0
        BY <1>12, <1>14
    <2>5. i \in 0..Len(log[x]) /\ i <= m
        BY <1>10
    <2>6. \A j, l \in 0..Len(log[x]) : /\ i <= j /\ j <= l /\ Said(x, j)[u] = 0
                                       => Said(x, l)[u] = 0
        BY <2>4, <2>5 DEF NeverReused
    <2>7. Said(x, m)[u] # 0
        BY <1>10, <2>1, <2>2, <2>3, <2>5, <2>6
    <2>8. a.rows[u] # NoRow
        BY <1>11, <1>14, <2>7 DEF NoRow
    <2> QED
        BY <1>12, <1>14, <2>8
<1>15. ASSUME NEW t \in TxnIds
       PROVE  /\ t \in b.chose => \E i \in 0..From(b.cursor) : Said(x, i)[t] # 0
              /\ b.rows[t] # NoRow /\ t \in b.chose => b.rows[t].chosen
              /\ b.rows[t] # NoRow /\ replaces[x][t] \in b.chose \ b.gone => b.rows[t].chosen
    <2> DEFINE old == a.rows[t]
               new == RowAfter(x, r, a.rows, t)
               before == replaces[x][t]
    <2>1. old \in Row /\ b.rows[t] = new
        BY <1>2, <1>6 DEF Account
    <2>2. ASSUME t \in b.chose PROVE \E i \in 0..From(b.cursor) : Said(x, i)[t] # 0
        <3>1. PICK i \in 0..m : Said(x, i)[t] # 0
            BY <1>6, <1>12, <2>2
        <3>2. i \in 0..From(b.cursor)
            BY <1>7, <1>8, <1>9
        <3> QED
            BY <3>1, <3>2
    \* Every way a row comes out of a sync.
    <2>3. \/ new = NoRow
          \/ new.chosen = old.chosen /\ old # NoRow
          \/ t \in Added(x, r) /\ new.chosen = (before # None /\ a.rows[before].chosen)
        BY <2>1 DEF RowAfter, HasRow, Row
    <2>4. ASSUME t \in Added(x, r) PROVE t \notin a.chose
        BY <1>12, <1>13, <2>4
    <2>5. ASSUME t \in Added(x, r), before \in a.chose \ a.gone
          PROVE  before # None /\ a.rows[before].chosen
        <3>1. before \in TxnIds
            BY <1>2, <2>5 DEF Account
        <3> QED
            BY <1>14, <2>5, <3>1, NoneAssumption
    <2> HIDE DEF old, new, before
    <2>6. ASSUME b.rows[t] # NoRow, t \in a.chose PROVE b.rows[t].chosen
        BY <1>12, <2>1, <2>3, <2>4, <2>6 DEF old
    <2>7. ASSUME b.rows[t] # NoRow, before \in a.chose \ a.gone PROVE b.rows[t].chosen
        BY <1>12, <2>1, <2>3, <2>5, <2>7 DEF old, before
    <2> QED
        BY <1>6, <2>2, <2>6, <2>7 DEF before
<1> QED
    BY <1>15 DEF Remembers

LEMMA KeptInit == Init => Kept
<1> SUFFICES ASSUME Init, NEW x \in ExtIds PROVE Posted(x) /\ Remembers(x, acct[x])
    BY DEF Kept
<1>1. acct[x] = NoAccount /\ \A t \in TxnIds : replaces[x][t] = None
    BY DEF Init
<1> QED
    BY <1>1, NothingRemembered DEF Posted, NoAccount

\* A step that leaves the streams alone remembers when every account it
\* leaves does.
LEMMA KeptStep ==
    ASSUME Kept, UNCHANGED <<log, replaces>>, \A x \in ExtIds : Remembers(x, acct'[x])
    PROVE  Kept'
<1>1. \A x \in ExtIds : Posted(x)'
    BY DEF Kept, Posted, Said
<1>2. ASSUME NEW x \in ExtIds PROVE Remembers(x, acct[x])'
    <2>1. Remembers(x, acct'[x])
        OBVIOUS
    <2> QED
        BY <2>1 DEF Remembers, From, Said
<1> QED
    BY <1>1, <1>2 DEF Kept

LEMMA KeptNext == LeaseHonoured /\ Inv /\ Kept /\ [Next]_vars => Kept'
<1> SUFFICES ASSUME LeaseHonoured, Inv, Kept, [Next]_vars PROVE Kept'
    OBVIOUS
<1> USE DEF bankVars, connVars, boundVars
<1>0. TypeOK /\ Faithful
    BY DEF Inv, Apart
<1>t. acct \in [ExtIds -> Account] /\ job \in [Procs -> Job] /\ Requests \subseteq Procs
    BY <1>0 DEF TypeOK, Procs
<1>1. ASSUME NEW x \in ExtIds, NEW t \in TxnIds, BankReports(x, t) PROVE Kept'
    BY <1>0, <1>1, KeptByBank
\* A new row, or none, has nothing to remember.
<1>2. ASSUME UNCHANGED <<log, replaces>>,
             \A x \in ExtIds : \/ acct'[x] \in {acct[x], NoAccount}
                              \/ acct'[x] = Import(x)
      PROVE  Kept'
    <2>1. ASSUME NEW x \in ExtIds PROVE Remembers(x, NoAccount) /\ Remembers(x, Import(x))
        <3>1. /\ NoAccount.chose = {} /\ \A t \in TxnIds : NoAccount.rows[t] = NoRow
              /\ Import(x).chose = {} /\ \A t \in TxnIds : Import(x).rows[t] = NoRow
            BY DEF NoAccount, Import
        <3> QED
            BY <3>1, NothingRemembered
    <2>2. \A x \in ExtIds : Remembers(x, acct'[x])
        BY <1>2, <2>1 DEF Kept
    <2> QED
        BY <1>2, <2>2, KeptStep
<1>3. ASSUME UNCHANGED <<log, replaces, acct>> PROVE Kept'
    BY <1>2, <1>3
<1>4. CASE \/ \E x \in ExtIds : BankSharesOrNot(x)
           \/ HealthChanges \/ Recovers \/ HistoryProgresses \/ Time \/ WorkerPicks
           \/ \E p \in Requests : SyncNow(p)
    BY <1>3, <1>4 DEF BankSharesOrNot, HealthChanges, Recovers, HistoryProgresses, Time,
       LeasePasses, WindowPasses, WorkerPicks, SyncNow
<1>5. ASSUME NEW p \in Procs, \/ Claim(p) \/ Snapshot(p) \/ GetAccounts(p) \/ BeginPages(p) \/ EndPages(p)
                              \/ AllRead(p) \/ RecordFailure(p) \/ Release(p) \/ Breaks(p) \/ Crash(p)
      PROVE  Kept'
    BY <1>3, <1>5 DEF Claim, Snapshot, GetAccounts, BeginPages, EndPages, AllRead, RecordFailure,
       Release, Breaks, Crash
<1>6. ASSUME NEW p \in Procs, Apply(p) PROVE Kept'
    <2>1. \A x \in ExtIds : Knows(x, acct[x], job[p]) /\ HasRead(x, job[p])
        BY <1>0, <1>6 DEF Apply, Faithful, Talking
    <2>2. ASSUME NEW x \in ExtIds PROVE Remembers(x, acct'[x])
        <3>1. CASE acct'[x] \in {acct[x], NoAccount}
            BY <3>1, NothingRemembered DEF Kept, NoAccount
        <3>2. CASE acct'[x] = Applied(p, x) /\ acct[x].gen # 0 /\ job[p].reads[x] # NotRead
            BY <1>0, <2>1, <3>2, AppliedRemembers DEF Kept, Faithful
        <3> QED
            BY <1>6, <3>1, <3>2 DEF Apply, Linked
    <2> QED
        BY <1>6, <2>2, KeptStep DEF Apply
<1>7. ASSUME NEW p \in Requests, NEW chosen \in SUBSET ExtIds, ChooseAccounts(p, chosen) PROVE Kept'
    <2>1. \A x \in ExtIds : acct'[x] \in {acct[x], NoAccount} \/ acct'[x] = Import(x)
        BY <1>7 DEF ChooseAccounts
    <2> QED
        BY <1>2, <1>7, <2>1 DEF ChooseAccounts
<1>8. ASSUME NEW x \in ExtIds, DeleteAccount(x) PROVE Kept'
    BY <1>2, <1>8, <1>t DEF DeleteAccount
<1>9. CASE Disconnect
    BY <1>2, <1>9 DEF Disconnect
<1>10. ASSUME UNCHANGED <<log, replaces>>, NEW x \in ExtIds, NEW b,
              acct' = [acct EXCEPT ![x] = b], Remembers(x, b)
       PROVE  Kept'
    <2>1. \A y \in ExtIds : acct'[y] = IF y = x THEN b ELSE acct[y]
        BY <1>10, <1>t
    <2>2. \A y \in ExtIds : Remembers(y, acct'[y])
        BY <1>10, <2>1 DEF Kept
    <2> QED
        BY <1>10, <2>2, KeptStep
\* One that replaced u has no row while u has one.
<1>11. ASSUME NEW x \in ExtIds, NEW u \in TxnIds, ChooseOn(x, u) PROVE Kept'
    <2> DEFINE a == acct[x]
               row == [a.rows[u] EXCEPT !.chosen = TRUE]
               b == [a EXCEPT !.rows = [@ EXCEPT ![u] = row], !.chose = @ \cup {u}]
    <2>1. acct' = [acct EXCEPT ![x] = b] /\ a.rows[u] # NoRow /\ UNCHANGED <<log, replaces>>
        BY <1>11, Zenon DEF ChooseOn, HasRow
    <2>2. /\ a \in Account /\ a.rows[u] \in Row /\ Held(x, a) /\ Remembers(x, a) /\ Posted(x)
        BY <1>0, <1>t DEF Faithful, Account, Kept
    <2>3. /\ b.cursor = a.cursor /\ b.midSync = a.midSync /\ b.gone = a.gone
          /\ b.chose = a.chose \cup {u}
          /\ \A t \in TxnIds : b.rows[t] = IF t = u THEN row ELSE a.rows[t]
        BY <2>2 DEF Account
    <2>4. row.chosen = TRUE
        BY <2>2 DEF Row
    <2> HIDE DEF b, row
    <2> SUFFICES ASSUME ~a.midSync PROVE Remembers(x, b)
        BY <1>10, <2>1, <2>3 DEF Remembers
    <2>5. PICK m \in Nat : m = From(a.cursor)
        BY <2>2 DEF Account, Cursor, From
    <2>6. m <= Len(log[x]) /\ Len(log[x]) \in Nat
        BY <1>0, <2>2, <2>5 DEF Held, TypeOK
    <2>7. \A t \in TxnIds :
              /\ a.rows[t].version = 0 => a.rows[t] = NoRow
              /\ a.rows[t].version = IF t \in a.gone THEN 0 ELSE Said(x, m)[t]
        BY <2>2, <2>5 DEF Held
    <2>8. Said(x, m)[u] # 0
        BY <2>1, <2>7
    <2>9. ASSUME NEW t \in TxnIds, replaces[x][t] = u PROVE a.rows[t] = NoRow
        <3>1. PICK k \in 1..Len(log[x]) :
                  /\ Said(x, k - 1)[u] # 0 /\ Said(x, k)[u] = 0
                  /\ \A i \in 0..k - 1 : Said(x, i)[t] = 0
            BY <2>2, <2>9, NoneAssumption DEF Posted
        <3>2. k \in 0..Len(log[x]) /\ k - 1 \in 0..Len(log[x]) /\ m \in 0..Len(log[x])
              /\ k - 1 <= k
            BY <2>6
        <3>3. ~(k <= m)
            <4>1. k <= m => Said(x, m)[u] = 0
                BY <1>0, <3>1, <3>2 DEF Faithful, NeverReused
            <4> QED
                BY <2>8, <4>1
        <3>4. m \in 0..k - 1
            BY <3>2, <3>3
        <3>5. a.rows[t].version = 0
            BY <2>7, <3>1, <3>4
        <3> QED
            BY <2>7, <3>5
    <2>10. ASSUME NEW t \in TxnIds
           PROVE  /\ t \in b.chose => \E i \in 0..From(b.cursor) : Said(x, i)[t] # 0
                  /\ b.rows[t] # NoRow /\ t \in b.chose => b.rows[t].chosen
                  /\ b.rows[t] # NoRow /\ replaces[x][t] \in b.chose \ b.gone => b.rows[t].chosen
        <3>1. CASE t = u
            <4>1. \E i \in 0..From(b.cursor) : Said(x, i)[u] # 0
                BY <2>3, <2>5, <2>8
            <4> QED
                BY <2>3, <2>4, <3>1, <4>1
        <3>2. CASE t # u
            BY <2>2, <2>3, <2>9, <3>2 DEF Remembers
        <3> QED
            BY <3>1, <3>2
    <2>11. Remembers(x, b)
        BY <2>10 DEF Remembers
    <2> QED
        BY <2>11
<1>12. ASSUME NEW x \in ExtIds, NEW u \in TxnIds, DeleteTransaction(x, u) PROVE Kept'
    <2> DEFINE a == acct[x]
               b == [a EXCEPT !.rows = [@ EXCEPT ![u] = NoRow], !.gone = @ \cup {u}]
    <2>1. acct' = [acct EXCEPT ![x] = b] /\ UNCHANGED <<log, replaces>>
        BY <1>12, Zenon DEF DeleteTransaction
    <2>2. a \in Account /\ Remembers(x, a)
        BY <1>t DEF Kept
    <2>3. /\ b.cursor = a.cursor /\ b.midSync = a.midSync /\ b.gone = a.gone \cup {u}
          /\ b.chose = a.chose
          /\ \A t \in TxnIds : b.rows[t] = IF t = u THEN NoRow ELSE a.rows[t]
        BY <2>2 DEF Account
    <2> HIDE DEF b
    <2>4. Remembers(x, b)
        BY <2>2, <2>3 DEF Remembers
    <2> QED
        BY <1>10, <2>1, <2>4
<1>13. CASE UNCHANGED vars
    BY <1>3, <1>13 DEF vars
<1> QED
    BY <1>1, <1>4, <1>5, <1>6, <1>7, <1>8, <1>9, <1>11, <1>12, <1>13
       DEF Next, Bank, Household, Step

\* When no sync outlives LEASE, what the household chose about a transaction
\* of an account that was not imported under a running sync stays, also when
\* the bank replaces a pending one with the posted one, however often syncs
\* run, break or die between the choice and the posting.
THEOREM ChoicesStay ==
    ASSUME LeaseHonoured
    PROVE  Spec => []ChoicesSurvivePosting
<1>1. Init => Inv /\ Kept
    BY ApartInit, FaithfulInit, KeptInit DEF Inv
<1>2. Inv /\ Kept /\ [Next]_vars => (Inv /\ Kept)'
    BY ApartNext, FaithfulNext, KeptNext DEF Inv
<1>3. Inv /\ Kept => ChoicesSurvivePosting
    BY DEF Kept, Remembers, ChoicesSurvivePosting, HasRow, Linked
<1> QED
    BY <1>1, <1>2, <1>3, PTL DEF Spec
=============================================================================
