------------------------------ MODULE BankSync ------------------------------
(***************************************************************************)
(* One bank connection being kept up to date from Plaid: the claim that    *)
(* keeps two syncs apart, the requests a sync makes without holding any    *)
(* lock, the single database transaction that writes what they returned,   *)
(* and the household choosing, deleting and disconnecting meanwhile.       *)
(*                                                                         *)
(* Source: backend/app/plaid/sync.py, schedule.py, worker.py, accounts.py  *)
(* and connections.py, with the routes that call them.                     *)
(*                                                                         *)
(* An account's stream at Plaid is a log of what the bank said after each  *)
(* event, and a cursor is a position in it.  A transaction's data is       *)
(* abstracted to the position of the event that last set it, plus whether  *)
(* the household chose anything about it (its category, payee or notes).   *)
(***************************************************************************)
EXTENDS Naturals, Sequences, FiniteSets

CONSTANTS
    ExtIds,         \* Plaid's account_ids of the accounts the bank may share
    TxnIds,         \* Plaid's transaction_ids
    Worker,         \* the process that syncs on a schedule (plaid/worker.py)
    Requests,       \* threads that serve an admin's request
    AutoSync,       \* Settings > Sync: whether syncing on a schedule is on
    NoCursor,       \* an account's cursor before anything was read
    LeaseHonoured,  \* whether a running sync always finishes within LEASE
    PageAttempts,   \* PAGE_ATTEMPTS of sync.py
    MaxEvents,      \* bound: events in an account's log
    MaxImports,     \* bound: times an account is imported
    MaxTroubles,    \* bound: changes of the bank's health
    MaxCrashes      \* bound: syncs that die or break unexpectedly

Procs == Requests \cup {Worker}
None == "none"

ASSUME ProcsAssumption == Worker \notin Requests
ASSUME FlagsAssumption == AutoSync \in BOOLEAN /\ LeaseHonoured \in BOOLEAN
ASSUME BoundsAssumption ==
    /\ PageAttempts \in Nat \ {0}
    /\ {MaxEvents, MaxImports, MaxTroubles, MaxCrashes} \subseteq Nat
ASSUME NoneAssumption == None \notin TxnIds \cup ExtIds /\ NoCursor \notin Nat

VARIABLES
    \* Plaid and the bank.
    log,        \* each account's stream: what it held after each event
    replaces,   \* the pending transaction each posted one replaces
    shares,     \* the accounts the bank shares
    health,     \* what Plaid answers about the Item
    progress,   \* how much of the history Plaid has fetched
    \* The connection's row.
    connected,  \* whether the row exists
    claim,      \* sync_started_at: unset, set, or set longer ago than LEASE
    error,      \* error_code, which decides the status
    history,    \* how much history has arrived
    available,  \* available_accounts
    skipped,    \* skipped_accounts
    \* The linked accounts' rows and their transactions.
    acct,
    \* The callers of sync_connection.
    pc, job,
    \* Time and bounds.
    young,      \* connected less than IMPORT_WINDOW ago
    imports, troubles, crashes

bankVars == <<log, replaces, shares, health, progress>>
connVars == <<connected, claim, error, history, available, skipped>>
boundVars == <<young, imports, troubles, crashes>>
vars == <<bankVars, connVars, acct, pc, job, boundVars>>

-----------------------------------------------------------------------------
(* Data                                                                    *)

Healths == {"ok", "down", "login", "broken"}
Errors == {None, "login", "unavailable", "other"}
Stages == {"pending", "recent", "complete"}

\* What an account's stream holds: each transaction's version, 0 when the bank
\* has not sent it, has removed it or has replaced it.
Content == [TxnIds -> 0..MaxEvents]
Nothing == [t \in TxnIds |-> 0]

NoRow == [version |-> 0, chosen |-> FALSE]
Row == [version : 0..MaxEvents, chosen : BOOLEAN]

\* A cursor may point one past the log: Plaid hands such a one back for an
\* account it has nothing for yet (see PagesRead).
Cursor == 0..MaxEvents + 1
From(c) == IF c = NoCursor THEN 0 ELSE c

\* A linked account.  chose and gone are history variables: the transactions
\* the household chose something about, and those it deleted.  midSync records
\* that the row was imported while a sync that knew its predecessor ran.
NoAccount == [gen |-> 0, cursor |-> NoCursor, rows |-> [t \in TxnIds |-> NoRow],
              chose |-> {}, gone |-> {}, midSync |-> FALSE]
Account == [gen : 0..MaxImports, cursor : Cursor \cup {NoCursor}, rows : [TxnIds -> Row],
            chose : SUBSET TxnIds, gone : SUBSET TxnIds, midSync : BOOLEAN]

Linked == {x \in ExtIds : acct[x].gen # 0}
HasRow(rows, t) == rows[t] # NoRow

\* diagnose: the status an error code gives the connection.
Status ==
    CASE error = None -> "healthy"
      [] error = "login" -> "login_required"
      [] OTHER -> "error"

\* What an account's stream held after its first n events.
Said(x, n) ==
    IF n = 0 \/ Len(log[x]) = 0 THEN Nothing
    ELSE log[x][IF n <= Len(log[x]) THEN n ELSE Len(log[x])]
Latest(x) == Said(x, Len(log[x]))

-----------------------------------------------------------------------------
(* A sync's own state: what it has read and not yet written.               *)

NotRead == [from |-> 0, upto |-> 0, cursor |-> NoCursor, stage |-> None]
NoPages == [account |-> None, size |-> 0, attempt |-> 0]
NoJob == [gens |-> [x \in ExtIds |-> 0],
          cursors |-> [x \in ExtIds |-> NoCursor],
          hadAny |-> FALSE, shared |-> {}, pages |-> NoPages,
          reads |-> [x \in ExtIds |-> NotRead], outcome |-> None]
Read == [from : Cursor, upto : Cursor, cursor : Cursor \cup {NoCursor}, stage : Stages \cup {None}]
Pages == {NoPages} \cup [account : ExtIds, size : 0..MaxEvents, attempt : 1..PageAttempts]
Job == [gens : [ExtIds -> 0..MaxImports],
        cursors : [ExtIds -> Cursor \cup {NoCursor}],
        hadAny : BOOLEAN, shared : SUBSET ExtIds,
        pages : Pages, reads : [ExtIds -> Read], outcome : Errors]

\* AccountChanges: the net difference Plaid reports between two positions.
Added(x, r) == {t \in TxnIds : Said(x, r.from)[t] = 0 /\ Said(x, r.upto)[t] # 0}
Removed(x, r) == {t \in TxnIds : Said(x, r.from)[t] # 0 /\ Said(x, r.upto)[t] = 0}
Modified(x, r) == {t \in TxnIds : /\ Said(x, r.from)[t] # 0
                                  /\ Said(x, r.upto)[t] \notin {0, Said(x, r.from)[t]}}
Changed(x, r) == Added(x, r) \cup Removed(x, r) \cup Modified(x, r) # {}

TypeOK ==
    /\ log \in [ExtIds -> Seq(Content)] /\ \A x \in ExtIds : Len(log[x]) <= MaxEvents
    /\ replaces \in [ExtIds -> [TxnIds -> TxnIds \cup {None}]]
    /\ shares \subseteq ExtIds /\ health \in Healths /\ progress \in Stages
    /\ connected \in BOOLEAN /\ claim \in {"free", "fresh", "old"}
    /\ error \in Errors /\ history \in Stages
    /\ available \subseteq ExtIds /\ skipped \subseteq ExtIds
    /\ acct \in [ExtIds -> Account]
    /\ pc \in [Procs -> {"idle", "calling", "claimed", "asking", "reading",
                         "read", "failed", "releasing"}]
    /\ job \in [Procs -> Job]
    /\ young \in BOOLEAN /\ imports \in [ExtIds -> 0..MaxImports]
    /\ troubles \in 0..MaxTroubles /\ crashes \in 0..MaxCrashes

Init ==
    \* What connect() saved: the accounts shared, none of them imported yet.
    /\ log = [x \in ExtIds |-> <<>>]
    /\ replaces = [x \in ExtIds |-> [t \in TxnIds |-> None]]
    /\ shares = ExtIds /\ health = "ok" /\ progress = "pending"
    /\ connected = TRUE /\ claim = "free" /\ error = None /\ history = "pending"
    /\ available = ExtIds /\ skipped = {}
    /\ acct = [x \in ExtIds |-> NoAccount]
    /\ pc = [p \in Procs |-> "idle"] /\ job = [p \in Procs |-> NoJob]
    /\ young = TRUE /\ imports = [x \in ExtIds |-> 0]
    /\ troubles = 0 /\ crashes = 0

-----------------------------------------------------------------------------
(* The bank and Plaid                                                      *)

BankSays(x, content) ==
    /\ log' = [log EXCEPT ![x] = Append(@, content)]
    /\ UNCHANGED <<shares, health, progress, connVars, acct, pc, job, boundVars>>

Now(x) == Len(log[x]) + 1

\* Something new happens in an account: pending, or posted in the place of a
\* pending one, which the bank then removes.  Plaid never reuses an ID.
BankAdds(x, t) ==
    /\ \A i \in 1..Len(log[x]) : log[x][i][t] = 0
    /\ \/ /\ BankSays(x, [Latest(x) EXCEPT ![t] = Now(x)])
          /\ UNCHANGED replaces
       \/ \E pending \in TxnIds \ {t} :
             /\ Latest(x)[pending] # 0
             /\ BankSays(x, [Latest(x) EXCEPT ![t] = Now(x), ![pending] = 0])
             /\ replaces' = [replaces EXCEPT ![x][t] = pending]

BankChanges(x, t) ==
    /\ Latest(x)[t] # 0
    /\ \E version \in {Now(x), 0} : BankSays(x, [Latest(x) EXCEPT ![t] = version])
    /\ UNCHANGED replaces

BankReports(x, t) ==
    /\ Len(log[x]) < MaxEvents
    /\ BankAdds(x, t) \/ BankChanges(x, t)

BankSharesOrNot(x) ==
    /\ troubles < MaxTroubles
    /\ shares' = IF x \in shares THEN shares \ {x} ELSE shares \cup {x}
    /\ troubles' = troubles + 1
    /\ UNCHANGED <<log, replaces, health, progress, connVars, acct, pc, job, young, imports, crashes>>

HealthChanges ==
    /\ troubles < MaxTroubles
    /\ health' \in Healths \ {health}
    /\ troubles' = troubles + 1
    /\ UNCHANGED <<log, replaces, shares, progress, connVars, acct, pc, job, young, imports, crashes>>

\* The bank becomes well again, by itself or because someone signed in to it
\* through Link's update mode.  It is not counted: troubles end.
Recovers ==
    /\ health # "ok"
    /\ health' = "ok"
    /\ UNCHANGED <<log, replaces, shares, progress, connVars, acct, pc, job, boundVars>>

HistoryProgresses ==
    /\ progress # "complete"
    /\ progress' = IF progress = "pending" THEN "recent" ELSE "complete"
    /\ UNCHANGED <<log, replaces, shares, health, connVars, acct, pc, job, boundVars>>

-----------------------------------------------------------------------------
(* Starting a sync                                                         *)

Call(p) ==
    /\ pc' = [pc EXCEPT ![p] = "calling"]
    /\ UNCHANGED job

\* A slip: a connection whose last sync failed is not tried again.
DueWhenHealthy ==
    /\ connected /\ Linked # {}
    /\ Status = "healthy"
    /\ \/ history # "complete" /\ young
       \/ AutoSync

\* next_sync: whether the schedule syncs the connection at all.  Its intervals
\* have always passed sooner or later, so they are left out.
Due ==
    /\ connected /\ Linked # {}
    /\ Status # "login_required"
    /\ \/ history # "complete" /\ error # "unavailable" /\ young
       \/ AutoSync

\* due() finds the connection; run_due gets to it later.
WorkerPicks ==
    /\ pc[Worker] = "idle"
    /\ Due
    /\ Call(Worker)
    /\ UNCHANGED <<bankVars, connVars, acct, boundVars>>

\* POST /connections/{id}/sync
SyncNow(p) ==
    /\ p \in Requests /\ pc[p] = "idle"
    /\ connected
    /\ Call(p)
    /\ UNCHANGED <<bankVars, connVars, acct, boundVars>>

\* Mutants: a claim that ignores the one there is, or one that never expires.
ClaimableAlways == connected
ClaimableWhenFree == connected /\ claim = "free"

\* The WHERE clause of claim().
Claimable == connected /\ claim # "fresh"

\* claim(): one conditional UPDATE, so it is atomic.  A caller that finds the
\* connection claimed, or gone, does nothing more.
Claim(p) ==
    /\ pc[p] = "calling"
    /\ IF Claimable
       THEN claim' = "fresh" /\ pc' = [pc EXCEPT ![p] = "claimed"]
       ELSE pc' = [pc EXCEPT ![p] = "idle"] /\ UNCHANGED claim
    /\ UNCHANGED <<bankVars, connected, error, history, available, skipped, acct, job, boundVars>>

\* The claim is older than LEASE.  The code takes the sync that made it for
\* dead; LeaseHonoured says whether it is.
LeasePasses ==
    /\ claim = "fresh"
    /\ LeaseHonoured => \A p \in Procs : pc[p] \in {"idle", "calling"}
    /\ claim' = "old"
    /\ UNCHANGED <<bankVars, connected, error, history, available, skipped, acct, pc, job, boundVars>>

\* After claim's commit: what is linked, each cursor and whether the bank ever
\* sent anything, in one read transaction.
Snapshot(p) ==
    /\ pc[p] = "claimed"
    /\ IF connected
       THEN /\ pc' = [pc EXCEPT ![p] = "asking"]
            /\ job' = [job EXCEPT ![p] = [NoJob EXCEPT
                  !.gens = [x \in ExtIds |-> acct[x].gen],
                  !.cursors = [x \in ExtIds |-> acct[x].cursor],
                  !.hadAny = \E x \in Linked, t \in TxnIds : HasRow(acct[x].rows, t)]]
       ELSE pc' = [pc EXCEPT ![p] = "idle"] /\ UNCHANGED job
    /\ UNCHANGED <<bankVars, connVars, acct, boundVars>>

-----------------------------------------------------------------------------
(* Asking Plaid, with nothing locked                                       *)

FailureOf(h) == IF h = "login" THEN "login" ELSE "other"

Fail(p, code) ==
    /\ pc' = [pc EXCEPT ![p] = "failed"]
    /\ job' = [job EXCEPT ![p].outcome = code]

\* plaid.get_accounts, and the Item's own error.
GetAccounts(p) ==
    /\ pc[p] = "asking"
    /\ IF health \in {"login", "broken"}
       THEN Fail(p, FailureOf(health))
       ELSE /\ pc' = [pc EXCEPT ![p] = "reading"]
            /\ job' = [job EXCEPT ![p].shared = shares]
    /\ UNCHANGED <<bankVars, connVars, acct, boundVars>>

\* The accounts whose changes read_changes has still to fetch.
ToRead(p) == {x \in ExtIds : /\ job[p].gens[x] # 0
                             /\ x \in job[p].shared
                             /\ job[p].reads[x] = NotRead}

\* The first page of an account's changes since its cursor.
BeginPages(p) ==
    /\ pc[p] = "reading"
    /\ job[p].pages = NoPages
    /\ \E x \in ToRead(p) :
        job' = [job EXCEPT ![p].pages = [account |-> x, size |-> Len(log[x]), attempt |-> 1]]
    /\ UNCHANGED <<bankVars, connVars, acct, pc, boundVars>>

\* The last page.  When nothing was ever sent, Plaid may hand back a cursor
\* that history arriving later falls behind of.
PagesRead(p, x) ==
    LET c == job[p].cursors[x]
        size == job[p].pages.size
    IN  \E ahead \in (IF c = NoCursor /\ size = 0 THEN {0, 1} ELSE {0}) :
            job' = [job EXCEPT ![p] = [@ EXCEPT
                !.pages = NoPages,
                !.reads[x] = [from |-> From(c), upto |-> size, cursor |-> size + ahead,
                              stage |-> progress]]]

\* A slip: one attempt too many.
LastAttemptLate(n) == n > PageAttempts

LastAttempt(n) == n = PageAttempts

\* Pages that changed while they were read are read again from the start, and
\* the last attempt's failure is the sync's.
EndPages(p) ==
    /\ pc[p] = "reading"
    /\ job[p].pages # NoPages
    /\ LET x == job[p].pages.account
           n == job[p].pages.attempt
       IN  \/ /\ health \in {"login", "broken"}
              /\ Fail(p, FailureOf(health))
           \/ /\ health \notin {"login", "broken"}
              /\ Len(log[x]) = job[p].pages.size
              /\ PagesRead(p, x)
              /\ UNCHANGED pc
           \/ /\ health \notin {"login", "broken"}
              /\ Len(log[x]) # job[p].pages.size
              /\ IF LastAttempt(n)
                 THEN Fail(p, "other")
                 ELSE /\ job' = [job EXCEPT ![p].pages =
                                    [account |-> x, size |-> Len(log[x]), attempt |-> n + 1]]
                      /\ UNCHANGED pc
    /\ UNCHANGED <<bankVars, connVars, acct, boundVars>>

\* The bank never sent anything, and still has nothing.
Silent(p) ==
    LET done == {x \in ExtIds : job[p].reads[x] # NotRead}
    IN  /\ done # {} /\ ~job[p].hadAny
        /\ \A x \in done : ~Changed(x, job[p].reads[x])

\* _trouble, which is asked only about a silent bank.
Trouble == IF health = "down" THEN "unavailable" ELSE None

AllRead(p) ==
    /\ pc[p] = "reading"
    /\ job[p].pages = NoPages /\ ToRead(p) = {}
    /\ job' = [job EXCEPT ![p].outcome = IF Silent(p) THEN Trouble ELSE None]
    /\ pc' = [pc EXCEPT ![p] = "read"]
    /\ UNCHANGED <<bankVars, connVars, acct, boundVars>>

-----------------------------------------------------------------------------
(* Writing it all at once                                                  *)

Done(p) ==
    /\ pc' = [pc EXCEPT ![p] = "idle"]
    /\ job' = [job EXCEPT ![p] = NoJob]

\* _finish: the claim is dropped, whoever holds it.
Finish(code) ==
    /\ error' = code
    /\ claim' = "free"

\* A slip: a posted one starts afresh.
RowAfterAfresh(x, r, rows, t) ==
    IF t \in Removed(x, r) THEN NoRow
    ELSE IF t \in Added(x, r) \/ (t \in Modified(x, r) /\ HasRow(rows, t))
    THEN [rows[t] EXCEPT !.version = Said(x, r.upto)[t]]
    ELSE rows[t]

\* _update_from_bank, _new_from_bank, deletion of what the bank removed.
RowAfter(x, r, rows, t) ==
    LET version == Said(x, r.upto)[t]
        before == replaces[x][t]
        kept == before # None /\ rows[before].chosen
    IN  CASE t \in Removed(x, r) -> NoRow
          [] t \in Added(x, r) /\ ~HasRow(rows, t) -> [version |-> version, chosen |-> kept]
          [] t \in Added(x, r) \cup Modified(x, r) /\ HasRow(rows, t) ->
                 [rows[t] EXCEPT !.version = version]
          [] OTHER -> rows[t]

\* A slip: the cursor Plaid handed back, whatever it is.
NextCursorAlways(x, r, cursor) == r.cursor

\* _next_cursor, given the cursor the sync's session has for the row.
NextCursor(x, r, cursor) ==
    IF cursor = NoCursor /\ ~Changed(x, r) THEN NoCursor ELSE r.cursor

\* _apply_account.  The session still holds the rows the snapshot loaded, so a
\* cursor it does not see changing is not written.
Applied(p, x) ==
    LET r == job[p].reads[x]
        a == acct[x]
        seen == IF job[p].gens[x] = a.gen THEN job[p].cursors[x] ELSE a.cursor
        next == NextCursor(x, r, seen)
    IN  [a EXCEPT !.rows = [t \in TxnIds |-> RowAfter(x, r, a.rows, t)],
                  !.cursor = IF next = seen THEN a.cursor ELSE next]

\* The least complete of the histories that were read.
LeastOf(stages) ==
    CASE "pending" \in stages -> "pending"
      [] "recent" \in stages -> "recent"
      [] OTHER -> "complete"

\* The connection's row is locked; nothing is left to do if it went away.
Apply(p) ==
    /\ pc[p] = "read"
    /\ IF connected
       THEN LET stay == Linked \cap job[p].shared
                read == {x \in stay : job[p].reads[x] # NotRead}
            IN  /\ available' = job[p].shared
                /\ acct' = [x \in ExtIds |->
                       IF x \in read THEN Applied(p, x)
                       ELSE IF x \in stay THEN acct[x] ELSE NoAccount]
                /\ history' = IF read = {} THEN history
                              ELSE LeastOf({job[p].reads[x].stage : x \in read})
                /\ Finish(job[p].outcome)
       ELSE UNCHANGED <<available, acct, history, error, claim>>
    /\ Done(p)
    /\ UNCHANGED <<bankVars, connected, skipped, boundVars>>

\* A PlaidError or a token that can't be decrypted: only the status changes.
RecordFailure(p) ==
    /\ pc[p] = "failed"
    /\ IF connected THEN Finish(job[p].outcome) ELSE UNCHANGED <<error, claim>>
    /\ Done(p)
    /\ UNCHANGED <<bankVars, connected, history, available, skipped, acct, boundVars>>

\* Any other exception, while asking or while writing, which rolls back.
Breaks(p) ==
    /\ pc[p] \in {"asking", "reading", "read"}
    /\ crashes < MaxCrashes
    /\ crashes' = crashes + 1
    /\ pc' = [pc EXCEPT ![p] = "releasing"]
    /\ UNCHANGED <<bankVars, connVars, acct, job, young, imports, troubles>>

\* release()
Release(p) ==
    /\ pc[p] = "releasing"
    /\ claim' = IF connected THEN "free" ELSE claim
    /\ Done(p)
    /\ UNCHANGED <<bankVars, connected, error, history, available, skipped, acct, boundVars>>

\* The process is killed: nothing it had not committed is there, and its claim
\* stays.  supervisord starts it again.
Crash(p) ==
    /\ pc[p] # "idle"
    /\ crashes < MaxCrashes
    /\ crashes' = crashes + 1
    /\ Done(p)
    /\ UNCHANGED <<bankVars, connVars, acct, young, imports, troubles>>

-----------------------------------------------------------------------------
(* The household                                                           *)

\* A sync that already knows an account, whose row may be about to go.
KnownToASync(x) == \E p \in Procs : /\ pc[p] \in {"asking", "reading", "read"}
                                    /\ job[p].gens[x] # 0

Import(x) == [NoAccount EXCEPT !.gen = imports[x] + 1, !.midSync = KnownToASync(x)]

\* A slip: what was skipped before stays listed.
SkippedTooMany(chosen) == skipped \cup (available \ chosen)

SkippedAfter(chosen) == available \ chosen

\* PUT /connections/{id}/accounts: choose_accounts, with the connection's row
\* locked, and then a sync.  One the bank no longer shares is left alone.
ChooseAccounts(p, chosen) ==
    /\ p \in Requests /\ pc[p] = "idle"
    /\ connected
    /\ chosen # {} /\ chosen \subseteq available
    /\ \A x \in chosen \ Linked : imports[x] < MaxImports
    /\ acct' = [x \in ExtIds |->
           CASE x \in chosen \ Linked -> Import(x)
             [] x \in (Linked \cap available) \ chosen -> NoAccount
             [] OTHER -> acct[x]]
    /\ imports' = [x \in ExtIds |-> IF x \in chosen \ Linked THEN imports[x] + 1 ELSE imports[x]]
    /\ skipped' = SkippedAfter(chosen)
    /\ Call(p)
    /\ UNCHANGED <<bankVars, connected, claim, error, history, available, young, troubles, crashes>>

\* DELETE /accounts/{id} of a linked account, with skip_deleted.
DeleteAccount(x) ==
    /\ x \in Linked
    /\ acct' = [acct EXCEPT ![x] = NoAccount]
    /\ skipped' = skipped \cup {x}
    /\ UNCHANGED <<bankVars, connected, claim, error, history, available, pc, job, boundVars>>

\* A category, payee or notes chosen on one of the bank's transactions.
ChooseOn(x, t) ==
    /\ x \in Linked /\ HasRow(acct[x].rows, t) /\ ~acct[x].rows[t].chosen
    /\ acct' = [acct EXCEPT ![x].rows[t].chosen = TRUE, ![x].chose = @ \cup {t}]
    /\ UNCHANGED <<bankVars, connVars, pc, job, boundVars>>

DeleteTransaction(x, t) ==
    /\ x \in Linked /\ HasRow(acct[x].rows, t)
    /\ acct' = [acct EXCEPT ![x].rows[t] = NoRow, ![x].gone = @ \cup {t}]
    /\ UNCHANGED <<bankVars, connVars, pc, job, boundVars>>

\* DELETE /connections/{id}: every account is unlinked or deleted with it.
Disconnect ==
    /\ connected
    /\ connected' = FALSE
    /\ acct' = [x \in ExtIds |-> NoAccount]
    /\ UNCHANGED <<bankVars, claim, error, history, available, skipped, pc, job, boundVars>>

\* IMPORT_WINDOW after the connection was made.
WindowPasses ==
    /\ young
    /\ young' = FALSE
    /\ UNCHANGED <<bankVars, connVars, acct, pc, job, imports, troubles, crashes>>

-----------------------------------------------------------------------------
(* Specification                                                           *)

Bank ==
    \/ \E x \in ExtIds, t \in TxnIds : BankReports(x, t)
    \/ \E x \in ExtIds : BankSharesOrNot(x)
    \/ HealthChanges \/ Recovers \/ HistoryProgresses

Household ==
    \/ \E p \in Requests : SyncNow(p) \/ \E chosen \in SUBSET ExtIds : ChooseAccounts(p, chosen)
    \/ \E x \in ExtIds : DeleteAccount(x)
    \/ \E x \in ExtIds, t \in TxnIds : ChooseOn(x, t) \/ DeleteTransaction(x, t)
    \/ Disconnect

\* What a caller of sync_connection does by itself, once called.
Step(p) ==
    \/ Claim(p) \/ Snapshot(p) \/ GetAccounts(p) \/ BeginPages(p) \/ EndPages(p) \/ AllRead(p)
    \/ Apply(p) \/ RecordFailure(p) \/ Release(p)

Time == LeasePasses \/ WindowPasses

Next ==
    \/ Bank \/ Household \/ Time \/ WorkerPicks
    \/ \E p \in Procs : Step(p) \/ Breaks(p) \/ Crash(p)

Spec == Init /\ [][Next]_vars

\* The code runs on by itself, supervisord keeps the worker running, time
\* passes, and a bank's trouble ends.  People and banks promise nothing else.
Fairness ==
    /\ \A p \in Procs : WF_vars(Step(p))
    /\ WF_vars(WorkerPicks)
    /\ WF_vars(LeasePasses)
    /\ WF_vars(Recovers)

FairSpec == Spec /\ Fairness

-----------------------------------------------------------------------------
(* Properties                                                              *)

\* At most one sync of the connection is between its claim and its end
\* (models/connection.py: "so the schedule and Sync now never run one at the
\* same time").  Holds when a sync never outlives LEASE.
Syncing == {p \in Procs : pc[p] \notin {"idle", "calling"}}
OneSyncAtATime == \A p, q \in Syncing : p = q

\* While a sync runs and the connection exists, the claim is there to keep
\* others out.
ClaimGuardsSync == connected /\ Syncing # {} => claim = "fresh"

\* A linked account holds exactly what its stream said at its cursor: nothing
\* the bank sent up to there is missing, stale or left over, except for what
\* the household deleted.  An account without a cursor holds nothing.  (The
\* one exception, an account imported again under a running sync, is what
\* WholeHistory is about.)
Mirrors(x, n) == \A t \in TxnIds :
    acct[x].rows[t].version = IF t \in acct[x].gone THEN 0 ELSE Said(x, n)[t]
MirrorsItsCursor == \A x \in Linked : ~acct[x].midSync => Mirrors(x, From(acct[x].cursor))

\* A transaction the household deleted stays deleted, whatever is synced next.
DeletedStaysDeleted ==
    \A x \in Linked : \A t \in acct[x].gone : ~HasRow(acct[x].rows, t)

\* What the household chose about a transaction stays, also when it was
\* pending and the bank replaced it with the posted one.
ChoicesSurvivePosting ==
    \A x \in Linked : \A t \in TxnIds :
        LET before == replaces[x][t]
        IN  HasRow(acct[x].rows, t) /\ ~acct[x].midSync
            /\ (t \in acct[x].chose \/ before \in acct[x].chose \ acct[x].gone)
            => acct[x].rows[t].chosen

\* The Connect tab shows each shared account as imported, skipped or new: no
\* account is both kept up to date and listed as skipped.
ImportedOrSkipped == Linked \cap skipped = {}

\* sync.py: "an account imported later starts with its whole history", and
\* "An account imported while this sync ran waits for the next one."  Nothing
\* the bank sent up to an account's cursor is missing, however the account
\* was imported.
WholeHistory ==
    \A x \in Linked : \A t \in TxnIds \ acct[x].gone :
        Said(x, From(acct[x].cursor))[t] # 0 => HasRow(acct[x].rows, t)

\* A sync that died or broke never keeps others out for good: until the bank is
\* disconnected, another one may start again and again.
ClaimIsReleased == []<>(Claimable \/ ~connected)

\* Once the bank has nothing more to say, a linked account that stays shared
\* ends up holding everything the bank sent, unless syncing on a schedule is
\* off, or the bank waits for someone to sign in.
Quiet(x) == x \in Linked /\ x \in shares /\ ~acct[x].midSync
CaughtUp(x) == Mirrors(x, Len(log[x]))
EventuallyCaughtUp ==
    \A x \in ExtIds :
        <>[](Quiet(x) /\ Status # "login_required") => <>[](Quiet(x) => CaughtUp(x))
=============================================================================
