# Cashcove: a TLA+ model

Cashcove (`backend/app`, `frontend/src`, `docker`) keeps a household's accounts, transactions, budgets and recurring
payments, brings them up to date from its banks through Plaid, and tells the household what it should know. These
modules state what its parts promise where they run at the same time, fail halfway or are restarted; TLC checks them
on small instances and TLAPS proves the most important of them for every size.

## How the system runs

One container, kept up by supervisord: nginx, the API (`main.py`, two uvicorn workers that serve each request in a
thread), PostgreSQL, and the sync worker (`plaid/worker.py`), which every half a minute syncs the connections that are
due and then looks for alerts. All state is in PostgreSQL; nothing is kept in a process between two requests. A
request is one session, usually one transaction under READ COMMITTED: what it reads without a lock may have changed by
the time it writes. Plaid, AI providers, the exchange rate server, Discord and SMTP are called in the middle of
requests and syncs, between a read and a write, and may be slow, fail, or do what they were asked without their answer
arriving. Anything may be killed at any point and is started again.

So the hard parts are always the same: two requests, or a request and the worker, on the same row; what was read
before a call to the outside and is used after it; and what a kill leaves between two commits.

## Inventory

| Component | Code | State it keeps | Operations | Talks to | What is hard | What makes it correct |
| --- | --- | --- | --- | --- | --- | --- |
| Bank sync | `plaid/sync.py`, `schedule.py`, `accounts.py`, `worker.py` | `connections`, linked `accounts`, their cursors and `transactions` | claim, snapshot, read pages, apply, fail, schedule | Plaid; requests that change the same rows | long calls between read and write; a claim that outlives its sync; pending transactions replaced by posted ones | an account holds what its stream said at its cursor; one sync at a time; what the household chose survives; it catches up |
| Connecting banks | `plaid/connections.py`, `api/connections.py` | `connections`, `available_accounts`, `skipped_accounts` | connect, choose accounts, sync now, repair, disconnect | Plaid Link, bank sync | effects at Plaid and in the database that can't be one | no account both imported and skipped; no Item is paid for and forgotten |
| Accounts and transactions | `api/accounts.py`, `api/transactions.py`, `finance/accounts.py`, `models/` | `accounts` with balances, `transactions` | add, change, move, delete (also in bulk), set a balance, close, remove | imports, bank sync | balances are read, computed and written back; two accounts locked by one request | a balance is explained by what is in the account |
| Statement files | `imports/` | `file_imports`, saved formats | preview, match, import, undo | accounts, automations, AI for PDFs | rows edited or deleted between import and undo | the same file adds nothing twice; an undo takes back what is left |
| Categories and automations | `finance/automations.py`, `api/automations.py`, `api/categories.py` | `categories`, `automations` | save (and sort the past), sort what arrives, delete and move | every way a transaction comes in | rules read before and applied after others' commits | what someone chose is kept; the oldest wins; nothing points at what is gone |
| Second opinions | `ai/reviews.py` | `ai_reviews`, `ai_recommendations` | start, run in a thread, apply, dismiss, stop | an AI, automations | a background thread cut off; two reviews of the same rows | what was decided stays decided; every review ends |
| Subscriptions and bills | `finance/subscriptions.py`, `api/recurring.py` | `subscriptions`, links to payments | add, link, cancel, reactivate, end | transactions, alerts, budgets | due dates that follow payments that come, go and change | the next payment is the one to come; nothing is expected after the end |
| Budgets | `finance/budget.py`, `periods.py`, `api/budget.py` | `budgets`, links, earlier amounts | change, link, take off, show a period | transactions, exchange rates | calendars; many links to one transaction | every day in exactly one period; a transaction counts once |
| Exchange rates | `finance/exchange_rates.py` | `exchange_rates`, `exchange_rate_spans` | prepare, fetch, convert | the rate server, dashboard, budgets, AI | a span read before a slow fetch | each day fetched, and converted at its own rate |
| Alerts | `alerts/` | `alert_states`, `alert_deliveries`, channel settings | gather, deliver, retry, queue | sync worker, SMTP, Discord | a send that can't be undone nor be one with its record | told once for each thing, and told in the end |
| Household | `api/users.py`, `auth/setup.py`, `cli.py` | `users`, `invitations`, the setup code | set up, invite, accept, change, remove | sign-in | two admins at once; one-time links | an active admin remains; a link works once |
| Sign-in | `api/auth.py`, `api/account.py`, `auth/` | sessions, challenges, passkeys, codes, throttles | sign in, verify, enroll, end sessions | the browser | replays, several workers | one-time things are used once; sessions end with what made them valid |
| The AI's changes | `ai/proposals.py`, `ai/chat.py`, `ai/tools/` | `ai_proposals` | propose, approve, reject | an AI, everything it may change | requests sent twice; a step that fails | decided once; all of it or nothing |
| AI text | `ai/` otherwise | usage rows | ask, read PDFs, search, suggest | providers | none that is state | codes stand for names |
| Dashboard, settings, audit, health | `finance/dashboard.py`, `api/settings.py`, `auth/audit.py`, `api/health.py` | one settings row, audit rows | read; change settings | | none | |
| Web app | `frontend/src` | what the API answered | pages and forms | API | answers that come late | shows what the API says |
| Container | `docker/` | certificates, the database's files | start, restart, migrate | | restarts | a process that died is started again |

## Modules

| Module | Models | Checked in | Proofs |
| --- | --- | --- | --- |
| `BankSync` | bank sync, choosing accounts, disconnecting | Books, BankSyncLive, BankSyncHistory | `BankSyncProofs` |
| `BankLink` | connecting and removing banks, Plaid's Items, which accounts to import | Books | `BooksProofs` |
| `Ledger` | accounts, transactions, imports and undo, row lock by row lock | Books, LedgerUndo | `BooksProofs` |
| `AlertDelivery` | alerts | AlertsSafe, Live | `AlertDeliveryProofs` |
| `Sorting` | categories, automations, second opinions | SortingRules, Live, SortingChoice | `SortingProofs` |
| `Household` | members, invitations, the first admin; `AdminRegister` is what it promises | People | `PeopleProofs` |
| `SignIn`, `SessionLife` | signing in, second factors, passkeys, passwords; how long a session lasts | People | `PeopleProofs` |
| `ExchangeRates` | exchange rates | Planning, RatesHole | `PlanningProofs` |
| `Recurring` | subscriptions and bills, on `Calendar` | Planning | `PlanningProofs` |
| `Budgets` | budgets and their pages, on `Periods` and `Calendar` | Planning, BudgetAmounts | `PlanningProofs` |
| `Imports` | which rows of a statement file an account already has | Planning | `PlanningProofs` |
| `CsvFiles`, `CsvLayouts` | reading a bank's CSV file, pure functions | Planning | |
| `Assistant` | the AI's conversations, codes and changes; `Decision` is what it promises | Planning | `AssistantProofs` |
| `Books`, `People`, `Planning` | nothing of their own: BankSync, Ledger and BankLink; Household, SignIn and SessionLife; and the last six of these, side by side | the runs of these names | the modules named after them |
| `Sums` | nothing: least numbers, smallest sets and sums over sets, with what is proved of them | | itself |

`MCBooks`, `MCLive`, `MCPeople`, `MCPlanning`, `MCLedger`, `MCSorting` and `MCAlertDelivery` are the instances for
TLC. Where a definition stands in the code is in `PROJECT.json`, as are the hazards. Some definitions stand beside a
variant marked "a slip": the same operation with a bug that would be easy to make. No specification uses them; each
property has been seen to fail when one of them takes its definition's place.

To run one: `tlc -config BankSyncLive.cfg BankSync.tla`, `tlc -config Books.cfg MCBooks.tla`, `tlapm
BankSyncProofs.tla`.

## The runs that hold several components

Components that share no state that the other's properties read are not multiplied with each other: a product of two
independent state machines has no behaviour that neither has. They are put side by side, in `Books`, `People` and
`Planning`, which give each component its variables and name its properties; the run's instance (`MCBooks` and so on)
adds a variable `focus`, chosen at the start, that says which of them moves, while everything else stays as it began.
Since no variable belongs to two of them, the conjunction of their specifications lets them move in any order, or at
once; `EverythingIsTyped` (People) and `PlanningIsTyped` (Planning) are about it.
The proofs are about the same modules, so a theorem's property is the very definition that the run checks. Where one component has too
many operations for one behaviour, a focus leaves some of them out (`InFocus`, `BudgetFocus`, `AskFocus`).

| Run | Foci |
| --- | --- |
| Books | `sync` (BankSync), `ledger` (Ledger), `banks` and `choices` (BankLink: two Items of which nothing is imported, or one of which anything is) |
| Live | `alerts` (AlertDelivery), `reviews` (Sorting), with the fairness of each |
| People | `household` (Household), `life` (SessionLife), and SignIn's `codes`, `totp`, `passkeys`, `passwords` |
| Planning | `rates`, `bills`, `amounts` and `links` (Budgets), `files` (Imports), `codes`, `chats` and `decide` (Assistant), and the calculations `days`, `csv` and `layout`, each of whose initial states is one input (`probe`) and which don't move |

Symmetry is used in Books, People, Planning, LedgerUndo and SortingRules over sets whose elements no definition tells
apart, and never in a run with liveness. `CHECK_DEADLOCK FALSE` is there because the bounds on steps, events and
restarts may be used up. What actually shares state is composed inside one module: a sync with the household's own
changes in `BankSync`, imports, undo and requests on balances in `Ledger`, everything that sorts in `Sorting`.

## BankSync: one connection kept up to date

`BankSync.tla` models `plaid/sync.py` with `plaid/schedule.py`, `plaid/accounts.py` and the routes that share its rows
(`plaid/connections.py`, `api/connections.py`, `api/accounts.py`, `api/transactions.py`).

**State.** The connection's row is `connected`, `claim` (`sync_started_at`: free, fresh, or older than `LEASE`),
`error`, `history`, `available` and `skipped`; the linked accounts' rows are `acct`: a generation (an account that is
unlinked and imported again is a new row), its cursor and its transactions. Plaid is a log per account: entry *n* is
what the account held after the bank's *n*th event, and a cursor is a position in it. A transaction's data is
abstracted to the event that last set it, so "stale" and "missing" can be told apart without amounts or payees. Every
caller of `sync_connection`, the worker's schedule and the requests, has a program counter `pc` and what it read and
has not written yet, `job`.

**Steps.** A sync is cut where the code lets go of the database or calls Plaid: `Claim` (one conditional UPDATE),
`Snapshot` (the read transaction after it), `GetAccounts`, `BeginPages`, `EndPages` (with Plaid's "pages changed,
start again"), `AllRead`, and `Apply`, one database transaction with the connection's row locked. `RecordFailure`,
`Breaks`/`Release` and `Crash` are its other ends. `ChooseAccounts`, `DeleteAccount`, `ChooseOn`, `DeleteTransaction`
and `Disconnect` happen between any two of them.

| Run | Question | Bounds |
| --- | --- | --- |
| Books (`sync`) | Is what an account holds what its stream said at its cursor, whatever the household did meanwhile? Does a choice survive its transaction being posted? | 1 account imported once, 2 transactions (pending and posted), 3 events, the worker and a request |
| BankSyncLive | Can two syncs run at once? Can an account be both imported and skipped? Does a claim always end, and does the schedule catch up? | 1 account imported twice, 1 event, 1 trouble, 1 crash, with fairness |
| BankSyncHistory | *(violated)* Does an account imported again always start with its whole history? | 1 account imported twice, 1 transaction, 2 events |

Two accounts or three transactions add no interaction: an account's rows depend on its own stream and cursor, and a
posted transaction on one pending one; that no account is both imported and skipped, however many there are, is proved
(`NeverBothImportedAndSkipped`). The claim concerns two callers: it is one row's conditional UPDATE, and
`SyncsStayApart` is proved for any number of them.

**Fairness.** Each caller that has started goes on by itself (`WF` of its own steps), the worker picks a due
connection again and again (supervisord restarts it), time passes `LEASE`, and a bank's trouble ends. Nothing is
assumed of people or of what the bank sends.

**Proofs.** `BankSyncProofs` proves `TypeCorrect`, `SyncsStayApart`, `NeverBothImportedAndSkipped`,
`AccountsMirrorTheirCursors` and `ChoicesStay`. `OneSyncAtATime` is not inductive: the invariant `Apart` adds that a
running sync's claim is fresh while the connection exists, which is what keeps `Claim` from being enabled, and the
assumption that a claim only gets old when no sync runs (`LeaseHonoured`). `AccountsMirrorTheirCursors` rests on an
invariant that ties a running sync's job to the rows: a row it will write either is the one it took its snapshot of,
with the same cursor, or was imported since (`midSync`); so the net changes it applies start where the row stands.
`ChoicesStay` needs what that one doesn't say (`Kept`): that the bank takes a pending transaction away in the very event
that posts it (`Posted`), so that every cursor is before both changes or after both; and that a row remembers what was
chosen, on the transaction itself or on the one that replaced it (`Remembers`). A batch that adds the posted one then
finds the pending one's row with its choice, and `_apply` looks at it before it is removed. Both invariants were model-checked before they were proved, the second with
two transactions, three events and a crash. The liveness properties and everything about the bank's troubles are
model-checked only. That a sync has its claim (`ClaimGuardsSync`) and that what was deleted stays deleted
(`DeletedStaysDeleted`) are parts of the proofs and need no run of their own.

**Findings.** `WholeHistory`: `_apply` matches rows to what was read by Plaid's `account_id`, so an account that is
left out and imported again while a sync that knew its old row runs gets that sync's changes and cursor, and never its
earlier history.

**An assumption.** `OneSyncAtATime` needs `LeaseHonoured`: nothing in the code bounds how long a sync reads pages, and
with `LeaseHonoured = FALSE` TLC finds a second sync that takes a claim of more than ten minutes from one that still
runs. `_apply` locks the row, so both write whole batches; what they write is not looked at then.

## AlertDelivery: telling the household once

`AlertDelivery.tla` models `alerts/service.py` and `alerts/worker.py`, and the tick of `plaid/worker.py` that runs
them.

**State.** What alerts are about (`balance`, `payment`, `bank`, `txn`), the settings (`enabled`, `configured`) and
whether a channel answers (`well`), the tables `alert_states` (`state`) and `alert_deliveries` (`row`, per event key
and channel: none, queued, tried less than `RETRY_AFTER` ago, to be retried, sent), and the one worker with the alert
in its hands. `received` and `unsure` count what really arrived and what of it could not be recorded; `crossed` counts
how often a balance became low, for the properties.

**Steps.** A tick is `Gather` (up to `run_alert_checks`' commit), `TakeUp`, `StartChannel` (the attempt's commit),
`Send`, `Record`, `ReadPending` and `EndTick`; `TickDies` is a kill or an unexpected exception at any point. Requests
and syncs `SaveTransaction` and later `Enqueue`, with `DiesBeforeEnqueue` between the two commits.

| Run | Question | Bounds |
| --- | --- | --- |
| AlertsSafe | Are messages repeated only when nobody could know, and is nothing marked as sent that was not? | one payment, one bank, both channels, 1 change of settings or of a channel, 2 misfortunes |
| Live (`alerts`) | Is each crossing of the threshold told once? Is everything told in the end? | one account with 2 crossings, one transaction, one channel, 1 change of settings or of the channel, 1 misfortune, with fairness |

Event keys never share a row, so one key of each kind is enough; two channels matter because a failing first one must
not take the second with it.

**Fairness.** The worker ticks, a request that saved a transaction queues its alert unless it dies, time passes
`RETRY_AFTER`, and a channel recovers. Ticks die a bounded number of times.

`EverythingIsTold` is `LowBalanceIsTold` and `LargeTransactionIsTold`.

**Proofs.** `AlertDeliveryProofs` proves the types, `OnlyUnsureRepeats`, `RecordsAreTrue` and `CrossingsToldOnce`. The invariant behind
the first is a count: what arrived is at most what was not recorded, plus one if the row says sent or the worker holds
an unrecorded success (`Counted`, `Arrived`, `Asked`). Behind the second, an episode is a crossing and one not yet
seen is still to come (`Crossing`), and whatever the worker carries is such an episode (`Told`). Liveness is
model-checked only.

**Observations.** A bank that goes on failing is told of after every sync, since the event key holds the attempt's
time (`SyncKey`); nothing in the repository says otherwise, so no property does. A send that arrived is repeated when
its answer is lost or the worker dies before `sent_at` is committed, which `RepeatedOnlyWhenUnsure` allows, although
`models/alerts.py` says that successful sends are not repeated.

## Ledger: balances, row lock by row lock

`Ledger.tla` models the requests that move a balance: `api/transactions.py`, `api/accounts.py`, `finance/accounts.py`,
and `import_file` and `undo` of `imports/service.py`.

**State.** The tables `accounts`, `transactions` and `file_imports` (`account`, `txn`, `import`), who holds each row's
lock (`holder`), and what each request was asked, has read and waits for (`job`). Two history variables state the
properties: `hand`, what a balance would be without transactions, and `moved`, how far an import has moved each
balance so far.

**Steps.** A request begins (`Ask...`), sends a query (`Want`), gets the row with its lock when it is free (`Take`),
and at last writes what it computed **from what it read** (`Commit`), or ends anywhere without writing (`RollBack`).
`NextRows` gives the order of the queries in the code; rows that one query locks come in any order. `Look` is the one
read without a lock. `BankReports` and `BankLeaves` stand for a sync and for `unlink`.

| Run | Question | Bounds |
| --- | --- | --- |
| Books (`ledger`) | Is every balance explained by what is in the account? Does an undo take back what is left of an import? | 2 accounts, one linked, 2 transactions, 1 import, amounts 1 and 2, 2 requests at a time, 3 in all |
| LedgerUndo | *(violated)* Does an undo do so when the bank kept the account for a while? | one account linked, 4 requests |

Two requests at a time are enough to lose an update and to wait on each other; what a third would add is more of the
same two. Rows' ids are random, so a row that is gone is never confused with a new one (`New`).

**Proofs.** `BooksProofs` proves `BalancesExplained`, `ReadsStayTrue` and `UndosPutBack` for any number of accounts,
transactions, imports and requests, from `Bounds`: the sets are finite, amounts are whole numbers, ids are told apart. A balance is
a sum over sets of rows, and `SumFunctionOnSet` is a recursive function, so `Sums` proves what is needed of
such sums: that the function exists, that the order doesn't matter, what adding, taking out or changing an element
does, and that a sum is the sum of its parts' sums (`SumByPart`). Each is shown by the smallest subset for which it would
fail, which a finite set has (`FS_StrictSubsetOrderingWellFounded` with `WFMin`), since the library's induction can't be
used here.

`BalanceExplained` alone is not inductive. The invariant `IInv` adds that what a request was asked makes sense
(`AllAsked`: one that changes a transaction reads no other), that what it has read it has locked and is still as it
read it (`Held`), and that the rows it will add are nobody else's and not there yet (`Reserved`). `Held` is where the
locks come in, and is a result in itself (`ReadsStayTrue`). A commit then moves each balance by `Change`, and what
explains it by as much: that is shown kind by kind (`TxnsMove`, `ImportsMove`, `CommitExplained`). The invariant was
checked by TLC before it was proved.

`UndosPutBack` compares what an undo does with `moved`, the history of what the import did. Two more parts join the
invariant (`UInv`). `Traced` says of the tables that `moved` is what the import's rows in an account now add up to, and
at home what it did beyond them (`MovedIs`), and that rows of an import into an account no bank kept are never in one
that a bank keeps, since nobody may write to such an account (`OnlyAtHome`). `Lookups` says of the requests that an
undo only looks for its import's rows, having locked the import first (`UndoReads`), and that what an undo or a removal
found gone stays gone (`Seen`). With them, an undo that is ready has found exactly the rows that are left (`UndoHas`), a
removal has found all that goes with its account (`RemoveHas`), and no removal can take an import's name off a row that
an undo is after, because both would hold the import's lock (`CommitLookups`). TLC checked `UInv` too, with two
transactions and four requests, and with two imports.

**Findings.** Undoing an import into an account that a bank used to keep changes its balance by rows that were deleted
meanwhile, although `undo`'s docstring says that the balance ends up as if the import never happened. No run asks
about deadlocks: moving a transaction locks its accounts in another order than deleting does, so two such requests can
wait on each other, and PostgreSQL ends one of them, which `RollBack` stands for.

## Sorting: who gives a transaction its category

`Sorting.tla` models `finance/automations.py` with its routes (`api/automations.py`), what people do with categories
(`api/transactions.py`, `finance/transactions.py`, `api/categories.py`), the three places transactions come from (a
form, a file, a bank), and the AI's second opinions (`ai/reviews.py`).

**State.** The rows of `categories` (`cats`), `transactions` (`txn`), `automations` (`autos`), `ai_reviews` and
`ai_recommendations` (`review`, `recs`, the latter one per transaction and category as its unique constraint says);
what a request or the sync has read and is about to write (`job`); and, for the properties, the category someone last
chose for each transaction (`wish`). What an automation compares (payee, description, account, amount, direction) is a
transaction's `text`, and an automation covers a set of texts. `category_is_manual` is `chosen`; it stays set when its
category is deleted and nothing takes its place, as in the code (`models/transaction.py:48-50`). An automation's
number stands for its age, by which the oldest wins. A review's batch is one transaction. What automations do to
subscriptions, what counts toward the budget and the wording of what the AI is told are left out.

**Steps.** Whatever the code does between its last read and its commit under READ COMMITTED is two steps: `Arrive`
then `Insert`; `BankChanges` then `SyncWrites`; `CreateAutomation` or `UpdateAutomation` (the row, and which older
automations claim what) then `CommitAutomation`, whose UPDATE looks at `category_is_manual` again as it locks each
row. `UpdateTransaction`, `Categorize`, `DeleteTransaction`, `DeleteCategory`, `Apply` and `Dismiss` lock the rows
they look at first, so each is one step. A foreign key or unique constraint that fails at the commit rolls a request
back, fails a sync or fails a review. A review goes `StartReview`, `RunReview`, and for each transaction `ReadBatch`,
`Answer`, `StoreSuggestion`; `Restart` cuts it off and `StopStale` clears it up.

| Run | Question | Bounds |
| --- | --- | --- |
| SortingRules | Does a transaction keep what someone chose for it? Is a decided suggestion ever open again? Does anything point at a category that is gone? | 2 automations, 2 saves, 1 transaction, 2 categories, 2 texts, 1 admin's request, the sync, 1 review, 2 edits |
| Live (`reviews`) | Does every review end? | 2 reviews of one transaction, no automation saved, 1 restart, 1 edit, with fairness |
| SortingChoice | *(violated)* Does a choice survive a sync that is about to write the same transaction? | 1 automation, 1 text, 2 edits, `SyncsAlone = FALSE` |

SortingRules leaves restarts to Live (`RulesSpec`): no request or sync survives one, and what a restart means for a
review is Live's question. No automation is saved in Live: what a review waits for, and what ends it, has nothing to do
with them. One
transaction is enough: no action relates two of them. Two categories are enough to have one chosen and another given;
the older of two automations is enough for one to claim what the other covers. One request saves at a time (two
automations saved at once is planned, see the plan).

**Fairness.** A review that runs goes on, since every request to an AI times out and its thread has nothing else to
wait for, and somebody asks about the reviews again: the page that shows one polls it until it is over (`frontend`
`useReviewProgress.ts:46`), and any look at them stops what a restart cut off.

**An assumption.** `ChoiceKept` holds when `SyncsAlone`: nobody chooses for a transaction between a sync's reading its
row and writing it. Everything else may happen in between. The run SortingChoice, without that assumption, is the
finding: `_existing` reads rows without a lock, and a category chosen meanwhile is replaced and stays marked as
chosen.

**Proofs.** `SortingProofs` proves `TypeCorrect`, `ChoicesAreKept` and `DecisionsStay`, for any number of automations,
requests, transactions and reviews. `TypeOK`'s references are inductive with the types only because a save in progress
holds its category (`Saving`), which `DeleteCategory` waits for. For `ChoiceKept` the invariant adds that a
transaction being added is not there yet and is added by one caller, and one being changed was there (`Apart`), and
that the sync never carries a category for a row that someone chose for (`Gentle`). `ReviewsEnd` is model-checked
only.

## ExchangeRates: the days that have been asked for

`ExchangeRates.tla` models `RateBook` of `finance/exchange_rates.py`, which the dashboard and the budget use through
`Converter` (`finance/dashboard.py:41-69`), and its two tables (`models/exchange_rate.py`).

**State.** `span` and `stored` are the rows of `exchange_rate_spans` and `exchange_rates` for one pair of currencies;
`has` is what the rate server knows, `today` the date. `book` is each request's `RateBook`: its last day, the days it
wants, the gap it is fetching and how far it has got, what is left to fetch after it, and what it has loaded. A rate
is represented by the day it is of: whether a day converts at the right rate is then whether it converts at the right
day's.

**Steps.** `Prepare` widens the days wanted and, from the span as it is then, works out what to fetch: everything, or
the days before the span and then the days after it. `Ask` is one chunk's answer, `Fail` an error, `Store` the upserts
and the commit, `Load` the read of the rates. A request ends, or dies, anywhere (`Close`), and `NewDay` passes
midnight.

| Run | Question | Bounds |
| --- | --- | --- |
| Planning (`rates`) | Has every day of the span been asked for? Does each day convert at its own rate, or the last before it? | 2 requests, 4 days, chunks of 2, `FirstAlone = TRUE` |
| RatesHole | *(violated)* Has every day of the span been asked for, without that assumption? | the same, `FirstAlone = FALSE` |

Four days give three that are over: enough for a day before, in and after a span, a hole in one, and a gap of more
than one chunk. Two requests are enough for one to move the span that another has read.

**An assumption.** `FirstAlone` says that no two requests fetch a currency's *first* rates at the same time. Nothing
in the code sees to that: without it, RatesHole finds the hole. With it, whatever else happens at once, the span stays
whole, because a span only grows and every later gap was next to it when it was worked out.

**Proofs.** `PlanningProofs` proves these, its types and that only rates of days that are over are kept for any
number of requests, days and days in a chunk, under `FirstAlone`. The invariant `RatesInv` adds to them what every
request's book says about the span as it is *now*, not as it was when the request read it (`Sound`): its gap and what
is left touch the span, and with the span make up the days wanted (`Fetching`), and while there is no span only one
request is asking (`FirstOnes`).

**Finding.** Two requests that fetch a currency's first rates for days apart (two periods opened in two tabs, say)
leave a span that covers the days between, which nobody asked for and nobody will.

**Left out.** That the server could add or change a rate of a day that is over (the code takes it that it doesn't, and
a day it has no rate for is never asked for again), amounts and rounding, other pairs (each has its own rows), and
that one failure to reach the server stops the request's other currencies too.

## Household: who is in it, and that an admin remains

`Household.tla` models `api/users.py`, the setup and invitations of `api/auth.py`, `auth/setup.py` and the setup code
of `cli.py`, over `models/user.py` and `models/auth.py`. `AdminRegister.tla` is what it promises: a set of active
admins that people enter and leave one at a time and that nobody leaves empty. `KeepsTheRegister` is the refinement,
with `ActiveAdmins` for the register.

**State.** `members`, `admins` and `off` are the users' rows, `code` the setup code that works, `invite` the
invitations, by email. `req` is how far each request is. A change of a member is let in (`current_auth` commits, so
what it read of its own user is old from then on), asks for the admins' rows, holds them, has flushed its change and
passed the check, and commits; another request can come between any two. Setting up and accepting are split likewise:
whether setup is required is read before the code is claimed, and an invitation is deleted before the account is made.

**Locks.** A row that is locked or was written is held to the end of its transaction. `SELECT ... FOR UPDATE` under
READ COMMITTED locks the rows its snapshot had, as they are when it gets them: `rows` is that snapshot and `ahead` who
has waited for those rows for longer. With `LocksFresh = TRUE` a request locks the admins there are when it gets the
lock instead.

Run People, focus `household`: does an active admin remain; does one setup code make one admin; does a link let in one
person, once, and only the newest one; do the admins change as the register does? Bounds: 3 people, 2 requests, 2
links, 2 codes, `LocksFresh = FALSE`. Three people are an admin, another and someone who joins. Two requests that
overlap are safe as the code is: the one that waits sees the rows that the other left, and nobody waits with an older
snapshot.

**Observation.** Three are not, by what `FOR UPDATE` promises: the first demotes the only admin there was while the
second waits for that admin's row with the snapshot it had; someone joins as an admin; the third locks the rows there
are now, which the second does not want. Second and third hold different rows, each finds the other's target still in
place, and both commit. TLC finds this with 3 people, 3 requests and 2 links; nothing in the repository speaks of
three, so no run is kept for it.

**Proofs.** `PeopleProofs`, for any number of everything. `LinksApart` (each link is in one place: an invitation,
used or void; a claim is on the newest and nobody else has it) gives `LinkWorksOnce` and needs nothing of the locks.
`AdminRemains`, `SetUpOnce` and the refinement assume `LocksFresh`: `Alone` says that between its lock and its commit
a request is the only one there, that the rows it locked still are active admins, and that what its check saw still
holds; adding an admin disturbs none of these.

**Left out.** `issue_code`'s check and commit are one step (the container does it before it serves). What else a
change does to its target (sessions end, reset links go) is in `SignIn`. Names and emails, and that an email can be
changed.

## SignIn and SessionLife: who is signed in

`SignIn.tla` is one person's account: `api/auth.py`, `api/account.py`, the reset links and two-step resets of
`api/users.py`, and `auth/sessions.py`, `challenges.py`, `totp.py`, `passkeys.py` and `service.py` behind them.
`SessionLife.tla` is time: the two deadlines of a session and how seldom it is touched (`auth/sessions.py`,
`auth/deps.py`).

**State.** The user's row (`active`, `on`, the last authenticator step used), the recovery codes and reset links that
work, passkeys, sessions and challenges. A request (`req`) holds what it read before something slow, hashing a
password or verifying a key, and writes afterwards. `cut` counts how often everyone was to be signed out and a session
knows the count it began at; `used` is every one-time thing ever accepted.

**Steps.** Each way to sign in or to prove who one is comes in two: it begins on what the rows say, and ends
(`...Checked`, `Answered`, `...Done`) by a conditional UPDATE or DELETE whose row count decides (`ClaimStep`,
`UseRecoveryCode`, a reset link's DELETE). Attempts at a code are read and then written, as the code does. `RollBack`
stands for a request that dies and for the deadlock PostgreSQL may end when a password change meets a reset.

| Run | Question | Bounds |
| --- | --- | --- |
| People (`codes`, `totp`, `passkeys`, `passwords`) | Is a code or link ever accepted twice? After everyone is signed out, who still is in? | 2 requests, 2 sessions, 2 challenges, 1 passkey, 2 codes or links, 3 steps of the clock, 2 attempts |
| People (`life`) | Does whoever comes back in time stay signed in, and whoever stays away not? | 2 sessions, idle 3 or 4 and at most 5 or 7 units, touched every 2, until 8 |

The four foci of SignIn are the groups of operations that meet on the same rows; each has every operation that can use
up, make or void what the others in it use. Two requests are what it takes to use one thing twice.

**What the properties allow.** `SignedOutEverywhere` lets a session stay that was kept on purpose, or begun by a
request that was under way when everyone was signed out (`late`): nothing in the code looks again. `UsedOnce` starts
anew when two-step verification is turned on or off, which gives a new secret. Two sets of recovery codes, or two
reset links, made at the same moment may both stay, since each deletes only the rows its snapshot had (`Fresh`).
Different valid codes may answer one challenge at once. How recent a verification must be, throttling
(`auth/throttle.py`, in memory) and cryptography are left out; `MAX_PASSKEYS` is looked at only when the options are
given. In `SessionLife` a session is touched at most every `TOUCH_INTERVAL`, so it may end that much earlier than its
idle time.

**Proofs.** `PeopleProofs` proves `NothingUsedTwice`, `CutsSignOut` and `SignInTypes` of SignIn, from `Bounds` (in
particular at least one step of the clock and one secret can be made: with none of either, a code would have no step
to be of). The invariant adds to the two properties that what was used can't be used again (`Once`): a used step is not later than
the last one stored, a used code or link no longer works, and no two requests hold the same reset link; that a code
typed in is one the clock allows (`Given`); and that a request under way when everyone was signed out is known to be
late (`Late`). So a second use of anything finds no row to delete and no older step to write over, whoever read what
before.

`ComingBackInTime` is `StaysSignedIn`, for any lengths that are like those of `auth/sessions.py:28-39`: whoever asked
to be remembered (14 days, 30 at most) may stay away no shorter than whoever did not (an hour, 12 at most). Its
invariant (`Lasting`) is that the row's `seen` lags behind the last request by less than `TOUCH_INTERVAL`, and that a
session nobody ended is only gone once it has expired, which time can't undo.

`EverythingIsTyped` puts the types of the three components together, as the run does (`TypesOK`).

## Recurring: which payments are whose, and when the next is due

`Recurring.tla` models `finance/subscriptions.py` with `api/recurring.py`, and the part of `finance/automations.py`
that links payments; `Calendar.tla` counts days and months (a day is a number, months are their first days).

**State.** `item` (a subscription or bill: payee and account, how often, next due day, category, whether it goes on
and until when), `pay` (transactions, and what they are linked to), `rule` (what automations link a payee to),
`closed` accounts, and `book`, the rules that an import or a sync read and still holds. `loose` are payments that a
person took off, that came by rules that were old by then, or that had been linked by hand or by an automation to
something with another payee which was then deleted.

**Steps.** A request locks its row and commits once, so each is one action with everything it calls: creating,
changing, cancelling, reactivating and deleting an item with the payments it takes up or lets go of (`link_payments`,
`backfill_subscription`, `advance_due_date`), linking by hand, saving an automation, closing an account. A payment
that arrives is two: `LoadRules`, then `Arrive` on the rules as they were.

Run Planning, focus `bills`: is every payment of something that is tracked linked, whatever came during a pause or
before a payee changed (`CaughtUp`)? 2 items, 1 payment, 2 accounts, 1 payee, one day, 5 steps: the
shortest behaviour in which deleting one item leaves a payment of another's payee unlinked. Focus `days`: does
`due_dates`, which starts its count near the days asked for, give every due date of them and no other
(`CalendarRight`)? Every frequency, three due days (the 31st among them), first days in and across months of all
lengths, over three years without a leap day, and spans of 30 and 120 days.

**Proofs.** `PlanningProofs` proves `CaughtUp` for any number of items, payments, names, accounts and automations. Its
invariant `RecurringInv` adds the shape of the rows and `OneEach`: no two tracked items have the same account and
payee. Without that it isn't inductive, since what one item lets go of when its payee changes could be a payment that
another tracks. `AllDueDates` proves `DueDatesRight` for every due day, frequency and span of days that start within
the cycles counted, in any calendar whose months have 28 to 31 days (`Ordered`): two payments are never further apart
than `Longest` says, so the cycle the count starts from is never past the first day asked for.

`RecurringTypes` proves `TypeOK`, which is inductive as it stands: what links and rules name is an item, and backfilling
and linking give payments only categories there are. That the next due date is a day of the calendar is not a result:
`InCalendar` leaves out the steps that would take it past the calendar's end.

**Observations.** `advance_due_date` writes the clamped day back: an item due on the 31st is due on the 28th from
March on when it is paid in February, although `due_after`'s docstring (`finance/subscriptions.py:130-131`) says that
the day is kept. `ReactivationAnswers` doesn't hold: an annual payment made half a year early is next due after the 13
months that `reactivate` looks at, and indexing an empty list (`finance/subscriptions.py:486`) is an answer of 500.

Deleting an item unlinks what is linked to it, and nothing is linked in its place: a payment that an automation or a
person had linked to it, of a payee that another item tracks, stays without one, as `README.md:206-209` says.

**Left out.** Two requests that start tracking the same payee at once (`ensure_untracked` is not locked), amounts,
suggestions, and that an item stops at `ends_on` when due dates are listed. `link_payments` and
`backfill_subscription` give payments the item's category even over a chosen one, as the code does.

## Budgets: what counts, and what a period comes to

`Budgets.tla` models `finance/budget.py`, `api/budget.py` and `models/budget.py`; `Periods.tla` is
`finance/periods.py`.

**State.** `budget` (how it repeats, the day periods are counted from, and its amounts, each from a day on), `link`
(what counts toward it: an automation, subscription, category, account or single transaction, as income or spending),
`off` (transactions taken off by hand), `paused` automations, `gone` (what links name that was deleted) and `today`.
What transactions are (`Facts`) is given. `said` remembers the amount last asked for.

**Steps.** Each request changes one budget and commits once: create, change, delete, link transactions, unlink, add
and remove a source, let an automation count. Others pause automations and delete what links name. A page
(`PeriodView`, `History`, `Summary`) is a function of the tables: a transaction counts by the first link that hits it
in the order of `Priority`, and only once.

| Run | Question | Bounds |
| --- | --- | --- |
| Planning (`amounts`) | Do periods that are over keep their amounts when an amount changes (`PastKeepsAmount`)? | 1 monthly budget, 2 anchors, 2 amounts, 2 days, 5 steps |
| Planning (`links`) | Does linking make a transaction count as asked, and nothing else change (`CountsAsAsked`)? Do the pages agree with each other and with their own parts (`ViewsAgree`)? | 2 transactions, an automation, a category, an account, 2 links, 4 steps |
| Planning (`days`) | Is every day in exactly one period, and are the ones before and after it its neighbours? | every way of repeating, 4 anchors (one on the 31st), every day of a year |
| BudgetAmounts | *(violated)* Does a new amount hold from the period the person is in? | as `amounts` |

**Proofs.** `PlanningProofs` proves all of these for any number of budgets, transactions, links and amounts.
`CountsAsAsked` rests on `Linked`: links name things of their own kind, and a budget's links have different IDs, so
that exactly one comes first in the order of `Priority`. `PastKeepsAmount` rests on `Standing`: an anchor is a day of
the calendar, or for weeks a number, which is what puts a period that is over before the day the new amount is from.
`EveryDayIsInOnePeriod` proves `DayInOnePeriod` for every way of repeating, anchor and day in any calendar whose months
have 28 to 31 days, as long as the months around the day are in it (`Room`). With `AllDueDates` it gives
`CalendarAnswers`, which is the run's `CalendarRight`.

`PagesAgree` is `ViewsAgree`. The period before today's ends the day before it starts (`Neighbours`), which needs the
months around the days people look at to be in the calendar (`InReach`). A flow's day is then in the history's
second period just when it is in the page's period, and in the first just when it is in that of the page before, so the
same transactions are summed. A page's days, and its sources, are parts that divide its flows, so their sums add up to
the whole's (`SumByPart`); each transaction has one flow, because it counts by one link.

`BudgetTypes` proves `TypeOK`. It isn't inductive by itself: the amount that is kept when a budget's period changes is the
one of the period people are in (`AmountAt`), so every budget has to have one (`Budgeted`); and the day a new amount is
from is a day of the calendar only when the periods around the days people look at are in it, which is `InReach`
again.

**Finding.** When the day periods start on moves together with the amount, the new amount is kept from a day that may
come before an older amount's, and the older one takes over again.

**Left out.** Two admins changing one budget's amount at once (the unique constraint ends one of them, which nothing
catches), the links to the pages before and after, pace and projections, upcoming bills' amounts. A transaction's
value in the household's currency is given; converting it is `ExchangeRates`.

## Assistant: what the AI may change

`Assistant.tla` models one answer's rounds (`ai/chat.py`), the codes that stand for rows (`ai/tools/base.py`), the
changes it may propose (`ai/tools/changes.py`) and how an admin decides on them (`ai/proposals.py`, `api/ai.py`).
`Decision.tla` is what that promises: a proposal is decided once, its changes are made all together when it is
approved and at no other time, and nobody is told anything else. `Decides` is the refinement.

**State.** `books` is what the changes are about: transactions' categories, categories and groups, automations,
subscriptions, budgets' sources. `proposal` has each proposal's changes as they were resolved (`steps`), and, for the
property, the rows the AI was shown under the codes it wrote (`meant`). `chat` is the saved conversations, `req` the
requests, `seen` every code the AI was ever given, `made` how often each change was committed.

**Steps.** `Ask`, then rounds of `LookUp` (rows are shown under new codes), `InVain`, `PutRight` (the AI is told what
is wrong), `Propose` or `OnlyWords`, and `Save`. `Approve` locks the proposal's row, `RunStep` makes one change after
another in the same transaction, looking at the rows as they are **then**, and `Commit` ends it, with everything or
nothing; `Reject`, `DecideAgain` (a request sent twice), `Age` (too old to approve) and `Die` come in between, and
people delete categories and transactions.

Run Planning: 2 requests, 2 proposals of up to two changes each from six that cover every tool (`MAX_CHANGES` is 2
here and 8 in the code, and one thing that is asked for has three changes, which is too many). `codes`: is what is
proposed about the rows the AI was shown under the codes it wrote (`CodesMeanTheirRows`), even ones it remembers from
an earlier answer? `chats`: saved conversations. `decide`: `Decides`.

**Proofs.** `AssistantProofs` proves `CodesMeanTheirRows` (`CodesMean`) and the refinement of `Decision`
(`DecidesAtOnce`) for any number of requests, conversations, proposals, changes and rows. It assumes `Bounds`: that the
bounds are numbers, that `None` is none of the ids, that there are finitely many rows, and that what is asked for is one
or more `Changes`, of which a new category has a name and a group and a change of something names it, as their
arguments must (`ai/tools/changes.py:208-218, 541-555`).

A change is about the rows the AI meant because a code leads to one row in an answer, and never to another answer's:
whoever asks has a tag of their own, no row is shown twice, and every code ever given out with that tag is the code of
one of the rows shown under it (`Tagged`). A code is numbered by a cardinality, so that codes stay what they were when
another row is shown (`CodesStay`) and no two rows share one (`CodesDiffer`) is shown of sets of positions.

A proposal is decided at one moment because of its lock: an approval under way holds a proposal that waits, alone
(`Held`), and what is approved, and nothing else, was made once (`MadeOnce`); both are a result of their own
(`MadeWhenApproved`). Then `Commit` is `Approve` of `Decision`, `Reject` its `Reject` and `Propose` its `Propose`; a
request that is turned away, whether its proposal was decided already, is too old, or has a step that can't be made any
more, is its `Answer`; a request that begins, or dies, takes the place of what was told before it (`AskAgain`); and
every other step, among them each change of an approval that has yet to commit, is none.

`AskTypes` proves `TypeOK`, whose first part is about the books: no transaction or subscription has a category that
isn't there. Changes name categories, an approval makes several of them before it commits, and people delete categories
meanwhile. The invariant (`AskTyped`) says of an approval under way that every change it has made names a category that
is in the books or that one of its earlier changes adds (`NamesKnown`): `RunStep` checks a change against what it sees,
`DeleteCategory` waits for those an approval has used, and other commits only add. Then what `Commit` writes is sound:
`After` makes the changes one after another, and were the books wrong after some number of them there would be a least
such number, where one change (`RunKept`, tool by tool) made them so (`AfterStored`).

**Observation.** Two requests that go on with one conversation at once each save the turns they read and their own
(`api/ai.py:267-272`): one of the two is lost. Nothing in the repository says otherwise.

**Left out.** Other admins (each sees only their own), random tags that coincide, accounts closed between proposal and
approval, what the AI's words are, and the checks that keep names from it, which are text.

## Imports, CsvFiles and CsvLayouts: statement files

`Imports.tla` models `imports/matching.py` and `import_file` and `undo` of `imports/service.py`: which rows of a file
an account already has, which it may have, and what importing the rest adds.

**State and steps.** `txns` is one account's transactions: where they come from, day, amount, payee, the description a
file gave, the bank's ID, the step they came in. `Import` matches every row of a file to at most one transaction, and
each transaction to at most one row: first those with its ID (`ByID`), then row by row the oldest of the same day,
amount and payee, and at last the nearest of the same amount a few days either side (`Match`, `Candidates`, `Best`,
`Take`). It adds any choice of the rows it may import. `Enter`, `Rename`, `Undo` and `DeleteTransaction` are what
people and banks do in between. `whole` remembers the files of which every new row was imported and every other was
recognised (`Recognised`: by its ID, or by its day and description), until something is deleted or renamed.

Run Planning, focus `files`: does such a file, imported again, add nothing, as long as the account's transactions can be
told apart (`WholeFilesAddNothing`)? Does an account never get the same ID twice (`IDsOnce`)? Three files (days that lie
close, IDs that repeat within and across files and on rows that differ, an unreadable row), 3 transactions, 4 steps.

`CsvFiles.tla` is how a line's amount is read: in columns of their own, beside a word, with a sign, or with the sign
turned; and which balance is the last, newest or oldest first, given as it is or as what is owed. `CsvLayouts.tla` is
where a file's transactions start, which column is which (by its name, a name it goes on from, or what is in it), and
a format saved from one file and used for another, matched by its names or chosen. Both are functions. Their reference
is the other direction: a history is written as a file in each way banks have, and reading it has to give the history
back.

Run Planning, `csv`: every history of up to 4 lines with amounts of -2 to 2 on two days, in 16 ways. `layout`: three
histories in every combination of sign, order, names (known, longer, none), column order and a summary above them or
not, each also read with the format saved from every other (`FilesReadRight`).

**Proofs.** `PlanningProofs` proves both for any number of files, rows, transactions and steps. `IDsStayUnique`: what a
file adds keeps an ID only when neither the account nor an earlier row of the file has it. `WholeFilesStayWhole` needs an
invariant about the rows, not the statuses: every row of a whole file *fits* a transaction of its own, one with its ID,
or of its day, amount and description (`Fits`, `FilesInv`). An import of another file, a hand or a bank only add
transactions, and leave such a fit as it is. Importing the file again then has to take a transaction for every row. The
argument is one of counting: were a row left without one, its own was taken by another row of the same day, amount
and payee, hence, as the account can be told apart (`ToldApart`), of the same description; the rows of that
description have as many transactions as there are of them, so one is left. What the passes took so far is followed
line by line (`Fitting`), by least counterexample: a line after which it no longer holds has a first one.

**What it needs.** A file of signed amounts doesn't say which sign is money out; most of it should be (`SignsKnown`).
Without names, the first column with cents has to hold signed amounts (`ToldApart`). A balance can be told when two
neighbours differ in size. A saved format without column names has nothing to find its place by: when the next file's
summary is longer or shorter, `relocate` leaves it where it was, `misfit` passes as long as one line can be read, and
lines are skipped without a word. `SavedRight` says so.

**Observation.** README.md:349 says that importing the same file again adds nothing when possible matches are left
unticked. Two things can go wrong. With two transactions of one day, amount and payee whose descriptions differ, a row
may be matched to the other's transaction and leave its own to a row of some days before, which is then new; hence
`ToldApart`. And a row that was only *near* a transaction is not recognised, but neither is it remembered: with
transactions of one amount entered by hand on days 3 and 4, a file with rows (2, x), (3, y), (2, x) takes those two
for its first rows and adds the third. Imported again, the first row is taken for what the third became, the second for
the one of its own day, and the third is new. Hence `Recognised`. Nothing in the code can tell these apart, and the rows
are shown as new before anything is added.

**Left out.** The formats of dates and numbers, the delimiter, OFX, QIF and PDF, categories a file suggests, and the
storage of saved formats. A file without IDs of which someone imports *possible* matches too adds those again. IDs
that Plaid gave never match a file's.

## BankLink: what Plaid bills for

`BankLink.tla` models `plaid/connections.py` and `api/connections.py`: connecting a bank, removing it, and choosing
which of its accounts to import. What a sync then does with them is `BankSync`.

**State.** `item` is Plaid's side: each Item it bills for until it is removed, whose login it is and what it shares.
`conn` is the table: what a connection lists, imports and skips, and, for the properties, what somebody `decided`
about. `req` is the requests. `left`, `beside` and `later` record what nobody could help: Items left when Plaid
refused or couldn't be asked or the process died; connections that came while another was being made; accounts that
were shared later, in Link's update mode.

**Steps.** `Exchange` (Plaid makes the Item; its answer may be lost), `Check` (Plaid's list against the connections
there are), `Forget` or `Connect`; `Disconnect` (the row is locked), `RemoveAtPlaid`, `Disconnected`;
`ChooseAccounts`, `DeleteAccount`, `Reshare`, `Refresh`; `Die` anywhere.

| Run | Question | Bounds |
| --- | --- | --- |
| Books (`banks`) | Are two connections to one bank ever billed for the same account (`BilledOnce`)? Is every Item that is billed for kept, being made, or left (`NothingLeftBehind`)? | 2 people's logins at one bank with a joint account, 2 requests, 2 Items |
| Books (`choices`) | Is what somebody decided about ever listed as new (`NewAwaits`)? | 1 Item, 2 accounts |

**Proofs.** The last part of `BooksProofs` proves all three (`NoAccountBilledTwice`, `NoItemLeftBehind`,
`NewMeansUndecided`), for any number of requests, logins and Items. `BilledOnce` needs to
know of each bank being connected (`Making`) that no other request has its Item, that it isn't in the table yet, and
that the connections its check saw share no account with it but for those shared since; and of each one being removed
(`Removing`) that its row is locked by one request only. Each step is then shown to leave everything about the other
requests as it was (`Quiet`).

**What the properties allow.** Two requests that connect the same bank at the same moment both find nothing and both
are kept (`beside`, `plaid/connections.py:230`): the household pays twice until it removes one. When the commit that
keeps a new connection fails (`plaid/connections.py:265`), nothing gives its Item back to Plaid: that is one of the
ways of `Die`, and the Item is `left`.

## What is proved, what is checked and what is neither

Proved for every value of the constants: the types of `BankSync`, `BankLink`, `AlertDelivery`, `Household`,
`SignIn`, `SessionLife`, `Sorting`, `ExchangeRates`, `Recurring`, `Budgets`, `Imports` and `Assistant`, and

- `OneSyncAtATime`, `ImportedOrSkipped`, `MirrorsItsCursor`, `ChoicesSurvivePosting` (BankSync),
- `BalanceExplained`, `UndoPutsBackAtHome`, and that what a request has read stays true (Ledger),
- `BilledOnce`, `NothingLeftBehind`, `NewAwaits` (BankLink),
- `RepeatedOnlyWhenUnsure`, `SentHasArrived`, `OneAlertPerCrossing` (AlertDelivery),
- `AdminRemains`, `SetUpOnce`, `LinkWorksOnce`, and that Household implements `AdminRegister`,
- `UsedOnce`, `SignedOutEverywhere` (SignIn), `StaysSignedIn` (SessionLife),
- `ChoiceKept`, `DecidedOnce` (Sorting),
- `CodesMeanTheirRows`, and that Assistant implements `Decision` (Assistant),
- `SpanIsWhole`, `RightRate`, and that only rates of days that are over are kept (ExchangeRates),
- `IDsOnce`, `WholeFilesAddNothing` (Imports),
- `CaughtUp`, and that `due_dates` gives every due date and no other (Recurring),
- `CountsAsAsked`, `PastKeepsAmount`, `ViewsAgree`, and that every day is in one period (Budgets; with due dates, `CalendarRight`),

each by an inductive invariant that the module's section describes. Some of them rest on a constant that rules one
interleaving out: `LeaseHonoured`, `SyncsAlone`, `FirstAlone`, `LocksFresh`. Nothing in the code guarantees those;
each section says what happens without. What is proved of due dates and
periods holds in every calendar whose months have 28 to 31 days (`Ordered`), which Python's does. What a theorem asks
of a component's constants is its `Bounds`, which `MCPlanning` assumes too, so that TLC has found them true of the instance it checks.

Model-checked only:

- liveness under fairness (`EventuallyCaughtUp`, `ClaimIsReleased`, `EverythingIsTold`, `ReviewsEnd`), which is out of the prover's
  reach, as is ENABLED;
- `FilesReadRight`, which is about what text written in one of many ways is read as: a function of every line before, that
  only the inputs themselves tell anything of.

Not modelled, and why, is in the table of components in `PROJECT.json`. The reasons are three: text processing without
state (file formats, prompts, scrubbing, formatting); cryptography and protocols of libraries (WebAuthn, Argon2,
TOTP's hash); and parts that only read.

## Plan

The order was by what a household would lose: its transactions (BankSync, BankLink), its trust in being told
(AlertDelivery), its balances (Ledger), its own choices (Sorting), who may do what (Household, SignIn), and what is
worked out from the rest. What is left:

1. **A second request that saves automations** in `Sorting`: which automation wins when two that overlap are saved at
   once, and transactions that arrive while one is saved.
2. **Deadlocks as such**: moving a transaction against deleting it, and removing an account against a sync of its connection. `RollBack`
   stands for PostgreSQL's answer; how often a person meets it isn't asked.
3. **A specification of a connection as one atomic copy of the bank's account**, which `BankSync` implements when no account
   is imported again during a sync.
4. **Proofs**: what `CsvFiles` reads from a file of one way, by the least line read wrong.

Runs stay small enough to finish in a minute or two: two actors, one or two of each thing, and one misfortune, with
the argument in each section why that is enough.
