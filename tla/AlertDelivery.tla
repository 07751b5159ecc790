--------------------------- MODULE AlertDelivery ---------------------------
(***************************************************************************)
(* The household's alerts: what the sync worker finds worth telling at     *)
(* each tick, the large transactions that requests and syncs queue for it, *)
(* and the delivery of each alert through each channel, with failed sends  *)
(* retried and the worker dying or breaking anywhere.                      *)
(*                                                                         *)
(* Source: backend/app/alerts/service.py and worker.py, and the tick in    *)
(* plaid/worker.py that runs them.                                         *)
(*                                                                         *)
(* An alert is its event key: what it is about and which occurrence of it. *)
(* Texts, thresholds and amounts are abstracted to the conditions they     *)
(* decide.  Bills, subscriptions and budgets are alike: something due, or  *)
(* spent, in one of its periods.                                           *)
(***************************************************************************)
EXTENDS Naturals, Sequences

CONSTANTS
    Accounts,       \* whose balance may be low
    Payments,       \* bills, subscriptions and budgets
    Banks,          \* connections
    Txns,           \* transactions over the threshold when they are saved
    ChannelOrder,   \* the channels, in the order deliver_alert tries them
    MaxOccurs,      \* bound: crossings, periods and sync attempts of a subject
    MaxToggles,     \* bound: changes of the settings
    MaxUnsure       \* bound: sends that arrive although that isn't recorded,
                    \* and ticks that die or break

Channels == {ChannelOrder[i] : i \in 1..Len(ChannelOrder)}

ASSUME ChannelsAssumption == ChannelOrder \in Seq(Channels) \ {<<>>}
ASSUME BoundsAssumption == {MaxOccurs, MaxToggles, MaxUnsure} \subseteq Nat

Kinds == {"low_balance", "payment", "sync", "large_transaction"}
LowKey(a, n) == [kind |-> "low_balance", of |-> a, n |-> n]
PaymentKey(p, n) == [kind |-> "payment", of |-> p, n |-> n]
SyncKey(b, n) == [kind |-> "sync", of |-> b, n |-> n]
LargeKey(t) == [kind |-> "large_transaction", of |-> t, n |-> 0]

LowKeys == {LowKey(a, n) : a \in Accounts, n \in 0..MaxOccurs}
PaymentKeys == {PaymentKey(p, n) : p \in Payments, n \in 0..MaxOccurs}
SyncKeys == {SyncKey(b, n) : b \in Banks, n \in 0..MaxOccurs}
LargeKeys == {LargeKey(t) : t \in Txns}
Keys == LowKeys \cup PaymentKeys \cup SyncKeys \cup LargeKeys

VARIABLES
    \* What the alerts are about.
    balance,    \* each account: "fine", "low" or "gone" (deleted or closed)
    payment,    \* each payment's period, and whether it is to be told of now
    bank,       \* each connection's sync attempts, and how the last one went
    txn,        \* each transaction, up to its alert being queued
    \* The settings.
    enabled,    \* the kinds of alert that are on
    configured, \* the channels that are set up
    well,       \* the channels that accept messages
    \* The tables.
    state,      \* alert_states
    row,        \* alert_deliveries, by key and channel
    \* The worker.
    worker,
    \* History and bounds.
    crossed,    \* how often each balance became low while that alert was on
    received,   \* messages that arrived, by key and channel
    unsure,     \* those of them that were not recorded as sent
    toggles, misfortunes

subjectVars == <<balance, payment, bank, txn>>
settingVars == <<enabled, configured, well>>
countVars == <<crossed>>
sendVars == <<received, unsure>>
vars == <<subjectVars, settingVars, state, row, worker, countVars, sendVars,
          toggles, misfortunes>>

-----------------------------------------------------------------------------
(* Data                                                                    *)

\* A delivery row: queued and never tried, tried less than RETRY_AFTER ago,
\* tried longer ago, or sent.
Rows == {"none", "queued", "tried", "retry", "sent"}
Unsent == {"queued", "tried", "retry"}

NoState == [active |-> FALSE, episode |-> 0]
States == [active : BOOLEAN, episode : 0..MaxOccurs]

\* The worker: the notices or pending transactions still to deliver, the alert
\* in hand with the channels left to it, and what its channel answered.
Idle == [phase |-> "idle", todo |-> {}, key |-> {}, left |-> <<>>,
         config |-> {}, sending |-> "no"]
InHand(w) == w.key # {}
Workers == [phase : {"idle", "notices", "retrying"}, todo : SUBSET Keys,
            key : {{}} \cup {{k} : k \in Keys}, left : Seq(Channels),
            config : SUBSET Channels, sending : {"no", "asked", "accepted", "refused"}]

PaymentStates == [period : 0..MaxOccurs, due : BOOLEAN]
BankStates == [attempts : 0..MaxOccurs, health : {"well", "failing", "gone"}]

TypeOK ==
    /\ balance \in [Accounts -> {"fine", "low", "gone"}]
    /\ payment \in [Payments -> PaymentStates]
    /\ bank \in [Banks -> BankStates]
    /\ txn \in [Txns -> {"none", "saved", "kept", "small", "gone"}]
    /\ enabled \subseteq Kinds /\ configured \subseteq Channels /\ well \subseteq Channels
    /\ state \in [Accounts -> States]
    /\ row \in [Keys -> [Channels -> Rows]]
    /\ worker \in Workers
    /\ crossed \in [Accounts -> 0..MaxOccurs]
    /\ received \in [Keys -> [Channels -> Nat]]
    /\ unsure \in [Keys -> [Channels -> 0..MaxUnsure]]
    /\ toggles \in 0..MaxToggles /\ misfortunes \in 0..MaxUnsure

Init ==
    /\ balance = [a \in Accounts |-> "fine"]
    /\ payment = [p \in Payments |-> [period |-> 0, due |-> FALSE]]
    /\ bank = [b \in Banks |-> [attempts |-> 0, health |-> "well"]]
    /\ txn = [t \in Txns |-> "none"]
    /\ enabled = Kinds /\ configured = Channels /\ well = Channels
    /\ state = [a \in Accounts |-> NoState]
    /\ row = [k \in Keys |-> [c \in Channels |-> "none"]]
    /\ worker = Idle
    /\ crossed = [a \in Accounts |-> 0]
    /\ received = [k \in Keys |-> [c \in Channels |-> 0]]
    /\ unsure = [k \in Keys |-> [c \in Channels |-> 0]]
    /\ toggles = 0 /\ misfortunes = 0

-----------------------------------------------------------------------------
(* What happens in the household                                           *)

LowAnd(kinds, how) == "low_balance" \in kinds /\ how = "low"
IsLow(a) == LowAnd(enabled, balance[a])

\* How often an account's balance became low while that alert was on, after a
\* step to these settings and balances.
CrossedAfter(kinds, how) ==
    [a \in Accounts |-> IF ~IsLow(a) /\ LowAnd(kinds, how[a]) THEN crossed[a] + 1 ELSE crossed[a]]

\* Transactions and syncs move an account's balance across the threshold.
BalanceMoves(a) ==
    /\ \/ /\ balance[a] = "fine" /\ crossed[a] < MaxOccurs
          /\ balance' = [balance EXCEPT ![a] = "low"]
       \/ /\ balance[a] = "low"
          /\ balance' = [balance EXCEPT ![a] = "fine"]
       \/ /\ balance[a] # "gone"
          /\ balance' = [balance EXCEPT ![a] = "gone"]
    /\ crossed' = CrossedAfter(enabled, balance')
    /\ UNCHANGED <<payment, bank, txn, settingVars, state, row, worker, sendVars,
                   toggles, misfortunes>>

\* A due date comes near, or spending reaches the budget's share; then the next
\* period begins.
PaymentMoves(p) ==
    /\ \/ /\ ~payment[p].due
          /\ payment' = [payment EXCEPT ![p].due = TRUE]
       \/ /\ payment[p].due /\ payment[p].period < MaxOccurs
          /\ payment' = [payment EXCEPT ![p] = [period |-> @.period + 1, due |-> FALSE]]
    /\ UNCHANGED <<balance, bank, txn, settingVars, state, row, worker, countVars, sendVars,
                   toggles, misfortunes>>

\* A sync ends: _finish sets the status and last_attempt_at.
SyncEnds(b) ==
    /\ bank[b].health # "gone" /\ bank[b].attempts < MaxOccurs
    /\ \E health \in {"well", "failing"} :
        bank' = [bank EXCEPT ![b] = [attempts |-> @.attempts + 1, health |-> health]]
    /\ UNCHANGED <<balance, payment, txn, settingVars, state, row, worker, countVars, sendVars,
                   toggles, misfortunes>>

Disconnect(b) ==
    /\ bank[b].health # "gone"
    /\ bank' = [bank EXCEPT ![b].health = "gone"]
    /\ UNCHANGED <<balance, payment, txn, settingVars, state, row, worker, countVars, sendVars,
                   toggles, misfortunes>>

\* A request, an import or a sync commits a large transaction.
SaveTransaction(t) ==
    /\ txn[t] = "none"
    /\ txn' = [txn EXCEPT ![t] = "saved"]
    /\ UNCHANGED <<balance, payment, bank, settingVars, state, row, worker, countVars, sendVars,
                   toggles, misfortunes>>

\* enqueue_large_transactions, in a commit of its own after the one that saved
\* the transaction: a row for each channel that is set up by now.
Enqueue(t) ==
    /\ txn[t] = "saved"
    /\ txn' = [txn EXCEPT ![t] = "kept"]
    /\ row' = IF "large_transaction" \in enabled
              THEN [row EXCEPT ![LargeKey(t)] = [c \in Channels |->
                      IF c \in configured /\ @[c] = "none" THEN "queued" ELSE @[c]]]
              ELSE row
    /\ UNCHANGED <<balance, payment, bank, settingVars, state, worker, countVars, sendVars,
                   toggles, misfortunes>>

\* The process dies between the two commits.
DiesBeforeEnqueue(t) ==
    /\ txn[t] = "saved" /\ misfortunes < MaxUnsure
    /\ txn' = [txn EXCEPT ![t] = "kept"]
    /\ misfortunes' = misfortunes + 1
    /\ UNCHANGED <<balance, payment, bank, settingVars, state, row, worker, countVars, sendVars,
                   toggles>>

\* The transaction is changed to a small one, or deleted.
ChangeTransaction(t) ==
    /\ txn[t] \in {"kept", "small"}
    /\ \E next \in {"small", "gone"} \ {txn[t]} : txn' = [txn EXCEPT ![t] = next]
    /\ UNCHANGED <<balance, payment, bank, settingVars, state, row, worker, countVars, sendVars,
                   toggles, misfortunes>>

Flip(set, x) == IF x \in set THEN set \ {x} ELSE set \cup {x}

\* Settings > Alerts and > Preferences.
ChangeSettings ==
    /\ toggles < MaxToggles
    /\ toggles' = toggles + 1
    /\ \/ \E kind \in Kinds : enabled' = Flip(enabled, kind) /\ UNCHANGED configured
       \/ \E c \in Channels : configured' = Flip(configured, c) /\ UNCHANGED enabled
    /\ crossed' = CrossedAfter(enabled', balance)
    /\ crossed' \in [Accounts -> 0..MaxOccurs]
    /\ UNCHANGED <<subjectVars, well, state, row, worker, sendVars, misfortunes>>

ChannelFails(c) ==
    /\ c \in well /\ toggles < MaxToggles
    /\ well' = well \ {c} /\ toggles' = toggles + 1
    /\ UNCHANGED <<subjectVars, enabled, configured, state, row, worker, countVars, sendVars,
                   misfortunes>>

ChannelRecovers(c) ==
    /\ c \in Channels \ well
    /\ well' = well \cup {c}
    /\ UNCHANGED <<subjectVars, enabled, configured, state, row, worker, countVars, sendVars,
                   toggles, misfortunes>>

-----------------------------------------------------------------------------
(* The worker's tick                                                       *)

Wait(next) == worker' = next

\* A slip: an alert that was on keeps counting crossings.
StateAfterEachTick(a) ==
    IF IsLow(a) THEN [active |-> TRUE, episode |-> state[a].episode + 1]
    ELSE [state[a] EXCEPT !.active = FALSE]

\* low_balance_notices: a new episode only when the balance was not low before.
StateAfter(a) ==
    IF ~IsLow(a) THEN [state[a] EXCEPT !.active = FALSE]
    ELSE IF state[a].active THEN state[a]
    ELSE [active |-> TRUE, episode |-> state[a].episode + 1]

LowNotices == {LowKey(a, StateAfter(a).episode) : a \in {b \in Accounts : IsLow(b)}}
PaymentNotices ==
    IF "payment" \notin enabled THEN {}
    ELSE {PaymentKey(p, payment[p].period) : p \in {q \in Payments : payment[q].due}}
SyncNotices ==
    IF "sync" \notin enabled THEN {}
    ELSE {SyncKey(b, bank[b].attempts) : b \in {x \in Banks : bank[x].health = "failing"}}

\* run_alert_checks up to its commit.
Gather ==
    /\ worker.phase = "idle"
    /\ state' = [a \in Accounts |-> StateAfter(a)]
    /\ Wait([Idle EXCEPT !.phase = "notices", !.todo = LowNotices \cup PaymentNotices \cup SyncNotices])
    /\ UNCHANGED <<subjectVars, settingVars, row, countVars, sendVars, toggles, misfortunes>>

\* A slip: only what was never tried is taken for pending.
PendingNew == {k \in LargeKeys : \E c \in Channels : row[k][c] = "queued"}

\* retry_pending_large_transactions, once every notice was tried.
Pending == {k \in LargeKeys : \E c \in Channels : row[k][c] \in Unsent}
ReadPending ==
    /\ worker.phase = "notices" /\ worker.todo = {} /\ ~InHand(worker)
    /\ Wait([Idle EXCEPT !.phase = "retrying", !.todo = Pending])
    /\ UNCHANGED <<subjectVars, settingVars, state, row, countVars, sendVars, toggles, misfortunes>>

EndTick ==
    /\ worker.phase = "retrying" /\ worker.todo = {} /\ ~InHand(worker)
    /\ Wait(Idle)
    /\ UNCHANGED <<subjectVars, settingVars, state, row, countVars, sendVars, toggles, misfortunes>>

\* What deliver_large_transaction and deliver_alert check first.
StillWanted(k) ==
    /\ k.kind \in enabled
    /\ k.kind = "large_transaction" => txn[k.of] = "kept"

\* The next alert is taken in hand, with the channels as they are now.
TakeUp(k) ==
    /\ k \in worker.todo /\ ~InHand(worker)
    /\ Wait([worker EXCEPT !.todo = @ \ {k},
                           !.key = IF StillWanted(k) THEN {k} ELSE {},
                           !.left = IF StillWanted(k) THEN ChannelOrder ELSE <<>>,
                           !.config = IF StillWanted(k) THEN configured ELSE {}])
    /\ UNCHANGED <<subjectVars, settingVars, state, row, countVars, sendVars, toggles, misfortunes>>

\* The channel is done with: the next one, or the alert is.
Onward(w) ==
    IF Len(w.left) = 1
    THEN [w EXCEPT !.key = {}, !.left = <<>>, !.config = {}, !.sending = "no"]
    ELSE [w EXCEPT !.left = Tail(@), !.sending = "no"]

\* Mutants: a row that was sent is tried again, one that failed never is.
TriedAgain(config, c, status) == c \in config /\ status # "tried"
TriedOnce(config, c, status) == c \in config /\ status \in {"none", "queued"}

\* _deliver_channel's early returns.
ToTry(config, c, status) == c \in config /\ status \notin {"sent", "tried"}

\* The attempt is counted and committed before anything is sent.
StartChannel(k) ==
    /\ worker.key = {k} /\ worker.sending = "no"
    /\ LET c == Head(worker.left)
       IN  IF ToTry(worker.config, c, row[k][c])
           THEN /\ row' = [row EXCEPT ![k][c] = "tried"]
                /\ Wait([worker EXCEPT !.sending = "asked"])
           ELSE /\ Wait(Onward(worker))
                /\ UNCHANGED row
    /\ UNCHANGED <<subjectVars, settingVars, state, countVars, sendVars, toggles, misfortunes>>

\* The message goes out.  It may arrive although the answer that says so is
\* lost, which the code can't tell from a failure.
Send(k) ==
    /\ worker.key = {k} /\ worker.sending = "asked"
    /\ LET c == Head(worker.left)
       IN  \/ /\ c \in well
              /\ Wait([worker EXCEPT !.sending = "accepted"])
              /\ received' = [received EXCEPT ![k][c] = @ + 1]
              /\ UNCHANGED <<unsure, misfortunes>>
           \/ /\ c \in well /\ misfortunes < MaxUnsure
              /\ Wait([worker EXCEPT !.sending = "refused"])
              /\ received' = [received EXCEPT ![k][c] = @ + 1]
              /\ unsure' = [unsure EXCEPT ![k][c] = @ + 1]
              /\ misfortunes' = misfortunes + 1
           \/ /\ c \notin well
              /\ Wait([worker EXCEPT !.sending = "refused"])
              /\ UNCHANGED <<received, unsure, misfortunes>>
    /\ UNCHANGED <<subjectVars, settingVars, state, row, countVars, toggles>>

\* A slip: whatever the channel answered, the row is marked as sent.
RowAfterSent(status, answer) == "sent"

\* sent_at, or only last_error.
RowAfter(status, answer) == IF answer = "accepted" THEN "sent" ELSE status

Record(k) ==
    /\ worker.key = {k} /\ worker.sending \in {"accepted", "refused"}
    /\ LET c == Head(worker.left)
       IN  row' = [row EXCEPT ![k][c] = RowAfter(@, worker.sending)]
    /\ Wait(Onward(worker))
    /\ UNCHANGED <<subjectVars, settingVars, state, countVars, sendVars, toggles, misfortunes>>

\* The process is killed, or an exception nobody expected ends the tick: what
\* was committed stays, and serve() starts another tick.
TickDies ==
    /\ worker.phase # "idle" /\ misfortunes < MaxUnsure
    /\ misfortunes' = misfortunes + 1
    /\ unsure' = IF worker.sending = "accepted"
                 THEN [k \in Keys |-> [c \in Channels |->
                         IF worker.key = {k} /\ Head(worker.left) = c
                         THEN unsure[k][c] + 1 ELSE unsure[k][c]]]
                 ELSE unsure
    /\ Wait(Idle)
    /\ UNCHANGED <<subjectVars, settingVars, state, row, countVars, received, toggles>>

\* RETRY_AFTER passes since the last attempt.
RetryPasses(k, c) ==
    /\ row[k][c] = "tried"
    /\ row' = [row EXCEPT ![k][c] = "retry"]
    /\ UNCHANGED <<subjectVars, settingVars, state, worker, countVars, sendVars, toggles, misfortunes>>

-----------------------------------------------------------------------------
(* Specification                                                           *)

Household ==
    \/ \E a \in Accounts : BalanceMoves(a)
    \/ \E p \in Payments : PaymentMoves(p)
    \/ \E b \in Banks : SyncEnds(b) \/ Disconnect(b)
    \/ \E t \in Txns : SaveTransaction(t) \/ DiesBeforeEnqueue(t) \/ ChangeTransaction(t)
    \/ ChangeSettings
    \/ \E c \in Channels : ChannelFails(c)

WorkerStep ==
    \/ Gather \/ ReadPending \/ EndTick
    \/ \E k \in Keys : TakeUp(k) \/ StartChannel(k) \/ Send(k) \/ Record(k)

Next ==
    \/ Household \/ WorkerStep \/ TickDies
    \/ \E t \in Txns : Enqueue(t)
    \/ \E c \in Channels : ChannelRecovers(c)
    \/ \E k \in Keys, c \in Channels : RetryPasses(k, c)

Spec == Init /\ [][Next]_vars

\* The worker ticks on, a request that saved a transaction goes on to queue its
\* alert, time passes and a channel's trouble ends.
Fairness ==
    /\ WF_vars(WorkerStep)
    /\ \A t \in Txns : WF_vars(Enqueue(t))
    /\ \A c \in Channels : WF_vars(ChannelRecovers(c))
    /\ \A k \in Keys, c \in Channels : WF_vars(RetryPasses(k, c))

FairSpec == Spec /\ Fairness

-----------------------------------------------------------------------------
(* Properties                                                              *)

\* A message is repeated only when nobody could know that it had arrived: its
\* answer was lost, or the worker died before it could record it.
RepeatedOnlyWhenUnsure ==
    \A k \in Keys, c \in Channels : received[k][c] <= 1 + unsure[k][c]

\* Nothing is recorded as sent that never arrived, so nothing is given up that
\* should be retried.
SentHasArrived ==
    \A k \in Keys, c \in Channels : row[k][c] = "sent" => received[k][c] > 0

\* A low balance is told once each time it becomes low, however often it is
\* checked, the worker dies or the alert is turned off and on.
OneAlertPerCrossing ==
    \A a \in Accounts, n \in 0..MaxOccurs, c \in Channels :
        received[LowKey(a, n)][c] > 0 => n <= crossed[a]

\* A balance that stays low is told through every channel that stays set up,
\* whatever failed before.
LowBalanceIsTold ==
    \A a \in Accounts, c \in Channels :
        <>[](IsLow(a) /\ c \in configured)
        => <>[](state[a].active /\ received[LowKey(a, state[a].episode)][c] > 0)

\* A large transaction whose alert was queued is told, as long as it stays large
\* and its alert and channel stay on.
LargeTransactionIsTold ==
    \A t \in Txns, c \in Channels :
        <>[](/\ row[LargeKey(t)][c] # "none" /\ txn[t] = "kept"
             /\ "large_transaction" \in enabled /\ c \in configured)
        => <>(received[LargeKey(t)][c] > 0)
=============================================================================
