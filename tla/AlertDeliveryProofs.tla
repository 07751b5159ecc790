------------------------ MODULE AlertDeliveryProofs ------------------------
(***************************************************************************)
(* Proofs about AlertDelivery for any accounts, payments, connections,     *)
(* transactions and channels, and however often things go wrong: its types,*)
(* that a message is repeated only when nobody could know it had arrived,  *)
(* that nothing is marked as sent that did not, and that a low balance is  *)
(* told once each time it becomes low.                                     *)
(***************************************************************************)
EXTENDS AlertDelivery, SequenceTheorems, TLAPS

USE ChannelsAssumption, BoundsAssumption

\* The worker's alert in hand: it has a channel left, and only then is anything
\* being sent.
Shape ==
    /\ worker.key = {} => worker.sending = "no"
    /\ worker.key # {} => worker.left # <<>>
    /\ worker.phase = "idle" => worker.key = {} /\ worker.todo = {}

\* A message that arrived unrecorded is a misfortune of its own.
Bounded == \A k \in Keys, c \in Channels : unsure[k][c] <= misfortunes

\* Each episode is a crossing, and one that the worker has not seen yet is left
\* for the next.
Crossing == \A a \in Accounts :
    /\ state[a].episode <= crossed[a]
    /\ IsLow(a) /\ ~state[a].active => state[a].episode < crossed[a]

TypeInv == TypeOK /\ Shape /\ Bounded /\ Crossing

\* The message to this channel has arrived and its row does not say so yet.
InFlight(k, c) == worker.key = {k} /\ worker.sending = "accepted" /\ Head(worker.left) = c

\* A channel that was asked, or answered, is one whose row is not sent.
Asked == \A k \in Keys : worker.key = {k} /\ worker.sending # "no"
                         => row[k][Head(worker.left)] # "sent"

Counted == \A k \in Keys, c \in Channels :
    received[k][c] <= (IF row[k][c] = "sent" \/ InFlight(k, c) THEN 1 ELSE 0) + unsure[k][c]

Arrived == \A k \in Keys, c \in Channels :
    row[k][c] = "sent" \/ InFlight(k, c) => received[k][c] > 0

SendInv == Asked /\ Counted /\ Arrived

\* Only crossings that happened are noticed, delivered and told.
Told ==
    /\ \A a \in Accounts, n \in 0..MaxOccurs :
        /\ LowKey(a, n) \in worker.todo => n <= crossed[a]
        /\ worker.key = {LowKey(a, n)} => n <= crossed[a]
    /\ OneAlertPerCrossing

-----------------------------------------------------------------------------
(* Types                                                                   *)

LEMMA KeysHold ==
    /\ \A a \in Accounts, n \in 0..MaxOccurs : LowKey(a, n) \in Keys
    /\ \A p \in Payments, n \in 0..MaxOccurs : PaymentKey(p, n) \in Keys
    /\ \A b \in Banks, n \in 0..MaxOccurs : SyncKey(b, n) \in Keys
    /\ \A t \in Txns : LargeKey(t) \in Keys
BY DEF Keys, LowKeys, PaymentKeys, SyncKeys, LargeKeys

\* A table of tables stays one when one of its entries is replaced.
LEMMA EntryReplaced ==
    ASSUME NEW D, NEW E, NEW R, NEW f \in [D -> [E -> R]], NEW x \in D, NEW y \in E, NEW r \in R
    PROVE  [f EXCEPT ![x][y] = r] \in [D -> [E -> R]]
OBVIOUS

LEMMA WorkersAre ==
    ASSUME NEW phase \in {"idle", "notices", "retrying"}, NEW todo \in SUBSET Keys,
           NEW key \in {{}} \cup {{k} : k \in Keys}, NEW left \in Seq(Channels),
           NEW config \in SUBSET Channels, NEW sending \in {"no", "asked", "accepted", "refused"}
    PROVE  [phase |-> phase, todo |-> todo, key |-> key, left |-> left,
            config |-> config, sending |-> sending] \in Workers
BY DEF Workers

LEMMA OnwardTyped ==
    ASSUME NEW w \in Workers,
           w.left # <<>>
    PROVE  /\ Onward(w) \in Workers
           /\ Onward(w).sending = "no"
           /\ Onward(w).key # {} => Onward(w).left # <<>> /\ Onward(w).key = w.key
           /\ Onward(w).todo = w.todo /\ Onward(w).phase = w.phase
<1>1. CASE Len(w.left) = 1
  <2>1. Onward(w) = [w EXCEPT !.key = {}, !.left = <<>>, !.config = {}, !.sending = "no"]
    BY <1>1 DEF Onward
  <2>2. <<>> \in Seq(Channels)
    OBVIOUS
  <2>3. Onward(w) = [phase |-> w.phase, todo |-> w.todo, key |-> {}, left |-> <<>>,
                     config |-> {}, sending |-> "no"]
    BY <2>1 DEF Workers
  <2> QED
    <3>1. w.phase \in {"idle", "notices", "retrying"} /\ w.todo \in SUBSET Keys
      BY DEF Workers
    <3>2. [phase |-> w.phase, todo |-> w.todo, key |-> {}, left |-> <<>>,
           config |-> {}, sending |-> "no"] \in Workers
      BY <2>2, <3>1 DEF Workers
    <3> QED
      BY <2>3, <3>2
<1>2. CASE Len(w.left) # 1
  <2>1. Tail(w.left) \in Seq(Channels) /\ Tail(w.left) # <<>>
    <3>1. w.left \in Seq(Channels)
      BY DEF Workers
    <3>2. Tail(w.left) \in Seq(Channels) /\ Len(Tail(w.left)) = Len(w.left) - 1
      BY <3>1, HeadTailProperties
    <3>3. Len(w.left) \in Nat /\ Len(w.left) # 0
      BY <3>1, EmptySeq
    <3>4. Len(Tail(w.left)) # 0
      BY <1>2, <3>2, <3>3
    <3> QED
      BY <3>2, <3>4, EmptySeq
  <2> QED
    BY <1>2, <2>1 DEF Onward, Workers
<1> QED
  BY <1>1, <1>2

LEMMA InitTyped == Init => TypeInv
BY DEF Workers, PaymentStates, BankStates, Init, TypeInv, TypeOK, Shape, Bounded, Crossing, IsLow, LowAnd, Idle, NoState, States, Rows, Channels

LEMMA CrossedTyped ==
    ASSUME TypeInv, NEW kinds, NEW how,
           CrossedAfter(kinds, how) \in [Accounts -> 0..MaxOccurs],
           crossed' = CrossedAfter(kinds, how), kinds = enabled', how = balance',
           state' = state
    PROVE  Crossing'
BY DEF CrossedAfter, Crossing, IsLow, TypeInv, TypeOK, States

LEMMA HouseholdTyped == TypeInv /\ Household => TypeInv'
<1> SUFFICES ASSUME TypeInv, Household PROVE TypeInv'
  OBVIOUS
<1>1. ASSUME NEW a \in Accounts, BalanceMoves(a) PROVE TypeInv'
  <2>1. CrossedAfter(enabled, balance') \in [Accounts -> 0..MaxOccurs]
    BY <1>1 DEF TypeInv, TypeOK, BalanceMoves, CrossedAfter, LowAnd, IsLow
  <2>2. Crossing'
    BY <1>1, <2>1, CrossedTyped DEF BalanceMoves, settingVars
  <2>3. TypeOK'
    BY <1>1, <2>1 DEF TypeInv, TypeOK, BalanceMoves, settingVars, sendVars
  <2> QED
    BY <1>1, <2>2, <2>3 DEF TypeInv, Shape, Bounded, BalanceMoves, sendVars
<1>2. ASSUME NEW p \in Payments, PaymentMoves(p) PROVE TypeInv'
  <2>1. TypeOK'
    <3>1. payment' \in [Payments -> PaymentStates]
      <4>1. payment[p].period \in 0..MaxOccurs /\ payment[p] \in PaymentStates
        BY DEF TypeInv, TypeOK, PaymentStates
      <4>2. \E new \in PaymentStates : payment' = [payment EXCEPT ![p] = new]
        <5>1. CASE payment' = [payment EXCEPT ![p].due = TRUE]
          <6>1. [payment[p] EXCEPT !.due = TRUE] \in PaymentStates
            BY <4>1 DEF PaymentStates
          <6> QED
            BY <5>1, <6>1
        <5>2. CASE /\ payment[p].period < MaxOccurs
                   /\ payment' = [payment EXCEPT ![p] = [period |-> @.period + 1, due |-> FALSE]]
          <6>1. [period |-> payment[p].period + 1, due |-> FALSE] \in PaymentStates
            BY <4>1, <5>2 DEF PaymentStates
          <6> QED
            BY <5>2, <6>1
        <5> QED
          BY <1>2, <5>1, <5>2 DEF PaymentMoves
      <4> QED
        BY <4>2 DEF TypeInv, TypeOK
    <3> QED
      BY <1>2, <3>1 DEF TypeInv, TypeOK, PaymentMoves, settingVars, sendVars, countVars
  <2> QED
    BY <1>2, <2>1 DEF TypeInv, Shape, Bounded, Crossing, IsLow, PaymentMoves, sendVars, countVars, settingVars
<1>3. ASSUME NEW b \in Banks, SyncEnds(b) PROVE TypeInv'
  <2>1. PICK health \in {"well", "failing"} :
        bank' = [bank EXCEPT ![b] = [attempts |-> @.attempts + 1, health |-> health]]
    BY <1>3 DEF SyncEnds
  <2>2. TypeOK'
    <3>1. bank' \in [Banks -> BankStates]
      BY <1>3, <2>1 DEF TypeInv, TypeOK, SyncEnds, BankStates
    <3> QED
      BY <1>3, <3>1 DEF TypeInv, TypeOK, SyncEnds, settingVars, sendVars, countVars
  <2> QED
    BY <1>3, <2>2 DEF TypeInv, Shape, Bounded, Crossing, IsLow, SyncEnds, sendVars, countVars, settingVars
<1>4. ASSUME NEW b \in Banks, Disconnect(b) PROVE TypeInv'
  <2>1. TypeOK'
    <3>1. bank' \in [Banks -> BankStates]
      BY <1>4 DEF TypeInv, TypeOK, Disconnect, BankStates
    <3> QED
      BY <1>4, <3>1 DEF TypeInv, TypeOK, Disconnect, settingVars, sendVars, countVars
  <2> QED
    BY <1>4, <2>1 DEF TypeInv, Shape, Bounded, Crossing, IsLow, Disconnect, sendVars, countVars, settingVars
<1>5. ASSUME NEW t \in Txns, SaveTransaction(t) \/ DiesBeforeEnqueue(t) \/ ChangeTransaction(t)
      PROVE TypeInv'
  <2>1. UNCHANGED <<balance, payment, bank, settingVars, state, row, worker, countVars, sendVars, toggles>>
    BY <1>5 DEF SaveTransaction, DiesBeforeEnqueue, ChangeTransaction
  <2>2. misfortunes' \in 0..MaxUnsure /\ misfortunes <= misfortunes'
    BY <1>5 DEF TypeInv, TypeOK, SaveTransaction, DiesBeforeEnqueue, ChangeTransaction
  <2>3. txn' \in [Txns -> {"none", "saved", "kept", "small", "gone"}]
    <3>1. CASE SaveTransaction(t) \/ DiesBeforeEnqueue(t)
      BY <3>1 DEF TypeInv, TypeOK, SaveTransaction, DiesBeforeEnqueue
    <3>2. CASE ChangeTransaction(t)
      BY <3>2 DEF TypeInv, TypeOK, ChangeTransaction
    <3> QED
      BY <1>5, <3>1, <3>2
  <2>4. TypeOK'
    BY <2>1, <2>2, <2>3 DEF TypeInv, TypeOK, settingVars, sendVars, countVars
  <2>5. Bounded'
    BY <2>1, <2>2 DEF TypeInv, TypeOK, Bounded, sendVars
  <2> QED
    BY <2>1, <2>4, <2>5 DEF TypeInv, Shape, Crossing, IsLow, countVars, settingVars
<1>6. ASSUME ChangeSettings PROVE TypeInv'
  <2>1. Crossing'
    BY <1>6, CrossedTyped DEF ChangeSettings, subjectVars
  <2>2. TypeOK'
    BY <1>6 DEF TypeInv, TypeOK, ChangeSettings, Flip, subjectVars, sendVars
  <2> QED
    BY <1>6, <2>1, <2>2 DEF TypeInv, Shape, Bounded, ChangeSettings, sendVars
<1>7. ASSUME NEW c \in Channels, ChannelFails(c) PROVE TypeInv'
  <2>1. TypeOK'
    <3>1. well' \subseteq Channels /\ toggles' \in 0..MaxToggles
      BY <1>7 DEF TypeInv, TypeOK, ChannelFails
    <3> QED
      BY <1>7, <3>1 DEF TypeInv, TypeOK, ChannelFails, subjectVars, sendVars, countVars
  <2> QED
    BY <1>7, <2>1 DEF TypeInv, Shape, Bounded, Crossing, IsLow, ChannelFails, subjectVars, sendVars, countVars
<1> QED
  BY <1>1, <1>2, <1>3, <1>4, <1>5, <1>6, <1>7 DEF Household

LEMMA WorkerTyped == TypeInv /\ WorkerStep => TypeInv'
<1> SUFFICES ASSUME TypeInv, WorkerStep PROVE TypeInv'
  OBVIOUS
<1> USE DEF TypeInv
<1>1. ASSUME Gather PROVE TypeInv'
  <2>1. \A a \in Accounts : StateAfter(a) \in States /\ StateAfter(a).episode <= crossed[a]
    <3> SUFFICES ASSUME NEW a \in Accounts
                 PROVE  StateAfter(a) \in States /\ StateAfter(a).episode <= crossed[a]
      OBVIOUS
    <3>1. /\ state[a] \in States /\ state[a].episode \in Nat /\ crossed[a] \in 0..MaxOccurs
          /\ state[a].active \in BOOLEAN /\ state[a].episode <= crossed[a]
      BY DEF TypeOK, States, Crossing
    <3>2. CASE IsLow(a) /\ ~state[a].active
      BY <3>1, <3>2 DEF StateAfter, States, Crossing
    <3>3. CASE ~(IsLow(a) /\ ~state[a].active)
      BY <3>1, <3>3 DEF StateAfter, States
    <3> QED
      BY <3>2, <3>3
  <2>2. LowNotices \cup PaymentNotices \cup SyncNotices \subseteq Keys
    <3>1. LowNotices \subseteq Keys
      BY <2>1, KeysHold DEF LowNotices, States
    <3>2. PaymentNotices \subseteq Keys
      BY KeysHold DEF PaymentNotices, TypeOK, PaymentStates
    <3>3. SyncNotices \subseteq Keys
      BY KeysHold DEF SyncNotices, TypeOK, BankStates
    <3> QED
      BY <3>1, <3>2, <3>3
  <2>3. worker' \in Workers
        /\ worker'.key = {} /\ worker'.sending = "no" /\ worker'.phase # "idle"
    <3>1. worker' = [phase |-> "notices", todo |-> LowNotices \cup PaymentNotices \cup SyncNotices,
                     key |-> {}, left |-> <<>>, config |-> {}, sending |-> "no"]
      BY <1>1 DEF Gather, Wait, Idle
    <3>2. <<>> \in Seq(Channels)
      OBVIOUS
    <3>3. worker' \in Workers
      BY <2>2, <3>1, <3>2, WorkersAre
    <3> QED
      BY <3>1, <3>3
  <2>4. TypeOK'
    BY <1>1, <2>1, <2>3 DEF TypeOK, Gather, subjectVars, settingVars, sendVars, countVars
  <2>5. Crossing'
    BY <1>1, <2>1 DEF Crossing, Gather, IsLow, StateAfter, subjectVars, settingVars, countVars, TypeOK, States
  <2> QED
    BY <1>1, <2>3, <2>4, <2>5 DEF Shape, Bounded, Gather, sendVars
<1>2. ASSUME ReadPending PROVE TypeInv'
  <2>1. Pending \subseteq Keys
    BY DEF Pending, Keys
  <2>2. worker' \in Workers
        /\ worker'.key = {} /\ worker'.sending = "no" /\ worker'.phase # "idle"
    <3>1. worker' = [phase |-> "retrying", todo |-> Pending,
                     key |-> {}, left |-> <<>>, config |-> {}, sending |-> "no"]
      BY <1>2 DEF ReadPending, Wait, Idle
    <3>2. <<>> \in Seq(Channels)
      OBVIOUS
    <3>3. worker' \in Workers
      BY <2>1, <3>1, <3>2, WorkersAre
    <3> QED
      BY <3>1, <3>3
  <2>3. TypeOK'
    BY <1>2, <2>2 DEF TypeOK, ReadPending, subjectVars, settingVars, sendVars, countVars
  <2> QED
    BY <1>2, <2>2, <2>3 DEF Shape, Bounded, Crossing, IsLow, ReadPending, subjectVars, settingVars, sendVars, countVars
<1>3. ASSUME EndTick PROVE TypeInv'
  <2>1. TypeOK' /\ worker'.key = {} /\ worker'.sending = "no" /\ worker'.todo = {}
    BY <1>3 DEF TypeOK, EndTick, Wait, Idle, Workers, subjectVars, settingVars, sendVars, countVars
  <2> QED
    BY <1>3, <2>1 DEF Shape, Bounded, Crossing, IsLow, EndTick, subjectVars, settingVars, sendVars, countVars
<1>4. ASSUME NEW k \in Keys, TakeUp(k) PROVE TypeInv'
  <2>1. worker' \in Workers
        /\ worker'.sending = "no" /\ (worker'.key # {} => worker'.left # <<>>)
        /\ worker'.phase # "idle"
    <3>1. /\ worker \in Workers /\ worker.key = {} /\ worker.sending = "no" /\ worker.phase # "idle"
          /\ configured \in SUBSET Channels
      BY <1>4 DEF TakeUp, TypeOK, Shape, InHand
    <3>2. ChannelOrder \in Seq(Channels) /\ ChannelOrder # <<>> /\ <<>> \in Seq(Channels)
      OBVIOUS
    <3>3. CASE StillWanted(k)
      <4>1. worker' = [worker EXCEPT !.todo = @ \ {k}, !.key = {k}, !.left = ChannelOrder, !.config = configured]
        BY <1>4, <3>3 DEF TakeUp, Wait
      <4> QED
        BY <3>1, <3>2, <4>1 DEF Workers
    <3>4. CASE ~StillWanted(k)
      <4>1. worker' = [worker EXCEPT !.todo = @ \ {k}, !.key = {}, !.left = <<>>, !.config = {}]
        BY <1>4, <3>4 DEF TakeUp, Wait
      <4> QED
        BY <3>1, <3>2, <4>1 DEF Workers
    <3> QED
      BY <3>3, <3>4
  <2>2. TypeOK'
    BY <1>4, <2>1 DEF TypeOK, TakeUp, subjectVars, settingVars, sendVars, countVars
  <2> QED
    BY <1>4, <2>1, <2>2 DEF Shape, Bounded, Crossing, IsLow, TakeUp, subjectVars, settingVars, sendVars, countVars
<1>5. ASSUME NEW k \in Keys, StartChannel(k) PROVE TypeInv'
  <2> DEFINE c == Head(worker.left)
  <2>1. worker.left # <<>> /\ c \in Channels
    <3>1. worker.key # {}
      BY <1>5 DEF StartChannel
    <3>2. worker.left \in Seq(Channels) /\ worker.left # <<>>
      BY <3>1 DEF Shape, TypeOK, Workers
    <3> QED
      BY <3>2, HeadTailProperties
  <2>2. CASE ToTry(worker.config, c, row[k][c])
    <3>1. row' = [row EXCEPT ![k][c] = "tried"] /\ worker' = [worker EXCEPT !.sending = "asked"]
      BY <1>5, <2>2 DEF StartChannel, Wait
    <3>2. TypeOK'
      BY <1>5, <2>1, <3>1 DEF TypeOK, Rows, Workers, StartChannel, subjectVars, settingVars, sendVars, countVars
    <3>3. Shape'
      BY <1>5, <2>1, <3>1 DEF Shape, StartChannel, TypeOK, Workers
    <3> QED
      BY <1>5, <3>2, <3>3 DEF Bounded, Crossing, IsLow, StartChannel, subjectVars, settingVars, sendVars, countVars
  <2>3. CASE ~ToTry(worker.config, c, row[k][c])
    <3>1. row' = row /\ worker' = Onward(worker)
      BY <1>5, <2>3 DEF StartChannel, Wait
    <3>2. TypeOK' /\ Shape'
      BY <1>5, <2>1, <3>1, OnwardTyped DEF TypeOK, Shape, StartChannel, subjectVars, settingVars, sendVars, countVars
    <3> QED
      BY <1>5, <3>2 DEF Bounded, Crossing, IsLow, StartChannel, subjectVars, settingVars, sendVars, countVars
  <2> QED
    BY <2>2, <2>3
<1>6. ASSUME NEW k \in Keys, Send(k) PROVE TypeInv'
  <2> DEFINE c == Head(worker.left)
  <2>1. worker.left # <<>> /\ c \in Channels
    <3>1. worker.key # {}
      BY <1>6 DEF Send
    <3>2. worker.left \in Seq(Channels) /\ worker.left # <<>>
      BY <3>1 DEF Shape, TypeOK, Workers
    <3> QED
      BY <3>2, HeadTailProperties
  <2>2. Shape' /\ worker' \in Workers
    BY <1>6, <2>1 DEF Shape, Send, Wait, TypeOK, Workers
  <2>3. /\ received' \in [Keys -> [Channels -> Nat]] /\ misfortunes' \in 0..MaxUnsure
        /\ unsure' \in [Keys -> [Channels -> 0..MaxUnsure]] /\ Bounded'
    <3>1. CASE UNCHANGED <<unsure, misfortunes>>
      <4>1. UNCHANGED received \/ received' = [received EXCEPT ![k][c] = @ + 1]
        BY <1>6 DEF Send
      <4> QED
        <5>1. received' \in [Keys -> [Channels -> Nat]]
          <6>1. received \in [Keys -> [Channels -> Nat]] /\ received[k][c] + 1 \in Nat
            BY <2>1 DEF TypeOK
          <6> HIDE DEF c
          <6>2. CASE UNCHANGED received
            BY <6>1, <6>2
          <6>3. CASE received' = [received EXCEPT ![k][c] = @ + 1]
            <7>1. received' = [received EXCEPT ![k][c] = received[k][c] + 1]
              BY <6>3
            <7> QED
              BY <2>1, <6>1, <7>1, EntryReplaced
          <6> QED
            BY <4>1, <6>2, <6>3
        <5> QED
          BY <3>1, <5>1 DEF TypeOK, Bounded
    <3>2. CASE /\ misfortunes < MaxUnsure /\ misfortunes' = misfortunes + 1
               /\ received' = [received EXCEPT ![k][c] = @ + 1]
               /\ unsure' = [unsure EXCEPT ![k][c] = @ + 1]
      <4>1. unsure[k][c] \in 0..MaxUnsure /\ unsure[k][c] <= misfortunes
        BY <2>1 DEF TypeOK, Bounded
      <4>2. unsure[k][c] + 1 \in 0..MaxUnsure
        <5>1. misfortunes \in 0..MaxUnsure
          BY DEF TypeOK
        <5> HIDE DEF c
        <5> QED
          BY <3>2, <4>1, <5>1
      <4>3. unsure' \in [Keys -> [Channels -> 0..MaxUnsure]]
        <5>1. unsure' = [unsure EXCEPT ![k][c] = unsure[k][c] + 1]
          BY <3>2
        <5>2. unsure \in [Keys -> [Channels -> 0..MaxUnsure]]
          BY DEF TypeOK
        <5> HIDE DEF c
        <5> QED
          BY <2>1, <4>2, <5>1, <5>2, EntryReplaced
      <4>4. received' \in [Keys -> [Channels -> Nat]]
        <5>1. received' = [received EXCEPT ![k][c] = received[k][c] + 1]
          BY <3>2
        <5>2. received \in [Keys -> [Channels -> Nat]] /\ received[k][c] + 1 \in Nat
          BY <2>1 DEF TypeOK
        <5> HIDE DEF c
        <5> QED
          BY <2>1, <5>1, <5>2, EntryReplaced
      <4>5. Bounded'
        <5>1. \A x \in Keys, d \in Channels : unsure[x][d] \in Nat /\ unsure[x][d] <= misfortunes
          BY DEF TypeOK, Bounded
        <5>2. \A x \in Keys, d \in Channels : unsure'[x][d] = unsure[x][d] \/ unsure'[x][d] = unsure[x][d] + 1
          BY <2>1, <3>2 DEF TypeOK
        <5>3. misfortunes \in Nat /\ misfortunes' = misfortunes + 1
          BY <3>2 DEF TypeOK
        <5>4. \A x \in Keys, d \in Channels : unsure'[x][d] <= misfortunes'
          BY <5>1, <5>2, <5>3
        <5> QED
          BY <5>4 DEF Bounded
      <4>6. misfortunes' \in 0..MaxUnsure
        <5>1. misfortunes \in 0..MaxUnsure
          BY DEF TypeOK
        <5> HIDE DEF c
        <5> QED
          BY <3>2, <5>1
      <4> QED
        BY <4>3, <4>4, <4>5, <4>6
    <3> QED
      BY <1>6, <3>1, <3>2 DEF Send
  <2>4. TypeOK'
    BY <1>6, <2>2, <2>3 DEF TypeOK, Send, subjectVars, settingVars, countVars
  <2> QED
    BY <1>6, <2>2, <2>3, <2>4 DEF Crossing, IsLow, Send, subjectVars, settingVars, countVars
<1>7. ASSUME NEW k \in Keys, Record(k) PROVE TypeInv'
  <2> DEFINE c == Head(worker.left)
  <2>1. worker.left # <<>> /\ c \in Channels
    <3>1. worker.key # {}
      BY <1>7 DEF Record
    <3>2. worker.left \in Seq(Channels) /\ worker.left # <<>>
      BY <3>1 DEF Shape, TypeOK, Workers
    <3> QED
      BY <3>2, HeadTailProperties
  <2>2. row' = [row EXCEPT ![k][c] = RowAfter(row[k][c], worker.sending)] /\ worker' = Onward(worker)
    BY <1>7 DEF Record, Wait
  <2>3. TypeOK' /\ Shape'
    <3>1. RowAfter(row[k][c], worker.sending) \in Rows
      BY <2>1 DEF TypeOK, Rows, RowAfter
    <3>2. row' \in [Keys -> [Channels -> Rows]]
      <4>1. row \in [Keys -> [Channels -> Rows]]
        BY DEF TypeOK
      <4> HIDE DEF c
      <4> QED
        BY <2>1, <2>2, <3>1, <4>1, EntryReplaced
    <3>3. worker' \in Workers /\ Shape'
      BY <2>1, <2>2, OnwardTyped DEF TypeOK, Shape
    <3> QED
      BY <1>7, <3>2, <3>3 DEF TypeOK, Record, subjectVars, settingVars, sendVars, countVars
  <2> QED
    BY <1>7, <2>3 DEF Bounded, Crossing, IsLow, Record, subjectVars, settingVars, sendVars, countVars
<1> QED
  BY <1>1, <1>2, <1>3, <1>4, <1>5, <1>6, <1>7 DEF WorkerStep

LEMMA OtherTyped ==
    ASSUME TypeInv,
           \/ TickDies
           \/ \E t \in Txns : Enqueue(t)
           \/ \E c \in Channels : ChannelRecovers(c)
           \/ \E k \in Keys, c \in Channels : RetryPasses(k, c)
           \/ UNCHANGED vars
    PROVE  TypeInv'
<1> USE DEF TypeInv
<1>1. ASSUME TickDies PROVE TypeInv'
  <2>1. /\ unsure' \in [Keys -> [Channels -> 0..MaxUnsure]] /\ misfortunes' \in 0..MaxUnsure
        /\ Bounded'
    <3>1. misfortunes' = misfortunes + 1 /\ misfortunes < MaxUnsure
      BY <1>1 DEF TickDies
    <3>2. CASE unsure' = unsure
      BY <3>1, <3>2 DEF TypeOK, Bounded
    <3>3. CASE unsure' = [k \in Keys |-> [c \in Channels |->
                         IF worker.key = {k} /\ Head(worker.left) = c
                         THEN unsure[k][c] + 1 ELSE unsure[k][c]]]
      <4>1. \A k \in Keys, c \in Channels :
               unsure[k][c] \in 0..MaxUnsure /\ unsure[k][c] <= misfortunes
        BY DEF TypeOK, Bounded
      <4>2. \A k \in Keys, c \in Channels : unsure'[k][c] \in {unsure[k][c], unsure[k][c] + 1}
        BY <3>3
      <4>3. misfortunes \in Nat
        BY DEF TypeOK
      <4>4. \A k \in Keys, c \in Channels : unsure'[k][c] \in 0..MaxUnsure /\ unsure'[k][c] <= misfortunes'
        <5> SUFFICES ASSUME NEW k \in Keys, NEW c \in Channels
                     PROVE  unsure'[k][c] \in 0..MaxUnsure /\ unsure'[k][c] <= misfortunes'
          OBVIOUS
        <5>1. unsure'[k][c] = unsure[k][c] \/ unsure'[k][c] = unsure[k][c] + 1
          BY <4>2
        <5> QED
          BY <3>1, <4>1, <4>3, <5>1
      <4> QED
        BY <3>1, <3>3, <4>3, <4>4 DEF Bounded
    <3> QED
      BY <1>1, <3>2, <3>3 DEF TickDies
  <2>2. TypeOK' /\ Shape'
    <3>1. worker' = Idle
      BY <1>1 DEF TickDies, Wait
    <3>2. <<>> \in Seq(Channels)
      OBVIOUS
    <3>3. Idle \in Workers
      BY <3>2, WorkersAre DEF Idle
    <3>4. TypeOK'
      BY <1>1, <2>1, <3>1, <3>3 DEF TypeOK, TickDies, subjectVars, settingVars, countVars
    <3> QED
      BY <3>1, <3>4 DEF Shape, Idle
  <2> QED
    BY <1>1, <2>1, <2>2 DEF Crossing, IsLow, TickDies, subjectVars, settingVars, countVars
<1>2. ASSUME NEW t \in Txns, Enqueue(t) PROVE TypeInv'
  <2>1. row' \in [Keys -> [Channels -> Rows]]
    <3>1. LargeKey(t) \in Keys
      BY KeysHold
    <3>2. \A c \in Channels : row[LargeKey(t)][c] \in Rows
      BY <3>1 DEF TypeOK
    <3>3. CASE row' = row
      BY <3>3 DEF TypeOK
    <3>4. CASE row' = [row EXCEPT ![LargeKey(t)] = [c \in Channels |->
                 IF c \in configured /\ @[c] = "none" THEN "queued" ELSE @[c]]]
      BY <3>1, <3>2, <3>4 DEF TypeOK, Rows
    <3> QED
      BY <1>2, <3>3, <3>4 DEF Enqueue
  <2>2. TypeOK'
    BY <1>2, <2>1 DEF TypeOK, Enqueue, settingVars, sendVars, countVars
  <2> QED
    BY <1>2, <2>2 DEF Shape, Bounded, Crossing, IsLow, Enqueue, settingVars, sendVars, countVars
<1>3. ASSUME NEW c \in Channels, ChannelRecovers(c) PROVE TypeInv'
  <2>1. TypeOK'
    BY <1>3 DEF TypeOK, ChannelRecovers, subjectVars, sendVars, countVars
  <2> QED
    BY <1>3, <2>1 DEF Shape, Bounded, Crossing, IsLow, ChannelRecovers, subjectVars, sendVars, countVars
<1>4. ASSUME NEW k \in Keys, NEW c \in Channels, RetryPasses(k, c) PROVE TypeInv'
  <2>1. row' \in [Keys -> [Channels -> Rows]]
    BY <1>4 DEF RetryPasses, TypeOK, Rows
  <2>2. TypeOK'
    BY <1>4, <2>1 DEF TypeOK, RetryPasses, subjectVars, settingVars, sendVars, countVars
  <2> QED
    BY <1>4, <2>2 DEF Shape, Bounded, Crossing, IsLow, RetryPasses, subjectVars, settingVars, sendVars, countVars
<1>5. ASSUME UNCHANGED vars PROVE TypeInv'
  BY <1>5 DEF TypeOK, Shape, Bounded, Crossing, IsLow, vars, subjectVars, settingVars, sendVars, countVars
<1> QED
  BY <1>1, <1>2, <1>3, <1>4, <1>5

LEMMA StepTyped == TypeInv /\ [Next]_vars => TypeInv'
BY HouseholdTyped, WorkerTyped, OtherTyped DEF Next

\* Every reachable state is well typed.
THEOREM TypeCorrect == Spec => []TypeOK
<1>1. TypeInv => TypeOK
  BY DEF TypeInv
<1> QED
  BY InitTyped, StepTyped, <1>1, PTL DEF Spec

-----------------------------------------------------------------------------
(* What arrives and what is recorded                                       *)

LEMMA SameSends ==
    ASSUME SendInv, UNCHANGED <<received, unsure>>,
           \A k \in Keys, c \in Channels : row'[k][c] = "sent" <=> row[k][c] = "sent",
           worker.key # {} => Head(worker.left) \in Channels,
           UNCHANGED worker
    PROVE  SendInv'
<1>1. Asked'
  BY DEF SendInv, Asked
<1>2. Counted'
  BY DEF SendInv, Counted, InFlight
<1>3. Arrived'
  BY DEF SendInv, Arrived, InFlight
<1> QED
  BY <1>1, <1>2, <1>3 DEF SendInv

LEMMA NothingInFlight ==
    ASSUME SendInv, UNCHANGED <<row, received, unsure>>,
           worker.sending # "accepted", worker'.sending = "no"
    PROVE  SendInv'
BY DEF SendInv, Asked, Counted, Arrived, InFlight

LEMMA HeadTyped == TypeInv /\ worker.key # {} => Head(worker.left) \in Channels
<1> SUFFICES ASSUME TypeInv, worker.key # {} PROVE Head(worker.left) \in Channels
  OBVIOUS
<1>1. worker.left \in Seq(Channels) /\ worker.left # <<>>
  BY DEF TypeInv, TypeOK, Shape, Workers
<1> QED
  BY <1>1, HeadTailProperties

LEMMA OthersSend ==
    ASSUME TypeInv, SendInv,
           \/ Household
           \/ \E t \in Txns : Enqueue(t)
           \/ \E c \in Channels : ChannelRecovers(c)
           \/ \E k \in Keys, c \in Channels : RetryPasses(k, c)
           \/ UNCHANGED vars
    PROVE  SendInv'
<1>1. UNCHANGED <<worker, received, unsure>>
  BY DEF Household, BalanceMoves, PaymentMoves, SyncEnds, Disconnect, SaveTransaction, DiesBeforeEnqueue,
         ChangeTransaction, ChangeSettings, ChannelFails, Enqueue, ChannelRecovers, RetryPasses, vars, sendVars
<1>2. \A k \in Keys, c \in Channels : row'[k][c] = "sent" <=> row[k][c] = "sent"
  <2>1. CASE UNCHANGED row
    BY <2>1
  <2>2. ASSUME NEW t \in Txns, Enqueue(t) PROVE <1>2
    <3>1. row \in [Keys -> [Channels -> Rows]] /\ LargeKey(t) \in Keys
      BY KeysHold DEF TypeInv, TypeOK
    <3>2. CASE row' = [row EXCEPT ![LargeKey(t)] = [c \in Channels |->
                 IF c \in configured /\ @[c] = "none" THEN "queued" ELSE @[c]]]
      BY <3>1, <3>2
    <3> QED
      BY <2>1, <2>2, <3>2 DEF Enqueue
  <2>3. ASSUME NEW x \in Keys, NEW d \in Channels, RetryPasses(x, d) PROVE <1>2
    BY <2>3 DEF RetryPasses, TypeInv, TypeOK
  <2>4. Household \/ (\E c \in Channels : ChannelRecovers(c)) \/ UNCHANGED vars => UNCHANGED row
    BY DEF Household, BalanceMoves, PaymentMoves, SyncEnds, Disconnect, SaveTransaction, DiesBeforeEnqueue,
           ChangeTransaction, ChangeSettings, ChannelFails, ChannelRecovers, vars
  <2> QED
    BY <2>1, <2>2, <2>3, <2>4
<1> QED
  BY <1>1, <1>2, SameSends, HeadTyped

LEMMA WorkerSends == TypeInv /\ SendInv /\ WorkerStep => SendInv'
<1> SUFFICES ASSUME TypeInv, SendInv, WorkerStep PROVE SendInv'
  OBVIOUS
<1>0. worker.sending \in {"no", "asked", "accepted", "refused"} /\ row \in [Keys -> [Channels -> Rows]]
      /\ received \in [Keys -> [Channels -> Nat]] /\ unsure \in [Keys -> [Channels -> 0..MaxUnsure]]
  BY DEF TypeInv, TypeOK, Workers
<1>1. ASSUME Gather \/ ReadPending \/ EndTick PROVE SendInv'
  <2>1. worker.sending = "no" /\ worker'.sending = "no"
    <3>1. worker.key = {}
      BY <1>1 DEF Gather, ReadPending, EndTick, TypeInv, Shape, InHand
    <3>2. worker'.sending = "no"
      <4>1. CASE Gather
        BY <4>1 DEF Gather, Wait, Idle
      <4>2. CASE ReadPending
        BY <4>2 DEF ReadPending, Wait, Idle
      <4>3. CASE EndTick
        BY <4>3 DEF EndTick, Wait, Idle
      <4> QED
        BY <1>1, <4>1, <4>2, <4>3
    <3> QED
      BY <3>1, <3>2 DEF TypeInv, Shape
  <2>2. UNCHANGED <<row, received, unsure>>
    BY <1>1 DEF Gather, ReadPending, EndTick, sendVars
  <2> QED
    BY <2>1, <2>2, NothingInFlight
<1>2. ASSUME NEW k \in Keys, TakeUp(k) PROVE SendInv'
  <2>1. worker.sending = "no" /\ worker'.sending = "no"
    BY <1>2 DEF TakeUp, TypeInv, TypeOK, Workers, Shape, InHand, Wait
  <2>2. UNCHANGED <<row, received, unsure>>
    BY <1>2 DEF TakeUp, sendVars
  <2> QED
    BY <2>1, <2>2, NothingInFlight
<1>3. ASSUME NEW k \in Keys, StartChannel(k) PROVE SendInv'
  <2> DEFINE c == Head(worker.left)
  <2>1. c \in Channels /\ worker.left # <<>> /\ worker.key = {k} /\ worker.sending = "no"
    BY <1>3, HeadTyped DEF StartChannel, TypeInv, Shape
  <2>2. CASE ToTry(worker.config, c, row[k][c])
    <3>1. /\ row' = [row EXCEPT ![k][c] = "tried"] /\ worker' = [worker EXCEPT !.sending = "asked"]
          /\ UNCHANGED <<received, unsure>>
      BY <1>3, <2>2 DEF StartChannel, Wait, sendVars
    <3>2. worker'.key = {k} /\ worker'.sending = "asked" /\ worker'.left = worker.left
      BY <2>1, <3>1 DEF TypeInv, TypeOK, Workers
    <3>3. \A x \in Keys, d \in Channels : row'[x][d] = "sent" <=> row[x][d] = "sent"
      BY <1>0, <2>1, <2>2, <3>1 DEF ToTry
    <3>4. row'[k][c] = "tried"
      BY <1>0, <2>1, <3>1
    <3>5. Asked'
      BY <3>2, <3>4 DEF Asked
    <3>6. Counted' /\ Arrived'
      BY <2>1, <3>1, <3>2, <3>3 DEF SendInv, Counted, Arrived, InFlight
    <3> QED
      BY <3>5, <3>6 DEF SendInv
  <2>3. CASE ~ToTry(worker.config, c, row[k][c])
    <3>1. worker' = Onward(worker) /\ UNCHANGED <<row, received, unsure>>
      BY <1>3, <2>3 DEF StartChannel, Wait, sendVars
    <3>2. worker'.sending = "no"
      BY <2>1, <3>1, OnwardTyped DEF TypeInv, TypeOK
    <3> QED
      BY <2>1, <3>1, <3>2, NothingInFlight
  <2> QED
    BY <2>2, <2>3
<1>4. ASSUME NEW k \in Keys, Send(k) PROVE SendInv'
  <2> DEFINE c == Head(worker.left)
  <2>1. c \in Channels /\ worker.key = {k} /\ worker.sending = "asked" /\ UNCHANGED row
    BY <1>4, HeadTyped DEF Send
  <2>2. row[k][c] # "sent" /\ \A x \in Keys, d \in Channels : ~InFlight(x, d)
    BY <2>1 DEF SendInv, Asked, InFlight
  <2>3. worker'.key = {k} /\ worker'.left = worker.left /\ worker'.sending \in {"accepted", "refused"}
    BY <1>4, <2>1 DEF Send, Wait, TypeInv, TypeOK, Workers
  <2>4. Asked'
    BY <2>1, <2>2, <2>3 DEF Asked
  <2>5. received[k][c] \in Nat /\ unsure[k][c] \in Nat /\ received[k][c] <= unsure[k][c]
    BY <1>0, <2>1, <2>2 DEF SendInv, Counted
  <2>6. CASE /\ worker' = [worker EXCEPT !.sending = "accepted"]
             /\ received' = [received EXCEPT ![k][c] = @ + 1] /\ UNCHANGED unsure
    <3>1. received'[k][c] = received[k][c] + 1
          /\ \A x \in Keys, d \in Channels : <<x, d>> # <<k, c>> => received'[x][d] = received[x][d]
      BY <1>0, <2>1, <2>6
    <3>2. worker'.sending = "accepted"
      BY <2>6 DEF TypeInv, TypeOK, Workers
    <3>3. \A x \in Keys, d \in Channels : InFlight(x, d)' <=> x = k /\ d = c
      BY <2>3, <3>2 DEF InFlight
    <3> HIDE DEF c
    <3>4. Counted'
      BY <2>1, <2>2, <2>5, <2>6, <3>1, <3>3 DEF SendInv, Counted
    <3>5. Arrived'
      BY <2>1, <2>2, <2>5, <3>1, <3>3 DEF SendInv, Arrived
    <3> QED
      BY <2>4, <3>4, <3>5 DEF SendInv
  <2>7. CASE /\ worker' = [worker EXCEPT !.sending = "refused"]
             /\ received' = [received EXCEPT ![k][c] = @ + 1] /\ unsure' = [unsure EXCEPT ![k][c] = @ + 1]
    <3>1. received'[k][c] = received[k][c] + 1 /\ unsure'[k][c] = unsure[k][c] + 1
          /\ \A x \in Keys, d \in Channels : <<x, d>> # <<k, c>> =>
                received'[x][d] = received[x][d] /\ unsure'[x][d] = unsure[x][d]
      BY <1>0, <2>1, <2>7
    <3>2. worker'.sending = "refused"
      BY <2>7 DEF TypeInv, TypeOK, Workers
    <3>3. \A x \in Keys, d \in Channels : ~InFlight(x, d)'
      BY <3>2 DEF InFlight
    <3> HIDE DEF c
    <3>4. Counted'
      <4> SUFFICES ASSUME NEW x \in Keys, NEW d \in Channels
                   PROVE  (received[x][d] <= (IF row[x][d] = "sent" \/ InFlight(x, d) THEN 1 ELSE 0)
                                             + unsure[x][d])'
        BY DEF Counted
      <4>1. CASE x = k /\ d = c
        BY <2>1, <2>2, <2>5, <3>1, <3>3, <4>1
      <4>2. CASE ~(x = k /\ d = c)
        <5>1. received'[x][d] = received[x][d] /\ unsure'[x][d] = unsure[x][d] /\ row'[x][d] = row[x][d]
          BY <2>1, <3>1, <4>2
        <5>2. received[x][d] <= (IF row[x][d] = "sent" THEN 1 ELSE 0) + unsure[x][d]
          BY <2>2 DEF SendInv, Counted
        <5> QED
          BY <3>3, <5>1, <5>2
      <4> QED
        BY <4>1, <4>2
    <3>5. Arrived'
      BY <2>1, <2>2, <2>5, <3>1, <3>3 DEF SendInv, Arrived
    <3> QED
      BY <2>4, <3>4, <3>5 DEF SendInv
  <2>8. CASE worker' = [worker EXCEPT !.sending = "refused"] /\ UNCHANGED <<received, unsure>>
    <3>1. worker'.sending = "refused"
      BY <2>8 DEF TypeInv, TypeOK, Workers
    <3> QED
      BY <2>1, <2>2, <2>4, <2>8, <3>1 DEF SendInv, Counted, Arrived, InFlight
  <2> QED
    BY <1>4, <2>6, <2>7, <2>8 DEF Send, Wait
<1>5. ASSUME NEW k \in Keys, Record(k) PROVE SendInv'
  <2> DEFINE c == Head(worker.left)
  <2>1. /\ c \in Channels /\ worker.key = {k} /\ worker.left # <<>>
        /\ worker.sending \in {"accepted", "refused"} /\ UNCHANGED <<received, unsure>>
    BY <1>5, HeadTyped DEF Record, TypeInv, Shape, sendVars
  <2>2. worker'.sending = "no"
    BY <1>5, <2>1, OnwardTyped DEF Record, Wait, TypeInv, TypeOK
  <2>3. row' = [row EXCEPT ![k][c] = RowAfter(row[k][c], worker.sending)]
    BY <1>5 DEF Record
  <2>4. \A x \in Keys, d \in Channels :
           row'[x][d] = "sent" <=> row[x][d] = "sent" \/ InFlight(x, d)
    <3>1. \A x \in Keys, d \in Channels :
             row'[x][d] = IF x = k /\ d = c THEN RowAfter(row[k][c], worker.sending) ELSE row[x][d]
      BY <1>0, <2>1, <2>3
    <3>2. \A x \in Keys, d \in Channels : InFlight(x, d) <=> x = k /\ d = c /\ worker.sending = "accepted"
      BY <2>1 DEF InFlight
    <3> QED
      BY <2>1, <3>1, <3>2 DEF RowAfter
  <2>5. \A x \in Keys, d \in Channels : ~InFlight(x, d)'
    BY <2>2 DEF InFlight
  <2>6. Asked'
    BY <2>2 DEF Asked
  <2>7. Counted' /\ Arrived'
    BY <2>1, <2>4, <2>5 DEF SendInv, Counted, Arrived
  <2> QED
    BY <2>6, <2>7 DEF SendInv
<1> QED
  BY <1>1, <1>2, <1>3, <1>4, <1>5 DEF WorkerStep

LEMMA DeathSends == TypeInv /\ SendInv /\ TickDies => SendInv'
<1> SUFFICES ASSUME TypeInv, SendInv, TickDies PROVE SendInv'
  OBVIOUS
<1>1. worker'.sending = "no" /\ UNCHANGED <<row, received>>
  BY DEF TickDies, Wait, Idle
<1>2. \A k \in Keys, c \in Channels : unsure[k][c] \in Nat /\ received[k][c] \in Nat
  BY DEF TypeInv, TypeOK
<1>3. \A k \in Keys, c \in Channels :
         unsure'[k][c] = IF InFlight(k, c) THEN unsure[k][c] + 1 ELSE unsure[k][c]
  BY DEF TickDies, InFlight
<1>4. \A k \in Keys, c \in Channels : ~InFlight(k, c)'
  BY <1>1 DEF InFlight
<1>5. Counted' /\ Arrived'
  BY <1>1, <1>2, <1>3, <1>4 DEF SendInv, Counted, Arrived
<1>6. Asked'
  BY <1>1 DEF Asked
<1> QED
  BY <1>5, <1>6 DEF SendInv

LEMMA SendInvKept == Spec => [](TypeInv /\ SendInv)
<1>1. Init => SendInv
  BY DEF Init, SendInv, Asked, Counted, Arrived, InFlight, Idle
<1>2. TypeInv /\ SendInv /\ [Next]_vars => SendInv'
  BY OthersSend, WorkerSends, DeathSends DEF Next
<1> QED
  BY InitTyped, StepTyped, <1>1, <1>2, PTL DEF Spec

\* However sends fail and ticks die, a message is repeated only when nobody
\* could know that it had arrived.
THEOREM OnlyUnsureRepeats == Spec => []RepeatedOnlyWhenUnsure
<1>1. TypeInv /\ SendInv => RepeatedOnlyWhenUnsure
  <2> SUFFICES ASSUME TypeInv, SendInv, NEW k \in Keys, NEW c \in Channels
               PROVE  received[k][c] <= 1 + unsure[k][c]
    BY DEF RepeatedOnlyWhenUnsure
  <2>1. unsure[k][c] \in Nat /\ received[k][c] \in Nat
    BY DEF TypeInv, TypeOK
  <2> QED
    BY <2>1 DEF SendInv, Counted, Arrived
<1> QED
  BY SendInvKept, <1>1, PTL

\* Whichever tick died, and however often a send was tried again, nothing is
\* recorded as sent that never arrived.
THEOREM RecordsAreTrue == Spec => []SentHasArrived
<1>1. TypeInv /\ SendInv => SentHasArrived
  <2> SUFFICES ASSUME TypeInv, SendInv, NEW k \in Keys, NEW c \in Channels
               PROVE  row[k][c] = "sent" => received[k][c] > 0
    BY DEF SentHasArrived
  <2>1. received[k][c] \in Nat
    BY DEF TypeInv, TypeOK
  <2> QED
    BY <2>1 DEF SendInv, Counted, Arrived
<1> QED
  BY SendInvKept, <1>1, PTL

-----------------------------------------------------------------------------
(* Low balances                                                            *)

LEMMA KeysDiffer ==
    /\ \A a \in Accounts, n \in 0..MaxOccurs, k \in PaymentKeys \cup SyncKeys \cup LargeKeys : k # LowKey(a, n)
    /\ \A a, b \in Accounts, n, m \in 0..MaxOccurs : LowKey(a, n) = LowKey(b, m) => a = b /\ n = m
BY DEF LowKey, PaymentKey, SyncKey, LargeKey, PaymentKeys, SyncKeys, LargeKeys

LEMMA SameTold ==
    ASSUME Told, TypeInv, TypeInv', \A a \in Accounts : crossed[a] <= crossed'[a],
           \A a \in Accounts, n \in 0..MaxOccurs :
               LowKey(a, n) \in worker'.todo => LowKey(a, n) \in worker.todo \/ n <= crossed[a],
           worker'.key \subseteq worker.key \cup worker.todo,
           \A k \in Keys : received'[k] = received[k] \/ k \in worker.key
    PROVE  Told'
<1>1. \A a \in Accounts : crossed[a] \in Nat /\ crossed'[a] \in Nat
  BY DEF TypeInv, TypeOK
<1>2. \A a \in Accounts, n \in 0..MaxOccurs : n \in Nat /\ LowKey(a, n) \in Keys
  BY KeysHold
<1>3. ASSUME NEW a \in Accounts, NEW n \in 0..MaxOccurs
      PROVE  /\ LowKey(a, n) \in worker'.todo => n <= crossed'[a]
             /\ worker'.key = {LowKey(a, n)} => n <= crossed'[a]
             /\ \A c \in Channels : received'[LowKey(a, n)][c] > 0 => n <= crossed'[a]
  <2>1. n <= crossed[a] => n <= crossed'[a]
    BY <1>1, <1>2
  <2>2. LowKey(a, n) \in worker.key => worker.key = {LowKey(a, n)}
    <3>1. worker \in Workers
      BY DEF TypeInv, TypeOK
    <3>2. worker.key \in {{}} \cup {{k} : k \in Keys}
      BY <3>1 DEF Workers
    <3> QED
      BY <3>2
  <2>3. LowKey(a, n) \in worker.key \cup worker.todo => n <= crossed[a]
    BY <2>2 DEF Told
  <2>4. \A c \in Channels : received'[LowKey(a, n)][c] > 0 => n <= crossed[a]
    BY <1>2, <2>3 DEF Told, OneAlertPerCrossing
  <2> QED
    BY <2>1, <2>3, <2>4
<1> QED
  BY <1>3 DEF Told, OneAlertPerCrossing

LEMMA StepTold == TypeInv /\ TypeInv' /\ Told /\ [Next]_vars => Told'
<1> SUFFICES ASSUME TypeInv, TypeInv', Told, [Next]_vars PROVE Told'
  OBVIOUS
<1>0. /\ \A a \in Accounts : crossed[a] \in Nat
      /\ worker \in Workers /\ received \in [Keys -> [Channels -> Nat]]
  BY DEF TypeInv, TypeOK
<1>1. CASE Household \/ UNCHANGED vars
  <2>1. UNCHANGED <<worker, received>>
    BY <1>1 DEF Household, BalanceMoves, PaymentMoves, SyncEnds, Disconnect, SaveTransaction,
           DiesBeforeEnqueue, ChangeTransaction, ChangeSettings, ChannelFails, vars, sendVars
  <2>2. \/ UNCHANGED crossed
        \/ \E kinds, how : crossed' = CrossedAfter(kinds, how)
    BY <1>1 DEF Household, BalanceMoves, PaymentMoves, SyncEnds, Disconnect, SaveTransaction,
           DiesBeforeEnqueue, ChangeTransaction, ChangeSettings, ChannelFails, vars, countVars
  <2>3. \A a \in Accounts : crossed[a] <= crossed'[a]
    BY <1>0, <2>2 DEF CrossedAfter
  <2> QED
    BY <2>1, <2>3, SameTold
<1>2. CASE \/ TickDies
           \/ \E t \in Txns : Enqueue(t)
           \/ \E c \in Channels : ChannelRecovers(c)
           \/ \E k \in Keys, c \in Channels : RetryPasses(k, c)
  <2>1. UNCHANGED <<crossed, received>> /\ (worker' = worker \/ worker' = Idle)
    BY <1>2 DEF TickDies, Enqueue, ChannelRecovers, RetryPasses, countVars, sendVars, Wait
  <2>2. worker'.todo \subseteq worker.todo /\ worker'.key \subseteq worker.key
    BY <2>1 DEF Idle
  <2> QED
    BY <1>0, <2>1, <2>2, SameTold
<1>3. CASE Gather
  <2>1. /\ worker'.todo = LowNotices \cup PaymentNotices \cup SyncNotices /\ worker'.key = {}
        /\ UNCHANGED <<crossed, received>>
    BY <1>3 DEF Gather, Wait, Idle, countVars, sendVars
  <2>2. ASSUME NEW a \in Accounts, NEW n \in 0..MaxOccurs, LowKey(a, n) \in worker'.todo
        PROVE  n <= crossed[a]
    <3>1. PaymentNotices \subseteq PaymentKeys /\ SyncNotices \subseteq SyncKeys
      BY DEF PaymentNotices, SyncNotices, PaymentKeys, SyncKeys, TypeInv, TypeOK, PaymentStates, BankStates
    <3>2. LowKey(a, n) \in LowNotices
      BY <2>1, <2>2, <3>1, KeysDiffer
    <3>3. PICK b \in Accounts : IsLow(b) /\ LowKey(a, n) = LowKey(b, StateAfter(b).episode)
      BY <3>2 DEF LowNotices
    <3>4. state' = [x \in Accounts |-> StateAfter(x)]
      BY <1>3 DEF Gather
    <3>5. state'[b].episode <= crossed[b] /\ state'[b].episode \in 0..MaxOccurs
      BY <2>1 DEF TypeInv, TypeOK, States, Crossing
    <3> QED
      BY <3>3, <3>4, <3>5, KeysDiffer
  <2> QED
    BY <1>0, <2>1, <2>2, SameTold
<1>4. CASE ReadPending \/ EndTick
  <2>1. /\ worker'.todo \subseteq LargeKeys /\ worker'.key = {}
        /\ UNCHANGED <<crossed, received>>
    <3>1. CASE ReadPending
      BY <3>1 DEF ReadPending, Pending, Wait, Idle, countVars, sendVars
    <3>2. CASE EndTick
      BY <3>2 DEF EndTick, Wait, Idle, countVars, sendVars
    <3> QED
      BY <1>4, <3>1, <3>2
  <2> QED
    BY <1>0, <2>1, KeysDiffer, SameTold
<1>5. ASSUME NEW k \in Keys, TakeUp(k) PROVE Told'
  <2>1. /\ worker'.todo \subseteq worker.todo /\ worker'.key \subseteq worker.todo
        /\ UNCHANGED <<crossed, received>>
    BY <1>0, <1>5 DEF TakeUp, Wait, Workers, countVars, sendVars
  <2> QED
    BY <1>0, <2>1, SameTold
<1>6. ASSUME NEW k \in Keys, StartChannel(k) \/ Record(k) PROVE Told'
  <2>1. UNCHANGED <<crossed, received>>
    BY <1>6 DEF StartChannel, Record, countVars, sendVars
  <2>2. worker' = Onward(worker) \/ worker' = [worker EXCEPT !.sending = "asked"]
    BY <1>6 DEF StartChannel, Record, Wait
  <2>3. worker.left # <<>>
    BY <1>6 DEF StartChannel, Record, TypeInv, Shape
  <2>4. worker'.todo = worker.todo /\ worker'.key \subseteq worker.key
    <3>1. CASE worker' = Onward(worker)
      BY <1>0, <2>3, <3>1, OnwardTyped
    <3>2. CASE worker' = [worker EXCEPT !.sending = "asked"]
      BY <1>0, <3>2 DEF Workers
    <3> QED
      BY <2>2, <3>1, <3>2
  <2> QED
    BY <1>0, <2>1, <2>4, SameTold
<1>7. ASSUME NEW k \in Keys, Send(k) PROVE Told'
  <2>1. /\ UNCHANGED crossed /\ worker.key = {k}
        /\ worker'.todo = worker.todo /\ worker'.key = worker.key
    BY <1>0, <1>7 DEF Send, Wait, Workers, countVars
  <2>2. \A x \in Keys : x # k => received'[x] = received[x]
    BY <1>0, <1>7 DEF Send
  <2> QED
    BY <1>0, <2>1, <2>2, SameTold
<1> QED
  BY <1>1, <1>2, <1>3, <1>4, <1>5, <1>6, <1>7 DEF Next, WorkerStep

\* A low balance is told at most once for each time it became low, for any
\* number of accounts and any interleaving, failure or restart of the worker.
THEOREM CrossingsToldOnce == Spec => []OneAlertPerCrossing
<1>1. Init => Told
  BY KeysHold DEF Init, Told, OneAlertPerCrossing, Idle
<1>2. Told => OneAlertPerCrossing
  BY DEF Told
<1> QED
  BY InitTyped, StepTyped, StepTold, <1>1, <1>2, PTL DEF Spec
=============================================================================
