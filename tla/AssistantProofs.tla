-------------------------- MODULE AssistantProofs --------------------------
(***************************************************************************)
(* Proofs about Assistant, for any number of requests, conversations,      *)
(* proposals, changes and rows.                                            *)
(*                                                                         *)
(* That a change is about the rows the AI meant rests on what a code is:   *)
(* in one answer no two rows have the same one, a row keeps the one it was *)
(* given, and no two answers under way share a tag (Tagged).               *)
(*                                                                         *)
(* That a proposal is decided on at one moment rests on its lock: an       *)
(* approval holds a proposal that waits, and no other approval holds it    *)
(* (Held), so its commit is that moment, and every other step either       *)
(* changes nothing Decision knows of or tells a request what is so.        *)
(*                                                                         *)
(* That what is committed names only categories there are rests on what an *)
(* approval under way has checked so far (UnderWay), and on a change, of   *)
(* whatever tool, leaving books with such categories only (RunKept).       *)
(***************************************************************************)
EXTENDS Planning, Sums

-----------------------------------------------------------------------------
(* The inductive invariant                                                 *)

Turn == [tag : 0..Asked, proposal : Proposals \cup {0}]
Request == [pc : {"idle", "asking", "saving", "approving"}, chat : Chats \cup {None}, had : Seq(Turn), tag : 0..Asked,
            shown : Seq(Asst!Rows), rounds : Nat, fixes : Nat, of : Proposals \cup {0}, k : Nat,
            ids : Seq(AskItems \cup AskBudgets \cup {None}),
            told : {"nothing", "nothing changed", "approved", "rejected"}]
Proposal == [status : {"none", "pending", "approved", "rejected"}, steps : Seq(Asst!Changes), meant : Seq(SUBSET Asst!Rows),
             aged : BOOLEAN]
Codes == [kind : {"T", "S", "B"}, tag : 0..Asked, n : Nat]

Types ==
    /\ proposal \in [Proposals -> Proposal] /\ chat \in [Chats -> Seq(Turn) \cup {None}]
    /\ req \in [Requests -> Request] /\ seen \subseteq [code : Codes, row : Asst!Rows]

NoneTwice(s) == \A i, j \in DOMAIN s : s[i] = s[j] => i = j

\* Whoever is asking has a tag of their own, and the codes under it are those of the
\* rows they were shown.
Tagged ==
    /\ \A q, r \in Requests : req[q].pc = "asking" /\ req[r].pc = "asking" /\ req[q].tag = req[r].tag => q = r
    /\ \A r \in Requests : req[r].pc = "asking" =>
          /\ NoneTwice(req[r].shown)
          /\ \A e \in seen : e.code.tag = req[r].tag =>
                e.row \in Asst!ToSet(req[r].shown) /\ e.code = Asst!CodeOf(req[r], e.row)

\* An approval holds a proposal that waits, alone; what was approved was made once.
Held ==
    /\ \A r \in Requests : req[r].pc = "approving" => req[r].of \in Proposals /\ proposal[req[r].of].status = "pending"
    /\ \A q, r \in Requests : req[q].pc = "approving" /\ req[r].pc = "approving" /\ req[q].of = req[r].of => q = r
MadeOnce ==
    /\ made \in [Proposals -> Seq({0, 1})]
    /\ \A p \in Proposals : \A k \in DOMAIN made[p] : made[p][k] = IF proposal[p].status = "approved" THEN 1 ELSE 0

IInv == Types /\ Tagged /\ Held /\ MadeOnce /\ Asst!CodesMeanTheirRows

-----------------------------------------------------------------------------
(* Codes                                                                   *)

\* The rows of a kind that were shown up to one.
UpTo(s, row) == {i \in DOMAIN s : s[i][1] = row[1] /\ \E j \in i..Len(s) : s[j] = row}

LEMMA UpToIs ==
    ASSUME NEW s \in Seq(Asst!Rows), NEW row
    PROVE  /\ UpTo(s, row) \subseteq 1..Len(s) /\ DOMAIN s = 1..Len(s) /\ Len(s) \in Nat
           /\ IsFiniteSet(UpTo(s, row)) /\ Cardinality(UpTo(s, row)) \in Nat
<1>1. UpTo(s, row) \subseteq 1..Len(s) /\ DOMAIN s = 1..Len(s) /\ Len(s) \in Nat
    BY DEF UpTo
<1>2. IsFiniteSet(1..Len(s))
    BY <1>1, FS_Interval
<1> QED
    BY <1>1, <1>2, FS_Subset, FS_CardinalityType

\* Assistant counts with its own copy of the library's Cardinality.
LEMMA CardinalityIs == \A S : Asst!Cardinality(S) = Cardinality(S)
BY DEF Asst!Cardinality, Asst!IsFiniteSet, Cardinality, IsFiniteSet

LEMMA CodeIs ==
    ASSUME NEW q, NEW row
    PROVE  Asst!CodeOf(q, row) = [kind |-> row[1], tag |-> q.tag, n |-> Cardinality(UpTo(q.shown, row))]
BY CardinalityIs DEF Asst!CodeOf, UpTo

LEMMA CodeType ==
    ASSUME NEW q, q.shown \in Seq(Asst!Rows), q.tag \in 0..Asked, NEW row \in Asst!Rows
    PROVE  Asst!CodeOf(q, row) \in Codes /\ Asst!CodeOf(q, row).tag = q.tag
<1>1. row[1] \in {"T", "S", "B"}
    BY DEF Asst!Rows
<1> QED
    BY <1>1, CodeIs, UpToIs DEF Codes

\* A row shown later has a higher number.
LEMMA LaterIsMore ==
    ASSUME NEW s \in Seq(Asst!Rows), NoneTwice(s), NEW i \in DOMAIN s, NEW j \in DOMAIN s, i < j, s[i][1] = s[j][1]
    PROVE  Cardinality(UpTo(s, s[i])) # Cardinality(UpTo(s, s[j]))
<1>1. DOMAIN s = 1..Len(s) /\ Len(s) \in Nat
    OBVIOUS
<1>2. \A k \in UpTo(s, s[i]) : k \in UpTo(s, s[j])
    <2> SUFFICES ASSUME NEW k \in UpTo(s, s[i]) PROVE k \in UpTo(s, s[j])
        OBVIOUS
    <2>1. k \in DOMAIN s /\ s[k][1] = s[j][1]
        BY DEF UpTo
    <2>2. PICK l \in k..Len(s) : s[l] = s[i]
        BY DEF UpTo
    <2>3. l = i
        BY <1>1, <2>1, <2>2 DEF NoneTwice
    <2>4. j \in k..Len(s)
        BY <1>1, <2>1, <2>2, <2>3
    <2> QED
        BY <2>1, <2>4 DEF UpTo
<1>3. j \in UpTo(s, s[j])
    BY <1>1 DEF UpTo
<1>4. j \notin UpTo(s, s[i])
    BY <1>1 DEF UpTo, NoneTwice
<1>5. UpTo(s, s[i]) \in SUBSET UpTo(s, s[j]) /\ UpTo(s, s[i]) # UpTo(s, s[j])
    BY <1>2, <1>3, <1>4
<1> QED
    BY <1>5, UpToIs, FS_Subset

LEMMA CodesDiffer ==
    ASSUME NEW q, q.shown \in Seq(Asst!Rows), NoneTwice(q.shown),
           NEW x \in Asst!ToSet(q.shown), NEW y \in Asst!ToSet(q.shown), Asst!CodeOf(q, x) = Asst!CodeOf(q, y)
    PROVE  x = y
<1> DEFINE s == q.shown
<1>1. PICK i \in DOMAIN s, j \in DOMAIN s : x = s[i] /\ y = s[j]
    BY DEF Asst!ToSet
<1>2. x[1] = y[1] /\ Cardinality(UpTo(s, x)) = Cardinality(UpTo(s, y))
    BY CodeIs
<1>3. DOMAIN s = 1..Len(s) /\ Len(s) \in Nat
    OBVIOUS
<1>4. ~(i < j) /\ ~(j < i)
    BY <1>1, <1>2, LaterIsMore
<1> QED
    BY <1>1, <1>3, <1>4

\* The codes of the rows shown so far stay when another is shown.
LEMMA CodesStay ==
    ASSUME NEW s \in Seq(Asst!Rows), NEW row \in Asst!Rows, row \notin Asst!ToSet(s), NEW x \in Asst!ToSet(s)
    PROVE  UpTo(Append(s, row), x) = UpTo(s, x)
<1> DEFINE t == Append(s, row)
<1>1. /\ Len(t) = Len(s) + 1 /\ DOMAIN t = 1..(Len(s) + 1) /\ DOMAIN s = 1..Len(s) /\ Len(s) \in Nat
      /\ t[Len(s) + 1] = row /\ \A i \in 1..Len(s) : t[i] = s[i]
    OBVIOUS
<1>2. x # row
    OBVIOUS
<1> HIDE DEF t
<1>3. \A i \in UpTo(t, x) : i \in UpTo(s, x)
    BY <1>1, <1>2 DEF UpTo
<1>4. \A i \in UpTo(s, x) : i \in UpTo(t, x)
    BY <1>1 DEF UpTo
<1> QED
    BY <1>3, <1>4 DEF t

-----------------------------------------------------------------------------
(* Tags                                                                    *)

LEMMA MaxIs ==
    ASSUME NEW n \in Nat, NEW T \in SUBSET (0..n), T # {}
    PROVE  Asst!Max(T) \in T /\ \A y \in T : y <= Asst!Max(T)
<1> DEFINE above(x) == {y \in 0..n : x < y}
           B == {above(x) : x \in T}
<1>1. IsFiniteSet(0..n)
    BY FS_Interval
<1>2. PICK m \in B : \A x \in B : ~ (<<x, m>> \in StrictSubsetOrdering(0..n))
    <2>1. IsWellFoundedOn(StrictSubsetOrdering(0..n), FiniteSubsetsOf(0..n)) /\ FiniteSubsetsOf(0..n) = SUBSET (0..n)
        BY <1>1, FS_StrictSubsetOrderingWellFounded, FS_FiniteSubsetsOfFinite
    <2>2. B \subseteq SUBSET (0..n) /\ B # {}
        OBVIOUS
    <2> HIDE DEF B
    <2> QED
        BY <2>1, <2>2, WFMin
<1>3. PICK x \in T : m = above(x)
    BY <1>2
<1>4. ASSUME NEW y \in T, x < y PROVE FALSE
    <2>1. \A z \in above(y) : z \in above(x)
        BY <1>4
    <2>2. y \in above(x) /\ y \notin above(y)
        BY <1>4
    <2>3. above(y) \in SUBSET m /\ above(y) # m /\ m \in SUBSET (0..n)
        BY <1>3, <2>1, <2>2
    <2>4. above(y) \in B
        OBVIOUS
    <2> HIDE DEF B, above
    <2> QED
        BY <1>2, <2>3, <2>4 DEF StrictSubsetOrdering
<1>5. \A y \in T : x >= y
    BY <1>4
<1> QED
    BY <1>5 DEF Asst!Max

LEMMA NewTagIs ==
    ASSUME Asst!Bounds, Types, Asst!NewTag <= Asked
    PROVE  /\ Asst!NewTag \in 1..Asked
           /\ \A e \in seen : e.code.tag # Asst!NewTag
           /\ \A r \in Requests : req[r].tag # Asst!NewTag
<1> DEFINE T == {0} \cup {e.code.tag : e \in seen} \cup {req[r].tag : r \in Requests}
<1>1. Asked \in Nat
    BY DEF Asst!Bounds
<1>2. \A e \in seen : e.code.tag \in 0..Asked
    BY DEF Types, Codes
<1>3. \A r \in Requests : req[r].tag \in 0..Asked
    BY DEF Types, Request
<1>4. T \in SUBSET (0..Asked) /\ T # {}
    BY <1>1, <1>2, <1>3
<1>5. Asst!NewTag = 1 + Asst!Max(T)
    BY DEF Asst!NewTag
<1>6. 0 \in T /\ (\A e \in seen : e.code.tag \in T) /\ (\A r \in Requests : req[r].tag \in T)
    OBVIOUS
<1> HIDE DEF T
<1>7. Asst!Max(T) \in 0..Asked /\ \A y \in T : y <= Asst!Max(T)
    BY <1>1, <1>4, MaxIs
<1>8. Asst!NewTag \notin T
    BY <1>4, <1>5, <1>7
<1> QED
    BY <1>1, <1>5, <1>6, <1>7, <1>8

-----------------------------------------------------------------------------
(* What a request becomes                                                  *)

LEMMA IdleIs == Asst!Bounds => Asst!Idle \in Request /\ Asst!Idle.pc = "idle" /\ Asst!Idle.of = 0 /\ Asst!Idle.told = "nothing" /\ Asst!Idle.tag = 0
<1> SUFFICES ASSUME Asst!Bounds PROVE Asst!Idle \in Request
    BY DEF Asst!Idle
<1>1. Asked \in Nat
    BY DEF Asst!Bounds
<1> QED
    BY <1>1 DEF Asst!Idle, Request, Turn

LEMMA SetIs ==
    ASSUME Types, NEW r \in Requests, NEW q \in Request, Asst!Set(r, q)
    PROVE  req' \in [Requests -> Request] /\ req'[r] = q /\ \A o \in Requests \ {r} : req'[o] = req[o]
BY DEF Types, Asst!Set

LEMMA DoneIs ==
    ASSUME Asst!Bounds, Types, NEW r \in Requests, NEW p \in Proposals,
           NEW what \in {"nothing changed", "approved", "rejected"}, Asst!Done(r, p, what)
    PROVE  /\ req' \in [Requests -> Request] /\ \A o \in Requests \ {r} : req'[o] = req[o]
           /\ req'[r].pc = "idle" /\ req'[r].of = p /\ req'[r].told = what
<1> DEFINE q == [Asst!Idle EXCEPT !.of = p, !.told = what]
<1>1. q \in Request /\ q.pc = "idle" /\ q.of = p /\ q.told = what
    BY IdleIs DEF Request
<1>2. Asst!Set(r, q)
    BY DEF Asst!Done
<1> HIDE DEF q
<1> QED
    BY <1>1, <1>2, SetIs

LEMMA ReplyIs ==
    ASSUME Types, NEW r \in Requests, NEW p \in Proposals \cup {0}
    PROVE  Asst!Reply(req[r], p) \in Request /\ Asst!Reply(req[r], p).pc = "saving"
<1>1. req[r] \in Request
    BY DEF Types
<1>2. << >> \in Seq(Asst!Rows)
    OBVIOUS
<1>3. \A q \in Request, s \in Seq(Asst!Rows) :
         /\ [q EXCEPT !.pc = "saving", !.of = p, !.shown = s, !.rounds = 0, !.fixes = 0] \in Request
         /\ [q EXCEPT !.pc = "saving", !.of = p, !.shown = s, !.rounds = 0, !.fixes = 0].pc = "saving"
    BY DEF Request
<1> QED
    BY <1>1, <1>2, <1>3 DEF Asst!Reply

\* A step in which no request starts to ask, is shown a row or holds a proposal, and no
\* proposal changes.
LEMMA Quiet ==
    ASSUME IInv, req' \in [Requests -> Request], chat' \in [Chats -> Seq(Turn) \cup {None}],
           UNCHANGED <<proposal, seen, made>>,
           \A r \in Requests :
              /\ req'[r].pc = "asking" => /\ req[r].pc = "asking" /\ req'[r].tag = req[r].tag
                                          /\ req'[r].shown = req[r].shown
              /\ req'[r].pc = "approving" => req[r].pc = "approving" /\ req'[r].of = req[r].of
    PROVE  IInv'
<1>1. Types'
    BY DEF IInv, Types
<1>2. Tagged'
    <2>1. \A q, r \in Requests : req'[q].pc = "asking" /\ req'[r].pc = "asking" /\ req'[q].tag = req'[r].tag => q = r
        BY DEF IInv, Tagged
    <2>2. ASSUME NEW r \in Requests, req'[r].pc = "asking"
          PROVE  /\ NoneTwice(req'[r].shown)
                 /\ \A e \in seen' : e.code.tag = req'[r].tag =>
                       e.row \in Asst!ToSet(req'[r].shown) /\ e.code = Asst!CodeOf(req'[r], e.row)
        <3>1. req[r].pc = "asking" /\ req'[r].tag = req[r].tag /\ req'[r].shown = req[r].shown /\ seen' = seen
            BY <2>2
        <3>2. \A row : Asst!CodeOf(req'[r], row) = Asst!CodeOf(req[r], row)
            BY <3>1, CodeIs
        <3> QED
            BY <3>1, <3>2 DEF IInv, Tagged
    <2> QED
        BY <2>1, <2>2 DEF Tagged
<1>3. Held' /\ MadeOnce' /\ Asst!CodesMeanTheirRows'
    BY DEF IInv, Held, MadeOnce, Asst!CodesMeanTheirRows
<1> QED
    BY <1>1, <1>2, <1>3 DEF IInv

\* The same for a step of one request.
LEMMA QuietOne ==
    ASSUME IInv, NEW r \in Requests, NEW q \in Request, Asst!Set(r, q), chat' \in [Chats -> Seq(Turn) \cup {None}],
           UNCHANGED <<proposal, seen, made>>,
           q.pc = "asking" => req[r].pc = "asking" /\ q.tag = req[r].tag /\ q.shown = req[r].shown,
           q.pc = "approving" => req[r].pc = "approving" /\ q.of = req[r].of
    PROVE  IInv'
<1>1. req' \in [Requests -> Request] /\ req'[r] = q /\ \A o \in Requests \ {r} : req'[o] = req[o]
    BY SetIs DEF IInv
<1> QED
    BY <1>1, Quiet

LEMMA QuietDone ==
    ASSUME Asst!Bounds, IInv, NEW r \in Requests, NEW p \in Proposals,
           NEW what \in {"nothing changed", "approved", "rejected"}, Asst!Done(r, p, what),
           UNCHANGED <<proposal, chat, seen, made>>
    PROVE  IInv'
<1>1. /\ req' \in [Requests -> Request] /\ \A o \in Requests \ {r} : req'[o] = req[o]
      /\ req'[r].pc = "idle"
    BY DoneIs DEF IInv
<1>2. chat' \in [Chats -> Seq(Turn) \cup {None}]
    BY DEF IInv, Types
<1> QED
    BY <1>1, <1>2, Quiet

-----------------------------------------------------------------------------
(* Steps of a question                                                     *)

LEMMA InitInv == Asst!Bounds /\ Asst!Init => IInv
<1> SUFFICES ASSUME Asst!Bounds, Asst!Init PROVE IInv
    OBVIOUS
<1>1. Asst!NoProposal \in Proposal /\ Asst!NoProposal.status = "none" /\ DOMAIN Asst!NoProposal.steps = {}
    BY DEF Asst!NoProposal, Proposal
<1>2. << >> \in Seq({0, 1}) /\ DOMAIN << >> = {}
    OBVIOUS
<1>3. Types
    BY <1>1, IdleIs DEF Asst!Init, Types
<1>4. Tagged /\ Held
    BY IdleIs DEF Asst!Init, Tagged, Held
<1>5. MadeOnce /\ Asst!CodesMeanTheirRows
    BY <1>1, <1>2 DEF Asst!Init, MadeOnce, Asst!CodesMeanTheirRows
<1> QED
    BY <1>3, <1>4, <1>5 DEF IInv

\* Whoever asks has a tag that nobody had before.
LEMMA AskIs ==
    ASSUME Asst!Bounds, IInv, NEW r \in Requests, NEW c \in Chats \cup {None}, Asst!Ask(r, c)
    PROVE  /\ Asst!NewTag \in 1..Asked /\ (\A e \in seen : e.code.tag # Asst!NewTag) /\ (\A o \in Requests : req[o].tag # Asst!NewTag)
           /\ \E q \in Request : q.pc = "asking" /\ q.tag = Asst!NewTag /\ q.shown = << >> /\ Asst!Set(r, q)
<1> DEFINE had == IF c = None THEN << >> ELSE chat[c]
           q == [Asst!Idle EXCEPT !.pc = "asking", !.chat = c, !.tag = Asst!NewTag, !.had = had]
<1>1. Asst!NewTag \in 1..Asked /\ (\A e \in seen : e.code.tag # Asst!NewTag) /\ (\A o \in Requests : req[o].tag # Asst!NewTag)
    BY NewTagIs DEF Asst!Ask, IInv
<1>2. had \in Seq(Turn)
    BY DEF Asst!Ask, IInv, Types
<1>3. q \in Request /\ q.pc = "asking" /\ q.tag = Asst!NewTag /\ q.shown = << >>
    <2>1. \A h \in Seq(Turn), n \in 0..Asked :
             LET x == [Asst!Idle EXCEPT !.pc = "asking", !.chat = c, !.tag = n, !.had = h]
             IN  x \in Request /\ x.pc = "asking" /\ x.tag = n /\ x.shown = Asst!Idle.shown
        BY IdleIs DEF Request
    <2>2. Asked \in Nat
        BY DEF Asst!Bounds
    <2>3. Asst!Idle.shown = << >> /\ Asst!NewTag \in 0..Asked
        BY <1>1, <2>2 DEF Asst!Idle
    <2> HIDE DEF had
    <2> QED
        BY <1>2, <2>1, <2>3
<1>4. Asst!Set(r, q)
    BY DEF Asst!Ask
<1> HIDE DEF q
<1> QED
    BY <1>1, <1>3, <1>4

LEMMA AskInv ==
    ASSUME Asst!Bounds, IInv, NEW r \in Requests, NEW c \in Chats \cup {None}, Asst!Ask(r, c)
    PROVE  IInv'
<1>1. Asst!NewTag \in 1..Asked /\ (\A e \in seen : e.code.tag # Asst!NewTag) /\ (\A o \in Requests : req[o].tag # Asst!NewTag)
    BY AskIs
<1>3. PICK q \in Request : q.pc = "asking" /\ q.tag = Asst!NewTag /\ q.shown = << >> /\ Asst!Set(r, q)
    BY AskIs
<1>4. UNCHANGED <<books, proposal, chat, seen, made>>
    BY DEF Asst!Ask
<1>5. req' \in [Requests -> Request] /\ req'[r] = q /\ \A o \in Requests \ {r} : req'[o] = req[o]
    BY <1>3, SetIs DEF IInv
<1>6. Types' /\ MadeOnce' /\ Asst!CodesMeanTheirRows'
    BY <1>4, <1>5 DEF IInv, Types, MadeOnce, Asst!CodesMeanTheirRows
<1>7. Held'
    BY <1>3, <1>4, <1>5 DEF IInv, Held
<1>8. Tagged'
    <2>1. \A p, o \in Requests : req'[p].pc = "asking" /\ req'[o].pc = "asking" /\ req'[p].tag = req'[o].tag => p = o
        BY <1>1, <1>3, <1>5 DEF IInv, Tagged
    <2>2. ASSUME NEW o \in Requests, req'[o].pc = "asking"
          PROVE  /\ NoneTwice(req'[o].shown)
                 /\ \A e \in seen' : e.code.tag = req'[o].tag =>
                       e.row \in Asst!ToSet(req'[o].shown) /\ e.code = Asst!CodeOf(req'[o], e.row)
        <3>1. CASE o = r
            <4>1. NoneTwice(req'[o].shown)
                BY <1>3, <1>5, <3>1 DEF NoneTwice
            <4> QED
                BY <1>1, <1>3, <1>4, <1>5, <3>1, <4>1
        <3>2. CASE o # r
            BY <1>4, <1>5, <2>2, <3>2 DEF IInv, Tagged
        <3> QED
            BY <3>1, <3>2
    <2> QED
        BY <2>1, <2>2 DEF Tagged
<1> QED
    BY <1>6, <1>7, <1>8 DEF IInv

LEMMA RequestIs ==
    ASSUME NEW q \in Request
    PROVE  /\ q.rounds + 1 \in Nat /\ q.fixes + 1 \in Nat /\ q.k + 1 \in Nat
           /\ q.shown \in Seq(Asst!Rows) /\ q.tag \in 0..Asked /\ \A row \in Asst!Rows : Append(q.shown, row) \in Seq(Asst!Rows)
<1>1. q.shown \in Seq(Asst!Rows)
    BY DEF Request
<1>2. \A row \in Asst!Rows : Append(q.shown, row) \in Seq(Asst!Rows)
    BY <1>1
<1>3. q.rounds \in Nat /\ q.fixes \in Nat /\ q.k \in Nat /\ q.tag \in 0..Asked
    BY DEF Request
<1> QED
    BY <1>1, <1>2, <1>3

LEMMA WithRow ==
    ASSUME NEW q \in Request, NEW n \in Nat, NEW s \in Seq(Asst!Rows)
    PROVE  LET x == [q EXCEPT !.rounds = n, !.shown = s]
           IN  x \in Request /\ x.pc = q.pc /\ x.tag = q.tag /\ x.shown = s
BY DEF Request

LEMMA ShownIs ==
    ASSUME NEW old \in Request, NEW row \in Asst!Rows
    PROVE  LET q == [old EXCEPT !.rounds = @ + 1, !.shown = Append(@, row)]
           IN  q \in Request /\ q.pc = old.pc /\ q.tag = old.tag /\ q.shown = Append(old.shown, row)
<1>1. [old EXCEPT !.rounds = old.rounds + 1].shown = old.shown
    BY DEF Request
<1>2. [old EXCEPT !.rounds = @ + 1, !.shown = Append(@, row)]
        = [old EXCEPT !.rounds = old.rounds + 1, !.shown = Append(old.shown, row)]
    BY <1>1, Zenon
<1>3. old.rounds + 1 \in Nat /\ Append(old.shown, row) \in Seq(Asst!Rows)
    BY RequestIs
<1>4. LET x == [old EXCEPT !.rounds = old.rounds + 1, !.shown = Append(old.shown, row)]
      IN  x \in Request /\ x.pc = old.pc /\ x.tag = old.tag /\ x.shown = Append(old.shown, row)
    BY <1>3, WithRow, Zenon
<1> QED
    BY <1>2, <1>4, Zenon

LEMMA LookUpInv ==
    ASSUME Asst!Bounds, IInv, NEW r \in Requests, NEW row \in Asst!Rows, Asst!LookUp(r, row)
    PROVE  IInv'
<1> DEFINE old == req[r]
           q == [old EXCEPT !.rounds = @ + 1, !.shown = Append(@, row)]
           e == [code |-> Asst!CodeOf(q, row), row |-> row]
<1>1. old \in Request /\ old.pc = "asking" /\ old.shown \in Seq(Asst!Rows) /\ row \notin Asst!ToSet(old.shown)
      /\ NoneTwice(old.shown) /\ old.tag \in 0..Asked
    BY DEF IInv, Types, Tagged, Asst!LookUp, Asst!Round, Request
<1>2. q \in Request /\ q.pc = "asking" /\ q.tag = old.tag /\ q.shown = Append(old.shown, row)
    BY <1>1, ShownIs, Zenon
<1>3. Asst!Set(r, q) /\ seen' = seen \cup {e} /\ UNCHANGED <<books, proposal, chat, made>>
    BY DEF Asst!LookUp
<1> HIDE DEF q
<1>4. e \in [code : Codes, row : Asst!Rows] /\ e.code.tag = old.tag
    BY <1>1, <1>2, CodeType DEF Request
<1>5. Asst!ToSet(q.shown) = Asst!ToSet(old.shown) \cup {row} /\ NoneTwice(q.shown)
    <2>1. /\ Len(q.shown) = Len(old.shown) + 1 /\ DOMAIN q.shown = 1..(Len(old.shown) + 1)
          /\ DOMAIN old.shown = 1..Len(old.shown) /\ Len(old.shown) \in Nat
          /\ q.shown[Len(old.shown) + 1] = row /\ \A i \in 1..Len(old.shown) : q.shown[i] = old.shown[i]
        BY <1>1, <1>2
    <2>2. \A x \in Asst!ToSet(q.shown) : x \in Asst!ToSet(old.shown) \cup {row}
        BY <2>1 DEF Asst!ToSet
    <2>3. \A x \in Asst!ToSet(old.shown) \cup {row} : x \in Asst!ToSet(q.shown)
        BY <2>1 DEF Asst!ToSet
    <2>4. \A i \in 1..Len(old.shown) : q.shown[i] # row
        BY <1>1, <2>1 DEF Asst!ToSet
    <2>5. NoneTwice(q.shown)
        <3>1. \A i, j \in 1..Len(old.shown) : q.shown[i] = q.shown[j] => i = j
            BY <1>1, <2>1 DEF NoneTwice
        <3>2. \A i \in DOMAIN q.shown : i \in 1..Len(old.shown) \/ i = Len(old.shown) + 1
            BY <2>1
        <3> QED
            BY <2>1, <2>4, <3>1, <3>2 DEF NoneTwice
    <2> QED
        BY <2>2, <2>3, <2>5
<1>6. \A x \in Asst!ToSet(old.shown) : Asst!CodeOf(q, x) = Asst!CodeOf(old, x)
    BY <1>1, <1>2, CodesStay, CodeIs
<1>7. req' \in [Requests -> Request] /\ req'[r] = q /\ \A o \in Requests \ {r} : req'[o] = req[o]
    BY <1>2, <1>3, SetIs DEF IInv
<1>8. Types' /\ MadeOnce' /\ Asst!CodesMeanTheirRows'
    BY <1>3, <1>4, <1>7 DEF IInv, Types, MadeOnce, Asst!CodesMeanTheirRows
<1>9. Held'
    BY <1>2, <1>3, <1>7 DEF IInv, Held
<1>10. Tagged'
    <2>1. \A p, o \in Requests : req'[p].pc = "asking" /\ req'[o].pc = "asking" /\ req'[p].tag = req'[o].tag => p = o
        BY <1>1, <1>2, <1>7 DEF IInv, Tagged
    <2>2. ASSUME NEW o \in Requests, req'[o].pc = "asking"
          PROVE  /\ NoneTwice(req'[o].shown)
                 /\ \A x \in seen' : x.code.tag = req'[o].tag =>
                       x.row \in Asst!ToSet(req'[o].shown) /\ x.code = Asst!CodeOf(req'[o], x.row)
        <3>1. CASE o = r
            <4>1. ASSUME NEW x \in seen, x.code.tag = q.tag
                  PROVE  x.row \in Asst!ToSet(q.shown) /\ x.code = Asst!CodeOf(q, x.row)
                BY <1>1, <1>2, <1>5, <1>6, <4>1 DEF IInv, Tagged
            <4>2. e.row \in Asst!ToSet(q.shown) /\ e.code = Asst!CodeOf(q, e.row)
                BY <1>5
            <4> QED
                BY <1>3, <1>5, <1>7, <3>1, <4>1, <4>2
        <3>2. CASE o # r
            <4>1. req'[o] = req[o] /\ req[o].tag # old.tag
                BY <1>1, <1>7, <2>2, <3>2 DEF IInv, Tagged
            <4>2. \A x \in seen' : x.code.tag = req[o].tag => x \in seen
                BY <1>3, <1>4, <4>1
            <4> QED
                BY <2>2, <4>1, <4>2 DEF IInv, Tagged
        <3> QED
            BY <3>1, <3>2
    <2> QED
        BY <2>1, <2>2 DEF Tagged
<1> QED
    BY <1>8, <1>9, <1>10 DEF IInv

\* A code that the AI was given for a row, and that stands for anything in this
\* answer, stands for that row.
LEMMA CodeFound ==
    ASSUME IInv, NEW r \in Requests, req[r].pc = "asking", NEW code, NEW row,
           [code |-> code, row |-> row] \in seen, Asst!Resolve(req[r], code) # {}
    PROVE  Asst!Resolve(req[r], code) = {row}
<1> DEFINE q == req[r]
<1>1. q \in Request /\ q.shown \in Seq(Asst!Rows) /\ q.tag \in 0..Asked /\ NoneTwice(q.shown)
    BY DEF IInv, Types, Tagged, Request
<1>2. PICK x \in Asst!ToSet(q.shown) : Asst!CodeOf(q, x) = code
    BY DEF Asst!Resolve
<1>3. code.tag = q.tag
    BY <1>2, CodeIs
<1>4. row \in Asst!ToSet(q.shown) /\ code = Asst!CodeOf(q, row)
    BY <1>3 DEF IInv, Tagged
<1>5. \A y \in Asst!ToSet(q.shown) : Asst!CodeOf(q, y) = code => y = row
    BY <1>1, <1>4, CodesDiffer
<1> QED
    BY <1>4, <1>5 DEF Asst!Resolve

\* What is asked for, as its codes are understood; each of them stands for something.
Meant(q, w, a) == [k \in DOMAIN a |-> Asst!Resolved(q, w, a[k])]
AllFound(q, w, a) == \A row \in Asst!AllRefs(a) : Asst!Resolve(q, w[row]) # {}

\* So what is proposed is what the AI asked for.
LEMMA StepsAsMeant ==
    ASSUME IInv, NEW r \in Requests, req[r].pc = "asking", NEW a \in Seq(Asst!Changes), NEW w \in Asst!Written(a),
           AllFound(req[r], w, a)
    PROVE  Meant(req[r], w, a) = a
<1> DEFINE q == req[r]
<1>1. \A row \in Asst!AllRefs(a) : Asst!Resolve(q, w[row]) = {row}
    BY CodeFound DEF Asst!Written, AllFound
<1>2. \A kind, id : <<kind, id>> \in Asst!AllRefs(a) => Asst!RowFor(q, w, kind, id) = id
    <2> SUFFICES ASSUME NEW kind, NEW id, <<kind, id>> \in Asst!AllRefs(a) PROVE Asst!RowFor(q, w, kind, id) = id
        OBVIOUS
    <2> DEFINE row == <<kind, id>>
    <2>1. Asst!Resolve(q, w[row]) = {row} /\ row[2] = id
        BY <1>1
    <2>2. {row} # {} /\ (CHOOSE x \in {row} : TRUE) = row
        OBVIOUS
    <2>3. Asst!RowFor(q, w, kind, id) = IF Asst!Resolve(q, w[row]) = {} THEN None ELSE (CHOOSE x \in Asst!Resolve(q, w[row]) : TRUE)[2]
        BY DEF Asst!RowFor
    <2> HIDE DEF q, row
    <2> QED
        BY <2>1, <2>2, <2>3
<1> HIDE DEF q
<1>3. ASSUME NEW k \in DOMAIN a
      PROVE  Asst!Resolved(q, w, a[k]) = a[k]
    <2> DEFINE s == a[k]
    <2>1. s \in Asst!Changes
        OBVIOUS
    <2>2. \A ref \in Asst!Refs(s) : ref \in Asst!AllRefs(a)
        BY DEF Asst!AllRefs
    <2> HIDE DEF s
    <2>3. \A t \in s.txns : Asst!RowFor(q, w, "T", t) = t
        BY <1>2, <2>2 DEF Asst!Refs
    <2>4. {Asst!RowFor(q, w, "T", t) : t \in s.txns} = s.txns
        BY <2>3
    <2>5. s.item # None => Asst!RowFor(q, w, "S", s.item) = s.item
        BY <1>2, <2>2 DEF Asst!Refs
    <2>6. s.budget # None => Asst!RowFor(q, w, "B", s.budget) = s.budget
        BY <1>2, <2>2 DEF Asst!Refs
    <2>7. \A T, i, b : T = s.txns /\ i = s.item /\ b = s.budget =>
             [s EXCEPT !.txns = T, !.item = i, !.budget = b] = s
        BY <2>1 DEF Asst!Changes
    <2> DEFINE T == {Asst!RowFor(q, w, "T", t) : t \in s.txns}
               i == IF s.item = None THEN None ELSE Asst!RowFor(q, w, "S", s.item)
               b == IF s.budget = None THEN None ELSE Asst!RowFor(q, w, "B", s.budget)
    <2>8. Asst!Resolved(q, w, s) = [s EXCEPT !.txns = T, !.item = i, !.budget = b]
        BY DEF Asst!Resolved
    <2>9. T = s.txns /\ i = s.item /\ b = s.budget
        BY <2>4, <2>5, <2>6
    <2> HIDE DEF T, i, b
    <2>10. Asst!Resolved(q, w, s) = s
        BY <2>7, <2>8, <2>9
    <2> QED
        BY <2>10 DEF s
<1>4. a = [k \in DOMAIN a |-> a[k]]
    OBVIOUS
<1> QED
    BY <1>3, <1>4 DEF q, Meant

LEMMA RefsAreRows ==
    ASSUME NEW s \in Asst!Changes
    PROVE  Asst!Refs(s) \in SUBSET Asst!Rows
<1>1. s.txns \in SUBSET AskTxns /\ s.item \in AskItems \cup {None} /\ s.budget \in AskBudgets \cup {None}
    BY DEF Asst!Changes
<1> QED
    BY <1>1 DEF Asst!Refs, Asst!Rows

LEMMA NewProposalIs ==
    ASSUME NEW changes \in Seq(Asst!Changes), NEW meant \in Seq(SUBSET Asst!Rows)
    PROVE  LET new == [Asst!NoProposal EXCEPT !.status = "pending", !.steps = changes, !.meant = meant]
           IN  new \in Proposal /\ new.status = "pending" /\ new.steps = changes /\ new.meant = meant
BY DEF Asst!NoProposal, Proposal

\* The proposal kept is what the AI asked for, none of it made.
LEMMA ProposeIs ==
    ASSUME Asst!Bounds, IInv, NEW r \in Requests, NEW p \in Proposals,
           NEW a \in Asks, NEW w \in Asst!Written(a), Asst!Propose(r, p, a, w)
    PROVE  /\ a \in Seq(Asst!Changes) /\ Len(a) \in 1..MAX_CHANGES /\ DOMAIN a = 1..Len(a)
           /\ req[r].pc = "asking" /\ proposal[p].status = "none"
           /\ \E new \in Proposal :
                 /\ proposal' = [proposal EXCEPT ![p] = new] /\ new.status = "pending" /\ new.steps = a
                 /\ new.meant = [k \in DOMAIN a |-> Asst!Refs(a[k])]
           /\ made' = [made EXCEPT ![p] = [k \in DOMAIN a |-> 0]]
           /\ Asst!Set(r, Asst!Reply(req[r], p)) /\ UNCHANGED <<chat, seen>>
<1> DEFINE changes == [k \in DOMAIN a |-> Asst!Resolved(req[r], w, a[k])]
           meant == [k \in DOMAIN a |-> Asst!Refs(a[k])]
           new == [Asst!NoProposal EXCEPT !.status = "pending", !.steps = changes, !.meant = meant]
<1>1. a \in Seq(Asst!Changes) /\ a # << >> /\ MAX_CHANGES \in Nat
    BY DEF Asst!Bounds
<1>2. Len(a) \in Nat /\ Len(a) # 0 /\ DOMAIN a = 1..Len(a)
    BY <1>1
<1>3. /\ req[r].pc = "asking" /\ proposal[p].status = "none"
      /\ proposal' = [proposal EXCEPT ![p] = new] /\ made' = [made EXCEPT ![p] = [k \in DOMAIN a |-> 0]]
      /\ Asst!Set(r, Asst!Reply(req[r], p)) /\ UNCHANGED <<chat, seen>>
    BY DEF Asst!Propose, Asst!Round
<1>4. changes = a
    <2>1. AllFound(req[r], w, a)
        BY DEF Asst!Propose, AllFound
    <2>2. a \in Seq(Asst!Changes) /\ req[r].pc = "asking"
        BY <1>1, <1>3
    <2>3. Meant(req[r], w, a) = a
        BY <2>1, <2>2, StepsAsMeant
    <2> QED
        BY <2>3 DEF Meant
<1>5. Len(a) <= MAX_CHANGES
    BY <1>4 DEF Asst!Propose, Asst!AllWorded
<1>6. meant \in Seq(SUBSET Asst!Rows)
    <2>1. \A k \in DOMAIN a : a[k] \in Asst!Changes
        BY <1>1
    <2>2. \A k \in DOMAIN a : Asst!Refs(a[k]) \in SUBSET Asst!Rows
        BY <2>1, RefsAreRows
    <2> QED
        BY <1>2, <2>2
<1>7. new \in Proposal /\ new.status = "pending" /\ new.steps = a /\ new.meant = meant
    <2>1. changes \in Seq(Asst!Changes)
        BY <1>1, <1>4
    <2> HIDE DEF changes, meant
    <2>2. new \in Proposal /\ new.status = "pending" /\ new.steps = changes /\ new.meant = meant
        BY <1>6, <2>1, NewProposalIs, Zenon
    <2> HIDE DEF new
    <2> QED
        BY <1>4, <2>2
<1> HIDE DEF new
<1>8. Len(a) \in 1..MAX_CHANGES
    BY <1>1, <1>2, <1>5
<1> QED
    BY <1>1, <1>2, <1>3, <1>7, <1>8, Zenon

LEMMA ProposeInv ==
    ASSUME Asst!Bounds, IInv, NEW r \in Requests, NEW p \in Proposals,
           NEW a \in Asks, NEW w \in Asst!Written(a), Asst!Propose(r, p, a, w)
    PROVE  IInv'
<1>1. /\ a \in Seq(Asst!Changes) /\ Len(a) \in 1..MAX_CHANGES /\ DOMAIN a = 1..Len(a)
      /\ req[r].pc = "asking" /\ proposal[p].status = "none"
      /\ made' = [made EXCEPT ![p] = [k \in DOMAIN a |-> 0]]
      /\ Asst!Set(r, Asst!Reply(req[r], p)) /\ UNCHANGED <<chat, seen>>
    BY ProposeIs
<1>2. PICK new \in Proposal :
         /\ proposal' = [proposal EXCEPT ![p] = new] /\ new.status = "pending" /\ new.steps = a
         /\ new.meant = [k \in DOMAIN a |-> Asst!Refs(a[k])]
    BY ProposeIs
<1>3. Asst!Reply(req[r], p) \in Request /\ Asst!Reply(req[r], p).pc = "saving"
    BY ReplyIs DEF IInv
<1>4. req' \in [Requests -> Request] /\ req'[r].pc = "saving" /\ \A o \in Requests \ {r} : req'[o] = req[o]
    BY <1>1, <1>3, SetIs DEF IInv
<1>5. proposal' \in [Proposals -> Proposal] /\ proposal'[p] = new
      /\ \A o \in Proposals \ {p} : proposal'[o] = proposal[o]
    BY <1>2 DEF IInv, Types
<1>6. Types'
    BY <1>1, <1>4, <1>5 DEF IInv, Types
<1>7. Tagged'
    BY <1>1, <1>4 DEF IInv, Tagged
<1>8. Held'
    BY <1>1, <1>4, <1>5 DEF IInv, Held
<1>9. MadeOnce'
    <2>1. [k \in DOMAIN a |-> 0] \in Seq({0, 1})
        BY <1>1
    <2>2. made' \in [Proposals -> Seq({0, 1})]
        BY <1>1, <2>1 DEF IInv, MadeOnce
    <2>3. made'[p] = [k \in DOMAIN a |-> 0] /\ \A o \in Proposals \ {p} : made'[o] = made[o]
        BY <1>1 DEF IInv, MadeOnce
    <2> QED
        BY <1>2, <1>5, <2>2, <2>3 DEF IInv, MadeOnce
<1>10. Asst!CodesMeanTheirRows'
    BY <1>2, <1>5 DEF IInv, Asst!CodesMeanTheirRows
<1> QED
    BY <1>6, <1>7, <1>8, <1>9, <1>10 DEF IInv

LEMMA CountedIs ==
    ASSUME NEW old \in Request, NEW n \in Nat
    PROVE  LET q == [old EXCEPT !.rounds = n]
           IN  q \in Request /\ q.pc = old.pc /\ q.tag = old.tag /\ q.shown = old.shown
BY DEF Request

LEMMA WordsInv ==
    ASSUME Asst!Bounds, IInv, NEW r \in Requests,
           Asst!InVain(r) \/ Asst!OnlyWords(r) \/ \E a \in Asks : \E w \in Asst!Written(a) : Asst!PutRight(r, a, w)
    PROVE  IInv'
<1>1. UNCHANGED <<proposal, chat, seen, made>> /\ req[r].pc = "asking" /\ req[r] \in Request
      /\ chat' \in [Chats -> Seq(Turn) \cup {None}]
    BY DEF IInv, Types, Asst!InVain, Asst!OnlyWords, Asst!PutRight, Asst!Round
<1>4. req[r].rounds + 1 \in Nat /\ req[r].fixes + 1 \in Nat
    BY <1>1, RequestIs
<1>5. Asst!Reply(req[r], 0) \in Request /\ Asst!Reply(req[r], 0).pc = "saving"
    BY ReplyIs DEF IInv
<1>6. \/ Asst!Set(r, Asst!Reply(req[r], 0))
      \/ Asst!Set(r, [req[r] EXCEPT !.rounds = req[r].rounds + 1])
      \/ Asst!Set(r, [req[r] EXCEPT !.rounds = req[r].rounds + 1, !.fixes = req[r].fixes + 1])
    <2>1. [req[r] EXCEPT !.rounds = req[r].rounds + 1].fixes = req[r].fixes
        BY <1>1 DEF Request
    <2>2. [req[r] EXCEPT !.rounds = @ + 1, !.fixes = @ + 1]
            = [req[r] EXCEPT !.rounds = req[r].rounds + 1, !.fixes = req[r].fixes + 1]
        BY <2>1, Zenon
    <2> QED
        BY <2>2, Zenon DEF Asst!InVain, Asst!OnlyWords, Asst!PutRight
<1>7. CASE Asst!Set(r, Asst!Reply(req[r], 0))
    BY <1>1, <1>5, <1>7, QuietOne
<1>8. CASE Asst!Set(r, [req[r] EXCEPT !.rounds = req[r].rounds + 1])
    BY <1>1, <1>4, <1>8, CountedIs, QuietOne
<1>9. CASE Asst!Set(r, [req[r] EXCEPT !.rounds = req[r].rounds + 1, !.fixes = req[r].fixes + 1])
    <2> DEFINE q == [req[r] EXCEPT !.rounds = req[r].rounds + 1, !.fixes = req[r].fixes + 1]
    <2> DEFINE n == req[r].rounds + 1
               m == req[r].fixes + 1
    <2>0. n \in Nat /\ m \in Nat /\ q = [req[r] EXCEPT !.rounds = n, !.fixes = m]
        BY <1>4
    <2> HIDE DEF q, n, m
    <2>1. q \in Request /\ q.pc = req[r].pc /\ q.tag = req[r].tag /\ q.shown = req[r].shown
        BY <1>1, <2>0 DEF Request
    <2> HIDE DEF q
    <2> QED
        BY <1>1, <1>9, <2>1, QuietOne DEF q
<1> QED
    BY <1>6, <1>7, <1>8, <1>9

LEMMA SaveInv ==
    ASSUME Asst!Bounds, IInv, NEW r \in Requests, NEW new \in Chats, Asst!Save(r, new)
    PROVE  IInv'
<1> DEFINE c == IF req[r].chat = None THEN new ELSE req[r].chat
           turn == [tag |-> req[r].tag, proposal |-> req[r].of]
<1>1. req[r].had \in Seq(Turn) /\ turn \in Turn /\ c \in Chats
    BY DEF IInv, Types, Request, Turn
<1>2. chat' = chat \/ chat' = [chat EXCEPT ![c] = Append(req[r].had, turn)]
    BY DEF Asst!Save
<1>3. Append(req[r].had, turn) \in Seq(Turn)
    BY <1>1
<1> HIDE DEF c, turn
<1>4. chat' \in [Chats -> Seq(Turn) \cup {None}]
    BY <1>1, <1>2, <1>3 DEF IInv, Types
<1> QED
    BY <1>4, IdleIs, QuietOne DEF Asst!Save

LEMMA DeleteChatInv ==
    ASSUME Asst!Bounds, IInv, NEW c \in Chats, Asst!DeleteChat(c)
    PROVE  IInv'
<1>1. chat' \in [Chats -> Seq(Turn) \cup {None}] /\ UNCHANGED <<proposal, req, seen, made>>
    BY DEF Asst!DeleteChat, IInv, Types
<1> QED
    BY <1>1, Quiet DEF IInv, Types

LEMMA BooksInv ==
    ASSUME Asst!Bounds, IInv, UNCHANGED <<proposal, chat, req, seen, made>>
    PROVE  IInv'
<1>1. req' \in [Requests -> Request] /\ chat' \in [Chats -> Seq(Turn) \cup {None}]
    BY DEF IInv, Types
<1> QED
    BY <1>1, Quiet

LEMMA DieInv ==
    ASSUME Asst!Bounds, IInv, NEW r \in Requests, Asst!Die(r)
    PROVE  IInv'
<1>1. chat' \in [Chats -> Seq(Turn) \cup {None}]
    BY DEF Asst!Die, IInv, Types
<1> QED
    BY <1>1, IdleIs, QuietOne DEF Asst!Die

-----------------------------------------------------------------------------
(* Steps of a decision                                                     *)

LEMMA DecideAgainInv ==
    ASSUME Asst!Bounds, IInv, NEW r \in Requests, NEW p \in Proposals, Asst!DecideAgain(r, p)
    PROVE  IInv'
BY QuietDone DEF Asst!DecideAgain, Asst!Settled

LEMMA ApproveInv ==
    ASSUME Asst!Bounds, IInv, NEW r \in Requests, NEW p \in Proposals, Asst!Approve(r, p)
    PROVE  IInv'
<1> DEFINE q == [Asst!Idle EXCEPT !.pc = "approving", !.of = p]
<1>1. UNCHANGED <<books, proposal, chat, seen, made>> /\ proposal[p].status = "pending" /\ ~Asst!Locked(p)
    BY DEF Asst!Approve
<1>2. CASE Asst!Done(r, p, "nothing changed")
    BY <1>1, <1>2, QuietDone
<1>3. CASE Asst!Set(r, q)
    <2>1. q \in Request /\ q.pc = "approving" /\ q.of = p
        BY IdleIs DEF Request
    <2> HIDE DEF q
    <2>2. req' \in [Requests -> Request] /\ req'[r] = q /\ \A o \in Requests \ {r} : req'[o] = req[o]
        BY <1>3, <2>1, SetIs DEF IInv
    <2>3. Types' /\ MadeOnce' /\ Asst!CodesMeanTheirRows'
        BY <1>1, <2>2 DEF IInv, Types, MadeOnce, Asst!CodesMeanTheirRows
    <2>4. Tagged'
        BY <1>1, <2>1, <2>2 DEF IInv, Tagged
    <2>5. Held'
        BY <1>1, <2>1, <2>2 DEF IInv, Held, Asst!Locked
    <2> QED
        BY <2>3, <2>4, <2>5 DEF IInv
<1> QED
    BY <1>2, <1>3 DEF Asst!Approve

\* A proposal nobody holds gets another status, and is not approved by that.
LEMMA StatusInv ==
    ASSUME IInv, NEW p \in Proposals, NEW new \in Proposal, proposal' = [proposal EXCEPT ![p] = new],
           new.steps = proposal[p].steps, new.meant = proposal[p].meant,
           new.status # proposal[p].status =>
              ~Asst!Locked(p) /\ new.status \in {"pending", "rejected"} /\ proposal[p].status = "pending",
           req' \in [Requests -> Request], UNCHANGED <<chat, seen, made>>,
           \A r \in Requests : req'[r] = req[r] \/ req'[r].pc = "idle"
    PROVE  IInv'
<1>1. proposal' \in [Proposals -> Proposal] /\ proposal'[p] = new
      /\ \A o \in Proposals \ {p} : proposal'[o] = proposal[o]
    BY DEF IInv, Types
<1>2. Types' /\ Asst!CodesMeanTheirRows'
    BY <1>1 DEF IInv, Types, Asst!CodesMeanTheirRows
<1>3. Tagged'
    BY DEF IInv, Tagged
<1>4. Held'
    <2>1. ASSUME NEW r \in Requests, req'[r].pc = "approving"
          PROVE  /\ req'[r].of \in Proposals /\ proposal'[req'[r].of].status = "pending"
                 /\ req'[r] = req[r]
        <3>1. req'[r] = req[r] /\ req[r].of \in Proposals /\ proposal[req[r].of].status = "pending"
            BY <2>1 DEF IInv, Held
        <3>2. req[r].of = p => Asst!Locked(p)
            BY <2>1, <3>1 DEF Asst!Locked
        <3> QED
            BY <1>1, <3>1, <3>2
    <2> QED
        BY <2>1 DEF IInv, Held
<1>5. MadeOnce'
    BY <1>1 DEF IInv, MadeOnce
<1> QED
    BY <1>2, <1>3, <1>4, <1>5 DEF IInv

LEMMA AgeInv ==
    ASSUME Asst!Bounds, IInv, NEW p \in Proposals, Asst!Age(p)
    PROVE  IInv'
<1> DEFINE new == [proposal[p] EXCEPT !.aged = TRUE]
<1>1. proposal[p] \in Proposal
    BY DEF IInv, Types
<1>2. /\ new \in Proposal /\ new.steps = proposal[p].steps /\ new.meant = proposal[p].meant
      /\ new.status = proposal[p].status
    BY <1>1 DEF Proposal
<1>3. proposal' = [proposal EXCEPT ![p] = new] /\ UNCHANGED <<chat, req, seen, made>>
    BY DEF Asst!Age
<1>4. req' \in [Requests -> Request]
    BY <1>3 DEF IInv, Types
<1> HIDE DEF new
<1> QED
    BY <1>2, <1>3, <1>4, StatusInv

LEMMA RejectInv ==
    ASSUME Asst!Bounds, IInv, NEW r \in Requests, NEW p \in Proposals, Asst!Reject(r, p)
    PROVE  IInv'
<1> DEFINE new == [proposal[p] EXCEPT !.status = "rejected"]
<1>1. proposal[p] \in Proposal /\ proposal[p].status = "pending" /\ ~Asst!Locked(p)
    BY DEF IInv, Types, Asst!Reject
<1>2. /\ new \in Proposal /\ new.steps = proposal[p].steps /\ new.meant = proposal[p].meant
      /\ new.status = "rejected"
    BY <1>1 DEF Proposal
<1>3. proposal' = [proposal EXCEPT ![p] = new] /\ UNCHANGED <<chat, seen, made>> /\ Asst!Done(r, p, "rejected")
    BY DEF Asst!Reject
<1>4. req' \in [Requests -> Request] /\ \A o \in Requests : req'[o] = req[o] \/ req'[o].pc = "idle"
    BY <1>3, DoneIs DEF IInv
<1> HIDE DEF new
<1> QED
    BY <1>1, <1>2, <1>3, <1>4, StatusInv

LEMMA RunStepInv ==
    ASSUME Asst!Bounds, IInv, NEW r \in Requests, NEW new \in AskItems \cup AskBudgets \cup {None}, Asst!RunStep(r, new)
    PROVE  IInv'
<1> DEFINE old == req[r]
           q == [old EXCEPT !.k = @ + 1, !.ids = Append(@, new)]
<1>1. UNCHANGED <<books, proposal, chat, seen, made>> /\ old.pc = "approving"
      /\ (Asst!Set(r, q) \/ Asst!Done(r, old.of, "nothing changed"))
    BY DEF Asst!RunStep
<1>2. old \in Request /\ old.of \in Proposals /\ chat' \in [Chats -> Seq(Turn) \cup {None}]
    BY <1>1 DEF IInv, Types, Held
<1>3. CASE Asst!Set(r, q)
    <2> DEFINE n == old.k + 1
               ids == Append(old.ids, new)
    <2>1. n \in Nat
        BY <1>2, RequestIs
    <2>2. old.ids \in Seq(AskItems \cup AskBudgets \cup {None})
        BY <1>2 DEF Request
    <2>3. ids \in Seq(AskItems \cup AskBudgets \cup {None})
        BY <2>2
    <2>4. [old EXCEPT !.k = n].ids = old.ids
        BY <1>2 DEF Request
    <2>5. q = [old EXCEPT !.k = n, !.ids = ids]
        BY <2>4, Zenon
    <2> HIDE DEF q, n, ids
    <2>6. q \in Request /\ q.pc = "approving" /\ q.of = old.of
        BY <1>1, <1>2, <2>1, <2>3, <2>5 DEF Request
    <2> QED
        BY <1>1, <1>2, <1>3, <2>6, QuietOne
<1>4. CASE Asst!Done(r, old.of, "nothing changed")
    BY <1>1, <1>2, <1>4, QuietDone
<1> QED
    BY <1>1, <1>3, <1>4

LEMMA CommitInv ==
    ASSUME Asst!Bounds, IInv, NEW r \in Requests, Asst!Commit(r)
    PROVE  IInv'
<1> DEFINE p == req[r].of
           new == [proposal[p] EXCEPT !.status = "approved"]
           once == [k \in DOMAIN made[p] |-> made[p][k] + 1]
<1>1. p \in Proposals /\ proposal[p] \in Proposal /\ proposal[p].status = "pending" /\ req[r].pc = "approving"
    BY DEF IInv, Types, Held, Asst!Commit
<1>2. /\ new \in Proposal /\ new.steps = proposal[p].steps /\ new.meant = proposal[p].meant
      /\ new.status = "approved"
    BY <1>1 DEF Proposal
<1>3. proposal' = [proposal EXCEPT ![p] = new] /\ UNCHANGED <<chat, seen>> /\ Asst!Done(r, p, "approved")
      /\ made' = [made EXCEPT ![p] = once]
    BY <1>1 DEF Asst!Commit, IInv, MadeOnce
<1>4. once \in Seq({0, 1}) /\ DOMAIN once = DOMAIN made[p] /\ \A k \in DOMAIN once : once[k] = 1
    BY <1>1 DEF IInv, MadeOnce
<1> HIDE DEF new, once
<1>5. proposal' \in [Proposals -> Proposal] /\ proposal'[p] = new
      /\ \A o \in Proposals \ {p} : proposal'[o] = proposal[o]
    BY <1>1, <1>2, <1>3 DEF IInv, Types
<1>6. made' \in [Proposals -> Seq({0, 1})] /\ made'[p] = once /\ \A o \in Proposals \ {p} : made'[o] = made[o]
    BY <1>1, <1>3, <1>4 DEF IInv, MadeOnce
<1>7. req' \in [Requests -> Request] /\ req'[r].pc = "idle" /\ \A o \in Requests \ {r} : req'[o] = req[o]
    BY <1>1, <1>3, DoneIs DEF IInv
<1> HIDE DEF p
<1>8. Types' /\ Asst!CodesMeanTheirRows'
    BY <1>2, <1>3, <1>5, <1>7 DEF IInv, Types, Asst!CodesMeanTheirRows
<1>9. Tagged'
    BY <1>3, <1>7 DEF IInv, Tagged
<1>10. Held'
    BY <1>1, <1>5, <1>7 DEF IInv, Held, p
<1>11. MadeOnce'
    BY <1>2, <1>4, <1>5, <1>6 DEF IInv, MadeOnce
<1> QED
    BY <1>8, <1>9, <1>10, <1>11 DEF IInv

-----------------------------------------------------------------------------
(* The invariant                                                           *)

LEMMA NextInv == Asst!Bounds /\ IInv /\ [Asst!Next]_Asst!vars => IInv'
<1> SUFFICES ASSUME Asst!Bounds, IInv, [Asst!Next]_Asst!vars PROVE IInv'
    OBVIOUS
<1>1. CASE \E r \in Requests : \E c \in Chats \cup {None} : Asst!Ask(r, c)
    BY <1>1, AskInv
<1>2. CASE \E r \in Requests : \E row \in Asst!Rows : Asst!LookUp(r, row)
    BY <1>2, LookUpInv
<1>3. CASE \E r \in Requests :
              Asst!InVain(r) \/ Asst!OnlyWords(r) \/ \E a \in Asks : \E w \in Asst!Written(a) : Asst!PutRight(r, a, w)
    BY <1>3, WordsInv
<1>4. CASE \E r \in Requests : \E a \in Asks : \E w \in Asst!Written(a) : \E p \in Proposals : Asst!Propose(r, p, a, w)
    BY <1>4, ProposeInv
<1>5. CASE \E r \in Requests : \E c \in Chats : Asst!Save(r, c)
    BY <1>5, SaveInv
<1>6. CASE \E r \in Requests : \E p \in Proposals : Asst!Approve(r, p) \/ Asst!Reject(r, p) \/ Asst!DecideAgain(r, p)
    BY <1>6, ApproveInv, RejectInv, DecideAgainInv
<1>7. CASE \E r \in Requests : \E new \in AskItems \cup AskBudgets \cup {None} : Asst!RunStep(r, new)
    BY <1>7, RunStepInv
<1>8. CASE \E r \in Requests : Asst!Commit(r) \/ Asst!Die(r)
    BY <1>8, CommitInv, DieInv
<1>9. CASE \E c \in Chats : Asst!DeleteChat(c)
    BY <1>9, DeleteChatInv
<1>10. CASE \E p \in Proposals : Asst!Age(p)
    BY <1>10, AgeInv
<1>11. CASE \/ \E c \in AskCats : Asst!DeleteCategory(c)
            \/ \E t \in AskTxns : Asst!DeleteTransaction(t)
            \/ UNCHANGED Asst!vars
    <2>1. UNCHANGED <<proposal, chat, req, seen, made>>
        BY <1>11 DEF Asst!DeleteCategory, Asst!DeleteTransaction, Asst!vars
    <2> QED
        BY <2>1, BooksInv
<1> QED
    BY <1>1, <1>2, <1>3, <1>4, <1>5, <1>6, <1>7, <1>8, <1>9, <1>10, <1>11 DEF Asst!Next

LEMMA Inductive == Asst!Bounds => (Asst!Spec => []IInv)
<1> SUFFICES ASSUME Asst!Bounds PROVE Asst!Spec => []IInv
    OBVIOUS
<1>1. Asst!Init => IInv
    BY InitInv
<1>2. IInv /\ [Asst!Next]_Asst!vars => IInv'
    BY NextInv
<1> QED
    BY <1>1, <1>2, PTL DEF Asst!Spec

(* However many questions, answers and look-ups interleave, and whichever   *)
(* codes the AI writes of all it was ever given, every change proposed is   *)
(* about the rows the AI meant (ai/tools/base.py:89-114).                   *)
THEOREM CodesMean == Asst!Bounds => (Asst!Spec => []CodesMeanTheirRows)
<1> SUFFICES ASSUME Asst!Bounds PROVE Asst!Spec => []CodesMeanTheirRows
    OBVIOUS
<1>1. IInv => CodesMeanTheirRows
    BY DEF IInv, CodesMeanTheirRows
<1> QED
    BY <1>1, Inductive, PTL

(* No proposal is ever held by two approvals, and what is approved, and     *)
(* nothing else, was made, each of its changes once                         *)
(* (ai/proposals.py:122-129, 181-219).                                      *)
THEOREM MadeWhenApproved == Asst!Bounds => (Asst!Spec => [](Held /\ MadeOnce))
<1> SUFFICES ASSUME Asst!Bounds PROVE Asst!Spec => [](Held /\ MadeOnce)
    OBVIOUS
<1>1. IInv => Held /\ MadeOnce
    BY DEF IInv
<1> QED
    BY <1>1, Inductive, PTL

-----------------------------------------------------------------------------
(* What the books hold                                                     *)

\* What EXCEPT needs to know of a row, and that its category is one of some.
Paid(x, C) == x = [f \in {"here", "cat", "chosen", "item"} |-> x[f]] /\ x.cat \in C \cup {None}
Tracked(x, C) == x = [f \in {"state", "payee", "cat", "active", "stopped"} |-> x[f]] /\ x.cat \in C \cup {None}
AllPaid(f, C) == f = [t \in AskTxns |-> f[t]] /\ \A t \in AskTxns : Paid(f[t], C)
AllTracked(f, C) == f = [i \in AskItems |-> f[i]] /\ \A i \in AskItems : Tracked(f[i], C)
BookFields(b) == b = [f \in {"cats", "groups", "tx", "items", "autos", "budgets", "sources"} |-> b[f]]
Stored(b) ==
    /\ BookFields(b) /\ b.cats \subseteq AskCats /\ b.groups \subseteq Groups
    /\ AllPaid(b.tx, b.cats) /\ AllTracked(b.items, b.cats)

\* Other rows, of the categories there are.
LEMMA OtherPayments ==
    ASSUME NEW b, Stored(b), NEW f, AllPaid(f, b.cats)
    PROVE  Stored([b EXCEPT !.tx = f]) /\ [b EXCEPT !.tx = f].cats = b.cats
BY DEF Stored, BookFields

LEMMA OtherItems ==
    ASSUME NEW b, Stored(b), NEW f, AllTracked(f, b.cats)
    PROVE  Stored([b EXCEPT !.items = f]) /\ [b EXCEPT !.items = f].cats = b.cats
BY DEF Stored, BookFields

LEMMA OtherItem ==
    ASSUME NEW b, Stored(b), NEW i, NEW x, Tracked(x, b.cats)
    PROVE  Stored([b EXCEPT !.items[i] = x]) /\ [b EXCEPT !.items[i] = x].cats = b.cats
<1> DEFINE f == [b.items EXCEPT ![i] = x]
<1>1. AllTracked(f, b.cats)
    BY DEF Stored, AllTracked
<1>2. [b EXCEPT !.items[i] = x] = [b EXCEPT !.items = f]
    BY DEF Stored, BookFields
<1> HIDE DEF f
<1> QED
    BY <1>1, <1>2, OtherItems

\* A payment whose category changes to one there is, or that is linked.
LEMMA PaymentWith ==
    ASSUME NEW C, NEW x, Paid(x, C), NEW i, NEW cat \in C \cup {None}, NEW chosen
    PROVE  /\ Paid([x EXCEPT !.item = i, !.cat = cat], C)
           /\ Paid([x EXCEPT !.cat = cat, !.chosen = chosen], C)
           /\ Paid([x EXCEPT !.cat = cat], C)
BY DEF Paid

LEMMA CategorizedKept ==
    ASSUME NEW b, Stored(b), NEW s, s.cat \in b.cats \cup {None}
    PROVE  Stored(Asst!Categorized(b, s)) /\ Asst!Categorized(b, s).cats = b.cats
<1> DEFINE f == [t \in AskTxns |-> IF t \in s.txns /\ b.tx[t].here THEN [b.tx[t] EXCEPT !.cat = s.cat, !.chosen = TRUE] ELSE b.tx[t]]
<1>1. Asst!Categorized(b, s) = [b EXCEPT !.tx = f]
    BY DEF Asst!Categorized, Asst!Each
<1>2. AllPaid(f, b.cats)
    BY PaymentWith DEF Stored, AllPaid
<1> HIDE DEF f
<1> QED
    BY <1>1, <1>2, OtherPayments

LEMMA CategoryKept ==
    ASSUME NEW b, Stored(b), NEW s, s.cat \in AskCats, s.group \in Groups
    PROVE  Stored(Asst!CategoryAdded(b, s)) /\ Asst!CategoryAdded(b, s).cats = b.cats \cup {s.cat}
<1> DEFINE C == b.cats \cup {s.cat}
           G == b.groups \cup {s.group}
           new == [b EXCEPT !.cats = C, !.groups = G]
<1>1. Asst!CategoryAdded(b, s) = new
    BY DEF Asst!CategoryAdded, Stored, BookFields
<1>2. AllPaid(b.tx, C) /\ AllTracked(b.items, C) /\ C \subseteq AskCats /\ G \subseteq Groups
    BY DEF Stored, AllPaid, AllTracked, Paid, Tracked
<1> HIDE DEF C, G
<1>3. BookFields(new) /\ new.cats = C /\ new.groups = G /\ new.tx = b.tx /\ new.items = b.items
    BY DEF Stored, BookFields
<1> HIDE DEF new
<1> QED
    BY <1>1, <1>2, <1>3 DEF Stored, C

LEMMA SortedKept ==
    ASSUME NEW b, Stored(b), NEW s, s.cat \in b.cats \cup {None}, NEW i
    PROVE  Stored(Asst!Sorted(b, s, i)) /\ Asst!Sorted(b, s, i).cats = b.cats
<1>1. PICK catFinds : catFinds = s.finds \ UNION {b.autos[n].finds : n \in {m \in DOMAIN b.autos : b.autos[m].cat # None}}
    OBVIOUS
<1>2. PICK itemFinds : itemFinds = s.finds \ UNION {b.autos[n].finds : n \in {m \in DOMAIN b.autos : b.autos[m].item # None}}
    OBVIOUS
<1> DEFINE Sort(x, payee) ==
              [x EXCEPT !.item = IF i # None /\ b.items[i].active /\ payee \in itemFinds THEN i ELSE @,
                        !.cat = IF s.cat # None /\ payee \in catFinds /\ ~x.chosen THEN s.cat ELSE @]
           f == [t \in AskTxns |-> IF b.tx[t].here /\ "future" \notin s.sets THEN Sort(b.tx[t], PayeeOf[t]) ELSE b.tx[t]]
           autos == Append(b.autos, [finds |-> s.finds, cat |-> s.cat, item |-> i])
<1>3. Asst!Sorted(b, s, i) = [b EXCEPT !.autos = autos, !.tx = f]
    BY <1>1, <1>2 DEF Asst!Sorted
<1>4. ASSUME NEW x, Paid(x, b.cats), NEW payee PROVE Paid(Sort(x, payee), b.cats)
    BY <1>4 DEF Paid
<1> HIDE DEF Sort
<1>5. AllPaid(f, b.cats)
    BY <1>4 DEF Stored, AllPaid
<1> HIDE DEF f, autos
<1> DEFINE new == [b EXCEPT !.autos = autos, !.tx = f]
<1>6. BookFields(new) /\ new.cats = b.cats /\ new.groups = b.groups /\ new.tx = f /\ new.items = b.items
    BY DEF Stored, BookFields
<1> HIDE DEF new
<1> QED
    BY <1>3, <1>5, <1>6 DEF Stored, new

LEMMA CreatedKept ==
    ASSUME NEW b, Stored(b), NEW s, s.cat \in b.cats \cup {None}, NEW i
    PROVE  Stored(Asst!Created(b, s, i)) /\ Asst!Created(b, s, i).cats = b.cats
<1> DEFINE it == [state |-> "here", payee |-> s.payee, cat |-> s.cat, active |-> TRUE, stopped |-> FALSE]
           c == [b EXCEPT !.items[i] = it]
           f == [t \in AskTxns |-> IF t \in {t1 \in AskTxns : PayeeOf[t1] = s.payee} /\ c.tx[t].here
                                   THEN [c.tx[t] EXCEPT !.item = i, !.cat = Asst!Given(s.cat, @)] ELSE c.tx[t]]
<1>1. Asst!Created(b, s, i) = [c EXCEPT !.tx = f]
    BY DEF Asst!Created, Asst!Each
<1>2. Tracked(it, b.cats)
    BY DEF Tracked
<1> HIDE DEF it
<1>3. Stored(c) /\ c.cats = b.cats
    BY <1>2, OtherItem
<1> HIDE DEF c
<1>4. \A x : Paid(x, b.cats) => Paid([x EXCEPT !.item = i, !.cat = Asst!Given(s.cat, @)], b.cats)
    BY DEF Paid, Asst!Given
<1>5. AllPaid(f, b.cats)
    BY <1>3, <1>4 DEF Stored, AllPaid
<1> HIDE DEF f
<1> QED
    BY <1>1, <1>3, <1>5, OtherPayments

LEMMA UpdatedKept ==
    ASSUME NEW b, Stored(b), NEW s, s.cat \in b.cats \cup {None}, s.item \in AskItems
    PROVE  Stored(Asst!Updated(b, s)) /\ Asst!Updated(b, s).cats = b.cats
<1> DEFINE i == s.item
           it == [b.items[i] EXCEPT
                     !.cat = IF "category" \in s.sets THEN s.cat ELSE @,
                     !.active = IF "pause" \in s.sets THEN FALSE
                                ELSE @ \/ s.sets \cap {"resume", "reactivate"} # {},
                     !.stopped = IF "cancel" \in s.sets THEN TRUE ELSE @ /\ "reactivate" \notin s.sets]
           c == [b EXCEPT !.items[i] = it]
           f == [t \in AskTxns |-> IF t \in {t1 \in AskTxns : b.tx[t1].item = i} /\ c.tx[t].here
                                   THEN (IF "category" \in s.sets THEN [c.tx[t] EXCEPT !.cat = s.cat] ELSE c.tx[t])
                                   ELSE c.tx[t]]
           d == [c EXCEPT !.tx = f]
           back == IF ~b.items[i].active /\ s.sets \cap {"resume", "reactivate"} # {}
                   THEN {t \in AskTxns : PayeeOf[t] = it.payee} ELSE {}
           g == [t \in AskTxns |-> IF t \in back /\ d.tx[t].here
                                   THEN [d.tx[t] EXCEPT !.item = i, !.cat = Asst!Given(it.cat, @)] ELSE d.tx[t]]
<1>1. Asst!Updated(b, s) = [d EXCEPT !.tx = g]
    BY DEF Asst!Updated, Asst!Each
<1>2. Tracked(it, b.cats) /\ it.cat \in b.cats \cup {None}
    <2>1. Tracked(b.items[i], b.cats)
        BY DEF Stored, AllTracked
    <2>2. PICK cat : cat = IF "category" \in s.sets THEN s.cat ELSE b.items[i].cat
        OBVIOUS
    <2>3. cat \in b.cats \cup {None}
        BY <2>1, <2>2 DEF Tracked
    <2>4. it = [b.items[i] EXCEPT !.cat = cat, !.active = it.active, !.stopped = it.stopped]
        BY <2>1, <2>2 DEF Tracked
    <2> HIDE DEF it
    <2> QED
        BY <2>1, <2>3, <2>4 DEF Tracked
<1> HIDE DEF it, back
<1>3. Stored(c) /\ c.cats = b.cats
    BY <1>2, OtherItem
<1> HIDE DEF c
<1>4. AllPaid(f, c.cats)
    BY <1>3, PaymentWith DEF Stored, AllPaid
<1> HIDE DEF f
<1>5. Stored(d) /\ d.cats = b.cats
    BY <1>3, <1>4, OtherPayments
<1> HIDE DEF d
<1>6. \A x : Paid(x, b.cats) => Paid([x EXCEPT !.item = i, !.cat = Asst!Given(it.cat, @)], b.cats)
    BY <1>2 DEF Paid, Asst!Given
<1>7. AllPaid(g, d.cats)
    BY <1>5, <1>6 DEF Stored, AllPaid
<1> HIDE DEF g
<1> QED
    BY <1>1, <1>5, <1>7, OtherPayments

\* What changes are given: a category that is added has a name and a group, and what is
\* changed is there.
Named(s) ==
    /\ s.tool = "category" => s.cat \in AskCats /\ s.group \in Groups
    /\ s.tool = "update recurring" => s.item \in AskItems
NewCat(s) == IF s.tool = "category" THEN {s.cat} ELSE {}

\* A change that names a category there is leaves none that there isn't.
LEMMA RunKept ==
    ASSUME NEW b, Stored(b), NEW s, Named(s), s.tool = "category" \/ s.cat \in b.cats \cup {None}, NEW new
    PROVE  Stored(Asst!Run(b, s, new)) /\ Asst!Run(b, s, new).cats = b.cats \cup NewCat(s)
<1>1. CASE s.tool = "category"
    <2>1. Asst!Run(b, s, new) = Asst!CategoryAdded(b, s) /\ NewCat(s) = {s.cat} /\ s.cat \in AskCats /\ s.group \in Groups
        BY <1>1 DEF Asst!Run, NewCat, Named
    <2> QED
        BY <2>1, CategoryKept
<1>2. CASE s.tool # "category"
    <2>1. s.cat \in b.cats \cup {None} /\ NewCat(s) = {}
        BY <1>2 DEF NewCat
    <2>2. CASE s.tool = "categorize"
        <3>1. Asst!Run(b, s, new) = Asst!Categorized(b, s)
            BY <2>2 DEF Asst!Run
        <3> QED
            BY <2>1, <3>1, CategorizedKept
    <2>3. CASE s.tool = "automation"
        <3>1. Asst!Run(b, s, new) = Asst!Sorted(b, s, s.item)
            BY <2>3 DEF Asst!Run
        <3> QED
            BY <2>1, <3>1, SortedKept
    <2>4. CASE s.tool = "recurring"
        <3>1. PICK c : c = Asst!Created(b, s, new)
            OBVIOUS
        <3>2. Asst!Run(b, s, new) = IF s.finds = {} THEN c ELSE Asst!Sorted(c, s, new)
            BY <2>4, <3>1 DEF Asst!Run
        <3>3. Stored(c) /\ c.cats = b.cats
            BY <2>1, <3>1, CreatedKept
        <3>4. Stored(Asst!Sorted(c, s, new)) /\ Asst!Sorted(c, s, new).cats = b.cats
            BY <2>1, <3>3, SortedKept
        <3>5. b.cats \cup NewCat(s) = b.cats
            BY <2>1
        <3>6. CASE s.finds = {}
            <4>1. Asst!Run(b, s, new) = c
                BY <3>2, <3>6, Zenon
            <4> QED
                BY <3>3, <3>5, <4>1, Zenon
        <3>7. CASE s.finds # {}
            <4>1. Asst!Run(b, s, new) = Asst!Sorted(c, s, new)
                BY <3>2, <3>7, Zenon
            <4> QED
                BY <3>4, <3>5, <4>1, Zenon
        <3> QED
            BY <3>6, <3>7
    <2>5. CASE s.tool = "update recurring"
        <3>1. Asst!Run(b, s, new) = Asst!Updated(b, s)
            BY <2>5 DEF Asst!Run
        <3> QED
            BY <2>1, <2>5, <3>1, UpdatedKept DEF Named
    <2>6. CASE s.tool = "budget"
        <3>1. Asst!Run(b, s, new) = [b EXCEPT !.budgets = b.budgets \cup {new}]
            BY <2>6 DEF Asst!Run
        <3> QED
            BY <2>1, <3>1 DEF Stored, BookFields
    <2>7. CASE s.tool = "source"
        <3>1. PICK sources : sources = b.sources \cup {<<s.budget, s.cat, s.item>>}
            OBVIOUS
        <3>2. Asst!Run(b, s, new) = [b EXCEPT !.sources = sources]
            BY <2>7, <3>1 DEF Asst!Run, Asst!SourceAdded
        <3> QED
            BY <2>1, <3>2 DEF Stored, BookFields
    <2>8. CASE s.tool \notin {"categorize", "category", "automation", "recurring", "update recurring", "budget", "source"}
        <3>1. Asst!Run(b, s, new) = b
            BY <2>8 DEF Asst!Run
        <3> QED
            BY <2>1, <3>1
    <2> QED
        BY <1>2, <2>2, <2>3, <2>4, <2>5, <2>6, <2>7, <2>8
<1> QED
    BY <1>1, <1>2

-----------------------------------------------------------------------------
(* The books after some changes                                            *)

\* The categories that a proposal's first changes add, and that each of them names one
\* there is by then.
AddedBy(changes, n) == {changes[j].cat : j \in {i \in 1..n : changes[i].tool = "category"}}
NamesKnown(cats, changes, n) ==
    \A j \in 1..n : changes[j].tool = "category" \/ changes[j].cat \in cats \cup AddedBy(changes, j - 1) \cup {None}

LEMMA OneMoreAdded ==
    ASSUME NEW changes, NEW n \in Nat \ {0}
    PROVE  AddedBy(changes, n) = AddedBy(changes, n - 1) \cup NewCat(changes[n])
BY DEF AddedBy, NewCat

Makes(b, changes, ids, n, g) ==
    g = [k \in 0..n |-> IF k = 0 THEN b ELSE Asst!Run(g[k - 1], changes[k], ids[k])]

LEMMA MakesExist ==
    ASSUME NEW b, NEW changes, NEW ids, NEW n \in Nat
    PROVE  \E g : Makes(b, changes, ids, n, g)
<1> DEFINE B == {k \in Nat : ~ \E g : Makes(b, changes, ids, k, g)}
<1>1. SUFFICES ASSUME B # {} PROVE FALSE
    OBVIOUS
<1>2. PICK k \in B : \A j \in B : k <= j
    <2>1. B \in SUBSET Nat
        OBVIOUS
    <2> HIDE DEF B
    <2> QED
        BY <1>1, <2>1, LeastNumber
<1>3. CASE k = 0
    <2> DEFINE g == [j \in 0..0 |-> b]
    <2>1. Makes(b, changes, ids, 0, g)
        BY DEF Makes
    <2> QED
        BY <1>2, <1>3, <2>1
<1>4. CASE k # 0
    <2>1. k - 1 \in Nat /\ k - 1 \notin B
        BY <1>2, <1>4
    <2>2. PICK h : Makes(b, changes, ids, k - 1, h)
        BY <2>1
    <2> DEFINE made2(j) == IF j = 0 THEN b ELSE Asst!Run(h[j - 1], changes[j], ids[j])
               g == [j \in 0..k |-> made2(j)]
    <2>3. \A j \in 0..k - 1 : h[j] = made2(j)
        BY <2>2 DEF Makes
    <2>4. \A j \in 0..k - 1 : g[j] = h[j]
        BY <1>2, <2>3
    <2>5. \A j \in 0..k : made2(j) = IF j = 0 THEN b ELSE Asst!Run(g[j - 1], changes[j], ids[j])
        <3> SUFFICES ASSUME NEW j \in 0..k, j # 0 PROVE g[j - 1] = h[j - 1]
            OBVIOUS
        <3>1. j - 1 \in 0..k - 1
            BY <1>2
        <3> HIDE DEF g
        <3> QED
            BY <2>4, <3>1
    <2>6. Makes(b, changes, ids, k, g)
        BY <2>5 DEF Makes
    <2> HIDE DEF g
    <2> QED
        BY <1>2, <2>6
<1> QED
    BY <1>3, <1>4

\* However many changes there are: each names a category there is by then.
LEMMA AfterStored ==
    ASSUME NEW b, Stored(b), NEW changes, NEW ids, NEW n \in Nat,
           \A k \in 1..n : Named(changes[k]), NamesKnown(b.cats, changes, n)
    PROVE  /\ Stored(Asst!After(b, changes, ids, n))
           /\ Asst!After(b, changes, ids, n).cats = b.cats \cup AddedBy(changes, n)
<1>1. PICK g : g = CHOOSE f : Makes(b, changes, ids, n, f)
    OBVIOUS
<1>2. Makes(b, changes, ids, n, g)
    BY <1>1, MakesExist
<1>3. Asst!After(b, changes, ids, n) = g[n]
    BY <1>1 DEF Asst!After, Makes
<1>4. g[0] = b /\ \A k \in 1..n : g[k] = Asst!Run(g[k - 1], changes[k], ids[k])
    BY <1>2 DEF Makes
<1> DEFINE Right(k) == Stored(g[k]) /\ g[k].cats = b.cats \cup AddedBy(changes, k)
           B == {k \in 0..n : ~Right(k)}
<1>5. SUFFICES ASSUME B # {} PROVE FALSE
    <2>1. n \in 0..n
        OBVIOUS
    <2> QED
        BY <1>3, <1>5, <2>1
<1>6. PICK k \in B : \A j \in B : k <= j
    <2>1. B \in SUBSET Nat
        OBVIOUS
    <2> HIDE DEF B
    <2> QED
        BY <1>5, <2>1, LeastNumber
<1>7. k # 0
    <2>1. AddedBy(changes, 0) = {}
        BY DEF AddedBy
    <2>2. Right(0)
        BY <1>4, <2>1
    <2> HIDE DEF Right
    <2> QED
        BY <1>6, <2>2
<1>8. k - 1 \in 0..n /\ k - 1 \notin B /\ k \in 1..n /\ k \in Nat \ {0}
    BY <1>6, <1>7
<1>9. Stored(g[k - 1]) /\ g[k - 1].cats = b.cats \cup AddedBy(changes, k - 1)
    BY <1>8
<1>10. Named(changes[k]) /\ (changes[k].tool = "category" \/ changes[k].cat \in g[k - 1].cats \cup {None})
    BY <1>8, <1>9 DEF NamesKnown
<1>11. Stored(g[k]) /\ g[k].cats = g[k - 1].cats \cup NewCat(changes[k])
    BY <1>4, <1>8, <1>9, <1>10, RunKept
<1>12. Right(k)
    BY <1>8, <1>9, <1>11, OneMoreAdded
<1> QED
    BY <1>6, <1>12

-----------------------------------------------------------------------------
(* Types                                                                   *)

AllNamed == \A p \in Proposals : \A k \in DOMAIN proposal[p].steps : Named(proposal[p].steps[k])
\* What an approval has done so far names only categories there are, or that it adds.
UnderWay ==
    \A r \in Requests : req[r].pc = "approving" =>
        LET changes == proposal[req[r].of].steps
        IN  req[r].k <= Len(changes) /\ NamesKnown(books.cats, changes, req[r].k)
Numbered == \A e \in seen : e.code.n \in 1..Cardinality(Asst!Rows)
AskTyped == IInv /\ Stored(books) /\ AllNamed /\ UnderWay /\ Numbered

\* The books an approval sees.
LEMMA ViewIs ==
    ASSUME AskTyped, NEW r \in Requests, req[r].pc = "approving"
    PROVE  LET changes == proposal[req[r].of].steps
           IN  /\ changes \in Seq(Asst!Changes) /\ DOMAIN changes = 1..Len(changes) /\ Len(changes) \in Nat
               /\ req[r].of \in Proposals /\ req[r].k \in Nat /\ req[r].k <= Len(changes)
               /\ Stored(Asst!View(r)) /\ Asst!View(r).cats = books.cats \cup AddedBy(changes, req[r].k)
<1> DEFINE changes == proposal[req[r].of].steps
<1>1. req[r].of \in Proposals /\ req[r].k \in Nat /\ changes \in Seq(Asst!Changes)
    BY DEF AskTyped, IInv, Held, Types, Request, Proposal
<1>2. DOMAIN changes = 1..Len(changes) /\ Len(changes) \in Nat
    BY <1>1
<1>3. req[r].k <= Len(changes) /\ NamesKnown(books.cats, changes, req[r].k)
    BY DEF AskTyped, UnderWay
<1>4. \A k \in 1..req[r].k : Named(changes[k])
    BY <1>1, <1>2, <1>3 DEF AskTyped, AllNamed
<1>5. Asst!View(r) = Asst!After(books, changes, req[r].ids, req[r].k)
    BY DEF Asst!View
<1>6. Stored(books)
    BY DEF AskTyped
<1> HIDE DEF changes
<1>7. Stored(Asst!View(r)) /\ Asst!View(r).cats = books.cats \cup AddedBy(changes, req[r].k)
    BY <1>1, <1>3, <1>4, <1>5, <1>6, AfterStored
<1> QED
    BY <1>1, <1>2, <1>3, <1>7 DEF changes

\* Steps that change neither the books nor a proposal's changes, and start or go on with
\* no approval.
LEMMA OthersTyped ==
    ASSUME AskTyped, IInv', UNCHANGED books, AllNamed', Numbered',
           \A r \in Requests : req'[r].pc = "approving" =>
              /\ req[r].pc = "approving" /\ req'[r].of = req[r].of /\ req'[r].k = req[r].k
              /\ proposal'[req[r].of].steps = proposal[req[r].of].steps
    PROVE  AskTyped'
<1>1. Stored(books)'
    BY DEF AskTyped
<1>2. UnderWay'
    BY DEF AskTyped, UnderWay
<1> QED
    BY <1>1, <1>2 DEF AskTyped

LEMMA QuietTyped ==
    ASSUME AskTyped, IInv', UNCHANGED <<books, proposal, seen>>,
           \A r \in Requests : req'[r].pc = "approving" =>
              req[r].pc = "approving" /\ req'[r].of = req[r].of /\ req'[r].k = req[r].k
    PROVE  AskTyped'
<1>1. AllNamed' /\ Numbered'
    BY DEF AskTyped, AllNamed, Numbered
<1> QED
    BY <1>1, OthersTyped

\* A request that isn't approving afterwards, and the others stay.
LEMMA OneTyped ==
    ASSUME AskTyped, IInv', UNCHANGED <<books, proposal, seen>>, NEW r \in Requests, NEW q, Asst!Set(r, q),
           q.pc # "approving"
    PROVE  AskTyped'
<1>1. req'[r] = q /\ \A o \in Requests \ {r} : req'[o] = req[o]
    BY DEF AskTyped, IInv, Types, Asst!Set
<1> QED
    BY <1>1, QuietTyped

\* An answer numbers no more rows than there are.
LEMMA NumberIs ==
    ASSUME Asst!Bounds, NEW s \in Seq(Asst!Rows), NoneTwice(s), NEW row \in Asst!ToSet(s)
    PROVE  Cardinality(UpTo(s, row)) \in 1..Cardinality(Asst!Rows) 
<1>1. IsFiniteSet(Asst!Rows)
    BY DEF Asst!Bounds, Asst!IsFiniteSet, IsFiniteSet
<1> DEFINE f == [i \in UpTo(s, row) |-> s[i]]
<1>2. UpTo(s, row) \subseteq 1..Len(s) /\ DOMAIN s = 1..Len(s) /\ Len(s) \in Nat
      /\ IsFiniteSet(UpTo(s, row)) /\ Cardinality(UpTo(s, row)) \in Nat
    BY UpToIs
<1>3. f \in Injection(UpTo(s, row), Asst!Rows)
    <2>1. f \in [UpTo(s, row) -> Asst!Rows]
        BY <1>2
    <2>2. \A i, j \in UpTo(s, row) : f[i] = f[j] => i = j
        BY <1>2 DEF NoneTwice
    <2> HIDE DEF f
    <2> QED
        BY <2>1, <2>2 DEF Injection, IsInjective
<1>4. Cardinality(UpTo(s, row)) <= Cardinality(Asst!Rows)
    BY <1>1, <1>3, FS_Injection
<1>5. PICK i \in 1..Len(s) : s[i] = row
    BY <1>2 DEF Asst!ToSet
<1>6. i \in UpTo(s, row)
    BY <1>2, <1>5 DEF UpTo
<1>7. Cardinality(UpTo(s, row)) # 0
    BY <1>2, <1>6, FS_EmptySet
<1>8. Cardinality(Asst!Rows) \in Nat
    BY <1>1, FS_CardinalityType
<1> QED
    BY <1>2, <1>4, <1>7, <1>8

LEMMA LookUpTyped ==
    ASSUME Asst!Bounds, AskTyped, IInv', NEW r \in Requests, NEW row \in Asst!Rows, Asst!LookUp(r, row)
    PROVE  AskTyped'
<1> DEFINE q == [req[r] EXCEPT !.rounds = @ + 1, !.shown = Append(@, row)]
           e == [code |-> Asst!CodeOf(q, row), row |-> row]
<1>1. req[r] \in Request /\ req[r].pc = "asking" /\ req \in [Requests -> Request]
    BY DEF AskTyped, IInv, Types, Asst!LookUp, Asst!Round
<1>2. q.pc = "asking" /\ q.shown = Append(req[r].shown, row)
    BY <1>1 DEF Request
<1>3. Asst!Set(r, q) /\ seen' = seen \cup {e} /\ UNCHANGED <<books, proposal, chat, made>>
    BY DEF Asst!LookUp
<1> HIDE DEF q
<1>4. req'[r] = q /\ \A o \in Requests \ {r} : req'[o] = req[o]
    BY <1>1, <1>3 DEF Asst!Set
<1>5. q.shown \in Seq(Asst!Rows) /\ NoneTwice(q.shown)
    BY <1>2, <1>4 DEF IInv, Types, Tagged, Request
<1>6. row \in Asst!ToSet(q.shown)
    <2>1. req[r].shown \in Seq(Asst!Rows)
        BY <1>1 DEF Request
    <2>2. Len(q.shown) \in DOMAIN q.shown /\ q.shown[Len(q.shown)] = row
        BY <1>2, <2>1
    <2> QED
        BY <2>2 DEF Asst!ToSet
<1>7. e.code.n \in 1..Cardinality(Asst!Rows)
    BY <1>5, <1>6, CodeIs, NumberIs
<1> HIDE DEF e
<1>8. Numbered' /\ AllNamed'
    BY <1>3, <1>7 DEF AskTyped, Numbered, AllNamed
<1> QED
    BY <1>2, <1>3, <1>4, <1>8, OthersTyped

LEMMA ProposeTyped ==
    ASSUME Asst!Bounds, AskTyped, IInv', NEW r \in Requests, NEW p \in Proposals,
           NEW a \in Asks, NEW w \in Asst!Written(a), Asst!Propose(r, p, a, w)
    PROVE  AskTyped'
<1>1. IInv /\ UNCHANGED books
    BY DEF AskTyped, Asst!Propose
<1>2. /\ a \in Seq(Asst!Changes) /\ DOMAIN a = 1..Len(a) /\ proposal[p].status = "none"
      /\ Asst!Set(r, Asst!Reply(req[r], p)) /\ UNCHANGED seen
    BY <1>1, ProposeIs
<1>3. PICK new \in Proposal :
         /\ proposal' = [proposal EXCEPT ![p] = new] /\ new.status = "pending" /\ new.steps = a
         /\ new.meant = [k \in DOMAIN a |-> Asst!Refs(a[k])]
    BY <1>1, ProposeIs
<1>4. proposal'[p] = new /\ \A o \in Proposals \ {p} : proposal'[o] = proposal[o]
    BY <1>1, <1>3 DEF IInv, Types
<1>5. req'[r].pc = "saving" /\ \A o \in Requests \ {r} : req'[o] = req[o]
    BY <1>1, <1>2, ReplyIs, SetIs DEF IInv
<1>6. \A k \in DOMAIN a : Named(a[k])
    <2> SUFFICES ASSUME NEW k \in DOMAIN a PROVE Named(a[k])
        OBVIOUS
    <2>1. a[k] \in Asst!Changes
        BY <1>2
    <2>2. a[k].cat \in AskCats \cup {None} /\ a[k].group \in Groups \cup {None} /\ a[k].item \in AskItems \cup {None}
        BY <2>1 DEF Asst!Changes
    <2> QED
        BY <2>2 DEF Asst!Bounds, Named
<1>7. AllNamed'
    BY <1>3, <1>4, <1>6 DEF AskTyped, AllNamed
<1>8. Numbered'
    BY <1>2 DEF AskTyped, Numbered
<1>9. ASSUME NEW o \in Requests, req'[o].pc = "approving"
      PROVE  /\ req[o].pc = "approving" /\ req'[o].of = req[o].of /\ req'[o].k = req[o].k
             /\ proposal'[req[o].of].steps = proposal[req[o].of].steps
    <2>1. req'[o] = req[o]
        BY <1>5, <1>9
    <2>2. req[o].of \in Proposals /\ req[o].of # p
        BY <1>1, <1>2, <1>9, <2>1 DEF IInv, Held
    <2> QED
        BY <1>4, <1>9, <2>1, <2>2
<1> QED
    BY <1>1, <1>7, <1>8, <1>9, OthersTyped

LEMMA ApproveTyped ==
    ASSUME Asst!Bounds, AskTyped, IInv', NEW r \in Requests, NEW p \in Proposals, Asst!Approve(r, p)
    PROVE  AskTyped'
<1> DEFINE q == [Asst!Idle EXCEPT !.pc = "approving", !.of = p]
<1>1. UNCHANGED <<books, proposal, chat, seen, made>> /\ IInv /\ req \in [Requests -> Request]
    BY DEF Asst!Approve, AskTyped, IInv, Types
<1>2. CASE Asst!Done(r, p, "nothing changed")
    <2>1. req'[r].pc = "idle" /\ \A o \in Requests \ {r} : req'[o] = req[o]
        BY <1>1, <1>2, DoneIs DEF IInv
    <2> QED
        BY <1>1, <2>1, QuietTyped
<1>3. CASE Asst!Set(r, q)
    <2>1. q.of = p /\ q.k = 0
        BY DEF Asst!Idle
    <2> HIDE DEF q
    <2>2. req'[r] = q /\ \A o \in Requests \ {r} : req'[o] = req[o]
        BY <1>1, <1>3 DEF Asst!Set
    <2>3. Stored(books)' /\ AllNamed' /\ Numbered'
        BY <1>1 DEF AskTyped, AllNamed, Numbered
    <2>4. Len(proposal[p].steps) \in Nat /\ NamesKnown(books.cats, proposal[p].steps, 0)
        BY <1>1 DEF IInv, Types, Proposal, NamesKnown
    <2>5. UnderWay'
        BY <1>1, <2>1, <2>2, <2>4 DEF AskTyped, UnderWay
    <2> QED
        BY <2>3, <2>5 DEF AskTyped
<1> QED
    BY <1>2, <1>3 DEF Asst!Approve

\* A proposal's status or age.
LEMMA StatusTyped ==
    ASSUME AskTyped, IInv', UNCHANGED <<books, seen>>, NEW p \in Proposals, NEW new,
           proposal' = [proposal EXCEPT ![p] = new], new.steps = proposal[p].steps,
           \A r \in Requests : req'[r] = req[r] \/ req'[r].pc = "idle"
    PROVE  AskTyped'
<1>1. proposal \in [Proposals -> Proposal] /\ \A r \in Requests : req[r].pc = "approving" => req[r].of \in Proposals
    BY DEF AskTyped, IInv, Types, Held
<1>2. \A o \in Proposals : proposal'[o].steps = proposal[o].steps
    BY <1>1
<1>3. AllNamed' /\ Numbered'
    BY <1>2 DEF AskTyped, AllNamed, Numbered
<1> QED
    BY <1>1, <1>2, <1>3, OthersTyped

LEMMA RejectTyped ==
    ASSUME Asst!Bounds, AskTyped, IInv', NEW r \in Requests, NEW p \in Proposals, Asst!Reject(r, p)
    PROVE  AskTyped'
<1> DEFINE new == [proposal[p] EXCEPT !.status = "rejected"]
<1>1. IInv /\ proposal[p] \in Proposal
    BY DEF AskTyped, IInv, Types
<1>2. proposal' = [proposal EXCEPT ![p] = new] /\ UNCHANGED <<books, seen>> /\ Asst!Done(r, p, "rejected")
    BY DEF Asst!Reject
<1>3. new.steps = proposal[p].steps
    BY <1>1 DEF Proposal
<1>4. \A o \in Requests : req'[o] = req[o] \/ req'[o].pc = "idle"
    BY <1>1, <1>2, DoneIs DEF IInv
<1> HIDE DEF new
<1> QED
    BY <1>2, <1>3, <1>4, StatusTyped

LEMMA AgeTyped ==
    ASSUME Asst!Bounds, AskTyped, IInv', NEW p \in Proposals, Asst!Age(p)
    PROVE  AskTyped'
<1> DEFINE new == [proposal[p] EXCEPT !.aged = TRUE]
<1>1. proposal[p] \in Proposal
    BY DEF AskTyped, IInv, Types
<1>2. proposal' = [proposal EXCEPT ![p] = new] /\ UNCHANGED <<books, seen, req>>
    BY DEF Asst!Age
<1>3. new.steps = proposal[p].steps
    BY <1>1 DEF Proposal
<1> HIDE DEF new
<1> QED
    BY <1>2, <1>3, StatusTyped

\* A change that is made names a category there is.
LEMMA RunsNames ==
    ASSUME NEW b, NEW s, Asst!Runs(b, s), s.tool # "category"
    PROVE  s.cat \in b.cats \cup {None}
BY Zenon DEF Asst!Runs

LEMMA RunStepTyped ==
    ASSUME Asst!Bounds, AskTyped, IInv', NEW r \in Requests, NEW new \in AskItems \cup AskBudgets \cup {None},
           Asst!RunStep(r, new)
    PROVE  AskTyped'
<1> DEFINE old == req[r]
           changes == proposal[old.of].steps
           q == [old EXCEPT !.k = @ + 1, !.ids = Append(@, new)]
           s == changes[old.k + 1]
<1>1. UNCHANGED <<books, proposal, chat, seen, made>> /\ old.pc = "approving" /\ old.k < Len(changes)
    BY DEF Asst!RunStep
<1>2. old \in Request /\ req \in [Requests -> Request] /\ IInv
    BY DEF AskTyped, IInv, Types
<1>3. CASE Asst!Runs(Asst!View(r), s) /\ Asst!Set(r, q)
    <2>1. /\ changes \in Seq(Asst!Changes) /\ DOMAIN changes = 1..Len(changes) /\ Len(changes) \in Nat
          /\ old.of \in Proposals /\ old.k \in Nat
          /\ Asst!View(r).cats = books.cats \cup AddedBy(changes, old.k)
        BY <1>1, ViewIs
    <2>2. q.of = old.of /\ q.k = old.k + 1 /\ q.pc = "approving"
        BY <1>1, <1>2 DEF Request
    <2> HIDE DEF q
    <2>3. req'[r] = q /\ \A o \in Requests \ {r} : req'[o] = req[o]
        BY <1>2, <1>3 DEF Asst!Set
    <2>4. s.tool = "category" \/ s.cat \in books.cats \cup AddedBy(changes, old.k) \cup {None}
        BY <1>3, <2>1, RunsNames
    <2>5. NamesKnown(books.cats, changes, old.k)
        BY <1>1 DEF AskTyped, UnderWay
    <2>6. NamesKnown(books.cats, changes, old.k + 1)
        <3> SUFFICES ASSUME NEW j \in 1..(old.k + 1)
                     PROVE  changes[j].tool = "category"
                            \/ changes[j].cat \in books.cats \cup AddedBy(changes, j - 1) \cup {None}
            BY DEF NamesKnown
        <3>1. CASE j = old.k + 1
            <4>1. j - 1 = old.k
                BY <2>1, <3>1
            <4> QED
                BY <2>4, <3>1, <4>1
        <3>2. CASE j # old.k + 1
            <4>1. j \in 1..old.k
                BY <2>1, <3>2
            <4> QED
                BY <2>5, <4>1 DEF NamesKnown
        <3> QED
            BY <3>1, <3>2
    <2>7. old.k + 1 <= Len(changes)
        BY <1>1, <2>1
    <2>8. UnderWay'
        BY <1>1, <2>2, <2>3, <2>6, <2>7 DEF AskTyped, UnderWay
    <2>9. Stored(books)' /\ AllNamed' /\ Numbered'
        BY <1>1 DEF AskTyped, AllNamed, Numbered
    <2> QED
        BY <2>8, <2>9 DEF AskTyped
<1>4. CASE Asst!Done(r, old.of, "nothing changed")
    <2>1. old.of \in Proposals
        BY <1>1, <1>2 DEF IInv, Held
    <2>2. req'[r].pc = "idle" /\ \A o \in Requests \ {r} : req'[o] = req[o]
        BY <1>2, <1>4, <2>1, DoneIs DEF IInv
    <2> QED
        BY <1>1, <2>2, QuietTyped
<1> QED
    BY <1>3, <1>4 DEF Asst!RunStep

LEMMA CommitTyped ==
    ASSUME Asst!Bounds, AskTyped, IInv', NEW r \in Requests, Asst!Commit(r)
    PROVE  AskTyped'
<1> DEFINE p == req[r].of
           new == [proposal[p] EXCEPT !.status = "approved"]
<1>1. p \in Proposals /\ req[r].pc = "approving" /\ IInv /\ proposal \in [Proposals -> Proposal]
    BY DEF AskTyped, IInv, Types, Held, Asst!Commit
<1>2. /\ books' = Asst!View(r) /\ proposal' = [proposal EXCEPT ![p] = new] /\ Asst!Done(r, p, "approved")
      /\ UNCHANGED seen
    BY <1>1 DEF Asst!Commit
<1>3. new.steps = proposal[p].steps
    BY <1>1 DEF Proposal
<1> HIDE DEF new
<1>4. \A o \in Proposals : proposal'[o].steps = proposal[o].steps
    BY <1>1, <1>2, <1>3
<1>5. req'[r].pc = "idle" /\ \A o \in Requests \ {r} : req'[o] = req[o]
    BY <1>1, <1>2, DoneIs DEF IInv
<1>6. Stored(books') /\ books.cats \subseteq books'.cats
    BY <1>1, <1>2, ViewIs
<1>7. AllNamed' /\ Numbered'
    BY <1>2, <1>4 DEF AskTyped, AllNamed, Numbered
<1>8. UnderWay'
    <2> SUFFICES ASSUME NEW o \in Requests, req'[o].pc = "approving"
                 PROVE  LET changes == proposal'[req'[o].of].steps
                        IN  req'[o].k <= Len(changes) /\ NamesKnown(books'.cats, changes, req'[o].k)
        BY DEF UnderWay
    <2>1. req'[o] = req[o] /\ req[o].pc = "approving" /\ req[o].of \in Proposals
        BY <1>1, <1>5 DEF IInv, Held
    <2>2. PICK changes : changes = proposal[req[o].of].steps
        OBVIOUS
    <2>3. changes = proposal'[req'[o].of].steps /\ req'[o].k = req[o].k
        BY <1>4, <2>1, <2>2
    <2>4. req[o].k <= Len(changes) /\ NamesKnown(books.cats, changes, req[o].k)
        BY <2>1, <2>2 DEF AskTyped, UnderWay
    <2>5. NamesKnown(books'.cats, changes, req[o].k)
        BY <1>6, <2>4 DEF NamesKnown
    <2> QED
        BY <2>3, <2>4, <2>5
<1>9. Stored(books)'
    BY <1>6
<1> QED
    BY <1>7, <1>8, <1>9 DEF AskTyped

\* What is deleted is taken from what has it.
LEMMA DeleteCategoryTyped ==
    ASSUME Asst!Bounds, AskTyped, IInv', NEW c \in AskCats, Asst!DeleteCategory(c)
    PROVE  AskTyped'
<1>1. UNCHANGED <<proposal, chat, req, seen, made>> /\ c \in books.cats /\ Stored(books)
    BY DEF AskTyped, Asst!DeleteCategory
<1> DEFINE C == books.cats \ {c}
           f == [t \in AskTxns |-> IF books.tx[t].cat = c THEN [books.tx[t] EXCEPT !.cat = None, !.chosen = FALSE]
                                   ELSE books.tx[t]]
           g == [i \in AskItems |-> IF books.items[i].cat = c THEN [books.items[i] EXCEPT !.cat = None]
                                    ELSE books.items[i]]
<1>2. PICK autos, sources : books' = [books EXCEPT !.cats = C, !.tx = f, !.items = g, !.autos = autos, !.sources = sources]
    <2>1. PICK autos : autos = [n \in DOMAIN books.autos |-> IF books.autos[n].cat = c THEN [books.autos[n] EXCEPT !.cat = None]
                                                             ELSE books.autos[n]]
        OBVIOUS
    <2>2. PICK sources : sources = {x \in books.sources : x[2] # c}
        OBVIOUS
    <2>3. books' = [books EXCEPT !.cats = C, !.tx = f, !.items = g, !.autos = autos, !.sources = sources]
        BY <1>1, <2>1, <2>2 DEF Asst!DeleteCategory, Stored, BookFields
    <2> QED
        BY <2>3, Zenon
<1>3. AllPaid(f, C)
    BY <1>1 DEF Stored, AllPaid, Paid
<1>4. AllTracked(g, C)
    BY <1>1 DEF Stored, AllTracked, Tracked
<1> HIDE DEF f, g
<1>5. BookFields(books') /\ books'.cats = C /\ books'.tx = f /\ books'.items = g /\ books'.groups = books.groups
    BY <1>1, <1>2 DEF Stored, BookFields
<1>6. Stored(books')
    BY <1>1, <1>3, <1>4, <1>5 DEF Stored
<1>7. UnderWay'
    <2> SUFFICES ASSUME NEW o \in Requests, req[o].pc = "approving"
                 PROVE  LET changes == proposal[req[o].of].steps
                        IN  req[o].k <= Len(changes) /\ NamesKnown(C, changes, req[o].k)
        BY <1>1, <1>5 DEF UnderWay
    <2>1. PICK changes : changes = proposal[req[o].of].steps
        OBVIOUS
    <2>2. req[o].k <= Len(changes) /\ NamesKnown(books.cats, changes, req[o].k)
        BY <2>1 DEF AskTyped, UnderWay
    <2>3. \A j \in 1..req[o].k : changes[j].cat # c
        BY <2>1 DEF Asst!DeleteCategory, Asst!InHand, Asst!Approving, Asst!DoneSteps
    <2>4. NamesKnown(C, changes, req[o].k)
        BY <2>2, <2>3 DEF NamesKnown
    <2> QED
        BY <2>1, <2>2, <2>4
<1>8. AllNamed' /\ Numbered' /\ Stored(books)'
    BY <1>1, <1>6 DEF AskTyped, AllNamed, Numbered
<1> QED
    BY <1>7, <1>8 DEF AskTyped

LEMMA DeleteTransactionTyped ==
    ASSUME Asst!Bounds, AskTyped, IInv', NEW t \in AskTxns, Asst!DeleteTransaction(t)
    PROVE  AskTyped'
<1>1. UNCHANGED <<proposal, chat, req, seen, made>> /\ Stored(books)
    BY DEF AskTyped, Asst!DeleteTransaction
<1> DEFINE f == [books.tx EXCEPT ![t] = [books.tx[t] EXCEPT !.here = FALSE]]
<1>2. AllPaid(f, books.cats)
    BY <1>1 DEF Stored, AllPaid, Paid
<1>3. books' = [books EXCEPT !.tx = f]
    BY <1>1 DEF Asst!DeleteTransaction, Stored, BookFields, AllPaid
<1> HIDE DEF f
<1>4. Stored(books') /\ books'.cats = books.cats
    BY <1>1, <1>2, <1>3, OtherPayments
<1>5. AllNamed' /\ Numbered' /\ UnderWay' /\ Stored(books)'
    BY <1>1, <1>4 DEF AskTyped, AllNamed, Numbered, UnderWay
<1> QED
    BY <1>5 DEF AskTyped

LEMMA AskStartsTyped == Asst!Bounds /\ Asst!Init => AskTyped
<1> SUFFICES ASSUME Asst!Bounds, Asst!Init PROVE AskTyped
    OBVIOUS
<1>1. IInv
    BY InitInv
<1>2. PICK first, cat, group :
         /\ cat \in AskCats /\ group \in Groups
         /\ first = [t \in AskTxns |-> [here |-> TRUE, cat |-> None, chosen |-> FALSE, item |-> None]]
         /\ books = [cats |-> {cat}, groups |-> {group}, tx |-> first, items |-> [i \in AskItems |-> Asst!NoItem],
                     autos |-> << >>, budgets |-> {}, sources |-> {}]
    <2>1. (CHOOSE c \in AskCats : TRUE) \in AskCats /\ (CHOOSE g \in Groups : TRUE) \in Groups
        BY DEF Asst!Bounds
    <2> QED
        BY <2>1, Zenon DEF Asst!Init
<1>3. AllPaid(first, {cat}) /\ AllTracked([i \in AskItems |-> Asst!NoItem], {cat})
    BY <1>2 DEF AllPaid, Paid, AllTracked, Tracked, Asst!NoItem
<1>4. Stored(books)
    BY <1>2, <1>3 DEF Stored, BookFields
<1>5. /\ seen = {} /\ \A r \in Requests : req[r].pc = "idle"
      /\ \A p \in Proposals : proposal[p].steps = << >>
    BY DEF Asst!Init, Asst!Idle, Asst!NoProposal
<1>6. AllNamed /\ Numbered /\ UnderWay
    BY <1>5 DEF AllNamed, Numbered, UnderWay
<1> QED
    BY <1>1, <1>4, <1>6 DEF AskTyped

LEMMA AskStaysTyped == Asst!Bounds /\ AskTyped /\ [Asst!Next]_Asst!vars => AskTyped'
<1> SUFFICES ASSUME Asst!Bounds, AskTyped, [Asst!Next]_Asst!vars PROVE AskTyped'
    OBVIOUS
<1>0. IInv /\ IInv'
    BY NextInv DEF AskTyped
<1>1. CASE \E r \in Requests : \E c \in Chats \cup {None} : Asst!Ask(r, c)
    <2>1. PICK r \in Requests, c \in Chats \cup {None} : Asst!Ask(r, c)
        BY <1>1
    <2>2. PICK had, tag : Asst!Set(r, [Asst!Idle EXCEPT !.pc = "asking", !.chat = c, !.tag = tag, !.had = had])
        BY <2>1, Zenon DEF Asst!Ask
    <2>3. UNCHANGED <<books, proposal, seen>>
        BY <2>1 DEF Asst!Ask
    <2>4. [Asst!Idle EXCEPT !.pc = "asking", !.chat = c, !.tag = tag, !.had = had].pc # "approving"
        BY DEF Asst!Idle
    <2> QED
        BY <1>0, <2>2, <2>3, <2>4, OneTyped
<1>2. CASE \E r \in Requests : \E row \in Asst!Rows : Asst!LookUp(r, row)
    BY <1>0, <1>2, LookUpTyped
<1>3. CASE \E r \in Requests :
              Asst!InVain(r) \/ Asst!OnlyWords(r) \/ \E a \in Asks : \E w \in Asst!Written(a) : Asst!PutRight(r, a, w)
    <2>1. PICK r \in Requests :
              Asst!InVain(r) \/ Asst!OnlyWords(r) \/ \E a \in Asks : \E w \in Asst!Written(a) : Asst!PutRight(r, a, w)
        BY <1>3
    <2>2. UNCHANGED <<books, proposal, seen>> /\ req[r].pc = "asking" /\ req[r] \in Request /\ req \in [Requests -> Request]
        BY <1>0, <2>1 DEF Asst!InVain, Asst!OnlyWords, Asst!PutRight, Asst!Round, IInv, Types
    <2>3. \/ Asst!Set(r, Asst!Reply(req[r], 0))
          \/ \E n : Asst!Set(r, [req[r] EXCEPT !.rounds = n])
          \/ \E n, m : Asst!Set(r, [req[r] EXCEPT !.rounds = n, !.fixes = m])
        BY <2>1, Zenon DEF Asst!InVain, Asst!OnlyWords, Asst!PutRight
    <2>4. /\ Asst!Reply(req[r], 0).pc # "approving"
          /\ \A n : [req[r] EXCEPT !.rounds = n].pc # "approving"
          /\ \A n, m : [req[r] EXCEPT !.rounds = n, !.fixes = m].pc # "approving"
        BY <2>2 DEF Asst!Reply, Request
    <2> QED
        BY <1>0, <2>2, <2>3, <2>4, OneTyped
<1>4. CASE \E r \in Requests : \E a \in Asks : \E w \in Asst!Written(a) : \E p \in Proposals : Asst!Propose(r, p, a, w)
    BY <1>0, <1>4, ProposeTyped
<1>5. CASE \E r \in Requests : (\E c \in Chats : Asst!Save(r, c)) \/ Asst!Die(r)
    <2>1. PICK r \in Requests : UNCHANGED <<books, proposal, seen>> /\ Asst!Set(r, Asst!Idle)
        BY <1>5 DEF Asst!Save, Asst!Die
    <2>2. Asst!Idle.pc # "approving"
        BY DEF Asst!Idle
    <2> QED
        BY <1>0, <2>1, <2>2, OneTyped
<1>6. CASE \E r \in Requests : \E p \in Proposals : Asst!Approve(r, p) \/ Asst!Reject(r, p)
    BY <1>0, <1>6, ApproveTyped, RejectTyped
<1>7. CASE \E r \in Requests : \E p \in Proposals : Asst!DecideAgain(r, p)
    <2>1. PICK r \in Requests, p \in Proposals : Asst!DecideAgain(r, p)
        BY <1>7
    <2>2. UNCHANGED <<books, proposal, seen>> /\ Asst!Set(r, [Asst!Idle EXCEPT !.of = p, !.told = proposal[p].status])
        BY <2>1 DEF Asst!DecideAgain, Asst!Settled, Asst!Done
    <2>3. [Asst!Idle EXCEPT !.of = p, !.told = proposal[p].status].pc # "approving"
        BY DEF Asst!Idle
    <2> QED
        BY <1>0, <2>2, <2>3, OneTyped
<1>8. CASE \E r \in Requests : \E new \in AskItems \cup AskBudgets \cup {None} : Asst!RunStep(r, new)
    BY <1>0, <1>8, RunStepTyped
<1>9. CASE \E r \in Requests : Asst!Commit(r)
    BY <1>0, <1>9, CommitTyped
<1>10. CASE (\E c \in Chats : Asst!DeleteChat(c)) \/ UNCHANGED Asst!vars
    <2>1. UNCHANGED <<books, proposal, req, seen>>
        BY <1>10 DEF Asst!DeleteChat, Asst!vars
    <2> QED
        BY <1>0, <2>1, QuietTyped
<1>11. CASE \E p \in Proposals : Asst!Age(p)
    BY <1>0, <1>11, AgeTyped
<1>12. CASE \E c \in AskCats : Asst!DeleteCategory(c)
    BY <1>0, <1>12, DeleteCategoryTyped
<1>13. CASE \E t \in AskTxns : Asst!DeleteTransaction(t)
    BY <1>0, <1>13, DeleteTransactionTyped
<1> QED
    BY <1>1, <1>2, <1>3, <1>4, <1>5, <1>6, <1>7, <1>8, <1>9, <1>10, <1>11, <1>12, <1>13 DEF Asst!Next

LEMMA TypedIs == AskTyped => Asst!TypeOK
<1> SUFFICES ASSUME AskTyped PROVE Asst!TypeOK
    OBVIOUS
<1>1. books.cats \subseteq AskCats /\ books.groups \subseteq Groups
    BY DEF AskTyped, Stored
<1>2. (\A t \in AskTxns : books.tx[t].cat \in books.cats \cup {None})
      /\ (\A i \in AskItems : books.items[i].cat \in books.cats \cup {None})
    BY DEF AskTyped, Stored, AllPaid, Paid, AllTracked, Tracked
<1>3. \A p \in Proposals : proposal[p].status \in {"none", "pending", "approved", "rejected"}
    BY DEF AskTyped, IInv, Types, Proposal
<1>4. \A r \in Requests : req[r].pc \in {"idle", "asking", "saving", "approving"}
    BY DEF AskTyped, IInv, Types, Request
<1>5. seen \subseteq [code : Asst!Code, row : Asst!Rows]
    BY CardinalityIs DEF AskTyped, IInv, Types, Codes, Numbered, Asst!Code
<1> QED
    BY <1>1, <1>2, <1>3, <1>4, <1>5 DEF Asst!TypeOK

LEMMA AskTypes == Asst!Bounds => (Asst!Spec => []Asst!TypeOK)
<1> SUFFICES ASSUME Asst!Bounds PROVE Asst!Spec => []Asst!TypeOK
    OBVIOUS
<1>1. Asst!Init => AskTyped
    BY AskStartsTyped
<1>2. AskTyped /\ [Asst!Next]_Asst!vars => AskTyped'
    BY AskStaysTyped
<1> QED
    BY <1>1, <1>2, TypedIs, PTL DEF Asst!Spec

-----------------------------------------------------------------------------
(* What Decision promises                                                  *)

Answers(r) == IF req[r].pc = "idle" THEN [of |-> req[r].of, what |-> req[r].told] ELSE [of |-> 0, what |-> "nothing"]
AllTold == [r \in Requests |-> Answers(r)]
Statuses == [p \in Proposals |-> proposal[p].status]

\* What each step has to show of Decision's, its variables read off Assistant's.
LEMMA Reads ==
    /\ Asst!D!Init <=> Statuses = [p \in Proposals |-> "none"] /\ made = [p \in Proposals |-> << >>]
                  /\ AllTold = [r \in Requests |-> [of |-> 0, what |-> "nothing"]]
    /\ UNCHANGED Asst!D!vars <=> UNCHANGED <<Statuses, made, AllTold>>
BY DEF Asst!D!Init, Asst!D!Nothing, Asst!D!vars, Statuses, AllTold, Answers

LEMMA ReadsPropose ==
    ASSUME NEW p \in Proposals
    PROVE  Asst!D!Propose(p) <=> /\ Statuses[p] = "none" /\ Statuses' = [Statuses EXCEPT ![p] = "pending"]
                            /\ \E n \in 1..MAX_CHANGES : made' = [made EXCEPT ![p] = [k \in 1..n |-> 0]]
                            /\ AllTold' = AllTold
BY DEF Asst!D!Propose, Statuses, AllTold, Answers

LEMMA ReadsAskAgain ==
    ASSUME NEW r \in Requests
    PROVE  Asst!D!AskAgain(r) <=> /\ AllTold' = [AllTold EXCEPT ![r] = [of |-> 0, what |-> "nothing"]]
                             /\ UNCHANGED <<Statuses, made>>
BY DEF Asst!D!AskAgain, Asst!D!Nothing, Statuses, AllTold, Answers

LEMMA ReadsApprove ==
    ASSUME NEW r \in Requests, NEW p \in Proposals
    PROVE  Asst!D!Approve(r, p) <=> /\ Statuses[p] = "pending" /\ Statuses' = [Statuses EXCEPT ![p] = "approved"]
                               /\ made' = [made EXCEPT ![p] = [k \in DOMAIN made[p] |-> 1]]
                               /\ AllTold' = [AllTold EXCEPT ![r] = [of |-> p, what |-> "approved"]]
BY DEF Asst!D!Approve, Asst!D!Tell, Statuses, AllTold, Answers

LEMMA ReadsReject ==
    ASSUME NEW r \in Requests, NEW p \in Proposals
    PROVE  Asst!D!Reject(r, p) <=> /\ Statuses[p] = "pending" /\ Statuses' = [Statuses EXCEPT ![p] = "rejected"]
                              /\ AllTold' = [AllTold EXCEPT ![r] = [of |-> p, what |-> "rejected"]]
                              /\ UNCHANGED made
BY DEF Asst!D!Reject, Asst!D!Tell, Statuses, AllTold, Answers

LEMMA ReadsAnswer ==
    ASSUME NEW r \in Requests, NEW p \in Proposals
    PROVE  Asst!D!Answer(r, p) <=>
              /\ \/ Statuses[p] \in {"approved", "rejected"}
                    /\ AllTold' = [AllTold EXCEPT ![r] = [of |-> p, what |-> Statuses[p]]]
                 \/ Statuses[p] = "pending"
                    /\ AllTold' = [AllTold EXCEPT ![r] = [of |-> p, what |-> "nothing changed"]]
              /\ UNCHANGED <<Statuses, made>>
BY DEF Asst!D!Answer, Asst!D!Tell, Statuses, AllTold, Answers

LEMMA OneTold ==
    ASSUME NEW r \in Requests, \A o \in Requests \ {r} : req'[o] = req[o]
    PROVE  AllTold' = [AllTold EXCEPT ![r] = Answers(r)']
BY DEF AllTold, Answers

LEMMA ToldDone ==
    ASSUME Asst!Bounds, IInv, NEW r \in Requests, NEW p \in Proposals,
           NEW what \in {"nothing changed", "approved", "rejected"}, Asst!Done(r, p, what)
    PROVE  AllTold' = [AllTold EXCEPT ![r] = [of |-> p, what |-> what]]
<1>1. /\ \A o \in Requests \ {r} : req'[o] = req[o]
      /\ req'[r].pc = "idle" /\ req'[r].of = p /\ req'[r].told = what
    BY DoneIs DEF IInv
<1>2. Answers(r)' = [of |-> p, what |-> what]
    BY <1>1 DEF Answers
<1> QED
    BY <1>1, <1>2, OneTold

LEMMA OneStatus ==
    ASSUME IInv, NEW p \in Proposals, NEW new \in Proposal, proposal' = [proposal EXCEPT ![p] = new]
    PROVE  Statuses' = [Statuses EXCEPT ![p] = new.status]
BY DEF Statuses, IInv, Types

LEMMA StatusOf == ASSUME NEW p \in Proposals PROVE Statuses[p] = proposal[p].status
BY DEF Statuses

\* A request that is told nothing new, or asks again.
LEMMA NothingTold ==
    ASSUME Asst!Bounds, IInv, NEW r \in Requests, NEW q \in Request, Asst!Set(r, q), UNCHANGED <<proposal, made>>,
           q.pc # "idle" \/ q = Asst!Idle
    PROVE  Asst!D!Next
<1>1. req'[r] = q /\ \A o \in Requests \ {r} : req'[o] = req[o]
    BY SetIs DEF IInv
<1>2. Answers(r)' = [of |-> 0, what |-> "nothing"]
    BY <1>1, IdleIs DEF Answers
<1>3. AllTold' = [AllTold EXCEPT ![r] = [of |-> 0, what |-> "nothing"]]
    BY <1>1, <1>2, OneTold
<1>4. UNCHANGED <<Statuses, made>>
    BY DEF Statuses
<1>5. Asst!D!AskAgain(r)
    BY <1>3, <1>4, ReadsAskAgain
<1> QED
    BY <1>5 DEF Asst!D!Next

LEMMA NothingChanged ==
    ASSUME Asst!Bounds, IInv, NEW r \in Requests, NEW p \in Proposals, proposal[p].status = "pending",
           Asst!Done(r, p, "nothing changed"), UNCHANGED <<proposal, made>>
    PROVE  Asst!D!Next
<1>1. UNCHANGED <<Statuses, made>> /\ Statuses[p] = "pending"
    BY StatusOf DEF Statuses
<1>2. AllTold' = [AllTold EXCEPT ![r] = [of |-> p, what |-> "nothing changed"]]
    BY ToldDone
<1>3. Asst!D!Answer(r, p)
    BY <1>1, <1>2, ReadsAnswer
<1> QED
    BY <1>3 DEF Asst!D!Next

LEMMA AskMaps ==
    ASSUME Asst!Bounds, IInv, NEW r \in Requests, NEW c \in Chats \cup {None}, Asst!Ask(r, c)
    PROVE  Asst!D!Next
<1>1. PICK q \in Request : q.pc = "asking" /\ Asst!Set(r, q)
    BY AskIs
<1>2. UNCHANGED <<proposal, made>>
    BY DEF Asst!Ask
<1> QED
    BY <1>1, <1>2, NothingTold

LEMMA ProposeMaps ==
    ASSUME Asst!Bounds, IInv, NEW r \in Requests, NEW p \in Proposals,
           NEW a \in Asks, NEW w \in Asst!Written(a), Asst!Propose(r, p, a, w)
    PROVE  Asst!D!Next
<1>1. /\ Len(a) \in 1..MAX_CHANGES /\ DOMAIN a = 1..Len(a)
      /\ req[r].pc = "asking" /\ proposal[p].status = "none"
      /\ made' = [made EXCEPT ![p] = [k \in DOMAIN a |-> 0]] /\ Asst!Set(r, Asst!Reply(req[r], p))
    BY ProposeIs
<1>2. PICK new \in Proposal :
         /\ proposal' = [proposal EXCEPT ![p] = new] /\ new.status = "pending" /\ new.steps = a
         /\ new.meant = [k \in DOMAIN a |-> Asst!Refs(a[k])]
    BY ProposeIs
<1>3. Asst!Reply(req[r], p) \in Request /\ Asst!Reply(req[r], p).pc = "saving"
    BY ReplyIs DEF IInv
<1>4. req'[r].pc = "saving" /\ \A o \in Requests \ {r} : req'[o] = req[o]
    BY <1>1, <1>3, SetIs DEF IInv
<1>5. AllTold' = AllTold
    BY <1>1, <1>4 DEF AllTold, Answers
<1>6. Statuses[p] = "none" /\ Statuses' = [Statuses EXCEPT ![p] = "pending"]
    <2>1. Statuses' = [Statuses EXCEPT ![p] = new.status]
        BY <1>2, OneStatus
    <2> QED
        BY <1>1, <1>2, <2>1, StatusOf
<1>7. \E n \in 1..MAX_CHANGES : made' = [made EXCEPT ![p] = [k \in 1..n |-> 0]]
    BY <1>1
<1>8. Asst!D!Propose(p)
    BY <1>5, <1>6, <1>7, ReadsPropose
<1> QED
    BY <1>8 DEF Asst!D!Next

LEMMA RejectMaps ==
    ASSUME Asst!Bounds, IInv, NEW r \in Requests, NEW p \in Proposals, Asst!Reject(r, p)
    PROVE  Asst!D!Next
<1> DEFINE new == [proposal[p] EXCEPT !.status = "rejected"]
<1>1. proposal[p] \in Proposal /\ proposal[p].status = "pending"
    BY DEF IInv, Types, Asst!Reject
<1>2. new \in Proposal /\ new.status = "rejected"
    BY <1>1 DEF Proposal
<1>3. proposal' = [proposal EXCEPT ![p] = new] /\ UNCHANGED made /\ Asst!Done(r, p, "rejected")
    BY DEF Asst!Reject
<1> HIDE DEF new
<1>4. Statuses[p] = "pending" /\ Statuses' = [Statuses EXCEPT ![p] = "rejected"]
    <2>1. proposal' = [proposal EXCEPT ![p] = new]
        BY <1>3
    <2>2. Statuses' = [Statuses EXCEPT ![p] = new.status]
        BY <1>2, <2>1, OneStatus
    <2> QED
        BY <1>1, <1>2, <2>2, StatusOf
<1>5. Asst!D!Reject(r, p)
    BY <1>3, <1>4, ToldDone, ReadsReject
<1> QED
    BY <1>5 DEF Asst!D!Next

LEMMA CommitMaps ==
    ASSUME Asst!Bounds, IInv, NEW r \in Requests, Asst!Commit(r)
    PROVE  Asst!D!Next
<1>1. PICK p \in Proposals : p = req[r].of /\ proposal[p] \in Proposal /\ proposal[p].status = "pending"
    BY DEF IInv, Types, Held, Asst!Commit
<1> DEFINE new == [proposal[p] EXCEPT !.status = "approved"]
<1>2. new \in Proposal /\ new.status = "approved"
    BY <1>1 DEF Proposal
<1>3. proposal' = [proposal EXCEPT ![p] = new] /\ Asst!Done(r, p, "approved")
      /\ made' = [made EXCEPT ![p] = [k \in DOMAIN made[p] |-> made[p][k] + 1]]
    BY <1>1 DEF Asst!Commit, IInv, MadeOnce
<1>4. [k \in DOMAIN made[p] |-> made[p][k] + 1] = [k \in DOMAIN made[p] |-> 1]
    BY <1>1 DEF IInv, MadeOnce
<1> HIDE DEF new
<1>5. Statuses[p] = "pending" /\ Statuses' = [Statuses EXCEPT ![p] = "approved"]
    <2>1. proposal' = [proposal EXCEPT ![p] = new]
        BY <1>3
    <2>2. Statuses' = [Statuses EXCEPT ![p] = new.status]
        BY <1>2, <2>1, OneStatus
    <2> QED
        BY <1>1, <1>2, <2>2, StatusOf
<1>6. AllTold' = [AllTold EXCEPT ![r] = [of |-> p, what |-> "approved"]]
    BY <1>1, <1>3, ToldDone
<1>7. Asst!D!Approve(r, p)
    BY <1>1, <1>3, <1>4, <1>5, <1>6, ReadsApprove
<1> QED
    BY <1>1, <1>7 DEF Asst!D!Next

LEMMA DecideMaps ==
    ASSUME Asst!Bounds, IInv, NEW r \in Requests, NEW p \in Proposals, Asst!Approve(r, p) \/ Asst!DecideAgain(r, p)
    PROVE  Asst!D!Next
<1>1. CASE Asst!Approve(r, p)
    <2> DEFINE q == [Asst!Idle EXCEPT !.pc = "approving", !.of = p]
    <2>1. proposal[p].status = "pending" /\ UNCHANGED <<proposal, made>>
        BY <1>1 DEF Asst!Approve
    <2>2. CASE Asst!Done(r, p, "nothing changed")
        BY <2>1, <2>2, NothingChanged
    <2>3. CASE Asst!Set(r, q)
        <3>1. q \in Request /\ q.pc = "approving"
            BY IdleIs DEF Request
        <3> HIDE DEF q
        <3> QED
            BY <2>1, <2>3, <3>1, NothingTold
    <2> QED
        BY <1>1, <2>2, <2>3 DEF Asst!Approve
<1>2. CASE Asst!DecideAgain(r, p)
    <2>1. /\ proposal[p].status \in {"approved", "rejected"} /\ Asst!Done(r, p, proposal[p].status)
          /\ UNCHANGED <<proposal, made>>
        BY <1>2 DEF Asst!DecideAgain, Asst!Settled
    <2>2. AllTold' = [AllTold EXCEPT ![r] = [of |-> p, what |-> Statuses[p]]]
        <3>1. CASE proposal[p].status = "approved"
            <4>1. Asst!Done(r, p, "approved")
                BY <2>1, <3>1
            <4>2. AllTold' = [AllTold EXCEPT ![r] = [of |-> p, what |-> "approved"]]
                BY <4>1, ToldDone
            <4> QED
                BY <3>1, <4>2, StatusOf
        <3>2. CASE proposal[p].status = "rejected"
            <4>1. Asst!Done(r, p, "rejected")
                BY <2>1, <3>2
            <4>2. AllTold' = [AllTold EXCEPT ![r] = [of |-> p, what |-> "rejected"]]
                BY <4>1, ToldDone
            <4> QED
                BY <3>2, <4>2, StatusOf
        <3> QED
            BY <2>1, <3>1, <3>2
    <2>3. Statuses[p] \in {"approved", "rejected"} /\ UNCHANGED <<Statuses, made>>
        BY <2>1, StatusOf DEF Statuses
    <2>4. Asst!D!Answer(r, p)
        BY <2>2, <2>3, ReadsAnswer
    <2> QED
        BY <2>4 DEF Asst!D!Next
<1> QED
    BY <1>1, <1>2

LEMMA Stutters ==
    ASSUME UNCHANGED <<Statuses, made, AllTold>>
    PROVE  UNCHANGED Asst!D!vars
BY Reads

LEMMA AskingMaps ==
    ASSUME Asst!Bounds, IInv, NEW r \in Requests,
           \/ \E row \in Asst!Rows : Asst!LookUp(r, row)
           \/ Asst!InVain(r) \/ Asst!OnlyWords(r)
           \/ \E a \in Asks : \E w \in Asst!Written(a) : Asst!PutRight(r, a, w)
    PROVE  UNCHANGED Asst!D!vars
<1>1. req[r].pc = "asking" /\ UNCHANGED <<proposal, made>>
    BY DEF Asst!LookUp, Asst!InVain, Asst!OnlyWords, Asst!PutRight, Asst!Round
<1>2. req[r] \in Request /\ Asst!Reply(req[r], 0).pc = "saving"
    BY ReplyIs DEF IInv, Types
<1>3. \A o \in Requests \ {r} : req'[o] = req[o]
    BY DEF Asst!LookUp, Asst!InVain, Asst!OnlyWords, Asst!PutRight, Asst!Set, IInv, Types
<1>4. req'[r].pc # "idle"
    <2>1. CASE \E row \in Asst!Rows : Asst!LookUp(r, row)
        <3>1. PICK row \in Asst!Rows : Asst!LookUp(r, row)
            BY <2>1
        <3> DEFINE q == [req[r] EXCEPT !.rounds = @ + 1, !.shown = Append(@, row)]
        <3>2. Asst!Set(r, q)
            BY <3>1 DEF Asst!LookUp
        <3>3. q \in Request /\ q.pc = "asking"
            BY <1>1, <1>2, ShownIs, Zenon
        <3> HIDE DEF q
        <3> QED
            BY <3>2, <3>3, SetIs DEF IInv
    <2>2. CASE Asst!InVain(r) \/ Asst!OnlyWords(r) \/ \E a \in Asks : \E w \in Asst!Written(a) : Asst!PutRight(r, a, w)
        BY <1>1, <1>2, <2>2 DEF Asst!InVain, Asst!OnlyWords, Asst!PutRight, Asst!Set, IInv, Types, Request
    <2> QED
        BY <2>1, <2>2
<1>5. AllTold' = AllTold
    BY <1>1, <1>3, <1>4 DEF AllTold, Answers
<1> QED
    BY <1>1, <1>5, Stutters DEF Statuses

LEMMA EndMaps ==
    ASSUME Asst!Bounds, IInv, NEW r \in Requests, Asst!Die(r) \/ \E c \in Chats : Asst!Save(r, c)
    PROVE  Asst!D!Next
BY IdleIs, NothingTold DEF Asst!Die, Asst!Save

LEMMA RunStepMaps ==
    ASSUME Asst!Bounds, IInv, NEW r \in Requests, NEW new \in AskItems \cup AskBudgets \cup {None}, Asst!RunStep(r, new)
    PROVE  [Asst!D!Next]_Asst!D!vars
<1> DEFINE q == [req[r] EXCEPT !.k = @ + 1, !.ids = Append(@, new)]
<1>1. PICK p \in Proposals : p = req[r].of /\ proposal[p].status = "pending"
    BY DEF IInv, Held, Asst!RunStep
<1>2. UNCHANGED <<proposal, made>> /\ req[r].pc = "approving" /\ (Asst!Set(r, q) \/ Asst!Done(r, p, "nothing changed"))
    BY <1>1 DEF Asst!RunStep
<1>3. CASE Asst!Done(r, p, "nothing changed")
    BY <1>1, <1>2, <1>3, NothingChanged
<1>4. CASE Asst!Set(r, q)
    <2>1. req[r] \in Request /\ q.pc = "approving"
        BY <1>2 DEF IInv, Types, Request
    <2> HIDE DEF q
    <2>2. req'[r].pc = "approving" /\ \A o \in Requests \ {r} : req'[o] = req[o]
        BY <1>4, <2>1 DEF Asst!Set, IInv, Types
    <2>3. AllTold' = AllTold
        BY <1>2, <2>2 DEF AllTold, Answers
    <2> QED
        BY <1>2, <2>3, Stutters DEF Statuses
<1> QED
    BY <1>2, <1>3, <1>4

LEMMA AgeMaps ==
    ASSUME IInv, NEW p \in Proposals, Asst!Age(p)
    PROVE  UNCHANGED Asst!D!vars
<1> DEFINE new == [proposal[p] EXCEPT !.aged = TRUE]
<1>1. proposal[p] \in Proposal /\ proposal' = [proposal EXCEPT ![p] = new] /\ UNCHANGED <<req, made>>
    BY DEF IInv, Types, Asst!Age
<1>2. new.status = proposal[p].status
    BY <1>1 DEF Proposal
<1> HIDE DEF new
<1>3. \A o \in Proposals : proposal'[o].status = proposal[o].status
    BY <1>1, <1>2 DEF IInv, Types
<1>4. Statuses' = Statuses /\ AllTold' = AllTold
    BY <1>1, <1>3 DEF Statuses, AllTold, Answers
<1> QED
    BY <1>1, <1>4, Stutters

LEMMA NextMaps == Asst!Bounds /\ IInv /\ [Asst!Next]_Asst!vars => [Asst!D!Next]_Asst!D!vars
<1> SUFFICES ASSUME Asst!Bounds, IInv, [Asst!Next]_Asst!vars PROVE [Asst!D!Next]_Asst!D!vars
    OBVIOUS
<1>1. CASE \E r \in Requests : \E c \in Chats \cup {None} : Asst!Ask(r, c)
    BY <1>1, AskMaps
<1>2. CASE \E r \in Requests :
              \/ \E row \in Asst!Rows : Asst!LookUp(r, row)
              \/ Asst!InVain(r) \/ Asst!OnlyWords(r)
              \/ \E a \in Asks : \E w \in Asst!Written(a) : Asst!PutRight(r, a, w)
    BY <1>2, AskingMaps
<1>3. CASE \E r \in Requests : \E a \in Asks : \E w \in Asst!Written(a) : \E p \in Proposals : Asst!Propose(r, p, a, w)
    BY <1>3, ProposeMaps
<1>4. CASE \E r \in Requests : Asst!Die(r) \/ \E c \in Chats : Asst!Save(r, c)
    BY <1>4, EndMaps
<1>5. CASE \E r \in Requests : \E p \in Proposals : Asst!Approve(r, p) \/ Asst!Reject(r, p) \/ Asst!DecideAgain(r, p)
    BY <1>5, DecideMaps, RejectMaps
<1>6. CASE \E r \in Requests : \E new \in AskItems \cup AskBudgets \cup {None} : Asst!RunStep(r, new)
    BY <1>6, RunStepMaps
<1>7. CASE \E r \in Requests : Asst!Commit(r)
    BY <1>7, CommitMaps
<1>8. CASE \E p \in Proposals : Asst!Age(p)
    BY <1>8, AgeMaps
<1>9. CASE \/ \E c \in Chats : Asst!DeleteChat(c)
           \/ \E c \in AskCats : Asst!DeleteCategory(c)
           \/ \E t \in AskTxns : Asst!DeleteTransaction(t)
           \/ UNCHANGED Asst!vars
    <2>1. UNCHANGED <<proposal, req, made>>
        BY <1>9 DEF Asst!DeleteChat, Asst!DeleteCategory, Asst!DeleteTransaction, Asst!vars
    <2>2. UNCHANGED <<Statuses, made, AllTold>>
        BY <2>1 DEF Statuses, AllTold, Answers
    <2> QED
        BY <2>2, Stutters
<1> QED
    BY <1>1, <1>2, <1>3, <1>4, <1>5, <1>6, <1>7, <1>8, <1>9 DEF Asst!Next

LEMMA InitMaps == Asst!Bounds /\ Asst!Init => Asst!D!Init
<1> SUFFICES ASSUME Asst!Bounds, Asst!Init PROVE Asst!D!Init
    OBVIOUS
<1>1. Asst!NoProposal.status = "none"
    BY DEF Asst!NoProposal
<1>2. Statuses = [p \in Proposals |-> "none"] /\ AllTold = [r \in Requests |-> [of |-> 0, what |-> "nothing"]]
    BY <1>1, IdleIs DEF Asst!Init, Statuses, AllTold, Answers
<1> QED
    BY <1>2, Reads DEF Asst!Init

(* "The changes the AI proposed, all together or not at all", for any       *)
(* number of requests, proposals, changes and rows: approvals of many steps *)
(* that overlap, wait, fail half-way or die implement a decision that is    *)
(* taken once, at one moment, and of which everyone is told the truth       *)
(* (ai/proposals.py:181-250).                                               *)
THEOREM DecidesAtOnce == Asst!Bounds => (Asst!Spec => Decides)
<1> SUFFICES ASSUME Asst!Bounds PROVE Asst!Spec => Decides
    OBVIOUS
<1>1. Asst!Init => Asst!D!Init
    BY InitMaps
<1>2. IInv /\ [Asst!Next]_Asst!vars => [Asst!D!Next]_Asst!D!vars
    BY NextMaps
<1> QED
    BY <1>1, <1>2, Inductive, PTL DEF Asst!Spec, Decides, Asst!Decides, Asst!D!Spec
=============================================================================
