---------------------------- MODULE PeopleProofs ----------------------------
(***************************************************************************)
(* Proofs about Household, SignIn and SessionLife, for any number of       *)
(* people, requests and links, of browsers, challenges, passkeys and       *)
(* codes, and for any lengths a session may have.                          *)
(*                                                                         *)
(* That an invitation's link works once needs nothing but the claims on    *)
(* invitations.  That an admin remains needs the locks to cover the admins *)
(* there are when they are taken (LocksFresh); then at most one request is *)
(* between its lock and its commit, and what its check saw still holds.    *)
(*                                                                         *)
(* That nothing is accepted twice rests on what is accepted being claimed  *)
(* in the statement that accepts it: a step by raising the last one used,  *)
(* a code by deleting its row, and a link by deleting its row before the   *)
(* password is hashed, which holds the row until the commit.               *)
(***************************************************************************)
EXTENDS People, TLAPS

-----------------------------------------------------------------------------
(* The inductive invariant                                                 *)

Steppers == {"totp", "verify totp", "confirm totp"}

\* A code typed in is one the clock allows, whichever request it came with.
Given == \A r \in Requests : doing[r].kind \in Steppers => doing[r].given \in 0..(MaxSteps + 1)

\* What was accepted can't be accepted again: the step is behind, the code and
\* the link are gone for good, and no request that holds a link shares it.
Spent ==
    /\ \A n : <<"step", n>> \in used => n \in 0..(MaxSteps + 1) /\ n <= last
    /\ \A n : <<"code", n>> \in used => n \in 1..made /\ n \notin usable
    /\ \A n : <<"link", n>> \in used => n \in 1..made /\ n \notin resets
Holding ==
    /\ \A r \in Requests : doing[r].kind = "reset" =>
          doing[r].given \in 1..made /\ <<"link", doing[r].given>> \notin used
    /\ \A q, r \in Requests : doing[q].kind = "reset" /\ doing[r].kind = "reset" /\ doing[q].given = doing[r].given
                              => q = r
Once == ~again /\ Spent /\ Holding /\ usable \cup resets \subseteq 1..made

\* A request under way when everyone was signed out is known to be late.
Late == \A r \in Requests : doing[r].kind # "idle" => doing[r].since = cut \/ doing[r].late

IInv == SignIns!TypeOK /\ Given /\ Once /\ Late /\ SignIns!SignedOutEverywhere

-----------------------------------------------------------------------------
(* Types of what the steps share                                           *)

LEMMA IdleType == SignIns!Bounds => SignIns!Idle \in SignIns!Request /\ SignIns!Idle.kind = "idle"
BY DEF SignIns!Bounds, SignIns!Idle, SignIns!Request, SignIns!Kinds

LEMMA NoneTypes == SignIns!Bounds => SignIns!NoSession \in SignIns!Session /\ SignIns!NoChallenge \in SignIns!Challenge
BY DEF SignIns!Bounds, SignIns!NoSession, SignIns!Session, SignIns!NoChallenge, SignIns!Challenge

\* What a step leaves of a request that does not begin.
GoesOn(q) == \/ doing'[q] = SignIns!Idle
             \/ /\ doing'[q].kind = doing[q].kind /\ doing'[q].given = doing[q].given
                /\ doing'[q].since = doing[q].since /\ (doing[q].late => doing'[q].late)

LEMMA BeginsType ==
    ASSUME SignIns!Bounds, SignIns!TypeOK, NEW r \in Requests, NEW kind \in SignIns!Kinds,
           NEW given \in 0..(MaxSteps + MaxMade + MaxChallenges + 1), NEW s \in 0..MaxSessions,
           NEW c \in 0..MaxChallenges, NEW k \in 0..MaxKeys, NEW rows \in SUBSET SignIns!Made,
           SignIns!Begins(r, kind, given, s, c, k, rows)
    PROVE  /\ SignIns!TypeOK'
           /\ doing'[r].kind = kind /\ doing'[r].given = given /\ doing'[r].since = cut
           /\ \A q \in Requests : q = r \/ doing'[q] = doing[q]
           /\ UNCHANGED <<SignIns!account, sessions, challenges, step, made, cut, used, again>>
<1> DEFINE new == [kind |-> kind, given |-> given, session |-> s, slot |-> c, key |-> k,
                   on |-> on /\ kind \in {"sign in", "totp", "verify totp"},
                   tried |-> IF c \in SignIns!Slots THEN challenges[c].attempts ELSE 0,
                   rows |-> rows, since |-> cut, late |-> FALSE]
<1>1. doing' = [doing EXCEPT ![r] = new] /\ UNCHANGED <<SignIns!account, sessions, challenges, step, made, cut, used, again>>
    BY DEF SignIns!Begins
<1>2. (IF c \in SignIns!Slots THEN challenges[c].attempts ELSE 0) \in 0..(MaxAttempts - 1)
    <2>1. c \in SignIns!Slots => challenges[c] \in SignIns!Challenge
        BY DEF SignIns!TypeOK
    <2> QED
        BY <2>1 DEF SignIns!Bounds, SignIns!Challenge
<1>3. (on /\ kind \in {"sign in", "totp", "verify totp"}) \in BOOLEAN
    OBVIOUS
<1>4. new \in SignIns!Request
    BY <1>2, <1>3 DEF SignIns!Request, SignIns!TypeOK
<1>5. new.kind = kind /\ new.given = given /\ new.since = cut
    OBVIOUS
<1> HIDE DEF new
<1>6. doing \in [Requests -> SignIns!Request]
    BY DEF SignIns!TypeOK
<1>7. /\ doing' \in [Requests -> SignIns!Request] /\ doing'[r] = new
      /\ \A q \in Requests : q = r \/ doing'[q] = doing[q]
    BY <1>1, <1>4, <1>6
<1>8. SignIns!TypeOK'
    BY <1>1, <1>7 DEF SignIns!TypeOK, SignIns!account
<1> QED
    BY <1>1, <1>5, <1>7, <1>8

LEMMA DoneType ==
    ASSUME SignIns!Bounds, SignIns!TypeOK, NEW r \in Requests, SignIns!Done(r)
    PROVE  /\ doing' \in [Requests -> SignIns!Request]
           /\ \A q \in Requests : GoesOn(q) /\ (q = r \/ doing'[q] = doing[q])
           /\ doing'[r] = SignIns!Idle
<1>1. /\ doing' = [doing EXCEPT ![r] = SignIns!Idle] /\ doing \in [Requests -> SignIns!Request] /\ SignIns!Idle \in SignIns!Request
    BY IdleType DEF SignIns!Done, SignIns!TypeOK
<1> QED
    BY <1>1 DEF GoesOn

LEMMA SignOutType ==
    ASSUME SignIns!Bounds, SignIns!TypeOK, NEW r, NEW keep \in 0..MaxSessions, SignIns!SignOutEverywhere(r, keep)
    PROVE  /\ doing' \in [Requests -> SignIns!Request] /\ \A q \in Requests : GoesOn(q)
           /\ \A q \in Requests : doing'[q].kind = "idle" \/ doing'[q].late
           /\ r \in Requests => doing'[r] = SignIns!Idle
           /\ sessions' \in [SignIns!Browsers -> SignIns!Session]
           /\ \A s \in SignIns!Browsers : sessions'[s].alive => sessions'[s].since = cut'
           /\ cut' \in 0..MaxCuts
<1>1. SignIns!Idle \in SignIns!Request /\ SignIns!Idle.kind = "idle" /\ SignIns!NoSession \in SignIns!Session /\ SignIns!NoSession.alive = FALSE
    BY IdleType, NoneTypes DEF SignIns!NoSession
<1>2. /\ cut < MaxCuts /\ cut' = cut + 1
      /\ sessions' = SignIns!EndAll(keep)
      /\ doing' = [q \in Requests |-> IF q = r \/ doing[q].kind = "idle" THEN SignIns!Idle ELSE [doing[q] EXCEPT !.late = TRUE]]
    BY DEF SignIns!SignOutEverywhere
<1>3. cut' \in 0..MaxCuts
    BY <1>2 DEF SignIns!TypeOK, SignIns!Bounds
<1>4. ASSUME NEW q \in Requests
      PROVE  /\ doing'[q] \in SignIns!Request /\ GoesOn(q)
             /\ doing'[q].kind = "idle" \/ doing'[q].late
             /\ q = r => doing'[q] = SignIns!Idle
    <2>1. CASE q = r \/ doing[q].kind = "idle"
        BY <1>1, <1>2, <2>1 DEF GoesOn
    <2>2. CASE ~(q = r \/ doing[q].kind = "idle")
        <3>1. doing'[q] = [doing[q] EXCEPT !.late = TRUE] /\ doing[q] \in SignIns!Request
            BY <1>2, <2>2 DEF SignIns!TypeOK
        <3>2. /\ doing'[q] \in SignIns!Request /\ doing'[q].late = TRUE
              /\ doing'[q].kind = doing[q].kind /\ doing'[q].given = doing[q].given /\ doing'[q].since = doing[q].since
            BY <3>1 DEF SignIns!Request
        <3> QED
            BY <2>2, <3>2 DEF GoesOn
    <2> QED
        BY <2>1, <2>2
<1>5. ASSUME NEW s \in SignIns!Browsers
      PROVE  sessions'[s] \in SignIns!Session /\ (sessions'[s].alive => sessions'[s].since = cut')
    <2>1. sessions[s] \in SignIns!Session
        BY DEF SignIns!TypeOK
    <2>2. sessions'[s] = IF s = keep THEN [sessions[s] EXCEPT !.since = cut'] ELSE SignIns!NoSession
        BY <1>2 DEF SignIns!EndAll
    <2>3. /\ [sessions[s] EXCEPT !.since = cut'] \in SignIns!Session
          /\ [sessions[s] EXCEPT !.since = cut'].since = cut'
        BY <1>3, <2>1 DEF SignIns!Session
    <2> QED
        BY <1>1, <2>2, <2>3
<1>6. DOMAIN doing' = Requests /\ doing' = [q \in Requests |-> doing'[q]]
    BY <1>2
<1>7. sessions' = [s \in SignIns!Browsers |-> sessions'[s]]
    BY <1>2 DEF SignIns!EndAll
<1> QED
    BY <1>3, <1>4, <1>5, <1>6, <1>7

\* A session begins for a request that was under way.
LEMMA StartType ==
    ASSUME SignIns!Bounds, SignIns!TypeOK, NEW r \in Requests, SignIns!StartSession(r)
    PROVE  /\ SignIns!Done(r) /\ sessions' \in [SignIns!Browsers -> SignIns!Session]
           /\ \A s \in SignIns!Browsers :
                 sessions'[s].alive => \/ sessions'[s] = sessions[s]
                                       \/ sessions'[s].since = doing[r].since /\ sessions'[s].late = doing[r].late
<1> DEFINE new == [alive |-> TRUE, since |-> doing[r].since, late |-> doing[r].late]
<1>1. PICK old \in {0} \cup {s \in SignIns!Browsers : sessions[s].alive}, b \in SignIns!Browsers :
          /\ ~sessions[b].alive
          /\ sessions' = [s \in SignIns!Browsers |->
                 CASE s = b -> new [] s = old -> SignIns!NoSession [] OTHER -> sessions[s]]
          /\ SignIns!Done(r)
    BY DEF SignIns!StartSession, SignIns!Lowest, SignIns!FreeBrowsers
<1>2. new \in SignIns!Session /\ new.since = doing[r].since /\ new.late = doing[r].late
    <2>1. doing[r] \in SignIns!Request
        BY DEF SignIns!TypeOK
    <2> QED
        BY <2>1 DEF SignIns!Session, SignIns!Request
<1>3. SignIns!NoSession \in SignIns!Session /\ SignIns!NoSession.alive = FALSE /\ sessions \in [SignIns!Browsers -> SignIns!Session]
    BY NoneTypes DEF SignIns!NoSession, SignIns!TypeOK
<1>4. b # old
    BY <1>1, <1>3 DEF SignIns!Browsers, SignIns!Bounds
<1> HIDE DEF new
<1>5. \A s \in SignIns!Browsers : \/ s = b /\ sessions'[s] = new
                         \/ sessions'[s] = SignIns!NoSession
                         \/ sessions'[s] = sessions[s]
    BY <1>1, <1>4
<1>6. sessions' = [s \in SignIns!Browsers |-> sessions'[s]]
    BY <1>1
<1> QED
    BY <1>1, <1>2, <1>3, <1>5, <1>6

-----------------------------------------------------------------------------
(* What most steps keep                                                    *)

\* Only a request that begins is of a kind it was not.
LEMMA Continues ==
    ASSUME NEW q, GoesOn(q), doing'[q].kind # "idle"
    PROVE  doing'[q].kind = doing[q].kind /\ doing'[q].given = doing[q].given
<1>1. SignIns!Idle.kind = "idle"
    BY DEF SignIns!Idle
<1> QED
    BY <1>1 DEF GoesOn

\* A step that accepts nothing, and gives new codes and links new numbers.
LEMMA OnceKept ==
    ASSUME SignIns!TypeOK, Given, Once, \A q \in Requests : GoesOn(q),
           UNCHANGED <<used, again, last>>, made' \in Nat, made <= made',
           usable' \cup resets' \subseteq 1..made',
           \A n \in 1..made : (n \in usable' => n \in usable) /\ (n \in resets' => n \in resets)
    PROVE  Given' /\ Once'
<1>0. made \in Nat /\ SignIns!Idle.kind = "idle"
    BY DEF SignIns!TypeOK, SignIns!Idle
<1>1. \A n \in 1..made : n \in 1..made'
    BY <1>0
<1>2. Spent'
    BY <1>1 DEF Once, Spent
<1>3. \A q \in Requests : doing'[q].kind # "idle" => doing'[q].kind = doing[q].kind /\ doing'[q].given = doing[q].given
    BY <1>0 DEF GoesOn
<1>4. Holding'
    BY <1>1, <1>3 DEF Once, Holding
<1>5. Given'
    BY <1>3 DEF Given, Steppers
<1> QED
    BY <1>2, <1>4, <1>5 DEF Once

\* What is left of the requests once something was accepted.
LEMMA GivenKept ==
    ASSUME Given, \A q \in Requests : GoesOn(q)
    PROVE  Given'
<1>1. \A q \in Requests : doing'[q].kind # "idle" => doing'[q].kind = doing[q].kind /\ doing'[q].given = doing[q].given
    BY Continues
<1> QED
    BY <1>1 DEF Given, Steppers

\* A step in which nobody is signed out, and whoever is signed in was, or was
\* on the way.
LEMMA LateKept ==
    ASSUME Late, SignIns!SignedOutEverywhere, \A q \in Requests : GoesOn(q), cut' = cut,
           \A s \in SignIns!Browsers : sessions'[s].alive =>
              \/ sessions'[s] = sessions[s]
              \/ \E q \in Requests : /\ doing[q].kind # "idle"
                                     /\ sessions'[s].since = doing[q].since /\ sessions'[s].late = doing[q].late
    PROVE  Late' /\ SignIns!SignedOutEverywhere'
<1>1. Late'
    BY DEF Late, GoesOn, SignIns!Idle
<1>2. SignIns!SignedOutEverywhere'
    BY DEF Late, SignIns!SignedOutEverywhere
<1> QED
    BY <1>1, <1>2

\* A step in which everyone is signed out.
LEMMA LateAgain ==
    ASSUME SignIns!Bounds, SignIns!TypeOK, NEW r, NEW keep \in 0..MaxSessions, SignIns!SignOutEverywhere(r, keep)
    PROVE  Late' /\ SignIns!SignedOutEverywhere'
BY SignOutType DEF Late, SignIns!SignedOutEverywhere

LEMMA BegunKept ==
    ASSUME SignIns!Bounds, IInv, NEW r \in Requests, NEW kind \in SignIns!Kinds,
           NEW given \in 0..(MaxSteps + MaxMade + MaxChallenges + 1), NEW s \in 0..MaxSessions,
           NEW c \in 0..MaxChallenges, NEW k \in 0..MaxKeys, NEW rows \in SUBSET SignIns!Made,
           SignIns!Begins(r, kind, given, s, c, k, rows),
           kind \in Steppers => given \in 0..(MaxSteps + 1),
           kind = "reset" => /\ given \in resets
                             /\ \A q \in Requests : doing[q].kind = "reset" => doing[q].given # given
    PROVE  IInv'
<1>1. /\ SignIns!TypeOK'
      /\ doing'[r].kind = kind /\ doing'[r].given = given /\ doing'[r].since = cut
      /\ \A q \in Requests : q = r \/ doing'[q] = doing[q]
      /\ UNCHANGED <<SignIns!account, sessions, challenges, step, made, cut, used, again>>
    BY BeginsType DEF IInv
<1> HIDE DEF SignIns!account
<1>2. UNCHANGED <<last, usable, resets, made, cut, used, again, sessions>>
    BY <1>1 DEF SignIns!account
<1>3. Given'
    BY <1>1 DEF IInv, Given
<1>4. Spent'
    BY <1>2 DEF IInv, Once, Spent
<1>5. ASSUME NEW q \in Requests, doing'[q].kind = "reset"
      PROVE  doing'[q].given \in 1..made /\ <<"link", doing'[q].given>> \notin used
    BY <1>1, <1>5 DEF IInv, Once, Holding, Spent
<1>6. ASSUME NEW p \in Requests, NEW q \in Requests, doing'[p].kind = "reset", doing'[q].kind = "reset",
             doing'[p].given = doing'[q].given
      PROVE  p = q
    BY <1>1, <1>6 DEF IInv, Once, Holding
<1>7. Holding'
    BY <1>2, <1>5, <1>6 DEF Holding
<1>8. Late' /\ SignIns!SignedOutEverywhere'
    BY <1>1, <1>2 DEF IInv, Late, SignIns!SignedOutEverywhere
<1> QED
    BY <1>1, <1>2, <1>3, <1>4, <1>7, <1>8 DEF IInv, Once

\* The codes and links of a step that replaces some of them.
Numbered == /\ made' \in 0..MaxMade /\ made <= made' /\ usable' \cup resets' \subseteq 1..made'
            /\ \A n \in 1..made : (n \in usable' => n \in usable) /\ (n \in resets' => n \in resets)

LEMMA QuietKept ==
    ASSUME SignIns!Bounds, IInv, doing' \in [Requests -> SignIns!Request], \A q \in Requests : GoesOn(q),
           UNCHANGED <<last, cut, used, again>>, Numbered,
           active' \in BOOLEAN, on' \in BOOLEAN, keys' \subseteq SignIns!Keys, step' \in 1..MaxSteps,
           challenges' \in [SignIns!Slots -> SignIns!Challenge], sessions' \in [SignIns!Browsers -> SignIns!Session],
           \A s \in SignIns!Browsers : sessions'[s].alive =>
              \/ sessions'[s] = sessions[s]
              \/ \E q \in Requests : /\ doing[q].kind # "idle"
                                     /\ sessions'[s].since = doing[q].since /\ sessions'[s].late = doing[q].late
    PROVE  IInv'
<1>1. made \in Nat /\ made' \in Nat /\ usable' \subseteq SignIns!Made /\ resets' \subseteq SignIns!Made
    BY DEF IInv, SignIns!TypeOK, Numbered, SignIns!Made, SignIns!Bounds
<1>2. SignIns!TypeOK'
    BY <1>1 DEF IInv, SignIns!TypeOK, Numbered
<1>3. Given' /\ Once'
    BY <1>1, OnceKept DEF IInv, Numbered
<1>4. Late' /\ SignIns!SignedOutEverywhere'
    BY LateKept DEF IInv
<1> QED
    BY <1>2, <1>3, <1>4 DEF IInv

\* The same when no code or link is made or goes.
LEMMA SameCodes ==
    ASSUME IInv, UNCHANGED <<made, usable, resets>>
    PROVE  Numbered
BY DEF IInv, SignIns!TypeOK, Once, Numbered

\* A step of no request.
LEMMA SameRequests ==
    ASSUME IInv, UNCHANGED doing
    PROVE  doing' \in [Requests -> SignIns!Request] /\ \A q \in Requests : GoesOn(q)
BY DEF IInv, SignIns!TypeOK, GoesOn

LEMMA TriedType ==
    ASSUME SignIns!Bounds, SignIns!TypeOK, NEW r \in Requests, doing[r].slot \in SignIns!Slots
    PROVE  SignIns!Tried(r) \in SignIns!Challenge
<1>1. /\ doing[r] \in SignIns!Request /\ challenges[doing[r].slot] \in SignIns!Challenge /\ SignIns!NoChallenge \in SignIns!Challenge
    BY NoneTypes DEF SignIns!TypeOK
<1>2. doing[r].tried \in 0..(MaxAttempts - 1) /\ MaxAttempts \in Nat
    BY <1>1 DEF SignIns!Request, SignIns!Bounds
<1>3. CASE doing[r].tried + 1 >= MaxAttempts
    BY <1>1, <1>3 DEF SignIns!Tried
<1>4. CASE ~(doing[r].tried + 1 >= MaxAttempts)
    <2>1. doing[r].tried + 1 \in 0..(MaxAttempts - 1)
        BY <1>2, <1>4
    <2>2. SignIns!Tried(r) = [challenges[doing[r].slot] EXCEPT !.attempts = doing[r].tried + 1]
        BY <1>4 DEF SignIns!Tried
    <2> QED
        BY <1>1, <2>1, <2>2 DEF SignIns!Challenge
<1> QED
    BY <1>3, <1>4

LEMMA ChallengeTypes ==
    ASSUME SignIns!Bounds, SignIns!TypeOK
    PROVE  /\ \A c, purpose : purpose \in SignIns!Purposes /\ SignIns!Create(c, purpose) => challenges' \in [SignIns!Slots -> SignIns!Challenge]
           /\ \A c : SignIns!Drop(c) => challenges' \in [SignIns!Slots -> SignIns!Challenge]
<1>1. SignIns!NoChallenge \in SignIns!Challenge /\ challenges \in [SignIns!Slots -> SignIns!Challenge]
    BY NoneTypes DEF SignIns!TypeOK
<1>2. \A purpose \in SignIns!Purposes : [purpose |-> purpose, attempts |-> 0] \in SignIns!Challenge
    BY DEF SignIns!Challenge, SignIns!Bounds
<1> QED
    BY <1>1, <1>2 DEF SignIns!Create, SignIns!Drop

-----------------------------------------------------------------------------
(* Signing in                                                              *)

\* The requests that come with no code typed in and no link, and what they
\* may refer to.
Plain == SignIns!Kinds \ (Steppers \cup {"reset"})
Things == SignIns!Slots \cup usable \cup {0}
ABrowser == SignIns!Browsers \cup {0}
ASlot == SignIns!Slots \cup {0}
AKey == SignIns!Keys \cup {0}

LEMMA NoneOfThem ==
    /\ 0 \in Things /\ 0 \in ABrowser /\ 0 \in ASlot /\ 0 \in AKey
    /\ \A c \in SignIns!Slots : c \in Things /\ c \in ASlot
    /\ \A c \in usable : c \in Things
    /\ \A s \in SignIns!Browsers : s \in ABrowser
    /\ \A k \in SignIns!Keys : k \in AKey
BY DEF Things, ABrowser, ASlot, AKey

LEMMA BegunPlain ==
    ASSUME SignIns!Bounds, IInv, NEW r \in Requests, NEW kind \in Plain,
           NEW given \in Things, NEW s \in ABrowser, NEW c \in ASlot, NEW k \in AKey,
           NEW rows \in SUBSET SignIns!Made, SignIns!Begins(r, kind, given, s, c, k, rows)
    PROVE  IInv'
<1>1. usable \subseteq 1..MaxMade
    BY DEF IInv, SignIns!TypeOK, SignIns!Made
<1>2. /\ given \in 0..(MaxSteps + MaxMade + MaxChallenges + 1) /\ s \in 0..MaxSessions
      /\ c \in 0..MaxChallenges /\ k \in 0..MaxKeys
    BY <1>1 DEF SignIns!Bounds, SignIns!Slots, SignIns!Browsers, SignIns!Keys, Things, ABrowser, ASlot, AKey
<1>3. kind \in SignIns!Kinds /\ kind # "reset" /\ kind \notin Steppers
    BY DEF Plain
<1> QED
    BY <1>2, <1>3, BegunKept

LEMMA SignInKept == ASSUME SignIns!Bounds, IInv, NEW r \in Requests, SignIns!SignIn(r) PROVE IInv'
<1>1. SignIns!Begins(r, "sign in", 0, 0, 0, 0, {}) /\ "sign in" \in Plain
    BY DEF SignIns!SignIn, SignIns!Kinds, Steppers, Plain
<1>2. {} \in SUBSET SignIns!Made
    OBVIOUS
<1> QED
    BY <1>1, <1>2, BegunPlain, NoneOfThem

LEMMA SignInCheckedKept == ASSUME SignIns!Bounds, IInv, NEW r \in Requests, SignIns!SignInChecked(r) PROVE IInv'
<1>0. SignIns!TypeOK /\ doing[r].kind = "sign in"
    BY DEF IInv, SignIns!SignInChecked
<1>1. UNCHANGED <<active, on, last, usable, resets, keys, step, made, cut, used, again>>
    BY DEF SignIns!SignInChecked, SignIns!account
<1>2. CASE SignIns!Done(r) /\ sessions' = sessions /\ \E c \in SignIns!Slots : SignIns!Create(c, "two_factor")
    <2>1. challenges' \in [SignIns!Slots -> SignIns!Challenge]
        BY <1>0, <1>2, ChallengeTypes DEF SignIns!Purposes
    <2> QED
        BY <1>0, <1>1, <1>2, <2>1, DoneType, SameCodes, QuietKept DEF SignIns!TypeOK
<1>3. CASE SignIns!StartSession(r) /\ challenges' = challenges
    BY <1>0, <1>1, <1>3, StartType, DoneType, SameCodes, QuietKept DEF SignIns!TypeOK
<1> QED
    BY <1>2, <1>3 DEF SignIns!SignInChecked

LEMMA SecondStepKept ==
    ASSUME SignIns!Bounds, IInv, NEW r \in Requests, NEW c \in SignIns!Slots, SignIns!SecondStep(r, c)
    PROVE  IInv'
<1>1. ASSUME NEW given \in SignIns!Matching, SignIns!Begins(r, "totp", given, 0, c, 0, {}) PROVE IInv'
    <2>1. /\ given \in 0..(MaxSteps + 1) /\ given \in 0..(MaxSteps + MaxMade + MaxChallenges + 1)
        BY DEF SignIns!Matching, IInv, SignIns!TypeOK, SignIns!Bounds
    <2>2. /\ 0 \in 0..MaxSessions /\ 0 \in 0..MaxKeys /\ c \in 0..MaxChallenges /\ {} \in SUBSET SignIns!Made
          /\ "totp" \in SignIns!Kinds /\ "totp" # "reset"
        BY DEF SignIns!Bounds, SignIns!Slots, SignIns!Kinds
    <2> QED
        BY <1>1, <2>1, <2>2, BegunKept
<1>2. ASSUME NEW given \in usable \cup {0}, SignIns!Begins(r, "recovery code", given, 0, c, 0, {}) PROVE IInv'
    <2>1. "recovery code" \in Plain /\ {} \in SUBSET SignIns!Made /\ given \in Things
        BY NoneOfThem DEF SignIns!Kinds, Steppers, Plain
    <2> QED
        BY <1>2, <2>1, BegunPlain, NoneOfThem
<1> QED
    BY <1>1, <1>2 DEF SignIns!SecondStep

\* A wrong code, or one that was claimed meanwhile.
LEMMA FailedKept ==
    ASSUME SignIns!Bounds, IInv, NEW r \in Requests, SignIns!SecondStepFailed(r),
           UNCHANGED <<active, on, last, usable, resets, keys, sessions, step, made, cut, used, again>>
    PROVE  IInv'
<1>1. SignIns!TypeOK /\ SignIns!Done(r)
    BY DEF IInv, SignIns!SecondStepFailed
<1>2. challenges' \in [SignIns!Slots -> SignIns!Challenge]
    BY <1>1, TriedType DEF SignIns!SecondStepFailed, SignIns!TypeOK
<1> QED
    BY <1>1, <1>2, DoneType, SameCodes, QuietKept DEF SignIns!TypeOK

\* A step that may be claimed was not used before, and is the last one then.
LEMMA StepClaimed ==
    ASSUME SignIns!Bounds, SignIns!TypeOK, Spent, NEW n \in 0..(MaxSteps + 1), SignIns!ClaimStep(n)
    PROVE  /\ <<"step", n>> \notin used /\ n <= n
           /\ \A m : <<"step", m>> \in used => m \in 0..(MaxSteps + 1) /\ m <= n
<1>1. last \in Nat /\ n \in Nat /\ last < n
    BY DEF SignIns!TypeOK, SignIns!Bounds, SignIns!ClaimStep
<1>2. \A m : <<"step", m>> \in used => m \in 0..(MaxSteps + 1) /\ m <= last
    BY DEF Spent
<1>3. \A m : m \in 0..(MaxSteps + 1) /\ m <= last => m \in Nat /\ m < n
    BY <1>1 DEF SignIns!Bounds
<1> QED
    BY <1>1, <1>2, <1>3

\* A code for the clock's step is accepted, for signing in or for proving who
\* one is.
LEMMA StepAccepted ==
    ASSUME SignIns!Bounds, IInv, NEW r \in Requests, doing[r].kind \in {"totp", "verify totp"},
           SignIns!ClaimStep(doing[r].given), last' = doing[r].given, SignIns!Accept({<<"step", doing[r].given>>}),
           SignIns!Done(r), UNCHANGED <<active, on, usable, resets, keys, step, made, cut>>,
           challenges' \in [SignIns!Slots -> SignIns!Challenge], sessions' \in [SignIns!Browsers -> SignIns!Session],
           \A s \in SignIns!Browsers : sessions'[s].alive =>
              \/ sessions'[s] = sessions[s]
              \/ sessions'[s].since = doing[r].since /\ sessions'[s].late = doing[r].late
    PROVE  IInv'
<1>1. PICK n \in 0..(MaxSteps + 1) : n = doing[r].given /\ last < n
    BY DEF IInv, Given, Steppers, SignIns!ClaimStep
<1>t. /\ <<"step", n>> \notin used /\ n <= n
      /\ \A m : <<"step", m>> \in used => m \in 0..(MaxSteps + 1) /\ m <= n
    BY <1>1, StepClaimed DEF IInv, Once
<1>2. /\ doing' \in [Requests -> SignIns!Request] /\ \A q \in Requests : GoesOn(q)
      /\ doing[r].kind # "idle"
    BY DoneType DEF IInv
<1>3. used' = used \cup {<<"step", n>>} /\ last' = n /\ again' = (again \/ {<<"step", n>>} \cap used # {})
    BY <1>1 DEF SignIns!Accept
<1>4. ~again' /\ again' \in BOOLEAN
    BY <1>3, <1>t DEF IInv, Once
<1>5. Spent'
    <2>1. \A m : <<"step", m>> \in used' => m \in 0..(MaxSteps + 1) /\ m <= last'
        <3>1. \A m : <<"step", m>> \in used' => <<"step", m>> \in used \/ m = n
            BY <1>3
        <3> QED
            BY <1>1, <1>3, <1>t, <3>1
    <2>2. \A m : /\ <<"code", m>> \in used' => <<"code", m>> \in used
                 /\ <<"link", m>> \in used' => <<"link", m>> \in used
        BY <1>3
    <2> QED
        BY <2>1, <2>2 DEF IInv, Once, Spent
<1>6. Holding'
    <2>1. \A m : <<"link", m>> \in used' => <<"link", m>> \in used
        BY <1>3
    <2>2. \A q \in Requests : doing'[q].kind = "reset" => doing[q].kind = "reset" /\ doing'[q].given = doing[q].given
        BY <1>2, Continues
    <2> QED
        BY <2>1, <2>2 DEF IInv, Once, Holding
<1>7. SignIns!TypeOK'
    BY <1>1, <1>2, <1>3, <1>4 DEF IInv, SignIns!TypeOK
<1>8. Given' /\ Late' /\ SignIns!SignedOutEverywhere'
    BY <1>2, GivenKept, LateKept DEF IInv
<1> QED
    BY <1>4, <1>5, <1>6, <1>7, <1>8 DEF IInv, Once

LEMMA TotpCheckedKept == ASSUME SignIns!Bounds, IInv, NEW r \in Requests, SignIns!TotpChecked(r) PROVE IInv'
<1>1. CASE doing[r].on /\ SignIns!ClaimStep(doing[r].given)
    <2>1. /\ doing[r].kind = "totp" /\ last' = doing[r].given /\ SignIns!Accept({<<"step", doing[r].given>>})
          /\ SignIns!StartSession(r) /\ SignIns!Drop(doing[r].slot)
          /\ UNCHANGED <<active, on, usable, resets, keys, step, made, cut>>
        BY <1>1 DEF SignIns!TotpChecked, SignIns!FinishSecondStep
    <2>2. challenges' \in [SignIns!Slots -> SignIns!Challenge]
        BY <2>1, ChallengeTypes DEF IInv
    <2> QED
        BY <1>1, <2>1, <2>2, StartType, StepAccepted DEF IInv
<1>2. CASE ~(doing[r].on /\ SignIns!ClaimStep(doing[r].given))
    BY <1>2, FailedKept DEF SignIns!TotpChecked
<1> QED
    BY <1>1, <1>2

LEMMA RecoveryCodeCheckedKept ==
    ASSUME SignIns!Bounds, IInv, NEW r \in Requests, SignIns!RecoveryCodeChecked(r)
    PROVE  IInv'
<1> DEFINE paper == doing[r].given
<1>1. CASE paper \in usable
    <2>1. /\ doing[r].kind = "recovery code" /\ usable' = usable \ {paper} /\ SignIns!Accept({<<"code", paper>>})
          /\ SignIns!StartSession(r) /\ SignIns!Drop(doing[r].slot)
          /\ UNCHANGED <<active, on, last, resets, keys, step, made, cut>>
        BY <1>1 DEF SignIns!RecoveryCodeChecked, SignIns!FinishSecondStep, SignIns!UseRecoveryCode
    <2>2. challenges' \in [SignIns!Slots -> SignIns!Challenge]
        BY <2>1, ChallengeTypes DEF IInv
    <2>3. /\ SignIns!Done(r) /\ doing' \in [Requests -> SignIns!Request] /\ \A q \in Requests : GoesOn(q)
          /\ sessions' \in [SignIns!Browsers -> SignIns!Session]
          /\ \A s \in SignIns!Browsers : sessions'[s].alive =>
                \/ sessions'[s] = sessions[s]
                \/ sessions'[s].since = doing[r].since /\ sessions'[s].late = doing[r].late
        BY <2>1, StartType, DoneType DEF IInv
    <2> HIDE DEF paper
    <2>4. /\ used' = used \cup {<<"code", paper>>} /\ <<"code", paper>> \notin used /\ paper \in 1..made
          /\ again' = (again \/ {<<"code", paper>>} \cap used # {})
        BY <1>1, <2>1 DEF SignIns!Accept, IInv, Once, Spent
    <2>5. ~again' /\ again' \in BOOLEAN
        BY <2>4 DEF IInv, Once
    <2>6. Spent'
        <3>1. \A m : <<"code", m>> \in used' => m \in 1..made /\ m \notin usable'
            BY <2>1, <2>4 DEF IInv, Once, Spent
        <3>2. \A m : /\ <<"step", m>> \in used' => <<"step", m>> \in used
                     /\ <<"link", m>> \in used' => <<"link", m>> \in used
            BY <2>4
        <3> QED
            BY <2>1, <3>1, <3>2 DEF IInv, Once, Spent
    <2>7. Holding'
        <3>1. \A m : <<"link", m>> \in used' => <<"link", m>> \in used
            BY <2>4
        <3>2. \A q \in Requests : doing'[q].kind = "reset" => doing[q].kind = "reset" /\ doing'[q].given = doing[q].given
            BY <2>3, Continues
        <3> QED
            BY <2>1, <3>1, <3>2 DEF IInv, Once, Holding
    <2>8. SignIns!TypeOK'
        BY <2>1, <2>2, <2>3, <2>5 DEF IInv, SignIns!TypeOK
    <2>9. Given' /\ Late' /\ SignIns!SignedOutEverywhere'
        BY <2>1, <2>3, GivenKept, LateKept DEF IInv
    <2>10. (usable \cup resets)' \subseteq 1..made'
        BY <2>1 DEF IInv, Once
    <2> QED
        BY <2>5, <2>6, <2>7, <2>8, <2>9, <2>10 DEF IInv, Once
<1>2. CASE paper \notin usable
    BY <1>2, FailedKept DEF SignIns!RecoveryCodeChecked
<1> QED
    BY <1>1, <1>2

-----------------------------------------------------------------------------
(* Passkeys                                                                *)

LEMMA PasskeyOptionsKept == ASSUME SignIns!Bounds, IInv, NEW c \in SignIns!Slots, SignIns!PasskeyOptions(c) PROVE IInv'
<1>1. /\ UNCHANGED <<active, on, last, usable, resets, keys, sessions, step, made, doing, cut, used, again>>
      /\ \E purpose \in SignIns!Purposes : SignIns!Create(c, purpose)
    BY DEF SignIns!PasskeyOptions, SignIns!account, SignIns!Purposes
<1>2. challenges' \in [SignIns!Slots -> SignIns!Challenge]
    BY <1>1, ChallengeTypes DEF IInv
<1> QED
    BY <1>1, <1>2, SameRequests, SameCodes, QuietKept DEF IInv, SignIns!TypeOK

LEMMA AddPasskeyOptionsKept ==
    ASSUME SignIns!Bounds, IInv, NEW r \in Requests, NEW s \in SignIns!Browsers, SignIns!AddPasskeyOptions(r, s)
    PROVE  IInv'
<1>1. /\ UNCHANGED <<active, on, last, usable, resets, keys, sessions, step, made, doing, cut, used, again>>
      /\ \E c : SignIns!Create(c, "passkey_register")
    BY DEF SignIns!AddPasskeyOptions, SignIns!account
<1>2. challenges' \in [SignIns!Slots -> SignIns!Challenge]
    BY <1>1, ChallengeTypes DEF IInv, SignIns!Purposes
<1> QED
    BY <1>1, <1>2, SameRequests, SameCodes, QuietKept DEF IInv, SignIns!TypeOK

LEMMA AnswerKept ==
    ASSUME SignIns!Bounds, IInv, NEW r \in Requests, NEW c \in SignIns!Slots, NEW k \in keys, SignIns!Answer(r, c, k)
    PROVE  IInv'
<1>1. k \in SignIns!Keys /\ {} \in SUBSET SignIns!Made /\ "passkey" \in Plain /\ "second passkey" \in Plain
      /\ "verify passkey" \in Plain
    BY DEF IInv, SignIns!TypeOK, Plain, SignIns!Kinds, Steppers
<1>2. \/ SignIns!Begins(r, "passkey", c, 0, 0, k, {})
      \/ \E d \in SignIns!Slots : SignIns!Begins(r, "second passkey", c, 0, d, k, {})
      \/ \E s \in SignIns!Browsers : SignIns!Begins(r, "verify passkey", c, s, 0, k, {})
    BY DEF SignIns!Answer
<1> QED
    BY <1>1, <1>2, BegunPlain, NoneOfThem

LEMMA AnsweredKept == ASSUME SignIns!Bounds, IInv, NEW r \in Requests, SignIns!Answered(r) PROVE IInv'
<1>0. /\ SignIns!TypeOK /\ doing[r].kind # "idle"
      /\ UNCHANGED <<active, on, last, usable, resets, keys, step, made, cut, used, again>>
    BY DEF IInv, SignIns!Answered, SignIns!account
<1>1. \/ SignIns!Done(r) /\ sessions' = sessions
      \/ SignIns!StartSession(r)
    BY DEF SignIns!Answered, SignIns!Verified
<1>2. /\ SignIns!Done(r) /\ sessions' \in [SignIns!Browsers -> SignIns!Session]
      /\ \A s \in SignIns!Browsers : sessions'[s].alive =>
            \/ sessions'[s] = sessions[s]
            \/ sessions'[s].since = doing[r].since /\ sessions'[s].late = doing[r].late
    BY <1>0, <1>1, StartType DEF SignIns!TypeOK
<1>3. challenges' \in [SignIns!Slots -> SignIns!Challenge]
    <2>1. PICK S, T : challenges' = [d \in SignIns!Slots |-> IF d \in S THEN SignIns!NoChallenge
                                     ELSE IF d \in T /\ d = doing[r].slot THEN SignIns!Tried(r) ELSE challenges[d]]
        <3> DEFINE c == doing[r].given
                   claimed == /\ challenges[c].purpose \in DOMAIN SignIns!Answering
                              /\ SignIns!Answering[challenges[c].purpose] = doing[r].kind
                   S == {d \in SignIns!Slots : d = c /\ claimed}
                   T == {d \in SignIns!Slots : challenges[d].purpose = "two_factor"}
        <3>1. CASE claimed /\ doing[r].key \in keys
            <4>1. challenges' = [d \in SignIns!Slots |-> IF d \in {c, doing[r].slot} THEN SignIns!NoChallenge ELSE challenges[d]]
                BY <3>1 DEF SignIns!Answered
            <4>2. challenges' = [d \in SignIns!Slots |-> IF d \in {c, doing[r].slot} THEN SignIns!NoChallenge
                                 ELSE IF d \in {} /\ d = doing[r].slot THEN SignIns!Tried(r) ELSE challenges[d]]
                BY <4>1
            <4> QED
                BY <4>2
        <3>2. CASE ~(claimed /\ doing[r].key \in keys)
            <4>1. challenges' = [d \in SignIns!Slots |->
                      CASE d = c /\ claimed -> SignIns!NoChallenge
                        [] d = doing[r].slot /\ challenges[d].purpose = "two_factor" -> SignIns!Tried(r)
                        [] OTHER -> challenges[d]]
                BY <3>2 DEF SignIns!Answered
            <4>2. claimed => challenges[c].purpose # "two_factor"
                BY DEF SignIns!Answering
            <4> HIDE DEF claimed, c
            <4>3. challenges' = [d \in SignIns!Slots |-> IF d \in S THEN SignIns!NoChallenge
                                 ELSE IF d \in T /\ d = doing[r].slot THEN SignIns!Tried(r) ELSE challenges[d]]
                BY <4>1, <4>2
            <4> QED
                BY <4>3
        <3> QED
            BY <3>1, <3>2
    <2>2. ASSUME NEW d \in SignIns!Slots PROVE challenges'[d] \in SignIns!Challenge
        BY <1>0, <2>1, NoneTypes, TriedType DEF SignIns!TypeOK
    <2> QED
        BY <2>1, <2>2
<1> QED
    BY <1>0, <1>2, <1>3, DoneType, SameCodes, QuietKept DEF SignIns!TypeOK

LEMMA AddPasskeyKept ==
    ASSUME SignIns!Bounds, IInv, NEW r \in Requests, NEW s \in SignIns!Browsers, NEW c \in SignIns!Slots, SignIns!AddPasskey(r, s, c)
    PROVE  IInv'
<1>1. SignIns!Begins(r, "add passkey", c, s, 0, 0, {}) /\ "add passkey" \in Plain /\ {} \in SUBSET SignIns!Made
    BY DEF SignIns!AddPasskey, Plain, SignIns!Kinds, Steppers
<1> QED
    BY <1>1, BegunPlain, NoneOfThem

LEMMA PasskeyAddedKept == ASSUME SignIns!Bounds, IInv, NEW r \in Requests, SignIns!PasskeyAdded(r) PROVE IInv'
<1>1. /\ SignIns!Done(r)
      /\ UNCHANGED <<active, on, last, usable, resets, sessions, step, made, cut, used, again>>
      /\ \/ SignIns!Drop(doing[r].given) /\ \E k \in SignIns!Keys : keys' = keys \cup {k}
         \/ UNCHANGED <<challenges, keys>>
    BY DEF SignIns!PasskeyAdded, SignIns!Lowest
<1>2. challenges' \in [SignIns!Slots -> SignIns!Challenge] /\ keys' \subseteq SignIns!Keys
    BY <1>1, ChallengeTypes DEF IInv, SignIns!TypeOK
<1> QED
    BY <1>1, <1>2, DoneType, SameCodes, QuietKept DEF IInv, SignIns!TypeOK

LEMMA RemovePasskeyKept ==
    ASSUME SignIns!Bounds, IInv, NEW s \in SignIns!Browsers, NEW k \in keys, SignIns!RemovePasskey(s, k)
    PROVE  IInv'
<1>1. /\ UNCHANGED <<active, on, last, usable, resets, sessions, challenges, step, made, doing, cut, used, again>>
      /\ keys' \subseteq SignIns!Keys
    BY DEF SignIns!RemovePasskey, IInv, SignIns!TypeOK
<1> QED
    BY <1>1, SameRequests, SameCodes, QuietKept DEF IInv, SignIns!TypeOK

-----------------------------------------------------------------------------
(* Proving who one is, and the password                                    *)

LEMMA VerifyKept ==
    ASSUME SignIns!Bounds, IInv, NEW r \in Requests, NEW s \in SignIns!Browsers, SignIns!Verify(r, s)
    PROVE  IInv'
<1>1. CASE SignIns!Begins(r, "verify", 0, s, 0, 0, {})
    <2>1. "verify" \in Plain /\ {} \in SUBSET SignIns!Made
        BY DEF Plain, SignIns!Kinds, Steppers
    <2> QED
        BY <1>1, <2>1, BegunPlain, NoneOfThem
<1>2. ASSUME NEW given \in SignIns!Matching, SignIns!Begins(r, "verify totp", given, s, 0, 0, {}) PROVE IInv'
    <2>1. given \in 0..(MaxSteps + 1) /\ given \in 0..(MaxSteps + MaxMade + MaxChallenges + 1)
        BY DEF SignIns!Matching, IInv, SignIns!TypeOK, SignIns!Bounds
    <2>2. /\ s \in 0..MaxSessions /\ 0 \in 0..MaxKeys /\ 0 \in 0..MaxChallenges /\ {} \in SUBSET SignIns!Made
          /\ "verify totp" \in SignIns!Kinds /\ "verify totp" # "reset"
        BY DEF SignIns!Bounds, SignIns!Browsers, SignIns!Kinds
    <2> QED
        BY <1>2, <2>1, <2>2, BegunKept
<1> QED
    BY <1>1, <1>2 DEF SignIns!Verify

LEMMA VerifyCheckedKept == ASSUME SignIns!Bounds, IInv, NEW r \in Requests, SignIns!VerifyChecked(r) PROVE IInv'
<1>0. SignIns!TypeOK /\ sessions \in [SignIns!Browsers -> SignIns!Session] /\ challenges \in [SignIns!Slots -> SignIns!Challenge]
    BY DEF IInv, SignIns!TypeOK
<1>1. /\ UNCHANGED <<active, on, usable, resets, keys, challenges, step, made, cut>>
      /\ SignIns!Done(r) /\ sessions' = sessions
    BY DEF SignIns!VerifyChecked, SignIns!Verified
<1>2. CASE UNCHANGED <<last, used, again>>
    BY <1>0, <1>1, <1>2, DoneType, SameCodes, QuietKept DEF SignIns!TypeOK
<1>3. CASE /\ doing[r].kind = "verify totp" /\ SignIns!ClaimStep(doing[r].given)
           /\ last' = doing[r].given /\ SignIns!Accept({<<"step", doing[r].given>>})
    BY <1>0, <1>1, <1>3, StepAccepted
<1> QED
    BY <1>2, <1>3 DEF SignIns!VerifyChecked

\* Everyone is signed out, and the links that still work may go.
LEMMA SignedOutKept ==
    ASSUME SignIns!Bounds, IInv, NEW r, NEW keep \in 0..MaxSessions, SignIns!SignOutEverywhere(r, keep),
           UNCHANGED <<on, last, usable, keys, challenges, step, made, used, again>>,
           active' \in BOOLEAN, resets' \subseteq resets
    PROVE  IInv'
<1>1. /\ doing' \in [Requests -> SignIns!Request] /\ \A q \in Requests : GoesOn(q)
      /\ sessions' \in [SignIns!Browsers -> SignIns!Session] /\ cut' \in 0..MaxCuts
    BY SignOutType DEF IInv
<1>2. SignIns!TypeOK'
    BY <1>1 DEF IInv, SignIns!TypeOK
<1>3. made \in Nat /\ made <= made /\ usable' \cup resets' \subseteq 1..made
    BY DEF IInv, SignIns!TypeOK, Once, SignIns!Bounds
<1>4. Given' /\ Once'
    BY <1>1, <1>3, OnceKept DEF IInv
<1>5. Late' /\ SignIns!SignedOutEverywhere'
    BY LateAgain DEF IInv
<1> QED
    BY <1>2, <1>4, <1>5 DEF IInv

LEMMA ChangePasswordKept ==
    ASSUME SignIns!Bounds, IInv, NEW r \in Requests, NEW s \in SignIns!Browsers, SignIns!ChangePassword(r, s)
    PROVE  IInv'
<1>1. SignIns!Begins(r, "change password", 0, s, 0, 0, {}) /\ "change password" \in Plain /\ {} \in SUBSET SignIns!Made
    BY DEF SignIns!ChangePassword, Plain, SignIns!Kinds, Steppers
<1> QED
    BY <1>1, BegunPlain, NoneOfThem

LEMMA PasswordChangedKept == ASSUME SignIns!Bounds, IInv, NEW r \in Requests, SignIns!PasswordChanged(r) PROVE IInv'
<1>1. doing[r].session \in 0..MaxSessions /\ active \in BOOLEAN
    BY DEF IInv, SignIns!TypeOK, SignIns!Request
<1> QED
    BY <1>1, SignedOutKept DEF SignIns!PasswordChanged

LEMMA IssueResetKept == ASSUME SignIns!Bounds, IInv, NEW r \in Requests, SignIns!IssueReset(r) PROVE IInv'
<1>1. SignIns!Begins(r, "issue reset", 0, 0, 0, 0, resets) /\ "issue reset" \in Plain /\ resets \in SUBSET SignIns!Made
    BY DEF SignIns!IssueReset, Plain, SignIns!Kinds, Steppers, IInv, SignIns!TypeOK
<1> QED
    BY <1>1, BegunPlain, NoneOfThem

\* What replaces codes or links has a number of its own.
LEMMA NewNumber ==
    ASSUME SignIns!Bounds, IInv, SignIns!CanMake, made' = SignIns!Number, NEW S
    PROVE  /\ made' \in 0..MaxMade /\ made <= made' /\ SignIns!Number \in 1..made' /\ SignIns!Number \notin 1..made
           /\ \A n \in 1..made : n \in 1..made'
           /\ S \subseteq 1..made => S \subseteq 1..made'
BY DEF IInv, SignIns!TypeOK, SignIns!Bounds, SignIns!CanMake, SignIns!Number

LEMMA ResetIssuedKept == ASSUME SignIns!Bounds, IInv, NEW r \in Requests, SignIns!ResetIssued(r) PROVE IInv'
<1>1. /\ SignIns!CanMake /\ made' = SignIns!Number /\ resets' = SignIns!Fresh(r, resets) \cup {SignIns!Number} /\ SignIns!Done(r)
      /\ UNCHANGED <<active, on, last, usable, keys, sessions, challenges, step, cut, used, again>>
    BY DEF SignIns!ResetIssued
<1>2. usable \subseteq 1..made /\ resets \subseteq 1..made /\ SignIns!Fresh(r, resets) \subseteq resets
    BY DEF IInv, Once, SignIns!Fresh
<1>3. Numbered
    BY <1>1, <1>2, NewNumber DEF Numbered
<1> QED
    BY <1>1, <1>3, DoneType, QuietKept DEF IInv, SignIns!TypeOK

LEMMA ResetKept == ASSUME SignIns!Bounds, IInv, NEW r \in Requests, NEW link \in resets, SignIns!Reset(r, link) PROVE IInv'
<1>1. /\ link \in 0..(MaxSteps + MaxMade + MaxChallenges + 1)
      /\ 0 \in 0..MaxSessions /\ 0 \in 0..MaxKeys /\ 0 \in 0..MaxChallenges /\ {} \in SUBSET SignIns!Made
      /\ "reset" \in SignIns!Kinds /\ "reset" \notin Steppers
    BY DEF SignIns!Bounds, SignIns!Kinds, Steppers, IInv, SignIns!TypeOK, SignIns!Made
<1>2. /\ SignIns!Begins(r, "reset", link, 0, 0, 0, {})
      /\ \A q \in Requests : doing[q].kind = "reset" => doing[q].given # link
    BY DEF SignIns!Reset
<1> QED
    BY <1>1, <1>2, BegunKept

\* The link a request held was its own, and goes with the links there are.
LEMMA ResetDoneKept == ASSUME SignIns!Bounds, IInv, NEW r \in Requests, SignIns!ResetDone(r) PROVE IInv'
<1> DEFINE link == doing[r].given
<1>1. /\ doing[r].kind = "reset" /\ resets' = {} /\ SignIns!Accept({<<"link", link>>}) /\ SignIns!SignOutEverywhere(r, 0)
      /\ UNCHANGED <<active, on, last, usable, keys, challenges, step, made>>
    BY DEF SignIns!ResetDone, SignIns!LinksAfter
<1>2. /\ doing' \in [Requests -> SignIns!Request] /\ \A q \in Requests : GoesOn(q)
      /\ sessions' \in [SignIns!Browsers -> SignIns!Session] /\ cut' \in 0..MaxCuts /\ doing'[r] = SignIns!Idle
    BY <1>1, SignOutType DEF IInv, SignIns!Bounds
<1>3. link \in 1..made /\ <<"link", link>> \notin used
    BY <1>1 DEF IInv, Once, Holding
<1>4. ASSUME NEW q \in Requests, doing'[q].kind = "reset"
      PROVE  doing[q].kind = "reset" /\ doing'[q].given = doing[q].given /\ doing[q].given # link
    <2>1. q # r
        BY <1>2, <1>4 DEF SignIns!Idle
    <2> QED
        BY <1>1, <1>2, <1>4, <2>1, Continues DEF IInv, Once, Holding
<1> HIDE DEF link
<1>5. used' = used \cup {<<"link", link>>} /\ again' = (again \/ {<<"link", link>>} \cap used # {})
    BY <1>1 DEF SignIns!Accept
<1>6. ~again' /\ again' \in BOOLEAN
    BY <1>3, <1>5 DEF IInv, Once
<1>7. Spent'
    <2>1. \A m : <<"link", m>> \in used' => m \in 1..made /\ m \notin resets'
        BY <1>1, <1>3, <1>5 DEF IInv, Once, Spent
    <2>2. \A m : /\ <<"step", m>> \in used' => <<"step", m>> \in used
                 /\ <<"code", m>> \in used' => <<"code", m>> \in used
        BY <1>5
    <2> QED
        BY <1>1, <2>1, <2>2 DEF IInv, Once, Spent
<1>8. Holding'
    <2>1. \A q \in Requests : doing'[q].kind = "reset" =>
              doing'[q].given \in 1..made /\ <<"link", doing'[q].given>> \notin used'
        BY <1>4, <1>5 DEF IInv, Once, Holding
    <2>2. \A p, q \in Requests : doing'[p].kind = "reset" /\ doing'[q].kind = "reset"
                                 /\ doing'[p].given = doing'[q].given => p = q
        BY <1>4 DEF IInv, Once, Holding
    <2> QED
        BY <1>1, <2>1, <2>2 DEF Holding
<1>9. SignIns!TypeOK'
    BY <1>1, <1>2, <1>6 DEF IInv, SignIns!TypeOK
<1>10. Given' /\ Late' /\ SignIns!SignedOutEverywhere'
    <2>1. 0 \in 0..MaxSessions
        BY DEF SignIns!Bounds
    <2> QED
        BY <1>1, <1>2, <2>1, GivenKept, LateAgain DEF IInv
<1>11. (usable \cup resets)' \subseteq 1..made'
    BY <1>1 DEF IInv, Once
<1> QED
    BY <1>6, <1>7, <1>8, <1>9, <1>10, <1>11 DEF IInv, Once

-----------------------------------------------------------------------------
(* Two-step verification                                                   *)

LEMMA StartTotpKept == ASSUME SignIns!Bounds, IInv, NEW s \in SignIns!Browsers, SignIns!StartTotp(s) PROVE IInv'
<1>1. PICK c \in SignIns!Slots :
          challenges' = [d \in SignIns!Slots |->
              CASE d = c -> [purpose |-> "totp_setup", attempts |-> 0]
                [] d \in SignIns!SetupSlots -> SignIns!NoChallenge
                [] OTHER -> challenges[d]]
          /\ challenges[c].purpose = "none"
    BY DEF SignIns!StartTotp, SignIns!Free, SignIns!Lowest, SignIns!FreeSlots
<1>2. UNCHANGED <<active, on, last, usable, resets, keys, sessions, step, made, doing, cut, used, again>>
    BY DEF SignIns!StartTotp, SignIns!account
<1>3. c \notin SignIns!SetupSlots
    BY <1>1 DEF SignIns!SetupSlots
<1>4. [purpose |-> "totp_setup", attempts |-> 0] \in SignIns!Challenge /\ SignIns!NoChallenge \in SignIns!Challenge
      /\ challenges \in [SignIns!Slots -> SignIns!Challenge]
    BY NoneTypes DEF SignIns!Challenge, SignIns!Purposes, SignIns!Bounds, IInv, SignIns!TypeOK
<1>5. challenges' \in [SignIns!Slots -> SignIns!Challenge]
    BY <1>1, <1>3, <1>4
<1> QED
    BY <1>2, <1>5, SameRequests, SameCodes, QuietKept DEF IInv, SignIns!TypeOK

LEMMA ConfirmTotpKept ==
    ASSUME SignIns!Bounds, IInv, NEW r \in Requests, NEW s \in SignIns!Browsers, NEW c \in SignIns!Slots, SignIns!ConfirmTotp(r, s, c)
    PROVE  IInv'
<1>1. PICK given \in {0} \cup (step - 1)..(step + 1) : SignIns!Begins(r, "confirm totp", given, s, c, 0, usable)
    BY DEF SignIns!ConfirmTotp
<1>2. given \in 0..(MaxSteps + 1) /\ given \in 0..(MaxSteps + MaxMade + MaxChallenges + 1)
    BY DEF IInv, SignIns!TypeOK, SignIns!Bounds
<1>3. /\ s \in 0..MaxSessions /\ 0 \in 0..MaxKeys /\ c \in 0..MaxChallenges /\ usable \in SUBSET SignIns!Made
      /\ "confirm totp" \in SignIns!Kinds /\ "confirm totp" # "reset"
    BY DEF SignIns!Bounds, SignIns!Slots, SignIns!Browsers, SignIns!Kinds, IInv, SignIns!TypeOK
<1> QED
    BY <1>1, <1>2, <1>3, BegunKept

\* What is left of what was accepted when two-step verification starts anew.
LEMMA Forgotten ==
    ASSUME SignIns!Bounds, IInv
    PROVE  /\ SignIns!StepsForgotten \subseteq used
           /\ \A m : <<"step", m>> \notin SignIns!StepsForgotten
<1>1. \A m : <<"step", m>> \in used => m \in 0..(MaxSteps + 1)
    BY DEF IInv, Once, Spent
<1> QED
    BY <1>1 DEF SignIns!StepsForgotten

\* Codes made anew, with the steps used before forgotten.
LEMMA RenewedStays ==
    ASSUME SignIns!Bounds, IInv, NEW r \in Requests, SignIns!Done(r), Numbered,
           UNCHANGED <<active, resets, keys, sessions, step, cut, again>>,
           on' \in BOOLEAN, last' \in 0..(MaxSteps + 1), challenges' \in [SignIns!Slots -> SignIns!Challenge],
           used' = SignIns!StepsForgotten \cup (IF last' = 0 THEN {} ELSE {<<"step", last'>>})
    PROVE  IInv'
<1>1. /\ doing' \in [Requests -> SignIns!Request] /\ \A q \in Requests : GoesOn(q)
    BY DoneType DEF IInv
<1>2. /\ made' \in 0..MaxMade /\ usable' \cup resets' \subseteq 1..made'
      /\ usable' \subseteq SignIns!Made /\ made \in Nat /\ made' \in Nat /\ made <= made'
      /\ \A n \in 1..made : n \in usable' => n \in usable
    BY DEF Numbered, SignIns!Made, SignIns!Bounds, IInv, SignIns!TypeOK
<1>3. /\ \A m : <<"step", m>> \in used' => m = last'
      /\ \A m : <<"code", m>> \in used' => <<"code", m>> \in used
      /\ \A m : <<"link", m>> \in used' => <<"link", m>> \in used
    BY Forgotten
<1>4. \A n \in 1..made : n \in 1..made'
    BY <1>2
<1>5. last' <= last'
    BY DEF SignIns!Bounds
<1>6. Spent'
    <2>1. \A m : <<"step", m>> \in used' => m \in 0..(MaxSteps + 1) /\ m <= last'
        BY <1>3, <1>5
    <2>2. \A m : <<"code", m>> \in used' => m \in 1..made' /\ m \notin usable'
        BY <1>2, <1>3, <1>4 DEF IInv, Once, Spent
    <2>3. \A m : <<"link", m>> \in used' => m \in 1..made' /\ m \notin resets'
        BY <1>3, <1>4 DEF IInv, Once, Spent
    <2> QED
        BY <2>1, <2>2, <2>3 DEF Spent
<1>7. Holding'
    <2>1. \A q \in Requests : doing'[q].kind = "reset" => doing[q].kind = "reset" /\ doing'[q].given = doing[q].given
        BY <1>1, Continues
    <2> QED
        BY <1>3, <1>4, <2>1 DEF IInv, Once, Holding
<1>8. SignIns!TypeOK'
    BY <1>1, <1>2 DEF IInv, SignIns!TypeOK
<1>9. Given' /\ Late' /\ SignIns!SignedOutEverywhere'
    BY <1>1, GivenKept, LateKept DEF IInv
<1>10. ~again'
    BY DEF IInv, Once
<1> QED
    BY <1>2, <1>6, <1>7, <1>8, <1>9, <1>10 DEF IInv, Once

LEMMA TotpConfirmedKept == ASSUME SignIns!Bounds, IInv, NEW r \in Requests, SignIns!TotpConfirmed(r) PROVE IInv'
<1> DEFINE c == doing[r].slot
<1>0. SignIns!TypeOK /\ challenges \in [SignIns!Slots -> SignIns!Challenge] /\ SignIns!NoChallenge \in SignIns!Challenge
    BY NoneTypes DEF IInv, SignIns!TypeOK
<1>1. /\ doing[r].kind = "confirm totp" /\ SignIns!Done(r)
      /\ UNCHANGED <<active, resets, keys, sessions, step, cut, again>>
    BY DEF SignIns!TotpConfirmed
<1>2. CASE doing[r].given # 0
    <2>1. /\ SignIns!CanMake /\ made' = SignIns!Number /\ on' = TRUE /\ last' = doing[r].given
          /\ usable' = SignIns!Fresh(r, usable) \cup {SignIns!Number}
          /\ challenges' = challenges \/ challenges' = [challenges EXCEPT ![c] = SignIns!NoChallenge]
          /\ used' = SignIns!StepsForgotten \cup {<<"step", doing[r].given>>}
        BY <1>2 DEF SignIns!TotpConfirmed
    <2>2. usable \subseteq 1..made /\ resets \subseteq 1..made /\ SignIns!Fresh(r, usable) \subseteq usable
        BY DEF IInv, Once, SignIns!Fresh
    <2>3. Numbered
        BY <1>1, <2>1, <2>2, NewNumber DEF Numbered
    <2>4. last' \in 0..(MaxSteps + 1) /\ last' # 0
        BY <1>1, <1>2, <2>1 DEF IInv, Given, Steppers
    <2>5. challenges' \in [SignIns!Slots -> SignIns!Challenge]
        BY <1>0, <2>1
    <2>6. used' = SignIns!StepsForgotten \cup (IF last' = 0 THEN {} ELSE {<<"step", last'>>}) /\ on' \in BOOLEAN
        BY <2>1, <2>4
    <2> QED
        BY <1>1, <2>3, <2>4, <2>5, <2>6, RenewedStays
<1>3. CASE doing[r].given = 0
    <2>1. /\ challenges' = [challenges EXCEPT ![c] = SignIns!Tried(r)]
          /\ UNCHANGED <<made, on, last, usable, used>>
        BY <1>3 DEF SignIns!TotpConfirmed
    <2>2. challenges' \in [SignIns!Slots -> SignIns!Challenge]
        BY <1>0, <2>1, TriedType
    <2> QED
        BY <1>0, <1>1, <2>1, <2>2, DoneType, SameCodes, QuietKept DEF SignIns!TypeOK
<1> QED
    BY <1>2, <1>3

LEMMA TurnOffTotpKept ==
    ASSUME SignIns!Bounds, IInv, NEW r \in Requests, NEW s \in SignIns!Browsers \cup {0}, SignIns!TurnOffTotp(r, s)
    PROVE  IInv'
<1>1. SignIns!Begins(r, "turn off totp", 0, s, 0, 0, usable) /\ "turn off totp" \in Plain /\ usable \in SUBSET SignIns!Made
    BY DEF SignIns!TurnOffTotp, Plain, SignIns!Kinds, Steppers, IInv, SignIns!TypeOK
<1>2. s \in ABrowser
    BY DEF ABrowser
<1> QED
    BY <1>1, <1>2, BegunPlain, NoneOfThem

LEMMA TotpTurnedOffKept == ASSUME SignIns!Bounds, IInv, NEW r \in Requests, SignIns!TotpTurnedOff(r) PROVE IInv'
<1>1. /\ on' = FALSE /\ last' = 0 /\ usable' = SignIns!Fresh(r, usable) /\ used' = SignIns!StepsForgotten /\ SignIns!Done(r)
      /\ UNCHANGED <<active, resets, keys, sessions, challenges, step, made, cut, again>>
    BY DEF SignIns!TotpTurnedOff
<1>2. usable \subseteq 1..made /\ resets \subseteq 1..made /\ SignIns!Fresh(r, usable) \subseteq usable
      /\ made \in 0..MaxMade /\ made <= made
    BY DEF IInv, Once, SignIns!Fresh, SignIns!TypeOK, SignIns!Bounds
<1>3. Numbered
    BY <1>1, <1>2 DEF Numbered
<1>4. used' = SignIns!StepsForgotten \cup (IF last' = 0 THEN {} ELSE {<<"step", last'>>})
    BY <1>1
<1>5. 0 \in 0..(MaxSteps + 1) /\ challenges \in [SignIns!Slots -> SignIns!Challenge]
    BY DEF SignIns!Bounds, IInv, SignIns!TypeOK
<1>6. last' \in 0..(MaxSteps + 1) /\ on' \in BOOLEAN /\ challenges' \in [SignIns!Slots -> SignIns!Challenge]
    BY <1>1, <1>5
<1> QED
    BY <1>1, <1>3, <1>4, <1>6, RenewedStays

LEMMA CreateRecoveryCodesKept ==
    ASSUME SignIns!Bounds, IInv, NEW r \in Requests, NEW s \in SignIns!Browsers, SignIns!CreateRecoveryCodes(r, s)
    PROVE  IInv'
<1>1. SignIns!Begins(r, "recovery codes", 0, s, 0, 0, usable) /\ "recovery codes" \in Plain /\ usable \in SUBSET SignIns!Made
    BY DEF SignIns!CreateRecoveryCodes, Plain, SignIns!Kinds, Steppers, IInv, SignIns!TypeOK
<1> QED
    BY <1>1, BegunPlain, NoneOfThem

LEMMA RecoveryCodesCreatedKept ==
    ASSUME SignIns!Bounds, IInv, NEW r \in Requests, SignIns!RecoveryCodesCreated(r)
    PROVE  IInv'
<1>1. /\ SignIns!CanMake /\ made' = SignIns!Number /\ usable' = SignIns!Fresh(r, usable) \cup {SignIns!Number} /\ SignIns!Done(r)
      /\ UNCHANGED <<active, on, last, resets, keys, sessions, challenges, step, cut, used, again>>
    BY DEF SignIns!RecoveryCodesCreated
<1>2. usable \subseteq 1..made /\ resets \subseteq 1..made /\ SignIns!Fresh(r, usable) \subseteq usable
    BY DEF IInv, Once, SignIns!Fresh
<1>3. Numbered
    BY <1>1, <1>2, NewNumber DEF Numbered
<1> QED
    BY <1>1, <1>3, DoneType, QuietKept DEF IInv, SignIns!TypeOK

-----------------------------------------------------------------------------
(* Ending sessions, turning the account off and on, and time               *)

LEMMA EndingKept == ASSUME SignIns!Bounds, IInv, SignIns!Ending PROVE IInv'
<1>0. /\ SignIns!TypeOK /\ sessions \in [SignIns!Browsers -> SignIns!Session] /\ challenges \in [SignIns!Slots -> SignIns!Challenge]
      /\ SignIns!NoSession \in SignIns!Session /\ SignIns!NoSession.alive = FALSE
    BY NoneTypes DEF IInv, SignIns!TypeOK, SignIns!NoSession
<1>1. ASSUME NEW s \in SignIns!Browsers, SignIns!EndSession(s) PROVE IInv'
    <2>1. /\ sessions' = [sessions EXCEPT ![s] = SignIns!NoSession]
          /\ UNCHANGED <<active, on, last, usable, resets, keys, challenges, step, made, doing, cut, used, again>>
        BY <1>1 DEF SignIns!EndSession, SignIns!account
    <2>2. sessions' \in [SignIns!Browsers -> SignIns!Session] /\ \A b \in SignIns!Browsers : sessions'[b].alive => sessions'[b] = sessions[b]
        BY <1>0, <2>1
    <2> QED
        BY <1>0, <2>1, <2>2, SameRequests, SameCodes, QuietKept DEF SignIns!TypeOK
<1>2. ASSUME NEW s \in SignIns!Browsers, SignIns!EndOtherSessions(s) PROVE IInv'
    <2>1. s \in 0..MaxSessions /\ active' \in BOOLEAN /\ resets' \subseteq resets
        BY <1>0, <1>2 DEF SignIns!Browsers, SignIns!Bounds, SignIns!EndOtherSessions, SignIns!account, SignIns!TypeOK
    <2> QED
        BY <1>2, <2>1, SignedOutKept DEF SignIns!EndOtherSessions, SignIns!account
<1>3. CASE SignIns!TurnOff
    <2>1. 0 \in 0..MaxSessions
        BY DEF SignIns!Bounds
    <2> QED
        BY <1>3, <2>1, SignedOutKept DEF SignIns!TurnOff
<1>4. CASE SignIns!TurnOn
    BY <1>0, <1>4, SameRequests, SameCodes, QuietKept DEF SignIns!TurnOn, SignIns!TypeOK
<1>5. CASE SignIns!Expire
    <2>1. /\ UNCHANGED <<active, on, last, usable, keys, sessions, step, made, doing, cut, used, again>>
          /\ resets' \subseteq resets
          /\ challenges' = challenges \/ \E c : SignIns!Drop(c)
        BY <1>5 DEF SignIns!Expire
    <2>2. challenges' \in [SignIns!Slots -> SignIns!Challenge]
        BY <1>0, <2>1, ChallengeTypes
    <2>3. Numbered
        BY <2>1, SameCodes DEF Numbered, IInv, Once, SignIns!TypeOK, SignIns!Bounds
    <2> QED
        BY <1>0, <2>1, <2>2, <2>3, SameRequests, QuietKept DEF SignIns!TypeOK
<1>6. CASE SignIns!Tick
    <2>1. step' \in 1..MaxSteps
        BY <1>0, <1>6 DEF SignIns!Tick, SignIns!TypeOK, SignIns!Bounds
    <2> QED
        BY <1>0, <1>6, <2>1, SameRequests, SameCodes, QuietKept DEF SignIns!Tick, SignIns!TypeOK, SignIns!account
<1>7. ASSUME NEW s \in SignIns!Browsers, SignIns!StartTotp(s) PROVE IInv'
    BY <1>7, StartTotpKept
<1> QED
    BY <1>1, <1>2, <1>3, <1>4, <1>5, <1>6, <1>7 DEF SignIns!Ending

LEMMA RollBackKept == ASSUME SignIns!Bounds, IInv, NEW r \in Requests, SignIns!RollBack(r) PROVE IInv'
<1>1. SignIns!Done(r) /\ UNCHANGED <<active, on, last, usable, resets, keys, sessions, challenges, step, made, cut, used, again>>
    BY DEF SignIns!RollBack, SignIns!account
<1> QED
    BY <1>1, DoneType, SameCodes, QuietKept DEF IInv, SignIns!TypeOK

-----------------------------------------------------------------------------
(* The theorems                                                            *)

LEMMA IInvInit == SignIns!Bounds /\ SignIns!Init => IInv
<1> SUFFICES ASSUME SignIns!Bounds, SignIns!Init PROVE IInv
    OBVIOUS
<1>1. \A r \in Requests : doing[r].kind = "idle"
    BY DEF SignIns!Init, SignIns!Idle
<1>2. /\ usable \subseteq 1..made /\ resets = {} /\ used = {} /\ ~again
    BY DEF SignIns!Init
<1>3. Given /\ Late /\ Once
    BY <1>1, <1>2 DEF Given, Late, Once, Spent, Holding, Steppers
<1>4. SignIns!SignedOutEverywhere
    BY DEF SignIns!Init, SignIns!SignedOutEverywhere, SignIns!NoSession
<1>5. made \in 0..MaxMade /\ usable \subseteq SignIns!Made
    BY DEF SignIns!Init, SignIns!Bounds, SignIns!Made
<1>6. step \in 1..MaxSteps /\ last \in 0..(MaxSteps + 1) /\ cut \in 0..MaxCuts
    BY DEF SignIns!Init, SignIns!Bounds
<1>8. keys \subseteq SignIns!Keys /\ on \in BOOLEAN /\ active \in BOOLEAN /\ again \in BOOLEAN
    BY DEF SignIns!Init
<1>7. sessions \in [SignIns!Browsers -> SignIns!Session] /\ challenges \in [SignIns!Slots -> SignIns!Challenge] /\ doing \in [Requests -> SignIns!Request]
    BY IdleType, NoneTypes DEF SignIns!Init
<1> QED
    BY <1>2, <1>3, <1>4, <1>5, <1>6, <1>7, <1>8 DEF IInv, SignIns!TypeOK

LEMMA IInvNext == SignIns!Bounds /\ IInv /\ [SignIns!Next]_SignIns!vars => IInv'
<1> SUFFICES ASSUME SignIns!Bounds, IInv, [SignIns!Next]_SignIns!vars PROVE IInv'
    OBVIOUS
<1>1. CASE SignIns!SigningIn
    BY <1>1, SignInKept, SignInCheckedKept, SecondStepKept, TotpCheckedKept, RecoveryCodeCheckedKept,
       AnswerKept, AnsweredKept DEF SignIns!SigningIn
<1>2. CASE SignIns!ManagingPasskeys
    BY <1>2, PasskeyOptionsKept, AddPasskeyOptionsKept, AddPasskeyKept, PasskeyAddedKept, RemovePasskeyKept
       DEF SignIns!ManagingPasskeys
<1>3. CASE SignIns!ManagingAccess
    BY <1>3, VerifyKept, ChangePasswordKept, CreateRecoveryCodesKept, VerifyCheckedKept, PasswordChangedKept,
       RecoveryCodesCreatedKept, IssueResetKept, ResetIssuedKept, ResetKept, ResetDoneKept, ConfirmTotpKept,
       TotpConfirmedKept, TurnOffTotpKept, TotpTurnedOffKept, RollBackKept DEF SignIns!ManagingAccess
<1>4. CASE SignIns!Ending
    BY <1>4, EndingKept
<1>5. CASE UNCHANGED SignIns!vars
    BY <1>5, SameRequests, SameCodes, QuietKept DEF SignIns!vars, IInv, SignIns!TypeOK
<1> QED
    BY <1>1, <1>2, <1>3, <1>4, <1>5 DEF SignIns!Next

\* Whatever any number of requests read, hash and commit, in any order, no
\* authenticator code, recovery code or reset link is ever accepted twice, as
\* long as two-step verification isn't turned off or on in between.
THEOREM NothingUsedTwice == SignIns!Bounds => (SignIns!Spec => []UsedOnce)
<1>1. ASSUME SignIns!Bounds PROVE SignIns!Spec => []UsedOnce
    <2>1. SignIns!Init => IInv
        BY <1>1, IInvInit
    <2>2. IInv /\ [SignIns!Next]_SignIns!vars => IInv'
        BY <1>1, IInvNext
    <2>3. IInv => UsedOnce
        BY DEF IInv, Once, UsedOnce, SignIns!UsedOnce
    <2> QED
        BY <2>1, <2>2, <2>3, PTL DEF SignIns!Spec
<1> QED
    BY <1>1

\* After everyone was to be signed out, the sessions that go on are the one
\* that was kept and those of requests that were under way, however many sign
\* in while it happens and however often it happens.
THEOREM CutsSignOut == SignIns!Bounds => (SignIns!Spec => []SignedOutEverywhere)
<1>1. ASSUME SignIns!Bounds PROVE SignIns!Spec => []SignedOutEverywhere
    <2>1. SignIns!Init => IInv
        BY <1>1, IInvInit
    <2>2. IInv /\ [SignIns!Next]_SignIns!vars => IInv'
        BY <1>1, IInvNext
    <2>3. IInv => SignedOutEverywhere
        BY DEF IInv, SignedOutEverywhere
    <2> QED
        BY <2>1, <2>2, <2>3, PTL DEF SignIns!Spec
<1> QED
    BY <1>1

\* No challenge that still works has had its last wrong code counted, and every
\* other value stays within its type.
THEOREM SignInTypes == SignIns!Bounds => (SignIns!Spec => []SignIns!TypeOK)
<1>1. ASSUME SignIns!Bounds PROVE SignIns!Spec => []SignIns!TypeOK
    <2>1. SignIns!Init => IInv
        BY <1>1, IInvInit
    <2>2. IInv /\ [SignIns!Next]_SignIns!vars => IInv'
        BY <1>1, IInvNext
    <2>3. IInv => SignIns!TypeOK
        BY DEF IInv
    <2> QED
        BY <2>1, <2>2, <2>3, PTL DEF SignIns!Spec
<1> QED
    BY <1>1

-----------------------------------------------------------------------------
(* How long sessions last                                                  *)

\* What sessions.py's lengths are like: whoever asked to be remembered may stay
\* away at least as long as whoever did not.
Lengths ==
    /\ IdleTime \in [BOOLEAN -> Nat] /\ Absolute \in [BOOLEAN -> Nat] /\ IdleTime[FALSE] <= IdleTime[TRUE]
    /\ TouchInterval \in Nat \ {0} /\ MaxTime \in Nat

\* When it was last seen lags behind the last request by less than TOUCH_INTERVAL;
\* a session nobody signed out is only gone once it has expired.
Lasting == \A s \in Sessions :
    /\ row[s].seen <= asked[s] /\ asked[s] <= now
    /\ row[s].there \/ s \in stays => asked[s] < row[s].seen + TouchInterval
    /\ s \in stays => row[s].there \/ Life!Expired(s)

LifeInv == Life!TypeOK /\ Lasting

LEMMA LifeInit == Lengths /\ Life!Init => LifeInv
<1> SUFFICES ASSUME Lengths, Life!Init PROVE LifeInv
    OBVIOUS
<1>1. 0 \in Life!Times
    BY DEF Life!Times, Lengths
<1>2. Life!TypeOK
    BY <1>1 DEF Life!Init, Life!TypeOK, Life!Row
<1>3. Lasting
    BY DEF Life!Init, Lasting
<1> QED
    BY <1>2, <1>3 DEF LifeInv

LEMMA TouchedLags ==
    ASSUME Lengths, LifeInv, NEW s \in Sessions
    PROVE  /\ Life!Touched(s) \in Life!Times /\ Life!Touched(s) <= now
           /\ now < Life!Touched(s) + TouchInterval
<1>1. row[s].seen \in Nat /\ now \in Nat /\ row[s].seen <= now /\ now \in Life!Times /\ row[s].seen \in Life!Times
    BY DEF LifeInv, Lasting, Life!TypeOK, Life!Row, Life!Times, Lengths
<1>2. TouchInterval \in Nat \ {0}
    BY DEF Lengths
<1> QED
    BY <1>1, <1>2 DEF Life!Touched

LEMMA LifeNext == Lengths /\ LifeInv /\ [Life!Next]_Life!vars => LifeInv'
<1> SUFFICES ASSUME Lengths, LifeInv, [Life!Next]_Life!vars PROVE LifeInv'
    OBVIOUS
<1>0. /\ row \in [Sessions -> Life!Row] /\ now \in Life!Times /\ now \in Nat
      /\ asked \in [Sessions -> Life!Times] /\ began \in [Sessions -> Life!Times] /\ stays \subseteq Sessions
      /\ TouchInterval \in Nat \ {0}
    BY DEF LifeInv, Life!TypeOK, Life!Times, Lengths
<1>t. \A q \in Sessions : /\ row[q].seen \in Life!Times /\ row[q].seen \in Nat /\ asked[q] \in Nat
                          /\ row[q].there \in BOOLEAN /\ row[q].remember \in BOOLEAN /\ row[q] \in Life!Row
    BY <1>0 DEF Life!Row, Life!Times, Lengths
<1>l. \A q \in Sessions : /\ row[q].seen <= asked[q] /\ asked[q] <= now
                          /\ row[q].there \/ q \in stays => asked[q] < row[q].seen + TouchInterval
                          /\ q \in stays => row[q].there \/ Life!Expired(q)
    BY DEF LifeInv, Lasting
\* Time passing makes nothing less expired.
<1>1. CASE Life!Tick
    <2>1. now' = now + 1 /\ now' \in Life!Times /\ UNCHANGED <<row, asked, began, stays>>
        BY <1>0, <1>1 DEF Life!Tick, Life!Times, Lengths
    <2>2. ASSUME NEW q \in Sessions, Life!Expired(q) PROVE Life!Expired(q)'
        <3>1. Life!Ends(q)' = Life!Ends(q)
            BY <2>1 DEF Life!Ends
        <3>2. Life!Ends(q) \in Nat
            <4>1. began[q] \in Nat
                BY <1>0 DEF Life!Times, Lengths
            <4>2. Absolute[row[q].remember] \in Nat
                BY <1>t DEF Lengths
            <4> QED
                BY <4>1, <4>2 DEF Life!Ends
        <3>3. \A n \in Nat : n <= now => n <= now'
            BY <1>0, <2>1
        <3>4. row[q].seen + IdleTime[TRUE] \in Nat /\ row[q].seen + IdleTime[FALSE] \in Nat /\ row' = row
            <4>1. row[q].seen \in Nat /\ row' = row
                BY <1>t, <2>1
            <4>2. IdleTime[TRUE] \in Nat /\ IdleTime[FALSE] \in Nat
                BY DEF Lengths
            <4>3. \A m, n \in Nat : m + n \in Nat
                OBVIOUS
            <4> QED
                BY <4>1, <4>2, <4>3, Zenon
        <3>5. \/ Life!Ends(q) <= now
              \/ row[q].seen + IdleTime[TRUE] <= now
              \/ ~row[q].remember /\ row[q].seen + IdleTime[FALSE] <= now
            BY <2>2 DEF Life!Expired
        <3> QED
            BY <3>1, <3>2, <3>3, <3>4, <3>5 DEF Life!Expired
    <2>3. Lasting'
        BY <1>0, <1>t, <1>l, <2>1, <2>2 DEF Lasting
    <2> QED
        BY <1>0, <2>1, <2>3 DEF LifeInv, Life!TypeOK
\* A row is there, and seen just now, or as it was, or gone as nobody needs it.
<1>2. ASSUME NEW s \in Sessions, NEW remember \in BOOLEAN, Life!Start(s, remember) PROVE LifeInv'
    <2> DEFINE new == [there |-> TRUE, remember |-> remember, seen |-> now]
    <2>1. /\ row' = [q \in Sessions |-> IF q = s THEN new ELSE IF Life!Expired(q) THEN Life!Gone(q) ELSE row[q]]
          /\ asked' = [asked EXCEPT ![s] = now] /\ began' = [began EXCEPT ![s] = now]
          /\ stays' = stays \cup {s} /\ now' = now
        BY <1>2 DEF Life!Start
    <2>2. new \in Life!Row /\ new.there = TRUE /\ new.seen = now
        BY <1>0 DEF Life!Row
    <2>3. \A q \in Sessions : /\ Life!Gone(q) \in Life!Row /\ Life!Gone(q).seen = row[q].seen
                              /\ Life!Gone(q).remember = row[q].remember
        BY <1>t DEF Life!Gone, Life!Row
    <2> HIDE DEF new
    <2>4. row' \in [Sessions -> Life!Row]
        BY <1>t, <2>1, <2>2, <2>3
    <2>5. asked' \in [Sessions -> Life!Times] /\ began' \in [Sessions -> Life!Times] /\ stays' \subseteq Sessions
        BY <1>0, <2>1
    <2>6. ASSUME NEW q \in Sessions
          PROVE  /\ row'[q].seen <= asked'[q] /\ asked'[q] <= now'
                 /\ row'[q].there \/ q \in stays' => asked'[q] < row'[q].seen + TouchInterval
                 /\ q \in stays' => row'[q].there \/ Life!Expired(q)'
        <3>1. CASE q = s
            BY <1>0, <2>1, <2>2, <3>1
        <3>2. CASE q # s
            <4>1. /\ asked'[q] = asked[q] /\ began'[q] = began[q] /\ (q \in stays' <=> q \in stays)
                  /\ row'[q] = IF Life!Expired(q) THEN Life!Gone(q) ELSE row[q]
                BY <1>0, <2>1, <3>2
            <4>2. row'[q].seen = row[q].seen /\ row'[q].remember = row[q].remember
                BY <2>3, <4>1
            <4>3. Life!Expired(q) => Life!Expired(q)'
                BY <2>1, <4>1, <4>2 DEF Life!Expired, Life!Ends
            <4>4. row'[q].there => row[q].there
                BY <1>t, <4>1 DEF Life!Gone, Life!Row
            <4> QED
                BY <1>l, <2>1, <4>1, <4>2, <4>3, <4>4
        <3> QED
            BY <3>1, <3>2
    <2>7. Lasting'
        BY <2>6 DEF Lasting
    <2> QED
        BY <1>0, <2>1, <2>4, <2>5, <2>7 DEF LifeInv, Life!TypeOK
<1>3. ASSUME NEW s \in Sessions, NEW ended \in SUBSET Sessions, Life!Live(s), now' = now, began' = began,
             asked' = [asked EXCEPT ![s] = now], stays' = stays \ ended,
             row' \in [Sessions -> Life!Row],
             \A q \in Sessions :
                 /\ row'[q].there <=> (row[q].there /\ q \notin ended)
                 /\ row'[q].remember = row[q].remember
                 /\ row'[q].seen = IF q = s /\ q \notin ended THEN Life!Touched(s) ELSE row[q].seen
      PROVE  LifeInv'
    <2>1. asked' \in [Sessions -> Life!Times] /\ stays' \subseteq Sessions
        BY <1>0, <1>3
    <2>2. ASSUME NEW q \in Sessions
          PROVE  /\ row'[q].seen <= asked'[q] /\ asked'[q] <= now'
                 /\ row'[q].there \/ q \in stays' => asked'[q] < row'[q].seen + TouchInterval
                 /\ q \in stays' => row'[q].there \/ Life!Expired(q)'
        <3>1. CASE q = s /\ q \notin ended
            <4>1. row'[q].there /\ asked'[q] = now /\ row'[q].seen = Life!Touched(s)
                BY <1>0, <1>3, <3>1 DEF Life!Live
            <4> QED
                BY <1>0, <1>3, <4>1, TouchedLags
        <3>2. CASE q \in ended
            <4>1. row'[q].seen = row[q].seen /\ asked'[q] \in {asked[q], now} /\ q \notin stays' /\ ~row'[q].there
                BY <1>0, <1>3, <3>2
            <4>2. row[q].seen <= now /\ asked[q] <= now
                BY <1>0, <1>t, <1>l
            <4> QED
                BY <1>0, <1>3, <1>l, <4>1, <4>2
        <3>3. CASE q # s /\ q \notin ended
            <4>1. /\ row'[q].seen = row[q].seen /\ asked'[q] = asked[q] /\ (q \in stays' <=> q \in stays)
                  /\ (row'[q].there <=> row[q].there) /\ row'[q].remember = row[q].remember
                BY <1>0, <1>3, <3>3
            <4>2. Life!Expired(q) => Life!Expired(q)'
                BY <1>3, <4>1 DEF Life!Expired, Life!Ends
            <4> QED
                BY <1>3, <1>l, <4>1, <4>2
        <3> QED
            BY <3>1, <3>2, <3>3
    <2>3. Lasting'
        BY <2>2 DEF Lasting
    <2> QED
        BY <1>0, <1>3, <2>1, <2>3 DEF LifeInv, Life!TypeOK
<1>r. \A s \in Sessions : /\ [row[s] EXCEPT !.seen = Life!Touched(s)] \in Life!Row
                          /\ [row[s] EXCEPT !.seen = Life!Touched(s)].seen = Life!Touched(s)
                          /\ [row[s] EXCEPT !.seen = Life!Touched(s)].there = row[s].there
                          /\ [row[s] EXCEPT !.seen = Life!Touched(s)].remember = row[s].remember
                          /\ Life!Gone(s) \in Life!Row /\ Life!Gone(s).there = FALSE
                          /\ Life!Gone(s).seen = row[s].seen /\ Life!Gone(s).remember = row[s].remember
    BY <1>t, TouchedLags DEF Life!Row, Life!Gone
<1>4. ASSUME NEW s \in Sessions, Life!CurrentAuth(s) PROVE LifeInv'
    <2> DEFINE b == [row[s] EXCEPT !.seen = Life!Touched(s)]
    <2>1. row' = [row EXCEPT ![s] = b]
        BY <1>4 DEF Life!CurrentAuth
    <2>2. b \in Life!Row /\ b.there = row[s].there /\ b.remember = row[s].remember /\ b.seen = Life!Touched(s)
        BY <1>r
    <2> HIDE DEF b
    <2>3. /\ row' \in [Sessions -> Life!Row]
          /\ \A q \in Sessions : row'[q] = IF q = s THEN b ELSE row[q]
        BY <1>0, <2>1, <2>2
    <2>4. stays' = stays \ {} /\ {} \in SUBSET Sessions
        BY <1>4 DEF Life!CurrentAuth
    <2>5. \A q \in Sessions :
                 /\ row'[q].there <=> (row[q].there /\ q \notin {})
                 /\ row'[q].remember = row[q].remember
                 /\ row'[q].seen = IF q = s /\ q \notin {} THEN Life!Touched(s) ELSE row[q].seen
        BY <2>2, <2>3
    <2> QED
        BY <1>3, <1>4, <2>3, <2>4, <2>5 DEF Life!CurrentAuth
<1>6. ASSUME NEW s \in Sessions, NEW ended \in SUBSET Sessions, Life!EndAll(s, ended) PROVE LifeInv'
    <2> DEFINE b == [row[s] EXCEPT !.seen = Life!Touched(s)]
    <2>1. row' = [q \in Sessions |-> IF q \in ended THEN Life!Gone(q) ELSE IF q = s THEN b ELSE row[q]]
        BY <1>6 DEF Life!EndAll
    <2>2. b \in Life!Row /\ b.there = row[s].there /\ b.remember = row[s].remember /\ b.seen = Life!Touched(s)
        BY <1>r
    <2> HIDE DEF b
    <2>3. row' \in [Sessions -> Life!Row]
        BY <1>r, <1>t, <2>1, <2>2
    <2>4. \A q \in Sessions :
                 /\ row'[q].there <=> (row[q].there /\ q \notin ended)
                 /\ row'[q].remember = row[q].remember
                 /\ row'[q].seen = IF q = s /\ q \notin ended THEN Life!Touched(s) ELSE row[q].seen
        BY <1>r, <1>t, <2>1, <2>2
    <2> QED
        BY <1>3, <1>6, <2>3, <2>4 DEF Life!EndAll
<1>5. CASE UNCHANGED Life!vars
    BY <1>5 DEF Life!vars, LifeInv, Lasting, Life!TypeOK, Life!Expired, Life!Ends
<1> QED
    BY <1>1, <1>2, <1>4, <1>5, <1>6 DEF Life!Next

LEMMA LifeKept == Lengths /\ LifeInv => Life!StaysSignedIn
<1> SUFFICES ASSUME Lengths, LifeInv, NEW s \in Sessions
             PROVE  LET idle == IdleTime[row[s].remember] IN
                    /\ s \in stays /\ now <= asked[s] + idle - TouchInterval /\ now < Life!Ends(s) => Life!Live(s)
                    /\ Life!Live(s) => now < asked[s] + idle
    BY DEF Life!StaysSignedIn
<1> DEFINE idle == IdleTime[row[s].remember]
<1>1. /\ now \in Nat /\ row[s].seen \in Nat /\ asked[s] \in Nat /\ row[s].remember \in BOOLEAN
      /\ Life!Ends(s) \in Nat
    BY DEF LifeInv, Life!TypeOK, Life!Row, Life!Times, Lengths, Life!Ends
<1>2. /\ IdleTime[FALSE] \in Nat /\ IdleTime[TRUE] \in Nat /\ IdleTime[FALSE] <= IdleTime[TRUE]
      /\ TouchInterval \in Nat /\ idle \in Nat /\ idle <= IdleTime[TRUE]
      /\ ~row[s].remember => idle = IdleTime[FALSE]
    <2>1. /\ IdleTime[FALSE] \in Nat /\ IdleTime[TRUE] \in Nat /\ IdleTime[FALSE] <= IdleTime[TRUE]
          /\ TouchInterval \in Nat
        BY DEF Lengths
    <2>2. CASE row[s].remember = TRUE
        <3>1. idle = IdleTime[TRUE]
            BY <2>2
        <3> HIDE DEF idle
        <3>2. \A n \in Nat : n <= n
            OBVIOUS
        <3>3. idle <= IdleTime[TRUE]
            BY <2>1, <3>1, <3>2, Zenon
        <3> QED
            BY <2>1, <2>2, <3>1, <3>3, Zenon
    <2>3. CASE row[s].remember = FALSE
        BY <2>1, <2>3
    <2> QED
        BY <1>1, <2>2, <2>3
<1>3. /\ row[s].seen <= asked[s]
      /\ row[s].there \/ s \in stays => asked[s] < row[s].seen + TouchInterval
      /\ s \in stays => row[s].there \/ Life!Expired(s)
    BY DEF LifeInv, Lasting
<1> HIDE DEF idle
<1>4. ASSUME s \in stays, now <= asked[s] + idle - TouchInterval, now < Life!Ends(s)
      PROVE  now < row[s].seen + idle /\ row[s].there
    <2>1. now < row[s].seen + idle
        BY <1>1, <1>2, <1>3, <1>4
    <2>2. ~Life!Expired(s)
        <3>1. ~(Life!Ends(s) <= now)
            BY <1>1, <1>4
        <3>4. \A m, n \in Nat : n <= m /\ now < row[s].seen + n => ~(row[s].seen + m <= now)
            BY <1>1
        <3>2. ~(row[s].seen + IdleTime[TRUE] <= now)
            BY <1>2, <2>1, <3>4, Zenon
        <3>3. ~row[s].remember => ~(row[s].seen + IdleTime[FALSE] <= now)
            <4>1. \A n \in Nat : n <= n
                OBVIOUS
            <4> QED
                BY <1>2, <2>1, <3>4, <4>1, Zenon
        <3> QED
            BY <3>1, <3>2, <3>3 DEF Life!Expired
    <2> QED
        BY <1>3, <1>4, <2>1, <2>2
<1>5. Life!Live(s) => now < asked[s] + idle
    <2>1. Life!Live(s) => now < row[s].seen + idle
        BY DEF Life!Live, idle
    <2> QED
        BY <1>1, <1>2, <1>3, <2>1
<1> QED
    BY <1>4, <1>5 DEF Life!Live, idle

\* Whoever comes back before the idle time is up, less what a touch may lag, is
\* still signed in, whoever signs in meanwhile, and whoever stays away isn't.
THEOREM ComingBackInTime == Lengths => (Life!Spec => []StaysSignedIn)
<1>1. ASSUME Lengths PROVE Life!Spec => []StaysSignedIn
    <2>1. Life!Init => LifeInv
        BY <1>1, LifeInit
    <2>2. LifeInv /\ [Life!Next]_Life!vars => LifeInv'
        BY <1>1, LifeNext
    <2>3. LifeInv => StaysSignedIn
        BY <1>1, LifeKept DEF StaysSignedIn
    <2> QED
        BY <2>1, <2>2, <2>3, PTL DEF Life!Spec
<1> QED
    BY <1>1

-----------------------------------------------------------------------------
(* Household                                                               *)

USE NoneAssumption, BoundsAssumption

-----------------------------------------------------------------------------
(* Types                                                                   *)

LEMMA IdleIsRequest == Idle \in Request
BY DEF Idle, Request

LEMMA IdleAt == Idle.at = "idle"
BY DEF Idle

LEMMA RequestAhead ==
  ASSUME NEW x \in Request, NEW r
  PROVE  LET y == [x EXCEPT !.ahead = @ \ {r}]
         IN  /\ y \in Request
             /\ y.at = x.at /\ y.target = x.target /\ y.body = x.body
             /\ y.number = x.number /\ y.rows = x.rows /\ y.by = x.by
BY DEF Request

LEMMA InitTypes == Init => TypeOK
BY IdleIsRequest DEF Init, TypeOK, NoInvitation, Invitation, Roles, Idle

LEMMA SetupTypes == ASSUME TypeOK, Setup PROVE TypeOK'
<1>1. CASE IssueCode
  BY <1>1 DEF IssueCode, TypeOK
<1>2. ASSUME NEW r \in Requests, NEW number \in 1..codes, StartSetup(r, number) PROVE TypeOK'
  <2>1. [Idle EXCEPT !.at = "setup", !.number = number] \in Request
    <3>1. number \in 0..(MaxLinks + MaxCodes) BY DEF TypeOK
    <3> QED BY <3>1, IdleIsRequest DEF Request
  <2>2. [Idle EXCEPT !.at = "setup", !.number = number].at = "setup"
    BY IdleIsRequest DEF Request
  <2>3. req' = [req EXCEPT ![r] = [Idle EXCEPT !.at = "setup", !.number = number]]
    BY <1>2 DEF StartSetup, Put
  <2>4. UNCHANGED <<members, admins, off, code, invite, links, codes, founders, joined, void>>
    BY <1>2 DEF StartSetup
  <2> QED BY <2>1, <2>2, <2>3, <2>4 DEF TypeOK
<1>3. ASSUME NEW r \in Requests, NEW p \in People, CompleteSetup(r, p) PROVE TypeOK'
  <2>1. req' = [req EXCEPT ![r] = Idle] /\ Idle.at = "idle" BY <1>3 DEF CompleteSetup, Put, Idle
  <2>2. /\ members' \subseteq People /\ admins' \subseteq members' /\ off' \subseteq members'
        /\ code' \in 0..MaxCodes /\ founders' \in Nat
    <3>1. CASE req[r].number = code
      <4>1. members' = members \cup {p} /\ admins' = admins \cup {p} /\ off' = off
            /\ code' = 0 /\ founders' = founders + 1
        BY <1>3, <3>1 DEF CompleteSetup, CodeAfter
      <4>2. 0 \in 0..MaxCodes /\ founders + 1 \in Nat BY DEF TypeOK
      <4> QED BY <4>1, <4>2 DEF TypeOK
    <3>2. CASE req[r].number # code
      BY <1>3, <3>2 DEF CompleteSetup, TypeOK
    <3> QED BY <3>1, <3>2
  <2>3. UNCHANGED <<invite, links, codes, joined, void>> BY <1>3 DEF CompleteSetup
  <2> QED BY <2>1, <2>2, <2>3, IdleIsRequest DEF TypeOK
<1> QED BY <1>1, <1>2, <1>3 DEF Setup

LEMMA InvitingTypes == ASSUME TypeOK, Inviting PROVE TypeOK'
<1>1. ASSUME NEW p \in People, NEW role \in Roles, InviteMember(p, role) PROVE TypeOK'
  <2>1. [link |-> links + 1, role |-> role, expired |-> FALSE] \in Invitation
    BY <1>1 DEF Invitation, InviteMember, TypeOK
  <2>2. links' \in 0..MaxLinks BY <1>1 DEF InviteMember, TypeOK
  <2> QED BY <1>1, <2>1, <2>2 DEF InviteMember, TypeOK
<1>2. ASSUME NEW p \in People, RenewInvitation(p) PROVE TypeOK'
  <2>1. Renewed(p) \in Invitation BY <1>2 DEF Renewed, RenewInvitation, TypeOK, Invitation
  <2>2. links' \in 0..MaxLinks BY <1>2 DEF RenewInvitation, TypeOK
  <2>3. invite[p].link \in Links BY <1>2 DEF RenewInvitation, Invited, Links, TypeOK, Invitation
  <2> QED BY <1>2, <2>1, <2>2, <2>3 DEF RenewInvitation, TypeOK
<1>3. ASSUME NEW p \in People, RevokeInvitation(p) PROVE TypeOK'
  <2>1. NoInvitation \in Invitation BY DEF NoInvitation, Invitation, Roles
  <2>2. invite[p].link \in Links BY <1>3 DEF RevokeInvitation, Invited, Links, TypeOK, Invitation
  <2> QED BY <1>3, <2>1, <2>2 DEF RevokeInvitation, TypeOK
<1>4. ASSUME NEW p \in People, Expire(p) PROVE TypeOK'
  <2>1. [link |-> invite[p].link, role |-> invite[p].role, expired |-> TRUE] \in Invitation
    BY DEF TypeOK, Invitation
  <2> QED BY <1>4, <2>1 DEF Expire, TypeOK
<1> QED BY <1>1, <1>2, <1>3, <1>4 DEF Inviting

LEMMA AcceptingTypes == ASSUME TypeOK, Accepting PROVE TypeOK'
<1>1. ASSUME NEW r \in Requests, NEW p \in People, ClaimInvitation(r, p, invite[p].link) PROVE TypeOK'
  <2>1. invite[p].link \in Links BY <1>1 DEF ClaimInvitation, TypeOK, Invitation, Links
  <2>2. [Idle EXCEPT !.at = "claimed", !.target = p, !.number = invite[p].link] \in Request
    <3>1. invite[p].link \in 0..(MaxLinks + MaxCodes) BY <2>1 DEF Links
    <3> QED BY <3>1, IdleIsRequest DEF Request
  <2>3. /\ [Idle EXCEPT !.at = "claimed", !.target = p, !.number = invite[p].link].target = p
        /\ [Idle EXCEPT !.at = "claimed", !.target = p, !.number = invite[p].link].number = invite[p].link
    BY IdleIsRequest DEF Request
  <2>4. req' = [req EXCEPT ![r] = [Idle EXCEPT !.at = "claimed", !.target = p, !.number = invite[p].link]]
    BY <1>1 DEF ClaimInvitation, Put
  <2>5. UNCHANGED <<members, admins, off, code, invite, links, codes, founders, joined, void>>
    BY <1>1 DEF ClaimInvitation
  <2> QED BY <2>1, <2>2, <2>3, <2>4, <2>5 DEF TypeOK
<1>2. ASSUME NEW r \in Requests, Join(r) PROVE TypeOK'
  <2>1. NoInvitation \in Invitation BY DEF NoInvitation, Invitation, Roles
  <2>2. req[r].target \in People /\ req[r].number \in Links BY <1>2 DEF Join, TypeOK
  <2> QED BY <1>2, <2>1, <2>2, IdleIsRequest DEF Join, InvitationAfter, Put, TypeOK, Idle
<1> QED BY <1>1, <1>2 DEF Accepting

\* What a body changes stays within the tables.
LEMMA WithTypes ==
  ASSUME TypeOK, NEW t \in members, NEW body
  PROVE  /\ MembersWith(t, body) \subseteq People
         /\ AdminsWith(t, body) \subseteq MembersWith(t, body)
         /\ OffWith(t, body) \subseteq MembersWith(t, body)
BY DEF TypeOK, MembersWith, AdminsWith, OffWith

\* The row a flushed change is about is there until the commit, and it is no
\* other request's.
Targets == \A r \in Requests : req[r].at = "flushed" =>
    /\ req[r].target \in members
    /\ \A q \in Requests \ {r} : req[q].at = "flushed" => req[q].target # req[r].target

LEMMA ChangingTypes == ASSUME TypeOK, Targets, Changing PROVE TypeOK'
<1>1. ASSUME NEW r \in Requests, NEW a \in People, AskForLock(r, a) PROVE TypeOK'
  <2> DEFINE new == [Idle EXCEPT !.at = "asked", !.by = a,
                           !.rows = IF LocksFresh THEN {} ELSE ActiveAdmins,
                           !.ahead = IF LocksFresh THEN {} ELSE {q \in Requests : /\ req[q].at = "asked"
                                                                  /\ req[q].rows \cap ActiveAdmins # {}}]
  <2>1. ActiveAdmins \subseteq People BY DEF TypeOK, ActiveAdmins
  <2>3. new \in Request /\ new.at = "asked" BY <2>1, IdleIsRequest DEF Request
  <2>2. req' = [req EXCEPT ![r] = new] BY <1>1 DEF AskForLock, Put
  <2> HIDE DEF new
  <2>4. UNCHANGED <<members, admins, off, code, invite, links, codes, founders, joined, void>>
    BY <1>1 DEF AskForLock
  <2> QED BY <2>2, <2>3, <2>4 DEF TypeOK
<1>2. ASSUME NEW r \in Requests, LockAdmins(r) PROVE TypeOK'
  <2>1. Wanted(r) \subseteq People BY DEF Wanted, TypeOK, ActiveAdmins
  <2>2. [Idle EXCEPT !.at = "locked", !.by = req[r].by, !.rows = Wanted(r)] \in Request
    <3>1. req[r].by \in People \cup {None} BY DEF Request, TypeOK
    <3> QED BY <2>1, <3>1, IdleIsRequest DEF Request
  <2>3. \A q \in Requests : req[q] \in Request BY DEF TypeOK
  <2>4. \A q \in Requests : /\ [req[q] EXCEPT !.ahead = @ \ {r}].at = req[q].at
                            /\ [req[q] EXCEPT !.ahead = @ \ {r}].target = req[q].target
                            /\ [req[q] EXCEPT !.ahead = @ \ {r}].number = req[q].number
    BY <2>3, RequestAhead
  <2>7. [Idle EXCEPT !.at = "locked", !.by = req[r].by, !.rows = Wanted(r)].at = "locked"
    BY IdleIsRequest DEF Request
  <2>5. req' \in [Requests -> Request] BY <1>2, <2>2, <2>3, RequestAhead DEF LockAdmins
  <2>6. \A q \in Requests : /\ req'[q].at \in {"flushed", "claimed"} => req'[q].target \in People
                            /\ req'[q].at = "claimed" => req'[q].number \in Links
    BY <1>2, <2>4, <2>7 DEF LockAdmins, TypeOK
  <2> QED BY <1>2, <2>5, <2>6 DEF LockAdmins, TypeOK
<1>3. ASSUME NEW r \in Requests, NEW t \in People, NEW body \in Bodies, ChangeMember(r, t, body) PROVE TypeOK'
  <2>1. Differs(r, t, body) \subseteq Changes BY DEF Differs, Bodies
  <2>2. [Idle EXCEPT !.at = "flushed", !.by = req[r].by, !.rows = req[r].rows,
                     !.target = t, !.body = Differs(r, t, body)] \in Request
    <3>1. req[r].by \in People \cup {None} /\ req[r].rows \subseteq People BY DEF Request, TypeOK
    <3> QED BY <2>1, <3>1, IdleIsRequest DEF Request
  <2>3. /\ [Idle EXCEPT !.at = "flushed", !.by = req[r].by, !.rows = req[r].rows,
                        !.target = t, !.body = Differs(r, t, body)].target = t
        /\ [Idle EXCEPT !.at = "flushed", !.by = req[r].by, !.rows = req[r].rows,
                        !.target = t, !.body = Differs(r, t, body)].at = "flushed"
        /\ Idle.at = "idle"
    BY IdleIsRequest DEF Request, Idle
  <2>4. UNCHANGED <<members, admins, off, code, invite, links, codes, founders, joined, void>>
    BY <1>3 DEF ChangeMember
  <2>5. \/ req' = [req EXCEPT ![r] = Idle]
        \/ req' = [req EXCEPT ![r] = [Idle EXCEPT !.at = "flushed", !.by = req[r].by, !.rows = req[r].rows,
                                                  !.target = t, !.body = Differs(r, t, body)]]
    BY <1>3 DEF ChangeMember, Put
  <2> QED BY <2>2, <2>3, <2>4, <2>5, IdleIsRequest DEF TypeOK
<1>4. ASSUME NEW r \in Requests, CommitChange(r) PROVE TypeOK'
  <2>1. req[r].target \in members BY <1>4 DEF CommitChange, Targets
  <2>2. members' \subseteq People /\ admins' \subseteq members' /\ off' \subseteq members'
    BY <1>4, <2>1, WithTypes DEF CommitChange
  <2>3. req' = [req EXCEPT ![r] = Idle] BY <1>4 DEF CommitChange, Put
  <2>4. UNCHANGED <<code, invite, links, codes, founders, joined, void>> BY <1>4 DEF CommitChange
  <2> QED BY <2>2, <2>3, <2>4, IdleIsRequest DEF TypeOK, Idle
<1>5. ASSUME NEW r \in Requests, RollBack(r) PROVE TypeOK'
  <2>1. \A q \in Requests : req[q] \in Request BY DEF TypeOK
  <2>2. \A q \in Requests : /\ [req[q] EXCEPT !.ahead = @ \ {r}].at = req[q].at
                            /\ [req[q] EXCEPT !.ahead = @ \ {r}].target = req[q].target
                            /\ [req[q] EXCEPT !.ahead = @ \ {r}].number = req[q].number
    BY <2>1, RequestAhead
  <2>3. req' \in [Requests -> Request] BY <1>5, <2>1, RequestAhead, IdleIsRequest DEF RollBack
  <2>4. \A q \in Requests : /\ req'[q].at \in {"flushed", "claimed"} => req'[q].target \in People
                            /\ req'[q].at = "claimed" => req'[q].number \in Links
    BY <1>5, <2>2 DEF RollBack, Idle, TypeOK
  <2> QED BY <1>5, <2>3, <2>4 DEF RollBack, TypeOK
<1> QED BY <1>1, <1>2, <1>3, <1>4, <1>5 DEF Changing

-----------------------------------------------------------------------------
(* What each step does to the requests and the tables                      *)

\* Requests other than r are where they were.
Others(r) == \A q \in Requests \ {r} :
    /\ req'[q].at = req[q].at /\ req'[q].target = req[q].target /\ req'[q].body = req[q].body
    /\ req'[q].number = req[q].number /\ req'[q].rows = req[q].rows /\ req'[q].by = req[q].by

LEMMA PutOthers ==
  ASSUME TypeOK, NEW r \in Requests, NEW new, Put(r, new)
  PROVE  Others(r) /\ req'[r] = new
BY DEF Put, Others, TypeOK

LEMMA AheadOthers ==
  ASSUME TypeOK, NEW r \in Requests, NEW new,
         req' = [q \in Requests |-> IF q = r THEN new ELSE [req[q] EXCEPT !.ahead = @ \ {r}]]
  PROVE  Others(r) /\ req'[r] = new
<1>1. \A q \in Requests : req[q] \in Request BY DEF TypeOK
<1>2. req'[r] = new OBVIOUS
<1>3. \A q \in Requests \ {r} : req'[q] = [req[q] EXCEPT !.ahead = @ \ {r}] OBVIOUS
<1>4. ASSUME NEW q \in Requests \ {r}
      PROVE  /\ req'[q].at = req[q].at /\ req'[q].target = req[q].target /\ req'[q].body = req[q].body
             /\ req'[q].number = req[q].number /\ req'[q].rows = req[q].rows /\ req'[q].by = req[q].by
  <2>1. req[q] \in Request /\ req'[q] = [req[q] EXCEPT !.ahead = @ \ {r}] BY <1>1, <1>3
  <2> QED BY <2>1, RequestAhead
<1> QED BY <1>2, <1>4 DEF Others

\* The steps, by what they do to the household and to one request.
Founding(r) == /\ req[r].at = "setup"
               /\ Others(r) /\ req'[r] = Idle
               /\ \/ UNCHANGED <<members, admins, off, code, founders>>
                  \/ /\ req[r].number = code /\ code' = 0 /\ founders' = founders + 1
                     /\ \E p \in People \ members : members' = members \cup {p} /\ admins' = admins \cup {p}
                     /\ UNCHANGED off
Joining(r) == /\ req[r].at = "claimed"
              /\ Others(r) /\ req'[r] = Idle
              /\ \E p \in People \ members : members' = members \cup {p} /\ admins' \in {admins, admins \cup {p}}
              /\ UNCHANGED <<off, code, founders>>
Committing(r) == /\ CommitChange(r) /\ Others(r) /\ req'[r] = Idle

LEMMA Steps ==
  ASSUME TypeOK, Next
  PROVE  \/ IssueCode
         \/ \E r \in Requests : Founding(r) \/ Joining(r) \/ Committing(r)
         \/ UNCHANGED <<members, admins, off, code, founders, req>>
         \/ /\ UNCHANGED <<members, admins, off, code, founders>>
            /\ \E r \in Requests :
                 /\ Others(r)
                 /\ \/ req'[r].at = "idle"
                    \/ req'[r].at = "setup" /\ req'[r].number # 0
                    \/ req'[r].at = "claimed"
                    \/ req'[r].at = "asked" /\ ActiveAdmins # {}
                    \/ LockAdmins(r) /\ req'[r].at = "locked" /\ req'[r].rows = Wanted(r)
                    \/ \E t \in People, body \in Bodies :
                         /\ ChangeMember(r, t, body)
                         /\ req'[r].at = "flushed" /\ req'[r].target = t
                         /\ req'[r].rows = req[r].rows
                         /\ AdminRemainsWith(req'[r].target, req'[r].body)
<1> DEFINE Quiet(r) == /\ UNCHANGED <<members, admins, off, code, founders>>
                       /\ Others(r)
<1>1. CASE Setup
  <2>1. ASSUME NEW r \in Requests, NEW number \in 1..codes, StartSetup(r, number)
        PROVE  Quiet(r) /\ req'[r].at = "setup" /\ req'[r].number # 0
    <3>1. [Idle EXCEPT !.at = "setup", !.number = number].at = "setup"
          /\ [Idle EXCEPT !.at = "setup", !.number = number].number = number
      BY IdleIsRequest DEF Request
    <3>2. number # 0 BY DEF TypeOK
    <3> QED BY <2>1, <3>1, <3>2, PutOthers DEF StartSetup
  <2>2. ASSUME NEW r \in Requests, NEW p \in People, CompleteSetup(r, p) PROVE Founding(r)
    BY <2>2, PutOthers DEF CompleteSetup, CodeAfter, Founding
  <2> QED BY <1>1, <2>1, <2>2 DEF Setup
<1>2. CASE Inviting
  BY <1>2 DEF Inviting, InviteMember, RenewInvitation, RevokeInvitation, Expire
<1>3. CASE Accepting
  <2>1. ASSUME NEW r \in Requests, NEW p \in People, ClaimInvitation(r, p, invite[p].link)
        PROVE  Quiet(r) /\ req'[r].at = "claimed"
    <3>1. [Idle EXCEPT !.at = "claimed", !.target = p, !.number = invite[p].link].at = "claimed"
      BY IdleIsRequest DEF Request
    <3> QED BY <2>1, <3>1, PutOthers DEF ClaimInvitation
  <2>2. ASSUME NEW r \in Requests, Join(r) PROVE Joining(r)
    BY <2>2, PutOthers DEF Join, Joining, TypeOK
  <2> QED BY <1>3, <2>1, <2>2 DEF Accepting
<1>4. CASE Changing
  <2>1. ASSUME NEW r \in Requests, NEW a \in People, AskForLock(r, a)
        PROVE  Quiet(r) /\ req'[r].at = "asked" /\ ActiveAdmins # {}
    <3> DEFINE new == [Idle EXCEPT !.at = "asked", !.by = a,
                           !.rows = IF LocksFresh THEN {} ELSE ActiveAdmins,
                           !.ahead = IF LocksFresh THEN {} ELSE {q \in Requests : /\ req[q].at = "asked"
                                                                  /\ req[q].rows \cap ActiveAdmins # {}}]
    <3>1. new.at = "asked" BY IdleIsRequest DEF Request
    <3>2. Put(r, new) /\ ActiveAdmins # {} BY <2>1 DEF AskForLock
    <3>3. UNCHANGED <<members, admins, off, code, founders>> BY <2>1 DEF AskForLock
    <3> HIDE DEF new
    <3> QED BY <3>1, <3>2, <3>3, PutOthers
  <2>2. ASSUME NEW r \in Requests, LockAdmins(r)
        PROVE  Quiet(r) /\ req'[r].at = "locked" /\ req'[r].rows = Wanted(r)
    <3>1. /\ [Idle EXCEPT !.at = "locked", !.by = req[r].by, !.rows = Wanted(r)].at = "locked"
          /\ [Idle EXCEPT !.at = "locked", !.by = req[r].by, !.rows = Wanted(r)].rows = Wanted(r)
      BY IdleIsRequest DEF Request
    <3> QED BY <2>2, <3>1, AheadOthers DEF LockAdmins
  <2>3. ASSUME NEW r \in Requests, NEW t \in People, NEW body \in Bodies, ChangeMember(r, t, body)
        PROVE  /\ Quiet(r)
               /\ \/ req'[r].at = "idle"
                  \/ /\ req'[r].at = "flushed" /\ req'[r].target = t
                     /\ req'[r].rows = req[r].rows
                     /\ AdminRemainsWith(req'[r].target, req'[r].body)
    <3>1. UNCHANGED <<members, admins, off, code, founders>> BY <2>3 DEF ChangeMember
    <3>2. CASE Put(r, Idle) BY <3>1, <3>2, PutOthers DEF Idle
    <3>3. CASE /\ AdminRemainsWith(t, Differs(r, t, body))
               /\ Put(r, [Idle EXCEPT !.at = "flushed", !.by = req[r].by, !.rows = req[r].rows,
                                      !.target = t, !.body = Differs(r, t, body)])
      <4>1. Others(r) /\ req'[r] = [Idle EXCEPT !.at = "flushed", !.by = req[r].by, !.rows = req[r].rows,
                                      !.target = t, !.body = Differs(r, t, body)]
        BY <3>3, PutOthers
      <4>2. req'[r].at = "flushed" /\ req'[r].target = t /\ req'[r].rows = req[r].rows
            /\ req'[r].body = Differs(r, t, body)
        BY <4>1, IdleIsRequest DEF Request
      <4> QED BY <3>1, <3>3, <4>1, <4>2
    <3> QED BY <2>3, <3>2, <3>3 DEF ChangeMember
  <2>4. ASSUME NEW r \in Requests, CommitChange(r) PROVE Committing(r)
    BY <2>4, PutOthers DEF CommitChange, Committing
  <2>5. ASSUME NEW r \in Requests, RollBack(r) PROVE Quiet(r) /\ req'[r].at = "idle"
    BY <2>5, AheadOthers DEF RollBack, Idle
  <2> QED BY <1>4, <2>1, <2>2, <2>3, <2>4, <2>5 DEF Changing
<1> QED BY <1>1, <1>2, <1>3, <1>4 DEF Next
-----------------------------------------------------------------------------
(* The row a change is about                                               *)

LEMMA NextTargets == ASSUME TypeOK, Targets, Next PROVE Targets'
<1> SUFFICES ASSUME NEW r \in Requests, req'[r].at = "flushed"
             PROVE  /\ req'[r].target \in members'
                    /\ \A q \in Requests \ {r} : req'[q].at = "flushed" => req'[q].target # req'[r].target
  BY DEF Targets
<1>1. CASE IssueCode
  BY <1>1 DEF IssueCode, Targets
<1>2. ASSUME NEW s \in Requests, Founding(s) PROVE /\ req'[r].target \in members'
                    /\ \A q \in Requests \ {r} : req'[q].at = "flushed" => req'[q].target # req'[r].target
  <2>2. req'[s].at = "idle" BY <1>2, IdleAt DEF Founding
  <2>3. members \subseteq members' BY <1>2 DEF Founding
  <2>1. r # s /\ Others(s) /\ req'[s].at = "idle" /\ members \subseteq members'
    BY <1>2, <2>2, <2>3 DEF Founding
  <2> QED BY <2>1 DEF Others, Targets
<1>3. ASSUME NEW s \in Requests, Joining(s) PROVE /\ req'[r].target \in members'
                    /\ \A q \in Requests \ {r} : req'[q].at = "flushed" => req'[q].target # req'[r].target
  BY <1>3 DEF Joining, Others, Targets, Idle
<1>4. ASSUME NEW s \in Requests, Committing(s) PROVE /\ req'[r].target \in members'
                    /\ \A q \in Requests \ {r} : req'[q].at = "flushed" => req'[q].target # req'[r].target
  <2>1. r # s /\ Others(s) /\ req'[s].at = "idle" BY <1>4 DEF Committing, Idle
  <2>2. req[s].at = "flushed" /\ members' = MembersWith(req[s].target, req[s].body)
    BY <1>4 DEF Committing, CommitChange
  <2>3. req[r].at = "flushed" /\ req'[r].target = req[r].target /\ req[r].target # req[s].target
    BY <2>1, <2>2 DEF Others, Targets
  <2>4. req'[r].target \in members' BY <2>2, <2>3 DEF Targets, MembersWith
  <2> QED BY <2>1, <2>3, <2>4 DEF Others, Targets
<1>5. CASE UNCHANGED <<members, admins, off, code, founders, req>>
  BY <1>5 DEF Targets
<1>6. ASSUME NEW s \in Requests, UNCHANGED <<members, admins, off, code, founders>>, Others(s),
             req'[s].at # "flushed"
      PROVE  /\ req'[r].target \in members'
             /\ \A q \in Requests \ {r} : req'[q].at = "flushed" => req'[q].target # req'[r].target
  BY <1>6 DEF Others, Targets
<1>7. ASSUME NEW s \in Requests, UNCHANGED <<members, admins, off, code, founders>>, Others(s),
             NEW t \in People, NEW body \in Bodies, ChangeMember(s, t, body), req'[s].target = t
      PROVE  /\ req'[r].target \in members'
             /\ \A q \in Requests \ {r} : req'[q].at = "flushed" => req'[q].target # req'[r].target
  <2>1. t \in members /\ \A q \in Requests \ {s} : req[q].at = "flushed" => req[q].target # t
    BY <1>7 DEF ChangeMember, Unlocked, Holds
  <2> QED BY <1>7, <2>1 DEF Others, Targets
<1> QED BY Steps, <1>1, <1>2, <1>3, <1>4, <1>5, <1>6, <1>7

LEMMA TypesInductive == ASSUME TypeOK, Targets, [Next]_vars PROVE TypeOK' /\ Targets'
<1>1. CASE Next
  BY <1>1, NextTargets, SetupTypes, InvitingTypes, AcceptingTypes, ChangingTypes DEF Next
<1>2. CASE UNCHANGED vars
  BY <1>2 DEF vars, TypeOK, Targets
<1> QED BY <1>1, <1>2

\* Every variable keeps its type: no change is ever written to a row that
\* another request has removed.
THEOREM HouseholdTypes == Spec => [](TypeOK /\ Targets)
<1>1. Init => Targets BY DEF Init, Targets, Idle
<1> QED BY <1>1, InitTypes, TypesInductive, PTL DEF Spec

-----------------------------------------------------------------------------
(* A link lets one person in, once                                         *)

LinksApart ==
    /\ \A p \in People : invite[p].link <= links
    /\ \A p, q \in People : p # q /\ Invited(p) => invite[q].link # invite[p].link
    /\ \A l \in void : l <= links /\ \A p \in People : invite[p].link # l
    /\ \A l \in Links : joined[l] # 0 => l <= links /\ \A p \in People : invite[p].link # l
    /\ \A r \in Requests : req[r].at = "claimed" =>
         /\ req[r].number = invite[req[r].target].link
         /\ \A q \in Requests \ {r} : req[q].at = "claimed" => req[q].target # req[r].target

OnceStep == \A l \in Links : joined'[l] # joined[l] => joined[l] = 0 /\ l \notin void

LEMMA JoinOnce == ASSUME TypeOK, LinksApart, Next PROVE OnceStep
<1>1. ASSUME NEW r \in Requests, Join(r) PROVE OnceStep
  <2> DEFINE l == req[r].number
  <2>1. l \in Links /\ req[r].target \in People /\ invite[req[r].target].link = l
    BY <1>1 DEF Join, TypeOK, LinksApart
  <2>2. joined[l] = 0 /\ l \notin void BY <2>1 DEF LinksApart
  <2>3. \A k \in Links \ {l} : joined'[k] = joined[k] BY <1>1 DEF Join, TypeOK
  <2> QED BY <2>2, <2>3 DEF OnceStep
<1>2. CASE UNCHANGED joined BY <1>2 DEF OnceStep
<1>3. (\E r \in Requests : Join(r)) \/ UNCHANGED joined
  BY DEF Next, Setup, Inviting, Accepting, Changing, IssueCode, StartSetup, CompleteSetup,
         InviteMember, RenewInvitation, RevokeInvitation, Expire, ClaimInvitation,
         AskForLock, LockAdmins, ChangeMember, CommitChange, RollBack
<1> QED BY <1>1, <1>2, <1>3

\* A request for an invitation: only claiming and joining touch one.
ClaimsKept == \A r \in Requests : req'[r].at = "claimed" =>
    req[r].at = "claimed" /\ req'[r].number = req[r].number /\ req'[r].target = req[r].target

LEMMA QuietLinks ==
  ASSUME LinksApart, ClaimsKept, UNCHANGED <<invite, links, joined, void>>
  PROVE  LinksApart'
BY DEF LinksApart, ClaimsKept, Invited

LEMMA OtherClaims ==
  ASSUME TypeOK, NEW r \in Requests, NEW new, Put(r, new), new.at # "claimed"
  PROVE  ClaimsKept
BY PutOthers DEF Others, ClaimsKept

LEMMA OtherLinks ==
  ASSUME TypeOK, LinksApart, Setup \/ Changing
  PROVE  LinksApart'
<1>1. UNCHANGED <<invite, links, joined, void>>
  BY DEF Setup, Changing, IssueCode, StartSetup, CompleteSetup, AskForLock, LockAdmins, ChangeMember,
         CommitChange, RollBack
<1>2. ClaimsKept
  <2>1. CASE Setup
    <3>1. CASE IssueCode BY <3>1 DEF IssueCode, ClaimsKept
    <3>2. ASSUME NEW r \in Requests, NEW number \in 1..codes, StartSetup(r, number) PROVE ClaimsKept
      <4>1. [Idle EXCEPT !.at = "setup", !.number = number].at # "claimed"
        BY IdleIsRequest DEF Request
      <4> QED BY <3>2, <4>1, OtherClaims DEF StartSetup
    <3>3. ASSUME NEW r \in Requests, NEW p \in People, CompleteSetup(r, p) PROVE ClaimsKept
      BY <3>3, OtherClaims DEF CompleteSetup, Idle
    <3> QED BY <2>1, <3>1, <3>2, <3>3 DEF Setup
  <2>2. CASE Changing
    <3>1. ASSUME NEW r \in Requests, NEW a \in People, AskForLock(r, a) PROVE ClaimsKept
      <4> DEFINE new == [Idle EXCEPT !.at = "asked", !.by = a,
                             !.rows = IF LocksFresh THEN {} ELSE ActiveAdmins,
                             !.ahead = IF LocksFresh THEN {} ELSE {q \in Requests : /\ req[q].at = "asked"
                                                                    /\ req[q].rows \cap ActiveAdmins # {}}]
      <4>1. new.at # "claimed" BY IdleIsRequest DEF Request
      <4>2. Put(r, new) BY <3>1 DEF AskForLock
      <4> HIDE DEF new
      <4> QED BY <4>1, <4>2, OtherClaims
    <3>2. ASSUME NEW r \in Requests, LockAdmins(r) PROVE ClaimsKept
      <4>1. [Idle EXCEPT !.at = "locked", !.by = req[r].by, !.rows = Wanted(r)].at # "claimed"
        BY IdleIsRequest DEF Request
      <4> QED BY <3>2, <4>1, AheadOthers DEF LockAdmins, Others, ClaimsKept
    <3>3. ASSUME NEW r \in Requests, NEW t \in People, NEW body \in Bodies, ChangeMember(r, t, body) PROVE ClaimsKept
      <4>1. /\ [Idle EXCEPT !.at = "flushed", !.by = req[r].by, !.rows = req[r].rows,
                            !.target = t, !.body = Differs(r, t, body)].at # "claimed"
            /\ Idle.at # "claimed"
        BY IdleIsRequest DEF Request, Idle
      <4>2. \/ Put(r, Idle)
            \/ Put(r, [Idle EXCEPT !.at = "flushed", !.by = req[r].by, !.rows = req[r].rows,
                                   !.target = t, !.body = Differs(r, t, body)])
        BY <3>3 DEF ChangeMember
      <4> QED BY <4>1, <4>2, OtherClaims
    <3>4. ASSUME NEW r \in Requests, CommitChange(r) PROVE ClaimsKept
      BY <3>4, OtherClaims DEF CommitChange, Idle
    <3>5. ASSUME NEW r \in Requests, RollBack(r) PROVE ClaimsKept
      BY <3>5, AheadOthers DEF RollBack, Others, ClaimsKept, Idle
    <3> QED BY <2>2, <3>1, <3>2, <3>3, <3>4, <3>5 DEF Changing
  <2> QED BY <2>1, <2>2
<1> QED BY <1>1, <1>2, QuietLinks

\* A new link is one nobody has had.
LEMMA NewLinks == ASSUME TypeOK, LinksApart, Inviting PROVE LinksApart'
<1> USE DEF Links, Invitation
<1>1. \A p \in People : invite[p].link \in Nat BY DEF TypeOK
<1>2. links \in Nat BY DEF TypeOK
<1>3. ASSUME NEW p \in People, NEW role \in Roles, InviteMember(p, role) PROVE LinksApart'
  <2>1. invite' = [invite EXCEPT ![p] = [link |-> links + 1, role |-> role, expired |-> FALSE]]
        /\ links' = links + 1 /\ UNCHANGED <<req, joined, void>> /\ invite[p].link = 0
    BY <1>3 DEF InviteMember, Invited
  <2>2. invite'[p].link = links + 1 /\ \A q \in People \ {p} : invite'[q] = invite[q]
    BY <2>1 DEF TypeOK
  <2>3. \A r \in Requests : req[r].at = "claimed" => req[r].target # p
    BY <2>1 DEF LinksApart, TypeOK
  <2>4. \A r \in Requests : req[r].at = "claimed" => req[r].target \in People
    BY DEF TypeOK
  <2>5. \A l \in void \cup Links : l \in Nat BY DEF TypeOK
  <2> QED BY <1>1, <1>2, <2>1, <2>2, <2>3, <2>4, <2>5 DEF LinksApart, Invited
<1>4. ASSUME NEW p \in People, RenewInvitation(p) PROVE LinksApart'
  <2>1. invite' = [invite EXCEPT ![p] = Renewed(p)]
        /\ links' = links + 1 /\ UNCHANGED <<req, joined>> /\ void' = void \cup {invite[p].link}
        /\ invite[p].link # 0 /\ ~Held(p)
    BY <1>4 DEF RenewInvitation, Invited
  <2>2. invite'[p].link = links + 1 /\ \A q \in People \ {p} : invite'[q] = invite[q]
    BY <2>1 DEF TypeOK, Renewed
  <2>3. \A r \in Requests : req[r].at = "claimed" => req[r].target # p
    BY <2>1 DEF Held
  <2>4. \A r \in Requests : req[r].at = "claimed" => req[r].target \in People
    BY DEF TypeOK
  <2>5. \A l \in void \cup Links : l \in Nat BY DEF TypeOK
  <2>6. \A l \in void' : l <= links /\ \A q \in People : invite'[q].link # l
    BY <1>1, <1>2, <2>1, <2>2, <2>5 DEF LinksApart, Invited
  <2> QED BY <1>1, <1>2, <2>1, <2>2, <2>3, <2>4, <2>5, <2>6 DEF LinksApart, Invited
<1>5. ASSUME NEW p \in People, RevokeInvitation(p) PROVE LinksApart'
  <2>1. invite' = [invite EXCEPT ![p] = NoInvitation]
        /\ UNCHANGED <<req, joined, links>> /\ void' = void \cup {invite[p].link}
        /\ invite[p].link # 0 /\ ~Held(p)
    BY <1>5 DEF RevokeInvitation, Invited
  <2>2. invite'[p].link = 0 /\ \A q \in People \ {p} : invite'[q] = invite[q]
    BY <2>1 DEF TypeOK, NoInvitation
  <2>3. \A r \in Requests : req[r].at = "claimed" => req[r].target # p
    BY <2>1 DEF Held
  <2>4. \A r \in Requests : req[r].at = "claimed" => req[r].target \in People
    BY DEF TypeOK
  <2>5. \A l \in void \cup Links : l # 0 BY DEF TypeOK
  <2>6. \A l \in void' : l <= links /\ \A q \in People : invite'[q].link # l
    BY <1>1, <1>2, <2>1, <2>2, <2>5 DEF LinksApart, Invited
  <2> QED BY <1>1, <1>2, <2>1, <2>2, <2>3, <2>4, <2>5, <2>6 DEF LinksApart, Invited
<1>6. ASSUME NEW p \in People, Expire(p) PROVE LinksApart'
  <2>1. \A q \in People : invite'[q].link = invite[q].link BY <1>6 DEF Expire, TypeOK
  <2>2. UNCHANGED <<req, joined, links, void>> BY <1>6 DEF Expire
  <2>3. \A r \in Requests : req[r].at = "claimed" => req[r].target \in People
    BY DEF TypeOK
  <2> QED BY <2>1, <2>2, <2>3 DEF LinksApart, Invited
<1> QED BY <1>3, <1>4, <1>5, <1>6 DEF Inviting

LEMMA AcceptedLinks == ASSUME TypeOK, LinksApart, Accepting PROVE LinksApart'
<1>1. ASSUME NEW r \in Requests, NEW p \in People, ClaimInvitation(r, p, invite[p].link) PROVE LinksApart'
  <2> DEFINE new == [Idle EXCEPT !.at = "claimed", !.target = p, !.number = invite[p].link]
  <2>1. new.target = p /\ new.number = invite[p].link BY IdleIsRequest DEF Request
  <2>2. Put(r, new) /\ ~Held(p) /\ UNCHANGED <<invite, links, joined, void>> BY <1>1 DEF ClaimInvitation
  <2> HIDE DEF new
  <2>3. Others(r) /\ req'[r] = new BY <2>2, PutOthers
  <2>4. \A q \in Requests : req[q].at = "claimed" => req[q].target # p BY <2>2 DEF Held
  <2>5. ASSUME NEW q \in Requests, req'[q].at = "claimed"
        PROVE  /\ req'[q].number = invite[req'[q].target].link
               /\ \A s \in Requests \ {q} : req'[s].at = "claimed" => req'[s].target # req'[q].target
    BY <2>1, <2>3, <2>4, <2>5 DEF LinksApart, Others
  <2> QED BY <2>2, <2>5 DEF LinksApart, Invited
<1>2. ASSUME NEW r \in Requests, Join(r) PROVE LinksApart'
  <2> DEFINE p == req[r].target
             l == req[r].number
  <2>1. p \in People /\ l \in Links /\ invite[p].link = l BY <1>2 DEF Join, TypeOK, LinksApart
  <2>2. invite' = [invite EXCEPT ![p] = NoInvitation] /\ joined' = [joined EXCEPT ![l] = @ + 1]
        /\ Put(r, Idle) /\ UNCHANGED <<links, void>>
    BY <1>2 DEF Join, InvitationAfter
  <2>3. Others(r) /\ req'[r].at = "idle" BY <2>2, PutOthers DEF Idle
  <2>4. invite'[p].link = 0 /\ \A q \in People \ {p} : invite'[q] = invite[q]
    BY <2>1, <2>2 DEF TypeOK, NoInvitation
  <2>5. \A q \in Requests \ {r} : req[q].at = "claimed" => req[q].target # p /\ req[q].target \in People
    BY <1>2 DEF LinksApart, Join, TypeOK
  <2>6. \A k \in Links \ {l} : joined'[k] = joined[k] BY <2>2 DEF TypeOK
  <2>7. \A q \in People \ {p} : invite[q].link # l
    BY <2>1 DEF LinksApart, Invited, Links
  <2>8. l <= links /\ \A k \in Links \cup void : k # 0 BY <2>1 DEF LinksApart, TypeOK, Links
  <2>9. \A q \in People : invite'[q].link # l BY <2>4, <2>7, <2>8, <2>1
  <2>10. \A k \in Links : joined'[k] # 0 => k <= links /\ \A q \in People : invite'[q].link # k
    BY <2>4, <2>6, <2>8, <2>9 DEF LinksApart
  <2>11. \A k \in void : k <= links /\ \A q \in People : invite'[q].link # k
    BY <2>4, <2>8 DEF LinksApart
  <2>12. \A q \in Requests : req'[q].at = "claimed" =>
           /\ req'[q].number = invite'[req'[q].target].link
           /\ \A s \in Requests \ {q} : req'[s].at = "claimed" => req'[s].target # req'[q].target
    BY <2>3, <2>4, <2>5 DEF LinksApart, Others
  <2>13. \A q \in People : invite'[q].link <= links
    BY <2>4, <2>1 DEF LinksApart, TypeOK
  <2>14. \A q, s \in People : q # s /\ invite'[q].link # 0 => invite'[s].link # invite'[q].link
    BY <2>4 DEF LinksApart, Invited
  <2> QED BY <2>2, <2>10, <2>11, <2>12, <2>13, <2>14 DEF LinksApart, Invited
<1> QED BY <1>1, <1>2 DEF Accepting

LEMMA LinksStayApart == Spec => []LinksApart
<1>1. Init => LinksApart
  BY DEF Init, LinksApart, NoInvitation, Idle, Invited
<1>2. TypeOK /\ LinksApart /\ [Next]_vars => LinksApart'
  <2>1. ASSUME TypeOK, LinksApart, UNCHANGED vars PROVE LinksApart'
    BY <2>1 DEF vars, LinksApart, Invited
  <2> QED BY <2>1, OtherLinks, NewLinks, AcceptedLinks DEF Next
<1> QED BY <1>1, <1>2, HouseholdTypes, PTL DEF Spec

\* Whoever joins does so by the newest link of their invitation, and by no
\* link twice, for any number of people and requests.
THEOREM JoinsOnce == Spec => LinkWorksOnce
<1>3. TypeOK /\ LinksApart /\ [Next]_vars => [OnceStep]_vars
  BY JoinOnce
<1>4. TypeOK /\ LinksApart /\ [Next]_vars
      => [\A l \in Links : joined'[l] # joined[l] => joined[l] = 0 /\ l \notin void]_vars
  BY <1>3 DEF OnceStep
<1> QED BY <1>4, LinksStayApart, HouseholdTypes, PTL DEF Spec, LinkWorksOnce

-----------------------------------------------------------------------------
(* An admin remains                                                        *)

\* Between its lock and its commit a request is alone, the rows it locked are
\* still active admins, and the admins its check saw will be there.
Alone == \A r \in Requests :
    /\ req[r].at \in {"asked", "locked", "flushed"} => members # {}
    /\ req[r].at \in {"locked", "flushed"} =>
         /\ req[r].rows # {} /\ req[r].rows \subseteq ActiveAdmins
         /\ \A q \in Requests \ {r} : req[q].at \notin {"locked", "flushed"}
    /\ req[r].at = "flushed" => AdminRemainsWith(req[r].target, req[r].body)

\* A code works as long as nobody has used one.
Founded == /\ founders \in {0, 1}
           /\ founders = 1 => members # {} /\ code = 0
           /\ \A r \in Requests : req[r].at = "setup" => req[r].number # 0

SafeAdmins == AdminRemains /\ Alone /\ Founded

\* Invitations come from members.
InvitedByMembers == \A p \in People : Invited(p) => members # {}

\* The active admins change by one person at a time, and one is left.
OneAtATime == \/ ActiveAdmins' = ActiveAdmins
              \/ \E p \in People : \/ ActiveAdmins' = ActiveAdmins \cup {p}
                                   \/ ActiveAdmins # {p} /\ ActiveAdmins' = ActiveAdmins \ {p}

LEMMA AddingAdmins ==
  ASSUME TypeOK, Targets, SafeAdmins, off' = off,
         NEW p \in People \ members, members' = members \cup {p}, admins' \in {admins, admins \cup {p}}
  PROVE  /\ ActiveAdmins \subseteq ActiveAdmins' /\ OneAtATime
         /\ \A t \in members : \A body : AdminRemainsWith(t, body) => AdminRemainsWith(t, body)'
<1>1. p \notin off /\ p \notin admins BY DEF TypeOK
<1>2. ActiveAdmins' \in {ActiveAdmins, ActiveAdmins \cup {p}} BY <1>1 DEF ActiveAdmins
<1>3. ASSUME NEW t \in members, NEW body, AdminRemainsWith(t, body) PROVE AdminRemainsWith(t, body)'
  <2>1. t # p OBVIOUS
  <2> QED BY <1>3, <1>1, <2>1 DEF AdminRemainsWith, AdminsWith, OffWith
<1> QED BY <1>2, <1>3 DEF OneAtATime

LEMMA CommitsSafely ==
  ASSUME TypeOK, Targets, SafeAdmins, NEW r \in Requests, Committing(r)
  PROVE  ActiveAdmins' # {} /\ OneAtATime /\ members' # {} /\ UNCHANGED <<code, founders>>
<1> DEFINE t == req[r].target
<1>1. /\ members' = MembersWith(t, req[r].body) /\ admins' = AdminsWith(t, req[r].body)
      /\ off' = OffWith(t, req[r].body) /\ req[r].at = "flushed" /\ UNCHANGED <<code, founders>>
  BY DEF Committing, CommitChange
<1>2. ActiveAdmins' # {} BY <1>1 DEF SafeAdmins, Alone, AdminRemainsWith, ActiveAdmins
<1>3. t \in members BY <1>1 DEF Targets
<1>4. ActiveAdmins' \in {ActiveAdmins, ActiveAdmins \cup {t}, ActiveAdmins \ {t}}
  BY <1>1 DEF ActiveAdmins, AdminsWith, OffWith
<1>5. admins' \subseteq members' BY <1>1, <1>3, WithTypes
<1>6. members' # {} BY <1>2, <1>5 DEF ActiveAdmins
<1>7. t \in People BY <1>3 DEF TypeOK
<1>8. OneAtATime
  <2>1. CASE ActiveAdmins' = ActiveAdmins \ {t} BY <1>2, <1>7, <2>1 DEF OneAtATime
  <2> QED BY <1>4, <1>7, <2>1 DEF OneAtATime
<1> QED BY <1>1, <1>2, <1>6, <1>8

LEMMA FreshLock ==
  ASSUME LocksFresh, TypeOK, SafeAdmins, NEW r \in Requests, LockAdmins(r)
  PROVE  /\ Wanted(r) = ActiveAdmins /\ ActiveAdmins # {} /\ members # {}
         /\ \A q \in Requests \ {r} : req[q].at \notin {"locked", "flushed"}
<1>1. members # {} /\ ActiveAdmins # {} BY DEF LockAdmins, SafeAdmins, Alone, AdminRemains
<1>2. Wanted(r) = ActiveAdmins BY DEF Wanted
<1>3. ASSUME NEW q \in Requests \ {r}, req[q].at \in {"locked", "flushed"} PROVE FALSE
  <2>1. req[q].rows # {} /\ req[q].rows \subseteq ActiveAdmins BY <1>3 DEF SafeAdmins, Alone
  <2>2. req[q].rows \subseteq Holds(q) BY <1>3 DEF Holds
  <2>3. Holds(q) \cap ActiveAdmins = {} BY <1>2 DEF LockAdmins, Unlocked
  <2> QED BY <2>1, <2>2, <2>3
<1> QED BY <1>1, <1>2, <1>3

LEMMA NextSafe ==
  ASSUME LocksFresh, TypeOK, TypeOK', Targets, LinksApart, InvitedByMembers, SafeAdmins, Next
  PROVE  SafeAdmins' /\ OneAtATime
<1>1. CASE IssueCode
  BY <1>1 DEF IssueCode, SetupRequired, SafeAdmins, AdminRemains, Alone, Founded, OneAtATime, ActiveAdmins,
              AdminRemainsWith, AdminsWith, OffWith
<1>2. ASSUME NEW s \in Requests, Founding(s) PROVE SafeAdmins' /\ OneAtATime
  <2>1. Others(s) /\ req'[s].at = "idle" BY <1>2, IdleAt DEF Founding
  <2>2. CASE UNCHANGED <<members, admins, off, code, founders>>
    <3>1. /\ ActiveAdmins' = ActiveAdmins
          /\ \A t, body : AdminRemainsWith(t, body)' <=> AdminRemainsWith(t, body)
      BY <2>2 DEF ActiveAdmins, AdminRemainsWith, AdminsWith, OffWith
    <3>2. Alone' BY <2>1, <2>2, <3>1 DEF SafeAdmins, Alone, Others
    <3> QED BY <2>1, <2>2, <3>1, <3>2 DEF SafeAdmins, AdminRemains, Founded, OneAtATime, Others
  <2>3. CASE /\ req[s].number = code /\ code' = 0 /\ founders' = founders + 1
             /\ \E p \in People \ members : members' = members \cup {p} /\ admins' = admins \cup {p}
             /\ UNCHANGED off
    <3>1. PICK p \in People \ members : members' = members \cup {p} /\ admins' = admins \cup {p}
      BY <2>3
    <3>2. /\ ActiveAdmins \subseteq ActiveAdmins' /\ OneAtATime
          /\ \A t \in members : \A body : AdminRemainsWith(t, body) => AdminRemainsWith(t, body)'
      BY <2>3, <3>1, AddingAdmins
    <3>3. p \in ActiveAdmins' BY <2>3, <3>1 DEF ActiveAdmins, TypeOK
    <3>4. req[s].number # 0 BY <1>2 DEF Founding, SafeAdmins, Founded
    <3>5. founders = 0
      <4>1. founders \in {0, 1} /\ founders # 1 BY <2>3, <3>4 DEF SafeAdmins, Founded, TypeOK
      <4> QED BY <4>1
    <3>6. Founded'
      <4>1. founders' = 1 /\ code' = 0 /\ members' # {} BY <2>3, <3>1, <3>5
      <4>2. \A r \in Requests : req'[r].at = "setup" => req'[r].number # 0
        BY <2>1 DEF Founded, SafeAdmins, Others
      <4> QED BY <4>1, <4>2 DEF Founded
    <3>7. Alone' BY <2>1, <3>1, <3>2 DEF Alone, SafeAdmins, Others, Targets
    <3> QED BY <3>2, <3>3, <3>6, <3>7 DEF SafeAdmins, AdminRemains
  <2> QED BY <1>2, <2>2, <2>3 DEF Founding
<1>3. ASSUME NEW s \in Requests, Joining(s) PROVE SafeAdmins' /\ OneAtATime
  <2>1. Others(s) /\ req'[s].at = "idle" BY <1>3 DEF Joining, Idle
  <2>2. PICK p \in People \ members : members' = members \cup {p} /\ admins' \in {admins, admins \cup {p}}
    BY <1>3 DEF Joining
  <2>3. UNCHANGED <<off, code, founders>> BY <1>3 DEF Joining
  <2>4. /\ ActiveAdmins \subseteq ActiveAdmins' /\ OneAtATime
        /\ \A t \in members : \A body : AdminRemainsWith(t, body) => AdminRemainsWith(t, body)'
    BY <2>2, <2>3, AddingAdmins
  <2>5. Founded' BY <2>1, <2>2, <2>3 DEF Founded, SafeAdmins, Others
  <2>6. Alone' BY <2>1, <2>2, <2>4 DEF Alone, SafeAdmins, Others, Targets
  <2>7. members # {}
    <3>1. req[s].target \in People /\ invite[req[s].target].link = req[s].number /\ req[s].number # 0
      BY <1>3 DEF Joining, LinksApart, TypeOK, Links
    <3> QED BY <3>1 DEF InvitedByMembers, Invited
  <2> QED BY <2>2, <2>4, <2>5, <2>6, <2>7 DEF SafeAdmins, AdminRemains
<1>4. ASSUME NEW s \in Requests, Committing(s) PROVE SafeAdmins' /\ OneAtATime
  <2>1. Others(s) /\ req'[s].at = "idle" /\ req[s].at = "flushed" BY <1>4 DEF Committing, CommitChange, Idle
  <2>2. ActiveAdmins' # {} /\ OneAtATime /\ members' # {} /\ UNCHANGED <<code, founders>>
    BY <1>4, CommitsSafely
  <2>3. \A q \in Requests : req'[q].at \notin {"locked", "flushed"}
    BY <2>1 DEF Others, SafeAdmins, Alone
  <2> QED BY <2>1, <2>2, <2>3 DEF SafeAdmins, AdminRemains, Alone, Founded, Others
<1>5. CASE UNCHANGED <<members, admins, off, code, founders, req>>
  BY <1>5 DEF SafeAdmins, AdminRemains, Alone, Founded, OneAtATime, ActiveAdmins,
              AdminRemainsWith, AdminsWith, OffWith
<1>6. ASSUME UNCHANGED <<members, admins, off, code, founders>>, NEW s \in Requests, Others(s),
             \/ req'[s].at = "idle"
             \/ req'[s].at = "setup" /\ req'[s].number # 0
             \/ req'[s].at = "claimed"
             \/ req'[s].at = "asked" /\ ActiveAdmins # {}
             \/ LockAdmins(s) /\ req'[s].at = "locked" /\ req'[s].rows = Wanted(s)
             \/ \E t \in People, body \in Bodies :
                  /\ ChangeMember(s, t, body)
                  /\ req'[s].at = "flushed" /\ req'[s].target = t
                  /\ req'[s].rows = req[s].rows
                  /\ AdminRemainsWith(req'[s].target, req'[s].body)
      PROVE  SafeAdmins' /\ OneAtATime
  <2>1. /\ ActiveAdmins' = ActiveAdmins
        /\ \A t, body : AdminRemainsWith(t, body)' <=> AdminRemainsWith(t, body)
    BY <1>6 DEF ActiveAdmins, AdminRemainsWith, AdminsWith, OffWith
  <2>2. OneAtATime BY <2>1 DEF OneAtATime
  <2>3. AdminRemains' BY <1>6, <2>1 DEF SafeAdmins, AdminRemains
  <2>4. Founded' BY <1>6 DEF SafeAdmins, Founded, Others
  <2>5. Alone'
    <3>1. CASE req'[s].at \in {"idle", "setup", "claimed"}
      BY <1>6, <2>1, <3>1 DEF SafeAdmins, Alone, Others
    <3>2. CASE req'[s].at = "asked" /\ ActiveAdmins # {}
      <4>1. members' # {} BY <1>6, <3>2 DEF ActiveAdmins, TypeOK
      <4> QED BY <1>6, <2>1, <3>2, <4>1 DEF SafeAdmins, Alone, Others
    <3>3. CASE LockAdmins(s) /\ req'[s].at = "locked" /\ req'[s].rows = Wanted(s)
      <4>1. /\ Wanted(s) = ActiveAdmins /\ ActiveAdmins # {} /\ members # {}
            /\ \A q \in Requests \ {s} : req[q].at \notin {"locked", "flushed"}
        BY <3>3, FreshLock
      <4> QED BY <1>6, <2>1, <3>3, <4>1 DEF SafeAdmins, Alone, Others
    <3>4. CASE \E t \in People, body \in Bodies :
                  /\ ChangeMember(s, t, body)
                  /\ req'[s].at = "flushed" /\ req'[s].target = t
                  /\ req'[s].rows = req[s].rows
                  /\ AdminRemainsWith(req'[s].target, req'[s].body)
      <4>1. req[s].at = "locked" BY <3>4 DEF ChangeMember
      <4> QED BY <1>6, <2>1, <3>4, <4>1 DEF SafeAdmins, Alone, Others
    <3> QED BY <1>6, <3>1, <3>2, <3>3, <3>4
  <2> QED BY <2>2, <2>3, <2>4, <2>5 DEF SafeAdmins
<1> QED BY Steps, <1>1, <1>2, <1>3, <1>4, <1>5, <1>6

LEMMA InitSafe == Init => SafeAdmins /\ InvitedByMembers
<1> SUFFICES ASSUME Init PROVE SafeAdmins /\ InvitedByMembers OBVIOUS
<1>1. members = {} /\ founders = 0 /\ \A r \in Requests : req[r].at = "idle"
  BY IdleAt DEF Init
<1>2. InvitedByMembers BY DEF Init, InvitedByMembers, Invited, NoInvitation
<1>3. AdminRemains /\ Alone BY <1>1 DEF AdminRemains, Alone
<1>4. Founded BY <1>1 DEF Founded
<1> QED BY <1>2, <1>3, <1>4 DEF SafeAdmins

\* Nobody is the last to leave.
LEMMA NextInvited ==
  ASSUME TypeOK, Targets, InvitedByMembers, SafeAdmins, Next
  PROVE  InvitedByMembers'
<1>1. members # {} => members' # {}
  <2>1. ASSUME NEW s \in Requests, Committing(s) PROVE members' # {} BY <2>1, CommitsSafely
  <2> QED BY Steps, <2>1 DEF IssueCode, Founding, Joining
<1>2. ASSUME NEW p \in People, invite'[p].link # 0 PROVE members # {}
  <2>1. CASE Inviting
    <3>1. Invited(p) \/ ActiveAdmins # {}
      BY <1>2, <2>1 DEF Inviting, InviteMember, RenewInvitation, RevokeInvitation, Expire, Invited, TypeOK
    <3> QED BY <3>1 DEF InvitedByMembers, ActiveAdmins, TypeOK
  <2>2. CASE Accepting
    <3>1. ASSUME NEW r \in Requests, Join(r) PROVE Invited(p)
      <4>1. req[r].target \in People /\ invite' = [invite EXCEPT ![req[r].target] = NoInvitation]
        BY <3>1 DEF Join, InvitationAfter, TypeOK
      <4>2. NoInvitation.link = 0 BY DEF NoInvitation
      <4> QED BY <1>2, <4>1, <4>2 DEF Invited, TypeOK
    <3>2. UNCHANGED invite => Invited(p) BY <1>2 DEF Invited
    <3>3. Invited(p) BY <2>2, <3>1, <3>2 DEF Accepting, ClaimInvitation
    <3> QED BY <3>3 DEF InvitedByMembers
  <2>3. CASE Setup \/ Changing
    <3>1. UNCHANGED invite
      BY <2>3 DEF Setup, Changing, IssueCode, StartSetup, CompleteSetup, AskForLock, LockAdmins, ChangeMember,
         CommitChange, RollBack
    <3> QED BY <1>2, <3>1 DEF InvitedByMembers, Invited
  <2> QED BY <2>1, <2>2, <2>3 DEF Next
<1> QED BY <1>1, <1>2 DEF InvitedByMembers, Invited

LEMMA SafeInductive ==
  ASSUME LocksFresh, TypeOK, TypeOK', Targets, LinksApart, InvitedByMembers, SafeAdmins, [Next]_vars
  PROVE  SafeAdmins' /\ InvitedByMembers'
<1>1. CASE UNCHANGED vars
  BY <1>1 DEF vars, SafeAdmins, AdminRemains, Alone, Founded, ActiveAdmins, AdminRemainsWith, AdminsWith, OffWith,
              InvitedByMembers, Invited
<1> QED BY <1>1, NextSafe, NextInvited

\* Whatever the requests do at once, an active admin remains and no setup code
\* makes a second one, as long as locks cover the admins there are.
LEMMA AdminsStaySafe == ASSUME LocksFresh PROVE Spec => []SafeAdmins
<1>1. LocksFresh OBVIOUS
<1>2. TypeOK /\ TypeOK' /\ Targets /\ LinksApart /\ InvitedByMembers /\ SafeAdmins /\ [Next]_vars
      => SafeAdmins' /\ InvitedByMembers'
  BY <1>1, SafeInductive
<1> QED BY <1>2, InitSafe, HouseholdTypes, LinksStayApart, PTL DEF Spec

\* For any number of people, and any number of requests at once whose locks
\* cover the admins there are, an active admin remains.
THEOREM AnAdminRemains == ASSUME LocksFresh PROVE Spec => []AdminRemains
<1>1. Spec => []SafeAdmins BY AdminsStaySafe
<1>2. SafeAdmins => AdminRemains BY DEF SafeAdmins
<1> QED BY <1>1, <1>2, PTL

\* However many requests set the household up at once, with one code or several,
\* only one of them ever makes its first admin.
THEOREM OneFounder == ASSUME LocksFresh PROVE Spec => []SetUpOnce
<1>1. Spec => []SafeAdmins BY AdminsStaySafe
<1>2. SafeAdmins => SetUpOnce
  <2>1. founders \in {0, 1} => founders <= 1 OBVIOUS
  <2> QED BY <2>1 DEF SafeAdmins, Founded, SetUpOnce
<1> QED BY <1>1, <1>2, PTL

\* The requests, interleaved as they are, implement the register of admins that
\* changes by one person at a time and is never emptied.
THEOREM Refinement == ASSUME LocksFresh PROVE Spec => KeepsTheRegister
<1>1. LocksFresh OBVIOUS
<1>2. Init => Register!Init BY DEF Init, Register!Init, ActiveAdmins
<1>3. TypeOK /\ TypeOK' /\ Targets /\ LinksApart /\ InvitedByMembers /\ SafeAdmins /\ [Next]_vars
      => [Register!Next]_ActiveAdmins
  <2>1. ASSUME TypeOK, TypeOK', Targets, LinksApart, InvitedByMembers, SafeAdmins, Next PROVE [Register!Next]_ActiveAdmins
    BY <1>1, <2>1, NextSafe DEF OneAtATime, Register!Next, Register!Become, Register!Cease
  <2>2. ASSUME UNCHANGED vars PROVE UNCHANGED ActiveAdmins
    BY <2>2 DEF vars, ActiveAdmins
  <2> QED BY <2>1, <2>2
<1>4. TypeOK /\ TypeOK' /\ Targets /\ LinksApart /\ InvitedByMembers /\ SafeAdmins /\ [Next]_vars
      => SafeAdmins' /\ InvitedByMembers'
  BY <1>1, SafeInductive
<1> QED BY <1>2, <1>3, <1>4, InitSafe, HouseholdTypes, LinksStayApart, PTL DEF Spec, KeepsTheRegister, Register!Spec

-----------------------------------------------------------------------------
(* All of them                                                             *)

\* Whoever is invited, signs in and stays signed in, every variable of the three
\* keeps its type.
THEOREM EverythingIsTyped ==
    SignIns!Bounds /\ Lengths => (Spec /\ SignIns!Spec /\ Life!Spec => []TypesOK)
<1> SUFFICES ASSUME SignIns!Bounds, Lengths PROVE Spec /\ SignIns!Spec /\ Life!Spec => []TypesOK
    OBVIOUS
<1>1. SignIns!Spec => []SignIns!TypeOK
    BY SignInTypes
<1>2. Life!Init => LifeInv
    BY LifeInit
<1>3. LifeInv /\ [Life!Next]_Life!vars => LifeInv'
    BY LifeNext
<1>4. LifeInv => Life!TypeOK
    BY DEF LifeInv
<1>5. TypeOK /\ Targets /\ SignIns!TypeOK /\ Life!TypeOK => TypesOK
    BY DEF TypesOK
<1> QED
    BY <1>1, <1>2, <1>3, <1>4, <1>5, HouseholdTypes, PTL DEF Life!Spec
=============================================================================
