------------------------------- MODULE SignIn -------------------------------
(***************************************************************************)
(* How one person signs in, proves who they are and manages what they      *)
(* sign in with, through several requests at once.                         *)
(*                                                                         *)
(* Source: backend/app/api/auth.py, api/account.py, api/users.py, cli.py,  *)
(* auth/service.py, auth/sessions.py, auth/challenges.py, auth/totp.py,    *)
(* auth/passkeys.py.                                                       *)
(*                                                                         *)
(* A request reads its rows, does something slow (a password is hashed, a  *)
(* key verified) and then writes and commits; others come in between.      *)
(* What it deletes or updates by a condition is looked at again when it is *)
(* written.  Codes and links are numbered as made; sessions, challenges and *)
(* passkeys have slots, used again once nothing refers to them.            *)
(***************************************************************************)
EXTENDS Naturals, FiniteSets

CONSTANTS
    Requests,
    MaxAttempts,                                    \* MAX_CODE_ATTEMPTS, MAX_SETUP_ATTEMPTS
    MaxKeys,                                        \* MAX_PASSKEYS
    MaxSteps, MaxMade,                              \* bounds: the clock, codes and links,
    MaxSessions, MaxChallenges, MaxCuts             \* rows, and how often everyone is signed out

Bounds == /\ MaxAttempts \in Nat \ {0, 1} /\ MaxKeys \in Nat
          /\ MaxSteps \in Nat \ {0} /\ MaxMade \in Nat \ {0}
          /\ MaxSessions \in Nat /\ MaxChallenges \in Nat /\ MaxCuts \in Nat

VARIABLES
    active, on, last,       \* the user's row: turned on, two-step verification on, last step used
    codes, links, keys,     \* recovery codes and reset links that still work; passkeys
    sessions, challenges,   \* rows by slot
    step,                   \* the 30-second step it is
    made,                   \* numbers given to codes and links so far
    req,
    cut,                    \* history: how often everyone was to be signed out
    used, again             \* history: one-time things accepted, and whether one was accepted again

account == <<active, on, last, codes, links, keys>>
vars == <<active, on, last, codes, links, keys, sessions, challenges, step, made, req, cut, used, again>>

Made == 1..MaxMade
Keys == 1..MaxKeys
Browsers == 1..MaxSessions
Slots == 1..MaxChallenges
Purposes == {"two_factor", "passkey_sign_in", "passkey_two_factor", "passkey_verify", "passkey_register",
             "totp_setup"}

\* since: the cut it began after; late: the request that began it began before.
Session == [alive : BOOLEAN, since : 0..MaxCuts, late : BOOLEAN]
NoSession == [alive |-> FALSE, since |-> 0, late |-> FALSE]

Challenge == [purpose : Purposes \cup {"none"}, attempts : 0..(MaxAttempts - 1)]
NoChallenge == [purpose |-> "none", attempts |-> 0]

Kinds == {"idle", "sign in", "totp", "recovery code", "second passkey", "passkey", "verify", "verify totp",
          "verify passkey", "change password", "start totp", "confirm totp", "turn off totp", "recovery codes",
          "passkey options", "add passkey", "reset", "issue reset"}
Request == [kind : Kinds, given : 0..(MaxSteps + MaxMade + MaxChallenges + 1), session : 0..MaxSessions,
            slot : 0..MaxChallenges, key : 0..MaxKeys,
            on : BOOLEAN, tried : 0..(MaxAttempts - 1), rows : SUBSET Made,       \* what it read
            since : 0..MaxCuts, late : BOOLEAN]
Idle == [kind |-> "idle", given |-> 0, session |-> 0, slot |-> 0, key |-> 0, on |-> FALSE, tried |-> 0,
         rows |-> {}, since |-> 0, late |-> FALSE]

TypeOK ==
    /\ active \in BOOLEAN /\ on \in BOOLEAN /\ last \in 0..(MaxSteps + 1)
    /\ codes \subseteq Made /\ links \subseteq Made /\ keys \subseteq Keys
    /\ sessions \in [Browsers -> Session] /\ challenges \in [Slots -> Challenge]
    /\ step \in 1..MaxSteps /\ made \in 0..MaxMade
    /\ req \in [Requests -> Request]
    /\ cut \in 0..MaxCuts /\ again \in BOOLEAN

Init ==
    /\ active = TRUE /\ on \in BOOLEAN /\ last = 0
    /\ made = (IF on THEN 1 ELSE 0) /\ codes = 1..made /\ links = {} /\ keys \in SUBSET Keys
    /\ sessions = [s \in Browsers |-> NoSession] /\ challenges = [c \in Slots |-> NoChallenge]
    /\ step = 1
    /\ req = [r \in Requests |-> Idle]
    /\ cut = 0 /\ used = {} /\ again = FALSE

-----------------------------------------------------------------------------
(* Shared steps                                                            *)

Done(r) == req' = [req EXCEPT ![r] = Idle]

Begins(r, kind, given, s, c, k, rows) ==
    /\ req[r].kind = "idle"
    /\ req' = [req EXCEPT ![r] = [kind |-> kind, given |-> given, session |-> s, slot |-> c, key |-> k,
                                  on |-> on /\ kind \in {"sign in", "totp", "verify totp"},
                                  tried |-> IF c \in Slots THEN challenges[c].attempts ELSE 0,
                                  rows |-> rows, since |-> cut, late |-> FALSE]]
    /\ UNCHANGED <<account, sessions, challenges, step, made, cut, used, again>>

Number == made + 1
CanMake == made < MaxMade

\* A one-time thing is accepted.
Accept(things) == /\ used' = used \cup things
                  /\ again' = (again \/ things \cap used # {})

FreeSlots == {c \in Slots : challenges[c].purpose = "none"
                            /\ \A q \in Requests : c \notin {req[q].slot, req[q].given}}
Lowest(S) == {n \in S : \A m \in S : n <= m}
Free(c) == c \in Lowest(FreeSlots)
Create(c, purpose) == challenges' = [challenges EXCEPT ![c] = [purpose |-> purpose, attempts |-> 0]]
Drop(c) == challenges' = [challenges EXCEPT ![c] = NoChallenge]

\* The session this browser had before, if any, is ended by the new one.
FreeBrowsers == {s \in Browsers : ~sessions[s].alive /\ \A q \in Requests : req[q].session # s}
StartSession(r) ==
    \E old \in {0} \cup {s \in Browsers : sessions[s].alive} :
      \E new \in Lowest(FreeBrowsers) :
        /\ sessions' = [s \in Browsers |->
             CASE s = new -> [alive |-> TRUE, since |-> req[r].since, late |-> req[r].late]
               [] s = old -> NoSession
               [] OTHER -> sessions[s]]
        /\ Done(r)

\* Everyone is signed out but one session; who was under way isn't stopped.
EndAllForgotten(keep) == sessions     \* a slip
EndAll(keep) == [s \in Browsers |-> IF s = keep THEN [sessions[s] EXCEPT !.since = cut + 1] ELSE NoSession]
SignOutEverywhere(r, keep) ==
    /\ cut < MaxCuts /\ cut' = cut + 1
    /\ sessions' = EndAll(keep)
    /\ req' = [q \in Requests |-> IF q = r \/ req[q].kind = "idle" THEN Idle ELSE [req[q] EXCEPT !.late = TRUE]]

\* A session's row is updated: one that has ended meanwhile breaks the request.
\* When it was is left out: here a session may at any time be recent enough.
Verified(r) ==
    /\ sessions[req[r].session].alive
    /\ Done(r) /\ UNCHANGED sessions

\* current_auth.
SignedIn(s) == sessions[s].alive /\ active

-----------------------------------------------------------------------------
(* Authenticator codes and recovery codes                                  *)

\* One step of clock drift either way, and none used before; 0 is a wrong code.
Matching == {0} \cup {g \in (step - 1)..(step + 1) : g > last}

ClaimStepAnyway(given) == given # 0     \* a slip
ClaimStep(given) == given # 0 /\ last < given

\* What a request finds when it reads the rows it will replace.
Fresh(r, rows) == rows \ req[r].rows

StepsForgotten == used \ {<<"step", n>> : n \in 0..(MaxSteps + 1)}

-----------------------------------------------------------------------------
(* Signing in                                                              *)

\* sign_in: the password is checked against what was read.
SignIn(r) == Begins(r, "sign in", 0, 0, 0, 0, {}) /\ active

SignInChecked(r) ==
    /\ req[r].kind = "sign in"
    /\ IF req[r].on
       THEN /\ \E c \in Slots : Free(c) /\ Create(c, "two_factor")
            /\ Done(r) /\ UNCHANGED sessions
       ELSE StartSession(r) /\ UNCHANGED challenges
    /\ UNCHANGED <<account, step, made, cut, used, again>>

Pending(c) == challenges[c].purpose = "two_factor" /\ active

SecondStep(r, c) ==
    /\ Pending(c)
    /\ \/ \E given \in Matching : Begins(r, "totp", given, 0, c, 0, {})
       \/ \E given \in codes \cup {0} : Begins(r, "recovery code", given, 0, c, 0, {})

\* One more attempt than the request read, or the last.
Tried(r) == IF req[r].tried + 1 >= MaxAttempts THEN NoChallenge
            ELSE [challenges[req[r].slot] EXCEPT !.attempts = req[r].tried + 1]

SecondStepFailed(r) ==
    /\ challenges[req[r].slot].purpose = "two_factor"
    /\ challenges' = [challenges EXCEPT ![req[r].slot] = Tried(r)]
    /\ Done(r)

\* The challenge goes with the session's start, if another request hasn't used it.
FinishSecondStep(r) == StartSession(r) /\ Drop(req[r].slot)

TotpChecked(r) ==
    /\ req[r].kind = "totp"
    /\ IF req[r].on /\ ClaimStep(req[r].given)
       THEN /\ last' = req[r].given /\ Accept({<<"step", req[r].given>>})
            /\ FinishSecondStep(r)
       ELSE SecondStepFailed(r) /\ UNCHANGED <<last, sessions, used, again>>
    /\ UNCHANGED <<active, on, codes, links, keys, step, made, cut>>

UseRecoveryCode(code) == codes \ {code}

RecoveryCodeChecked(r) ==
    LET code == req[r].given IN
    /\ req[r].kind = "recovery code"
    /\ IF code \in codes
       THEN /\ codes' = UseRecoveryCode(code) /\ Accept({<<"code", code>>})
            /\ FinishSecondStep(r)
       ELSE SecondStepFailed(r) /\ UNCHANGED <<codes, sessions, used, again>>
    /\ UNCHANGED <<active, on, last, links, keys, step, made, cut>>

-----------------------------------------------------------------------------
(* Passkeys.  Each ceremony has its own challenge, claimed by the request  *)
(* that answers it.                                                        *)

PasskeyOptions(c) ==
    /\ Free(c)
    /\ \/ Create(c, "passkey_sign_in")
       \/ keys # {} /\ (\E d \in Slots : Pending(d)) /\ Create(c, "passkey_two_factor")
       \/ keys # {} /\ (\E s \in Browsers : SignedIn(s)) /\ Create(c, "passkey_verify")
    /\ UNCHANGED <<account, sessions, step, made, req, cut, used, again>>

Answering == [k \in {"passkey_sign_in", "passkey_two_factor", "passkey_verify"} |->
              CASE k = "passkey_sign_in" -> "passkey" [] k = "passkey_two_factor" -> "second passkey"
                [] OTHER -> "verify passkey"]

\* given: the passkey's challenge; slot: the sign-in it is the second step of.
Answer(r, c, k) ==
    /\ k \in keys /\ challenges[c].purpose \in DOMAIN Answering
    /\ CASE challenges[c].purpose = "passkey_sign_in" -> Begins(r, "passkey", c, 0, 0, k, {})
         [] challenges[c].purpose = "passkey_two_factor" ->
              \E d \in Slots : Pending(d) /\ Begins(r, "second passkey", c, 0, d, k, {})
         [] OTHER -> \E s \in Browsers : SignedIn(s) /\ Begins(r, "verify passkey", c, s, 0, k, {})

\* The challenge is claimed whether or not the answer holds up.
Answered(r) ==
    LET c == req[r].given
        purpose == challenges[c].purpose
        claimed == purpose \in DOMAIN Answering /\ Answering[purpose] = req[r].kind
    IN /\ req[r].kind \in {"passkey", "second passkey", "verify passkey"}
       /\ IF claimed /\ req[r].key \in keys
          THEN /\ CASE req[r].kind = "verify passkey" -> Verified(r)
                   [] req[r].kind = "passkey" /\ ~active -> Done(r) /\ UNCHANGED sessions
                   [] OTHER -> StartSession(r)
               /\ challenges' = [d \in Slots |-> IF d \in {c, req[r].slot} THEN NoChallenge ELSE challenges[d]]
          ELSE /\ Done(r)
               /\ challenges' = [d \in Slots |->
                    CASE d = c /\ claimed -> NoChallenge
                      [] d = req[r].slot /\ challenges[d].purpose = "two_factor" -> Tried(r)
                      [] OTHER -> challenges[d]]
               /\ UNCHANGED sessions
       /\ UNCHANGED <<account, step, made, cut, used, again>>

AddPasskeyOptions(r, s) ==
    /\ SignedIn(s) /\ Cardinality(keys) < MaxKeys
    /\ \E c \in Slots : Free(c) /\ Create(c, "passkey_register")
    /\ req[r].kind = "idle"
    /\ UNCHANGED <<account, sessions, step, made, req, cut, used, again>>

AddPasskey(r, s, c) ==
    /\ SignedIn(s) /\ challenges[c].purpose = "passkey_register"
    /\ Begins(r, "add passkey", c, s, 0, 0, {})

PasskeyAdded(r) ==
    LET c == req[r].given IN
    /\ req[r].kind = "add passkey"
    /\ IF challenges[c].purpose = "passkey_register"
       THEN /\ Drop(c)
            /\ \E k \in Lowest({k \in Keys \ keys : \A q \in Requests : req[q].key # k}) : keys' = keys \cup {k}
       ELSE UNCHANGED <<challenges, keys>>
    /\ Done(r)
    /\ UNCHANGED <<active, on, last, codes, links, sessions, step, made, cut, used, again>>

RemovePasskey(s, k) ==
    /\ SignedIn(s) /\ k \in keys /\ keys' = keys \ {k}
    /\ UNCHANGED <<active, on, last, codes, links, sessions, challenges, step, made, req, cut, used, again>>

-----------------------------------------------------------------------------
(* Proving who one is, and the password                                    *)

Verify(r, s) ==
    /\ SignedIn(s)
    /\ \/ Begins(r, "verify", 0, s, 0, 0, {})
       \/ \E given \in Matching : Begins(r, "verify totp", given, s, 0, 0, {})

VerifyChecked(r) ==
    /\ \/ req[r].kind = "verify" /\ Verified(r) /\ UNCHANGED <<last, used, again>>
       \/ /\ req[r].kind = "verify totp"
          /\ IF req[r].on /\ ClaimStep(req[r].given)
             THEN last' = req[r].given /\ Accept({<<"step", req[r].given>>}) /\ Verified(r)
             ELSE Done(r) /\ UNCHANGED <<last, sessions, used, again>>
    /\ UNCHANGED <<active, on, codes, links, keys, challenges, step, made, cut>>

\* A reset that has used a link up and not committed holds the link's row.
LinkHeld == \E q \in Requests : req[q].kind = "reset" /\ req[q].given \in links

ChangePassword(r, s) == SignedIn(s) /\ Begins(r, "change password", 0, s, 0, 0, {})

PasswordChanged(r) ==
    LET s == req[r].session IN
    /\ req[r].kind = "change password" /\ ~LinkHeld
    /\ sessions[s].alive
    /\ SignOutEverywhere(r, s)
    /\ links' = {}
    /\ UNCHANGED <<active, on, last, codes, keys, challenges, step, made, used, again>>

\* From an admin or from the command line; what it replaces is what it finds.
IssueReset(r) == active /\ Begins(r, "issue reset", 0, 0, 0, 0, links)

ResetIssued(r) ==
    /\ req[r].kind = "issue reset" /\ ~LinkHeld
    /\ CanMake /\ made' = Number
    /\ links' = Fresh(r, links) \cup {Number}
    /\ Done(r)
    /\ UNCHANGED <<active, on, last, codes, keys, sessions, challenges, step, cut, used, again>>

\* The link is used up first; the password is hashed before the commit.
Reset(r, link) ==
    /\ link \in links /\ active
    /\ \A q \in Requests : req[q].kind = "reset" => req[q].given # link
    /\ Begins(r, "reset", link, 0, 0, 0, {})

LinksAfter(r) == {}

ResetDone(r) ==
    /\ req[r].kind = "reset"
    /\ \A q \in Requests \ {r} : req[q].kind = "reset" => req[q].given \notin links
    /\ links' = LinksAfter(r)
    /\ Accept({<<"link", req[r].given>>})
    /\ SignOutEverywhere(r, 0)
    /\ UNCHANGED <<active, on, last, codes, keys, challenges, step, made>>

-----------------------------------------------------------------------------
(* Two-step verification                                                   *)

SetupSlots == {c \in Slots : challenges[c].purpose = "totp_setup"}

StartTotp(s) ==
    /\ SignedIn(s) /\ ~on
    /\ \E c \in Slots :
         /\ Free(c)
         /\ challenges' = [d \in Slots |->
                CASE d = c -> [purpose |-> "totp_setup", attempts |-> 0]
                  [] d \in SetupSlots -> NoChallenge
                  [] OTHER -> challenges[d]]
    /\ UNCHANGED <<account, sessions, step, made, req, cut, used, again>>

ConfirmTotp(r, s, c) ==
    /\ SignedIn(s) /\ c \in SetupSlots
    /\ \E given \in {0} \cup (step - 1)..(step + 1) :
         Begins(r, "confirm totp", given, s, c, 0, codes)

TotpConfirmed(r) ==
    LET c == req[r].slot
        there == challenges[c].purpose = "totp_setup"
    IN /\ req[r].kind = "confirm totp"
       /\ IF req[r].given # 0
          THEN /\ CanMake /\ made' = Number
               /\ on' = TRUE /\ last' = req[r].given
               /\ codes' = Fresh(r, codes) \cup {Number}
               /\ challenges' = IF there THEN [challenges EXCEPT ![c] = NoChallenge] ELSE challenges
               /\ used' = StepsForgotten \cup {<<"step", req[r].given>>}
          ELSE /\ there
               /\ challenges' = [challenges EXCEPT ![c] = Tried(r)]
               /\ UNCHANGED <<made, on, last, codes, used>>
       /\ Done(r)
       /\ UNCHANGED <<active, links, keys, sessions, step, cut, again>>

\* By the person, by an admin or from the command line.
TurnOffTotp(r, s) ==
    /\ on /\ (s # 0 => SignedIn(s))
    /\ Begins(r, "turn off totp", 0, s, 0, 0, codes)

TotpTurnedOff(r) ==
    /\ req[r].kind = "turn off totp"
    /\ on' = FALSE /\ last' = 0 /\ codes' = Fresh(r, codes)
    /\ used' = StepsForgotten
    /\ Done(r)
    /\ UNCHANGED <<active, links, keys, sessions, challenges, step, made, cut, again>>

CreateRecoveryCodes(r, s) ==
    /\ SignedIn(s) /\ on
    /\ Begins(r, "recovery codes", 0, s, 0, 0, codes)

RecoveryCodesCreated(r) ==
    /\ req[r].kind = "recovery codes" /\ CanMake /\ made' = Number
    /\ codes' = Fresh(r, codes) \cup {Number}
    /\ Done(r)
    /\ UNCHANGED <<active, on, last, links, keys, sessions, challenges, step, cut, used, again>>

-----------------------------------------------------------------------------
(* Ending sessions, turning the account off and on, and time               *)

\* Sign out, end_session and expiry each end one.
EndSession(s) ==
    /\ sessions[s].alive
    /\ sessions' = [sessions EXCEPT ![s] = NoSession]
    /\ UNCHANGED <<account, challenges, step, made, req, cut, used, again>>

EndOtherSessions(s) ==
    /\ SignedIn(s) /\ SignOutEverywhere(0, s)
    /\ UNCHANGED <<account, challenges, step, made, used, again>>

TurnOff ==
    /\ active /\ active' = FALSE /\ ~LinkHeld
    /\ SignOutEverywhere(0, 0) /\ links' = {}
    /\ UNCHANGED <<on, last, codes, keys, challenges, step, made, used, again>>

TurnOn ==
    /\ ~active /\ active' = TRUE
    /\ UNCHANGED <<on, last, codes, links, keys, sessions, challenges, step, made, req, cut, used, again>>

\* A challenge or a link expires.
Expire ==
    /\ \/ \E c \in Slots : challenges[c].purpose # "none" /\ Drop(c) /\ UNCHANGED links
       \/ \E l \in links : links' = links \ {l} /\ ~LinkHeld /\ UNCHANGED challenges
    /\ UNCHANGED <<active, on, last, codes, keys, sessions, step, made, req, cut, used, again>>

Tick == /\ step < MaxSteps /\ step' = step + 1
        /\ UNCHANGED <<account, sessions, challenges, made, req, cut, used, again>>

\* A request fails, or its process dies: its session rolls back.
RollBack(r) ==
    /\ req[r].kind # "idle" /\ Done(r)
    /\ UNCHANGED <<account, sessions, challenges, step, made, cut, used, again>>

-----------------------------------------------------------------------------
SigningIn == \E r \in Requests :
    \/ SignIn(r) \/ SignInChecked(r)
    \/ (\E c \in Slots : SecondStep(r, c)) \/ TotpChecked(r) \/ RecoveryCodeChecked(r)
    \/ (\E c \in Slots, k \in keys : Answer(r, c, k)) \/ Answered(r)

ManagingPasskeys ==
    \/ \E c \in Slots : PasskeyOptions(c)
    \/ \E r \in Requests, s \in Browsers : \/ AddPasskeyOptions(r, s)
                                       \/ \E c \in Slots : AddPasskey(r, s, c)
    \/ \E r \in Requests : PasskeyAdded(r)
    \/ \E s \in Browsers, k \in keys : RemovePasskey(s, k)

ManagingAccess == \E r \in Requests :
    \/ \E s \in Browsers : Verify(r, s) \/ ChangePassword(r, s) \/ CreateRecoveryCodes(r, s)
    \/ VerifyChecked(r) \/ PasswordChanged(r) \/ RecoveryCodesCreated(r)
    \/ IssueReset(r) \/ ResetIssued(r) \/ (\E link \in links : Reset(r, link)) \/ ResetDone(r)
    \/ (\E s \in Browsers, c \in Slots : ConfirmTotp(r, s, c)) \/ TotpConfirmed(r)
    \/ (\E s \in Browsers \cup {0} : TurnOffTotp(r, s)) \/ TotpTurnedOff(r)
    \/ RollBack(r)

Ending == \/ \E s \in Browsers : StartTotp(s) \/ EndSession(s) \/ EndOtherSessions(s)
          \/ TurnOff \/ TurnOn \/ Expire \/ Tick

Next == SigningIn \/ ManagingPasskeys \/ ManagingAccess \/ Ending

Spec == Init /\ [][Next]_vars

-----------------------------------------------------------------------------
(* What makes it correct                                                   *)

\* No authenticator code, recovery code or reset link is accepted twice, by
\* whichever requests and whether to sign in or to prove who one is, as long as
\* two-step verification isn't turned off or on in between.
UsedOnce == ~again

\* After a change or reset of the password, after signing out the others and
\* after being turned off, the sessions that go on are the one that was kept
\* and those of requests that were under way.
SignedOutEverywhere ==
    \A s \in Browsers : sessions[s].alive => sessions[s].since = cut \/ sessions[s].late
=============================================================================
