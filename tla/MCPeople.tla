------------------------------ MODULE MCPeople ------------------------------
(* Small instances for TLC of who is in the household, how one of them     *)
(* signs in, and how long their sessions last.  A behaviour is about one   *)
(* of these; what one person does to sign in is too much at once, and is   *)
(* about codes, turning two-step verification on and off, passkeys or      *)
(* passwords.                                                              *)
EXTENDS People, FiniteSets, TLC

VARIABLE focus

MCIdleTime == [b \in BOOLEAN |-> IF b THEN 4 ELSE 3]
MCAbsolute == [b \in BOOLEAN |-> IF b THEN 7 ELSE 5]

ASSUME SignIns!Bounds

About == [codes |-> {"totp", "recovery code", "verify totp", "recovery codes"},
          totp |-> {"totp", "confirm totp", "turn off totp"},
          passkeys |-> {"second passkey", "passkey", "verify passkey", "add passkey", "change password"},
          passwords |-> {"recovery code", "verify", "change password", "reset", "issue reset"}]

\* Only passkeys' and two-step setups' foci have their challenges; the clock and
\* how often everyone is signed out matter to one each.
InFocus ==
    /\ \A r \in Requests : doing'[r].kind \in {"idle", "sign in"} \cup About[focus]
    /\ \A c \in SignIns!Slots :
          \/ challenges'[c].purpose \in {"none", "two_factor"}
          \/ focus = IF challenges'[c].purpose = "totp_setup" THEN "totp" ELSE "passkeys"
    /\ focus \in {"passkeys", "passwords"} => step' = step
    /\ focus # "passwords" => cut' <= 1
    /\ focus \in {"codes", "totp"} =>
          /\ UNCHANGED <<active, cut>>
          /\ Cardinality({s \in SignIns!Browsers : sessions'[s].alive}) <= 1
          /\ Cardinality({c \in SignIns!Slots : challenges'[c].purpose # "none"}) <= 1

PeopleInit ==
    /\ Init /\ SignIns!Init /\ Life!Init
    /\ focus \in {"household", "life"} \cup DOMAIN About
    /\ focus \notin DOMAIN About => ~on
    /\ focus # "passkeys" => keys = {}

PeopleNext ==
    /\ \/ focus = "household" /\ Next /\ UNCHANGED <<signing, lasting>>
       \/ focus = "life" /\ Life!Next /\ UNCHANGED <<vars, signing>>
       \/ focus \in DOMAIN About /\ SignIns!Next /\ InFocus /\ UNCHANGED <<vars, lasting>>
    /\ UNCHANGED focus

PeopleSpec == PeopleInit /\ [][PeopleNext]_<<vars, signing, lasting, focus>>

Symmetry == Permutations(Requests)
=============================================================================
