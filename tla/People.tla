------------------------------- MODULE People -------------------------------
(* Who is in the household, how one of them signs in, and how long their      *)
(* sessions last, side by side.  None reads another's state.                 *)
EXTENDS Household

CONSTANTS
    \* Signing in.
    MaxAttempts, MaxKeys, MaxSteps, MaxMade, MaxSessions, MaxChallenges, MaxCuts,
    \* Sessions.
    Sessions, IdleTime, Absolute, TouchInterval, MaxTime

VARIABLES
    active, on, last, usable, resets, keys, sessions, challenges, step, made, doing, cut, used, again,
    row, now, asked, began, stays

signing == <<active, on, last, usable, resets, keys, sessions, challenges, step, made, doing, cut, used, again>>
lasting == <<row, now, asked, began, stays>>

SignIns == INSTANCE SignIn WITH codes <- usable, links <- resets, req <- doing
Life == INSTANCE SessionLife WITH Idle <- IdleTime

-----------------------------------------------------------------------------
TypesOK == TypeOK /\ SignIns!TypeOK /\ Life!TypeOK

\* No code or link is accepted twice (auth/totp.py, api/auth.py, api/account.py).
UsedOnce == SignIns!UsedOnce
\* After a new password or signing out the others, only what was kept goes on.
SignedOutEverywhere == SignIns!SignedOutEverywhere
\* Whoever comes back in time is still signed in (auth/sessions.py).
StaysSignedIn == Life!StaysSignedIn
=============================================================================
