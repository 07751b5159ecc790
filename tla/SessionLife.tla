---------------------------- MODULE SessionLife ----------------------------
(***************************************************************************)
(* How long one person's sessions last: each request finds its session by  *)
(* the cookie, and says it was seen, but not more often than TOUCH_INTERVAL*)
(* allows; whoever signs in clears away the person's sessions that ended.  *)
(*                                                                         *)
(* Source: backend/app/auth/sessions.py, auth/deps.py.                     *)
(***************************************************************************)
EXTENDS Naturals

CONSTANTS
    Sessions,
    Idle, Absolute,     \* by remember: how long unused, and how long at all
    TouchInterval,
    MaxTime             \* bound: when the clock stops

VARIABLES
    row,                \* the sessions' rows
    now,
    asked, began,       \* history: the last request let in, and when the session began
    stays               \* history: the sessions nobody signed out

vars == <<row, now, asked, began, stays>>

Times == 0..MaxTime
Row == [there : BOOLEAN, remember : BOOLEAN, seen : Times]

TypeOK == /\ row \in [Sessions -> Row] /\ now \in Times
          /\ asked \in [Sessions -> Times] /\ began \in [Sessions -> Times]
          /\ stays \subseteq Sessions

Init == /\ row = [s \in Sessions |-> [there |-> FALSE, remember |-> FALSE, seen |-> 0]] /\ now = 0
        /\ asked = [s \in Sessions |-> 0] /\ began = [s \in Sessions |-> 0] /\ stays = {}

Ends(s) == began[s] + Absolute[row[s].remember]

\* load: before the earlier of its two deadlines.
Live(s) == row[s].there /\ now < row[s].seen + Idle[row[s].remember] /\ now < Ends(s)

Touched(s) == IF now - row[s].seen >= TouchInterval THEN now ELSE row[s].seen

ExpiredForAll(s) == Ends(s) <= now \/ row[s].seen + Idle[FALSE] <= now     \* a slip
Expired(s) == \/ Ends(s) <= now
              \/ row[s].seen + Idle[TRUE] <= now
              \/ ~row[s].remember /\ row[s].seen + Idle[FALSE] <= now

Gone(s) == [row[s] EXCEPT !.there = FALSE]

Start(s, remember) ==
    /\ ~row[s].there
    /\ row' = [q \in Sessions |->
          CASE q = s -> [there |-> TRUE, remember |-> remember, seen |-> now]
            [] q # s /\ Expired(q) -> Gone(q)
            [] OTHER -> row[q]]
    /\ asked' = [asked EXCEPT ![s] = now] /\ began' = [began EXCEPT ![s] = now]
    /\ stays' = stays \cup {s} /\ UNCHANGED now

\* Every request that needs one to be signed in.
CurrentAuth(s) ==
    /\ Live(s)
    /\ row' = [row EXCEPT ![s].seen = Touched(s)]
    /\ asked' = [asked EXCEPT ![s] = now]
    /\ UNCHANGED <<now, began, stays>>

\* The session itself, or all but it.
EndAll(s, ended) ==
    /\ Live(s)
    /\ row' = [q \in Sessions |-> IF q \in ended THEN Gone(q) ELSE IF q = s THEN [row[q] EXCEPT !.seen = Touched(q)]
                                  ELSE row[q]]
    /\ asked' = [asked EXCEPT ![s] = now]
    /\ stays' = stays \ ended /\ UNCHANGED <<now, began>>

Tick == now < MaxTime /\ now' = now + 1 /\ UNCHANGED <<row, asked, began, stays>>

Next == \/ Tick
        \/ \E s \in Sessions : \/ \E remember \in BOOLEAN : Start(s, remember)
                               \/ CurrentAuth(s) \/ EndAll(s, {s}) \/ EndAll(s, Sessions \ {s})

Spec == Init /\ [][Next]_vars

-----------------------------------------------------------------------------
\* Whoever comes back before the idle time is up, less what a touch may lag,
\* is still signed in until the session's own end: a sign-in elsewhere clears only
\* what has ended.  Whoever stays away for the idle time isn't.
StaysSignedIn == \A s \in Sessions :
    LET idle == Idle[row[s].remember] IN
    /\ s \in stays /\ now <= asked[s] + idle - TouchInterval /\ now < Ends(s) => Live(s)
    /\ Live(s) => now < asked[s] + idle
=============================================================================
