------------------------------ MODULE Decision ------------------------------
(* What an admin is promised of the changes an AI proposes: a proposal is   *)
(* decided on once, its changes are made all together when it is approved   *)
(* and at no other time, and nobody is told anything else.                  *)
EXTENDS Integers

CONSTANTS Requests, Proposals, MaxChanges

VARIABLES
    status,     \* where each proposal stands
    made,       \* how often each of its changes has been made
    told        \* what each request was told last

vars == <<status, made, told>>

Nothing == [of |-> 0, what |-> "nothing"]

Init ==
    /\ status = [p \in Proposals |-> "none"]
    /\ made = [p \in Proposals |-> << >>]
    /\ told = [r \in Requests |-> Nothing]

Propose(p) ==
    /\ status[p] = "none" /\ status' = [status EXCEPT ![p] = "pending"]
    /\ \E n \in 1..MaxChanges : made' = [made EXCEPT ![p] = [k \in 1..n |-> 0]]
    /\ UNCHANGED told

Tell(r, p, what) == told' = [told EXCEPT ![r] = [of |-> p, what |-> what]]

Approve(r, p) ==
    /\ status[p] = "pending" /\ status' = [status EXCEPT ![p] = "approved"]
    /\ made' = [made EXCEPT ![p] = [k \in DOMAIN made[p] |-> 1]]
    /\ Tell(r, p, "approved")

Reject(r, p) ==
    /\ status[p] = "pending" /\ status' = [status EXCEPT ![p] = "rejected"]
    /\ Tell(r, p, "rejected") /\ UNCHANGED made

\* What was decided already, or that nothing was.
Answer(r, p) ==
    /\ \/ status[p] \in {"approved", "rejected"} /\ Tell(r, p, status[p])
       \/ status[p] = "pending" /\ Tell(r, p, "nothing changed")
    /\ UNCHANGED <<status, made>>

AskAgain(r) == told' = [told EXCEPT ![r] = Nothing] /\ UNCHANGED <<status, made>>

Next ==
    \/ \E p \in Proposals : Propose(p)
    \/ \E r \in Requests : AskAgain(r) \/ \E p \in Proposals : Approve(r, p) \/ Reject(r, p) \/ Answer(r, p)

Spec == Init /\ [][Next]_vars
=============================================================================
