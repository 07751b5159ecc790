----------------------------- MODULE Household -----------------------------
(***************************************************************************)
(* Who is in the household: set up by whoever reads the server's logs,     *)
(* joined through invitations, and changed by its admins, several at once. *)
(*                                                                         *)
(* Source: backend/app/api/users.py, api/auth.py, auth/setup.py,           *)
(* auth/deps.py, cli.py, models/user.py, models/auth.py.                   *)
(*                                                                         *)
(* A request that changes a member is let in, locks the rows of the active *)
(* admins, flushes its change, looks whether an admin remains, and         *)
(* commits.  Everyone has one email; who isn't a member yet is known by    *)
(* it.  The links that were made are numbered.                             *)
(***************************************************************************)
EXTENDS Naturals

CONSTANTS
    People, Requests,
    LocksFresh,     \* who waits for the admins' rows locks the admins there are when it gets them
    None,
    MaxLinks,       \* bound: invitation links ever made
    MaxCodes        \* bound: setup codes ever printed

ASSUME NoneAssumption == None \notin People
ASSUME BoundsAssumption == MaxLinks \in Nat /\ MaxCodes \in Nat /\ LocksFresh \in BOOLEAN

VARIABLES
    members, admins, off,   \* the users' rows: who there is, who is an admin, who is turned off
    code,                   \* the setup code that works, 0 if none does
    invite,                 \* the invitations' rows, by email
    req,                    \* how far each request is
    links, codes,           \* made so far
    founders,               \* history: how often a setup code made an admin
    joined, void            \* history: who joined by each link; links replaced or taken back

vars == <<members, admins, off, code, invite, req, links, codes, founders, joined, void>>

Links == 1..MaxLinks
Roles == {"admin", "viewer"}
Invitation == [link : 0..MaxLinks, role : Roles, expired : BOOLEAN]
NoInvitation == [link |-> 0, role |-> "viewer", expired |-> FALSE]

\* What update_member's body may ask for, and removing.
Changes == {"admin", "viewer", "on", "off", "remove"}
Bodies == {b \in SUBSET Changes : /\ b # {}
                                  /\ ~{"admin", "viewer"} \subseteq b /\ ~{"on", "off"} \subseteq b
                                  /\ "remove" \in b => b = {"remove"}}

Request == [at : {"idle", "asked", "locked", "flushed", "setup", "claimed"},
            by : People \cup {None},            \* the admin it was let in as
            rows : SUBSET People,               \* the admins it found and locks
            ahead : SUBSET Requests,            \* who waits for those rows since before
            target : People \cup {None}, body : SUBSET Changes,
            number : 0..(MaxLinks + MaxCodes)]  \* the link or code it was sent
Idle == [at |-> "idle", by |-> None, rows |-> {}, ahead |-> {}, target |-> None, body |-> {}, number |-> 0]

ActiveAdmins == admins \ off

Put(r, new) == req' = [req EXCEPT ![r] = new]

TypeOK ==
    /\ members \subseteq People /\ admins \subseteq members /\ off \subseteq members
    /\ code \in 0..MaxCodes
    /\ invite \in [People -> Invitation]
    /\ req \in [Requests -> Request]
    /\ \A r \in Requests : /\ req[r].at \in {"flushed", "claimed"} => req[r].target \in People
                           /\ req[r].at = "claimed" => req[r].number \in Links
    /\ links \in 0..MaxLinks /\ codes \in 0..MaxCodes
    /\ founders \in Nat /\ joined \in [Links -> Nat] /\ void \subseteq Links

Init ==
    /\ members = {} /\ admins = {} /\ off = {}
    /\ code = 0 /\ invite = [p \in People |-> NoInvitation]
    /\ req = [r \in Requests |-> Idle]
    /\ links = 0 /\ codes = 0
    /\ founders = 0 /\ joined = [l \in Links |-> 0] /\ void = {}

-----------------------------------------------------------------------------
(* First-run setup                                                         *)

SetupRequired == members = {}

\* The container prints a code when it starts, and an admin of the server asks
\* for more; each replaces the one before.
IssueCode ==
    /\ SetupRequired /\ codes < MaxCodes
    /\ codes' = codes + 1 /\ code' = codes + 1
    /\ UNCHANGED <<members, admins, off, invite, req, links, founders, joined, void>>

StartSetup(r, number) ==
    /\ req[r].at = "idle" /\ SetupRequired
    /\ Put(r, [Idle EXCEPT !.at = "setup", !.number = number])
    /\ UNCHANGED <<members, admins, off, code, invite, links, codes, founders, joined, void>>

\* The code is used up by the deletion that finds it.
CodeKept == code     \* a slip
CodeAfter == 0

CompleteSetup(r, p) ==
    /\ req[r].at = "setup" /\ p \notin members
    /\ Put(r, Idle)
    /\ IF req[r].number = code
       THEN /\ code' = CodeAfter
            /\ members' = members \cup {p} /\ admins' = admins \cup {p}
            /\ founders' = founders + 1
            /\ UNCHANGED off
       ELSE UNCHANGED <<members, admins, off, code, founders>>
    /\ UNCHANGED <<invite, links, codes, joined, void>>

-----------------------------------------------------------------------------
(* Invitations.  A row that an acceptance has deleted but not committed is *)
(* locked: whoever else wants it waits.                                    *)

Invited(p) == invite[p].link # 0
Held(p) == \E r \in Requests : req[r].at = "claimed" /\ req[r].target = p

InviteMember(p, role) ==
    /\ ActiveAdmins # {} /\ links < MaxLinks
    /\ p \notin members /\ ~Invited(p)
    /\ links' = links + 1
    /\ invite' = [invite EXCEPT ![p] = [link |-> links + 1, role |-> role, expired |-> FALSE]]
    /\ UNCHANGED <<members, admins, off, code, req, codes, founders, joined, void>>

\* A new link in the place of the old one, for another week.
Renewed(p) == [link |-> links + 1, role |-> invite[p].role, expired |-> FALSE]

RenewInvitation(p) ==
    /\ ActiveAdmins # {} /\ links < MaxLinks
    /\ Invited(p) /\ ~Held(p)
    /\ links' = links + 1
    /\ invite' = [invite EXCEPT ![p] = Renewed(p)]
    /\ void' = void \cup {invite[p].link}
    /\ UNCHANGED <<members, admins, off, code, req, codes, founders, joined>>

RevokeInvitation(p) ==
    /\ ActiveAdmins # {}
    /\ Invited(p) /\ ~Held(p)
    /\ invite' = [invite EXCEPT ![p] = NoInvitation]
    /\ void' = void \cup {invite[p].link}
    /\ UNCHANGED <<members, admins, off, code, req, links, codes, founders, joined>>

\* Its week is over.
Expire(p) ==
    /\ Invited(p) /\ ~invite[p].expired
    /\ invite' = [invite EXCEPT ![p] = [link |-> @.link, role |-> @.role, expired |-> TRUE]]
    /\ UNCHANGED <<members, admins, off, code, req, links, codes, founders, joined, void>>

\* The invitation is used up first; the password is hashed before the commit.
ClaimInvitation(r, p, link) ==
    /\ req[r].at = "idle" /\ link # 0
    /\ invite[p].link = link /\ ~invite[p].expired /\ ~Held(p)
    /\ Put(r, [Idle EXCEPT !.at = "claimed", !.target = p, !.number = link])
    /\ UNCHANGED <<members, admins, off, code, invite, links, codes, founders, joined, void>>

InvitationKept(p) == invite[p]     \* a slip
InvitationAfter(p) == NoInvitation

Join(r) ==
    LET p == req[r].target IN
    /\ req[r].at = "claimed" /\ p \notin members
    /\ members' = members \cup {p}
    /\ admins' = IF invite[p].role = "admin" THEN admins \cup {p} ELSE admins
    /\ invite' = [invite EXCEPT ![p] = InvitationAfter(p)]
    /\ joined' = [joined EXCEPT ![req[r].number] = @ + 1]
    /\ Put(r, Idle)
    /\ UNCHANGED <<off, code, links, codes, founders, void>>

-----------------------------------------------------------------------------
(* Changing and removing members                                           *)

\* A request is let in as an active admin, and asks for the admins' rows.
AskForLock(r, a) ==
    /\ req[r].at = "idle" /\ a \in ActiveAdmins
    /\ Put(r, [Idle EXCEPT !.at = "asked", !.by = a,
                           !.rows = IF LocksFresh THEN {} ELSE ActiveAdmins,
                           !.ahead = IF LocksFresh THEN {} ELSE {q \in Requests : /\ req[q].at = "asked"
                                                                  /\ req[q].rows \cap ActiveAdmins # {}}])
    /\ UNCHANGED <<members, admins, off, code, invite, links, codes, founders, joined, void>>

\* The rows a request has locked: the admins', and the one it writes.
Holds(q) == CASE req[q].at = "locked" -> req[q].rows
              [] req[q].at = "flushed" -> req[q].rows \cup {req[q].target}
              [] OTHER -> {}

\* Who waited finds the rows it saw when it began as they are now; one that was
\* deleted meanwhile isn't there to be locked.
Wanted(r) == IF LocksFresh THEN ActiveAdmins ELSE req[r].rows \cap members

UnlockedAlways(rows, r) == TRUE     \* a slip
Unlocked(rows, r) == \A q \in Requests \ {r} : Holds(q) \cap rows = {}

LockAdmins(r) ==
    /\ req[r].at = "asked" /\ req[r].ahead = {}
    /\ Unlocked(Wanted(r), r)
    /\ req' = [q \in Requests |-> IF q = r
                                  THEN [Idle EXCEPT !.at = "locked", !.by = req[r].by, !.rows = Wanted(r)]
                                  ELSE [req[q] EXCEPT !.ahead = @ \ {r}]]
    /\ UNCHANGED <<members, admins, off, code, invite, links, codes, founders, joined, void>>

\* What of a body differs from the row as the request knows it: its own row as
\* it was when it was let in, another's as it is.
Differs(r, t, body) ==
    {c \in body : CASE c = "admin" -> t # req[r].by /\ t \notin admins
                    [] c = "viewer" -> t = req[r].by \/ t \in admins
                    [] c = "off" -> t \notin off
                    [] c = "on" -> t # req[r].by /\ t \in off
                    [] c = "remove" -> TRUE}

AdminsWith(t, body) == IF body \cap {"viewer", "remove"} # {} THEN admins \ {t}
                       ELSE IF "admin" \in body THEN admins \cup {t} ELSE admins
OffWith(t, body) == IF body \cap {"on", "remove"} # {} THEN off \ {t}
                    ELSE IF "off" \in body THEN off \cup {t} ELSE off
MembersWithAll(t, body) == members \ {t}     \* a slip
MembersWith(t, body) == IF "remove" \in body THEN members \ {t} ELSE members

AdminRemainsBefore(t, body) == ActiveAdmins # {}     \* a slip
\* The check after the flush sees the committed rows and its own change.
AdminRemainsWith(t, body) == AdminsWith(t, body) \ OffWith(t, body) # {}

\* Nobody turns themselves off or removes themselves.  Refused, or nothing to
\* change: the request ends.
ChangeMember(r, t, body) ==
    LET changes == Differs(r, t, body) IN
    /\ req[r].at = "locked" /\ t \in members
    /\ ~(t = req[r].by /\ body \cap {"off", "remove"} # {})
    /\ Unlocked({t}, r)
    /\ Put(r, IF changes # {} /\ AdminRemainsWith(t, changes)
              THEN [Idle EXCEPT !.at = "flushed", !.by = req[r].by, !.rows = req[r].rows,
                                !.target = t, !.body = changes]
              ELSE Idle)
    /\ UNCHANGED <<members, admins, off, code, invite, links, codes, founders, joined, void>>

CommitChange(r) ==
    LET t == req[r].target
        body == req[r].body
    IN /\ req[r].at = "flushed"
       /\ members' = MembersWith(t, body) /\ admins' = AdminsWith(t, body) /\ off' = OffWith(t, body)
       /\ Put(r, Idle)
       /\ UNCHANGED <<code, invite, links, codes, founders, joined, void>>

\* A request is refused, fails or dies: its session rolls back.
RollBack(r) ==
    /\ req[r].at # "idle"
    /\ req' = [q \in Requests |-> IF q = r THEN Idle ELSE [req[q] EXCEPT !.ahead = @ \ {r}]]
    /\ UNCHANGED <<members, admins, off, code, invite, links, codes, founders, joined, void>>

-----------------------------------------------------------------------------
Setup == \/ IssueCode
         \/ \E r \in Requests, number \in 1..codes : StartSetup(r, number)
         \/ \E r \in Requests, p \in People : CompleteSetup(r, p)

Inviting == \E p \in People :
    \/ \E role \in Roles : InviteMember(p, role)
    \/ RenewInvitation(p) \/ RevokeInvitation(p) \/ Expire(p)

Accepting == \E r \in Requests :
    \/ \E p \in People : ClaimInvitation(r, p, invite[p].link)
    \/ Join(r)

Changing == \E r \in Requests :
    \/ \E a \in People : AskForLock(r, a)
    \/ LockAdmins(r)
    \/ \E t \in People, body \in Bodies : ChangeMember(r, t, body)
    \/ CommitChange(r)
    \/ RollBack(r)

Next == Setup \/ Inviting \/ Accepting \/ Changing

Spec == Init /\ [][Next]_vars

-----------------------------------------------------------------------------
(* What makes it correct                                                   *)

\* Once Cashcove is set up it has an active admin, however many admins demote,
\* turn off and remove each other and themselves at once (_lock_admins and
\* _ensure_an_admin_remains).
AdminRemains == members # {} => ActiveAdmins # {}

\* One code makes one admin: two people who set Cashcove up at once with codes
\* printed one after the other don't both become its first admin.
SetUpOnce == founders <= 1

\* Whoever joins does so by the newest link of their invitation, and no link
\* lets anyone in twice, also when they were removed since.
LinkWorksOnce == [][\A l \in Links : joined'[l] # joined[l] => joined[l] = 0 /\ l \notin void]_vars

\* Taken together the requests behave as one register of admins that people
\* enter and leave one at a time and that is never emptied.
Register == INSTANCE AdminRegister WITH admins <- ActiveAdmins
KeepsTheRegister == Register!Spec
=============================================================================
