------------------------------ MODULE MCBooks ------------------------------
(* A small instance of Books for TLC.  A behaviour is about one of its      *)
(* parts: a bank being kept up to date, balances, or banks connected.       *)
EXTENDS Books, TLC

CONSTANTS AtHome, AtBank, Mine, Yours, Joint, Card, Acme

VARIABLE focus

MCAccounts == {AtBank, AtHome}
MCRank == AtBank :> 1 @@ AtHome :> 2
MCKeptByBank == {AtBank}

\* Two people of the household with their own sign-in at one bank.
MCLogins == {Mine, Yours}
MCBankOf == Mine :> Acme @@ Yours :> Acme
MCAccountsOf == Mine :> {Joint} @@ Yours :> {Joint, Card}

ASSUME Ledger!Bounds
ASSUME Link!Bounds

BooksInit == Init /\ Ledger!Init /\ Link!Init /\ focus \in {"sync", "ledger", "banks", "choices"}

\* Two banks of which nothing is imported, or one.
InFocus ==
    /\ focus = "banks" => \A i \in Link!Items : link'[i].linked = {} /\ link'[i].skipped = {}
    /\ focus = "choices" => item'[2].state = "none"

BooksNext ==
    /\ \/ focus = "sync" /\ Next /\ UNCHANGED <<ledger, links>>
       \/ focus = "ledger" /\ Ledger!Next /\ UNCHANGED <<vars, links>>
       \/ focus \in {"banks", "choices"} /\ Link!Next /\ InFocus /\ UNCHANGED <<vars, ledger>>
    /\ UNCHANGED focus

BooksSpec == BooksInit /\ [][BooksNext]_<<vars, ledger, links, focus>>

\* Transactions and request threads are interchangeable.
Symmetry == Permutations(TxnIds) \cup Permutations(Clients)
=============================================================================
