--------------------------- MODULE AdminRegister ---------------------------
(***************************************************************************)
(* What the household is promised about its admins, whoever asks for what  *)
(* at once: there is nobody until someone sets Cashcove up, people become  *)
(* and stop being active admins one at a time, and the last one stays.     *)
(***************************************************************************)
CONSTANT People

VARIABLE admins     \* who can change the household

Init == admins = {}

Become(p) == admins' = admins \cup {p}

Cease(p) == /\ admins # {p}
            /\ admins' = admins \ {p}

Next == \E p \in People : Become(p) \/ Cease(p)

Spec == Init /\ [][Next]_admins
=============================================================================
