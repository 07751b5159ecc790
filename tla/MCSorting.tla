----------------------------- MODULE MCSorting -----------------------------
(* Small instances of Sorting for TLC.                                     *)
EXTENDS Sorting, TLC

Symmetry == Permutations(Cats) \cup Permutations(Texts) \cup Permutations(Txns)

\* No restart: MCLive follows a review past one.
RulesSpec == Init /\ [][Working]_vars
=============================================================================
