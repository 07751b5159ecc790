------------------------------ MODULE MCLedger ------------------------------
(* A small instance of Ledger for TLC.                                     *)
EXTENDS Ledger, TLC

CONSTANTS a, b

Order == a :> 1 @@ b :> 2
Symmetry == Permutations(Txns) \cup Permutations(Requests)
=============================================================================
