------------------------------ MODULE MCLedger ------------------------------
(***************************************************************************)
(* Ledger on a small instance: two analyses at a time and two books.       *)
(***************************************************************************)
EXTENDS Ledger, TLC

Symmetry == Permutations(Runs) \cup Permutations(Books)
=============================================================================
