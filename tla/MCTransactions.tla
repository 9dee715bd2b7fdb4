--------------------------- MODULE MCTransactions ---------------------------
(***************************************************************************)
(* Transactions for TLC.  The tasks are interchangeable, and the runs of   *)
(* this module check invariants only, so symmetry is sound.                *)
(***************************************************************************)
EXTENDS Transactions, TLC

TaskSymmetry == Permutations(Tasks)
=============================================================================
