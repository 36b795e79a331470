------------------------------- MODULE MCTxn -------------------------------
(* Txn for TLC: the appenders are interchangeable. *)
EXTENDS Txn, TLC
Symmetry == Permutations(Appenders)
=============================================================================
