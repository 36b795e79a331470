------------------------------ MODULE MCTxnScan ------------------------------
(* TxnScan for TLC: the appenders are interchangeable. *)
EXTENDS TxnScan
Symmetry == Permutations(Appenders)

(* The behaviours in which every message belongs to a transaction.          *)
TxnOnly == \A p \in Appenders : kind'[p] \notin {"auto", "rollback"}

TxnOnlySpec == TxnInit /\ [][TxnNext /\ TxnOnly]_<<vars, txnVars>> /\ Goroutines
=============================================================================
