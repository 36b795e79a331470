---------------------------- MODULE MCWALLifetime ----------------------------
(* WALLifetime for TLC: the requests are interchangeable. *)
EXTENDS WALLifetime, TLC
Symmetry == Permutations(Requests)
=============================================================================
