----------------------------- MODULE MCTimeTick -----------------------------
(* Small instances of TimeTick for TLC. *)
EXTENDS TimeTick, TLC

Symmetry == Permutations(Appenders) \cup Permutations(Sessions)

=============================================================================
