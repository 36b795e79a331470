-------------------------- MODULE MCChannelAssignment --------------------------
(* Instances of ChannelAssignment.  Nodes are interchangeable; the liveness  *)
(* run does without the symmetry.                                            *)
EXTENDS ChannelAssignment, TLC

NodeSymmetry == Permutations(Nodes)
================================================================================
