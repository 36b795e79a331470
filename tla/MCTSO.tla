--------------------------------- MODULE MCTSO ---------------------------------
(* Instances of TSO for TLC.                                                *)
EXTENDS TSO, TLC

CONSTANTS
  MaxTime,     \* bound: the time saved in etcd
  MaxObjects,  \* bound: objects of one run of the root coordinator
  MaxClock     \* bound: the wall clock, in half milliseconds

Readings == 1 .. MaxClock
NodeSymmetry == Permutations(Nodes)

(* Attempts beyond the logical limit, restarts and updates are bounded.     *)
Bounded ==
  /\ saved <= MaxTime
  /\ Len(objects) <= MaxObjects
  /\ \A i \in DOMAIN objects : objects[i].logical <= MaxLogical + BatchSize
================================================================================
