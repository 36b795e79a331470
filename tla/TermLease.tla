------------------------------ MODULE TermLease ------------------------------
(***************************************************************************)
(* What a streaming node promises of one channel: it holds the channel's   *)
(* WAL for one term at a time, and never again for a term it held or       *)
(* skipped.                                                                *)
(***************************************************************************)
EXTENDS Integers

CONSTANT Terms

VARIABLES
  held,  \* the terms whose WAL is open
  used   \* the terms whose WAL has been opened

Init == held = {} /\ used = {}

Acquire(t) ==
  /\ held = {}
  /\ \A u \in used : u < t
  /\ held' = {t}
  /\ used' = used \cup {t}

Release ==
  /\ held # {}
  /\ held' = {}
  /\ UNCHANGED used

Next == Release \/ \E t \in Terms : Acquire(t)

Spec == Init /\ [][Next]_<<held, used>>

=============================================================================
