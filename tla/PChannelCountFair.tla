--------------------------- MODULE PChannelCountFair ---------------------------
(***************************************************************************)
(* The balance policy of the streaming coordinator, pchannelCountFair, and *)
(* the rounds that apply it while nodes come and go.  The policy keeps     *)
(* channels where they are up to the average, one more on as many nodes as *)
(* there is a remainder, and hands the rest out, waiting channels first.   *)
(* It ranges over maps, so which channels and which nodes are first is     *)
(* open; the model says how many and leaves open which.                    *)
(***************************************************************************)
EXTENDS Integers, FiniteSets, FiniteSetsExt

CONSTANTS
  Channels,     \* physical channels
  Nodes,        \* streaming nodes
  Nowhere,      \* the place of a channel that is not assigned
  MaxChanges    \* bound: nodes that come or go, and assignments that fail

ASSUME FairAssumption ==
  IsFiniteSet(Channels) /\ Nowhere \notin Nodes /\ MaxChanges \in Nat

VARIABLES
  alive,     \* AllNodesInfo: the nodes that answer and are healthy
  home,      \* where the meta says each channel is assigned
  changes    \* how many changes are left

vars == <<alive, home, changes>>

Change == changes > 0 /\ changes' = changes - 1

(* generateCurrentLayout: channels on healthy nodes, and incoming ones.     *)
AssignedChannels(n) == {c \in Channels : home[c] = n}
IncomingChannels == {c \in Channels : home[c] \notin alive}

TotalChannels == Cardinality(Channels)
avgChannelCount == TotalChannels \div Cardinality(alive)
remainingChannelCount == TotalChannels % Cardinality(alive)

Init ==
  /\ alive = {}
  /\ home = [c \in Channels |-> Nowhere]
  /\ changes = MaxChanges

(* The first loop: a node keeps its channels up to the average, and one     *)
(* more while there is a remainder.                                         *)
Keep(kept) ==
  LET above == {n \in alive : Cardinality(AssignedChannels(n)) > avgChannelCount}
      extra == {n \in above : Cardinality(kept[n]) = avgChannelCount + 1}
  IN /\ Cardinality(extra) = Min({Cardinality(above), remainingChannelCount})
     /\ \A n \in alive \ extra :
          Cardinality(kept[n]) = Min({Cardinality(AssignedChannels(n)), avgChannelCount})

(* Mutant: the remainder is not handed out.                                 *)
FillBelow(kept, count) ==
  \A n \in alive : count[n] = Max({Cardinality(kept[n]), avgChannelCount})

(* Mutant: a node one short of the average is not filled.                   *)
FillOffByOne(kept, count) ==
  \A n \in alive :
    count[n] = IF Cardinality(kept[n]) < avgChannelCount - 1 THEN avgChannelCount ELSE Cardinality(kept[n])

(* The second loop: a node below the average is filled up to it; a node at  *)
(* the average gets one of what remains.                                    *)
Fill(kept, count) ==
  LET extra == {n \in alive : Cardinality(kept[n]) > avgChannelCount}
      even == {n \in alive : Cardinality(kept[n]) = avgChannelCount}
      more == {n \in even : count[n] = avgChannelCount + 1}
  IN /\ Cardinality(more) = Min({Cardinality(even), remainingChannelCount - Cardinality(extra)})
     /\ \A n \in alive \ more : count[n] = Max({Cardinality(kept[n]), avgChannelCount})

(* Balance: expected is a layout the policy may return.  A node that gives  *)
(* channels away gets none, so it keeps what stays.                         *)
Expected(expected) ==
  LET on(n) == {c \in Channels : expected[c] = n}
      kept == [n \in alive |-> on(n) \cap AssignedChannels(n)]
      surplus == UNION {AssignedChannels(n) \ kept[n] : n \in alive}
  IN /\ Keep(kept)
     /\ Fill(kept, [n \in alive |-> Cardinality(on(n))])
     /\ (\E c \in surplus : expected[c] # Nowhere)
          => \A c \in IncomingChannels : expected[c] # Nowhere

Layouts == {expected \in [Channels -> alive \cup {Nowhere}] : Expected(expected)}

(* A round: the layout is applied to the channels it moves.  A channel      *)
(* whose move fails is being assigned and waits for the next round.         *)
Balance ==
  /\ alive # {}
  /\ \E expected \in Layouts :
       LET moved == {c \in Channels : expected[c] \notin {Nowhere, home[c]}}
       IN \/ /\ home' = [c \in Channels |-> IF c \in moved THEN expected[c] ELSE home[c]]
             /\ UNCHANGED changes
          \/ /\ Change
             /\ \E failed \in moved :
                  home' = [c \in Channels |-> IF c = failed THEN Nowhere
                                              ELSE IF c \in moved THEN expected[c] ELSE home[c]]
  /\ UNCHANGED alive

Join(n) ==
  /\ n \notin alive /\ Change
  /\ alive' = alive \cup {n}
  /\ UNCHANGED home

Leave(n) ==
  /\ n \in alive /\ Change
  /\ alive' = alive \ {n}
  /\ UNCHANGED home

Next == Balance \/ \E n \in Nodes : Join(n) \/ Leave(n)

(* The balancer starts a round again and again, at the latest by its timer. *)
Spec == Init /\ [][Next]_vars /\ WF_vars(Balance)

------------------------------------------------------------------------------
Even(where) ==
  \A m, n \in alive :
    Cardinality({c \in Channels : where[c] = m}) <= Cardinality({c \in Channels : where[c] = n}) + 1

(* "Make sure the channel count of each streaming node is equal or differ   *)
(* by 1": whatever channels are where when nodes come and go, a layout that *)
(* the policy returns has at most one channel more on a node than on        *)
(* another.                                                                 *)
FairLayout ==
  alive # {} => \A expected \in Layouts : Even(expected)

Settled == (\A c \in Channels : home[c] \in alive) /\ Even(home)

(* When nodes stop coming and going and one is there, every channel is      *)
(* assigned in the end and the nodes are even, whatever a round left out.   *)
EventuallySettled ==
  <>[](alive # {}) => <>[]Settled

(* What the interface asks of a policy: "all channel should be assigned".   *)
AllAssigned ==
  alive # {} => \A expected \in Layouts, c \in Channels : expected[c] # Nowhere
================================================================================
