---------------------------- MODULE DiscoveryProofs ----------------------------
(***************************************************************************)
(* Reports of failed assignments, for any number of faults.  A report      *)
(* travels long after the handler that made it has looked: what keeps it   *)
(* from harm is that it names a term, that terms only grow, and that a     *)
(* broken node stays broken, so a term that is broken or replaced when it  *)
(* is reported is still so when the report arrives.                        *)
(***************************************************************************)
EXTENDS AssignmentDiscovery, TLAPS

Versions == [global : Int, local : Int]

(* What may have been told to the client.                                   *)
ToldTerms == NoTerm .. meta.term
Views == [version : Versions, term : ToldTerms]

(* The terms that it may report.                                            *)
FailedTerms == {t \in ToldTerms : t \in broken \/ t # meta.term}

Told ==
  /\ version \in Versions /\ meta.term \in Nat
  /\ down \in Seq(Views) /\ last \in Views /\ latest \in Views
  /\ assignments \in ToldTerms /\ assign \in ToldTerms

Reported ==
  /\ up \in Seq(FailedTerms)
  /\ handler = "report" => assign \in FailedTerms

(* The inductive invariant: nobody has heard of a term that does not exist, *)
(* and what is reported, on its way or about to be, is broken or replaced.  *)
DiscoveryInv == Told /\ Reported /\ OnlyBrokenMarked

------------------------------------------------------------------------------
(* A sequence over S is one over a larger set.                              *)
LEMMA SeqGrows ==
  ASSUME NEW S, NEW T, S \subseteq T, NEW s \in Seq(S)
  PROVE  s \in Seq(T)
<1>1. s \in [1 .. Len(s) -> S] /\ Len(s) \in Nat
  OBVIOUS
<1>2. s \in [1 .. Len(s) -> T]
  BY <1>1
<1> QED
  BY <1>1, <1>2

(* The empty sequence is over any set.                                      *)
LEMMA EmptySeq == \A S : << >> \in Seq(S)
OBVIOUS

(* What has been told and reported stays so when terms grow and nodes break. *)
LEMMA TermsGrow ==
  ASSUME Told, meta'.term \in Nat, meta.term <= meta'.term, broken \subseteq broken'
  PROVE  /\ ToldTerms \subseteq ToldTerms' /\ Views \subseteq Views'
         /\ FailedTerms \subseteq FailedTerms'
<1>1. meta.term \in Nat /\ NoTerm \in Int
  BY DEF Told, NoTerm
<1>2. ToldTerms \subseteq ToldTerms'
  BY <1>1 DEF ToldTerms, NoTerm
<1>3. Views \subseteq Views'
  BY <1>2 DEF Views
<1>4. FailedTerms \subseteq FailedTerms'
  BY <1>1, <1>2 DEF FailedTerms, ToldTerms, NoTerm
<1> QED
  BY <1>2, <1>3, <1>4

(* A step that changes neither the views of the client nor its reports.     *)
LEMMA ViewsUntouched ==
  ASSUME DiscoveryInv, meta'.term \in Nat, meta.term <= meta'.term, broken \subseteq broken',
         version' \in Versions, UNCHANGED <<last, latest, assignments, assign, handler>>,
         down' = down \/ down' = << >>, up' = up \/ up' = << >> \/ (up # << >> /\ up' = Tail(up))
  PROVE  Told' /\ Reported'
<1>0. Told /\ Reported
  BY DEF DiscoveryInv
<1>1. /\ ToldTerms \subseteq ToldTerms' /\ Views \subseteq Views'
      /\ FailedTerms \subseteq FailedTerms'
  BY <1>0, TermsGrow
<1>2. down' \in Seq(Views')
  <2>0. down \in Seq(Views)
    BY <1>0 DEF Told
  <2>1. down' \in Seq(Views)
    BY Zenon, <2>0, EmptySeq
  <2> QED
    BY <1>1, <2>1, SeqGrows
<1>3. up' \in Seq(FailedTerms')
  <2>0. up \in Seq(FailedTerms)
    BY <1>0 DEF Reported
  <2>1. up' \in Seq(FailedTerms)
    <3>1. CASE up # << >> /\ up' = Tail(up)
      BY <2>0, <3>1
    <3>2. CASE up' = up \/ up' = << >>
      BY Zenon, <2>0, <3>2, EmptySeq
    <3> QED
      BY <3>1, <3>2
  <2> QED
    BY <1>1, <2>1, SeqGrows
<1> QED
  BY <1>0, <1>1, <1>2, <1>3 DEF Told, Reported

(* The coordinator's record.                                                *)
LEMMA RecordSteps ==
  ASSUME DiscoveryInv, NEW t, NEW st, updatePChannelMeta(t, st), t \in Nat
  PROVE  meta'.term = t /\ meta'.state = st /\ version' \in Versions
<1>1. meta'.term = t /\ meta'.state = st
  BY DEF updatePChannelMeta
<1>2. version \in Versions /\ version' = [version EXCEPT !.local = @ + 1]
  BY DEF DiscoveryInv, Told, updatePChannelMeta
<1>3. version' \in Versions
  BY <1>2 DEF Versions
<1> QED
  BY <1>1, <1>3

(* The coordinator and the network: a term ends by the next term only, and  *)
(* an assignment becomes unavailable only by a report of its own term.      *)
LEMMA CoordinatorSteps ==
  ASSUME DiscoveryInv,
         Assign \/ Move \/ LoseNode \/ Restart \/ BreakStream
           \/ SwapAssignmentDiscoverClient \/ ServerRecv
  PROVE  DiscoveryInv'
<1>0. /\ Told /\ Reported /\ OnlyBrokenMarked /\ meta.term \in Nat /\ version \in Versions
      /\ up \in Seq(FailedTerms)
  BY DEF DiscoveryInv, Told, Reported
<1>1. CASE Assign
  <2>1. PICK t \in {meta.term, meta.term + 1} :
          \E st \in {"assigning", "assigned"} : updatePChannelMeta(t, st)
    BY <1>1 DEF Assign
  <2>2. PICK st \in {"assigning", "assigned"} : updatePChannelMeta(t, st)
    BY <2>1
  <2>3. t \in Nat /\ meta.term <= t
    BY <1>0, <2>1
  <2>4. meta'.term = t /\ meta'.state = st /\ version' \in Versions
    BY <2>2, <2>3, RecordSteps
  <2>5. UNCHANGED <<broken, streamVars, viewVars, handler, assign>>
    BY <1>1 DEF Assign
  <2>6. Told' /\ Reported'
    BY <2>3, <2>4, <2>5, ViewsUntouched DEF streamVars, viewVars
  <2>7. OnlyBrokenMarked'
    BY <2>2, <2>4 DEF OnlyBrokenMarked
  <2> QED
    BY <2>6, <2>7 DEF DiscoveryInv
<1>2. CASE Move
  <2>1. updatePChannelMeta(meta.term + 1, "assigning")
    BY <1>2 DEF Move
  <2>2. meta.term + 1 \in Nat /\ meta.term <= meta.term + 1
    BY <1>0
  <2>3. meta'.term = meta.term + 1 /\ meta'.state = "assigning" /\ version' \in Versions
    BY <2>1, <2>2, RecordSteps
  <2>4. UNCHANGED <<broken, streamVars, viewVars, handler, assign>>
    BY <1>2 DEF Move
  <2>5. Told' /\ Reported'
    BY <2>2, <2>3, <2>4, ViewsUntouched DEF streamVars, viewVars
  <2>6. OnlyBrokenMarked'
    BY <2>3 DEF OnlyBrokenMarked
  <2> QED
    BY <2>5, <2>6 DEF DiscoveryInv
<1>3. CASE LoseNode
  <2>1. broken \subseteq broken' /\ UNCHANGED <<version, meta, streamVars, viewVars, handler, assign>>
    BY <1>3 DEF LoseNode
  <2>2. meta'.term \in Nat /\ meta.term <= meta'.term /\ version' \in Versions
    BY <1>0, <2>1
  <2>3. Told' /\ Reported'
    BY <2>1, <2>2, ViewsUntouched DEF streamVars, viewVars
  <2>4. OnlyBrokenMarked'
    BY <1>0, <2>1 DEF OnlyBrokenMarked
  <2> QED
    BY <2>3, <2>4 DEF DiscoveryInv
<1>4. CASE Restart \/ BreakStream \/ SwapAssignmentDiscoverClient
  <2>1. /\ UNCHANGED <<meta, broken, viewVars, handler, assign>>
        /\ down' = down \/ down' = << >>
        /\ up' = up \/ up' = << >>
        /\ version' = version \/ version' = [global |-> version.global + 1, local |-> 0]
    BY <1>4 DEF Restart, BreakStream, SwapAssignmentDiscoverClient, Break, streamVars, coordVars
  <2>2. version' \in Versions
    BY <1>0, <2>1 DEF Versions
  <2>3. meta'.term \in Nat /\ meta.term <= meta'.term
    BY <1>0, <2>1
  <2>4. Told' /\ Reported'
    BY <2>1, <2>2, <2>3, ViewsUntouched DEF viewVars
  <2>5. OnlyBrokenMarked'
    BY <1>0, <2>1 DEF OnlyBrokenMarked
  <2> QED
    BY <2>4, <2>5 DEF DiscoveryInv
<1>5. CASE ServerRecv
  <2>1. /\ up # << >> /\ up' = Tail(up) /\ MarkAsUnavailable(Head(up))
        /\ UNCHANGED <<broken, down, viewVars, handler, assign>>
    BY <1>5 DEF ServerRecv
  <2>2. Head(up) \in FailedTerms
    BY <1>0, <2>1
  <2>3. PICK st : updatePChannelMeta(meta.term, st)
                  /\ (st = meta.state \/ (st = "unavailable" /\ meta.term = Head(up)))
    BY <2>1 DEF MarkAsUnavailable
  <2>4. meta'.term = meta.term /\ meta'.state = st /\ version' \in Versions
    BY <1>0, <2>3, RecordSteps
  <2>5. meta'.term \in Nat /\ meta.term <= meta'.term
    BY <1>0, <2>4
  <2>6. Told' /\ Reported'
    BY <2>1, <2>4, <2>5, ViewsUntouched DEF viewVars
  <2>7. OnlyBrokenMarked'
    BY <1>0, <2>1, <2>2, <2>3, <2>4 DEF OnlyBrokenMarked, FailedTerms
  <2> QED
    BY <2>6, <2>7 DEF DiscoveryInv
<1> QED
  BY <1>1, <1>2, <1>3, <1>4, <1>5

(* The client passes on what it was told; it reports a term that it found   *)
(* broken, or not to be the coordinator's.                                  *)
LEMMA ClientSteps ==
  ASSUME DiscoveryInv, Push \/ ClientRecv \/ Client
  PROVE  DiscoveryInv'
<1>0. /\ Told /\ Reported /\ OnlyBrokenMarked /\ meta.term \in Nat /\ version \in Versions
      /\ down \in Seq(Views) /\ last \in Views /\ latest \in Views
      /\ assignments \in ToldTerms /\ assign \in ToldTerms
      /\ up \in Seq(FailedTerms)
  BY DEF DiscoveryInv, Told, Reported
<1>1. UNCHANGED <<version, meta, broken>>
  BY Zenon
     DEF Push, ClientRecv, Client, DoDiscover, UpdateAssignment, GetAssignment, Create, Report,
     Wait, Recreate, coordVars
<1>2. ToldTerms' = ToldTerms /\ Views' = Views /\ FailedTerms' = FailedTerms
  BY <1>1 DEF ToldTerms, Views, FailedTerms
<1>3. OnlyBrokenMarked'
  BY <1>0, <1>1 DEF OnlyBrokenMarked
<1>4. CASE Push
  <2>1. Announced \in Views
    <3>1. NoTerm \in ToldTerms /\ meta.term \in ToldTerms
      BY <1>0 DEF ToldTerms, NoTerm
    <3> QED
      BY <1>0, <3>1 DEF Announced, Views
  <2>2. down' \in Seq(Views)
    BY <1>0, <1>4, <2>1 DEF Push
  <2>3. UNCHANGED <<up, viewVars, handler, assign>>
    BY <1>4 DEF Push
  <2> QED
    BY <1>0, <1>1, <1>2, <1>3, <2>2, <2>3 DEF DiscoveryInv, Told, Reported, viewVars
<1>5. CASE ClientRecv
  <2>1. down' \in Seq(Views) /\ last' \in Views
    BY <1>0, <1>5 DEF ClientRecv
  <2>2. UNCHANGED <<up, latest, assignments, handler, assign>>
    BY <1>5 DEF ClientRecv
  <2> QED
    BY <1>0, <1>1, <1>2, <1>3, <2>1, <2>2 DEF DiscoveryInv, Told, Reported
<1>6. CASE DoDiscover \/ UpdateAssignment
  <2>1. latest' \in Views /\ assignments' \in ToldTerms
    BY <1>0, <1>6 DEF DoDiscover, UpdateAssignment, Views
  <2>2. UNCHANGED <<down, up, last, handler, assign>>
    BY <1>6 DEF DoDiscover, UpdateAssignment, streamVars
  <2> QED
    BY <1>0, <1>1, <1>2, <1>3, <2>1, <2>2 DEF DiscoveryInv, Told, Reported
<1>7. CASE GetAssignment \/ Wait(TRUE) \/ Recreate
  <2>1. assign' \in ToldTerms /\ handler' # "report" /\ UNCHANGED <<streamVars, viewVars>>
    BY <1>0, <1>7 DEF GetAssignment, Wait, WaitForNextBackoff, Recreate
  <2> QED
    BY <1>0, <1>1, <1>2, <1>3, <2>1 DEF DiscoveryInv, Told, Reported, streamVars, viewVars
<1>8. CASE Create
  <2>1. handler' = "report" => assign \in FailedTerms
    BY <1>0, <1>8 DEF Create, FailedTerms
  <2>2. UNCHANGED <<streamVars, viewVars, assign>>
    BY <1>8 DEF Create
  <2> QED
    BY <1>0, <1>1, <1>2, <1>3, <2>1, <2>2 DEF DiscoveryInv, Told, Reported, streamVars, viewVars
<1>9. CASE Report
  <2>1. up' \in Seq(FailedTerms) /\ handler' # "report"
    BY <1>0, <1>9 DEF Report, Reported
  <2>2. UNCHANGED <<down, viewVars, assign>>
    BY <1>9 DEF Report
  <2> QED
    BY <1>0, <1>1, <1>2, <1>3, <2>1, <2>2 DEF DiscoveryInv, Told, Reported, viewVars
<1> QED
  BY Zenon, <1>4, <1>5, <1>6, <1>7, <1>8, <1>9 DEF Client

(* However many faults there are, a report takes an assignment away only if *)
(* the node of that very assignment failed: MarkAsUnavailable compares the  *)
(* term of the report with the term it has now.                             *)
THEOREM OnlyBrokenMarkedHolds == Spec => []OnlyBrokenMarked
<1>1. Init => DiscoveryInv
  <2> SUFFICES ASSUME Init PROVE DiscoveryInv
    OBVIOUS
  <2>1. /\ meta.term = 1 /\ meta.state = "assigned" /\ version \in Versions
        /\ [version |-> NoVersion, term |-> NoTerm] \in Views /\ NoTerm \in ToldTerms
    BY DEF Init, Versions, Views, ToldTerms, NoTerm, NoVersion
  <2>2. Told
    BY <2>1 DEF Init, Told
  <2>3. Reported
    BY DEF Init, Reported
  <2> QED
    BY <2>1, <2>2, <2>3 DEF DiscoveryInv, OnlyBrokenMarked
<1>2. DiscoveryInv /\ [Next]_vars => DiscoveryInv'
  <2> SUFFICES ASSUME DiscoveryInv, [Next]_vars PROVE DiscoveryInv'
    OBVIOUS
  <2>1. CASE Next
    BY <2>1, CoordinatorSteps, ClientSteps DEF Next, Stream
  <2>2. CASE UNCHANGED vars
    BY <2>2 DEF DiscoveryInv, Told, Reported, OnlyBrokenMarked, Views, ToldTerms, FailedTerms,
       vars, coordVars, streamVars, viewVars
  <2> QED
    BY <2>1, <2>2
<1>3. DiscoveryInv => OnlyBrokenMarked
  BY DEF DiscoveryInv
<1> QED
  BY <1>1, <1>2, <1>3, PTL DEF Spec

================================================================================
