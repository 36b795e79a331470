------------------------ MODULE ChannelAssignmentProofs ------------------------
(***************************************************************************)
(* For any number of nodes, faults and rounds: at most one node that lives *)
(* keeps the channel, a term is given to one node only, and what clients   *)
(* are told of an assignment is true.  The last section is about the       *)
(* policy that chooses the nodes: every layout it returns is even.         *)
(*                                                                         *)
(* An assignment that was sent is over once its node lost the session or   *)
(* expects a later state.  The invariant says that assignments which are   *)
(* not over are on record, in memory and in the catalog; that the          *)
(* histories which the round has passed are over; and so that Assign is    *)
(* sent when nothing else is left.                                         *)
(***************************************************************************)
EXTENDS ChannelAssignment, FiniteSets, TLAPS

Assignments == [term : Nat, node : Nodes]

Metas ==
  {m \in [term : Nat, node : Nodes \cup {NoNode},
          state : {"uninitialized", "assigning", "assigned", "unavailable"},
          histories : Seq(Assignments)] :
     /\ m.state # "uninitialized" => m.node \in Nodes
     /\ \A i \in 1..Len(m.histories) : m.histories[i].term < m.term}

States == [term : Nat, available : BOOLEAN]

NodeStates == {"new", "up", "stale", "zombie", "dead"}

TypesOK ==
  /\ meta \in Metas /\ catalog \in Metas
  /\ step \in Nat \ {0}
  /\ node \in [Nodes -> NodeStates]
  /\ expected \in [Nodes -> States]
  /\ inbox \subseteq [node : Nodes, state : States]
  /\ sent \subseteq Assignments
  /\ view \subseteq Nodes

Gone(n) == node[n] \in {"zombie", "dead"}

Over(a) ==
  \/ Gone(a.node)
  \/ expected[a.node].term > a.term
  \/ expected[a.node].term = a.term /\ ~expected[a.node].available

Tracks(m, a) ==
  /\ m.state # "uninitialized"
  /\ \/ m.term = a.term /\ m.node = a.node
     \/ \E i \in 1..Len(m.histories) : m.histories[i] = a

OnRecord ==
  \A a \in sent : Over(a) \/ (Tracks(meta, a) /\ Tracks(catalog, a))

(* What a node expects or is asked to open was sent to it.                  *)
Known ==
  /\ \A n \in Nodes :
       expected[n].available => [term |-> expected[n].term, node |-> n] \in sent
  /\ \A m \in inbox :
       m.state.available => [term |-> m.state.term, node |-> m.node] \in sent

TermsBelow(m) ==
  \A a \in sent : a.term <= m.term /\ (a.term = m.term => a.node = m.node)

Applying ==
  coord = "applying" =>
    /\ catalog = meta /\ meta.state = "assigning"
    /\ \A i \in 1..Len(meta.histories) :
         i < step /\ meta.histories[i] \in sent => Over(meta.histories[i])

(* A Remove that reached its node has ended that assignment.                *)
RemoveTaken ==
  /\ coord # "applying" => call = "none"
  /\ call \in {"accepted", "ignored"} /\ Removing => Over(meta.histories[step])

AssignSent ==
  Calling /\ ~Removing /\ call # "none" => [term |-> meta.term, node |-> meta.node] \in sent

OneLeft ==
  \A a, b \in sent : ~Over(a) /\ ~Over(b) => a = b

ViewTrue ==
  /\ \A n \in view : node[n] # "new"
  /\ \A a \in sent : a.node \notin view => Gone(a.node)

IInv ==
  /\ TypesOK /\ OnRecord /\ Known /\ TermsBelow(meta) /\ TermsBelow(catalog)
  /\ Applying /\ RemoveTaken /\ AssignSent /\ OneLeft /\ ViewTrue /\ TermOfOneNode

(* The initial state: nothing was sent.                                     *)
LEMMA InitIInv == Init => IInv
<1> SUFFICES ASSUME Init PROVE IInv
  OBVIOUS
<1>1. meta \in Metas /\ catalog \in Metas
  BY DEF Init, newPChannelMeta, Metas, Assignments
<1>2. TypesOK
  BY <1>1 DEF Init, TypesOK, InitialState, State, States, NodeStates
<1>3. Known /\ RemoveTaken /\ AssignSent
  BY DEF Init, Known, RemoveTaken, AssignSent, InitialState, State
<1>4. OnRecord /\ TermsBelow(meta) /\ TermsBelow(catalog) /\ OneLeft /\ ViewTrue /\ TermOfOneNode
  BY DEF Init, OnRecord, TermsBelow, OneLeft, ViewTrue, TermOfOneNode
<1>5. Applying
  BY DEF Init, Applying
<1> QED
  BY <1>2, <1>3, <1>4, <1>5 DEF IInv

(* TryAssignToServerID keeps every assignment on record.                    *)
LEMMA TryAssignTracks ==
  ASSUME NEW m \in Metas, NEW n \in Nodes
  PROVE  LET t == TryAssignToServerID(m, n)
         IN /\ t \in Metas /\ t.term = m.term + 1 /\ t.state = "assigning" /\ t.node = n
            /\ \A a \in Assignments : Tracks(m, a) => Tracks(t, a)
<1> DEFINE last == [term |-> m.term, node |-> m.node]
           t == TryAssignToServerID(m, n)
<1>1. m.term \in Nat /\ m.histories \in Seq(Assignments)
  BY DEF Metas
<1>0. \A i \in 1..Len(m.histories) : m.histories[i].term \in Nat /\ m.histories[i].term < m.term + 1
  <2>1. \A i \in 1..Len(m.histories) : m.histories[i] \in Assignments
    BY <1>1
  <2>2. \A i \in 1..Len(m.histories) : m.histories[i].term < m.term
    BY DEF Metas
  <2> QED
    BY <1>1, <2>1, <2>2 DEF Assignments
<1>2. CASE m.state = "uninitialized"
  <2>1. t = [term |-> m.term + 1, node |-> n, state |-> "assigning", histories |-> m.histories]
    BY <1>2 DEF TryAssignToServerID
  <2>2. t.histories = m.histories /\ t.term = m.term + 1 /\ t.state = "assigning" /\ t.node = n
    BY <2>1
  <2>3. t \in [term : Nat, node : Nodes \cup {NoNode}, histories : Seq(Assignments),
               state : {"uninitialized", "assigning", "assigned", "unavailable"}]
    BY <1>1, <2>1
  <2>4. t \in Metas
    BY <1>0, <2>2, <2>3 DEF Metas
  <2> QED
    BY <1>2, <2>2, <2>4 DEF Tracks
<1>3. CASE m.state # "uninitialized"
  <2>1. last \in Assignments
    BY <1>1, <1>3 DEF Metas, Assignments
  <2>2. t = [term |-> m.term + 1, node |-> n, state |-> "assigning",
             histories |-> Append(m.histories, last)]
    BY <1>3 DEF TryAssignToServerID
  <2> DEFINE h == Append(m.histories, last)
  <2>3. /\ h \in Seq(Assignments) /\ Len(h) = Len(m.histories) + 1
        /\ h[Len(m.histories) + 1] = last
        /\ \A i \in 1..Len(m.histories) : h[i] = m.histories[i]
    BY <1>1, <2>1
  <2>4. ASSUME NEW a \in Assignments, Tracks(m, a) PROVE \E i \in 1..Len(h) : h[i] = a
    <3>1. CASE m.term = a.term /\ m.node = a.node
      <4>1. a = last
        BY <3>1 DEF Assignments
      <4> QED
        BY <4>1, <2>3, <1>1
    <3>2. CASE \E i \in 1..Len(m.histories) : m.histories[i] = a
      BY <3>2, <2>3, <1>1
    <3> QED
      BY <2>4, <3>1, <3>2 DEF Tracks
  <2> HIDE DEF h
  <2>5. t.histories = h /\ t \in Metas
    <3>1. \A i \in 1..Len(h) : h[i].term < m.term + 1
      <4> SUFFICES ASSUME NEW i \in 1..Len(h) PROVE h[i].term < m.term + 1
        OBVIOUS
      <4>1. CASE i = Len(m.histories) + 1
        BY <1>1, <2>3, <4>1 DEF h
      <4>2. CASE i \in 1..Len(m.histories)
        BY <1>0, <2>3, <4>2 DEF h
      <4> QED
        BY <1>1, <2>3, <4>1, <4>2 DEF h
    <3>2. t.histories = h /\ t.term = m.term + 1 /\ t.state = "assigning" /\ t.node = n
      BY <2>2 DEF h
    <3>3. t \in [term : Nat, node : Nodes \cup {NoNode}, histories : Seq(Assignments),
                 state : {"uninitialized", "assigning", "assigned", "unavailable"}]
      BY <1>1, <2>2, <2>3 DEF h
    <3> QED
      BY <3>1, <3>2, <3>3 DEF Metas
  <2>6. t.term = m.term + 1 /\ t.state = "assigning" /\ t.node = n
    BY <2>2
  <2>7. \A a \in Assignments : Tracks(m, a) => Tracks(t, a)
    BY <2>4, <2>5, <2>6 DEF Tracks
  <2> QED
    BY <2>5, <2>6, <2>7
<1> QED
  BY <1>2, <1>3

(* What is over stays over: sessions do not come back, and SetExpectedState *)
(* never goes back.                                                         *)
LEMMA OverStays ==
  ASSUME TypesOK, [Next]_vars, NEW a \in Assignments, Over(a)
  PROVE  Over(a)'
<1> DEFINE n == a.node
<1>1. n \in Nodes /\ a.term \in Nat /\ expected[n] \in States
  BY DEF TypesOK, Assignments
<1>2. CASE UNCHANGED <<node, expected>>
  BY <1>2 DEF Over, Gone
<1>3. ASSUME NEW k \in Nodes, Start(k) \/ Die(k) \/ Expire(k) PROVE Over(a)'
  <2>1. expected' = expected /\ (Gone(n) => Gone(n)')
    BY <1>1, <1>3 DEF Start, Die, Expire, Gone, TypesOK, lifetimeVars
  <2> QED
    BY <2>1 DEF Over
<1>4. ASSUME NEW m \in inbox, Receive(m) PROVE Over(a)'
  <2>1. node' = node /\ m.node \in Nodes /\ m.state \in States
    BY <1>4 DEF Receive, TypesOK
  <2>2. CASE m.node = n /\ isStateBefore(expected[n], m.state)
    <3>1. expected'[n] = m.state
      BY <1>1, <1>4, <2>1, <2>2 DEF Receive, TypesOK
    <3> QED
      BY <1>1, <2>1, <2>2, <3>1 DEF Over, Gone, isStateBefore, States
  <2>3. CASE ~(m.node = n /\ isStateBefore(expected[n], m.state))
    <3>1. expected'[n] = expected[n]
      BY <1>1, <1>4, <2>1, <2>3 DEF Receive, TypesOK
    <3> QED
      BY <2>1, <3>1 DEF Over, Gone
  <2> QED
    BY <2>2, <2>3
<1>5. CASE SendCall \/ NoConnection \/ Disconnect \/ Answer \/ AssignDone
  BY Zenon, <1>2, <1>5 DEF SendCall, NoConnection, Disconnect, Answer, AssignDone, lifetimeVars
<1>6. CASE (\E term \in 1..meta.term : ReportError(term)) \/ Crash \/ RecoverChannelManager \/ Discover
  BY <1>2, <1>6 DEF ReportError, Crash, RecoverChannelManager, Discover, lifetimeVars
<1>7. ASSUME NEW k \in Nodes, Balance(k) \/ TaskWake(k) \/ CloseOld(k) \/ Reach(k) PROVE Over(a)'
  BY Zenon, <1>2, <1>7 DEF Balance, TaskWake, CloseOld, Reach, lifetimeVars
<1>8. CASE UNCHANGED vars
  BY <1>2, <1>8 DEF vars, lifetimeVars
<1> QED
  BY <1>3, <1>4, <1>5, <1>6, <1>7, <1>8 DEF Next

(* Steps that change neither the records, the round nor the nodes.          *)
LEMMA QuietStep ==
  ASSUME IInv, UNCHANGED <<metaVars, coord, step, call, inbox, node, view, expected, sent>>
  PROVE  IInv'
<1>1. /\ UNCHANGED <<meta, catalog, coord, step, call, inbox, node, view, expected, sent>>
      /\ TypesOK /\ OnRecord /\ Known /\ TermsBelow(meta) /\ TermsBelow(catalog)
      /\ Applying /\ RemoveTaken /\ AssignSent /\ OneLeft /\ ViewTrue /\ TermOfOneNode
  BY Zenon DEF IInv, metaVars
<1>2. TypesOK' /\ Known' /\ TermsBelow(meta)' /\ TermsBelow(catalog)' /\ TermOfOneNode'
  BY Zenon, <1>1 DEF TypesOK, Known, TermsBelow, TermOfOneNode
<1>3. OnRecord' /\ OneLeft' /\ ViewTrue'
  BY Zenon, <1>1 DEF OnRecord, OneLeft, ViewTrue, Over, Gone, Tracks
<1>4. Applying'
  BY Zenon, <1>1 DEF Applying, Over, Gone
<1>5. RemoveTaken'
  BY Zenon, <1>1 DEF RemoveTaken, Removing, Over, Gone
<1>6. AssignSent'
  BY Zenon, <1>1 DEF AssignSent, Removing, Calling
<1> QED
  BY Zenon, <1>2, <1>3, <1>4, <1>5, <1>6 DEF IInv

(* The parts that depend on the records and the nodes alone, for a step     *)
(* that sends no assignment.                                                *)
LEMMA NothingSent ==
  ASSUME IInv, [Next]_vars, TypesOK', UNCHANGED sent
  PROVE  /\ OneLeft' /\ TermOfOneNode'
         /\ \A a \in sent : Over(a) => Over(a)'
<1>1. \A a \in sent : Over(a) => Over(a)'
  BY OverStays DEF IInv, TypesOK
<1>2. OneLeft'
  BY <1>1 DEF IInv, OneLeft
<1> QED
  BY <1>1, <1>2 DEF IInv, TermOfOneNode

(* Saving a record that tracks what memory tracks, and starting a round or  *)
(* not, keeps the invariant.                                                *)
LEMMA BalanceIInv ==
  ASSUME IInv, NEW n \in Nodes, Balance(n)
  PROVE  IInv'
<1> DEFINE m == TryAssignToServerID(meta, n)
<1>1. /\ meta \in Metas /\ catalog \in Metas /\ meta.term \in Nat
      /\ m \in Metas /\ m.term = meta.term + 1 /\ m.state = "assigning"
      /\ \A a \in Assignments : Tracks(meta, a) => Tracks(m, a)
  BY SMTT(20), TryAssignTracks DEF IInv, TypesOK, Metas
<1> HIDE DEF m
<1>2. /\ UNCHANGED <<call, inbox, node, view, expected, sent>> /\ step' = 1
      /\ coord = "idle" /\ call = "none"
      /\ \/ catalog' = m /\ meta' = m /\ coord' = "applying"
         \/ catalog' \in {catalog, m} /\ meta' = meta /\ coord' = coord
  BY DEF Balance, Save, SaveFails, lifetimeVars, IInv, RemoveTaken, m
<1>3. TypesOK'
  BY <1>1, <1>2 DEF IInv, TypesOK
<1>4. Next
  BY DEF Next
<1>5. OneLeft' /\ TermOfOneNode' /\ \A a \in sent : Over(a) => Over(a)'
  BY <1>2, <1>3, <1>4, NothingSent
<1>6. OnRecord'
  <2>1. \A a \in sent : Over(a) \/ (Tracks(meta, a) /\ Tracks(catalog, a) /\ Tracks(m, a))
    BY <1>1 DEF IInv, OnRecord, TypesOK
  <2> QED
    BY <1>2, <1>5, <2>1 DEF OnRecord
<1>7. TermsBelow(meta)' /\ TermsBelow(catalog)'
  <2>1. \A a \in sent : a.term \in Nat /\ a.term <= meta.term
    BY DEF IInv, TypesOK, TermsBelow, Assignments
  <2>2. TermsBelow(m)
    BY <1>1, <2>1 DEF TermsBelow
  <2> QED
    BY <1>2, <2>2 DEF IInv, TermsBelow
<1>8. Applying'
  BY <1>1, <1>2, <1>3 DEF Applying, TypesOK
<1>9. RemoveTaken' /\ AssignSent' /\ Known' /\ ViewTrue'
  BY <1>2 DEF RemoveTaken, AssignSent, Known, ViewTrue, Gone, IInv
<1> QED
  BY <1>3, <1>5, <1>6, <1>7, <1>8, <1>9 DEF IInv

(* The request of a round is well formed.                                   *)
LEMMA TargetType ==
  ASSUME meta \in Metas, meta.state = "assigning", step \in Nat \ {0}, Calling
  PROVE  /\ Target \in [node : Nodes, state : States]
         /\ Removing => ~Target.state.available /\ meta.histories[step] \in Assignments
<1>1. meta.histories \in Seq(Assignments) /\ meta.node \in Nodes /\ meta.term \in Nat
  BY DEF Metas
<1>2. CASE Removing
  <2>1. step \in 1..Len(meta.histories)
    BY <1>1, <1>2 DEF Removing
  <2>2. PICK h \in Assignments : h = meta.histories[step]
    BY <1>1, <2>1
  <2>3. Target = [node |-> h.node, state |-> [term |-> h.term, available |-> FALSE]]
    BY <1>2, <2>2 DEF Target, State
  <2> QED
    BY Zenon, <2>2, <2>3 DEF States, Assignments
<1>3. CASE ~Removing
  BY <1>1, <1>3 DEF Target, State, States
<1> QED
  BY <1>2, <1>3

(* When Assign is sent, everything in the histories is over.                *)
LEMMA SendCallIInv ==
  ASSUME IInv, SendCall
  PROVE  IInv'
<1> DEFINE new == [term |-> meta.term, node |-> meta.node]
<1>1. /\ coord = "applying" /\ call = "none" /\ call' = "sent" /\ step <= Len(meta.histories) + 1
      /\ inbox' = inbox \cup {Target}
      /\ UNCHANGED <<meta, catalog, coord, step, node, view, expected>>
  BY DEF SendCall, Calling, metaVars, lifetimeVars
<1>2. /\ meta \in Metas /\ catalog = meta /\ meta.state = "assigning" /\ meta.node \in Nodes
      /\ meta.term \in Nat /\ meta.histories \in Seq(Assignments)
  BY <1>1 DEF IInv, TypesOK, Applying, Metas
<1>3. new \in Assignments
  BY <1>2 DEF Assignments
<1>4. CASE Removing
  <2>1. sent' = sent /\ step \in 1..Len(meta.histories)
    BY SMTT(20), <1>4, <1>2 DEF SendCall, Removing, IInv, TypesOK
  <2>2. Target \in [node : Nodes, state : States] /\ ~Target.state.available
    BY <1>2, <1>4, TargetType DEF SendCall, IInv, TypesOK
  <2>3. TypesOK' /\ Known'
    BY <1>1, <2>1, <2>2 DEF IInv, TypesOK, Known
  <2>4. RemoveTaken' /\ AssignSent'
    BY <1>1, <1>4 DEF RemoveTaken, AssignSent, Removing
  <2>5. OnRecord' /\ TermsBelow(meta)' /\ TermsBelow(catalog)' /\ TermOfOneNode'
    BY Zenon, <1>1, <2>1 DEF IInv, OnRecord, TermsBelow, TermOfOneNode, Over, Gone
  <2>6. Applying' /\ OneLeft' /\ ViewTrue'
    BY Zenon, <1>1, <2>1 DEF IInv, Applying, OneLeft, ViewTrue, Over, Gone
  <2> QED
    BY Zenon, <2>3, <2>4, <2>5, <2>6 DEF IInv
<1>5. CASE ~Removing
  <2>1. sent' = sent \cup {new} /\ Target = [node |-> meta.node, state |-> State(meta.term, TRUE)]
    BY <1>5 DEF SendCall, Target
  <2>2. Target \in [node : Nodes, state : States]
    BY <1>2, <2>1 DEF State, States
  <2>3. TypesOK'
    BY Zenon, <1>1, <1>3, <2>1, <2>2 DEF IInv, TypesOK
  <2>4. Known'
    BY SMTT(20), <1>1, <2>1 DEF IInv, Known, State
  <2>5. Tracks(meta, new)
    BY <1>2 DEF Tracks
  <2>6. OnRecord'
    BY SMTT(20), <1>1, <1>2, <2>1, <2>5 DEF IInv, OnRecord, Tracks, Over, Gone
  <2>7. \A a \in sent : ~Over(a) => a = new
    <3> SUFFICES ASSUME NEW a \in sent, ~Over(a) PROVE a = new
      OBVIOUS
    <3>1. a \in Assignments /\ Tracks(meta, a)
      BY DEF IInv, OnRecord, TypesOK
    <3>2. ~\E i \in 1..Len(meta.histories) : meta.histories[i] = a
      BY <1>1, <1>2, <1>5 DEF IInv, Applying, Removing, TypesOK
    <3> QED
      BY <3>1, <3>2 DEF Tracks, Assignments
  <2>8. OneLeft'
    BY Zenon, <1>1, <2>1, <2>7 DEF OneLeft, Over, Gone
  <2>9. TermsBelow(meta)' /\ TermsBelow(catalog)' /\ TermOfOneNode'
    <3>1. \A a \in sent' : a.term <= meta.term /\ (a.term = meta.term => a.node = meta.node)
      BY <1>2, <2>1 DEF IInv, TermsBelow
    <3> QED
      BY <1>1, <1>2, <2>1, <3>1 DEF IInv, TermsBelow, TermOfOneNode
  <2>10. Applying'
    <3> SUFFICES ASSUME NEW i \in 1..Len(meta.histories), i < step, meta.histories[i] \in sent'
                 PROVE  Over(meta.histories[i])
      BY Zenon, <1>1, <1>2 DEF Applying, Over, Gone
    <3>1. meta.histories[i] # new
      BY <1>2 DEF Metas
    <3> QED
      BY Zenon, <1>1, <2>1, <3>1 DEF IInv, Applying
  <2>11. RemoveTaken' /\ AssignSent' /\ ViewTrue'
    BY SMTT(20), <1>1, <2>1 DEF RemoveTaken, AssignSent, ViewTrue, IInv, Gone, SendCall, Target
  <2> QED
    BY <2>3, <2>4, <2>6, <2>8, <2>9, <2>10, <2>11 DEF IInv
<1> QED
  BY <1>4, <1>5

(* A call that concludes: a Remove that succeeds has ended its assignment.  *)
LEMMA ConcludeIInv ==
  ASSUME IInv, Calling, UNCHANGED <<metaVars, inbox, node, view, expected, sent>>,
         \/ GiveUpRound
         \/ /\ NextCall
            /\ Removing /\ meta.histories[step] \in sent => Over(meta.histories[step])
  PROVE  IInv'
<1>1. /\ coord = "applying" /\ step \in Nat \ {0} /\ meta.histories \in Seq(Assignments)
      /\ call' = "none" /\ UNCHANGED <<meta, catalog>>
      /\ step' \in {1, step + 1} /\ coord' \in {"idle", coord}
      /\ coord' = coord => step' = step + 1
  BY Zenon DEF Calling, IInv, TypesOK, Metas, GiveUpRound, NextCall, metaVars
<1>2. TypesOK'
  BY <1>1 DEF IInv, TypesOK
<1>3. Applying'
  <2> SUFFICES ASSUME coord' = "applying", NEW i \in 1..Len(meta.histories), i < step',
                      meta.histories[i] \in sent
               PROVE  Over(meta.histories[i])
    BY Zenon, <1>1 DEF IInv, Applying, Over, Gone
  <2>1. NextCall /\ step' = step + 1
    BY <1>1 DEF GiveUpRound, NextCall
  <2>2. i < step \/ i = step
    BY SMTT(20), <1>1, <2>1
  <2>3. CASE i < step
    BY <1>1, <2>3 DEF IInv, Applying
  <2>4. CASE i = step
    BY <1>1, <2>1, <2>4 DEF Removing, GiveUpRound, NextCall
  <2> QED
    BY <2>2, <2>3, <2>4
<1>4. RemoveTaken' /\ AssignSent'
  BY <1>1 DEF RemoveTaken, AssignSent
<1> QED
  BY Zenon, <1>1, <1>2, <1>3, <1>4
  DEF IInv, OnRecord, Known, TermsBelow, OneLeft, ViewTrue, TermOfOneNode, Over, Gone

(* The ways a call may end, or be sent again.                               *)
LEMMA CallIInv ==
  ASSUME IInv, NoConnection \/ Disconnect \/ Answer
  PROVE  IInv'
<1>1. CASE NoConnection
  <2>1. Removing => (meta.histories[step] \in sent => Over(meta.histories[step]))
    BY Zenon, <1>1 DEF NoConnection, Target, IInv, ViewTrue, Over
  <2>2. NextCall \/ GiveUpRound
    BY Zenon, <1>1 DEF NoConnection, Conclude
  <2> QED
    BY Zenon, <1>1, <2>1, <2>2, ConcludeIInv DEF NoConnection, lifetimeVars
<1>2. CASE Answer
  <2>1. call \in {"accepted", "ignored"}
    BY <1>2 DEF Answer
  <2>2. Removing => Over(meta.histories[step])
    BY <2>1 DEF IInv, RemoveTaken
  <2>3. NextCall \/ GiveUpRound
    BY Zenon, <1>2 DEF Answer, Conclude
  <2> QED
    BY <1>2, <2>2, <2>3, ConcludeIInv DEF Answer, lifetimeVars
<1>3. CASE Disconnect /\ GiveUpRound
  <2>1. UNCHANGED <<metaVars, node, view, expected, sent>> /\ Calling /\ inbox' \in {inbox, inbox \cup {Target}}
    BY <1>3 DEF Disconnect, lifetimeVars
  <2>2. inbox' = inbox
    BY <1>3 DEF Disconnect, GiveUpRound
  <2> QED
    BY <1>3, <2>1, <2>2, ConcludeIInv
<1>4. CASE Disconnect /\ ~GiveUpRound
  <2>1. /\ Calling /\ coord = "applying" /\ call' = "sent" /\ call # "none"
        /\ inbox' = inbox \cup {Target}
        /\ UNCHANGED <<meta, catalog, coord, step, node, view, expected, sent>>
    BY <1>4 DEF Disconnect, Calling, metaVars, lifetimeVars
  <2>2. meta \in Metas /\ meta.state = "assigning" /\ step \in Nat \ {0}
    BY <2>1 DEF IInv, TypesOK, Applying
  <2>3. Target \in [node : Nodes, state : States]
    BY <2>1, <2>2, TargetType
  <2>4. Target.state.available => [term |-> Target.state.term, node |-> Target.node] \in sent
    BY Zenon, <2>1 DEF IInv, AssignSent, Target, State
  <2>5. TypesOK' /\ Known'
    BY Zenon, <2>1, <2>3, <2>4 DEF IInv, TypesOK, Known
  <2>6. RemoveTaken' /\ AssignSent'
    BY Zenon, <2>1 DEF IInv, RemoveTaken, AssignSent, Calling, Removing
  <2> QED
    BY ZenonT(30), <2>1, <2>5, <2>6
    DEF IInv, OnRecord, TermsBelow, Applying, OneLeft, ViewTrue, TermOfOneNode, Over, Gone
<1> QED
  BY <1>1, <1>2, <1>3, <1>4

(* AssignToServerDone changes neither the term nor the node.                *)
LEMMA DoneFields ==
  ASSUME NEW m \in Metas, m.state = "assigning"
  PROVE  LET d == AssignToServerDone(m)
         IN d.term = m.term /\ d.node = m.node /\ d.state = "assigned" /\ d.histories = << >> /\ d \in Metas
<1> DEFINE All == [term : Nat, node : Nodes \cup {NoNode}, histories : Seq(Assignments),
                   state : {"uninitialized", "assigning", "assigned", "unavailable"}]
           d == AssignToServerDone(m)
<1>1. m \in All /\ m.node \in Nodes
  BY DEF Metas
<1>2. d = [m EXCEPT !.state = "assigned", !.histories = << >>]
  BY DEF AssignToServerDone
<1> HIDE DEF d
<1>3. d.term = m.term /\ d.node = m.node /\ d.state = "assigned" /\ d.histories = << >>
  BY <1>1, <1>2
<1>5. << >> \in Seq(Assignments)
  OBVIOUS
<1>6. d \in All
  BY Zenon, <1>1, <1>2, <1>5
<1>4. d \in Metas
  BY <1>1, <1>3, <1>6 DEF Metas
<1> QED
  BY <1>3, <1>4 DEF d

(* The same of MarkAsUnavailable, which keeps the histories too.            *)
LEMMA MarkFields ==
  ASSUME NEW m \in Metas, NEW t
  PROVE  LET d == MarkAsUnavailable(m, t)
         IN /\ d.term = m.term /\ d.node = m.node /\ d.histories = m.histories /\ d \in Metas
            /\ (d.state = "uninitialized") = (m.state = "uninitialized")
<1> DEFINE All == [term : Nat, node : Nodes \cup {NoNode}, histories : Seq(Assignments),
                   state : {"uninitialized", "assigning", "assigned", "unavailable"}]
           d == MarkAsUnavailable(m, t)
<1>1. CASE m.state = "assigned" /\ m.term = t
  <2>1. m \in All /\ m.node \in Nodes /\ \A i \in 1..Len(m.histories) : m.histories[i].term < m.term
    BY <1>1 DEF Metas
  <2>2. d = [m EXCEPT !.state = "unavailable"]
    BY <1>1 DEF MarkAsUnavailable
  <2>3. d \in All /\ d.term = m.term /\ d.node = m.node /\ d.state = "unavailable" /\ d.histories = m.histories
    BY <2>1, <2>2
  <2>4. d \in Metas
    BY <2>1, <2>3 DEF Metas
  <2> QED
    BY <1>1, <2>3, <2>4
<1>2. CASE ~(m.state = "assigned" /\ m.term = t)
  BY <1>2 DEF MarkAsUnavailable
<1> QED
  BY <1>1, <1>2

(* AssignPChannelsDone forgets histories, all of which are over.            *)
LEMMA AssignDoneIInv ==
  ASSUME IInv, AssignDone
  PROVE  IInv'
<1> DEFINE m == AssignToServerDone(meta)
<1>1. /\ coord = "applying" /\ step > Len(meta.histories) + 1
      /\ meta \in Metas /\ catalog = meta /\ meta.state = "assigning"
      /\ meta.histories \in Seq(Assignments)
  <2>1. step \in Nat /\ meta.histories \in Seq(Assignments)
    BY DEF IInv, TypesOK, Metas
  <2> QED
    BY SMTT(20), <2>1 DEF AssignDone, Calling, IInv, Applying, TypesOK
<1>2. m.term = meta.term /\ m.node = meta.node /\ m.state = "assigned" /\ m.histories = << >> /\ m \in Metas
  BY <1>1, DoneFields
<1> HIDE DEF m
<1>3. /\ UNCHANGED <<inbox, node, view, expected, sent>> /\ step' = 1 /\ coord' = "idle" /\ call' = "none"
      /\ catalog' \in {meta, m} /\ meta' \in {meta, m}
  BY <1>1 DEF AssignDone, GiveUpRound, Save, SaveFails, lifetimeVars, m
<1>4. TypesOK'
  BY <1>1, <1>2, <1>3 DEF IInv, TypesOK
<1>5. \A a \in sent : ~Over(a) => Tracks(meta, a) /\ Tracks(m, a)
  <2> SUFFICES ASSUME NEW a \in sent, ~Over(a) PROVE Tracks(meta, a) /\ Tracks(m, a)
    OBVIOUS
  <2>1. Tracks(meta, a)
    BY DEF IInv, OnRecord
  <2>2. ~\E i \in 1..Len(meta.histories) : meta.histories[i] = a
    BY <1>1 DEF IInv, Applying, TypesOK
  <2> QED
    BY <1>2, <2>1, <2>2 DEF Tracks
<1>6. OnRecord'
  BY Zenon, <1>3, <1>5 DEF OnRecord, Over, Gone
<1>7. TermsBelow(meta)' /\ TermsBelow(catalog)'
  BY <1>2, <1>3 DEF IInv, TermsBelow
<1>8. Applying' /\ RemoveTaken' /\ AssignSent'
  BY <1>3 DEF Applying, RemoveTaken, AssignSent
<1> QED
  BY Zenon, <1>3, <1>4, <1>6, <1>7, <1>8
     DEF IInv, Known, OneLeft, ViewTrue, TermOfOneNode, Over, Gone

(* A report of a client, a crash and a restart of the coordinator, and what *)
(* its resolver learns.                                                     *)
LEMMA CoordinatorIInv ==
  ASSUME IInv,
         (\E term \in 1..meta.term : ReportError(term)) \/ Crash \/ RecoverChannelManager \/ Discover
  PROVE  IInv'
<1>1. CASE \E term \in 1..meta.term : ReportError(term)
  <2>1. PICK term \in 1..meta.term : ReportError(term)
    BY <1>1
  <2> DEFINE m == MarkAsUnavailable(meta, term)
  <2>2. /\ m.term = meta.term /\ m.node = meta.node /\ m.histories = meta.histories /\ m \in Metas
        /\ (m.state = "uninitialized") = (meta.state = "uninitialized")
    BY MarkFields DEF IInv, TypesOK
  <2> HIDE DEF m
  <2>3. /\ UNCHANGED <<coord, step, call, inbox, node, view, expected, sent>> /\ coord = "idle"
        /\ catalog' \in {catalog, m} /\ meta' \in {meta, m}
    BY <2>1 DEF ReportError, Save, SaveFails, applyVars, lifetimeVars, m
  <2>4. TypesOK'
    BY <2>2, <2>3 DEF IInv, TypesOK
  <2>5. \A a : Tracks(meta, a) => Tracks(m, a)
    BY <2>2 DEF Tracks
  <2>6. OnRecord'
    BY Zenon, <2>3, <2>5 DEF IInv, OnRecord, Over, Gone
  <2>7. TermsBelow(meta)' /\ TermsBelow(catalog)'
    BY <2>2, <2>3 DEF IInv, TermsBelow
  <2>8. Applying' /\ RemoveTaken' /\ AssignSent'
    BY Zenon, <2>3 DEF IInv, Applying, RemoveTaken, AssignSent, Calling
  <2> QED
    BY Zenon, <2>3, <2>4, <2>6, <2>7, <2>8
       DEF IInv, Known, OneLeft, ViewTrue, TermOfOneNode, Over, Gone
<1>2. CASE Crash \/ RecoverChannelManager
  <2>1. /\ UNCHANGED <<catalog, inbox, node, expected, sent>> /\ meta' \in {meta, catalog}
        /\ coord' \in {"down", "idle"} /\ call' = "none" /\ step' \in {1, step}
        /\ view' \in {view, {n \in Nodes : Registered(n)}}
    BY Zenon, <1>2 DEF Crash, RecoverChannelManager, lifetimeVars, metaVars, IInv, RemoveTaken
  <2>2. TypesOK'
    BY <2>1 DEF IInv, TypesOK
  <2>3. ViewTrue'
    BY <2>1 DEF IInv, ViewTrue, Gone, Registered, TypesOK, NodeStates, Assignments
  <2>4. OnRecord' /\ TermsBelow(meta)' /\ TermsBelow(catalog)'
    BY Zenon, <2>1 DEF IInv, OnRecord, TermsBelow, Over, Gone
  <2>5. Applying' /\ RemoveTaken' /\ AssignSent'
    BY Zenon, <2>1 DEF Applying, RemoveTaken, AssignSent
  <2> QED
    BY Zenon, <2>1, <2>2, <2>3, <2>4, <2>5 DEF IInv, Known, OneLeft, TermOfOneNode, Over, Gone
<1>3. CASE Discover
  <2>1. /\ UNCHANGED <<meta, catalog, coord, step, call, inbox, node, expected, sent>>
        /\ view' = {n \in Nodes : Registered(n)}
    BY <1>3 DEF Discover, lifetimeVars, metaVars, applyVars
  <2>2. TypesOK'
    BY <2>1 DEF IInv, TypesOK
  <2>3. ViewTrue'
    BY <2>1 DEF IInv, ViewTrue, Gone, Registered, TypesOK, NodeStates, Assignments
  <2> QED
    BY ZenonT(30), <2>1, <2>2, <2>3
       DEF IInv, OnRecord, Known, TermsBelow, Applying, RemoveTaken, AssignSent,
       OneLeft, TermOfOneNode, Removing, Calling, Over, Gone
<1> QED
  BY <1>1, <1>2, <1>3

(* Nodes come and go.                                                       *)
LEMMA SessionIInv ==
  ASSUME IInv, NEW n \in Nodes, Start(n) \/ Die(n) \/ Expire(n)
  PROVE  IInv'
<1>1. /\ UNCHANGED <<meta, catalog, coord, step, call, view, expected, sent>>
      /\ inbox' \subseteq inbox
      /\ \E s \in NodeStates : node' = [node EXCEPT ![n] = s] /\ s # "new"
      /\ \A k \in Nodes : Gone(k) => Gone(k)'
  BY Zenon
     DEF Start, Die, Expire, metaVars, applyVars, lifetimeVars, NodeStates, Gone, IInv, TypesOK
<1>2. TypesOK'
  BY <1>1 DEF IInv, TypesOK
<1>3. Next
  BY DEF Next
<1>4. OneLeft' /\ TermOfOneNode'
  BY <1>1, <1>2, <1>3, NothingSent
<1>5. \A a \in Assignments : Over(a) => Over(a)'
  BY <1>3, OverStays DEF IInv
<1>6. OnRecord' /\ ViewTrue'
  BY Zenon, <1>1, <1>5 DEF IInv, OnRecord, ViewTrue, TypesOK, Assignments
<1>7. Known' /\ TermsBelow(meta)' /\ TermsBelow(catalog)' /\ AssignSent'
  BY Zenon, <1>1 DEF IInv, Known, TermsBelow, AssignSent, Calling, Removing
<1>8. \A i \in 1..Len(meta.histories) : meta.histories[i] \in Assignments
  <2>1. meta.histories \in Seq(Assignments)
    BY Zenon DEF IInv, TypesOK, Metas
  <2> QED
    BY <2>1
<1>9. Applying'
  BY Zenon, <1>1, <1>5, <1>8 DEF IInv, Applying
<1>10. RemoveTaken'
  <2>1. Removing => step \in 1..Len(meta.histories)
    <3>1. meta.histories \in Seq(Assignments) /\ step \in Nat \ {0}
      BY Zenon DEF IInv, TypesOK, Metas
    <3> QED
      BY <3>1 DEF Removing
  <2> QED
    BY Zenon, <1>1, <1>5, <1>8, <2>1 DEF IInv, RemoveTaken, Removing
<1> QED
  BY <1>2, <1>4, <1>6, <1>7, <1>9, <1>10 DEF IInv

(* SetExpectedState: a Remove that is taken, or ignored, finds the          *)
(* assignment over.                                                         *)
LEMMA ReceiveIInv ==
  ASSUME IInv, NEW m \in inbox, Receive(m)
  PROVE  IInv'
<1> DEFINE taken == isStateBefore(expected[m.node], m.state)
<1>1. /\ UNCHANGED <<meta, catalog, coord, step, node, view, sent>>
      /\ inbox' \subseteq inbox
      /\ expected' = IF taken THEN [expected EXCEPT ![m.node] = m.state] ELSE expected
      /\ call' = IF Calling /\ call = "sent" /\ m = Target
                 THEN (IF taken THEN "accepted" ELSE "ignored") ELSE call
  BY Zenon DEF Receive, metaVars
<1>2. m.node \in Nodes /\ m.state \in States /\ expected[m.node] \in States
  BY DEF IInv, TypesOK
<1>3. TypesOK'
  BY <1>1, <1>2 DEF IInv, TypesOK
<1>4. Next
  BY DEF Next
<1>5. OneLeft' /\ TermOfOneNode'
  BY <1>1, <1>3, <1>4, NothingSent
<1>6. \A a \in Assignments : Over(a) => Over(a)'
  BY <1>4, OverStays DEF IInv
<1>7. OnRecord' /\ ViewTrue'
  BY Zenon, <1>1, <1>6 DEF IInv, OnRecord, ViewTrue, TypesOK, Gone
<1>8. TermsBelow(meta)' /\ TermsBelow(catalog)'
  BY Zenon, <1>1 DEF IInv, TermsBelow
<1>9. Known'
  BY <1>1, <1>2 DEF IInv, Known, TypesOK
<1>10. AssignSent'
  BY <1>1 DEF IInv, AssignSent, Calling, Removing
<1>11. \A i \in 1..Len(meta.histories) : meta.histories[i] \in Assignments
  <2>1. meta.histories \in Seq(Assignments)
    BY Zenon DEF IInv, TypesOK, Metas
  <2> QED
    BY <2>1
<1>12. Applying'
  BY <1>1, <1>6, <1>11 DEF IInv, Applying
<1>13. Removing => step \in 1..Len(meta.histories)
  <2>1. meta.histories \in Seq(Assignments) /\ step \in Nat \ {0}
    BY Zenon DEF IInv, TypesOK, Metas
  <2> QED
    BY <2>1 DEF Removing
<1>14. coord' # "applying" => call' = "none"
  BY Zenon, <1>1 DEF IInv, RemoveTaken, Calling
<1>15. ASSUME call' \in {"accepted", "ignored"}, Removing PROVE Over(meta.histories[step])'
  <2>1. PICK h \in Assignments : h = meta.histories[step]
    BY <1>11, <1>13, <1>15
  <2>2. CASE call' = call
    BY <1>1, <1>6, <1>15, <2>1, <2>2 DEF IInv, RemoveTaken
  <2>3. CASE m = Target
    <3>1. m.node = h.node /\ m.state = [term |-> h.term, available |-> FALSE]
      BY <1>15, <2>1, <2>3 DEF Target, State
    <3>2. CASE taken
      <4>1. expected'[h.node] = m.state
        BY <1>1, <1>2, <3>1, <3>2 DEF IInv, TypesOK
      <4>2. Over(h)'
        BY SMTT(20), <3>1, <4>1 DEF Over
      <4> QED
        BY <1>1, <2>1, <4>2
    <3>3. CASE ~taken
      <4>1. Over(h)
        BY <1>2, <3>1, <3>3 DEF Over, isStateBefore, States, Assignments
      <4> QED
        BY <1>1, <1>6, <2>1, <4>1
    <3> QED
      BY <3>2, <3>3
  <2> QED
    BY <1>1, <2>2, <2>3
<1>16. RemoveTaken'
  BY <1>1, <1>14, <1>15 DEF RemoveTaken, Removing
<1> QED
  BY <1>3, <1>5, <1>7, <1>8, <1>9, <1>10, <1>12, <1>16 DEF IInv

(* Every step of the coordinator, of the network and of the nodes keeps the *)
(* invariant.                                                               *)
LEMMA NextIInv == IInv /\ [Next]_vars => IInv'
<1> SUFFICES ASSUME IInv, [Next]_vars PROVE IInv'
  OBVIOUS
<1>1. ASSUME NEW n \in Nodes, TaskWake(n) \/ CloseOld(n) \/ Reach(n) PROVE IInv'
  BY Zenon, <1>1, QuietStep DEF TaskWake, CloseOld, Reach, applyVars
<1>2. CASE UNCHANGED vars
  BY <1>2, QuietStep DEF vars, applyVars, lifetimeVars
<1> QED
  BY <1>1, <1>2, BalanceIInv, SendCallIInv, CallIInv, AssignDoneIInv, CoordinatorIInv,
     SessionIInv, ReceiveIInv DEF Next

(* Two nodes that live and keep the channel were both sent it, and neither  *)
(* assignment is over, so they are one.                                     *)
LEMMA IInvOneKeeper == IInv => OneKeeper
<1> SUFFICES ASSUME IInv, NEW m \in Nodes, NEW n \in Nodes,
                    node[m] = "up", expected[m].available, node[n] = "up", expected[n].available
             PROVE  m = n
  BY DEF OneKeeper
<1> DEFINE a == [term |-> expected[m].term, node |-> m]
           b == [term |-> expected[n].term, node |-> n]
<1>1. a \in sent /\ b \in sent
  BY Zenon DEF IInv, Known
<1>2. expected[m].term \in Nat /\ expected[n].term \in Nat
  BY DEF IInv, TypesOK, States
<1>3. ~Over(a) /\ ~Over(b)
  <2>1. ~(expected[m].term > expected[m].term) /\ ~(expected[n].term > expected[n].term)
    BY <1>2
  <2>2. a.node = m /\ a.term = expected[m].term /\ b.node = n /\ b.term = expected[n].term
    OBVIOUS
  <2>3. ~Gone(m) /\ ~Gone(n)
    BY DEF Gone
  <2> QED
    BY Zenon, <2>1, <2>2, <2>3 DEF Over
<1>4. a = b
  BY Zenon, <1>1, <1>3 DEF IInv, OneLeft
<1> QED
  BY <1>4

(* For any nodes and any number of crashes, failed saves, lost, late and    *)
(* repeated calls, at most one node that lives and has its session keeps    *)
(* the channel.                                                             *)
THEOREM AssignmentOneKeeper == Spec => []OneKeeper
<1>1. Spec => []IInv
  BY InitIInv, NextIInv, PTL DEF Spec
<1> QED
  BY <1>1, IInvOneKeeper, PTL

(* A term of the channel is sent to one node only, however often the        *)
(* coordinator crashes and recovers.                                        *)
THEOREM AssignmentTermOfOneNode == Spec => []TermOfOneNode
<1>1. Spec => []IInv
  BY InitIInv, NextIInv, PTL DEF Spec
<1>2. IInv => TermOfOneNode
  BY DEF IInv
<1> QED
  BY <1>1, <1>2, PTL

------------------------------------------------------------------------------
(* What is shown to clients. *)

Currents == [term : Nat, available : BOOLEAN, err : BOOLEAN]

LifetimeTypes == current \in [Nodes -> Currents] /\ task \in [Nodes -> States]

AtOrBefore(s, t) == s = t \/ isStateBefore(s, t)

(* The task works on what is or was expected, and a WAL that is expected to *)
(* be open is open once its term is reached, unless opening it failed.      *)
Lifetimes ==
  \A n \in Nodes :
    /\ AtOrBefore(task[n], expected[n])
    /\ current[n].term <= expected[n].term
    /\ current[n].term = expected[n].term /\ expected[n].available /\ ~current[n].err
         => current[n].available

(* Nothing but earlier terms was ever removed.                              *)
RemovesPast ==
  /\ \A n \in Nodes : ~expected[n].available => expected[n].term < meta.term
  /\ \A m \in inbox : ~m.state.available => m.state.term < meta.term

Serves(n, term) ==
  /\ node[n] # "new"
  /\ node[n] = "up" => current[n] = Current(term, TRUE, FALSE)

Shown(m) == m.state = "assigned" => Serves(m.node, m.term)

(* All calls of the round were successful.                                  *)
Concluded == coord = "applying" /\ ~Calling => Serves(meta.node, meta.term)

TrueInv ==
  /\ LifetimeTypes /\ Lifetimes /\ RemovesPast /\ catalog.term >= meta.term
  /\ Shown(meta) /\ Shown(catalog) /\ Concluded

(* A current state and its fields.                                          *)
LEMMA CurrentFields ==
  /\ \A t \in Nat, a, e \in BOOLEAN :
       /\ Current(t, a, e) \in Currents
       /\ Current(t, a, e).term = t /\ Current(t, a, e).available = a /\ Current(t, a, e).err = e
  /\ \A c \in Currents : /\ c = Current(c.term, c.available, c.err) /\ c.term \in Nat
                         /\ c.available \in BOOLEAN /\ c.err \in BOOLEAN
<1>1. ASSUME NEW t \in Nat, NEW a \in BOOLEAN, NEW e \in BOOLEAN
      PROVE  /\ Current(t, a, e) \in Currents
             /\ Current(t, a, e).term = t /\ Current(t, a, e).available = a /\ Current(t, a, e).err = e
  BY Zenon DEF Current, Currents
<1>2. ASSUME NEW c \in Currents
      PROVE  /\ c = Current(c.term, c.available, c.err) /\ c.term \in Nat
             /\ c.available \in BOOLEAN /\ c.err \in BOOLEAN
  BY DEF Current, Currents
<1> QED
  BY Zenon, <1>1, <1>2

(* Which steps change a node or its lifetime.                               *)
LEMMA LifetimeSteps ==
  ASSUME [Next]_vars
  PROVE  \/ UNCHANGED <<node, expected, current, task>>
         \/ \E k \in Nodes : Start(k) \/ Die(k) \/ Expire(k)
         \/ \E k \in Nodes : TaskWake(k) \/ CloseOld(k) \/ Reach(k)
         \/ \E m \in inbox : Receive(m)
<1>1. CASE SendCall \/ NoConnection \/ Disconnect \/ Answer \/ AssignDone
  BY Zenon, <1>1 DEF SendCall, NoConnection, Disconnect, Answer, AssignDone, lifetimeVars
<1>2. CASE (\E term \in 1..meta.term : ReportError(term)) \/ Crash \/ RecoverChannelManager \/ Discover
  BY <1>2 DEF ReportError, Crash, RecoverChannelManager, Discover, lifetimeVars
<1>3. CASE \E n \in Nodes : Balance(n)
  BY <1>3 DEF Balance, lifetimeVars
<1>4. CASE UNCHANGED vars
  BY <1>4 DEF vars, lifetimeVars
<1> QED
  BY <1>1, <1>2, <1>3, <1>4 DEF Next

(* A node expects nothing beyond the record, and of the term on record it   *)
(* expects the WAL to be open.                                              *)
LEMMA ExpectedBound ==
  ASSUME IInv, TrueInv, NEW n \in Nodes, NEW m \in {meta, catalog}
  PROVE  /\ expected[n].term \in Nat /\ m.term \in Nat
         /\ expected[n].term <= m.term
         /\ expected[n].term = m.term => expected[n].available
<1>1. /\ expected[n] \in States /\ expected[n].term \in Nat
      /\ meta.term \in Nat /\ catalog.term \in Nat
  BY Zenon DEF IInv, TypesOK, States, Metas
<1>2. CASE expected[n].available
  <2> DEFINE a == [term |-> expected[n].term, node |-> n]
  <2>1. a \in sent
    BY Zenon, <1>2 DEF IInv, Known
  <2>2. a.term <= m.term
    BY Zenon, <2>1 DEF IInv, TermsBelow
  <2> QED
    BY Zenon, <1>1, <1>2, <2>2
<1>3. CASE ~expected[n].available
  <2>1. expected[n].term < meta.term /\ meta.term <= catalog.term
    BY <1>1, <1>3 DEF TrueInv, RemovesPast
  <2> QED
    BY <1>1, <2>1
<1> QED
  BY Zenon, <1>2, <1>3

(* A node that serves the term it expects goes on serving it: its task has  *)
(* nothing to do.                                                           *)
LEMMA ServesStays ==
  ASSUME IInv, TrueInv, [Next]_vars, NEW n \in Nodes, NEW t \in Nat, Serves(n, t),
         expected[n].term <= t, expected[n].term = t => expected[n].available
  PROVE  Serves(n, t)'
<1>0. /\ node \in [Nodes -> NodeStates] /\ current \in [Nodes -> Currents]
      /\ task[n] \in States /\ expected[n] \in States
  BY DEF IInv, TypesOK, TrueInv, LifetimeTypes
<1>1. CASE UNCHANGED <<node, current>>
  BY Zenon, <1>1 DEF Serves
<1>2. ASSUME NEW k \in Nodes, Start(k) \/ Die(k) \/ Expire(k) PROVE Serves(n, t)'
  <2>1. current' = current
    BY Zenon, <1>2 DEF Start, Die, Expire, lifetimeVars
  <2>2. node'[n] # "new" /\ (node'[n] = "up" => node[n] = "up")
    BY Zenon, <1>0, <1>2 DEF Start, Die, Expire, Serves
  <2> QED
    BY Zenon, <2>1, <2>2 DEF Serves
<1>3. ASSUME NEW k \in Nodes, CloseOld(k) \/ Reach(k) PROVE Serves(n, t)'
  <2>1. node' = node
    BY Zenon, <1>3 DEF CloseOld, Reach
  <2>2. CASE k # n
    <3>1. current'[n] = current[n]
      BY Zenon, <1>0, <1>3, <2>2 DEF CloseOld, Reach
    <3> QED
      BY Zenon, <2>1, <3>1 DEF Serves
  <2>3. CASE k = n /\ node[n] = "up"
    <3>1. current[n].term = t /\ current[n].available
      BY <2>3 DEF Serves, Current
    <3>2. AtOrBefore(task[n], expected[n]) /\ current[n].term <= expected[n].term
      BY Zenon DEF TrueInv, Lifetimes
    <3>a. expected[n].term \in Nat /\ task[n].term \in Nat
      BY Zenon, <1>0 DEF States
    <3>b. t <= expected[n].term
      BY Zenon, <3>1, <3>2
    <3>c. expected[n].term = t
      BY <3>a, <3>b
    <3>3. expected[n].term = t /\ expected[n].available
      BY Zenon, <3>c
    <3>4. ~isStateBefore(current[n], task[n])
      <4>1. \/ task[n].term = t /\ task[n].available
            \/ task[n].term < t
            \/ task[n].term = t /\ task[n].available /\ ~expected[n].available
        BY Zenon, <3>2, <3>3 DEF AtOrBefore, isStateBefore
      <4>2. ~(t < task[n].term) /\ (task[n].term = t => task[n].available)
        BY <3>a, <3>3, <4>1
      <4> QED
        BY Zenon, <3>1, <4>2 DEF isStateBefore
    <3> QED
      BY Zenon, <1>3, <2>3, <3>4 DEF CloseOld, Reach, Busy
  <2>4. CASE node[n] # "up"
    BY Zenon, <2>1, <2>4 DEF Serves
  <2> QED
    BY <2>2, <2>3, <2>4
<1>4. ASSUME NEW k \in Nodes, TaskWake(k) PROVE Serves(n, t)'
  BY Zenon, <1>1, <1>4 DEF TaskWake
<1>5. ASSUME NEW m \in inbox, Receive(m) PROVE Serves(n, t)'
  BY Zenon, <1>1, <1>5 DEF Receive
<1> QED
  BY Zenon, <1>1, <1>2, <1>3, <1>4, <1>5, LifetimeSteps

(* The background task of a node stays behind what is expected.             *)
LEMMA LifetimesStep ==
  ASSUME IInv, TrueInv, [Next]_vars
  PROVE  LifetimeTypes' /\ Lifetimes'
<1>0. /\ expected \in [Nodes -> States] /\ current \in [Nodes -> Currents] /\ task \in [Nodes -> States]
      /\ \A k \in Nodes : /\ expected[k].term \in Nat /\ current[k].term \in Nat /\ task[k].term \in Nat
                          /\ AtOrBefore(task[k], expected[k]) /\ current[k].term <= expected[k].term
  BY DEF IInv, TypesOK, TrueInv, LifetimeTypes, Lifetimes, States, Currents
<1> DEFINE Fine(n) == /\ AtOrBefore(task[n], expected[n])
                      /\ current[n].term <= expected[n].term
                      /\ current[n].term = expected[n].term /\ expected[n].available /\ ~current[n].err
                           => current[n].available
<1>1. \A n \in Nodes : Fine(n)
  BY Zenon DEF TrueInv, Lifetimes
<1>2. CASE UNCHANGED <<expected, current, task>>
  BY <1>0, <1>1, <1>2 DEF LifetimeTypes, Lifetimes, AtOrBefore
<1>3. ASSUME NEW k \in Nodes, TaskWake(k) PROVE LifetimeTypes' /\ Lifetimes'
  <2>1. task' = [task EXCEPT ![k] = expected[k]] /\ UNCHANGED <<expected, current>>
    BY Zenon, <1>3 DEF TaskWake
  <2>2. \A n \in Nodes : task'[n] = task[n] \/ task'[n] = expected[n]
    BY <1>0, <2>1
  <2> QED
    BY Zenon, <1>0, <1>1, <2>1, <2>2 DEF LifetimeTypes, Lifetimes, AtOrBefore
<1>4. ASSUME NEW k \in Nodes, CloseOld(k) PROVE LifetimeTypes' /\ Lifetimes'
  <2>1. /\ current' = [current EXCEPT ![k] = Current(current[k].term, FALSE, FALSE)]
        /\ UNCHANGED <<expected, task>> /\ current[k].available /\ isStateBefore(current[k], task[k])
    BY <1>4 DEF CloseOld, Busy
  <2>2. /\ \A n \in Nodes : n # k => current'[n] = current[n]
        /\ current'[k] = Current(current[k].term, FALSE, FALSE)
    BY <1>0, <2>1
  <2>3. Current(current[k].term, FALSE, FALSE) \in Currents /\ current'[k].term = current[k].term
    BY SMTT(20), <1>0, <2>2 DEF Current, Currents
  <2>4. ~(current[k].term = expected[k].term /\ expected[k].available)
    BY <1>0, <2>1 DEF AtOrBefore, isStateBefore
  <2>5. \A n \in Nodes : Fine(n)'
    BY Zenon, <1>1, <2>1, <2>2, <2>3, <2>4 DEF AtOrBefore
  <2> QED
    BY Zenon, <1>0, <2>1, <2>3, <2>5 DEF LifetimeTypes, Lifetimes
<1>5. ASSUME NEW k \in Nodes, Reach(k) PROVE LifetimeTypes' /\ Lifetimes'
  <2>1. PICK c \in {Current(task[k].term, task[k].available, FALSE), Current(task[k].term, FALSE, TRUE)} :
          current' = [current EXCEPT ![k] = c]
    BY Zenon, <1>5 DEF Reach
  <2>2. UNCHANGED <<expected, task>>
    BY Zenon, <1>5 DEF Reach
  <2>3. c \in Currents /\ c.term = task[k].term /\ (~c.err /\ task[k].available => c.available)
    <3>1. task[k].term \in Nat /\ task[k].available \in BOOLEAN
      BY <1>0 DEF States
    <3>2. CASE c = Current(task[k].term, task[k].available, FALSE)
      BY Zenon, <3>1, <3>2 DEF Current, Currents
    <3>3. CASE c = Current(task[k].term, FALSE, TRUE)
      BY <3>1, <3>3 DEF Current, Currents
    <3> QED
      BY Zenon, <3>2, <3>3
  <2>4. (\A n \in Nodes : n # k => current'[n] = current[n]) /\ current'[k] = c
    BY <1>0, <2>1
  <2>5. /\ task[k].term <= expected[k].term
        /\ task[k].term = expected[k].term /\ expected[k].available => task[k].available
    BY <1>0 DEF AtOrBefore, isStateBefore
  <2>6. Fine(k)'
    <3>1. AtOrBefore(task[k], expected[k])'
      BY Zenon, <1>0, <2>2 DEF AtOrBefore, isStateBefore
    <3>2. current'[k].term <= expected'[k].term
      BY Zenon, <2>2, <2>3, <2>4, <2>5
    <3>3. current'[k].term = expected'[k].term /\ expected'[k].available /\ ~current'[k].err
            => current'[k].available
      BY Zenon, <2>2, <2>3, <2>4, <2>5
    <3> QED
      BY Zenon, <3>1, <3>2, <3>3
  <2>7. \A n \in Nodes : Fine(n)'
    BY Zenon, <1>1, <2>2, <2>4, <2>6 DEF AtOrBefore
  <2> QED
    BY Zenon, <1>0, <2>1, <2>2, <2>3, <2>7 DEF LifetimeTypes, Lifetimes
<1>6. ASSUME NEW m \in inbox, Receive(m) PROVE LifetimeTypes' /\ Lifetimes'
  <2>1. /\ UNCHANGED <<current, task>> /\ m.node \in Nodes /\ m.state \in States
        /\ \/ UNCHANGED expected
           \/ /\ isStateBefore(expected[m.node], m.state)
              /\ expected' = [expected EXCEPT ![m.node] = m.state]
    BY <1>6 DEF Receive, IInv, TypesOK
  <2>2. CASE expected' = [expected EXCEPT ![m.node] = m.state] /\ isStateBefore(expected[m.node], m.state)
    <3> DEFINE k == m.node
    <3>1. (\A n \in Nodes : n # k => expected'[n] = expected[n]) /\ expected'[k] = m.state
      BY Zenon, <1>0, <2>1, <2>2
    <3>2. m.state.term \in Nat /\ expected[k].term <= m.state.term
          /\ (m.state.available => expected[k].term < m.state.term)
      BY SMTT(20), <1>0, <2>1, <2>2 DEF isStateBefore, States
    <3>3. AtOrBefore(task[k], m.state)
      BY SMTT(20), <1>0, <2>1, <2>2 DEF AtOrBefore, isStateBefore, States
    <3>4. Fine(k)'
      <4>1. UNCHANGED <<current, task>> /\ k \in Nodes /\ expected'[k] = m.state
        BY Zenon, <2>1, <3>1
      <4>2. AtOrBefore(task[k], expected[k])'
        BY Zenon, <3>3, <4>1 DEF AtOrBefore
      <4>3. current[k].term \in Nat /\ current[k].term <= expected[k].term /\ expected[k].term \in Nat
        BY <1>0, <4>1 DEF Currents, States
      <4>4. current[k].term <= m.state.term /\ (m.state.available => current[k].term # m.state.term)
        BY <3>2, <4>3
      <4> QED
        BY Zenon, <4>1, <4>2, <4>4
    <3>5. \A n \in Nodes : Fine(n)'
      BY Zenon, <1>1, <2>1, <3>1, <3>4 DEF AtOrBefore
    <3> QED
      BY Zenon, <1>0, <2>1, <3>5 DEF LifetimeTypes, Lifetimes
  <2> QED
    BY <1>2, <2>1, <2>2
<1>7. ASSUME NEW k \in Nodes, Start(k) \/ Die(k) \/ Expire(k) PROVE LifetimeTypes' /\ Lifetimes'
  BY Zenon, <1>2, <1>7 DEF Start, Die, Expire, lifetimeVars
<1> QED
  BY <1>2, <1>3, <1>4, <1>5, <1>6, <1>7, LifetimeSteps

(* Remove is sent for the histories, which are behind the term on record;   *)
(* terms on record only grow, and the catalog is not behind.                *)
LEMMA RemovesPastStep ==
  ASSUME IInv, TrueInv, [Next]_vars
  PROVE  RemovesPast' /\ catalog'.term >= meta'.term
<1>0. /\ meta \in Metas /\ meta.term \in Nat /\ catalog.term \in Nat /\ catalog.term >= meta.term
      /\ expected \in [Nodes -> States] /\ inbox \subseteq [node : Nodes, state : States]
      /\ step \in Nat \ {0} /\ meta.histories \in Seq(Assignments) /\ RemovesPast
  BY Zenon DEF IInv, TypesOK, TrueInv, Metas
<1>1. ASSUME UNCHANGED <<meta, catalog, expected>>,
             \A m \in inbox' : m \in inbox \/ (m = Target /\ Calling)
      PROVE  RemovesPast' /\ catalog'.term >= meta'.term
  <2>1. ASSUME Calling, ~Target.state.available PROVE Target.state.term < meta.term
    <3>1. Removing
      BY Zenon, <2>1 DEF Target, State
    <3>2. step \in 1..Len(meta.histories)
      BY <1>0, <3>1 DEF Removing
    <3>3. meta.histories[step].term < meta.term
      BY <1>0, <3>2 DEF Metas
    <3> QED
      BY Zenon, <3>1, <3>3 DEF Target, State
  <2> QED
    BY <1>0, <1>1, <2>1 DEF RemovesPast
<1>2. ASSUME UNCHANGED <<expected, inbox>>, meta'.term \in Nat, catalog'.term \in Nat,
             meta'.term >= meta.term, catalog'.term >= meta'.term
      PROVE  RemovesPast' /\ catalog'.term >= meta'.term
  BY <1>0, <1>2 DEF RemovesPast, States
<1>3. CASE SendCall \/ NoConnection \/ Disconnect \/ Answer
  BY Zenon, <1>1, <1>3 DEF SendCall, NoConnection, Disconnect, Answer, metaVars, lifetimeVars
<1>4. CASE AssignDone
  <2>1. AssignToServerDone(meta).term = meta.term
    BY Zenon, <1>4, DoneFields DEF AssignDone, IInv, Applying, TypesOK
  <2> QED
    BY <1>0, <1>2, <1>4, <2>1 DEF AssignDone, Save, SaveFails, lifetimeVars
<1>5. ASSUME NEW term \in 1..meta.term, ReportError(term) PROVE RemovesPast' /\ catalog'.term >= meta'.term
  <2>1. MarkAsUnavailable(meta, term).term = meta.term
    BY Zenon, <1>0, MarkFields
  <2> QED
    BY SMTT(20), <1>0, <1>2, <1>5, <2>1 DEF ReportError, Save, SaveFails, lifetimeVars
<1>6. CASE RecoverChannelManager
  BY SMTT(20), <1>0, <1>2, <1>6 DEF RecoverChannelManager, lifetimeVars
<1>7. ASSUME NEW n \in Nodes, Balance(n) PROVE RemovesPast' /\ catalog'.term >= meta'.term
  <2>1. TryAssignToServerID(meta, n).term = meta.term + 1
    BY Zenon, <1>0, TryAssignTracks
  <2> QED
    BY SMTT(20), <1>0, <1>2, <1>7, <2>1 DEF Balance, Save, SaveFails, lifetimeVars
<1>8. CASE Crash \/ Discover
  BY <1>1, <1>8 DEF Crash, Discover, metaVars, lifetimeVars
<1>9. ASSUME NEW k \in Nodes,
             Start(k) \/ Die(k) \/ Expire(k) \/ TaskWake(k) \/ CloseOld(k) \/ Reach(k)
      PROVE  RemovesPast' /\ catalog'.term >= meta'.term
  BY Zenon, <1>1, <1>9 DEF Start, Die, Expire, TaskWake, CloseOld, Reach, metaVars, lifetimeVars
<1>10. ASSUME NEW m \in inbox, Receive(m) PROVE RemovesPast' /\ catalog'.term >= meta'.term
  <2>1. /\ inbox' \subseteq inbox /\ UNCHANGED <<meta, catalog>>
        /\ expected' = expected \/ expected' = [expected EXCEPT ![m.node] = m.state]
    BY Zenon, <1>10 DEF Receive, metaVars
  <2>2. \A n \in Nodes : expected'[n] = expected[n] \/ expected'[n] = m.state
    BY <1>0, <2>1
  <2> QED
    BY Zenon, <1>0, <2>1, <2>2 DEF RemovesPast
<1>11. CASE UNCHANGED vars
  BY <1>1, <1>11 DEF vars, metaVars, lifetimeVars
<1> QED
  BY Zenon, <1>3, <1>4, <1>5, <1>6, <1>7, <1>8, <1>9, <1>10, <1>11 DEF Next

(* Answer lets the round go on past Assign only if the node has the WAL     *)
(* open in the term of the assignment.                                      *)
LEMMA AssignAnswered ==
  ASSUME IInv, TrueInv, Answer, ~Removing, coord' = "applying"
  PROVE  Serves(meta.node, meta.term)
<1> DEFINE n == meta.node
           t == meta.term
<1>1. /\ Calling /\ coord = "applying" /\ Target = [node |-> n, state |-> State(t, TRUE)]
      /\ n \in Nodes /\ t \in Nat
  BY Zenon DEF Answer, Calling, Target, IInv, Applying, TypesOK, Metas
<1>2. Target.node = n /\ Target.state.available /\ Target.state.term = t
  BY Zenon, <1>1 DEF State
<1>3. node[n] # "new"
  BY Zenon, <1>2 DEF Answer, Running
<1>4. /\ ~isStateBefore(current[n], Target.state)
      /\ Reached(n, Target.state) = "ok"
  <2>1. \E answer \in {"ignored", Reached(n, Target.state)} :
          /\ Conclude(answer)
          /\ answer = "ignored" \/ ~isStateBefore(current[n], Target.state)
    BY Zenon, <1>2 DEF Answer
  <2>2. ASSUME NEW answer, Conclude(answer) PROVE answer = "ok"
    BY <1>2, <2>2 DEF Conclude, Success, GiveUpRound
  <2> QED
    BY <2>1, <2>2
<1>5. current[n] \in Currents /\ current[n].term \in Nat
  BY <1>1 DEF TrueInv, LifetimeTypes, Currents
<1>6. ~(current[n].term > t) /\ ~current[n].err
  BY Zenon, <1>2, <1>4 DEF Reached
<1>7. current[n].term = t
  <2>1. ~(current[n].term < t)
    BY Zenon, <1>2, <1>4 DEF isStateBefore
  <2>2. t \in Nat /\ current[n].term \in Nat /\ ~(current[n].term > t)
    BY Zenon, <1>1, <1>5, <1>6
  <2> HIDE DEF n, t
  <2> QED
    BY <2>1, <2>2
<1>8. expected[n].term = t /\ expected[n].available
  <2>1. /\ expected[n].term \in Nat /\ expected[n].term <= t
        /\ expected[n].term = t => expected[n].available
    BY Zenon, <1>1, ExpectedBound
  <2>2. t <= expected[n].term
    BY Zenon, <1>1, <1>7 DEF TrueInv, Lifetimes
  <2> HIDE DEF n, t
  <2>3. expected[n].term = t
    BY <1>1, <2>1, <2>2
  <2> QED
    BY Zenon, <2>1, <2>3
<1>9. current[n].available
  BY Zenon, <1>1, <1>6, <1>7, <1>8 DEF TrueInv, Lifetimes
<1>10. current[n] = Current(t, TRUE, FALSE)
  <2>1. /\ current[n] = Current(current[n].term, current[n].available, current[n].err)
        /\ current[n].available \in BOOLEAN /\ current[n].err \in BOOLEAN
    BY Zenon, <1>5, CurrentFields
  <2>2. current[n].available = TRUE /\ current[n].err = FALSE
    BY Zenon, <1>6, <1>9, <2>1
  <2> QED
    BY Zenon, <1>7, <2>1, <2>2
<1> QED
  BY <1>3, <1>10 DEF Serves

(* What was true of a record stays true of it.                              *)
LEMMA ShownStays ==
  ASSUME IInv, TrueInv, [Next]_vars
  PROVE  \A m \in {meta, catalog} :
           m.state = "assigned" \/ (m = meta /\ coord = "applying" /\ ~Calling) => Serves(m.node, m.term)'
<1>1. ASSUME NEW m \in {meta, catalog}, m.node \in Nodes, Serves(m.node, m.term)
      PROVE  Serves(m.node, m.term)'
  <2>1. /\ m.term \in Nat /\ expected[m.node].term <= m.term
        /\ expected[m.node].term = m.term => expected[m.node].available
    BY <1>1, ExpectedBound
  <2>2. ASSUME NEW n \in Nodes, NEW t \in Nat, n = m.node, t = m.term
        PROVE  Serves(n, t)'
    BY <1>1, <2>1, <2>2, ServesStays
  <2> QED
    BY Zenon, <1>1, <2>1, <2>2
<1>2. \A m \in {meta, catalog} : m.state = "assigned" => m.node \in Nodes
  BY Zenon DEF IInv, TypesOK, Metas
<1>3. coord = "applying" => meta.node \in Nodes
  BY Zenon DEF IInv, TypesOK, Metas, Applying
<1> QED
  BY <1>1, <1>2, <1>3 DEF TrueInv, Shown, Concluded

(* Records become assigned in AssignDone only, after all calls of a round.  *)
LEMMA ShownStep ==
  ASSUME IInv, TrueInv, [Next]_vars
  PROVE  Shown(meta)' /\ Shown(catalog)'
<1>0. meta \in Metas
  BY DEF IInv, TypesOK
<1>1. ASSUME NEW m, \/ m \in {meta, catalog}
                    \/ m.state # "assigned"
                    \/ coord = "applying" /\ ~Calling /\ m.node = meta.node /\ m.term = meta.term
      PROVE  m.state = "assigned" => Serves(m.node, m.term)'
  BY <1>1, ShownStays
<1>2. ASSUME \A m \in {meta', catalog'} :
               \/ m \in {meta, catalog}
               \/ m.state # "assigned"
               \/ coord = "applying" /\ ~Calling /\ m.node = meta.node /\ m.term = meta.term
      PROVE  Shown(meta)' /\ Shown(catalog)'
  BY <1>1, <1>2 DEF Shown
<1>3. CASE UNCHANGED <<meta, catalog>>
  BY <1>2, <1>3
<1>4. CASE AssignDone
  <2> DEFINE m == AssignToServerDone(meta)
  <2>1. m.node = meta.node /\ m.term = meta.term /\ coord = "applying" /\ ~Calling
    BY Zenon, <1>0, <1>4, DoneFields DEF AssignDone, IInv, Applying
  <2>2. \A r \in {meta', catalog'} : r \in {meta, catalog, m}
    BY <1>4 DEF AssignDone, Save, SaveFails
  <2> HIDE DEF m
  <2> QED
    BY <1>2, <2>1, <2>2
<1>5. ASSUME NEW term \in 1..meta.term, ReportError(term) PROVE Shown(meta)' /\ Shown(catalog)'
  <2> DEFINE m == MarkAsUnavailable(meta, term)
  <2>1. m = meta \/ m.state # "assigned"
    <3>1. meta.state = "assigned" /\ meta.term = term => m.state = "unavailable"
      BY <1>0 DEF MarkAsUnavailable, Metas
    <3> QED
      BY <3>1 DEF MarkAsUnavailable
  <2>2. \A r \in {meta', catalog'} : r \in {meta, catalog, m}
    BY <1>5 DEF ReportError, Save, SaveFails
  <2> HIDE DEF m
  <2> QED
    BY <1>2, <2>1, <2>2
<1>6. ASSUME NEW n \in Nodes, Balance(n) PROVE Shown(meta)' /\ Shown(catalog)'
  <2> DEFINE m == TryAssignToServerID(meta, n)
  <2>1. m.state = "assigning"
    BY Zenon DEF TryAssignToServerID
  <2>2. \A r \in {meta', catalog'} : r \in {meta, catalog, m}
    BY <1>6 DEF Balance, Save, SaveFails
  <2> HIDE DEF m
  <2> QED
    BY <1>2, <2>1, <2>2
<1>7. CASE RecoverChannelManager
  BY <1>2, <1>7 DEF RecoverChannelManager
<1>8. CASE SendCall \/ NoConnection \/ Disconnect \/ Answer \/ Crash \/ Discover
  BY Zenon, <1>3, <1>8 DEF SendCall, NoConnection, Disconnect, Answer, Crash, Discover, metaVars
<1>9. ASSUME NEW k \in Nodes,
             Start(k) \/ Die(k) \/ Expire(k) \/ TaskWake(k) \/ CloseOld(k) \/ Reach(k)
      PROVE  Shown(meta)' /\ Shown(catalog)'
  BY Zenon, <1>3, <1>9 DEF Start, Die, Expire, TaskWake, CloseOld, Reach, metaVars
<1>10. ASSUME NEW m \in inbox, Receive(m) PROVE Shown(meta)' /\ Shown(catalog)'
  BY Zenon, <1>3, <1>10 DEF Receive, metaVars
<1>11. CASE UNCHANGED vars
  BY <1>3, <1>11 DEF vars, metaVars
<1> QED
  BY <1>4, <1>5, <1>6, <1>7, <1>8, <1>9, <1>10, <1>11 DEF Next

(* A round concludes only with the answer to Assign.                        *)
LEMMA ConcludedStep ==
  ASSUME IInv, TrueInv, [Next]_vars
  PROVE  Concluded'
<1>0. /\ step \in Nat \ {0} /\ meta.histories \in Seq(Assignments) /\ Len(meta.histories) \in Nat
      /\ catalog.histories \in Seq(Assignments)
  <2>1. step \in Nat \ {0} /\ meta \in Metas /\ catalog \in Metas
    BY Zenon DEF IInv, TypesOK
  <2>2. meta.histories \in Seq(Assignments) /\ catalog.histories \in Seq(Assignments)
    BY <2>1 DEF Metas
  <2> QED
    BY <2>1, <2>2
<1>1. ASSUME UNCHANGED meta, coord' = "applying" => coord = "applying" /\ ~Calling
      PROVE  Concluded'
  BY <1>1, ShownStays DEF Concluded
<1>2. ASSUME coord' = "applying" => Calling' PROVE Concluded'
  BY <1>2 DEF Concluded
<1>3. CASE UNCHANGED <<meta, coord, step>>
  BY <1>1, <1>2, <1>3 DEF Calling
<1>4. CASE Answer
  <2>1. UNCHANGED meta /\ Calling
    BY <1>4 DEF Answer, metaVars
  <2>2. CASE coord' = "applying" /\ Removing
    <3>1. step' = step + 1 /\ step <= Len(meta.histories)
      BY Zenon, <1>4, <2>2 DEF Answer, Conclude, NextCall, GiveUpRound, Removing
    <3>2. Calling'
      BY <1>0, <2>1, <2>2, <3>1 DEF Calling
    <3> QED
      BY <1>2, <3>2
  <2>3. CASE coord' = "applying" /\ ~Removing
    <3>1. Serves(meta.node, meta.term) /\ meta.node \in Nodes
      BY Zenon, <1>4, <2>1, <2>3, AssignAnswered DEF Calling, IInv, Applying, TypesOK, Metas
    <3>2. UNCHANGED <<node, current>>
      BY <1>4 DEF Answer, lifetimeVars
    <3> QED
      BY Zenon, <2>1, <3>1, <3>2 DEF Concluded, Serves
  <2> QED
    BY <1>2, <2>2, <2>3
<1>5. CASE NoConnection
  <2>1. UNCHANGED meta /\ Calling
    BY Zenon, <1>5 DEF NoConnection, metaVars
  <2>2. ASSUME coord' = "applying" PROVE Calling'
    <3>1. step' = step + 1 /\ Success(Target.state.available, "no connection")
      BY Zenon, <1>5, <2>2 DEF NoConnection, Conclude, NextCall, GiveUpRound
    <3>2. Removing
      <4>1. ~Target.state.available
        BY Zenon, <3>1 DEF Success
      <4>2. State(meta.term, TRUE).available
        BY DEF State
      <4> QED
        BY Zenon, <4>1, <4>2 DEF Target
    <3>3. step + 1 <= Len(meta.histories) + 1
      BY <1>0, <3>2 DEF Removing
    <3>4. meta' = meta
      BY <2>1
    <3> QED
      BY Zenon, <2>2, <3>1, <3>3, <3>4 DEF Calling
  <2> QED
    BY <1>2, <2>2
<1>6. CASE Disconnect
  BY <1>2, <1>3, <1>6 DEF Disconnect, GiveUpRound, metaVars
<1>7. CASE SendCall
  BY Zenon, <1>3, <1>7 DEF SendCall, metaVars
<1>8. CASE AssignDone \/ Crash \/ RecoverChannelManager
  BY <1>2, <1>8 DEF AssignDone, Crash, RecoverChannelManager, GiveUpRound
<1>9. ASSUME NEW term \in 1..meta.term, ReportError(term) PROVE Concluded'
  BY <1>2, <1>9 DEF ReportError, applyVars
<1>10. ASSUME NEW n \in Nodes, Balance(n) PROVE Concluded'
  <2>1. step' = 1 /\ meta' \in Metas
    BY Zenon, <1>10, BalanceIInv DEF Balance, IInv, TypesOK
  <2>2. Len(meta'.histories) \in Nat
    BY <2>1 DEF Metas
  <2> QED
    BY <1>2, <2>1, <2>2 DEF Calling
<1>11. CASE Discover
  BY <1>3, <1>11 DEF Discover, metaVars, applyVars
<1>12. ASSUME NEW k \in Nodes,
              Start(k) \/ Die(k) \/ Expire(k) \/ TaskWake(k) \/ CloseOld(k) \/ Reach(k)
       PROVE  Concluded'
  BY Zenon, <1>3, <1>12 DEF Start, Die, Expire, TaskWake, CloseOld, Reach, metaVars, applyVars
<1>13. ASSUME NEW m \in inbox, Receive(m) PROVE Concluded'
  BY Zenon, <1>3, <1>13 DEF Receive, metaVars
<1>14. CASE UNCHANGED vars
  BY <1>3, <1>14 DEF vars, metaVars, applyVars
<1> QED
  BY <1>4, <1>5, <1>6, <1>7, <1>8, <1>9, <1>10, <1>11, <1>12, <1>13, <1>14 DEF Next

(* The whole holds at the start.                                            *)
LEMMA InitTrueInv == Init => TrueInv
<1> SUFFICES ASSUME Init PROVE TrueInv
  OBVIOUS
<1>1. InitialState \in States /\ Current(0, FALSE, FALSE) \in Currents
  BY Zenon DEF InitialState, State, States, Current, Currents
<1>2. LifetimeTypes
  BY Zenon, <1>1 DEF Init, LifetimeTypes
<1>3. /\ InitialState.term = 0 /\ ~InitialState.available
      /\ Current(0, FALSE, FALSE).term = 0
  BY Zenon DEF InitialState, State, Current
<1>4. Lifetimes
  <2>1. \A n \in Nodes : /\ task[n] = expected[n] /\ ~expected[n].available
                         /\ current[n].term = 0 /\ expected[n].term = 0
    BY Zenon, <1>3 DEF Init
  <2>2. 0 <= 0
    OBVIOUS
  <2> QED
    BY Zenon, <2>1, <2>2 DEF Lifetimes, AtOrBefore
<1>5. RemovesPast /\ catalog.term >= meta.term
  BY SMTT(20), <1>3 DEF Init, RemovesPast, newPChannelMeta
<1> QED
  BY <1>2, <1>4, <1>5 DEF Init, TrueInv, Shown, Concluded, newPChannelMeta

(* For any nodes and faults, an assignment that clients are shown is true   *)
(* of its node while that lives: AssignDone comes after the answer of       *)
(* Assign, and no late or repeated Remove closes the WAL of the term that   *)
(* is on record.                                                            *)
THEOREM AssignmentsTrueHolds == Spec => []AssignmentsTrue
<1>1. IInv /\ TrueInv /\ [Next]_vars => TrueInv'
  BY Zenon, LifetimesStep, RemovesPastStep, ShownStep, ConcludedStep DEF TrueInv
<1>2. TrueInv => AssignmentsTrue
  BY Zenon DEF TrueInv, Shown, Serves, AssignmentsTrue
<1> QED
  BY <1>1, <1>2, InitIInv, NextIInv, InitTrueInv, PTL DEF Spec

------------------------------------------------------------------------------
(* The policy of the balancer, for any channels, nodes and changes.         *)

(* What is kept is one above the average or not above it.                   *)
LEMMA KeptToAverage ==
  ASSUME NEW avg \in Nat, NEW k, NEW m \in Nat, m <= avg, k = avg + 1 \/ k = m
  PROVE  k <= avg + 1
OBVIOUS

(* What is around the average differs by one at most.                       *)
LEMMA AroundAverage ==
  ASSUME NEW avg \in Nat
  PROVE  \A b, k : b \in {avg, avg + 1} /\ k \in {avg, avg + 1} => b <= k + 1
OBVIOUS

CONSTANTS Channels, Nowhere, MaxChanges
VARIABLES alive, home, changes

Policy == INSTANCE PChannelCountFair

Finite == INSTANCE FiniteSetTheorems

(* What the policy counts is a number: a set of channels, and the nodes.    *)
LEMMA PolicyCounts ==
  /\ \A S : IsFiniteSet(S) => Policy!Cardinality(S) \in Nat
  /\ \A S : IsFiniteSet(S) /\ S # {} => Policy!Cardinality(S) # 0
  /\ \A S, T : IsFiniteSet(S) /\ T \subseteq S => IsFiniteSet(T)
  /\ IsFiniteSet({})
  /\ \A S, x : IsFiniteSet(S) => IsFiniteSet(S \cup {x}) /\ IsFiniteSet(S \ {x})
<1>1. \A S : Policy!Cardinality(S) = Finite!Cardinality(S)
  BY Zenon DEF Policy!Cardinality, Finite!Cardinality
<1>2. \A S : IsFiniteSet(S) <=> Finite!IsFiniteSet(S)
  BY Zenon DEF IsFiniteSet, Finite!IsFiniteSet
<1>3. QED
  BY SMTT(20), <1>1, <1>2, Finite!FS_CardinalityType, Finite!FS_EmptySet, Finite!FS_Subset,
     Finite!FS_AddElement, Finite!FS_RemoveElement

(* The larger and the smaller of two numbers.                               *)
LEMMA PolicyMinMax ==
  ASSUME NEW a \in Nat, NEW b \in Nat
  PROVE  /\ Policy!Max({a, b}) \in {a, b} /\ Policy!Max({a, b}) >= b
         /\ Policy!Min({a, b}) \in Nat /\ Policy!Min({a, b}) <= b
<1>1. \E x \in {a, b} : \A y \in {a, b} : x >= y
  OBVIOUS
<1>2. \E x \in {a, b} : \A y \in {a, b} : x <= y
  OBVIOUS
<1>3. /\ Policy!Max({a, b}) \in {a, b}
      /\ \A y \in {a, b} : Policy!Max({a, b}) >= y
  BY <1>1 DEF Policy!Max
<1>4. /\ Policy!Min({a, b}) \in {a, b}
      /\ \A y \in {a, b} : Policy!Min({a, b}) <= y
  BY <1>2 DEF Policy!Min
<1>5. QED  BY <1>3, <1>4

(* A layout of pchannelCountFair has the average or one more on every node. *)
LEMMA LayoutCounts ==
  ASSUME IsFiniteSet(Channels), IsFiniteSet(alive), alive # {},
         NEW layout \in Policy!Layouts, NEW n \in alive
  PROVE  /\ Policy!avgChannelCount \in Nat
         /\ Policy!Cardinality({c \in Channels : layout[c] = n})
              \in {Policy!avgChannelCount, Policy!avgChannelCount + 1}
<1> DEFINE avg == Policy!avgChannelCount
           on(m) == {c \in Channels : layout[c] = m}
           kept == [m \in alive |-> on(m) \cap Policy!AssignedChannels(m)]
           count == [m \in alive |-> Policy!Cardinality(on(m))]
<1>1. avg \in Nat
  <2>1. Policy!Cardinality(Channels) \in Nat /\ Policy!Cardinality(alive) \in Nat \ {0}
    BY Zenon, PolicyCounts
  <2>2. \A a \in Nat, b \in Nat \ {0} : a \div b \in Nat
    OBVIOUS
  <2>3. QED  BY Zenon, <2>1, <2>2 DEF Policy!avgChannelCount, Policy!TotalChannels
<1>2. Policy!Keep(kept) /\ Policy!Fill(kept, count)
  BY Zenon DEF Policy!Layouts, Policy!Expected
<1>3. /\ Policy!Cardinality(kept[n]) \in Nat
      /\ Policy!Cardinality(Policy!AssignedChannels(n)) \in Nat
  <2>1. kept[n] \subseteq Channels /\ Policy!AssignedChannels(n) \subseteq Channels
    BY DEF Policy!AssignedChannels
  <2>2. QED  BY Zenon, <2>1, PolicyCounts
<1> HIDE DEF avg, on, kept, count
<1>4. Policy!Cardinality(kept[n]) <= avg + 1
  <2>1. \/ Policy!Cardinality(kept[n]) = avg + 1
        \/ Policy!Cardinality(kept[n])
             = Policy!Min({Policy!Cardinality(Policy!AssignedChannels(n)), avg})
    BY Zenon, <1>2 DEF Policy!Keep, avg
  <2>2. Policy!Min({Policy!Cardinality(Policy!AssignedChannels(n)), avg}) \in Nat
        /\ Policy!Min({Policy!Cardinality(Policy!AssignedChannels(n)), avg}) <= avg
    BY Zenon, <1>1, <1>3, PolicyMinMax
  <2>3. QED  BY Zenon, <1>1, <2>1, <2>2, KeptToAverage
<1>5. count[n] \in {avg, avg + 1}
  <2> DEFINE k == Policy!Cardinality(kept[n])
             m == Policy!Max({k, avg})
  <2>1. count[n] = avg + 1 \/ count[n] = m
    BY Zenon, <1>2 DEF Policy!Fill, avg
  <2>2. m \in {k, avg} /\ m >= avg
    BY Zenon, <1>1, <1>3, PolicyMinMax
  <2>3. k \in Nat /\ k <= avg + 1
    BY Zenon, <1>3, <1>4
  <2> HIDE DEF k, m
  <2>4. QED  BY <1>1, <2>1, <2>2, <2>3
<1>6. QED  BY Zenon, <1>1, <1>5 DEF avg, count, on

(* Whichever nodes come and go and whichever moves fail, a layout that the  *)
(* policy returns has at most one channel more on a node than on another.   *)
THEOREM FairLayoutHolds ==
  ASSUME IsFiniteSet(Channels)
  PROVE  Policy!Spec => []Policy!FairLayout
<1>1. Policy!Init => IsFiniteSet(alive)
  BY PolicyCounts DEF Policy!Init
<1>2. IsFiniteSet(alive) /\ [Policy!Next]_Policy!vars => IsFiniteSet(alive)'
  BY Zenon, PolicyCounts DEF Policy!Next, Policy!vars, Policy!Balance, Policy!Join, Policy!Leave
<1>3. IsFiniteSet(alive) => Policy!FairLayout
  <2> SUFFICES ASSUME IsFiniteSet(alive), alive # {}, NEW layout \in Policy!Layouts,
                      NEW m \in alive, NEW n \in alive
               PROVE  Policy!Cardinality({c \in Channels : layout[c] = m})
                        <= Policy!Cardinality({c \in Channels : layout[c] = n}) + 1
    BY Zenon DEF Policy!FairLayout, Policy!Even
  <2>1. Policy!avgChannelCount \in Nat
    BY Zenon, LayoutCounts
  <2>2. /\ Policy!Cardinality({c \in Channels : layout[c] = m})
             \in {Policy!avgChannelCount, Policy!avgChannelCount + 1}
        /\ Policy!Cardinality({c \in Channels : layout[c] = n})
             \in {Policy!avgChannelCount, Policy!avgChannelCount + 1}
    BY Zenon, LayoutCounts
  <2>3. QED  BY Zenon, <2>1, <2>2, AroundAverage
<1>4. QED  BY <1>1, <1>2, <1>3, PTL DEF Policy!Spec
================================================================================
