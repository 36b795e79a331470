------------------------------- MODULE TSOProofs -------------------------------
(***************************************************************************)
(* Timestamps are never granted twice, and the time ticks of a channel     *)
(* only rise, for every number of nodes, every clock and every history of  *)
(* restarts, provided the logical part is limited and the saved time can   *)
(* be read.                                                                *)
(***************************************************************************)
EXTENDS TSO, TLAPS

(* The first timestamp of a millisecond.                                    *)
Base(ms) == ms * MaxLogical

Ms(o) == UnixMilli(o.physical)

(* The timestamp an object has reached.                                     *)
Reached(o) == Base(Ms(o)) + o.logical

(* A time is a natural number of milliseconds.                              *)
LEMMA MilliType == ASSUME NEW t \in Nat PROVE UnixMilli(t) \in Nat
  BY DEF UnixMilli, Milli

(* Instants more than a millisecond apart differ in their milliseconds, and *)
(* a later millisecond is a later instant (UnixMilli truncates).            *)
LEMMA MilliOrder ==
  ASSUME NEW s \in Nat, NEW t \in Nat
  PROVE  /\ s + Guard <= t => UnixMilli(s) < UnixMilli(t)
         /\ s <= t => UnixMilli(s) <= UnixMilli(t)
         /\ UnixMilli(s) < UnixMilli(t) => s < t
  BY DEF UnixMilli, Milli, Guard

LEMMA BaseType == ASSUME NEW p \in Nat PROVE Base(p) \in Nat
  BY TSOAssumption DEF Base

(* The timestamps of a millisecond end before those of a later one begin    *)
(* (ComposeTS).                                                             *)
LEMMA BaseOrder ==
  ASSUME NEW p \in Nat, NEW q \in Nat, p < q
  PROVE  Base(p + 1) <= Base(q)
<1> DEFINE M == MaxLogical
<1>1. PICK d \in Nat : q = p + 1 + d
  <2>1. q - p - 1 \in Nat /\ q = p + 1 + (q - p - 1) OBVIOUS
  <2> QED BY <2>1
<1>2. d * M \in Nat BY TSOAssumption
<1>3. q * M = (p + 1) * M + d * M BY <1>1, TSOAssumption
<1> QED BY <1>2, <1>3, TSOAssumption DEF Base

(* A millisecond has room for MaxLogical timestamps (ComposeTS).            *)
LEMMA BaseNext ==
  ASSUME NEW p \in Nat
  PROVE  Base(p + 1) = Base(p) + MaxLogical
  BY TSOAssumption DEF Base

------------------------------------------------------------------------------
(* The limit is enforced and the saved time can be read.                    *)
Limited == LimitMaxLogic /\ ~LoadFails

(* Every object is of a later millisecond than the ones before it.          *)
ObjectsRise ==
  \A i, j \in DOMAIN objects : i < j => Ms(objects[i]) < Ms(objects[j])

(* The window in etcd covers what is in memory and what is about to be.     *)
Window ==
  /\ SavedAhead
  /\ next # NoTime => Running /\ next < saved /\ Ms(Current) < UnixMilli(next)
  /\ Running => lastSavedTime <= saved

(* Timestamp ts is behind all that a request from now on will be granted.   *)
Past(ts) ==
  IF Running THEN ts <= Reached(Current) /\ ts < Base(Ms(Current) + 1)
  ELSE ts < Base(UnixMilli(saved) + 1) /\ (saved = NoTime => ts <= 0)

AllPast ==
  /\ \A k \in DOMAIN granted : Past(granted[k].last)
  /\ \A n \in Nodes : Past(local[n].end - 1)
  /\ \A n \in Nodes : request[n].step = "answered" => Past(request[n].start + BatchSize - 1)
  /\ Past(lastTT)

(* A batch is behind what an object has reached, or of a later millisecond. *)
Apart ==
  \A k \in DOMAIN granted, i \in DOMAIN objects :
    granted[k].last <= Reached(objects[i]) \/ granted[k].first >= Base(Ms(objects[i]) + 1)

(* What the owner of an open channel holds or is about to get is ahead of   *)
(* the channel.                                                             *)
OwnerAhead ==
  stage \in {"synced", "open"} =>
    /\ ~Exhausted(local[owner]) => lastTT < local[owner].next
    /\ request[owner].step = "loaded" => lastTT <= Reached(objects[request[owner].object])
    /\ request[owner].step = "answered" => lastTT < request[owner].start

IInv ==
  /\ Limited /\ TypeOK
  /\ ObjectsRise /\ Window /\ AllPast /\ Apart /\ BatchesDisjoint /\ OwnerAhead

------------------------------------------------------------------------------
(* What the types say of the objects: their parts are natural numbers, and  *)
(* a running root coordinator has a current one (timestampOracle.TSO).      *)
LEMMA ObjectFacts ==
  ASSUME TypeOK
  PROVE  /\ \A i \in DOMAIN objects :
              /\ objects[i].physical \in Nat \ {0} /\ objects[i].logical \in Nat
              /\ Ms(objects[i]) \in Nat
              /\ Base(Ms(objects[i])) \in Nat /\ Base(Ms(objects[i]) + 1) \in Nat
              /\ Reached(objects[i]) \in Nat
         /\ Running => Len(objects) \in DOMAIN objects
         /\ DOMAIN objects = 1 .. Len(objects) /\ Len(objects) \in Nat
<1>1. \A i \in DOMAIN objects : objects[i] \in Object BY DEF TypeOK
<1>2. ASSUME NEW i \in DOMAIN objects
      PROVE  /\ objects[i].physical \in Nat \ {0} /\ objects[i].logical \in Nat
             /\ Ms(objects[i]) \in Nat
             /\ Base(Ms(objects[i])) \in Nat /\ Base(Ms(objects[i]) + 1) \in Nat
             /\ Reached(objects[i]) \in Nat
  <2>1. objects[i].physical \in Nat \ {0} /\ objects[i].logical \in Nat BY <1>1 DEF Object
  <2>2. Ms(objects[i]) \in Nat BY <2>1, MilliType DEF Ms
  <2>3. Base(Ms(objects[i])) \in Nat /\ Base(Ms(objects[i]) + 1) \in Nat BY <2>2, BaseType
  <2> QED BY <2>1, <2>2, <2>3 DEF Reached
<1>3. DOMAIN objects = 1 .. Len(objects) /\ Len(objects) \in Nat BY DEF TypeOK
<1>4. Running => Len(objects) \in DOMAIN objects BY <1>3 DEF Running, TypeOK
<1> QED BY <1>2, <1>3, <1>4

(* Where InitTimestamp starts, and where UpdateTimestamp goes, is a time.   *)
LEMMA StartFacts ==
  ASSUME TypeOK, NEW now \in Clock
  PROVE  /\ StartAt(saved, now) \in Nat \ {0}
         /\ saved # NoTime => saved + Guard <= StartAt(saved, now)
  BY TSOAssumption DEF TypeOK, StartAt, NoTime, Guard, Milli

LEMMA UpdateFacts ==
  ASSUME TypeOK, Running, NEW now \in Clock, NEW t \in NextPhysical(Current, now)
  PROVE  t \in Nat \ {0} /\ Current.physical + Guard <= t
<1>1. Current.physical \in Nat \ {0} /\ now \in Nat BY ObjectFacts, TSOAssumption DEF Current
<1> QED BY <1>1 DEF NextPhysical, Guard, Milli

(* The forms a request takes in GenerateTSO and batchAllocate.              *)
LEMMA RequestForms ==
  /\ NoRequest \in Request /\ NoRequest.step = "none"
  /\ Sent \in Request /\ Sent.step = "sent"
  /\ \A i \in Nat : Loaded(i) \in Request /\ Loaded(i).step = "loaded" /\ Loaded(i).object = i
  /\ \A t \in Nat : Answered(t) \in Request /\ Answered(t).step = "answered" /\ Answered(t).start = t
  BY Zenon DEF NoRequest, Sent, Loaded, Answered, Request

(* The types of the channel after a timestamp is handed out (Allocate).     *)
LEMMA DeliverType ==
  ASSUME TypeOK, NEW n, NEW ts \in Nat, Deliver(n, ts)
  PROVE  owner' \in Nodes /\ stage' \in Stages /\ lastTT' \in Nat
  BY DEF TypeOK, Deliver, Stages, channelVars

(* The types that a step of a node can disturb: the request of the node     *)
(* becomes any but one that has loaded an object (allocatorImpl).           *)
LEMMA NodeType ==
  ASSUME TypeOK, NEW n \in Nodes, UNCHANGED <<oracleVars, granted>>,
         local' = local \/ (\E b \in Batch : local' = [local EXCEPT ![n] = b]),
         request' = request \/ (\E r \in Request : r.step # "loaded" /\ request' = [request EXCEPT ![n] = r]),
         owner' \in Nodes /\ stage' \in Stages /\ lastTT' \in Nat
  PROVE  TypeOK'
<1>1. local' \in [Nodes -> Batch] BY DEF TypeOK
<1>2. request' \in [Nodes -> Request] BY DEF TypeOK
<1>3. \A m \in Nodes : request'[m].step = "loaded" => request'[m] = request[m] BY DEF TypeOK
<1> QED BY <1>1, <1>2, <1>3 DEF TypeOK, oracleVars

(* Every step keeps the types: AddLogical of GenerateTSO adds to an object  *)
(* that exists, and a root coordinator that stops takes its requests along. *)
LEMMA TypeStep ==
  ASSUME TypeOK, ~LoadFails, [Next]_vars
  PROVE  TypeOK'
<1> USE DEF NoTime
<1>1. CASE InitTimestamp
  <2>1. PICK now \in Clock :
          LET start == StartAt(saved, now)
          IN \/ /\ SaveSucceeds(start + SaveInterval)
                /\ objects' = <<[physical |-> start, logical |-> 0]>>
             \/ /\ SaveFails(start + SaveInterval)
                /\ UNCHANGED objects
    BY <1>1 DEF InitTimestamp, LoadTimestamp
  <2>2. StartAt(saved, now) \in Nat \ {0} BY StartFacts
  <2>3. StartAt(saved, now) + SaveInterval \in Nat BY <2>2, TSOAssumption
  <2>4. saved' \in Nat /\ lastSavedTime' \in Nat
    BY <2>1, <2>3 DEF SaveSucceeds, SaveFails, TypeOK
  <2> DEFINE o == [physical |-> StartAt(saved, now), logical |-> 0]
  <2>5. objects' \in Seq(Object)
    <3>1. o \in Object BY <2>2 DEF Object
    <3> HIDE DEF o
    <3>2. <<o>> \in Seq(Object) BY <3>1
    <3>3. objects' = <<o>> \/ objects' = objects BY <2>1 DEF o
    <3> QED BY Zenon, <3>2, <3>3 DEF TypeOK
  <2>6. \A n \in Nodes : request[n].step # "loaded" \/ objects' = objects
    BY <1>1 DEF InitTimestamp, Running, TypeOK
  <2> QED BY <1>1, <2>4, <2>5, <2>6 DEF InitTimestamp, TypeOK, channelVars
<1>2. CASE UpdateTimestamp
  <2>0. PICK now \in Clock : \E t \in NextPhysical(Current, now) :
          IF lastSavedTime - t <= Guard
          THEN \/ SaveSucceeds(t + SaveInterval) /\ next' = t
               \/ SaveFails(t + SaveInterval) /\ UNCHANGED next
          ELSE next' = t /\ UNCHANGED <<saved, lastSavedTime>>
    BY <1>2 DEF UpdateTimestamp
  <2>1. PICK t \in NextPhysical(Current, now) :
          IF lastSavedTime - t <= Guard
          THEN \/ SaveSucceeds(t + SaveInterval) /\ next' = t
               \/ SaveFails(t + SaveInterval) /\ UNCHANGED next
          ELSE next' = t /\ UNCHANGED <<saved, lastSavedTime>>
    BY <2>0
  <2>2. t \in Nat BY UpdateFacts, <1>2 DEF UpdateTimestamp
  <2>3. t + SaveInterval \in Nat BY <2>2, TSOAssumption
  <2>4. saved' \in Nat /\ lastSavedTime' \in Nat /\ next' \in Nat
    BY <2>1, <2>2, <2>3 DEF SaveSucceeds, SaveFails, TypeOK
  <2> QED BY <1>2, <2>4 DEF UpdateTimestamp, TypeOK, channelVars
<1>3. CASE StoreTSO
  <2>1. [physical |-> next, logical |-> 0] \in Object BY <1>3 DEF StoreTSO, Object, TypeOK
  <2>2. objects' \in Seq(Object) BY <1>3, <2>1 DEF StoreTSO, TypeOK
  <2>3. DOMAIN objects \subseteq DOMAIN objects' BY <1>3 DEF StoreTSO, TypeOK
  <2> QED BY <1>3, <2>2, <2>3 DEF StoreTSO, TypeOK, channelVars
<1>4. CASE Crash
  <2>1. objects' \in Seq(Object) /\ next' \in Nat /\ lastSavedTime' \in Nat BY <1>4 DEF Crash
  <2>2. request' \in [Nodes -> Request] BY <1>4, RequestForms DEF Crash, TypeOK
  <2>3. \A n \in Nodes : request'[n].step # "loaded" BY <1>4, RequestForms DEF Crash
  <2> QED BY <1>4, <2>1, <2>2, <2>3 DEF Crash, TypeOK, channelVars
<1>5. CASE Close
  <2>1. PICK n \in Nodes : n = owner BY DEF TypeOK
  <2>2. owner' \in Nodes /\ stage' \in Stages /\ lastTT' \in Nat
    BY <1>5 DEF Close, TypeOK, Stages
  <2> QED BY <1>5, <2>1, <2>2, NodeType DEF Close
<1>6. CASE \E n \in Nodes : LoadTSO(n)
  <2>1. PICK n \in Nodes : LoadTSO(n) BY <1>6
  <2>2. Len(objects) \in DOMAIN objects /\ Len(objects) \in Nat
    BY <2>1, ObjectFacts DEF LoadTSO
  <2>3. request' = [request EXCEPT ![n] = Loaded(Len(objects))] BY <2>1 DEF LoadTSO
  <2>4. request' \in [Nodes -> Request] BY <2>2, <2>3, RequestForms DEF TypeOK
  <2>5. \A m \in Nodes : request'[m] = request[m] \/ request'[m].object = Len(objects)
    BY <2>2, <2>3, RequestForms DEF TypeOK
  <2> QED BY <2>1, <2>2, <2>4, <2>5 DEF LoadTSO, TypeOK, channelVars, oracleVars
<1>7. CASE \E n \in Nodes : AddLogical(n)
  <2>1. PICK n \in Nodes : AddLogical(n) BY <1>7
  <2> DEFINE i == request[n].object
             logical == objects[i].logical + BatchSize
             last == ComposeTS(UnixMilli(objects[i].physical), logical)
             first == last - BatchSize + 1
  <2>2. i \in DOMAIN objects BY <2>1 DEF AddLogical, TypeOK
  <2>3. objects[i].logical \in Nat /\ Base(Ms(objects[i])) \in Nat
    <3> HIDE DEF i
    <3> QED BY <2>2, ObjectFacts
  <2>4. last \in Nat /\ first \in Nat /\ logical \in Nat
    <3>1. last = Base(Ms(objects[i])) + logical BY DEF ComposeTS, Base, Ms
    <3> HIDE DEF i
    <3> QED BY <3>1, <2>3, TSOAssumption
  <2>5. objects' = [objects EXCEPT ![i].logical = logical] BY <2>1 DEF AddLogical
  <2>6. objects' \in Seq(Object) /\ DOMAIN objects' = DOMAIN objects
    <3>1. objects[i] \in Object BY <2>2 DEF TypeOK
    <3>2. [objects[i] EXCEPT !.logical = logical] \in Object BY <3>1, <2>4 DEF Object
    <3>3. objects' = [objects EXCEPT ![i] = [objects[i] EXCEPT !.logical = logical]]
      BY <2>5, <2>2 DEF TypeOK
    <3> HIDE DEF i, logical
    <3> QED BY <3>2, <3>3, <2>2 DEF TypeOK
  <2>7. granted' = granted \/ granted' = Append(granted, [first |-> first, last |-> last])
    BY <2>1 DEF AddLogical
  <2>8. granted' \in Seq(Grant)
    <3> DEFINE g == [first |-> first, last |-> last]
    <3>1. g \in Grant BY Zenon, <2>4 DEF Grant
    <3>2. granted' = granted \/ granted' = Append(granted, g) BY <2>7
    <3> HIDE DEF g
    <3>3. granted \in Seq(Grant) BY Zenon DEF TypeOK
    <3> QED BY <3>1, <3>2, <3>3
  <2>9. \E r \in Request : r.step # "loaded" /\ request' = [request EXCEPT ![n] = r]
    <3>1. \/ request' = [request EXCEPT ![n] = Sent]
          \/ request' = [request EXCEPT ![n] = NoRequest]
          \/ request' = [request EXCEPT ![n] = Answered(first)]
      BY <2>1 DEF AddLogical
    <3> HIDE DEF first
    <3> QED BY <3>1, <2>4, RequestForms
  <2>10. /\ request' \in [Nodes -> Request]
         /\ \A m \in Nodes : request'[m].step = "loaded" => request'[m] = request[m]
    BY <2>9 DEF TypeOK
  <2> QED BY <2>1, <2>6, <2>8, <2>10 DEF AddLogical, TypeOK, channelVars
<1>8. CASE \E n \in Nodes : AllocateOne(n)
  <2>1. PICK n \in Nodes : AllocateOne(n) BY <1>8
  <2>2. local[n] \in Batch BY DEF TypeOK
  <2>3. [local[n] EXCEPT !.next = @ + 1] \in Batch /\ local[n].next \in Nat BY <2>2 DEF Batch
  <2>4. local' = [local EXCEPT ![n] = [local[n] EXCEPT !.next = @ + 1]]
    BY <2>1 DEF AllocateOne, TypeOK
  <2>5. owner' \in Nodes /\ stage' \in Stages /\ lastTT' \in Nat
    BY <2>1, <2>3, DeliverType DEF AllocateOne
  <2> QED BY Zenon, <2>1, <2>3, <2>4, <2>5, NodeType DEF AllocateOne
<1>9. CASE \E n \in Nodes : BatchAllocate(n) \/ GiveUp(n)
  <2>1. PICK n \in Nodes : BatchAllocate(n) \/ GiveUp(n) BY <1>9
  <2>2. \E r \in Request : r.step # "loaded" /\ request' = [request EXCEPT ![n] = r]
    BY <2>1, RequestForms DEF BatchAllocate, GiveUp
  <2>3. UNCHANGED <<oracleVars, granted, local, channelVars>> BY <2>1 DEF BatchAllocate, GiveUp
  <2>4. owner' \in Nodes /\ stage' \in Stages /\ lastTT' \in Nat
    BY <2>3 DEF channelVars, TypeOK
  <2> QED BY Zenon, <2>2, <2>3, <2>4, NodeType
<1>10. CASE \E n \in Nodes : AllocateRemote(n)
  <2>1. PICK n \in Nodes : AllocateRemote(n) BY <1>10
  <2> DEFINE a == Updated(local[n], request[n].start)
  <2>2. a \in Batch
    <3>1. local[n] \in Batch /\ request[n].start \in Nat BY DEF TypeOK, Request
    <3> QED BY <3>1, TSOAssumption DEF Updated, Batch
  <2>3. [a EXCEPT !.next = @ + 1] \in Batch /\ a.next \in Nat
    <3> HIDE DEF a
    <3> QED BY <2>2 DEF Batch
  <2>4. \/ UNCHANGED <<local, channelVars>>
        \/ local' = [local EXCEPT ![n] = [a EXCEPT !.next = @ + 1]] /\ Deliver(n, a.next)
    BY <2>1 DEF AllocateRemote
  <2> HIDE DEF a
  <2>5. owner' \in Nodes /\ stage' \in Stages /\ lastTT' \in Nat
    BY <2>3, <2>4, DeliverType DEF channelVars, TypeOK
  <2>6. \E r \in Request : r.step # "loaded" /\ request' = [request EXCEPT ![n] = r]
    BY Zenon, <2>1, RequestForms DEF AllocateRemote
  <2>7. UNCHANGED <<oracleVars, granted>> BY <2>1 DEF AllocateRemote
  <2>8. local' = local \/ (\E b \in Batch : local' = [local EXCEPT ![n] = b]) BY <2>3, <2>4
  <2> QED BY Zenon, <2>5, <2>6, <2>7, <2>8, NodeType
<1>11. CASE \E n \in Nodes : RestartNode(n) \/ Open(n) \/ Sync(n)
  <2>1. PICK n \in Nodes : RestartNode(n) \/ Open(n) \/ Sync(n) BY <1>11
  <2>2. local[n] \in Batch BY DEF TypeOK
  <2>3. [local[n] EXCEPT !.next = local[n].end] \in Batch /\ [next |-> 0, end |-> 0] \in Batch
    BY <2>2 DEF Batch
  <2>4. [local EXCEPT ![n].next = local[n].end] = [local EXCEPT ![n] = [local[n] EXCEPT !.next = local[n].end]]
    BY DEF TypeOK
  <2>5. local' = local \/ (\E b \in Batch : local' = [local EXCEPT ![n] = b])
    BY <2>1, <2>3, <2>4 DEF RestartNode, Open, Sync
  <2>6. request' = request \/ (\E r \in Request : r.step # "loaded" /\ request' = [request EXCEPT ![n] = r])
    BY <2>1, RequestForms DEF RestartNode, Open, Sync
  <2>7. owner' \in Nodes /\ stage' \in Stages /\ lastTT' \in Nat
    BY <2>1 DEF RestartNode, Open, Sync, TypeOK, Stages
  <2>8. UNCHANGED <<oracleVars, granted>> BY <2>1 DEF RestartNode, Open, Sync
  <2> QED BY <2>5, <2>6, <2>7, <2>8, NodeType
<1>12. CASE UNCHANGED vars BY <1>12 DEF vars, TypeOK, channelVars, oracleVars
<1> QED BY <1>1, <1>2, <1>3, <1>4, <1>5, <1>6, <1>7, <1>8, <1>9, <1>10, <1>11, <1>12 DEF Next

------------------------------------------------------------------------------
(* A step of the oracle other than a grant, seen through its objects.       *)
Oracle == InitTimestamp \/ UpdateTimestamp \/ StoreTSO \/ Crash

OracleInv == Limited /\ TypeOK /\ ObjectsRise /\ Window

(* What InitTimestamp does when it succeeds and when it fails.              *)
LEMMA InitShape ==
  ASSUME OracleInv, InitTimestamp
  PROVE  \E start \in Nat \ {0} :
           /\ saved # NoTime => saved + Guard <= start
           /\ \/ /\ saved' = start + SaveInterval /\ lastSavedTime' = saved'
                 /\ objects' = <<[physical |-> start, logical |-> 0]>>
              \/ /\ saved' \in {saved, start + SaveInterval}
                 /\ lastSavedTime' = lastSavedTime /\ objects' = objects
<1>1. PICK now \in Clock :
        LET start == StartAt(saved, now)
        IN \/ /\ SaveSucceeds(start + SaveInterval)
              /\ objects' = <<[physical |-> start, logical |-> 0]>>
           \/ /\ SaveFails(start + SaveInterval)
              /\ UNCHANGED objects
  BY DEF InitTimestamp, LoadTimestamp, OracleInv, Limited
<1>2. /\ StartAt(saved, now) \in Nat \ {0}
      /\ saved # NoTime => saved + Guard <= StartAt(saved, now)
  BY StartFacts DEF OracleInv
<1> QED BY <1>1, <1>2 DEF SaveSucceeds, SaveFails

(* UpdateTimestamp never moves the window behind where it is needed.        *)
LEMMA UpdateShape ==
  ASSUME OracleInv, UpdateTimestamp
  PROVE  /\ lastSavedTime' <= saved'
         /\ \A i \in DOMAIN objects : objects[i].physical < saved'
         /\ next' # NoTime => next' < saved' /\ Ms(Current) < UnixMilli(next')
<1>1. PICK now \in Clock : \E t \in NextPhysical(Current, now) :
        IF lastSavedTime - t <= Guard
        THEN \/ SaveSucceeds(t + SaveInterval) /\ next' = t
             \/ SaveFails(t + SaveInterval) /\ UNCHANGED next
        ELSE next' = t /\ UNCHANGED <<saved, lastSavedTime>>
  BY DEF UpdateTimestamp
<1>2. PICK t \in NextPhysical(Current, now) :
        IF lastSavedTime - t <= Guard
        THEN \/ SaveSucceeds(t + SaveInterval) /\ next' = t
             \/ SaveFails(t + SaveInterval) /\ UNCHANGED next
        ELSE next' = t /\ UNCHANGED <<saved, lastSavedTime>>
  BY <1>1
<1>3. t \in Nat \ {0} /\ Current.physical + Guard <= t
  BY UpdateFacts DEF OracleInv, UpdateTimestamp
<1>4. /\ saved \in Nat /\ lastSavedTime \in Nat /\ lastSavedTime <= saved /\ next = NoTime
      /\ Current.physical \in Nat
  BY ObjectFacts DEF OracleInv, Window, TypeOK, UpdateTimestamp, Current
<1>5. Ms(Current) < UnixMilli(t) BY <1>3, <1>4, MilliOrder DEF Ms
<1>6. \A i \in DOMAIN objects : objects[i].physical < saved /\ objects[i].physical <= t
  <2> TAKE i \in DOMAIN objects
  <2>1. objects[i].physical < saved BY DEF OracleInv, Window, SavedAhead
  <2>2. objects[i].physical \in Nat /\ Ms(objects[i]) \in Nat BY ObjectFacts DEF OracleInv
  <2>3. objects[i].physical <= Current.physical
    <3>1. CASE i = Len(objects) BY <3>1, <2>2 DEF Current
    <3>2. CASE i # Len(objects)
      <4>1. Len(objects) \in DOMAIN objects /\ i < Len(objects)
        BY <3>2, ObjectFacts DEF OracleInv, UpdateTimestamp
      <4>2. Ms(objects[i]) < Ms(Current) BY <4>1 DEF OracleInv, ObjectsRise, Current
      <4> QED BY <4>2, <2>2, <1>4, MilliOrder DEF Ms
    <3> QED BY <3>1, <3>2
  <2> QED BY <2>1, <2>2, <2>3, <1>3, <1>4 DEF Guard, Milli
<1>7. \A i \in DOMAIN objects : objects[i].physical \in Nat BY ObjectFacts DEF OracleInv
<1>8. CASE lastSavedTime - t <= Guard /\ SaveSucceeds(t + SaveInterval) /\ next' = t
  BY <1>8, <1>3, <1>4, <1>5, <1>6, <1>7, TSOAssumption DEF SaveSucceeds, NoTime
<1>9. CASE lastSavedTime - t <= Guard /\ SaveFails(t + SaveInterval) /\ UNCHANGED next
  BY <1>9, <1>3, <1>4, <1>6, <1>7, TSOAssumption DEF SaveFails, NoTime, Guard, Milli
<1>10. CASE ~(lastSavedTime - t <= Guard) /\ next' = t /\ UNCHANGED <<saved, lastSavedTime>>
  BY <1>10, <1>3, <1>4, <1>5, <1>6 DEF Guard, Milli
<1> QED BY <1>2, <1>8, <1>9, <1>10

(* A new millisecond begins behind everything of the earlier ones.          *)
LEMMA NewObject ==
  ASSUME NEW p \in Nat, NEW q \in Nat, p < q, NEW ts \in Int, ts < Base(p + 1)
  PROVE  ts <= Base(q) /\ ts < Base(q + 1)
<1>1. Base(p + 1) \in Nat /\ Base(q) \in Nat BY BaseType
<1>2. Base(p + 1) <= Base(q) BY BaseOrder
<1>3. Base(q + 1) = Base(q) + MaxLogical BY BaseNext
<1> QED BY <1>1, <1>2, <1>3, TSOAssumption

(* Steps of the oracle that grant nothing keep its order and its window.    *)
LEMMA OracleStep ==
  ASSUME OracleInv, Oracle
  PROVE  OracleInv'
<1>1. TypeOK'
  BY TypeStep DEF OracleInv, Limited, Oracle, Next
<1>2. CASE InitTimestamp
  <2>1. PICK start \in Nat \ {0} :
           /\ saved # NoTime => saved + Guard <= start
           /\ \/ /\ saved' = start + SaveInterval /\ lastSavedTime' = saved'
                 /\ objects' = <<[physical |-> start, logical |-> 0]>>
              \/ /\ saved' \in {saved, start + SaveInterval}
                 /\ lastSavedTime' = lastSavedTime /\ objects' = objects
    BY <1>2, InitShape
  <2>2. ~Running /\ next = NoTime /\ next' = NoTime
    BY <1>2 DEF InitTimestamp, OracleInv, Window
  <2>3. objects = << >> /\ saved \in Nat BY <2>2 DEF Running, OracleInv, TypeOK
  <2>4. CASE objects' = objects
    BY <2>2, <2>3, <2>4, <1>1 DEF OracleInv, ObjectsRise, Window, SavedAhead, Running
  <2>5. CASE /\ saved' = start + SaveInterval /\ lastSavedTime' = saved'
             /\ objects' = <<[physical |-> start, logical |-> 0]>>
    <3>1. DOMAIN objects' = {1} /\ objects'[1].physical = start BY <2>5
    <3>2. ObjectsRise' BY <3>1 DEF ObjectsRise
    <3>3. SavedAhead' BY <3>1, <2>5, TSOAssumption DEF SavedAhead
    <3>4. Window' BY <3>3, <2>2, <2>5, TSOAssumption DEF Window
    <3> QED BY <1>1, <3>2, <3>4 DEF OracleInv, Limited
  <2> QED BY <2>1, <2>4, <2>5
<1>3. CASE UpdateTimestamp
  <2>1. objects' = objects /\ Running BY <1>3 DEF UpdateTimestamp
  <2>2. ObjectsRise' BY <2>1 DEF ObjectsRise, OracleInv
  <2>3. SavedAhead' BY <1>3, <2>1, UpdateShape DEF SavedAhead
  <2>4. Window' BY <1>3, <2>1, <2>3, UpdateShape DEF Window, Running, Current
  <2> QED BY <1>1, <2>2, <2>4 DEF OracleInv, Limited
<1>4. CASE StoreTSO
  <2> DEFINE o == [physical |-> next, logical |-> 0]
  <2>1. objects' = Append(objects, o) /\ next' = NoTime /\ saved' = saved /\ lastSavedTime' = lastSavedTime
    BY <1>4 DEF StoreTSO
  <2>2. Running /\ next < saved /\ Ms(Current) < UnixMilli(next)
    BY <1>4 DEF StoreTSO, OracleInv, Window
  <2>3. /\ Len(objects) \in Nat \ {0} /\ DOMAIN objects = 1 .. Len(objects)
        /\ DOMAIN objects' = 1 .. Len(objects) + 1
        /\ \A i \in 1 .. Len(objects) : objects'[i] = objects[i]
        /\ objects'[Len(objects) + 1].physical = next
    BY <2>1, <2>2, ObjectFacts DEF OracleInv, TypeOK
  <2>4. SavedAhead'
    BY <2>1, <2>2, <2>3 DEF SavedAhead, OracleInv, Window
  <2>5. \A i \in DOMAIN objects : Ms(objects[i]) <= Ms(Current) /\ Ms(objects[i]) \in Nat
    <3> SUFFICES ASSUME NEW i \in DOMAIN objects
                 PROVE  Ms(objects[i]) <= Ms(Current) /\ Ms(objects[i]) \in Nat
      OBVIOUS
    <3> DEFINE l == Len(objects)
    <3>1. l \in DOMAIN objects /\ (i = l \/ i < l) BY <2>3
    <3>2. Ms(objects[i]) \in Nat /\ Ms(objects[l]) \in Nat
      BY Zenon, <3>1, ObjectFacts DEF OracleInv
    <3>3. i < l => Ms(objects[i]) < Ms(objects[l])
      BY Zenon, <3>1 DEF OracleInv, ObjectsRise
    <3>4. Ms(Current) = Ms(objects[l]) BY Zenon DEF Current
    <3> HIDE DEF l
    <3> QED BY <3>1, <3>2, <3>3, <3>4
  <2>6. Ms(Current) \in Nat /\ UnixMilli(next) \in Nat
    BY Zenon, <2>2, ObjectFacts, MilliType DEF OracleInv, TypeOK, Current
  <2>7. ObjectsRise'
    <3> SUFFICES ASSUME NEW i \in DOMAIN objects', NEW j \in DOMAIN objects', i < j
                 PROVE  Ms(objects'[i]) < Ms(objects'[j])
      BY DEF ObjectsRise, Ms
    <3>1. CASE j = Len(objects) + 1
      <4>1. i \in DOMAIN objects /\ objects'[i] = objects[i] BY <3>1, <2>3
      <4>2. Ms(objects'[j]) = UnixMilli(next) BY <3>1, <2>3 DEF Ms
      <4> QED BY <4>1, <4>2, <2>2, <2>5, <2>6
    <3>2. CASE j # Len(objects) + 1
      BY <3>2, <2>3 DEF OracleInv, ObjectsRise
    <3> QED BY <3>1, <3>2
  <2>8. Window' BY <2>1, <2>2, <2>4 DEF Window, OracleInv, Running, TypeOK
  <2> QED BY <1>1, <2>7, <2>8 DEF OracleInv, Limited
<1>5. CASE Crash
  <2>1. objects' = << >> /\ next' = NoTime BY <1>5 DEF Crash
  <2>2. DOMAIN objects' = {} BY <2>1
  <2> QED BY <1>1, <2>1, <2>2 DEF OracleInv, Limited, ObjectsRise, Window, SavedAhead, Running
<1> QED BY <1>2, <1>3, <1>4, <1>5 DEF Oracle

(* What is past stays past, over new objects, crashes and restarts.         *)
LEMMA OraclePast ==
  ASSUME OracleInv, Oracle, NEW ts \in Int, Past(ts)
  PROVE  Past(ts)'
<1>1. saved \in Nat /\ UnixMilli(saved) \in Nat BY Zenon, MilliType DEF OracleInv, TypeOK
<1>2. CASE InitTimestamp
  <2>1. PICK start \in Nat \ {0} :
           /\ saved # NoTime => saved + Guard <= start
           /\ \/ /\ saved' = start + SaveInterval /\ lastSavedTime' = saved'
                 /\ objects' = <<[physical |-> start, logical |-> 0]>>
              \/ /\ saved' \in {saved, start + SaveInterval}
                 /\ lastSavedTime' = lastSavedTime /\ objects' = objects
    BY <1>2, InitShape
  <2>2. ~Running /\ objects = << >> BY <1>2 DEF InitTimestamp, Running
  <2>3. ts < Base(UnixMilli(saved) + 1) /\ (saved = NoTime => ts <= 0) BY <2>2 DEF Past
  <2>4. UnixMilli(start) \in Nat /\ Base(UnixMilli(start)) \in Nat BY MilliType, BaseType
  <2>5. ts <= Base(UnixMilli(start)) /\ ts < Base(UnixMilli(start) + 1)
    <3>1. CASE saved = NoTime
      BY <3>1, <2>3, <2>4, BaseNext, TSOAssumption
    <3>2. CASE saved # NoTime
      <4>1. UnixMilli(saved) < UnixMilli(start) BY <3>2, <2>1, <1>1, MilliOrder
      <4> QED BY <4>1, <2>3, <2>4, <1>1, NewObject
    <3> QED BY <3>1, <3>2
  <2>6. CASE objects' = <<[physical |-> start, logical |-> 0]>>
    <3>1. Running' /\ Current' = [physical |-> start, logical |-> 0] BY <2>6 DEF Running, Current
    <3>2. Ms(Current') = UnixMilli(start) BY <3>1 DEF Ms
    <3>3. Reached(Current') = Base(UnixMilli(start)) BY <3>1, <3>2, <2>4 DEF Reached
    <3> QED BY <3>1, <3>2, <3>3, <2>5 DEF Past, Ms, Reached
  <2>7. CASE objects' = objects /\ saved' = saved BY <2>7, <2>2, <2>3 DEF Past, Running
  <2>8. CASE objects' = objects /\ saved' = start + SaveInterval
    <3>1. saved' \in Nat \ {0} /\ UnixMilli(start) <= UnixMilli(saved')
      BY <2>8, MilliOrder, TSOAssumption
    <3>2. UnixMilli(saved') \in Nat BY <3>1, MilliType
    <3>3. Base(UnixMilli(start) + 1) <= Base(UnixMilli(saved') + 1)
      <4>1. CASE UnixMilli(start) = UnixMilli(saved') BY <4>1, <3>2, BaseType
      <4>2. CASE UnixMilli(start) < UnixMilli(saved')
        BY <4>2, <3>2, <2>4, BaseOrder, BaseNext, BaseType, TSOAssumption
      <4> QED BY <4>1, <4>2, <3>1, <3>2, <2>4
    <3>4. Base(UnixMilli(start) + 1) \in Nat /\ Base(UnixMilli(saved') + 1) \in Nat
      BY <3>2, <2>4, BaseType
    <3> QED BY <2>8, <2>2, <2>5, <3>1, <3>3, <3>4 DEF Past, Running, NoTime
  <2> QED BY <2>1, <2>6, <2>7, <2>8
<1>3. CASE UpdateTimestamp
  <2>1. objects' = objects /\ Running BY <1>3 DEF UpdateTimestamp
  <2> QED BY <2>1 DEF Past, Running, Current, Ms, Reached
<1>4. CASE StoreTSO
  <2> DEFINE o == [physical |-> next, logical |-> 0]
  <2>1. Running /\ Ms(Current) < UnixMilli(next) BY <1>4 DEF StoreTSO, OracleInv, Window
  <2>2. objects' = Append(objects, o) BY <1>4 DEF StoreTSO
  <2>3. Running' /\ Current' = o
    <3>1. objects \in Seq(Object) BY Zenon DEF OracleInv, TypeOK
    <3> HIDE DEF o
    <3> QED BY <2>2, <3>1 DEF Running, Current
  <2>4. Ms(Current) \in Nat /\ UnixMilli(next) \in Nat
    BY Zenon, <2>1, ObjectFacts, MilliType DEF OracleInv, TypeOK, Current
  <2>5. ts <= Base(UnixMilli(next)) /\ ts < Base(UnixMilli(next) + 1)
    BY <2>1, <2>4, NewObject DEF Past
  <2>6. Ms(Current') = UnixMilli(next) BY <2>3 DEF Ms
  <2>7. Reached(Current') = Base(UnixMilli(next)) BY <2>3, <2>4, <2>6, BaseType DEF Reached
  <2> QED BY <2>3, <2>5, <2>6, <2>7 DEF Past, Ms, Reached
<1>5. CASE Crash
  <2>1. Running /\ objects' = << >> /\ saved' = saved BY <1>5 DEF Crash
  <2>2. Len(objects) \in DOMAIN objects BY <2>1, ObjectFacts DEF OracleInv
  <2>3. Current.physical \in Nat /\ Ms(Current) \in Nat /\ Current.physical < saved
    BY <2>2, ObjectFacts DEF OracleInv, Window, SavedAhead, Current
  <2>4. Ms(Current) <= UnixMilli(saved) BY <2>3, <1>1, MilliOrder DEF Ms
  <2>5. ts < Base(UnixMilli(saved) + 1)
    <3>1. ts < Base(Ms(Current) + 1) BY <2>1 DEF Past
    <3>2. CASE Ms(Current) = UnixMilli(saved) BY <3>1, <3>2
    <3>3. CASE Ms(Current) < UnixMilli(saved) BY <3>1, <3>3, <2>3, <1>1, NewObject
    <3> QED BY <3>2, <3>3, <2>3, <2>4, <1>1
  <2> QED BY <2>1, <2>3, <2>5 DEF Past, Running, NoTime
<1> QED BY <1>2, <1>3, <1>4, <1>5 DEF Oracle

(* A step of the oracle that grants nothing keeps its objects, starts a new *)
(* current one, or loses all of them with the requests that hold them.      *)
LEMMA OracleShape ==
  ASSUME OracleInv, Oracle
  PROVE  /\ UNCHANGED <<granted, local, owner, stage, lastTT>>
         /\ \A i \in DOMAIN objects' :
              \/ i \in DOMAIN objects /\ objects'[i] = objects[i]
              \/ Running' /\ objects'[i] = Current'
         /\ \A n \in Nodes :
              /\ request'[n].step \in {"loaded", "answered"} => request'[n] = request[n]
              /\ request'[n].step = "loaded" => objects'[request[n].object] = objects[request[n].object]
<1>0. \A n \in Nodes : request[n].step = "loaded" => request[n].object \in DOMAIN objects
  BY DEF OracleInv, TypeOK
<1>1. CASE InitTimestamp
  <2>1. objects = << >> BY <1>1 DEF InitTimestamp, Running
  <2>2. DOMAIN objects = {} BY <2>1
  <2>3. objects' = objects \/ (\E o : objects' = <<o>>) BY <1>1 DEF InitTimestamp
  <2>4. \A o : objects' = <<o>> => DOMAIN objects' = {1} /\ objects'[1] = Current' /\ Running'
    BY DEF Current, Running
  <2> QED BY Zenon, <1>0, <1>1, <2>2, <2>3, <2>4 DEF InitTimestamp, channelVars
<1>2. CASE UpdateTimestamp BY Zenon, <1>2 DEF UpdateTimestamp, channelVars
<1>3. CASE StoreTSO
  <2> DEFINE o == [physical |-> next, logical |-> 0]
  <2>1. objects' = Append(objects, o) BY <1>3 DEF StoreTSO
  <2>2. objects \in Seq(Object) /\ o \in Object
    BY <1>3 DEF StoreTSO, OracleInv, TypeOK, Object, NoTime
  <2> HIDE DEF o
  <2>3. /\ DOMAIN objects = 1 .. Len(objects) /\ DOMAIN objects' = 1 .. Len(objects) + 1
        /\ Len(objects) \in Nat
        /\ \A i \in 1 .. Len(objects) : objects'[i] = objects[i]
        /\ Running' /\ Len(objects') = Len(objects) + 1
    BY <2>1, <2>2 DEF Running
  <2>4. request' = request /\ UNCHANGED <<granted, local, owner, stage, lastTT>>
    BY <1>3 DEF StoreTSO, channelVars
  <2>5. \A i \in DOMAIN objects' : i \in DOMAIN objects \/ i = Len(objects') BY <2>3
  <2> QED BY Zenon, <1>0, <2>3, <2>4, <2>5 DEF Current
<1>4. CASE Crash
  <2>1. DOMAIN objects' = {} BY <1>4 DEF Crash
  <2>2. \A n \in Nodes : request'[n].step # "loaded" /\ (request'[n].step = "answered" => request'[n] = request[n])
    BY <1>4, RequestForms DEF Crash
  <2> QED BY <1>4, <2>1, <2>2 DEF Crash, channelVars
<1> QED BY Zenon, <1>1, <1>2, <1>3, <1>4 DEF Oracle

(* The numbers that timestamps are compared with (Allocate, GenerateTSO).   *)
LEMMA TimestampFacts ==
  ASSUME TypeOK
  PROVE  /\ \A k \in DOMAIN granted : granted[k].first \in Nat /\ granted[k].last \in Nat
         /\ \A n \in Nodes : /\ local[n].next \in Nat /\ local[n].end \in Nat
                            /\ request[n].start \in Nat
                            /\ local[n].end - 1 \in Int /\ request[n].start + BatchSize - 1 \in Int
         /\ lastTT \in Nat
<1>1. \A k \in DOMAIN granted : granted[k] \in Grant BY DEF TypeOK
<1>2. \A n \in Nodes : local[n] \in Batch /\ request[n] \in Request BY Zenon DEF TypeOK
<1>3. \A k \in DOMAIN granted : granted[k].first \in Nat /\ granted[k].last \in Nat
  BY <1>1 DEF Grant
<1>4. \A n \in Nodes : local[n].next \in Nat /\ local[n].end \in Nat /\ request[n].start \in Nat
  BY Zenon, <1>2 DEF Batch, Request
<1>5. \A t \in Nat : t - 1 \in Int /\ t + BatchSize - 1 \in Int BY TSOAssumption
<1>6. lastTT \in Nat BY Zenon DEF TypeOK
<1> QED BY Zenon, <1>3, <1>4, <1>5, <1>6

(* The invariant over the steps of the oracle that grant nothing.           *)
LEMMA OracleKeeps ==
  ASSUME IInv, Oracle
  PROVE  IInv'
<1>0. OracleInv /\ TypeOK BY DEF IInv, OracleInv
<1>1. OracleInv' BY <1>0, OracleStep
<1>2. UNCHANGED <<granted, local, owner, stage, lastTT>> BY <1>0, OracleShape
<1>3. AllPast'
  <2>1. \A ts \in Int : Past(ts) => Past(ts)' BY <1>0, OraclePast
  <2>2. \A n \in Nodes : request'[n].step = "answered" => request'[n] = request[n]
    BY <1>0, OracleShape
  <2>3. \A k \in DOMAIN granted : Past(granted[k].last)'
    BY <1>0, <1>2, <2>1, TimestampFacts DEF IInv, AllPast
  <2>4. \A n \in Nodes : Past(local[n].end - 1)'
    BY <1>0, <1>2, <2>1, TimestampFacts DEF IInv, AllPast
  <2>5. \A n \in Nodes : request'[n].step = "answered" => Past(request[n].start + BatchSize - 1)'
    BY <1>0, <2>1, <2>2, TimestampFacts DEF IInv, AllPast
  <2>6. Past(lastTT)' BY <1>0, <1>2, <2>1, TimestampFacts DEF IInv, AllPast
  <2> QED BY Zenon, <1>2, <2>2, <2>3, <2>4, <2>5, <2>6 DEF AllPast
<1>4. Apart'
  <2> SUFFICES ASSUME NEW k \in DOMAIN granted', NEW i \in DOMAIN objects'
               PROVE  \/ granted'[k].last <= Reached(objects'[i])
                      \/ granted'[k].first >= Base(Ms(objects'[i]) + 1)
    BY DEF Apart, Reached, Ms
  <2>1. CASE i \in DOMAIN objects /\ objects'[i] = objects[i]
    BY <2>1, <1>2 DEF IInv, Apart
  <2>2. CASE Running' /\ objects'[i] = Current'
    <3>1. Past(granted[k].last)' BY <1>2, <1>3 DEF AllPast
    <3> QED BY <2>2, <3>1, <1>2 DEF Past, Reached, Ms
  <2> QED BY <2>1, <2>2, <1>0, OracleShape
<1>5. BatchesDisjoint' BY <1>2 DEF IInv, BatchesDisjoint
<1>6. OwnerAhead'
  <2>1. owner \in Nodes BY <1>0 DEF TypeOK
  <2>2. /\ request'[owner].step \in {"loaded", "answered"} => request'[owner] = request[owner]
        /\ request'[owner].step = "loaded" => objects'[request[owner].object] = objects[request[owner].object]
    BY Zenon, <1>0, <2>1, OracleShape
  <2> QED BY <1>2, <2>2 DEF IInv, OwnerAhead, Reached, Ms
<1> QED BY <1>1, <1>3, <1>4, <1>5, <1>6 DEF IInv, OracleInv

(* A grant: GenerateTSO adds to an object, which need not be the current    *)
(* one any more, and the batch lies between what the object had reached and *)
(* the end of its millisecond.                                              *)
LEMMA GrantKeeps ==
  ASSUME IInv, NEW n \in Nodes, AddLogical(n)
  PROVE  IInv'
<1> DEFINE i == request[n].object
           logical == objects[i].logical + BatchSize
           last == ComposeTS(UnixMilli(objects[i].physical), logical)
           first == last - BatchSize + 1
<1>0. TypeOK /\ Limited BY DEF IInv
<1>1. TypeOK' BY <1>0, TypeStep DEF Limited, Next
<1>2. i \in DOMAIN objects BY <1>0 DEF AddLogical, TypeOK
<1>3. /\ Ms(objects[i]) \in Nat /\ Base(Ms(objects[i])) \in Nat /\ Base(Ms(objects[i]) + 1) \in Nat
      /\ objects[i].logical \in Nat /\ BatchSize \in Nat \ {0} /\ MaxLogical \in Nat \ {0}
      /\ Base(Ms(objects[i]) + 1) = Base(Ms(objects[i])) + MaxLogical
  <2> HIDE DEF i
  <2> QED BY <1>0, <1>2, ObjectFacts, TSOAssumption, BaseNext
<1>4. last = Reached(objects[i]) + BatchSize /\ first = Reached(objects[i]) + 1
      /\ last \in Nat /\ first \in Nat /\ Reached(objects[i]) \in Nat
  <2>1. last = Base(Ms(objects[i])) + logical BY DEF ComposeTS, Base, Ms
  <2> HIDE DEF last, i
  <2> QED BY <2>1, <1>3 DEF Reached
<1>5. /\ DOMAIN objects' = DOMAIN objects /\ Len(objects') = Len(objects)
      /\ \A j \in DOMAIN objects : j # i => objects'[j] = objects[j]
      /\ objects'[i].physical = objects[i].physical /\ objects'[i].logical = logical
  <2>1. objects' = [objects EXCEPT ![i].logical = logical] BY DEF AddLogical
  <2>2. objects[i] \in Object BY <1>0, <1>2 DEF TypeOK
  <2>3. objects'[i] = [objects[i] EXCEPT !.logical = logical] BY <2>1, <1>2
  <2>4. objects'[i].physical = objects[i].physical /\ objects'[i].logical = logical
    <3> HIDE DEF logical, i
    <3> QED BY <2>2, <2>3 DEF Object
  <2>5. DOMAIN objects' = DOMAIN objects /\ Len(objects') = Len(objects)
    BY <2>1, <1>0, <1>1 DEF TypeOK
  <2>6. \A j \in DOMAIN objects : j # i => objects'[j] = objects[j]
    <3> HIDE DEF logical, i
    <3> QED BY <2>1
  <2> QED BY Zenon, <2>4, <2>5, <2>6
<1>6. \A j \in DOMAIN objects : Ms(objects'[j]) = Ms(objects[j]) /\ objects'[j].physical = objects[j].physical
  BY Zenon, <1>5 DEF Ms
<1>7. /\ Reached(objects'[i]) = last
      /\ \A j \in DOMAIN objects : /\ Reached(objects'[j]) >= Reached(objects[j])
                                  /\ Reached(objects[j]) \in Nat /\ Reached(objects'[j]) \in Nat
  <2>1. Reached(objects'[i]) = Base(Ms(objects[i])) + logical
    BY <1>2, <1>5, <1>6 DEF Reached
  <2>2. last = Base(Ms(objects[i])) + logical BY DEF ComposeTS, Base, Ms
  <2>3. \A j \in DOMAIN objects : Reached(objects[j]) \in Nat BY <1>0, ObjectFacts
  <2> HIDE DEF i, last, logical
  <2>4. Reached(objects'[i]) = last BY <2>1, <2>2
  <2>5. last >= Reached(objects[i]) BY <1>3, <1>4
  <2>6. \A j \in DOMAIN objects : j # i => Reached(objects'[j]) = Reached(objects[j]) BY <1>5
  <2> QED BY SMTT(20), <2>3, <2>4, <2>5, <2>6, <1>4
<1>8. \/ /\ granted' = granted
         /\ request' = [request EXCEPT ![n] = Sent] \/ request' = [request EXCEPT ![n] = NoRequest]
      \/ /\ logical < MaxLogical
         /\ granted' = Append(granted, [first |-> first, last |-> last])
         /\ request' = [request EXCEPT ![n] = Answered(first)]
  <2>1. CASE Refused(logical) BY <2>1 DEF AddLogical
  <2>2. CASE ~Refused(logical)
    <3>1. logical < MaxLogical
      <4>1. logical \in Nat BY <1>3
      <4> HIDE DEF logical
      <4> QED BY SMTT(20), <2>2, <1>0, <1>3, <4>1 DEF Refused, Limited
    <3> QED BY <2>2, <3>1 DEF AddLogical
  <2> QED BY Zenon, <2>1, <2>2
<1>9. UNCHANGED <<saved, lastSavedTime, next, local, owner, stage, lastTT>>
  BY DEF AddLogical, channelVars
<1> HIDE DEF i, logical, last, first
<1>10. ObjectsRise' BY <1>5, <1>6 DEF IInv, ObjectsRise, Ms
<1>11. Running /\ Running' /\ Len(objects) \in DOMAIN objects /\ Current' = objects'[Len(objects)]
  <2>1. Running BY <1>0, <1>2 DEF Running, TypeOK
  <2>2. Len(objects) \in DOMAIN objects BY <2>1, <1>0, ObjectFacts
  <2> QED BY <2>1, <2>2, <1>5 DEF Running, Current
<1>12. Window'
  <2>1. SavedAhead' BY <1>5, <1>6, <1>9 DEF IInv, Window, SavedAhead
  <2>2. Ms(Current') = Ms(Current) BY <1>6, <1>11 DEF Current
  <2> QED BY <2>1, <2>2, <1>9, <1>11 DEF IInv, Window, Ms
<1>13. \A ts \in Int : Past(ts) => Past(ts)'
  <2>1. Reached(Current') >= Reached(Current) /\ Ms(Current') = Ms(Current)
        /\ Reached(Current) \in Nat /\ Reached(Current') \in Nat
    BY Zenon, <1>6, <1>7, <1>11 DEF Current
  <2> QED BY <2>1, <1>11 DEF Past, Ms, Reached
<1>14. CASE granted' = granted /\ (request' = [request EXCEPT ![n] = Sent] \/ request' = [request EXCEPT ![n] = NoRequest])
  <2>1. \A m \in Nodes : request'[m].step \in {"loaded", "answered"} => request'[m] = request[m]
    BY <1>14, <1>0, RequestForms DEF TypeOK
  <2>2. AllPast'
    <3>1. \A k \in DOMAIN granted : Past(granted[k].last)' BY <1>0, <1>13, <1>14, TimestampFacts
                                                              DEF IInv, AllPast
    <3>2. \A m \in Nodes : Past(local[m].end - 1)' BY Zenon, <1>0, <1>9, <1>13, TimestampFacts
                                                      DEF IInv, AllPast
    <3>3. \A m \in Nodes : request'[m].step = "answered" => Past(request[m].start + BatchSize - 1)'
      BY Zenon, <1>0, <1>13, <2>1, TimestampFacts DEF IInv, AllPast
    <3>4. Past(lastTT)' BY <1>0, <1>9, <1>13, TimestampFacts DEF IInv, AllPast
    <3> QED BY Zenon, <1>9, <1>14, <2>1, <3>1, <3>2, <3>3, <3>4 DEF AllPast
  <2>3. Apart'
    <3> SUFFICES ASSUME NEW k \in DOMAIN granted, NEW j \in DOMAIN objects
                 PROVE  granted[k].last <= Reached(objects'[j]) \/ granted[k].first >= Base(Ms(objects'[j]) + 1)
      BY <1>5, <1>14 DEF Apart, Reached, Ms
    <3>1. granted[k].last \in Nat BY <1>0, TimestampFacts
    <3>2. granted[k].last <= Reached(objects[j]) \/ granted[k].first >= Base(Ms(objects[j]) + 1)
      BY DEF IInv, Apart
    <3> QED BY <3>1, <3>2, <1>6, <1>7
  <2>4. BatchesDisjoint' BY <1>14 DEF IInv, BatchesDisjoint
  <2>5. OwnerAhead'
    <3>1. owner \in Nodes /\ lastTT \in Nat BY <1>0 DEF TypeOK
    <3>2. request'[owner].step = "loaded" => request'[owner] = request[owner] /\ request[owner].object \in DOMAIN objects
      BY <2>1, <3>1, <1>0 DEF TypeOK
    <3>3. request'[owner].step = "loaded" => Reached(objects'[request[owner].object]) >= Reached(objects[request[owner].object])
      BY Zenon, <3>2, <1>7
    <3>4. request'[owner].step = "answered" => request'[owner] = request[owner] BY <2>1, <3>1
    <3>5. stage \in {"synced", "open"} /\ request'[owner].step = "loaded" => lastTT <= Reached(objects'[request[owner].object])
      BY SMTT(20), <3>1, <3>2, <3>3, <1>7 DEF IInv, OwnerAhead
    <3> QED BY Zenon, <1>9, <3>2, <3>4, <3>5 DEF IInv, OwnerAhead, Reached, Ms
  <2> QED BY <1>0, <1>1, <1>10, <1>12, <2>2, <2>3, <2>4, <2>5 DEF IInv, Limited
<1>15. CASE /\ logical < MaxLogical
            /\ granted' = Append(granted, [first |-> first, last |-> last])
            /\ request' = [request EXCEPT ![n] = Answered(first)]
  <2>1. last < Base(Ms(objects[i]) + 1) /\ first > Base(Ms(objects[i]))
    <3>1. last = Base(Ms(objects[i])) + logical BY DEF ComposeTS, Base, Ms, last
    <3>2. first = Base(Ms(objects[i])) + objects[i].logical + 1 BY <1>4, <1>3 DEF Reached
    <3>3. /\ Base(Ms(objects[i])) \in Nat /\ objects[i].logical \in Nat /\ logical \in Nat
          /\ logical < MaxLogical
      <4>1. \A a, b \in Nat : a + b \in Nat OBVIOUS
      <4>2. logical \in Nat BY Zenon, <4>1, <1>3 DEF logical
      <4> QED BY Zenon, <4>2, <1>3, <1>15
    <3>4. Base(Ms(objects[i]) + 1) = Base(Ms(objects[i])) + MaxLogical BY Zenon, <1>3
    <3>5. first > Base(Ms(objects[i])) BY <3>2, <3>3
    <3>6. last < Base(Ms(objects[i]) + 1) BY <3>1, <3>3, <3>4, TSOAssumption
    <3> QED BY Zenon, <3>5, <3>6
  <2>2. /\ DOMAIN granted = 1 .. Len(granted) /\ Len(granted) \in Nat
        /\ DOMAIN granted' = 1 .. Len(granted) + 1
        /\ \A k \in DOMAIN granted : granted'[k] = granted[k]
        /\ granted'[Len(granted) + 1].first = first /\ granted'[Len(granted) + 1].last = last
    BY SMTT(20), <1>15, <1>0 DEF TypeOK
  <2>3. \A m \in Nodes : m # n => request'[m] = request[m]
    BY Zenon, <1>15, <1>0 DEF TypeOK
  <2>4. request'[n].step = "answered" /\ request'[n].start = first
    BY <1>15, <1>0, <1>4, RequestForms DEF TypeOK
  <2>5. \A ts \in Int : ts = last => Past(ts)'
    <3> SUFFICES ASSUME NEW ts \in Int, ts = last
                 PROVE  ts <= Reached(Current') /\ ts < Base(Ms(Current') + 1)
      BY <1>11 DEF Past, Ms, Reached
    <3>1. Ms(Current') = Ms(Current) /\ Ms(Current) \in Nat /\ Reached(Current') \in Nat
      BY Zenon, <1>0, <1>6, <1>7, <1>11, ObjectFacts DEF Current
    <3>2. CASE i = Len(objects)
      <4>1. Current' = objects'[i] /\ Current = objects[i] BY <3>2, <1>11 DEF Current
      <4> QED BY <4>1, <3>1, <1>7, <2>1, <1>4
    <3>3. CASE i # Len(objects)
      <4>1. i < Len(objects) BY <3>3, <1>0, <1>2, ObjectFacts
      <4>2. Ms(objects[i]) < Ms(Current) BY <4>1, <1>2, <1>11 DEF IInv, ObjectsRise, Current
      <4>3. ts <= Base(Ms(Current)) /\ ts < Base(Ms(Current) + 1)
        BY <4>2, <3>1, <2>1, <1>3, <1>4, NewObject
      <4>4. Base(Ms(Current)) <= Reached(Current) /\ Base(Ms(Current)) \in Nat /\ Reached(Current) \in Nat
        BY <1>0, <1>11, ObjectFacts DEF Reached, Current
      <4>5. Reached(Current) <= Reached(Current') BY <1>7, <1>11 DEF Current
      <4> QED BY <4>3, <4>4, <4>5, <3>1
    <3> QED BY <3>2, <3>3
  <2>6. AllPast'
    <3>1. ASSUME NEW k \in DOMAIN granted' PROVE Past(granted[k].last)'
      <4>1. CASE k = Len(granted) + 1
        <5>1. PICK ts \in Int : ts = last BY <1>4
        <5>2. ts = granted'[k].last BY <4>1, <5>1, <2>2
        <5>3. Past(ts)' BY <5>1, <2>5
        <5> QED BY <5>2, <5>3
      <4>2. CASE k # Len(granted) + 1
        <5>1. k \in DOMAIN granted BY <4>2, <2>2
        <5>2. PICK ts \in Int : ts = granted[k].last BY <5>1, <1>0, TimestampFacts
        <5>3. Past(ts)' BY <5>1, <5>2, <1>13 DEF IInv, AllPast
        <5>4. ts = granted'[k].last BY <5>1, <5>2, <2>2
        <5> QED BY <5>3, <5>4
      <4> QED BY <4>1, <4>2
    <3>2. \A m \in Nodes : Past(local[m].end - 1)' BY <1>0, <1>9, <1>13, TimestampFacts
                                                      DEF IInv, AllPast
    <3>3. ASSUME NEW m \in Nodes, request'[m].step = "answered"
          PROVE  Past(request[m].start + BatchSize - 1)'
      <4>1. CASE m = n
        <5>1. PICK ts \in Int : ts = last BY <1>4
        <5>2. ts = request'[m].start + BatchSize - 1 BY <4>1, <5>1, <2>4, <1>3, <1>4
        <5>3. Past(ts)' BY <5>1, <2>5
        <5> QED BY <5>2, <5>3
      <4>2. CASE m # n
        <5>1. request'[m] = request[m] BY <4>2, <2>3
        <5>2. PICK ts \in Int : ts = request[m].start + BatchSize - 1 BY Zenon, <1>0, TimestampFacts
        <5>3. Past(ts)' BY Zenon, <5>1, <5>2, <3>3, <1>13 DEF IInv, AllPast
        <5> QED BY <5>1, <5>2, <5>3
      <4> QED BY <4>1, <4>2
    <3>4. Past(lastTT)' BY <1>0, <1>9, <1>13, TimestampFacts DEF IInv, AllPast
    <3> QED BY <3>1, <3>2, <3>3, <3>4 DEF AllPast
  <2>7. \A k \in DOMAIN granted : granted[k].last < first \/ last < granted[k].first
    <3> TAKE k \in DOMAIN granted
    <3>1. granted[k].last \in Nat /\ granted[k].first \in Nat BY <1>0, TimestampFacts
    <3>2. granted[k].last <= Reached(objects[i]) \/ granted[k].first >= Base(Ms(objects[i]) + 1)
      BY <1>2 DEF IInv, Apart
    <3> QED BY <3>1, <3>2, <2>1, <1>3, <1>4
  <2>8. BatchesDisjoint'
    <3> SUFFICES ASSUME NEW k \in DOMAIN granted', NEW l \in DOMAIN granted', k < l
                 PROVE  granted'[k].last < granted'[l].first \/ granted'[l].last < granted'[k].first
      BY DEF BatchesDisjoint
    <3>1. k \in DOMAIN granted BY <2>2
    <3>2. CASE l = Len(granted) + 1 BY <3>1, <3>2, <2>2, <2>7
    <3>3. CASE l # Len(granted) + 1
      <4>1. l \in DOMAIN granted BY <3>3, <2>2
      <4> QED BY <3>1, <4>1, <2>2 DEF IInv, BatchesDisjoint
    <3> QED BY <3>2, <3>3
  <2>9. Apart'
    <3> SUFFICES ASSUME NEW k \in DOMAIN granted', NEW j \in DOMAIN objects
                 PROVE  granted'[k].last <= Reached(objects'[j]) \/ granted'[k].first >= Base(Ms(objects'[j]) + 1)
      BY Zenon, <1>5 DEF Apart, Reached, Ms
    <3>1. CASE k # Len(granted) + 1
      <4>1. k \in DOMAIN granted BY <3>1, <2>2
      <4>2. granted[k].last \in Nat BY <4>1, <1>0, TimestampFacts
      <4>3. granted[k].last <= Reached(objects[j]) \/ granted[k].first >= Base(Ms(objects[j]) + 1)
        BY <4>1 DEF IInv, Apart
      <4> QED BY SMTT(20), <4>1, <4>2, <4>3, <2>2, <1>6, <1>7
    <3>2. CASE k = Len(granted) + 1
      <4>1. Ms(objects[j]) \in Nat /\ Base(Ms(objects[j])) \in Nat /\ Base(Ms(objects[j]) + 1) \in Nat
            /\ Base(Ms(objects[j])) <= Reached(objects[j])
        BY <1>0, ObjectFacts DEF Reached
      <4>2. CASE j = i BY <4>2, <3>2, <2>2, <1>4, <1>7
      <4>3. CASE i < j
        <5>1. Ms(objects[i]) < Ms(objects[j]) BY <4>3, <1>2 DEF IInv, ObjectsRise
        <5>2. last <= Base(Ms(objects[j])) BY SMTT(20), <5>1, <4>1, <1>3, <1>4, <2>1, NewObject
        <5> QED BY SMTT(20), <5>2, <4>1, <3>2, <2>2, <1>4, <1>7
      <4>4. CASE j < i
        <5>1. Ms(objects[j]) < Ms(objects[i]) BY <4>4, <1>2 DEF IInv, ObjectsRise
        <5>2. Base(Ms(objects[j]) + 1) <= Base(Ms(objects[i])) BY Zenon, <5>1, <4>1, <1>3, BaseOrder
        <5>3. first >= Base(Ms(objects[j]) + 1)
          <6>1. /\ Base(Ms(objects[j]) + 1) \in Nat /\ Base(Ms(objects[i])) \in Nat /\ first \in Nat
                /\ first > Base(Ms(objects[i]))
            BY Zenon, <4>1, <2>1, <1>3, <1>4
          <6> QED BY <6>1, <5>2
        <5> QED BY <5>3, <3>2, <2>2, <1>6
      <4>5. i \in Nat /\ j \in Nat BY <1>0, <1>2, ObjectFacts
      <4> QED BY SMTT(20), <4>2, <4>3, <4>4, <4>5
    <3> QED BY <3>1, <3>2
  <2>10. OwnerAhead'
    <3>1. owner \in Nodes /\ lastTT \in Nat BY <1>0 DEF TypeOK
    <3>2. CASE owner = n
      <4>1. stage \in {"synced", "open"} => lastTT < first
        BY SMTT(20), <3>1, <3>2, <1>4 DEF IInv, OwnerAhead, AddLogical, i
      <4> QED BY <3>2, <4>1, <2>4, <1>9 DEF IInv, OwnerAhead
    <3>3. CASE owner # n
      <4>1. request'[owner] = request[owner] BY <3>1, <3>3, <2>3
      <4>2. request[owner].step = "loaded" => request[owner].object \in DOMAIN objects BY <3>1, <1>0
                                                                                          DEF TypeOK
      <4>3. request[owner].step = "loaded" => Reached(objects'[request[owner].object]) >= Reached(objects[request[owner].object])
        BY <4>2, <1>7
      <4>4. stage \in {"synced", "open"} /\ request[owner].step = "loaded" => lastTT <= Reached(objects'[request[owner].object])
        BY SMTT(20), <3>1, <4>2, <4>3, <1>7 DEF IInv, OwnerAhead
      <4> QED BY Zenon, <1>9, <4>1, <4>4 DEF IInv, OwnerAhead, Reached, Ms
    <3> QED BY <3>2, <3>3
  <2> QED BY <1>0, <1>1, <1>10, <1>12, <2>6, <2>8, <2>9, <2>10 DEF IInv, Limited
<1> QED BY <1>8, <1>14, <1>15

------------------------------------------------------------------------------
(* Steps of the nodes leave the oracle and the batches granted alone.       *)
LEMMA StillOracle ==
  ASSUME IInv, UNCHANGED <<oracleVars, granted>>
  PROVE  /\ ObjectsRise' /\ Window' /\ Apart' /\ BatchesDisjoint'
         /\ \A ts \in Int : Past(ts) => Past(ts)'
         /\ \A k \in DOMAIN granted' : Past(granted[k].last)'
         /\ objects' = objects
<1>1. objects' = objects /\ saved' = saved /\ next' = next /\ lastSavedTime' = lastSavedTime /\ granted' = granted
  BY DEF oracleVars
<1>2. ObjectsRise' BY <1>1 DEF IInv, ObjectsRise, Ms
<1>3. Window' BY <1>1 DEF IInv, Window, SavedAhead, Running, Current, Ms
<1>4. Apart' BY <1>1 DEF IInv, Apart, Reached, Ms
<1>5. BatchesDisjoint' BY <1>1 DEF IInv, BatchesDisjoint
<1>6. \A ts \in Int : Past(ts) => Past(ts)' BY <1>1 DEF Past, Running, Current, Reached, Ms
<1>7. \A k \in DOMAIN granted' : Past(granted[k].last)'
  BY <1>1, <1>6, TimestampFacts DEF IInv, AllPast
<1> QED BY Zenon, <1>1, <1>2, <1>3, <1>4, <1>5, <1>6, <1>7

(* What comes before a timestamp that is past is past.                      *)
LEMMA Earlier ==
  ASSUME TypeOK, NEW ts \in Nat, NEW e \in Nat, ts < e, Past(e - 1)
  PROVE  Past(ts)
<1>1. CASE Running
  <2>1. Reached(Current) \in Nat /\ Base(Ms(Current) + 1) \in Nat
    BY Zenon, <1>1, ObjectFacts DEF Current
  <2>2. e - 1 <= Reached(Current) /\ e - 1 < Base(Ms(Current) + 1)
    BY Zenon, <1>1 DEF Past
  <2>3. ts <= Reached(Current) /\ ts < Base(Ms(Current) + 1)
    BY <2>1, <2>2
  <2> QED BY Zenon, <1>1, <2>3 DEF Past
<1>2. CASE ~Running
  <2>1. saved \in Nat BY Zenon DEF TypeOK
  <2>2. UnixMilli(saved) + 1 \in Nat BY <2>1, MilliType
  <2>3. Base(UnixMilli(saved) + 1) \in Nat BY <2>2, BaseType
  <2>4. e - 1 < Base(UnixMilli(saved) + 1) /\ (saved = NoTime => e - 1 <= 0)
    BY Zenon, <1>2 DEF Past
  <2>5. ts < Base(UnixMilli(saved) + 1) /\ (saved = NoTime => ts <= 0)
    BY <2>3, <2>4
  <2> QED BY Zenon, <1>2, <2>5 DEF Past
<1> QED BY Zenon, <1>1, <1>2

(* A timestamp that is past and ahead of the channel is handed out by node  *)
(* n, whose batch goes on behind it and whose request is over.              *)
LEMMA HandOut ==
  ASSUME IInv, TypeOK', NEW n \in Nodes, NEW ts \in Nat, NEW e \in Nat,
         UNCHANGED <<oracleVars, granted>>, Deliver(n, ts),
         local' = [local EXCEPT ![n] = [next |-> ts + 1, end |-> e]],
         \A m \in Nodes : m # n => request'[m] = request[m],
         request'[n].step = "none",
         ts < e, Past(e - 1),
         owner = n /\ stage \in {"synced", "open"} => lastTT < ts
  PROVE  IInv' /\ (lastTT' # lastTT => lastTT' > lastTT)
<1>0. TypeOK /\ Limited BY DEF IInv
<1>1. /\ \A m \in Nodes : m # n => local'[m] = local[m]
      /\ local'[n].next = ts + 1 /\ local'[n].end = e
  BY Zenon, <1>0 DEF TypeOK
<1>2. /\ ObjectsRise' /\ Window' /\ Apart' /\ BatchesDisjoint'
      /\ \A t \in Int : Past(t) => Past(t)'
      /\ \A k \in DOMAIN granted' : Past(granted[k].last)'
      /\ objects' = objects
  BY Zenon, StillOracle
<1>3. Past(ts) BY Zenon, <1>0, Earlier
<1>4. lastTT' = lastTT \/ (lastTT' = ts /\ owner' = owner /\ owner = n /\ stage \in {"synced", "open"})
  BY Zenon DEF Deliver, channelVars
<1>5. AllPast'
  <2>1. ASSUME NEW m \in Nodes PROVE Past(local[m].end - 1)'
    <3>1. CASE m = n
      <4>1. PICK t \in Int : t = e - 1 OBVIOUS
      <4>2. Past(t)' BY Zenon, <4>1, <1>2
      <4> QED BY Zenon, <3>1, <4>1, <4>2, <1>1
    <3>2. CASE m # n
      <4>1. PICK t \in Int : t = local[m].end - 1 BY Zenon, <1>0, TimestampFacts
      <4>2. Past(t)' BY Zenon, <4>1, <1>2 DEF IInv, AllPast
      <4> QED BY Zenon, <3>2, <4>1, <4>2, <1>1
    <3> QED BY Zenon, <3>1, <3>2
  <2>2. ASSUME NEW m \in Nodes, request'[m].step = "answered"
        PROVE  Past(request[m].start + BatchSize - 1)'
    <3>1. request'[m] = request[m] BY Zenon, <2>2
    <3>2. PICK t \in Int : t = request[m].start + BatchSize - 1 BY Zenon, <1>0, TimestampFacts
    <3>3. Past(t)' BY Zenon, <2>2, <3>1, <3>2, <1>2 DEF IInv, AllPast
    <3> QED BY Zenon, <3>1, <3>2, <3>3
  <2>3. Past(lastTT)'
    <3>1. Past(lastTT) /\ lastTT \in Nat BY Zenon, <1>0 DEF IInv, AllPast, TypeOK
    <3>2. lastTT \in Int /\ ts \in Int BY <3>1
    <3>3. PICK t \in Int : t = lastTT' /\ Past(t) BY Zenon, <1>3, <1>4, <3>1, <3>2
    <3> QED BY Zenon, <3>3, <1>2
  <2> QED BY Zenon, <1>2, <2>1, <2>2, <2>3 DEF AllPast
<1>6. OwnerAhead'
  <2>1. owner' = owner /\ owner \in Nodes /\ lastTT \in Nat BY Zenon, <1>0
                                                               DEF Deliver, channelVars, TypeOK
  <2>2. CASE owner = n
    <3>1. stage' \in {"synced", "open"} => lastTT' < ts + 1
      BY SMTT(20), <2>1, <2>2 DEF Deliver, channelVars
    <3> QED BY Zenon, <2>1, <2>2, <3>1, <1>1 DEF OwnerAhead
  <2>3. CASE owner # n
    <3>1. UNCHANGED <<stage, lastTT>> BY <2>3 DEF Deliver, channelVars
    <3>2. local'[owner] = local[owner] /\ request'[owner] = request[owner] BY Zenon, <2>1, <2>3,
                                                                              <1>1
    <3> QED BY Zenon, <2>1, <3>1, <3>2, <1>2 DEF IInv, OwnerAhead
  <2> QED BY Zenon, <2>2, <2>3
<1> QED BY Zenon, <1>0, <1>2, <1>4, <1>5, <1>6 DEF IInv, Limited

(* A step that hands out nothing and leaves each node's batch as it is,     *)
(* used up, or empty.                                                       *)
LEMMA Quiet ==
  ASSUME IInv, TypeOK', UNCHANGED <<oracleVars, granted, lastTT>>,
         \A m \in Nodes :
           \/ local'[m] = local[m]
           \/ local'[m].next = local[m].end /\ local'[m].end = local[m].end
           \/ local'[m].next = 0 /\ local'[m].end = 0,
         \A m \in Nodes : request'[m].step = "answered" => request'[m] = request[m],
         OwnerAhead'
  PROVE  IInv'
<1>0. TypeOK /\ Limited BY DEF IInv
<1>1. /\ ObjectsRise' /\ Window' /\ Apart' /\ BatchesDisjoint'
      /\ \A t \in Int : Past(t) => Past(t)'
      /\ \A k \in DOMAIN granted' : Past(granted[k].last)'
  BY Zenon, StillOracle
<1>2. ASSUME NEW m \in Nodes PROVE Past(local[m].end - 1)'
  <2>1. Past(lastTT) /\ lastTT \in Nat BY Zenon, <1>0 DEF IInv, AllPast, TypeOK
  <2>2. Past(-1)
    <3>1. CASE Running
      <4>1. Reached(Current) \in Nat /\ Base(Ms(Current) + 1) \in Nat
        BY <3>1, <1>0, ObjectFacts DEF Current
      <4> QED BY <3>1, <4>1 DEF Past
    <3>2. CASE ~Running
      <4>a. saved \in Nat BY Zenon, <1>0 DEF TypeOK
      <4>b. UnixMilli(saved) \in Nat BY Zenon, <4>a, MilliType
      <4>0. UnixMilli(saved) + 1 \in Nat BY <4>b
      <4>1. Base(UnixMilli(saved) + 1) \in Nat BY <4>0, BaseType
      <4> QED BY SMTT(20), <3>2, <4>1 DEF Past
    <3> QED BY Zenon, <3>1, <3>2
  <2>3. PICK t \in Int : t = local'[m].end - 1 /\ Past(t)
    <3>1. Past(local[m].end - 1) /\ local[m].end - 1 \in Int BY Zenon, <1>0, TimestampFacts
                                                                DEF IInv, AllPast
    <3>2. CASE local'[m].end = local[m].end BY <3>1, <3>2
    <3>3. CASE local'[m].end = 0
      <4>1. local'[m].end - 1 = -1 BY SMTT(20), <3>3
      <4> QED BY SMTT(20), <4>1, <2>2
    <3> QED BY Zenon, <3>2, <3>3
  <2> QED BY Zenon, <2>3, <1>1
<1>3. ASSUME NEW m \in Nodes, request'[m].step = "answered"
      PROVE  Past(request[m].start + BatchSize - 1)'
  <2>1. PICK t \in Int : t = request[m].start + BatchSize - 1 BY Zenon, <1>0, TimestampFacts
  <2>2. Past(t)' BY Zenon, <1>3, <2>1, <1>1 DEF IInv, AllPast
  <2> QED BY <1>3, <2>1, <2>2
<1>4. Past(lastTT)' BY SMTT(20), <1>0, <1>1, TimestampFacts DEF IInv, AllPast
<1>5. AllPast' BY Zenon, <1>1, <1>2, <1>3, <1>4 DEF AllPast
<1> QED BY Zenon, <1>0, <1>1, <1>5 DEF IInv, Limited

(* Steps of a node that hand out a timestamp (Allocate).                    *)
LEMMA AllocateKeeps ==
  ASSUME IInv, TypeOK', NEW n \in Nodes, AllocateOne(n) \/ AllocateRemote(n)
  PROVE  IInv' /\ (lastTT' # lastTT => lastTT' > lastTT)
<1>0. TypeOK /\ local[n] \in Batch /\ request[n] \in Request BY Zenon DEF IInv, TypeOK
<1>1. CASE AllocateOne(n)
  <2> DEFINE ts == local[n].next
             e == local[n].end
  <2>1. ts \in Nat /\ e \in Nat BY <1>0, TimestampFacts
  <2>2. ts < e BY <1>1, <2>1 DEF AllocateOne, Exhausted
  <2>3. [local[n] EXCEPT !.next = @ + 1] = [next |-> ts + 1, end |-> e] BY <1>0 DEF Batch
  <2>4. local' = [local EXCEPT ![n] = [next |-> ts + 1, end |-> e]]
    BY Zenon, <1>1, <1>0, <2>3 DEF AllocateOne, TypeOK
  <2>5. request' = request /\ request[n].step = "none" BY <1>1, RequestForms DEF AllocateOne
  <2>6. Past(e - 1) BY Zenon DEF IInv, AllPast
  <2>7. owner = n /\ stage \in {"synced", "open"} => lastTT < ts
    BY <1>1 DEF IInv, OwnerAhead, AllocateOne
  <2>8. Deliver(n, ts) /\ UNCHANGED <<oracleVars, granted>> BY <1>1 DEF AllocateOne
  <2> HIDE DEF ts, e
  <2> QED BY Zenon, <2>1, <2>2, <2>4, <2>5, <2>6, <2>7, <2>8, HandOut
<1>2. CASE AllocateRemote(n)
  <2> DEFINE start == request[n].start
             a == Updated(local[n], start)
  <2>1. start \in Nat /\ local[n].next \in Nat /\ local[n].end \in Nat /\ BatchSize \in Nat \ {0}
    BY Zenon, <1>0, TimestampFacts, TSOAssumption
  <2>2. request' = [request EXCEPT ![n] = NoRequest] /\ request[n].step = "answered"
    BY <1>2 DEF AllocateRemote
  <2>3. (\A m \in Nodes : m # n => request'[m] = request[m]) /\ request'[n].step = "none"
    BY SMTT(20), <2>2, <1>0, RequestForms DEF TypeOK
  <2>4. UNCHANGED <<oracleVars, granted>> BY <1>2 DEF AllocateRemote
  <2>5. CASE Exhausted(a)
    <3>1. UNCHANGED <<local, channelVars>> BY <1>2, <2>5 DEF AllocateRemote
    <3>2. owner \in Nodes BY Zenon, <1>0 DEF TypeOK
    <3>3. request'[owner].step \in {"loaded", "answered"} => request'[owner] = request[owner]
      BY <2>3, <3>2
    <3>4. objects' = objects BY <2>4, StillOracle
    <3>5. OwnerAhead' BY Zenon, <3>1, <3>3, <3>4 DEF IInv, OwnerAhead, channelVars
    <3>6. \A m \in Nodes : request'[m].step = "answered" => request'[m] = request[m] BY <2>3
    <3>7. lastTT' = lastTT /\ local' = local BY <3>1 DEF channelVars
    <3>8. UNCHANGED <<oracleVars, granted, lastTT>> BY <2>4, <3>7
    <3>9. \A m \in Nodes :
            \/ local'[m] = local[m]
            \/ local'[m].next = local[m].end /\ local'[m].end = local[m].end
            \/ local'[m].next = 0 /\ local'[m].end = 0
      BY <3>7
    <3> HIDE DEF a, start
    <3>10. IInv' BY Zenon, <3>5, <3>6, <3>8, <3>9, Quiet
    <3> QED BY <3>7, <3>10
  <2>6. CASE ~Exhausted(a)
    <3>1. local' = [local EXCEPT ![n] = [a EXCEPT !.next = @ + 1]] /\ Deliver(n, a.next)
      BY <1>2, <2>6 DEF AllocateRemote
    <3>2. \/ a = [next |-> start, end |-> start + BatchSize]
          \/ a = local[n]
      BY Zenon DEF Updated
    <3>3. a \in Batch /\ Past(a.end - 1)
          /\ (owner = n /\ stage \in {"synced", "open"} => lastTT < a.next)
      <4>1. CASE a = [next |-> start, end |-> start + BatchSize]
        <5>1. a.next = start /\ a.end = start + BatchSize /\ a \in Batch BY SMTT(20), <4>1, <2>1
                                                                            DEF Batch
        <5>2. Past(start + BatchSize - 1) BY Zenon, <2>2 DEF IInv, AllPast
        <5>3. owner = n /\ stage \in {"synced", "open"} => lastTT < start
          BY Zenon, <2>2 DEF IInv, OwnerAhead
        <5> HIDE DEF a, start
        <5>4. a.end - 1 = start + BatchSize - 1 BY SMTT(20), <5>1, <2>1
        <5>5. Past(a.end - 1) BY <5>2, <5>4
        <5> QED BY <5>1, <5>3, <5>5
      <4>2. CASE a = local[n]
        <5> HIDE DEF a
        <5> QED BY Zenon, <4>2, <2>6, <1>0 DEF IInv, AllPast, OwnerAhead
      <4> QED BY Zenon, <3>2, <4>1, <4>2
    <3> HIDE DEF a
    <3>4. a.next \in Nat /\ a.end \in Nat /\ a.next < a.end BY <2>6, <3>3 DEF Batch, Exhausted
    <3>5. [a EXCEPT !.next = @ + 1] = [next |-> a.next + 1, end |-> a.end] BY <3>3 DEF Batch
    <3>6. local' = [local EXCEPT ![n] = [next |-> a.next + 1, end |-> a.end]] BY Zenon, <3>1, <3>5
    <3> QED BY Zenon, <2>3, <2>4, <3>1, <3>3, <3>4, <3>6, HandOut
  <2> QED BY <2>5, <2>6
<1> QED BY <1>1, <1>2

(* The remaining steps of the nodes and of the channel.                     *)
LEMMA NodeKeeps ==
  ASSUME IInv, TypeOK', NEW n \in Nodes,
         LoadTSO(n) \/ BatchAllocate(n) \/ GiveUp(n) \/ RestartNode(n) \/ Open(n) \/ Sync(n) \/ Close
  PROVE  IInv' /\ lastTT' = lastTT
<1>0. TypeOK /\ owner \in Nodes /\ lastTT \in Nat BY Zenon DEF IInv, TypeOK
<1>1. CASE LoadTSO(n)
  <2>1. request' = [request EXCEPT ![n] = Loaded(Len(objects))] /\ Running
        /\ UNCHANGED <<oracleVars, granted, local, channelVars>>
    BY Zenon, <1>1 DEF LoadTSO
  <2>2. objects' = objects BY Zenon, <2>1 DEF oracleVars
  <2>3. Len(objects) \in Nat BY Zenon, <1>0, ObjectFacts
  <2>4. /\ \A m \in Nodes : m # n => request'[m] = request[m]
        /\ request'[n].step = "loaded" /\ request'[n].object = Len(objects)
    BY SMTT(20), <1>0, <2>1, <2>3, RequestForms DEF TypeOK
  <2>5. lastTT <= Reached(objects[Len(objects)]) BY Zenon, <2>1 DEF IInv, AllPast, Past, Current
  <2>6. OwnerAhead'
    <3>1. CASE owner = n BY Zenon, <3>1, <2>1, <2>2, <2>4, <2>5 DEF IInv, OwnerAhead, channelVars
    <3>2. CASE owner # n
      <4>1. request'[owner] = request[owner] BY <1>0, <3>2, <2>4
      <4> QED BY Zenon, <4>1, <2>1, <2>2 DEF IInv, OwnerAhead, channelVars
    <3> QED BY <3>1, <3>2
  <2>7. \A m \in Nodes : request'[m].step = "answered" => request'[m] = request[m] BY Zenon, <2>4
  <2>8. \A m \in Nodes : local'[m] = local[m] BY <2>1
  <2>9. lastTT' = lastTT BY <2>1 DEF channelVars
  <2>10. UNCHANGED <<oracleVars, granted, lastTT>> BY <2>1, <2>9
  <2> QED BY Zenon, <2>6, <2>7, <2>8, <2>9, <2>10, Quiet
<1>2. CASE BatchAllocate(n) \/ GiveUp(n)
  <2>1. \E r \in {NoRequest, Sent} : request' = [request EXCEPT ![n] = r]
    BY <1>2 DEF BatchAllocate, GiveUp
  <2>2. UNCHANGED <<oracleVars, granted, local, channelVars>> BY <1>2 DEF BatchAllocate, GiveUp
  <2>3. \A m \in Nodes : request'[m].step \in {"loaded", "answered"} => request'[m] = request[m]
    BY SMTT(20), <1>0, <2>1, RequestForms DEF TypeOK
  <2>4. objects' = objects /\ lastTT' = lastTT /\ local' = local BY <2>2 DEF oracleVars, channelVars
  <2>5. OwnerAhead' BY Zenon, <1>0, <2>2, <2>3, <2>4 DEF IInv, OwnerAhead, channelVars
  <2>6. UNCHANGED <<oracleVars, granted, lastTT>> BY <2>2, <2>4
  <2>7. \A m \in Nodes : local'[m] = local[m] BY <2>4
  <2>8. \A m \in Nodes : request'[m].step = "answered" => request'[m] = request[m] BY Zenon, <2>3
  <2> QED BY Zenon, <2>4, <2>5, <2>6, <2>7, <2>8, Quiet
<1>3. CASE RestartNode(n)
  <2>1. /\ local' = [local EXCEPT ![n] = [next |-> 0, end |-> 0]]
        /\ request' = [request EXCEPT ![n] = NoRequest]
        /\ UNCHANGED <<oracleVars, granted, owner, lastTT>>
        /\ stage' = IF owner = n THEN "closed" ELSE stage
    BY <1>3 DEF RestartNode
  <2>2. /\ \A m \in Nodes : m # n => request'[m] = request[m] /\ local'[m] = local[m]
        /\ request'[n].step = "none" /\ local'[n].next = 0 /\ local'[n].end = 0
    <3>1. DOMAIN local = Nodes /\ DOMAIN request = Nodes BY Zenon, <1>0 DEF TypeOK
    <3>2. \A m \in Nodes : m # n => request'[m] = request[m] /\ local'[m] = local[m]
      BY <2>1, <3>1
    <3>3. request'[n] = NoRequest /\ local'[n] = [next |-> 0, end |-> 0] BY Zenon, <2>1, <3>1
    <3>4. request'[n].step = "none" BY Zenon, <3>3, RequestForms
    <3>a. \A b : b = [next |-> 0, end |-> 0] => b.next = 0 /\ b.end = 0 OBVIOUS
    <3>5. local'[n].next = 0 /\ local'[n].end = 0 BY Zenon, <3>3, <3>a
    <3>6. QED BY Zenon, <3>2, <3>4, <3>5
  <2>3. OwnerAhead'
    <3>1. CASE owner = n BY Zenon, <3>1, <2>1 DEF OwnerAhead
    <3>2. CASE owner # n
      <4>1. request'[owner] = request[owner] /\ local'[owner] = local[owner] BY Zenon, <1>0,
                                                                                <3>2, <2>2
      <4>2. objects' = objects /\ stage' = stage BY Zenon, <3>2, <2>1 DEF oracleVars
      <4> QED BY Zenon, <4>1, <4>2, <2>1 DEF IInv, OwnerAhead
    <3> QED BY <3>1, <3>2
  <2>4. \A m \in Nodes : request'[m].step = "answered" => request'[m] = request[m] BY Zenon, <2>2
  <2>5. \A m \in Nodes : local'[m] = local[m] \/ (local'[m].next = 0 /\ local'[m].end = 0) BY Zenon, <2>2
  <2>6. UNCHANGED <<oracleVars, granted, lastTT>> BY <2>1
  <2> QED BY Zenon, <2>1, <2>3, <2>4, <2>5, <2>6, Quiet
<1>4. CASE Open(n) \/ Close
  <2>1. UNCHANGED <<oracleVars, granted, local, request, lastTT>> /\ stage' \in {"opening", "closed"}
    BY <1>4 DEF Open, Close
  <2>2. OwnerAhead' BY Zenon, <2>1 DEF OwnerAhead
  <2>3. \A m \in Nodes : local'[m] = local[m] /\ request'[m] = request[m] BY Zenon, <2>1
  <2>4. UNCHANGED <<oracleVars, granted, lastTT>> BY <2>1
  <2> QED BY Zenon, <2>1, <2>2, <2>3, <2>4, Quiet
<1>5. CASE Sync(n)
  <2>1. /\ local' = [local EXCEPT ![n].next = local[n].end]
        /\ UNCHANGED <<oracleVars, granted, request, owner, lastTT>>
        /\ owner = n /\ request[n] = NoRequest
    BY <1>5 DEF Sync
  <2>2. local[n] \in Batch BY Zenon, <1>0 DEF TypeOK
  <2>3. /\ \A m \in Nodes : m # n => local'[m] = local[m]
        /\ local'[n].next = local[n].end /\ local'[n].end = local[n].end
    BY <1>0, <2>1, <2>2 DEF TypeOK, Batch
  <2>4. Exhausted(local'[owner])
    <3>1. local[n].end \in Nat BY Zenon, <2>2 DEF Batch
    <3> QED BY <2>1, <2>3, <3>1 DEF Exhausted
  <2>5. OwnerAhead' BY <2>1, <2>4, RequestForms DEF OwnerAhead, Exhausted
  <2>6. \A m \in Nodes : local'[m] = local[m] \/ (local'[m].next = local[m].end /\ local'[m].end = local[m].end)
    BY Zenon, <2>3
  <2>7. \A m \in Nodes : request'[m] = request[m] BY <2>1
  <2>8. UNCHANGED <<oracleVars, granted, lastTT>> BY <2>1
  <2> QED BY <2>1, <2>5, <2>6, <2>7, <2>8, Quiet
<1> QED BY <1>1, <1>2, <1>3, <1>4, <1>5

------------------------------------------------------------------------------
(* The invariant holds at first: nothing is saved, granted or held (Init).  *)
LEMMA InitInvariant == Limited /\ Init => IInv
<1> SUFFICES ASSUME Limited, Init PROVE IInv OBVIOUS
<1>1. TypeOK BY SMTT(20), RequestForms DEF Init, TypeOK, NoTime, Stages, Batch
<1>2. Base(UnixMilli(saved) + 1) \in Nat /\ Base(UnixMilli(saved) + 1) > 0
  <2>1. UnixMilli(0) = 0 BY DEF UnixMilli, Milli
  <2>2. Base(0 + 1) = Base(0) + MaxLogical /\ Base(0) \in Nat BY BaseNext, BaseType
  <2> QED BY SMTT(20), <2>1, <2>2, TSOAssumption DEF Init, NoTime
<1>3. ~Running /\ DOMAIN objects = {} /\ DOMAIN granted = {} BY DEF Init, Running
<1>4. Past(0) /\ Past(0 - 1) BY <1>2, <1>3 DEF Past
<1>5. AllPast
  <2>0. \A n \in Nodes : local[n].end = 0 /\ request[n].step = "none" BY Zenon, RequestForms
                                                                         DEF Init
  <2>1. \A n \in Nodes : Past(local[n].end - 1) BY Zenon, <2>0, <1>4
  <2> QED BY Zenon, <1>3, <1>4, <2>0, <2>1 DEF AllPast, Init
<1> QED BY Zenon, <1>1, <1>3, <1>5
           DEF IInv, ObjectsRise, Window, SavedAhead, Apart, BatchesDisjoint, OwnerAhead, Init, NoTime

(* Every step keeps the invariant, and moves the channel's time tick        *)
(* forward if at all.                                                       *)
LEMMA StepInvariant ==
  ASSUME IInv, [Next]_vars
  PROVE  IInv' /\ (lastTT' # lastTT => lastTT' > lastTT)
<1>1. TypeOK' BY TypeStep DEF IInv, Limited
<1>2. CASE Oracle
  <2>1. lastTT' = lastTT BY Zenon, <1>2, OracleShape DEF IInv, OracleInv
  <2> QED BY <1>2, <2>1, OracleKeeps
<1>3. CASE \E n \in Nodes : AddLogical(n)
  <2>1. PICK n \in Nodes : AddLogical(n) BY <1>3
  <2> QED BY Zenon, <2>1, GrantKeeps DEF AddLogical, channelVars
<1>4. CASE \E n \in Nodes : AllocateOne(n) \/ AllocateRemote(n)
  BY <1>1, <1>4, AllocateKeeps
<1>5. CASE \E n \in Nodes : LoadTSO(n) \/ BatchAllocate(n) \/ GiveUp(n) \/ RestartNode(n) \/ Open(n) \/ Sync(n) \/ Close
  BY <1>1, <1>5, NodeKeeps
<1>6. CASE UNCHANGED vars
  <2>1. UNCHANGED <<oracleVars, granted, lastTT>> /\ UNCHANGED <<local, request, owner, stage, objects>>
    BY <1>6 DEF vars, oracleVars, channelVars
  <2>2. OwnerAhead' BY Zenon, <2>1 DEF IInv, OwnerAhead
  <2>3. \A m \in Nodes : local'[m] = local[m] /\ request'[m] = request[m] BY Zenon, <2>1
  <2> QED BY Zenon, <1>1, <2>1, <2>2, <2>3, Quiet
<1>7. Nodes # {} BY DEF IInv, TypeOK
<1> QED BY Zenon, <1>2, <1>3, <1>4, <1>5, <1>6, <1>7 DEF Next, Oracle

(* The invariant of the oracle, the nodes and the channel (Next).           *)
LEMMA Invariance == Limited /\ Spec => []IInv
<1>1. IInv /\ [Next]_vars => IInv' BY StepInvariant
<1> QED BY InitInvariant, <1>1, PTL DEF Spec

(* GenerateTSO never returns a timestamp twice, and the window in etcd      *)
(* stays ahead of the physical time, for every clock, every number of nodes *)
(* and every history of crashes, when the logical part is limited and the   *)
(* saved time can be read.                                                  *)
THEOREM TimestampsUnique ==
  LimitMaxLogic /\ ~LoadFails /\ Spec => [](BatchesDisjoint /\ SavedAhead /\ TypeOK)
<1>1. IInv => BatchesDisjoint /\ SavedAhead /\ TypeOK BY DEF IInv, Window
<1>2. LimitMaxLogic /\ ~LoadFails => Limited BY DEF Limited
<1> QED BY Invariance, <1>1, <1>2, PTL

(* A channel's time ticks only rise, from whatever node they are written:   *)
(* Sync makes a new owner forget the timestamps it had fetched earlier.     *)
THEOREM TimeTicksRiseHolds == LimitMaxLogic /\ ~LoadFails /\ Spec => TimeTicksRise
<1>1. IInv /\ [Next]_vars => [lastTT' # lastTT => lastTT' > lastTT]_vars BY StepInvariant
<1>2. LimitMaxLogic /\ ~LoadFails => Limited BY DEF Limited
<1> QED BY Invariance, <1>1, <1>2, PTL DEF Spec, TimeTicksRise
================================================================================
