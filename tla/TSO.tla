---------------------------------- MODULE TSO ----------------------------------
(***************************************************************************)
(* Where time ticks come from: the timestamp oracle of the root            *)
(* coordinator (internal/tso), which keeps a window of time ahead of its   *)
(* timestamps in etcd, the batches that streaming nodes fetch from it and  *)
(* allocate from locally (resource/idalloc), and a channel that moves      *)
(* between the nodes and gives every new owner a first time tick.          *)
(*                                                                         *)
(* The wall clock may show anything whenever it is read.  It is read in    *)
(* half milliseconds, because the oracle compares instants and hands out   *)
(* milliseconds.  With LimitMaxLogic and UpdateLoop off the module is the  *)
(* global id allocator, which uses the oracle without either.              *)
(***************************************************************************)
EXTENDS Integers, Sequences

CONSTANTS
  Nodes,          \* streaming nodes
  Clock,          \* what the wall clock may show, in half milliseconds
  SaveInterval,   \* how far ahead the window is saved
  MaxLogical,     \* logical timestamps per millisecond
  BatchSize,      \* timestamps per request of a node
  LimitMaxLogic,  \* whether the logical part is limited
  UpdateLoop,     \* whether someone calls UpdateTSO
  LoadFails,      \* whether reading the saved time may fail
  MaxGrants       \* bound: batches that are granted

(* Times are natural numbers, 0 stands for no time.  The window in etcd is  *)
(* saved at least a millisecond ahead (the code: three seconds).            *)
ASSUME TSOAssumption ==
  /\ Clock \subseteq Nat \ {0}
  /\ SaveInterval \in Nat /\ SaveInterval >= 2
  /\ MaxLogical \in Nat \ {0}
  /\ BatchSize \in Nat \ {0}
  /\ LimitMaxLogic \in BOOLEAN /\ UpdateLoop \in BOOLEAN /\ LoadFails \in BOOLEAN
  /\ MaxGrants \in Nat

VARIABLES
  saved,          \* the time in etcd
  lastSavedTime,  \* the time this root coordinator has saved
  objects,        \* its atomicObjects, the current one last
  next,           \* physical time UpdateTimestamp has yet to store, or NoTime
  granted,        \* history: the batches GenerateTSO has returned
  local,          \* the localAllocator of each node
  request,        \* the request of each node, which holds the allocator's lock
  owner,          \* the node that has the channel
  stage,          \* how far its WAL is opened
  lastTT          \* the last time tick written to the channel

oracleVars == <<saved, lastSavedTime, objects, next>>
channelVars == <<owner, stage, lastTT>>
vars == <<oracleVars, granted, local, request, channelVars>>

Milli == 2  \* one millisecond
Guard == Milli  \* updateTimestampGuard
NoTime == 0

UnixMilli(t) == t \div Milli
ComposeTS(physical, logical) == physical * MaxLogical + logical

NoRequest == [step |-> "none", object |-> 0, start |-> 0]
Sent == [NoRequest EXCEPT !.step = "sent"]
Loaded(i) == [NoRequest EXCEPT !.step = "loaded", !.object = i]
Answered(ts) == [NoRequest EXCEPT !.step = "answered", !.start = ts]

Stages == {"closed", "opening", "synced", "open"}

Running == objects # << >>
Current == objects[Len(objects)]

Init ==
  /\ saved = NoTime /\ lastSavedTime = NoTime
  /\ objects = << >> /\ next = NoTime
  /\ granted = << >>
  /\ local = [n \in Nodes |-> [next |-> 0, end |-> 0]]
  /\ request = [n \in Nodes |-> NoRequest]
  /\ owner \in Nodes /\ stage = "closed" /\ lastTT = 0

------------------------------------------------------------------------------
(* The oracle.                                                              *)

(* What loadTimestamp returns: an error of etcd is taken for no timestamp.  *)
LoadTimestamp == {saved} \cup (IF LoadFails THEN {NoTime} ELSE {})

(* Where a new root coordinator starts.                                     *)
StartAt(last, now) == IF last # NoTime /\ now - last < Guard THEN last + Guard ELSE now

(* saveTimestamp: etcd may fail, and may have saved it nevertheless.        *)
SaveSucceeds(t) == saved' = t /\ lastSavedTime' = t

SaveFails(t) == saved' \in {saved, t} /\ UNCHANGED lastSavedTime

InitTimestamp ==
  /\ ~Running
  /\ \E last \in LoadTimestamp, now \in Clock :
       LET start == StartAt(last, now)
       IN \/ /\ SaveSucceeds(start + SaveInterval)
             /\ objects' = <<[physical |-> start, logical |-> 0]>>
          \/ /\ SaveFails(start + SaveInterval)
             /\ UNCHANGED objects
  /\ UNCHANGED <<next, granted, local, request, channelVars>>

(* Mutant: a clock reading just ahead of the last one is used.              *)
NextPhysicalSynced(prev, now) ==
  IF now > prev.physical THEN {now}
  ELSE IF prev.logical > MaxLogical \div 2 THEN {prev.physical + Milli}
  ELSE {}

(* The physical times UpdateTimestamp may move on to.                       *)
NextPhysical(prev, now) ==
  IF now - prev.physical > Guard THEN {now}
  ELSE IF prev.logical > MaxLogical \div 2 THEN {prev.physical + Milli}
  ELSE {}

(* UpdateTimestamp up to where it stores the new object: the window in etcd *)
(* is moved first when it is nearly used up.                                *)
UpdateTimestamp ==
  /\ Running /\ UpdateLoop /\ next = NoTime
  /\ \E now \in Clock : \E t \in NextPhysical(Current, now) :
       IF lastSavedTime - t <= Guard
       THEN \/ SaveSucceeds(t + SaveInterval) /\ next' = t
            \/ SaveFails(t + SaveInterval) /\ UNCHANGED next
       ELSE next' = t /\ UNCHANGED <<saved, lastSavedTime>>
  /\ UNCHANGED <<objects, granted, local, request, channelVars>>

(* The rest of UpdateTimestamp: StorePointer.                               *)
StoreTSO ==
  /\ next # NoTime
  /\ objects' = Append(objects, [physical |-> next, logical |-> 0])
  /\ next' = NoTime
  /\ UNCHANGED <<saved, lastSavedTime, granted, local, request, channelVars>>

(* The root coordinator stops.  A request in it fails, an answer that is on *)
(* its way arrives.                                                         *)
Crash ==
  /\ Running
  /\ objects' = << >> /\ next' = NoTime /\ lastSavedTime' = NoTime
  /\ request' = [n \in Nodes |-> IF request[n].step = "loaded" THEN NoRequest ELSE request[n]]
  /\ UNCHANGED <<saved, granted, local, channelVars>>

(* GenerateTSO for the request of n: it takes the current object ...        *)
LoadTSO(n) ==
  /\ Running
  /\ request[n] = Sent
  /\ request' = [request EXCEPT ![n] = Loaded(Len(objects))]
  /\ UNCHANGED <<oracleVars, granted, local, channelVars>>

(* ... and adds to its logical part, also when it is no longer the current  *)
(* one.  Beyond the limit it sleeps and tries again, ten times in all.      *)
(* AllocTimestamp answers with the first timestamp of the batch.            *)
Refused(logical) == logical >= MaxLogical /\ LimitMaxLogic

AddLogical(n) ==
  /\ request[n].step = "loaded"
  /\ LET i == request[n].object
         logical == objects[i].logical + BatchSize
         last == ComposeTS(UnixMilli(objects[i].physical), logical)
         first == last - BatchSize + 1
     IN /\ objects' = [objects EXCEPT ![i].logical = logical]
        /\ IF Refused(logical)
           THEN /\ request' \in {[request EXCEPT ![n] = Sent], [request EXCEPT ![n] = NoRequest]}
                /\ UNCHANGED granted
           ELSE /\ Len(granted) < MaxGrants
                /\ granted' = Append(granted, [first |-> first, last |-> last])
                /\ request' = [request EXCEPT ![n] = Answered(first)]
  /\ UNCHANGED <<saved, lastSavedTime, next, local, channelVars>>

------------------------------------------------------------------------------
(* The allocator of a node.  Its lock is held while a request is out.       *)

Exhausted(a) == a.next >= a.end

(* Who gets timestamp ts of node n: the channel, or another WAL of the node *)
(* (also a first time tick that could not be written; Sync comes again).    *)
Deliver(n, ts) ==
  \/ /\ owner = n /\ stage \in {"synced", "open"}
     /\ lastTT' = ts /\ stage' = "open"
     /\ UNCHANGED owner
  \/ /\ stage' = IF owner = n /\ stage = "synced" THEN "opening" ELSE stage
     /\ UNCHANGED <<owner, lastTT>>
  \/ UNCHANGED channelVars

(* Allocate from the local batch.                                           *)
AllocateOne(n) ==
  /\ request[n] = NoRequest
  /\ ~Exhausted(local[n])
  /\ local' = [local EXCEPT ![n].next = @ + 1]
  /\ Deliver(n, local[n].next)
  /\ UNCHANGED <<oracleVars, granted, request>>

(* Allocate with nothing left: batchAllocate asks the root coordinator.     *)
BatchAllocate(n) ==
  /\ request[n] = NoRequest
  /\ Exhausted(local[n])
  /\ request' = [request EXCEPT ![n] = Sent]
  /\ UNCHANGED <<oracleVars, granted, local, channelVars>>

(* The request fails, or its context ends before the answer arrives.        *)
GiveUp(n) ==
  /\ request[n] # NoRequest
  /\ request' = [request EXCEPT ![n] = NoRequest]
  /\ UNCHANGED <<oracleVars, granted, local, channelVars>>

(* The answer: a batch below the previous one is ignored, and the caller    *)
(* gets an error; of any other it gets the first timestamp.                 *)
Updated(a, start) ==
  IF start >= a.end THEN [next |-> start, end |-> start + BatchSize] ELSE a

AllocateRemote(n) ==
  /\ request[n].step = "answered"
  /\ LET a == Updated(local[n], request[n].start)
     IN IF Exhausted(a)
        THEN UNCHANGED <<local, channelVars>>
        ELSE local' = [local EXCEPT ![n] = [a EXCEPT !.next = @ + 1]] /\ Deliver(n, a.next)
  /\ request' = [request EXCEPT ![n] = NoRequest]
  /\ UNCHANGED <<oracleVars, granted>>

(* The streaming node restarts with an empty batch.                         *)
RestartNode(n) ==
  /\ local' = [local EXCEPT ![n] = [next |-> 0, end |-> 0]]
  /\ request' = [request EXCEPT ![n] = NoRequest]
  /\ stage' = IF owner = n THEN "closed" ELSE stage
  /\ UNCHANGED <<oracleVars, granted, owner, lastTT>>

------------------------------------------------------------------------------
(* The channel.                                                             *)

Close ==
  /\ stage # "closed"
  /\ stage' = "closed"
  /\ UNCHANGED <<oracleVars, granted, local, request, owner, lastTT>>

(* The WAL is opened on a node, which the previous owner is fenced off by.  *)
Open(n) ==
  /\ stage = "closed"
  /\ owner' = n /\ stage' = "opening"
  /\ UNCHANGED <<oracleVars, granted, local, request, lastTT>>

(* Mutant: what is left of the local batch stays usable.                    *)
SyncNothing(n) ==
  /\ owner = n /\ stage = "opening"
  /\ request[n] = NoRequest
  /\ stage' = "synced"
  /\ UNCHANGED <<oracleVars, granted, local, request, owner, lastTT>>

(* blockUntilSyncTimeTickReady, up to its Allocate.                         *)
Sync(n) ==
  /\ owner = n /\ stage = "opening"
  /\ request[n] = NoRequest
  /\ local' = [local EXCEPT ![n].next = local[n].end]
  /\ stage' = "synced"
  /\ UNCHANGED <<oracleVars, granted, request, owner, lastTT>>

Next ==
  \/ InitTimestamp \/ UpdateTimestamp \/ StoreTSO \/ Crash \/ Close
  \/ \E n \in Nodes :
       \/ LoadTSO(n) \/ AddLogical(n)
       \/ AllocateOne(n) \/ BatchAllocate(n) \/ GiveUp(n) \/ AllocateRemote(n)
       \/ RestartNode(n) \/ Open(n) \/ Sync(n)

Spec == Init /\ [][Next]_vars

------------------------------------------------------------------------------
Object == [physical : Nat \ {0}, logical : Nat]

Batch == [next : Nat, end : Nat]

Grant == [first : Nat, last : Nat]

Request == [step : {"none", "sent", "loaded", "answered"}, object : Nat, start : Nat]

(* Every variable has its type; a request that has loaded an object has     *)
(* loaded one of the running root coordinator (GenerateTSO).                *)
TypeOK ==
  /\ saved \in Nat /\ lastSavedTime \in Nat
  /\ objects \in Seq(Object)
  /\ next \in Nat
  /\ granted \in Seq(Grant)
  /\ local \in [Nodes -> Batch]
  /\ request \in [Nodes -> Request]
  /\ \A n \in Nodes : request[n].step = "loaded" => request[n].object \in DOMAIN objects
  /\ owner \in Nodes /\ stage \in Stages /\ lastTT \in Nat

(* UpdateTimestamp's third constraint: while a root coordinator runs, the   *)
(* time in etcd is ahead of every physical time it has given out.           *)
SavedAhead ==
  \A i \in DOMAIN objects : objects[i].physical < saved

(* GenerateTSO never returns a timestamp twice, whatever the clock shows,   *)
(* over restarts of the root coordinator and updates that overtake it.      *)
BatchesDisjoint ==
  \A i, j \in DOMAIN granted :
    i < j => granted[i].last < granted[j].first \/ granted[j].last < granted[i].first

(* blockUntilSyncTimeTickReady: a channel's time ticks only go forward, in  *)
(* particular the first one of a new owner is above all of the previous     *)
(* owner's.                                                                 *)
TimeTicksRise == [][lastTT' # lastTT => lastTT' > lastTT]_vars
================================================================================
