------------------------------- MODULE TimeTick -------------------------------
(***************************************************************************)
(* The time tick machinery of one write-ahead log (WAL) of a streaming     *)
(* node: the append path of timeTickAppendInterceptor, the AckManager with *)
(* its lastConfirmedManager, the timeTickSyncOperator and the              *)
(* TimeTickNotifier that the scanners watch.                               *)
(*                                                                         *)
(* A message id is a position in the log; an acker is identified by the    *)
(* timestamp it was allocated (the allocator never hands one out twice).   *)
(* Every critical section of the code's mutex is one action; what the code *)
(* does outside of it (writing to the log, storing the acknowledged flag)  *)
(* is an action of its own, so appenders interleave with each other and    *)
(* with the goroutine that syncs time ticks.                               *)
(***************************************************************************)
EXTENDS Naturals, Sequences

CONSTANTS
  Appenders,   \* goroutines inside wal.Append
  Sessions,    \* transaction sessions a message may belong to
  NoSession,   \* the nil session of an autocommit message
  Barriers,    \* barrier time ticks a message may carry (0: none)
  MaxTS,       \* bound: timestamps handed out
  MaxFailures, \* bound: appends to the underlying log that return an error
  MaxCrashes   \* bound: times the WAL is lost and opened again

ASSUME ConstantsAssumption ==
  /\ NoSession \notin Sessions
  /\ Barriers \subseteq Nat \ {0}
  /\ MaxTS \in Nat
  /\ MaxFailures \in Nat
  /\ MaxCrashes \in Nat

VARIABLES
  tso,                    \* the last timestamp the TSO allocator handed out
  wal,                    \* the persisted log
  crashes, failures,      \* crashes and failed appends so far
  ready,                  \* the operator has written its first time tick
  lastAllocatedTimeTick,  \* AckManager.lastAllocatedTimeTick
  lastConfirmedTimeTick,  \* AckManager.lastConfirmedTimeTick
  detail,                 \* the ackers: their AckDetail and acknowledged flag
  notAckHeap,             \* AckManager.notAckHeap, by timestamp
  ackHeap,                \* AckManager.ackHeap, by end timestamp
  acknowledgedDetails,    \* AckManager.acknowledgedDetails
  lastConfirmedMessageID, \* lastConfirmedManager.lastConfirmedMessageID
  notDoneTxnMessage,      \* lastConfirmedManager.notDoneTxnMessage
  ackDetails,             \* timeTickSyncOperator.ackDetails
  notifier,               \* timeTickSyncOperator.timeTickNotifier.info
  pc, request, acker,     \* each appender: its step, its message, its acker
  waiters,                \* the appenders parked on the AckManager's condition
  syncPc, syncAcker,      \* the inspector's goroutine inside operator.Sync
  sentInfo                \* the time tick it has persisted and not yet announced

managerVars == <<lastAllocatedTimeTick, lastConfirmedTimeTick, detail, notAckHeap,
                 ackHeap, acknowledgedDetails, lastConfirmedMessageID, notDoneTxnMessage>>
appenderVars == <<pc, request, acker, waiters>>
syncVars == <<syncPc, syncAcker, sentInfo, ackDetails, notifier>>
vars == <<tso, wal, crashes, failures, ready, managerVars, appenderVars, syncVars>>

-----------------------------------------------------------------------------
(* Data. *)

Timestamps == 1 .. MaxTS
NoInfo == [id |-> 0, tt |-> 0]
NoRequest == [barrier |-> 0, session |-> NoSession]

(* What is persisted of a message: its time tick and the position from      *)
(* which a consumer may start without losing a later one.                   *)
Message(ts, lastConfirmed) == [type |-> "msg", tt |-> ts, lastConfirmed |-> lastConfirmed]

(* Mutant: a time tick carries the last confirmed id of when it is sent.    *)
TimeTickMsgLate(ts, lastConfirmed) ==
  [type |-> "timetick", tt |-> ts, lastConfirmed |-> lastConfirmedMessageID]

TimeTickMsg(ts, lastConfirmed) ==
  [type |-> "timetick", tt |-> ts, lastConfirmed |-> lastConfirmed]

newAckDetail(lastConfirmed) ==
  [lastConfirmed |-> lastConfirmed, end |-> 0, id |-> 0, session |-> NoSession,
   isSync |-> FALSE, err |-> FALSE, acknowledged |-> FALSE]

(* An append to the underlying log that returned an error may have been     *)
(* persisted all the same.                                                  *)
FailedAppend(entry) ==
  /\ failures < MaxFailures
  /\ failures' = failures + 1
  /\ wal' \in {wal, Append(wal, entry)}

-----------------------------------------------------------------------------
(* The AckManager, each operator one critical section. *)

NewAckManager(ts, id) ==
  /\ lastAllocatedTimeTick' = 0
  /\ lastConfirmedTimeTick' = ts
  /\ detail' = << >>
  /\ notAckHeap' = {}
  /\ ackHeap' = {}
  /\ acknowledgedDetails' = {}
  /\ lastConfirmedMessageID' = id
  /\ notDoneTxnMessage' = {}

Allocate(ts) ==
  /\ ts = tso + 1
  /\ ts \in Timestamps
  /\ tso' = ts
  /\ lastAllocatedTimeTick' = ts
  /\ detail' = [t \in DOMAIN detail \cup {ts} |->
                  IF t = ts THEN newAckDetail(lastConfirmedMessageID) ELSE detail[t]]
  /\ notAckHeap' = notAckHeap \cup {ts}
  /\ UNCHANGED <<lastConfirmedTimeTick, ackHeap, acknowledgedDetails,
                 lastConfirmedMessageID, notDoneTxnMessage>>

(* Mutant: acknowledged ackers leave the heap before smaller pending ones.  *)
PoppedAckedOutOfOrder == {t \in notAckHeap : detail[t].acknowledged}

(* The prefix of a heap that a pop loop removes: the elements such that     *)
(* they and every smaller one satisfy the loop's condition.                 *)
PoppedAcked == {t \in notAckHeap : \A u \in notAckHeap : u <= t => detail[u].acknowledged}

ConfirmedIDs(popped) == {lastConfirmedMessageID} \cup {i.id : i \in popped}

(* lastConfirmedManager.AddConfirmedDetails: confirmed are the details that *)
(* leave the ackHeap, over the sessions whose IsExpiredOrDone is true now.  *)
AddConfirmedDetails(confirmed, over) ==
  LET infos  == notDoneTxnMessage \cup
                  {[id |-> d.id, session |-> d.session] :
                     d \in {c \in confirmed : ~c.isSync /\ ~c.err}}
      popped == {i \in infos : \A j \in infos :
                   j.id <= i.id => j.session \in over \cup {NoSession}}
  IN /\ notDoneTxnMessage' = infos \ popped
     /\ \E id \in ConfirmedIDs(popped) :
          /\ \A other \in ConfirmedIDs(popped) : other <= id
          /\ lastConfirmedMessageID' = id

(* The loop condition on the ackHeap: the acker of t ended before last.     *)
EndedBefore(d, t, last) == d.end < last

(* AckManager.ack with popUntilLastAllAcknowledged.  The broadcast releases *)
(* every appender that waits for its barrier.                               *)
Ack(ts, over) ==
  LET acked == [detail EXCEPT ![ts].end = lastAllocatedTimeTick]
      heap  == ackHeap \cup {ts}
  IN /\ detail' = acked
     /\ UNCHANGED lastAllocatedTimeTick
     /\ \/ /\ PoppedAcked = {}
           /\ ackHeap' = heap
           /\ UNCHANGED <<waiters, notAckHeap, lastConfirmedTimeTick, acknowledgedDetails,
                          lastConfirmedMessageID, notDoneTxnMessage>>
        \/ \E last \in PoppedAcked :
             LET confirmed == {t \in heap : EndedBefore(acked[t], t, last)}
             IN /\ \A t \in PoppedAcked : t <= last
                /\ notAckHeap' = notAckHeap \ PoppedAcked
                /\ waiters' = {}
                /\ lastConfirmedTimeTick' = last
                /\ ackHeap' = heap \ confirmed
                /\ AddConfirmedDetails({acked[t] : t \in confirmed}, over)
                /\ acknowledgedDetails' = acknowledgedDetails \cup PoppedAcked

(* Acker.Ack up to the store of the acknowledged flag, before the lock.     *)
MarkAcknowledged(ts, isSync) ==
  /\ detail' = [detail EXCEPT ![ts].acknowledged = TRUE, ![ts].isSync = isSync]
  /\ UNCHANGED <<lastAllocatedTimeTick, lastConfirmedTimeTick, notAckHeap, ackHeap,
                 acknowledgedDetails, lastConfirmedMessageID, notDoneTxnMessage>>

-----------------------------------------------------------------------------
(* timeTickAppendInterceptor.DoAppend of a message that is not a time tick. *)

(* A message with a barrier waits once if the barrier is not yet confirmed. *)
StartAppend(p, barrier, session) ==
  /\ ready
  /\ pc[p] = "idle"
  /\ pc' = [pc EXCEPT ![p] = "allocate"]
  /\ request' = [request EXCEPT ![p] = [barrier |-> barrier, session |-> session]]
  /\ waiters' = IF barrier # 0 /\ lastConfirmedTimeTick <= barrier
                  THEN waiters \cup {p} ELSE waiters
  /\ UNCHANGED <<tso, wal, crashes, failures, ready, managerVars, acker, syncVars>>

(* The context ends while the message waits, or the allocator fails.        *)
GiveUp(p) ==
  /\ pc[p] = "allocate"
  /\ pc' = [pc EXCEPT ![p] = "idle"]
  /\ request' = [request EXCEPT ![p] = NoRequest]
  /\ waiters' = waiters \ {p}
  /\ UNCHANGED <<tso, wal, crashes, failures, ready, managerVars, acker, syncVars>>

AllocateAcker(p) ==
  /\ pc[p] = "allocate"
  /\ p \notin waiters
  /\ \E ts \in Timestamps : Allocate(ts) /\ acker' = [acker EXCEPT ![p] = ts]
  /\ pc' = [pc EXCEPT ![p] = "append"]
  /\ UNCHANGED <<wal, crashes, failures, ready, request, waiters, syncVars>>

(* The message goes through the later interceptors to the underlying log,   *)
(* unless its transaction or one of the interceptors refuses it.            *)
(* The id or the error that comes back is what Ack will put in the detail;  *)
(* nobody reads it before the acknowledged flag is set.                     *)
AppendMsg(p) ==
  LET ts    == acker[p]
      entry == Message(ts, detail[ts].lastConfirmed)
  IN /\ pc[p] = "append"
     /\ pc' = [pc EXCEPT ![p] = "mark"]
     /\ \/ /\ wal' = Append(wal, entry)
           /\ UNCHANGED failures
           /\ detail' = [detail EXCEPT ![ts].id = Len(wal) + 1,
                                       ![ts].session = request[p].session]
        \/ /\ FailedAppend(entry)
           /\ detail' = [detail EXCEPT ![ts].err = TRUE]
        \/ /\ detail' = [detail EXCEPT ![ts].err = TRUE]
           /\ UNCHANGED <<wal, failures>>
     /\ UNCHANGED <<tso, crashes, ready, lastAllocatedTimeTick, lastConfirmedTimeTick,
                    notAckHeap, ackHeap, acknowledgedDetails, lastConfirmedMessageID,
                    notDoneTxnMessage, request, acker, waiters, syncVars>>

MarkAcker(p) ==
  /\ pc[p] = "mark"
  /\ MarkAcknowledged(acker[p], FALSE)
  /\ pc' = [pc EXCEPT ![p] = "ack"]
  /\ UNCHANGED <<tso, wal, crashes, failures, ready, request, acker, waiters, syncVars>>

(* Whatever IsExpiredOrDone answers for the sessions.                       *)
AckAcker(p, over) ==
  /\ pc[p] = "ack"
  /\ Ack(acker[p], over)
  /\ pc' = [pc EXCEPT ![p] = "idle"]
  /\ request' = [request EXCEPT ![p] = NoRequest]
  /\ acker' = [acker EXCEPT ![p] = 0]
  /\ UNCHANGED <<tso, wal, crashes, failures, ready, syncVars>>

-----------------------------------------------------------------------------
(* timeTickSyncOperator.Sync, called by one goroutine of the inspector. *)

SyncAllocate ==
  /\ ready
  /\ syncPc = "idle"
  /\ \E ts \in Timestamps : Allocate(ts) /\ syncAcker' = ts
  /\ syncPc' = "mark"
  /\ UNCHANGED <<wal, crashes, failures, ready, appenderVars, sentInfo, ackDetails, notifier>>

(* The allocator fails: the details kept from before are sent again.        *)
SyncAllocateFail ==
  /\ ready
  /\ syncPc = "idle"
  /\ ackDetails # {}
  /\ syncPc' = "send"
  /\ UNCHANGED <<tso, wal, crashes, failures, ready, managerVars, appenderVars, syncAcker,
                 sentInfo, ackDetails, notifier>>

SyncMark ==
  /\ syncPc = "mark"
  /\ MarkAcknowledged(syncAcker, TRUE)
  /\ syncPc' = "ack"
  /\ UNCHANGED <<tso, wal, crashes, failures, ready, appenderVars, syncAcker, sentInfo,
                 ackDetails, notifier>>

SyncAck(over) ==
  /\ syncPc = "ack"
  /\ Ack(syncAcker, over)
  /\ syncPc' = "take"
  /\ syncAcker' = 0
  /\ UNCHANGED <<tso, wal, crashes, failures, ready, pc, request, acker, sentInfo,
                 ackDetails, notifier>>

(* Mutant: SyncAndGetAcknowledged does not take the details away.           *)
TakeDetailsCopies == UNCHANGED acknowledgedDetails

TakeDetails == acknowledgedDetails' = {}

(* The rest of SyncAndGetAcknowledged, and AckDetails.AddDetails.           *)
SyncTake ==
  /\ syncPc = "take"
  /\ ackDetails' = ackDetails \cup acknowledgedDetails
  /\ TakeDetails
  /\ syncPc' = IF ackDetails' = {} THEN "idle" ELSE "send"
  /\ UNCHANGED <<tso, wal, crashes, failures, ready, lastAllocatedTimeTick, lastConfirmedTimeTick,
                 detail, notAckHeap, ackHeap, lastConfirmedMessageID, notDoneTxnMessage,
                 appenderVars, syncAcker, sentInfo, notifier>>

(* Mutant: one sync detail is enough not to persist the time tick.          *)
IsNoPersistedMessageAny == \E t \in ackDetails : detail[t].isSync

IsNoPersistedMessage == \A t \in ackDetails : detail[t].isSync

IsLastAllAcknowledged(ts) == ts \in ackDetails /\ \A t \in ackDetails : t <= ts

IsEarliestLastConfirmed(id) ==
  /\ \E t \in ackDetails : detail[t].lastConfirmed = id
  /\ \A t \in ackDetails : id <= detail[t].lastConfirmed

(* sendPersistentTsMsg: when the log rejects the time tick the details are  *)
(* kept for the next round.                                                 *)
SendPersistentTsMsg ==
  /\ syncPc = "send"
  /\ ~IsNoPersistedMessage
  /\ \E ts \in ackDetails, id \in {detail[t].lastConfirmed : t \in ackDetails} :
       /\ IsLastAllAcknowledged(ts)
       /\ IsEarliestLastConfirmed(id)
       /\ \/ /\ wal' = Append(wal, TimeTickMsg(ts, id))
             /\ UNCHANGED failures
             /\ syncPc' = "sent"
             /\ sentInfo' = [id |-> Len(wal) + 1, tt |-> ts]
          \/ /\ FailedAppend(TimeTickMsg(ts, id))
             /\ syncPc' = "idle"
             /\ UNCHANGED sentInfo
  /\ UNCHANGED <<tso, crashes, ready, managerVars, appenderVars, syncAcker, ackDetails, notifier>>

(* The rest of sendPersistentTsMsg: Clear and TimeTickNotifier.Update.      *)
NotifyPersisted ==
  /\ syncPc = "sent"
  /\ notifier' = IF notifier.tt = 0 \/ notifier.id < sentInfo.id THEN sentInfo ELSE notifier
  /\ ackDetails' = {}
  /\ sentInfo' = NoInfo
  /\ syncPc' = "idle"
  /\ UNCHANGED <<tso, wal, crashes, failures, ready, managerVars, appenderVars, syncAcker>>

(* sendNoPersistentTsMsg with TimeTickNotifier.OnlyUpdateTs: the log is not *)
(* written.  The append fails when the WAL is shutting down.                *)
SendNoPersistentTsMsg ==
  /\ syncPc = "send"
  /\ IsNoPersistedMessage
  /\ \/ /\ \E ts \in ackDetails :
             /\ IsLastAllAcknowledged(ts)
             /\ notifier' = IF notifier.tt # 0 /\ notifier.tt < ts
                             THEN [notifier EXCEPT !.tt = ts] ELSE notifier
        /\ ackDetails' = {}
     \/ UNCHANGED <<ackDetails, notifier>>
  /\ syncPc' = "idle"
  /\ UNCHANGED <<tso, wal, crashes, failures, ready, managerVars, appenderVars, syncAcker, sentInfo>>

-----------------------------------------------------------------------------
(* The life of the WAL: it is opened, and lost with everything in memory.   *)

(* TSOAllocator().Sync() and Allocate, when the WAL is opened.              *)
FirstTimestamp == tso + 1

(* One round of blockUntilSyncTimeTickReady: a time tick goes to the        *)
(* underlying log, whose producer the new term holds exclusively.           *)
FirstTimeTick ==
  LET ts == FirstTimestamp
      id == Len(wal) + 1
  IN /\ ~ready
     /\ ts \in Timestamps
     /\ tso' = ts
     /\ \/ /\ wal' = Append(wal, TimeTickMsg(ts, id))
           /\ UNCHANGED failures
           /\ NewAckManager(ts, id)
           /\ notifier' = [id |-> id, tt |-> ts]
           /\ ready' = TRUE
        \/ /\ FailedAppend(TimeTickMsg(ts, id))
           /\ UNCHANGED <<ready, managerVars, notifier>>
     /\ UNCHANGED <<crashes, appenderVars, syncPc, syncAcker, ackDetails, sentInfo>>

newTimeTickSyncOperator ==
  /\ syncPc' = "idle"
  /\ syncAcker' = 0
  /\ sentInfo' = NoInfo
  /\ notifier' = NoInfo
  /\ ackDetails' = {}

(* The WAL is closed or its node stops: only the log survives, and the next *)
(* term opens it with a new operator.                                       *)
Crash ==
  /\ ready
  /\ crashes < MaxCrashes
  /\ crashes' = crashes + 1
  /\ ready' = FALSE
  /\ NewAckManager(0, 0)
  /\ newTimeTickSyncOperator
  /\ pc' = [p \in Appenders |-> "idle"]
  /\ request' = [p \in Appenders |-> NoRequest]
  /\ acker' = [p \in Appenders |-> 0]
  /\ waiters' = {}
  /\ UNCHANGED <<tso, wal, failures>>

Init ==
  /\ tso = 0
  /\ wal = << >>
  /\ crashes = 0
  /\ failures = 0
  /\ ready = FALSE
  /\ lastAllocatedTimeTick = 0
  /\ lastConfirmedTimeTick = 0
  /\ detail = << >>
  /\ notAckHeap = {}
  /\ ackHeap = {}
  /\ acknowledgedDetails = {}
  /\ lastConfirmedMessageID = 0
  /\ notDoneTxnMessage = {}
  /\ pc = [p \in Appenders |-> "idle"]
  /\ request = [p \in Appenders |-> NoRequest]
  /\ acker = [p \in Appenders |-> 0]
  /\ waiters = {}
  /\ syncPc = "idle"
  /\ syncAcker = 0
  /\ sentInfo = NoInfo
  /\ ackDetails = {}
  /\ notifier = NoInfo

AppendStep(p) ==
  \/ \E barrier \in Barriers \cup {0}, session \in Sessions \cup {NoSession} :
       StartAppend(p, barrier, session)
  \/ GiveUp(p)
  \/ AllocateAcker(p)
  \/ AppendMsg(p)
  \/ MarkAcker(p)
  \/ \E over \in SUBSET Sessions : AckAcker(p, over)

SyncStep ==
  \/ SyncAllocate
  \/ SyncAllocateFail
  \/ SyncMark
  \/ \E over \in SUBSET Sessions : SyncAck(over)
  \/ SyncTake
  \/ SendPersistentTsMsg
  \/ NotifyPersisted
  \/ SendNoPersistentTsMsg

Next ==
  \/ \E p \in Appenders : AppendStep(p)
  \/ SyncStep
  \/ FirstTimeTick
  \/ Crash

Spec == Init /\ [][Next]_vars

-----------------------------------------------------------------------------
(* Properties. *)

AckDetail == [lastConfirmed : Nat, end : Nat, id : Nat, session : Sessions \cup {NoSession},
              isSync : BOOLEAN, err : BOOLEAN, acknowledged : BOOLEAN]
WalEntry == [type : {"msg", "timetick"}, tt : Nat, lastConfirmed : Nat]

(* Every variable has its type (a Nat is a timestamp or a position).        *)
TypeOK ==
  /\ tso \in Nat
  /\ wal \in Seq(WalEntry)
  /\ crashes \in Nat
  /\ failures \in Nat
  /\ ready \in BOOLEAN
  /\ lastAllocatedTimeTick \in Nat
  /\ lastConfirmedTimeTick \in Nat
  /\ detail \in [DOMAIN detail -> AckDetail]
  /\ DOMAIN detail \subseteq Nat
  /\ notAckHeap \subseteq DOMAIN detail
  /\ ackHeap \subseteq DOMAIN detail
  /\ acknowledgedDetails \subseteq DOMAIN detail
  /\ lastConfirmedMessageID \in Nat
  /\ notDoneTxnMessage \subseteq [id : Nat, session : Sessions \cup {NoSession}]
  /\ ackDetails \subseteq DOMAIN detail
  /\ notifier \in [id : Nat, tt : Nat]
  /\ pc \in [Appenders -> {"idle", "allocate", "append", "mark", "ack"}]
  /\ request \in [Appenders -> [barrier : Nat, session : Sessions \cup {NoSession}]]
  /\ acker \in [Appenders -> Nat]
  /\ waiters \subseteq Appenders
  /\ syncPc \in {"idle", "mark", "ack", "take", "send", "sent"}
  /\ syncAcker \in Nat
  /\ sentInfo \in [id : Nat, tt : Nat]

(* The TT principle the comments of timetick_sync_operator.go rely on: once *)
(* a time tick T is in the log, every message persisted after it has a time *)
(* tick greater than T, across appenders, failed appends and reopenings.    *)
TimeTickPrinciple ==
  \A i, j \in 1 .. Len(wal) :
    i < j /\ wal[i].type = "timetick" /\ wal[j].type = "msg" => wal[i].tt < wal[j].tt

(* What a scanner relies on in handleTimeTickUpdated: a time tick announced *)
(* only through the notifier covers no message that the persisted time tick *)
(* it is attached to does not cover, neither behind it nor before it.       *)
NotifierPrinciple ==
  \A j \in 1 .. Len(wal) :
    wal[j].type = "msg" /\ wal[j].tt <= notifier.tt =>
      j < notifier.id /\ wal[j].tt <= wal[notifier.id].tt

(* WithLastConfirmed in DoAppend, for messages and for time ticks: start    *)
(* consuming from the last confirmed id of an entry, and no message with a  *)
(* time tick greater than the entry's is missed.                            *)
LastConfirmedPrinciple ==
  \A m, i \in 1 .. Len(wal) :
    wal[i].type = "msg" /\ wal[i].tt > wal[m].tt => i > wal[m].lastConfirmed

(* Persisted time ticks never go back, even when one is sent again after an *)
(* error that hid a successful append, and over a change of term.           *)
TimeTicksAscend ==
  \A i, j \in 1 .. Len(wal) :
    i < j /\ wal[i].type = "timetick" /\ wal[j].type = "timetick" => wal[i].tt <= wal[j].tt

(* AckDetails.AddDetails never panics: what SyncAndGetAcknowledged returns  *)
(* is newer than everything the operator still keeps from failed rounds.    *)
DetailsSorted ==
  \A t \in acknowledgedDetails, u \in ackDetails : u < t

(* popUntilLastAllAcknowledged: the ids up to lastConfirmedMessageID are    *)
(* dense, i.e. no appender still has to acknowledge a message there.        *)
ConfirmedIsDense ==
  \A p \in Appenders :
    pc[p] \in {"append", "mark"} =>
      /\ acker[p] > lastConfirmedTimeTick
      /\ \A i \in 1 .. Len(wal) : wal[i].tt = acker[p] => i > lastConfirmedMessageID

(* While a WAL stays open its confirmed time tick and id only move forward. *)
ConfirmedAdvances ==
  [][ready /\ ready' =>
       /\ lastConfirmedTimeTick' >= lastConfirmedTimeTick
       /\ lastConfirmedMessageID' >= lastConfirmedMessageID]_vars

(* What the log may rely on: nothing at or below it will be written.        *)
Promised == IF ready THEN lastConfirmedTimeTick ELSE tso

L == INSTANCE WatermarkLog WITH floor <- Promised

(* To its readers the WAL is a WatermarkLog, through failed appends and     *)
(* reopenings: every entry is written and every time tick announced as the  *)
(* scanners and the consumers' checkpoints need it.                         *)
ImplementsWatermarkLog == L!LogSpec

(* message.go: a barrier is "used to promised the message will be sent      *)
(* after that time tick".                                                   *)
BarrierRespected ==
  \A p \in Appenders : pc[p] \in {"append", "mark", "ack"} => acker[p] > request[p].barrier

=============================================================================
