--------------------------- MODULE TimeTickInvariant ---------------------------
(***************************************************************************)
(* The inductive invariant of TimeTick: where a timestamp can be while its *)
(* acker lives, and how far the log is covered by what the manager has     *)
(* confirmed.  TimeTickProofs proves it.                                   *)
(***************************************************************************)
EXTENDS TimeTick

(* No timestamp is ahead of the allocator, and while an acker exists the    *)
(* last allocated time tick is ahead of everything in the log.              *)
Allocated ==
  /\ lastAllocatedTimeTick <= tso
  /\ lastConfirmedTimeTick <= tso
  /\ \A t \in DOMAIN detail : 0 < t /\ t <= lastAllocatedTimeTick
  /\ \A i \in 1 .. Len(wal) : wal[i].tt <= tso
  /\ DOMAIN detail # {} => \A i \in 1 .. Len(wal) : wal[i].tt <= lastAllocatedTimeTick
  /\ \A i \in 1 .. Len(wal) : 0 < wal[i].tt

(* A WAL that is not open has no acker and no running appender.             *)
Closed ==
  ~ready => /\ DOMAIN detail = {}
            /\ notDoneTxnMessage = {}
            /\ lastConfirmedMessageID = 0
            /\ notifier = NoInfo
            /\ \A p \in Appenders : pc[p] = "idle"
            /\ syncPc = "idle"

(* An acker leaves the notAckHeap only when it and all smaller ones are     *)
(* acknowledged; what has left it is confirmed.                             *)
Heaps ==
  /\ \A t \in DOMAIN detail : t \in notAckHeap <=> lastConfirmedTimeTick < t
  /\ \A t \in DOMAIN detail : ~detail[t].acknowledged => t \in notAckHeap
  /\ \A t \in ackHeap : detail[t].acknowledged
  /\ \A t \in acknowledgedDetails \cup ackDetails : t <= lastConfirmedTimeTick
  /\ DetailsSorted

(* Each running appender, and the sync goroutine, owns its acker.           *)
Holds(p) == pc[p] \in {"append", "mark", "ack"}
SyncHolds == syncPc \in {"mark", "ack"}
Owners ==
  /\ \A p \in Appenders : Holds(p) =>
       /\ acker[p] \in DOMAIN detail
       /\ detail[acker[p]].acknowledged <=> pc[p] = "ack"
       /\ ~detail[acker[p]].isSync
       /\ SyncHolds => acker[p] # syncAcker
       /\ \A q \in Appenders : q # p /\ Holds(q) => acker[p] # acker[q]
  /\ SyncHolds => /\ syncAcker \in DOMAIN detail
                  /\ detail[syncAcker].acknowledged <=> syncPc = "ack"
                  /\ detail[syncAcker].id = 0
                  /\ \A i \in 1 .. Len(wal) : wal[i].tt # syncAcker

(* Time ticks never exceed what has been promised, messages always do when  *)
(* they are written.  What is still to be sent is not behind a time tick.   *)
Published ==
  /\ \A i \in 1 .. Len(wal) : wal[i].type = "timetick" =>
       /\ wal[i].tt <= Promised
       /\ \A t \in acknowledgedDetails : wal[i].tt < t
       /\ ackDetails # {} => \E t \in ackDetails : wal[i].tt <= t
  /\ TimeTickPrinciple
  /\ TimeTicksAscend

(* A message above the persisted time tick the notifier points to that is   *)
(* already confirmed is still in the details the operator has to send, and  *)
(* marked persisted.                                                        *)
Announced ==
  /\ NotifierPrinciple
  /\ notifier.id <= Len(wal)
  /\ notifier.tt <= lastConfirmedTimeTick
  /\ \A t \in acknowledgedDetails \cup ackDetails : notifier.tt < t
  /\ ready =>
       /\ notifier.id \in 1 .. Len(wal) /\ wal[notifier.id].type = "timetick"
       /\ wal[notifier.id].tt <= notifier.tt
       /\ \A j \in 1 .. Len(wal) : wal[j].type = "msg" /\ wal[notifier.id].tt < wal[j].tt =>
            /\ wal[j].tt \in DOMAIN detail
            /\ ~detail[wal[j].tt].isSync
            /\ wal[j].tt <= lastConfirmedTimeTick =>
                 wal[j].tt \in acknowledgedDetails \cup ackDetails
  /\ syncPc = "sent" => /\ sentInfo.id \in 1 .. Len(wal)
                        /\ notifier.id < sentInfo.id
                        /\ wal[sentInfo.id].type = "timetick"
                        /\ wal[sentInfo.id].tt = sentInfo.tt
                        /\ IsLastAllAcknowledged(sentInfo.tt)

(* All that is in the log up to position id has a time tick of at most ts.  *)
CoveredTo(id, ts) == id <= Len(wal) /\ \A i \in 1 .. id : wal[i].tt <= ts

(* The argument behind EndTimestamp: an entry up to the id of an acker was  *)
(* allocated before that acker ended.                                       *)
Confirmed ==
  /\ \A t \in DOMAIN detail : detail[t].id <= Len(wal)
  /\ \A t \in ackHeap : CoveredTo(detail[t].id, detail[t].end)
  /\ \A x \in notDoneTxnMessage : CoveredTo(x.id, lastConfirmedTimeTick)
  /\ CoveredTo(lastConfirmedMessageID, lastConfirmedTimeTick)
  /\ \A t \in DOMAIN detail : /\ detail[t].lastConfirmed <= Len(wal)
                              /\ \A i \in 1 .. detail[t].lastConfirmed : wal[i].tt < t
  /\ \A m \in 1 .. Len(wal) : wal[m].lastConfirmed <= Len(wal)
  /\ LastConfirmedPrinciple

Inv == TypeOK /\ Allocated /\ Closed /\ Heaps /\ Owners /\ Published /\ Announced /\ Confirmed
================================================================================
