-------------------------------- MODULE Scanner --------------------------------
(***************************************************************************)
(* A consumer and its scanner over a log that keeps WatermarkLog's         *)
(* promises.  scannerAdaptorImpl is one goroutine that reads upstream,     *)
(* hands out what it has, and watches the notifier when it has nothing;    *)
(* the resumable consumer of the client starts a new scanner from its last *)
(* checkpoint whenever the old one breaks.                                 *)
(***************************************************************************)
EXTENDS WatermarkLog, ScanBuffers

CONSTANTS
  Kinds,        \* kinds of messages; "other" belongs to another vchannel
  Txns,         \* transactions
  QueueLimit,   \* pending messages above which nothing is read (16 in the code)
  MaxTT,        \* bound: time ticks
  MaxLen,       \* bound: entries of the log
  MaxResumes    \* bound: scanners that break

ASSUME ScannerAssumption ==
  MaxTT \in Nat /\ MaxLen \in Nat /\ MaxResumes \in Nat /\ QueueLimit \in Nat

VARIABLES
  content,     \* kind and transaction of the messages, by time tick
  pos,         \* how far upstream has been read
  scan,        \* reorderBuffer and txnBuffer
  pending,     \* pendingQueue
  info,        \* lastTimeTickInfo
  after,       \* the filter TimeTickGT
  delivered,   \* all the consumer has handled
  resumes      \* scanners that broke

scanVars == <<pos, scan, pending, info, after>>
vars == <<logVars, content, scanVars, delivered, resumes>>

NoInfo == [id |-> 0, tt |-> 0, lastConfirmed |-> 0]

-----------------------------------------------------------------------------
(* The log.  Time ticks of messages are never reused, see TSO. *)

WriteMessage ==
  /\ Len(wal) < MaxLen
  /\ \E tt \in (1 .. MaxTT) \ DOMAIN content, k \in Kinds, x \in Txns, id \in 0 .. Len(wal) :
       LET e == [type |-> "msg", tt |-> tt, lastConfirmed |-> id]
       IN /\ Writable(e, floor)
          /\ MayStartAfter(e)
          /\ wal' = Append(wal, e)
          /\ content' = [t \in DOMAIN content \cup {tt} |->
                           IF t = tt THEN [kind |-> k, txn |-> x] ELSE content[t]]
  /\ UNCHANGED <<floor, notifier, scanVars, delivered, resumes>>

WriteTimeTick ==
  /\ Len(wal) < MaxLen
  /\ \E tt \in floor .. MaxTT, id \in 0 .. Len(wal) :
       LET e == [type |-> "timetick", tt |-> tt, lastConfirmed |-> id]
       IN /\ tt > 0
          /\ MayStartAfter(e)
          /\ wal' = Append(wal, e)
          /\ floor' = tt
  /\ UNCHANGED <<notifier, content, scanVars, delivered, resumes>>

(* TimeTickNotifier.Update and OnlyUpdateTs.                                *)
Notify ==
  /\ \E id \in notifier.id .. Len(wal), tt \in notifier.tt .. MaxTT :
       /\ id > 0 /\ ~IsMessage(wal[id]) /\ tt >= wal[id].tt
       /\ floor' = IF tt > floor THEN tt ELSE floor
       /\ notifier' = [id |-> id, tt |-> tt]
       /\ NextAnnouncement(notifier', floor', wal)
  /\ UNCHANGED <<wal, content, scanVars, delivered, resumes>>

-----------------------------------------------------------------------------
(* scannerAdaptorImpl. *)

(* The filters of the client: its vchannel, and TimeTickGT, which looks at  *)
(* autocommit messages and commits only.                                    *)
Wanted(m) ==
  /\ m.kind # "other"
  /\ m.kind \in {"auto", "commit"} => m.tt > after

ReadEntry(e) ==
  IF IsMessage(e)
  THEN LET m == [tt |-> e.tt, lastConfirmed |-> e.lastConfirmed,
                 kind |-> content[e.tt].kind, txn |-> content[e.tt].txn]
       IN /\ scan' = IF Wanted(m) THEN Push(scan, m) ELSE scan
          /\ UNCHANGED <<pending, info>>
  ELSE LET r == HandleTimeTick(scan, e.tt)
       IN /\ scan' = r.scan
          /\ pending' = pending \o r.out
          /\ info' = [id |-> pos + 1, tt |-> e.tt, lastConfirmed |-> e.lastConfirmed]

(* getUpstream and handleUpstream.                                          *)
HandleUpstream ==
  /\ pos < Len(wal)
  /\ Len(pending) <= QueueLimit
  /\ ReadEntry(wal[pos + 1])
  /\ pos' = pos + 1
  /\ UNCHANGED <<logVars, content, after, delivered, resumes>>

(* getTimeTickUpdateChan: the scanner has nothing else to hand out.         *)
Watches == pending = << >> /\ scan.heap = {} /\ info.tt # 0

(* Mutant: the watcher wakes up for a later position only.                  *)
IsNewsLater == info.id < notifier.id /\ info.tt < notifier.tt

(* The channel of WatchAtMessageID is ready, and handleTimeTickUpdated      *)
(* finds its own position in what it gets.                                  *)
IsNews == info.id = notifier.id /\ info.tt < notifier.tt

HandleTimeTickUpdated ==
  /\ Watches
  /\ IsNews
  /\ info' = [info EXCEPT !.tt = notifier.tt]
  /\ pending' = Append(pending, Item(info', << >>))
  /\ UNCHANGED <<logVars, content, pos, scan, after, delivered, resumes>>

(* The handler of the consumer takes the next pending message.              *)
Deliver ==
  /\ pending # << >>
  /\ delivered' = Append(delivered, Head(pending))
  /\ pending' = Tail(pending)
  /\ UNCHANGED <<logVars, content, pos, scan, info, after, resumes>>

-----------------------------------------------------------------------------
(* resumableConsumerImpl. *)

(* Mutant: the checkpoint is where the scanner has read to.                 *)
StartAfterRead(item) == pos

(* DeliverPolicyStartAfter of the last handled message's checkpoint.        *)
StartAfter(item) == item.lastConfirmed

TimeTickGT(item) == item.tt

(* The stream ends at any moment, or the log is closed under it and opened  *)
(* elsewhere; what the scanner holds is lost.                               *)
Resume ==
  /\ resumes < MaxResumes
  /\ resumes' = resumes + 1
  /\ IF delivered = << >> THEN pos' = 0 /\ after' = 0
     ELSE pos' = StartAfter(Last(delivered)) /\ after' = TimeTickGT(Last(delivered))
  /\ scan' = EmptyScan
  /\ pending' = << >>
  /\ info' = NoInfo
  /\ notifier' \in {notifier, NoAnnouncement}
  /\ UNCHANGED <<wal, floor, content, delivered>>

Init ==
  /\ LogInit
  /\ content = << >>
  /\ pos = 0 /\ after = 0
  /\ scan = EmptyScan
  /\ pending = << >>
  /\ info = NoInfo
  /\ delivered = << >>
  /\ resumes = 0

Next ==
  \/ WriteMessage \/ WriteTimeTick \/ Notify
  \/ HandleUpstream \/ HandleTimeTickUpdated \/ Deliver
  \/ Resume

Spec == Init /\ [][Next]_vars

(* The scanner's goroutine runs, and the consumer takes what it is given.   *)
FairSpec ==
  /\ Spec
  /\ WF_vars(HandleUpstream) /\ WF_vars(HandleTimeTickUpdated) /\ WF_vars(Deliver)

-----------------------------------------------------------------------------
(* Properties. *)

HandledTT == IF delivered = << >> THEN 0 ELSE Last(delivered).tt

(* The consumer "always" gets time tick order, over resumptions and with    *)
(* the time ticks the scanner makes up: nothing comes after a time tick     *)
(* that it covers, and no message comes twice.                              *)
DeliveredInOrder ==
  \A i, j \in 1 .. Len(delivered) : i < j =>
    /\ delivered[i].tt <= delivered[j].tt
    /\ delivered[j].msgs # {} => delivered[i].tt < delivered[j].tt

(* That order, as long as the scanner does not break.                       *)
InOrderUnlessResumed == resumes = 0 => DeliveredInOrder

(* When the consumer handles time tick T, it has handled every message of   *)
(* its own up to T that is in the log or will ever be: neither the filters, *)
(* nor the drop in Push, nor a resumption loses one.                        *)
NothingSkipped ==
  \A i \in 1 .. Len(wal), d \in 1 .. Len(delivered) :
    IsMessage(wal[i]) /\ content[wal[i].tt].kind = "auto" /\ wal[i].tt <= delivered[d].tt =>
      \E c \in 1 .. d : wal[i].tt \in delivered[c].msgs

(* A message covered by a time tick of the log reaches the consumer, also   *)
(* when the queue is at its limit or the scanner is replaced.               *)
EventuallyHandled ==
  \A t \in 1 .. MaxTT :
    (\E i, k \in 1 .. Len(wal) : /\ i < k /\ ~IsMessage(wal[k]) /\ wal[k].tt >= t
                                 /\ IsMessage(wal[i]) /\ wal[i].tt = t /\ content[t].kind = "auto")
      ~> (\E d \in 1 .. Len(delivered) : t \in delivered[d].msgs)

(* A time tick that is only announced reaches a consumer that has handled   *)
(* all there is, unless the log goes on or is closed: no wakeup of the      *)
(* notifier is lost between WatchAtMessageID and Get.                       *)
AnnouncedSeen ==
  \A t \in 1 .. MaxTT :
    (/\ notifier.tt = t /\ notifier.id = Len(wal) /\ wal[notifier.id].tt < t
     /\ \A i \in 1 .. Len(wal) : wal[i].tt < t)
      ~> (HandledTT >= t \/ notifier.id # Len(wal))

=============================================================================
