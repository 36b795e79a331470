----------------------------- MODULE SegmentAssign -----------------------------
(***************************************************************************)
(* The segment interceptor of a WAL: every insert is assigned to a growing *)
(* segment; segments that are full, old, flushed by hand or dropped are    *)
(* sealed, and a flush message tells consumers that a segment is complete. *)
(* One partition, with the handlers of inserts, manual flush and drop, the *)
(* goroutine of the inspector that seals, the meta of segments in etcd,    *)
(* the statistics that all WALs of a node share, closing and reopening of  *)
(* the WAL, and crashes.                                                   *)
(***************************************************************************)
EXTENDS Integers, FiniteSets, FiniteSetsExt

CONSTANTS
  Inserts,       \* insert messages
  InTxn,         \* the ones that are part of a transaction
  MaxSegments,   \* bound: segment ids
  Capacity,      \* inserts that fit in a segment
  Nil,           \* a nil pointer in the seal queue
  MustSeals,     \* whether the growing segments of the node get too large
  Closes,        \* whether the WAL may be closed
  MaxFaults      \* bound: crashes, closings and operations that fail

ASSUME SegmentAssumption ==
  /\ IsFiniteSet(Inserts) /\ InTxn \subseteq Inserts
  /\ MaxSegments \in Nat /\ Nil \notin 1..MaxSegments /\ Capacity \in Nat \ {0}
  /\ MustSeals \in BOOLEAN /\ Closes \in BOOLEAN /\ MaxFaults \in Nat

Segments == 1..MaxSegments

VARIABLES
  catalog,    \* state of each segment in etcd
  state,      \* and in memory
  rows, full, \* statistics of a segment: how much was assigned, ReachLimit
  ack, txn,   \* ackSem and txnSem of each segment
  held,       \* partitionSegmentManager.segments
  fence,      \* its fencedAssignTimeTick
  removed,    \* whether the partition manager was taken out of the map
  exists,     \* whether the root coordinator has the partition
  queue,      \* sealQueue.waitForSealed
  counter,    \* and waitCounter
  stats,      \* segments that are registered with the StatsManager
  ins,        \* handleInsertMessage: where it is, its time tick and segment
  flush,      \* handleManualFlushMessage
  drop,       \* handleDropPartition
  insp,       \* the inspector's goroutine
  wal,        \* open, stopping or closed
  persisted,  \* history: inserts in the log
  flushed,    \* history: segments with a flush message in the log
  written,    \* history: messages in the log that fill a segment
  panicked,   \* the process has panicked
  now,        \* the latest time tick
  faults

segVars == <<catalog, state, rows, full, stats>>
semVars == <<ack, txn>>
partVars == <<held, fence, removed>>
queueVars == <<queue, counter>>
logVars == <<persisted, flushed, written>>
vars == <<segVars, semVars, partVars, exists, queueVars, ins, flush, drop, insp, wal, logVars, panicked, now, faults>>

Up == ~panicked /\ wal # "closed"

Fault == faults > 0 /\ faults' = faults - 1

Loaded == {s \in Segments : catalog[s] \in {"pending", "growing", "sealed"}}
Idle == [pc |-> "idle", taken |-> {}, ready |-> {}, undone |-> {}]

Init ==
  /\ catalog = [s \in Segments |-> "none"] /\ state = catalog
  /\ rows = [s \in Segments |-> 0] /\ full = {} /\ stats = {}
  /\ ack = [s \in Segments |-> 0] /\ txn = [s \in Segments |-> 0]
  /\ held = {} /\ fence = 0 /\ removed = FALSE /\ exists = TRUE
  /\ queue = {} /\ counter = 0
  /\ ins = [i \in Inserts |-> [pc |-> "new", tt |-> 0, seg |-> 0]]
  /\ flush = [pc |-> "new", ts |-> 0, segs |-> {}] /\ drop = [pc |-> "new", segs |-> {}]
  /\ insp = Idle /\ wal = "open"
  /\ persisted = {} /\ flushed = {} /\ written = [s \in Segments |-> 0]
  /\ panicked = FALSE /\ now = 0 /\ faults = MaxFaults

(* Commit of a segment's meta: etcd first, then memory.                     *)
Commit(s, st) ==
  /\ catalog' = [catalog EXCEPT ![s] = st] /\ state' = [state EXCEPT ![s] = st]
  /\ stats' = IF st = "growing" THEN stats \cup {s} ELSE IF state[s] = "growing" THEN stats \ {s} ELSE stats

(* A commit that fails may have reached etcd.                               *)
CommitFails(s, st) ==
  /\ Fault
  /\ catalog' \in {catalog, [catalog EXCEPT ![s] = st]}
  /\ UNCHANGED <<state, stats>>

------------------------------------------------------------------------------
(* Inserts. *)

(* The time tick interceptor comes first.                                   *)
StartInsert(i) ==
  /\ Up /\ ins[i].pc = "new" /\ wal = "open"
  /\ now' = now + 1
  /\ ins' = [ins EXCEPT ![i] = [@ EXCEPT !.pc = "get", !.tt = now + 1]]
  /\ UNCHANGED <<segVars, semVars, partVars, exists, queueVars, flush, drop, insp, wal, logVars, panicked, faults>>

GetManager(i) ==
  /\ Up /\ ins[i].pc = "get"
  /\ ins' = [ins EXCEPT ![i].pc = IF removed THEN "done" ELSE "assign"]
  /\ UNCHANGED <<segVars, semVars, partVars, exists, queueVars, flush, drop, insp, wal, logVars, panicked, now, faults>>

Reject(i) == ins' = [ins EXCEPT ![i].pc = "done"]

(* segmentAllocManager.AllocRows on a segment that has room.                *)
AllocRows(i, s) ==
  /\ rows' = [rows EXCEPT ![s] = @ + 1]
  /\ ack' = [ack EXCEPT ![s] = @ + 1]
  /\ txn' = IF i \in InTxn THEN [txn EXCEPT ![s] = @ + 1] ELSE txn
  /\ ins' = [ins EXCEPT ![i] = [@ EXCEPT !.pc = "append", !.seg = s]]

Growing == {s \in held : state[s] = "growing"}
Pending == {s \in held : state[s] = "pending"}
WithRoom == {s \in Growing : rows[s] < Capacity}

(* The oldest segment of a set.                                             *)
First(S) == {s \in S : \A t \in S : s <= t}

(* allocNewGrowingSegment: a pending segment is used if there is one.  The  *)
(* meta, the call to the data coordinator and the second save may fail.  A  *)
(* crash in the middle leaves what a failure followed by a crash leaves.    *)
AllocNewGrowingSegment(i) ==
  LET new == {s \in Segments : \A t \in s..MaxSegments : catalog[t] = "none" /\ t \notin flushed}
  IN \E s \in First(IF Pending # {} THEN Pending ELSE new) :
       \/ /\ Commit(s, "growing") /\ held' = held \cup {s}
          /\ AllocRows(i, s) /\ UNCHANGED faults
       \/ /\ Pending = {} /\ CommitFails(s, "pending")
          /\ Reject(i) /\ UNCHANGED <<held, rows, semVars>>
       \/ /\ Fault
          /\ catalog' \in {[catalog EXCEPT ![s] = st] : st \in {"pending", "growing"}}
          /\ state' = [state EXCEPT ![s] = "pending"] /\ held' = held \cup {s}
          /\ Reject(i) /\ UNCHANGED <<stats, rows, semVars>>

(* AssignSegment, with the partition manager locked.                        *)
AssignSegment(i) ==
  /\ Up /\ ins[i].pc = "assign"
  /\ IF ins[i].tt <= fence
     THEN Reject(i) /\ UNCHANGED <<segVars, semVars, held, faults>>
     ELSE IF WithRoom # {}
     THEN /\ \E s \in First(WithRoom) :
               AllocRows(i, s) /\ full' = full \cup {t \in Growing : t < s}
          /\ UNCHANGED <<catalog, state, stats, held, faults>>
     ELSE full' = full \cup Growing /\ AllocNewGrowingSegment(i)
  /\ UNCHANGED <<fence, removed, exists, queueVars, flush, drop, insp, wal, logVars, panicked, now>>

(* The rest of the chain: the message is in the log, or an error is         *)
(* returned, with the message in the log or not.                            *)
AppendInsert(i) ==
  /\ Up /\ ins[i].pc = "append"
  /\ ins' = [ins EXCEPT ![i].pc = "ack"]
  /\ \/ /\ persisted' = persisted \cup {i}
        /\ written' = [written EXCEPT ![ins[i].seg] = @ + 1]
        /\ UNCHANGED faults \/ Fault
     \/ Fault /\ UNCHANGED <<persisted, written>>
  /\ UNCHANGED <<segVars, semVars, partVars, exists, queueVars, flush, drop, insp, wal, flushed, panicked, now>>

Ack(i) ==
  /\ Up /\ ins[i].pc = "ack"
  /\ ins' = [ins EXCEPT ![i].pc = IF i \in InTxn THEN "txn" ELSE "done"]
  /\ ack' = [ack EXCEPT ![ins[i].seg] = @ - 1]
  /\ UNCHANGED <<segVars, txn, partVars, exists, queueVars, flush, drop, insp, wal, logVars, panicked, now, faults>>

(* The transaction commits, or is rolled back or expires; its cleanup runs. *)
EndTxn(i) ==
  /\ Up /\ ins[i].pc = "txn"
  /\ ins' = [ins EXCEPT ![i].pc = "done"]
  /\ txn' = [txn EXCEPT ![ins[i].seg] = @ - 1]
  /\ written' \in {written, [written EXCEPT ![ins[i].seg] = @ + 1]}
  /\ UNCHANGED <<segVars, ack, partVars, exists, queueVars, flush, drop, insp, wal, persisted, flushed, panicked, now, faults>>

------------------------------------------------------------------------------
(* Manual flush and drop. *)

Sealable == {s \in held : state[s] \in {"growing", "sealed"}}

AsyncSeal(segs) == queue' = queue \cup segs /\ counter' = counter + Cardinality(segs)

(* SealAllSegmentsAndFenceUntil up to AsyncSeal.  The flush timestamp is    *)
(* older than the message, whose barrier it is.  A partition that was       *)
(* removed is not the collection's any more.                                *)
StartFlush ==
  /\ Up /\ flush.pc = "new" /\ wal = "open"
  /\ LET segs == IF removed THEN {} ELSE Sealable
     IN flush' = [pc |-> "queue", ts |-> now, segs |-> segs] /\ held' = held \ segs
  /\ fence' = IF removed THEN fence ELSE Max({fence, now})
  /\ UNCHANGED <<segVars, semVars, removed, exists, queueVars, ins, drop, insp, wal, logVars, panicked, now, faults>>

FlushSeals ==
  /\ Up /\ flush.pc = "queue"
  /\ AsyncSeal(flush.segs)
  /\ flush' = [flush EXCEPT !.pc = "wait"]
  /\ UNCHANGED <<segVars, semVars, partVars, exists, ins, drop, insp, wal, logVars, panicked, now, faults>>

(* WaitUntilNoWaitSeal, and the manual flush message.                       *)
EndFlush ==
  /\ Up /\ flush.pc = "wait" /\ counter = 0
  /\ flush' = [flush EXCEPT !.pc = "done"]
  /\ UNCHANGED <<segVars, semVars, partVars, exists, queueVars, ins, drop, insp, wal, logVars, panicked, now, faults>>

(* RemovePartition: CollectAllCanBeSealedAndClear forgets pending segments. *)
StartDrop ==
  /\ Up /\ drop.pc = "new" /\ wal = "open"
  /\ drop' = [pc |-> "queue", segs |-> IF removed THEN {} ELSE Sealable]
  /\ held' = (IF removed THEN held ELSE {}) /\ removed' = TRUE
  /\ UNCHANGED <<segVars, semVars, fence, exists, queueVars, ins, flush, insp, wal, logVars, panicked, now, faults>>

DropSeals ==
  /\ Up /\ drop.pc = "queue"
  /\ AsyncSeal(drop.segs)
  /\ drop' = [drop EXCEPT !.pc = "wait"]
  /\ UNCHANGED <<segVars, semVars, partVars, exists, ins, flush, insp, wal, logVars, panicked, now, faults>>

EndDrop ==
  /\ Up /\ drop.pc = "wait" /\ counter = 0
  /\ drop' = [drop EXCEPT !.pc = "done"]
  /\ UNCHANGED <<segVars, semVars, partVars, exists, queueVars, ins, flush, insp, wal, logVars, panicked, now, faults>>

(* The caller's context ends, or the append fails, and they send another    *)
(* message.                                                                 *)
GiveUp ==
  /\ Up /\ Fault
  /\ \/ flush.pc = "wait" /\ flush' = [flush EXCEPT !.pc = "new"] /\ UNCHANGED drop
     \/ drop.pc = "wait" /\ drop' = [drop EXCEPT !.pc = "new"] /\ UNCHANGED flush
  /\ UNCHANGED <<segVars, semVars, partVars, exists, queueVars, ins, insp, wal, logVars, panicked, now>>

(* The root coordinator forgets the partition after its drop message.       *)
Forget ==
  /\ ~panicked /\ drop.pc = "done" /\ exists
  /\ exists' = FALSE
  /\ UNCHANGED <<segVars, semVars, partVars, queueVars, ins, flush, drop, insp, wal, logVars, panicked, now, faults>>

------------------------------------------------------------------------------
(* The inspector. *)

(* Mutant: recovery does not queue what was sealed.                         *)
NothingSealed == {}

(* Segments that were sealed before a restart.                              *)
AlreadySealed == {s \in held : state[s] = "sealed"}

(* CollectShouldBeSealed: sealed segments and the growing ones a policy     *)
(* hits, ReachLimit among them.                                             *)
Collect ==
  /\ Up /\ insp.pc = "idle" /\ ~removed
  /\ \E hit \in SUBSET Growing :
       LET segs == hit \cup AlreadySealed
       IN /\ Growing \cap full \subseteq hit /\ segs # {}
          /\ held' = held \ segs
          /\ insp' = [insp EXCEPT !.pc = "queue", !.taken = segs]
  /\ UNCHANGED <<segVars, semVars, fence, removed, exists, queueVars, ins, flush, drop, wal, logVars, panicked, now, faults>>

(* MustSealSegments: a registered segment is taken out of the partition     *)
(* manager if it is there.                                                  *)
MustSeal ==
  /\ Up /\ MustSeals /\ insp.pc = "idle" /\ ~removed
  /\ \E s \in stats :
       /\ held' = held \ {s}
       /\ insp' = [insp EXCEPT !.pc = "queue", !.taken = IF s \in held THEN {s} ELSE {Nil}]
  /\ UNCHANGED <<segVars, semVars, fence, removed, exists, queueVars, ins, flush, drop, wal, logVars, panicked, now, faults>>

InspectorSeals ==
  /\ Up /\ insp.pc = "queue"
  /\ AsyncSeal(insp.taken)
  /\ insp' = [insp EXCEPT !.pc = "take", !.taken = {}]
  /\ UNCHANGED <<segVars, semVars, partVars, exists, ins, flush, drop, wal, logVars, panicked, now, faults>>

(* SealAllWait; the inspector comes back while anything waits.              *)
SealAllWait ==
  /\ Up /\ (insp.pc = "take" \/ (insp.pc = "idle" /\ queue # {}))
  /\ insp' = [insp EXCEPT !.pc = "transfer", !.taken = queue]
  /\ queue' = {}
  /\ UNCHANGED <<segVars, semVars, partVars, exists, counter, ins, flush, drop, wal, logVars, panicked, now, faults>>

(* Mutant: transactions under way are not waited for.                       *)
CompleteUnlessTxn(s) == ack[s] = 0

(* Nothing that was assigned to the segment is on its way.                  *)
Complete(s) == ack[s] = 0 /\ txn[s] = 0

(* transferSegmentStateIntoSealed, segment by segment.                      *)
Transfer ==
  /\ Up /\ insp.pc = "transfer"
  /\ \E s \in insp.taken \ (insp.ready \cup insp.undone) :
       IF s = Nil \/ state[s] \notin {"growing", "sealed"}
       THEN panicked' = TRUE /\ UNCHANGED <<catalog, state, stats, insp, faults>>
       ELSE /\ UNCHANGED panicked
            /\ \/ /\ IF state[s] = "growing" THEN Commit(s, "sealed") ELSE UNCHANGED <<catalog, state, stats>>
                  /\ insp' = IF Complete(s) THEN [insp EXCEPT !.ready = @ \cup {s}] ELSE [insp EXCEPT !.undone = @ \cup {s}]
                  /\ UNCHANGED faults
               \/ /\ state[s] = "growing" /\ CommitFails(s, "sealed")
                  /\ insp' = [insp EXCEPT !.undone = @ \cup {s}]
  /\ UNCHANGED <<rows, full, semVars, partVars, exists, queueVars, ins, flush, drop, wal, logVars, now>>

(* sendFlushSegmentsMessageIntoWAL: an append of its own, refused once the  *)
(* WAL stops.                                                               *)
AppendFlush ==
  /\ Up /\ insp.pc = "transfer" /\ insp.taken = insp.ready \cup insp.undone
  /\ \/ /\ wal = "open" \/ insp.ready = {}
        /\ insp' = [insp EXCEPT !.pc = "commit"]
        /\ flushed' = flushed \cup insp.ready /\ UNCHANGED faults
     \/ /\ insp.ready # {}
        /\ insp' = [insp EXCEPT !.pc = "commit", !.ready = {}, !.undone = @ \cup insp.ready]
        /\ \/ wal # "open" /\ UNCHANGED <<flushed, faults>>
           \/ Fault /\ flushed' \in {flushed, flushed \cup insp.ready}
  /\ UNCHANGED <<segVars, semVars, partVars, exists, queueVars, ins, flush, drop, wal, persisted, written, panicked, now>>

CommitFlushed ==
  /\ Up /\ insp.pc = "commit"
  /\ \E s \in insp.ready :
       \/ Commit(s, "flushed") /\ insp' = [insp EXCEPT !.ready = @ \ {s}] /\ UNCHANGED faults
       \/ CommitFails(s, "flushed") /\ insp' = [insp EXCEPT !.ready = @ \ {s}, !.undone = @ \cup {s}]
  /\ UNCHANGED <<rows, full, semVars, partVars, exists, queueVars, ins, flush, drop, wal, logVars, panicked, now>>

(* Mutant: the undone ones are forgotten.                                   *)
RequeueNone(undone) == UNCHANGED queue

(* The undone ones are tried again.                                         *)
Requeue(undone) == queue' = queue \cup undone

(* Mutant: the undone ones are not counted back.                            *)
CountAll(taken, undone) == counter' = counter - Cardinality(taken)

Count(taken, undone) == counter' = counter - (Cardinality(taken) - Cardinality(undone))

EndSeal ==
  /\ Up /\ insp.pc = "commit" /\ insp.ready = {}
  /\ Requeue(insp.undone) /\ Count(insp.taken, insp.undone)
  /\ insp' = Idle
  /\ UNCHANGED <<segVars, semVars, partVars, exists, ins, flush, drop, wal, logVars, panicked, now, faults>>

------------------------------------------------------------------------------
(* Closing, reopening, crashes. *)

(* The graceful close of the time tick interceptor waits for transactions;  *)
(* then new appends are refused.                                            *)
StopWAL ==
  /\ Up /\ Closes /\ wal = "open" /\ Fault
  /\ \A i \in Inserts : ins[i].pc # "txn"
  /\ wal' = "stopping"
  /\ UNCHANGED <<segVars, semVars, partVars, exists, queueVars, ins, flush, drop, insp, logVars, panicked, now>>

Quiescent ==
  /\ \A i \in Inserts : ins[i].pc \in {"new", "done"}
  /\ flush.pc \in {"new", "done"} /\ drop.pc \in {"new", "done"}
  /\ insp.pc = "idle"

(* The appends under way are over.  PChannelSegmentAllocManager.Close seals *)
(* what waits, as far as etcd lets it; no flush message gets through.  Of   *)
(* the statistics it removes those of dirty segments, and a segment is      *)
(* saved before it is dirty enough.                                         *)
CloseWAL ==
  /\ Up /\ wal = "stopping" /\ Quiescent
  /\ wal' = "closed"
  /\ IF \E s \in queue : s = Nil \/ state[s] = "pending"
     THEN panicked' = TRUE /\ UNCHANGED <<catalog, stats>>
     ELSE \E sealed \in SUBSET {s \in queue : state[s] = "growing"} :
            /\ catalog' = [s \in Segments |-> IF s \in sealed THEN "sealed" ELSE catalog[s]]
            /\ stats' \in {stats \ acked : acked \in SUBSET sealed}
            /\ UNCHANGED panicked
  /\ UNCHANGED <<state, rows, full, semVars, partVars, exists, queueVars, ins, flush, drop, insp, logVars, now, faults>>

(* RecoverPChannelSegmentAllocManager, with the statistics of the process. *)
Recover(registered) ==
  /\ wal' = "open"
  /\ state' = [s \in Segments |-> IF s \in Loaded THEN catalog[s] ELSE "none"]
  /\ LET growing == {s \in Segments : catalog[s] = "growing"}
     IN stats' = registered \cup growing /\ panicked' = (registered \cap growing # {})
  /\ held' = (IF exists THEN Loaded ELSE {}) /\ queue' = (IF exists THEN {} ELSE Loaded)
  /\ counter' = Cardinality(queue')
  /\ removed' = ~exists /\ fence' = 0 /\ full' = {}
  /\ rows' = [s \in Segments |-> 0] /\ ack' = [s \in Segments |-> 0] /\ txn' = [s \in Segments |-> 0]
  /\ ins' = [i \in Inserts |-> IF ins[i].pc = "new" THEN ins[i] ELSE [ins[i] EXCEPT !.pc = "done"]]
  /\ flush' = [flush EXCEPT !.pc = IF @ \in {"queue", "wait"} THEN "new" ELSE @]
  /\ drop' = [drop EXCEPT !.pc = IF @ \in {"queue", "wait"} THEN "new" ELSE @]
  /\ insp' = Idle
  /\ UNCHANGED <<catalog, exists, logVars, now>>

Reopen == ~panicked /\ wal = "closed" /\ Recover(stats) /\ UNCHANGED faults

Crash == ~panicked /\ Fault /\ Recover({})

InsertStep(i) == StartInsert(i) \/ GetManager(i) \/ AssignSegment(i) \/ AppendInsert(i) \/ Ack(i) \/ EndTxn(i)
FlushStep == StartFlush \/ FlushSeals \/ EndFlush
DropStep == StartDrop \/ DropSeals \/ EndDrop
SealStep == InspectorSeals \/ SealAllWait \/ Transfer \/ AppendFlush \/ CommitFlushed \/ EndSeal

Next ==
  \/ \E i \in Inserts : InsertStep(i)
  \/ FlushStep \/ DropStep \/ GiveUp \/ Forget
  \/ Collect \/ MustSeal \/ SealStep
  \/ StopWAL \/ CloseWAL \/ Reopen \/ Crash

(* Handlers and the inspector run on, its ticker calls for segments to seal *)
(* and transactions end by their lease.  Once the handlers are over, the    *)
(* lifetime lets the inspector start nothing new: closing is strongly fair. *)
Spec ==
  /\ Init /\ [][Next]_vars
  /\ WF_vars(FlushStep) /\ WF_vars(DropStep) /\ WF_vars(SealStep)
  /\ WF_vars(Collect) /\ SF_vars(CloseWAL)
  /\ \A i \in Inserts : WF_vars(InsertStep(i))

------------------------------------------------------------------------------
(* Once a flush message says that a segment is complete, no insert of the   *)
(* segment and no commit of a transaction with it follows in the log: over  *)
(* handlers that are under way when it is sealed, failed saves, crashes and *)
(* flush messages that are sent again.                                      *)
FlushLast ==
  [][\A s \in flushed : written'[s] = written[s]]_vars

(* waitCounter counts the segments that wait and the ones that are being    *)
(* sealed, so a manual flush that sees zero has waited for all of them.     *)
WaitCounterExact ==
  Up => counter = Cardinality(queue)
                       + (IF insp.pc \in {"transfer", "commit"} THEN Cardinality(insp.taken) ELSE 0)

(* A manual flush returns, whatever fails on the way, while the WAL is open. *)
FlushReturns ==
  flush.pc = "wait" ~> flush.pc # "wait" \/ wal # "open" \/ panicked

(* A segment that is sealed in etcd gets its flush message in the end, over *)
(* crashes, reopening, failed saves and failed appends: nobody loses it     *)
(* while the WAL is open.                                                   *)
SealedFlushed ==
  \A s \in Segments : catalog[s] = "sealed" ~> s \in flushed \/ wal # "open" \/ panicked

(* After a manual flush, what was inserted up to its timestamp is flushed,  *)
(* as SealAllSegmentsAndFenceUntil says of the messages it covers.          *)
FlushCovers ==
  flush.pc = "done" /\ ~removed => \A i \in persisted : ins[i].tt <= flush.ts => ins[i].seg \in flushed

(* After RemovePartition has waited, everything in the partition is flushed. *)
DropCovers ==
  drop.pc = "done" => \A i \in persisted : ins[i].seg \in flushed

(* Whatever the queue gives to transferSegmentStateIntoSealed is growing or *)
(* sealed, as its assertion says.                                           *)
SealedAsAsserted ==
  insp.pc = "transfer" => \A s \in insp.taken \ {Nil} : state[s] \in {"growing", "sealed"}

(* AsyncSeal adds segments to the queue, never a nil pointer.               *)
NilNotQueued ==
  Nil \notin queue

(* After Close the StatsManager has no segment of the WAL that Recover will *)
(* register again.                                                          *)
RegisteredOnce ==
  wal = "closed" => \A s \in Segments : catalog[s] = "growing" => s \notin stats

(* Close of the WAL comes to an end, whatever is under way when it starts.  *)
WALCloseReturns ==
  wal = "stopping" ~> wal # "stopping" \/ panicked
================================================================================
