----------------------------- MODULE SegmentProofs -----------------------------
(***************************************************************************)
(* FlushLast and WaitCounterExact, for every set of inserts, number and    *)
(* capacity of segments and number of faults.                              *)
(***************************************************************************)
EXTENDS SegmentAssign, FiniteSetTheorems, TLAPS

------------------------------------------------------------------------------
(* The inductive invariant. *)

States == {"none", "pending", "growing", "sealed", "flushed"}
InFlight == {"append", "ack", "txn"}

InsertTypes ==
  /\ ins \in [Inserts -> [pc : {"new", "get", "assign", "append", "ack", "txn", "done"}, tt : Nat, seg : Nat]]
  /\ \A i \in Inserts : ins[i].pc \in InFlight => ins[i].seg \in Segments
  /\ \A i \in Inserts : ins[i].pc = "txn" => i \in InTxn

MetaTypes ==
  /\ catalog \in [Segments -> States] /\ state \in [Segments -> States]
  /\ ack \in [Segments -> Int] /\ txn \in [Segments -> Int] /\ written \in [Segments -> Int]
  /\ flushed \in SUBSET Segments /\ now \in Nat

QueueTypes ==
  /\ held \in SUBSET Segments /\ queue \in SUBSET (Segments \cup {Nil})
  /\ flush \in [pc : {"new", "queue", "wait", "done"}, ts : Nat, segs : SUBSET Segments]
  /\ drop \in [pc : {"new", "queue", "wait", "done"}, segs : SUBSET Segments]
  /\ insp \in [pc : {"idle", "queue", "take", "transfer", "commit"}, taken : SUBSET (Segments \cup {Nil}),
               ready : SUBSET Segments, undone : SUBSET Segments]

(* The semaphores count the inserts under way.                              *)
Acking(s) == {i \in Inserts : ins[i].seg = s /\ ins[i].pc \in {"append", "ack"}}
InTransaction(s) == {i \in InTxn : ins[i].seg = s /\ ins[i].pc \in InFlight}

SemInv ==
  \A s \in Segments : ack[s] = Cardinality(Acking(s)) /\ txn[s] = Cardinality(InTransaction(s))

Quiet(s) == \A i \in Inserts : ins[i].seg = s => ins[i].pc \notin InFlight

(* What a segment with a flush message in the log, or about to have one,    *)
(* has behind it: nothing is assigned to it and nothing is under way.       *)
FlushInv ==
  /\ \A s \in Segments : state[s] = "sealed" => catalog[s] \in {"sealed", "flushed"}
  /\ \A s \in flushed : catalog[s] \in {"sealed", "flushed"} /\ state[s] \notin {"pending", "growing"} /\ Quiet(s)
  /\ \A s \in insp.ready : state[s] = "sealed" /\ Quiet(s)

(* A segment is in one place at most.                                       *)
FlushSegs == IF flush.pc = "queue" THEN flush.segs ELSE {}
DropSegs == IF drop.pc = "queue" THEN drop.segs ELSE {}

PlaceInv ==
  /\ held \cap queue = {} /\ held \cap insp.taken = {} /\ queue \cap insp.taken = {}
  /\ FlushSegs \cap (held \cup queue \cup insp.taken) = {}
  /\ DropSegs \cap (held \cup queue \cup insp.taken \cup FlushSegs) = {}
  /\ \A s \in Segments : s \in held \cup queue \cup insp.taken \cup FlushSegs \cup DropSegs => catalog[s] # "none"
  /\ Nil \in queue => insp.pc = "take"
  /\ insp.pc \in {"idle", "take"} => insp.taken = {}
  /\ insp.pc \in {"idle", "take", "queue"} => insp.ready = {} /\ insp.undone = {}
  /\ insp.ready \cup insp.undone \subseteq insp.taken

Counted == IF insp.pc \in {"transfer", "commit"} THEN insp.taken ELSE {}

CountInv == counter = Cardinality(queue) + Cardinality(Counted)

IInv ==
  /\ InsertTypes /\ MetaTypes /\ QueueTypes
  /\ SemInv /\ FlushInv /\ PlaceInv /\ CountInv
------------------------------------------------------------------------------
(* Frames. *)

(* The steps of everyone but the inserts, short of a recovery.              *)
OtherStep ==
  \/ FlushStep \/ DropStep \/ GiveUp \/ Forget
  \/ Collect \/ MustSeal \/ SealStep \/ StopWAL \/ CloseWAL

(* A step is one of an insert, of someone else, or a recovery.              *)
LEMMA Kinds ==
  Next => \/ \E i \in Inserts : InsertStep(i)
          \/ OtherStep
          \/ \E r : Recover(r)
BY DEF Next, OtherStep, Reopen, Crash

(* No one but the inserts changes an insert, a semaphore or what is written. *)
LEMMA OthersKeepInserts ==
  OtherStep => UNCHANGED <<ins, ack, txn, written, now>>
<1>1. FlushStep => UNCHANGED <<ins, ack, txn, written, now>>
  BY DEF FlushStep, StartFlush, FlushSeals, EndFlush, semVars, logVars
<1>2. DropStep => UNCHANGED <<ins, ack, txn, written, now>>
  BY DEF DropStep, StartDrop, DropSeals, EndDrop, semVars, logVars
<1>3. GiveUp \/ Forget \/ Collect \/ MustSeal => UNCHANGED <<ins, ack, txn, written, now>>
  BY Zenon DEF GiveUp, Forget, Collect, MustSeal, semVars, logVars
<1>4. InspectorSeals \/ SealAllWait \/ Transfer => UNCHANGED <<ins, ack, txn, written, now>>
  BY DEF InspectorSeals, SealAllWait, Transfer, semVars, logVars
<1>5. AppendFlush \/ CommitFlushed \/ EndSeal => UNCHANGED <<ins, ack, txn, written, now>>
  BY Zenon DEF AppendFlush, CommitFlushed, EndSeal, semVars, logVars
<1>6. StopWAL \/ CloseWAL => UNCHANGED <<ins, ack, txn, written, now>>
  BY DEF StopWAL, CloseWAL, semVars, logVars
<1> QED
  BY <1>1, <1>2, <1>3, <1>4, <1>5, <1>6 DEF OtherStep, SealStep

(* Inserts leave the queue, the inspector and the other handlers alone.     *)
LEMMA InsertsKeepQueue ==
  ASSUME NEW i \in Inserts, InsertStep(i)
  PROVE  UNCHANGED <<queue, counter, flush, drop, insp, flushed>>
BY Zenon
   DEF InsertStep, StartInsert, GetManager, AssignSegment, AppendInsert, Ack, EndTxn, queueVars, logVars

(* Only an assignment changes what segments there are and where.            *)
LEMMA InsertsKeepMeta ==
  ASSUME NEW i \in Inserts, InsertStep(i), ~AssignSegment(i)
  PROVE  UNCHANGED <<catalog, state, held>>
BY DEF InsertStep, StartInsert, GetManager, AppendInsert, Ack, EndTxn, segVars, partVars

(* What an assignment does: it rejects the insert, or takes a segment that  *)
(* grows already, or makes one grow that is pending or new, or tries to.    *)
Fresh(s) == (s \in held /\ state[s] = "pending") \/ (catalog[s] = "none" /\ s \notin flushed)

Rejected(i) == Reject(i) /\ UNCHANGED <<ack, txn>>

(* AssignSegment of a partition manager does one of five things.            *)
LEMMA Assignments ==
  ASSUME NEW i \in Inserts, AssignSegment(i), QueueTypes
  PROVE  /\ ins[i].pc = "assign"
         /\ \/ Rejected(i) /\ UNCHANGED <<catalog, state, held>>
            \/ \E s \in Segments : /\ s \in held /\ state[s] = "growing"
                                   /\ AllocRows(i, s) /\ UNCHANGED <<catalog, state, held>>
            \/ \E s \in Segments : /\ Fresh(s) /\ AllocRows(i, s) /\ held' = held \cup {s}
                                   /\ catalog' = [catalog EXCEPT ![s] = "growing"]
                                   /\ state' = [state EXCEPT ![s] = "growing"]
            \/ \E s \in Segments : /\ Fresh(s) /\ Pending = {} /\ Rejected(i) /\ UNCHANGED <<state, held>>
                                   /\ catalog[s] = "none"
                                   /\ catalog' = [catalog EXCEPT ![s] = "pending"]
            \/ \E s \in Segments : /\ Fresh(s) /\ Rejected(i) /\ held' = held \cup {s}
                                   /\ \E st \in {"pending", "growing"} : catalog' = [catalog EXCEPT ![s] = st]
                                   /\ state' = [state EXCEPT ![s] = "pending"]
<1>0. ins[i].pc = "assign"
  BY DEF AssignSegment
<1>1. CASE ins[i].tt <= fence
  BY <1>0, <1>1 DEF AssignSegment, Rejected, segVars, semVars
<1>2. CASE ~(ins[i].tt <= fence) /\ WithRoom # {}
  BY <1>0, <1>2 DEF AssignSegment, First, WithRoom, Growing, QueueTypes
<1>3. CASE ~(ins[i].tt <= fence) /\ WithRoom = {}
  <2> DEFINE new == {s \in Segments : \A t \in s..MaxSegments : catalog[t] = "none" /\ t \notin flushed}
             Pool == IF Pending # {} THEN Pending ELSE new
             Grow(s) == Commit(s, "growing") /\ held' = held \cup {s} /\ AllocRows(i, s)
             NoMeta(s) == Pending = {} /\ CommitFails(s, "pending") /\ Reject(i) /\ UNCHANGED <<held, rows, semVars>>
             Stuck(s) == /\ catalog' \in {[catalog EXCEPT ![s] = st] : st \in {"pending", "growing"}}
                         /\ state' = [state EXCEPT ![s] = "pending"] /\ held' = held \cup {s}
                         /\ Reject(i) /\ UNCHANGED <<stats, rows, semVars>>
  <2>1. AllocNewGrowingSegment(i)
    BY <1>3 DEF AssignSegment
  <2>2. PICK s \in First(Pool) : Grow(s) \/ NoMeta(s) \/ Stuck(s)
    BY Zenon, <2>1 DEF AllocNewGrowingSegment
  <2>3. s \in Segments /\ Fresh(s) /\ (Pending = {} => catalog[s] = "none")
    <3>1. s \in Pool
      BY DEF First
    <3>2. CASE s \in Pending
      BY <3>2 DEF Pending, Fresh, QueueTypes
    <3>3. CASE s \notin Pending
      <4>1. s \in new
        BY <3>1, <3>3
      <4>2. s \in Int /\ s <= MaxSegments
        BY <4>1, SegmentAssumption DEF Segments
      <4>3. s \in s..MaxSegments
        BY <4>2, SegmentAssumption
      <4> QED
        BY <4>1, <4>3 DEF Fresh
    <3> QED
      BY <3>2, <3>3
  <2>4. CASE Grow(s)
    BY Zenon, <1>0, <2>3, <2>4 DEF Commit
  <2>5. CASE NoMeta(s)
    BY <1>0, <2>3, <2>5 DEF CommitFails, Rejected, semVars
  <2>6. CASE Stuck(s)
    BY Zenon, <1>0, <2>3, <2>6 DEF Rejected, semVars
  <2> QED
    BY Zenon, <2>2, <2>4, <2>5, <2>6
<1> QED
  BY <1>1, <1>2, <1>3

------------------------------------------------------------------------------
(* Types. *)

(* An insert's record after a step of the insert.                           *)
LEMMA InsertMoves ==
  ASSUME NEW i \in Inserts, InsertStep(i), InsertTypes, MetaTypes, QueueTypes
  PROVE  /\ InsertTypes'
         /\ \A j \in Inserts \ {i} : ins'[j] = ins[j]
<1> USE DEF InsertTypes, InFlight
<1>1. CASE StartInsert(i)
  <2> DEFINE new == [ins[i] EXCEPT !.pc = "get", !.tt = now + 1]
  <2>1. ins' = [ins EXCEPT ![i] = new]
    BY <1>1 DEF StartInsert
  <2>2. now + 1 \in Nat
    BY DEF MetaTypes
  <2>3. new \in [pc : {"get"}, tt : Nat, seg : Nat]
    BY Zenon, <2>2
  <2> HIDE DEF new
  <2> QED
    BY <2>1, <2>3
<1>2. CASE GetManager(i)
  BY <1>2 DEF GetManager
<1>3. CASE AssignSegment(i)
  <2>1. CASE Reject(i)
    BY <2>1 DEF Reject
  <2>2. CASE \E s \in Segments : AllocRows(i, s)
    <3>1. PICK s \in Segments : AllocRows(i, s)
      BY <2>2
    <3>2. s \in Nat
      BY SegmentAssumption DEF Segments
    <3> QED
      BY Zenon, <3>1, <3>2 DEF AllocRows
  <2> QED
    BY <1>3, <2>1, <2>2, Assignments DEF Rejected
<1>4. CASE AppendInsert(i)
  BY <1>4 DEF AppendInsert
<1>5. CASE Ack(i)
  BY <1>5 DEF Ack
<1>6. CASE EndTxn(i)
  BY <1>6 DEF EndTxn
<1> QED
  BY <1>1, <1>2, <1>3, <1>4, <1>5, <1>6 DEF InsertStep

(* After a recovery no insert is under way.                                 *)
LEMMA InsertsRecover ==
  ASSUME NEW r, Recover(r), InsertTypes
  PROVE  /\ InsertTypes'
         /\ \A j \in Inserts : ins'[j].pc \notin InFlight
<1>1. \A j \in Inserts : ins'[j] = IF ins[j].pc = "new" THEN ins[j] ELSE [ins[j] EXCEPT !.pc = "done"]
  BY DEF Recover
<1>2. \A j \in Inserts : ins'[j].pc \in {"new", "done"} /\ ins'[j] \in [pc : {"new", "done"}, tt : Nat, seg : Nat]
  BY Zenon, <1>1 DEF InsertTypes
<1>3. ins' = [j \in Inserts |-> ins'[j]]
  BY DEF Recover
<1> QED
  BY <1>2, <1>3 DEF InsertTypes, InFlight

(* Every step keeps the types of the inserts' records.                       *)
LEMMA InsertTypesStep ==
  ASSUME InsertTypes, MetaTypes, QueueTypes, [Next]_vars
  PROVE  InsertTypes'
<1>1. CASE UNCHANGED vars
  BY <1>1 DEF vars, InsertTypes
<1>2. ASSUME NEW i \in Inserts, InsertStep(i) PROVE InsertTypes'
  BY <1>2, InsertMoves
<1>3. CASE OtherStep
  BY <1>3, OthersKeepInserts DEF InsertTypes
<1>4. ASSUME NEW r, Recover(r) PROVE InsertTypes'
  BY <1>4, InsertsRecover
<1> QED
  BY <1>1, <1>2, <1>3, <1>4, Kinds

(* What a commit of a segment's meta does.                                  *)
LEMMA Commits ==
  ASSUME NEW s \in Segments, NEW st \in States, MetaTypes, Commit(s, st) \/ CommitFails(s, st)
  PROVE  catalog' \in [Segments -> States] /\ state' \in [Segments -> States]
BY DEF Commit, CommitFails, MetaTypes

(* Every step keeps the types of the meta, the semaphores and the history.  *)
LEMMA MetaTypesStep ==
  ASSUME InsertTypes, MetaTypes, QueueTypes, [Next]_vars
  PROVE  MetaTypes'
<1>1. CASE UNCHANGED vars
  BY <1>1 DEF vars, MetaTypes, segVars, semVars, logVars
<1>2. ASSUME NEW i \in Inserts, InsertStep(i) PROVE MetaTypes'
  <2>1. CASE StartInsert(i) \/ GetManager(i)
    BY <2>1 DEF StartInsert, GetManager, MetaTypes, segVars, semVars, logVars
  <2>2. CASE AssignSegment(i)
    <3>1. UNCHANGED <<written, flushed, now>>
      BY <2>2 DEF AssignSegment, logVars
    <3>2. catalog' \in [Segments -> States] /\ state' \in [Segments -> States]
      BY <2>2, Assignments DEF MetaTypes, States
    <3>3. CASE Rejected(i)
      BY <3>1, <3>2, <3>3 DEF Rejected, MetaTypes
    <3>4. CASE \E s \in Segments : AllocRows(i, s)
      <4>1. ack' \in [Segments -> Int] /\ txn' \in [Segments -> Int]
        BY <3>4 DEF AllocRows, MetaTypes
      <4> QED
        BY <3>1, <3>2, <4>1 DEF MetaTypes
    <3> QED
      BY <2>2, <3>3, <3>4, Assignments
  <2>3. CASE AppendInsert(i) \/ Ack(i) \/ EndTxn(i)
    BY SMTT(20), <2>3 DEF AppendInsert, Ack, EndTxn, MetaTypes, segVars, semVars, logVars
  <2> QED
    BY <1>2, <2>1, <2>2, <2>3 DEF InsertStep
<1>3. CASE OtherStep
  <2>1. UNCHANGED <<ack, txn, written, now>>
    BY <1>3, OthersKeepInserts
  <2>2. CASE FlushStep \/ DropStep \/ GiveUp \/ Forget \/ Collect \/ MustSeal \/ InspectorSeals \/ SealAllWait \/ EndSeal \/ StopWAL
    <3>1. UNCHANGED <<catalog, state, flushed>>
      BY Zenon, <2>2
         DEF FlushStep, StartFlush, FlushSeals, EndFlush, DropStep, StartDrop, DropSeals, EndDrop, GiveUp, Forget,
           Collect, MustSeal, InspectorSeals, SealAllWait, EndSeal, StopWAL, segVars, logVars
    <3> QED
      BY <2>1, <3>1 DEF MetaTypes
  <2>3. CASE Transfer
    <3>1. UNCHANGED flushed
      BY <2>3 DEF Transfer, logVars
    <3>2. catalog' \in [Segments -> States] /\ state' \in [Segments -> States]
      <4>1. PICK s \in insp.taken :
              \/ UNCHANGED <<catalog, state>>
              \/ s # Nil /\ (Commit(s, "sealed") \/ CommitFails(s, "sealed"))
        BY <2>3 DEF Transfer
      <4>2. CASE s # Nil /\ (Commit(s, "sealed") \/ CommitFails(s, "sealed"))
        <5>1. s \in Segments /\ "sealed" \in States
          BY <4>2 DEF QueueTypes, States
        <5> QED
          BY <4>2, <5>1, Commits
      <4> QED
        BY <4>1, <4>2 DEF MetaTypes
    <3> QED
      BY <2>1, <3>1, <3>2 DEF MetaTypes
  <2>4. CASE AppendFlush
    BY <2>1, <2>4 DEF AppendFlush, MetaTypes, QueueTypes, segVars
  <2>5. CASE CommitFlushed
    <3>1. UNCHANGED flushed
      BY <2>5 DEF CommitFlushed, logVars
    <3>2. PICK s \in insp.ready : Commit(s, "flushed") \/ CommitFails(s, "flushed")
      BY <2>5 DEF CommitFlushed
    <3>3. s \in Segments /\ "flushed" \in States
      BY DEF QueueTypes, States
    <3>4. catalog' \in [Segments -> States] /\ state' \in [Segments -> States]
      BY <3>2, <3>3, Commits
    <3> QED
      BY <2>1, <3>1, <3>4 DEF MetaTypes
  <2>6. CASE CloseWAL
    BY <2>1, <2>6 DEF CloseWAL, MetaTypes, States, logVars
  <2> QED
    BY <1>3, <2>2, <2>3, <2>4, <2>5, <2>6 DEF OtherStep, SealStep
<1>4. ASSUME NEW r, Recover(r) PROVE MetaTypes'
  BY <1>4 DEF Recover, MetaTypes, States, Loaded, logVars
<1> QED
  BY <1>1, <1>2, <1>3, <1>4, Kinds

(* The types of the places a segment can be in.                             *)
LEMMA QueueTypesStep ==
  ASSUME InsertTypes, MetaTypes, QueueTypes, [Next]_vars
  PROVE  QueueTypes'
<1>1. CASE UNCHANGED vars
  BY <1>1 DEF vars, QueueTypes, partVars, queueVars
<1>2. ASSUME NEW i \in Inserts, InsertStep(i) PROVE QueueTypes'
  <2>1. UNCHANGED <<queue, flush, drop, insp>>
    BY <1>2, InsertsKeepQueue
  <2>2. held' \in SUBSET Segments
    <3>1. CASE AssignSegment(i)
      BY <3>1, Assignments DEF QueueTypes
    <3>2. CASE ~AssignSegment(i)
      BY <1>2, <3>2, InsertsKeepMeta DEF QueueTypes
    <3> QED
      BY <3>1, <3>2
  <2> QED
    BY <2>1, <2>2 DEF QueueTypes
<1>3. CASE OtherStep
  <2>1. CASE StartFlush
    <3>1. PICK segs \in SUBSET Segments :
            flush' = [pc |-> "queue", ts |-> now, segs |-> segs] /\ held' = held \ segs
      BY Zenon, <2>1 DEF StartFlush, Sealable, QueueTypes
    <3> QED
      BY SMTT(20), <2>1, <3>1 DEF StartFlush, QueueTypes, MetaTypes, queueVars
  <2>2. CASE FlushSeals \/ EndFlush
    BY <2>2 DEF FlushSeals, EndFlush, AsyncSeal, QueueTypes, partVars, queueVars
  <2>3. CASE StartDrop
    <3>1. PICK segs \in SUBSET Segments : drop' = [pc |-> "queue", segs |-> segs]
      BY Zenon, <2>3 DEF StartDrop, Sealable, QueueTypes
    <3> QED
      BY SMTT(20), <2>3, <3>1 DEF StartDrop, QueueTypes, queueVars
  <2>4. CASE DropSeals \/ EndDrop
    BY <2>4 DEF DropSeals, EndDrop, AsyncSeal, QueueTypes, partVars, queueVars
  <2>5. CASE GiveUp \/ Forget \/ StopWAL \/ CloseWAL
    BY <2>5 DEF GiveUp, Forget, StopWAL, CloseWAL, QueueTypes, partVars, queueVars
  <2>6. CASE Collect
    <3>1. PICK segs \in SUBSET Segments : insp' = [insp EXCEPT !.pc = "queue", !.taken = segs] /\ held' = held \ segs
      BY Zenon, <2>6 DEF Collect, Growing, AlreadySealed, QueueTypes
    <3> QED
      BY Zenon, <2>6, <3>1 DEF Collect, QueueTypes, queueVars
  <2>7. CASE MustSeal
    <3>1. PICK s : /\ held' = held \ {s}
                   /\ insp' = [insp EXCEPT !.pc = "queue", !.taken = IF s \in held THEN {s} ELSE {Nil}]
      BY Zenon, <2>7 DEF MustSeal
    <3>2. (IF s \in held THEN {s} ELSE {Nil}) \in SUBSET (Segments \cup {Nil})
      BY DEF QueueTypes
    <3> QED
      BY Zenon, <2>7, <3>1, <3>2 DEF MustSeal, QueueTypes, queueVars
  <2>8. CASE InspectorSeals \/ SealAllWait
    BY Zenon, <2>8 DEF InspectorSeals, SealAllWait, AsyncSeal, QueueTypes, partVars
  <2>9. CASE Transfer
    <3>1. UNCHANGED <<held, queue, flush, drop>>
      BY <2>9 DEF Transfer, partVars, queueVars
    <3>2. PICK s \in insp.taken :
            \/ insp' = insp
            \/ s # Nil /\ insp' = [insp EXCEPT !.ready = @ \cup {s}]
            \/ s # Nil /\ insp' = [insp EXCEPT !.undone = @ \cup {s}]
      BY <2>9 DEF Transfer
    <3> QED
      BY <3>1, <3>2 DEF QueueTypes
  <2>10. CASE AppendFlush
    BY ZenonT(30), <2>10 DEF AppendFlush, QueueTypes, partVars, queueVars
  <2>11. CASE CommitFlushed
    <3>1. UNCHANGED <<held, queue, flush, drop>>
      BY <2>11 DEF CommitFlushed, partVars, queueVars
    <3>2. PICK s \in insp.ready :
            \/ insp' = [insp EXCEPT !.ready = @ \ {s}]
            \/ insp' = [insp EXCEPT !.ready = @ \ {s}, !.undone = @ \cup {s}]
      BY Zenon, <2>11 DEF CommitFlushed
    <3>3. s \in Segments
      BY DEF QueueTypes
    <3>4. CASE insp' = [insp EXCEPT !.ready = @ \ {s}]
      BY <3>1, <3>3, <3>4 DEF QueueTypes
    <3>5. CASE insp' = [insp EXCEPT !.ready = @ \ {s}, !.undone = @ \cup {s}]
      BY Zenon, <3>1, <3>3, <3>5 DEF QueueTypes
    <3> QED
      BY <3>2, <3>4, <3>5
  <2>12. CASE EndSeal
    BY <2>12 DEF EndSeal, Requeue, Idle, QueueTypes, partVars
  <2> QED
    BY <1>3, <2>1, <2>2, <2>3, <2>4, <2>5, <2>6, <2>7, <2>8, <2>9, <2>10, <2>11, <2>12
    DEF OtherStep, FlushStep, DropStep, SealStep
<1>4. ASSUME NEW r, Recover(r) PROVE QueueTypes'
  BY Zenon, <1>4 DEF Recover, QueueTypes, Loaded, Idle
<1> QED
  BY <1>1, <1>2, <1>3, <1>4, Kinds

------------------------------------------------------------------------------
(* The semaphores. *)

(* Sets of inserts are finite.                                              *)
LEMMA InsertsFinite ==
  ASSUME NEW s
  PROVE  IsFiniteSet(Acking(s)) /\ IsFiniteSet(InTransaction(s))
<1>1. Acking(s) \in SUBSET Inserts /\ InTransaction(s) \in SUBSET Inserts
  BY SegmentAssumption DEF Acking, InTransaction
<1> QED
  BY <1>1, SegmentAssumption, FS_Subset

(* A segment whose semaphores are zero is quiet.                            *)
LEMMA CompleteQuiet ==
  ASSUME NEW s \in Segments, SemInv, InsertTypes, Complete(s)
  PROVE  Quiet(s)
<1>1. Acking(s) = {} /\ InTransaction(s) = {}
  BY InsertsFinite, FS_EmptySet DEF SemInv, Complete
<1> QED
  BY <1>1 DEF Quiet, Acking, InTransaction, InFlight, InsertTypes

(* Every step moves the semaphores with the inserts: up in AllocRows, down  *)
(* in Ack and at the end of the transaction.                                *)
LEMMA SemStep ==
  ASSUME InsertTypes, MetaTypes, QueueTypes, SemInv, [Next]_vars
  PROVE  SemInv'
<1>1. CASE UNCHANGED vars
  BY <1>1 DEF vars, SemInv, Acking, InTransaction, semVars
<1>2. ASSUME NEW i \in Inserts, InsertStep(i) PROVE SemInv'
  <2>0. InsertTypes' /\ \A j \in Inserts \ {i} : ins'[j] = ins[j]
    BY <1>2, InsertMoves
  <2>1. ASSUME UNCHANGED <<ack, txn>>, ins'[i].seg = ins[i].seg,
               ins'[i].pc \in {"append", "ack"} <=> ins[i].pc \in {"append", "ack"},
               ins'[i].pc \in InFlight <=> ins[i].pc \in InFlight
        PROVE  SemInv'
    <3>1. \A s : Acking(s)' = Acking(s) /\ InTransaction(s)' = InTransaction(s)
      BY <2>0, <2>1, SegmentAssumption DEF Acking, InTransaction
    <3> QED
      BY Zenon, <2>1, <3>1 DEF SemInv
  <2>2. CASE StartInsert(i) \/ GetManager(i)
    <3>1. /\ UNCHANGED <<ack, txn>> /\ ins'[i].seg = ins[i].seg
          /\ ins[i].pc \notin InFlight /\ ins'[i].pc \notin InFlight
      BY ZenonT(30), <2>2 DEF StartInsert, GetManager, semVars, InsertTypes, InFlight
    <3> QED
      BY <2>1, <3>1 DEF InFlight
  <2>3. CASE AppendInsert(i)
    <3>1. UNCHANGED <<ack, txn>> /\ ins'[i].seg = ins[i].seg /\ ins[i].pc = "append" /\ ins'[i].pc = "ack"
      BY <2>3 DEF AppendInsert, semVars, InsertTypes
    <3> QED
      BY <2>1, <3>1 DEF InFlight
  <2>4. CASE AssignSegment(i) /\ Rejected(i)
    <3>1. /\ UNCHANGED <<ack, txn>> /\ ins'[i].seg = ins[i].seg
          /\ ins[i].pc \notin InFlight /\ ins'[i].pc \notin InFlight
      BY <2>4 DEF AssignSegment, Rejected, Reject, InsertTypes, InFlight
    <3> QED
      BY <2>1, <3>1 DEF InFlight
  <2>5. ASSUME AssignSegment(i), NEW s \in Segments, AllocRows(i, s) PROVE SemInv'
    <3>1. ins[i].pc = "assign" /\ ins'[i].pc = "append" /\ ins'[i].seg = s
      BY Zenon, <2>5 DEF AssignSegment, AllocRows, InsertTypes
    <3>2. \A t : Acking(t)' = IF t = s THEN Acking(t) \cup {i} ELSE Acking(t)
      BY <2>0, <3>1 DEF Acking
    <3>3. \A t : InTransaction(t)' = IF t = s /\ i \in InTxn THEN InTransaction(t) \cup {i} ELSE InTransaction(t)
      BY <2>0, <3>1, SegmentAssumption DEF InTransaction, InFlight
    <3>4. i \notin Acking(s) /\ i \notin InTransaction(s)
      BY <3>1 DEF Acking, InTransaction, InFlight
    <3>5. /\ Cardinality(Acking(s) \cup {i}) = Cardinality(Acking(s)) + 1
          /\ Cardinality(InTransaction(s) \cup {i}) = Cardinality(InTransaction(s)) + 1
      BY Zenon, <3>4, InsertsFinite, FS_AddElement
    <3>6. /\ ack' = [ack EXCEPT ![s] = @ + 1]
          /\ txn' = IF i \in InTxn THEN [txn EXCEPT ![s] = @ + 1] ELSE txn
      BY <2>5 DEF AllocRows
    <3> QED
      BY Zenon, <3>2, <3>3, <3>5, <3>6 DEF SemInv, MetaTypes
  <2>6. CASE Ack(i)
    <3> DEFINE s == ins[i].seg
    <3>1. /\ ins[i].pc = "ack" /\ ins'[i].seg = s
          /\ ins'[i].pc = IF i \in InTxn THEN "txn" ELSE "done"
      BY <2>6 DEF Ack, InsertTypes
    <3>2. s \in Segments /\ ack' = [ack EXCEPT ![s] = @ - 1] /\ txn' = txn
      BY <2>6, <3>1 DEF Ack, InsertTypes, InFlight
    <3>3. \A t : Acking(t)' = IF t = s THEN Acking(t) \ {i} ELSE Acking(t)
      BY <2>0, <3>1 DEF Acking
    <3>4. \A t : InTransaction(t)' = InTransaction(t)
      BY <2>0, <3>1, SegmentAssumption DEF InTransaction, InFlight
    <3>5. i \in Acking(s)
      BY <3>1 DEF Acking
    <3>6. Cardinality(Acking(s) \ {i}) = Cardinality(Acking(s)) - 1
      BY Zenon, <3>5, InsertsFinite, FS_RemoveElement
    <3> HIDE DEF s
    <3> QED
      BY Zenon, <3>2, <3>3, <3>4, <3>6 DEF SemInv, MetaTypes
  <2>7. CASE EndTxn(i)
    <3> DEFINE s == ins[i].seg
    <3>1. ins[i].pc = "txn" /\ ins'[i].seg = s /\ ins'[i].pc = "done"
      BY <2>7 DEF EndTxn, InsertTypes
    <3>2. s \in Segments /\ i \in InTxn /\ txn' = [txn EXCEPT ![s] = @ - 1] /\ ack' = ack
      BY <2>7, <3>1 DEF EndTxn, InsertTypes, InFlight
    <3>3. \A t : InTransaction(t)' = IF t = s THEN InTransaction(t) \ {i} ELSE InTransaction(t)
      BY Zenon, <2>0, <3>1, SegmentAssumption DEF InTransaction, InFlight
    <3>4. \A t : Acking(t)' = Acking(t)
      BY Zenon, <2>0, <3>1 DEF Acking
    <3>5. i \in InTransaction(s)
      BY <3>1, <3>2 DEF InTransaction, InFlight
    <3>6. Cardinality(InTransaction(s) \ {i}) = Cardinality(InTransaction(s)) - 1
      BY Zenon, <3>5, InsertsFinite, FS_RemoveElement
    <3> HIDE DEF s
    <3> QED
      BY Zenon, <3>2, <3>3, <3>4, <3>6 DEF SemInv, MetaTypes
  <2> QED
    BY Zenon, <1>2, <2>2, <2>3, <2>4, <2>5, <2>6, <2>7, Assignments DEF InsertStep
<1>3. CASE OtherStep
  BY <1>3, OthersKeepInserts DEF SemInv, Acking, InTransaction
<1>4. ASSUME NEW r, Recover(r) PROVE SemInv'
  <2>1. \A j \in Inserts : ins'[j].pc \notin InFlight
    BY <1>4, InsertsRecover
  <2>2. \A s : Acking(s)' = {} /\ InTransaction(s)' = {}
    BY <2>1, SegmentAssumption DEF Acking, InTransaction, InFlight
  <2>3. \A s \in Segments : ack'[s] = 0 /\ txn'[s] = 0
    BY <1>4 DEF Recover
  <2> QED
    BY Zenon, <2>2, <2>3, FS_EmptySet DEF SemInv
<1> QED
  BY <1>1, <1>2, <1>3, <1>4, Kinds

------------------------------------------------------------------------------
(* Flushed segments. *)

(* The meta of a segment only moves on once it is sealed.                   *)
LEMMA FlushStepInv ==
  ASSUME InsertTypes, MetaTypes, QueueTypes, SemInv, FlushInv, PlaceInv, [Next]_vars
  PROVE  FlushInv'
<1>1. CASE UNCHANGED vars
  BY Zenon, <1>1 DEF vars, FlushInv, Quiet, segVars, logVars
<1>2. ASSUME NEW i \in Inserts, InsertStep(i) PROVE FlushInv'
  <2>0. /\ UNCHANGED <<flushed, insp>>
        /\ \A j \in Inserts \ {i} : ins'[j] = ins[j]
    BY <1>2, InsertsKeepQueue, InsertMoves
  <2>1. CASE ~AssignSegment(i)
    <3>1. UNCHANGED <<catalog, state>>
      BY <1>2, <2>1, InsertsKeepMeta
    <3>2. ins'[i].pc \in InFlight => ins[i].pc \in InFlight /\ ins'[i].seg = ins[i].seg
      <4>1. ins[i] \in [pc : {"new", "get", "assign", "append", "ack", "txn", "done"}, tt : Nat, seg : Nat]
        BY Zenon DEF InsertTypes
      <4>2. CASE StartInsert(i) \/ GetManager(i)
        <5>1. ins'[i].pc \in {"get", "done", "assign"}
          BY Zenon, <4>2 DEF StartInsert, GetManager, InsertTypes
        <5> QED
          BY Zenon, <5>1 DEF InFlight
      <4>3. CASE AppendInsert(i)
        BY <4>1, <4>3 DEF AppendInsert, InsertTypes, InFlight
      <4>4. CASE Ack(i) \/ EndTxn(i)
        BY <4>1, <4>4 DEF Ack, EndTxn, InsertTypes, InFlight
      <4> QED
        BY Zenon, <1>2, <2>1, <4>2, <4>3, <4>4 DEF InsertStep
    <3>3. \A s : Quiet(s) => Quiet(s)'
      BY <2>0, <3>2 DEF Quiet
    <3> QED
      BY Zenon, <2>0, <3>1, <3>3 DEF FlushInv
  <2>2. CASE AssignSegment(i)
    <3>1. ASSUME NEW s \in Segments, AllocRows(i, s)
          PROVE  \A t : t # s /\ Quiet(t) => Quiet(t)'
      <4>1. ins'[i].seg = s
        BY <3>1 DEF AllocRows, InsertTypes
      <4> QED
        BY Zenon, <2>0, <4>1 DEF Quiet
    <3>2. Rejected(i) => \A t : Quiet(t) => Quiet(t)'
      BY <2>0 DEF Rejected, Reject, Quiet, InsertTypes, InFlight
    <3>3. ASSUME NEW s \in Segments, Fresh(s)
          PROVE  s \notin flushed /\ s \notin insp.ready /\ state[s] # "sealed"
      BY Zenon, <3>3 DEF Fresh, FlushInv, QueueTypes
    <3>4. CASE Rejected(i) /\ UNCHANGED <<catalog, state, held>>
      BY Zenon, <2>0, <3>2, <3>4 DEF FlushInv
    <3>5. ASSUME NEW s \in Segments, state[s] = "growing", AllocRows(i, s), UNCHANGED <<catalog, state, held>>
          PROVE  FlushInv'
      <4>1. s \notin flushed /\ s \notin insp.ready
        BY Zenon, <3>5 DEF FlushInv
      <4> QED
        BY Zenon, <2>0, <3>1, <3>5, <4>1 DEF FlushInv
    <3>6. ASSUME NEW s \in Segments, Fresh(s), AllocRows(i, s),
                 catalog' = [catalog EXCEPT ![s] = "growing"], state' = [state EXCEPT ![s] = "growing"]
          PROVE  FlushInv'
      <4>1. s \notin flushed /\ s \notin insp.ready
        BY <3>3, <3>6
      <4>2. \A t : t # s /\ Quiet(t) => Quiet(t)'
        BY <3>1, <3>6
      <4>3. \A t \in Segments \ {s} : catalog'[t] = catalog[t] /\ state'[t] = state[t]
        BY <3>6 DEF MetaTypes
      <4>4. state'[s] = "growing"
        BY <3>6 DEF MetaTypes
      <4>5. \A t \in Segments : state'[t] = "sealed" => catalog'[t] \in {"sealed", "flushed"}
        BY <4>3, <4>4 DEF FlushInv
      <4>6. \A t \in flushed : t # s /\ t \in Segments
        BY Zenon, <4>1 DEF MetaTypes
      <4>7. \A t \in flushed :
              catalog'[t] \in {"sealed", "flushed"} /\ state'[t] \notin {"pending", "growing"} /\ Quiet(t)'
        BY <4>2, <4>3, <4>6 DEF FlushInv
      <4>8. \A t \in insp.ready : t # s /\ t \in Segments
        BY Zenon, <4>1 DEF QueueTypes
      <4>9. \A t \in insp.ready : state'[t] = "sealed" /\ Quiet(t)'
        BY <4>2, <4>3, <4>8 DEF FlushInv
      <4> QED
        BY Zenon, <2>0, <4>5, <4>7, <4>9 DEF FlushInv
    <3>7. ASSUME NEW s \in Segments, Fresh(s), Rejected(i),
                 \E st \in States : catalog' = [catalog EXCEPT ![s] = st],
                 state' = state \/ state' = [state EXCEPT ![s] = "pending"]
          PROVE  FlushInv'
      <4>1. s \notin flushed /\ s \notin insp.ready /\ state[s] # "sealed"
        BY Zenon, <3>3, <3>7
      <4>2. \A t : Quiet(t) => Quiet(t)'
        BY <3>2, <3>7
      <4>3. \A t \in Segments \ {s} : catalog'[t] = catalog[t] /\ state'[t] = state[t]
        BY <3>7 DEF MetaTypes
      <4>4. state'[s] # "sealed"
        BY <3>7, <4>1 DEF MetaTypes
      <4>5. \A t \in Segments : state'[t] = "sealed" => catalog'[t] \in {"sealed", "flushed"}
        BY <4>3, <4>4 DEF FlushInv
      <4>6. \A t \in flushed : t # s /\ t \in Segments
        BY Zenon, <4>1 DEF MetaTypes
      <4>7. \A t \in flushed :
              catalog'[t] \in {"sealed", "flushed"} /\ state'[t] \notin {"pending", "growing"} /\ Quiet(t)'
        BY <4>2, <4>3, <4>6 DEF FlushInv
      <4>8. \A t \in insp.ready : t # s /\ t \in Segments
        BY Zenon, <4>1 DEF QueueTypes
      <4>9. \A t \in insp.ready : state'[t] = "sealed" /\ Quiet(t)'
        BY <4>2, <4>3, <4>8 DEF FlushInv
      <4> QED
        BY Zenon, <2>0, <4>5, <4>7, <4>9 DEF FlushInv
    <3>8. "pending" \in States /\ "growing" \in States
      BY DEF States
    <3> QED
      BY Zenon, <2>2, <3>4, <3>5, <3>6, <3>7, <3>8, Assignments
  <2> QED
    BY <2>1, <2>2
<1>3. CASE OtherStep
  <2>0. \A s : Quiet(s) => Quiet(s)'
    BY <1>3, OthersKeepInserts DEF Quiet
  <2>1. CASE FlushStep \/ DropStep \/ GiveUp \/ Forget \/ StopWAL
    <3>1. UNCHANGED <<catalog, state, flushed, insp>>
      BY Zenon, <2>1
         DEF FlushStep, StartFlush, FlushSeals, EndFlush, DropStep, StartDrop, DropSeals, EndDrop, GiveUp, Forget,
           StopWAL, segVars, logVars
    <3> QED
      BY Zenon, <2>0, <3>1 DEF FlushInv
  <2>2. CASE Collect \/ MustSeal \/ InspectorSeals \/ SealAllWait \/ EndSeal
    <3>1. UNCHANGED <<catalog, state, flushed>>
      BY Zenon, <2>2 DEF Collect, MustSeal, InspectorSeals, SealAllWait, EndSeal, segVars, logVars
    <3>2. insp'.ready = insp.ready
      <4>1. CASE Collect \/ MustSeal
        BY Zenon, <4>1 DEF Collect, MustSeal, QueueTypes
      <4>2. CASE InspectorSeals \/ SealAllWait
        BY Zenon, <4>2 DEF InspectorSeals, SealAllWait, QueueTypes
      <4>3. CASE EndSeal
        BY <4>3 DEF EndSeal, Idle, QueueTypes
      <4> QED
        BY <2>2, <4>1, <4>2, <4>3
    <3> QED
      BY <2>0, <3>1, <3>2 DEF FlushInv
  <2>3. CASE Transfer
    <3>0. UNCHANGED flushed
      BY <2>3 DEF Transfer, logVars
    <3>1. PICK s \in insp.taken :
            \/ UNCHANGED <<catalog, state, insp>>
            \/ /\ s # Nil /\ state[s] \in {"growing", "sealed"}
               /\ IF state[s] = "growing" THEN Commit(s, "sealed") ELSE UNCHANGED <<catalog, state, stats>>
               /\ \/ Complete(s) /\ insp' = [insp EXCEPT !.ready = @ \cup {s}]
                  \/ insp' = [insp EXCEPT !.undone = @ \cup {s}]
            \/ /\ s # Nil /\ state[s] = "growing" /\ CommitFails(s, "sealed")
               /\ insp' = [insp EXCEPT !.undone = @ \cup {s}]
      BY <2>3 DEF Transfer
    <3>2. CASE UNCHANGED <<catalog, state, insp>>
      BY Zenon, <2>0, <3>0, <3>2 DEF FlushInv
    <3>3. CASE s # Nil /\ state[s] \in {"growing", "sealed"} /\ ~UNCHANGED <<catalog, state, insp>>
      <4>1. s \in Segments
        BY <3>3 DEF QueueTypes
      <4>2. \A t \in Segments \ {s} : catalog'[t] = catalog[t] /\ state'[t] = state[t]
        BY <3>1, <3>3, <4>1 DEF Commit, CommitFails, MetaTypes
      <4>3. \/ catalog'[s] = "sealed" /\ state'[s] = "sealed"
            \/ catalog'[s] = catalog[s] /\ state'[s] = state[s]
            \/ state'[s] = "growing"
        BY <3>1, <3>3, <4>1 DEF Commit, CommitFails, MetaTypes
      <4>4. s \in flushed \/ s \in insp.ready => catalog'[s] = catalog[s] /\ state'[s] = state[s]
        BY <3>1, <3>3, <4>1 DEF FlushInv
      <4>5. \A t \in insp'.ready : t \in insp.ready \/ (t = s /\ Complete(s) /\ state'[s] = "sealed")
        BY <3>1, <3>3, <4>1 DEF QueueTypes, Commit, MetaTypes
      <4>6. Complete(s) => Quiet(s)
        BY <4>1, CompleteQuiet
      <4>7. \A t \in Segments : state'[t] = "sealed" => catalog'[t] \in {"sealed", "flushed"}
        BY <4>2, <4>3 DEF FlushInv
      <4>8. \A t : Quiet(t) => Quiet(t)'
        BY Zenon, <2>0
      <4>9. \A t \in flushed :
              catalog'[t] \in {"sealed", "flushed"} /\ state'[t] \notin {"pending", "growing"} /\ Quiet(t)'
        <5>1. \A t \in flushed : catalog'[t] = catalog[t] /\ state'[t] = state[t]
          BY Zenon, <4>2, <4>4 DEF MetaTypes
        <5> QED
          BY Zenon, <4>8, <5>1 DEF FlushInv
      <4>10. \A t \in insp'.ready : state'[t] = "sealed" /\ Quiet(t)'
        <5>1. \A t \in insp.ready : state'[t] = state[t]
          BY Zenon, <4>2, <4>4 DEF QueueTypes
        <5> QED
          BY Zenon, <4>5, <4>6, <4>8, <5>1 DEF FlushInv
      <4> QED
        BY Zenon, <3>0, <4>7, <4>9, <4>10 DEF FlushInv
    <3> QED
      BY <3>1, <3>2, <3>3
  <2>4. CASE AppendFlush
    <3>1. UNCHANGED <<catalog, state>>
      BY <2>4 DEF AppendFlush, segVars
    <3>2. flushed' \subseteq flushed \cup insp.ready /\ insp'.ready \subseteq insp.ready
      BY Zenon, <2>4 DEF AppendFlush, QueueTypes
    <3> QED
      BY Zenon, <2>0, <3>1, <3>2 DEF FlushInv, QueueTypes
  <2>5. CASE CommitFlushed
    <3>0. UNCHANGED flushed
      BY <2>5 DEF CommitFlushed, logVars
    <3>1. PICK s \in insp.ready :
            \/ Commit(s, "flushed") /\ insp' = [insp EXCEPT !.ready = @ \ {s}]
            \/ CommitFails(s, "flushed") /\ insp' = [insp EXCEPT !.ready = @ \ {s}, !.undone = @ \cup {s}]
      BY Zenon, <2>5 DEF CommitFlushed
    <3>2. s \in Segments /\ state[s] = "sealed"
      BY DEF QueueTypes, FlushInv
    <3>3. \A t \in Segments \ {s} : catalog'[t] = catalog[t] /\ state'[t] = state[t]
      BY <3>1, <3>2 DEF Commit, CommitFails, MetaTypes
    <3>4. catalog'[s] \in {catalog[s], "flushed"} /\ state'[s] \in {"sealed", "flushed"}
      BY <3>1, <3>2 DEF Commit, CommitFails, MetaTypes
    <3>5. insp'.ready = insp.ready \ {s}
      BY Zenon, <3>1 DEF QueueTypes
    <3>6. catalog'[s] \in {"sealed", "flushed"}
      BY <3>2, <3>4 DEF FlushInv
    <3>7. \A t \in Segments : state'[t] = "sealed" => catalog'[t] \in {"sealed", "flushed"}
      BY <3>3, <3>6 DEF FlushInv
    <3>8. \A t : Quiet(t) => Quiet(t)'
      BY Zenon, <2>0
    <3>9. \A t \in flushed :
            catalog'[t] \in {"sealed", "flushed"} /\ state'[t] \notin {"pending", "growing"} /\ Quiet(t)'
      <4>1. \A t \in flushed : t \in Segments
        BY Zenon DEF MetaTypes
      <4> QED
        BY <3>3, <3>4, <3>6, <3>8, <4>1 DEF FlushInv
    <3>10. \A t \in insp.ready \ {s} : state'[t] = "sealed" /\ Quiet(t)'
      <4>1. \A t \in insp.ready : t \in Segments
        BY Zenon DEF QueueTypes
      <4> QED
        BY <3>3, <3>8, <4>1 DEF FlushInv
    <3> QED
      BY Zenon, <3>0, <3>5, <3>7, <3>9, <3>10 DEF FlushInv
  <2>6. CASE CloseWAL
    <3>1. UNCHANGED <<state, flushed, insp>>
      BY <2>6 DEF CloseWAL, logVars
    <3>2. \A s \in Segments : catalog'[s] = catalog[s] \/ (state[s] = "growing" /\ catalog'[s] = "sealed")
      BY <2>6 DEF CloseWAL
    <3> QED
      BY Zenon, <2>0, <3>1, <3>2 DEF FlushInv, MetaTypes
  <2> QED
    BY <1>3, <2>1, <2>2, <2>3, <2>4, <2>5, <2>6 DEF OtherStep, SealStep
<1>4. ASSUME NEW r, Recover(r) PROVE FlushInv'
  <2>1. \A s : Quiet(s)'
    BY <1>4, InsertsRecover DEF Quiet
  <2>2. \A s \in Segments : state'[s] = IF s \in Loaded THEN catalog[s] ELSE "none"
    BY <1>4 DEF Recover
  <2>3. UNCHANGED <<catalog, flushed>> /\ insp'.ready = {}
    BY <1>4 DEF Recover, Idle, logVars
  <2> QED
    BY Zenon, <2>1, <2>2, <2>3 DEF FlushInv, MetaTypes
<1> QED
  BY <1>1, <1>2, <1>3, <1>4, Kinds

------------------------------------------------------------------------------
(* Places. *)

(* A segment that enters a place comes out of another one, or is new.       *)
LEMMA PlaceStep ==
  ASSUME InsertTypes, MetaTypes, QueueTypes, PlaceInv, [Next]_vars
  PROVE  PlaceInv'
<1>0. Nil \notin Segments
  BY SegmentAssumption DEF Segments
<1>1. CASE UNCHANGED vars
  BY Zenon, <1>1 DEF vars, PlaceInv, FlushSegs, DropSegs, segVars, partVars, queueVars
<1>2. ASSUME NEW i \in Inserts, InsertStep(i) PROVE PlaceInv'
  <2>0. UNCHANGED <<queue, insp, FlushSegs, DropSegs>>
    BY <1>2, InsertsKeepQueue DEF FlushSegs, DropSegs
  <2>1. CASE ~AssignSegment(i)
    BY Zenon, <1>2, <2>0, <2>1, InsertsKeepMeta DEF PlaceInv
  <2>2. CASE AssignSegment(i)
    <3>1. \/ UNCHANGED <<catalog, held>>
          \/ \E s \in Segments : /\ Fresh(s) /\ held' \in {held, held \cup {s}}
                                 /\ \E st \in {"pending", "growing"} : catalog' = [catalog EXCEPT ![s] = st]
      BY Zenon, <2>2, Assignments
    <3>2. CASE UNCHANGED <<catalog, held>>
      BY Zenon, <2>0, <3>2 DEF PlaceInv
    <3>3. ASSUME NEW s \in Segments, Fresh(s), held' \in {held, held \cup {s}},
                 NEW st \in {"pending", "growing"}, catalog' = [catalog EXCEPT ![s] = st]
          PROVE  PlaceInv'
      <4>1. s \notin queue \cup insp.taken \cup FlushSegs \cup DropSegs
        BY Zenon, <3>3 DEF Fresh, PlaceInv
      <4>2. catalog'[s] # "none" /\ \A t \in Segments \ {s} : catalog'[t] = catalog[t]
        BY <3>3 DEF MetaTypes
      <4>3. /\ held' \cap queue = {} /\ held' \cap insp.taken = {}
            /\ FlushSegs \cap (held' \cup queue \cup insp.taken) = {}
            /\ DropSegs \cap (held' \cup queue \cup insp.taken \cup FlushSegs) = {}
        <5>1. CASE held' = held
          BY Zenon, <5>1 DEF PlaceInv
        <5>2. CASE held' = held \cup {s}
          BY <4>1, <5>2 DEF PlaceInv
        <5> QED
          BY Zenon, <3>3, <5>1, <5>2
      <4>4. \A t \in Segments :
              t \in held' \cup queue \cup insp.taken \cup FlushSegs \cup DropSegs => catalog'[t] # "none"
        <5> TAKE t \in Segments
        <5>1. CASE t = s
          BY Zenon, <4>2, <5>1
        <5>2. CASE t # s
          BY Zenon, <3>3, <4>2, <5>2 DEF PlaceInv
        <5> QED
          BY Zenon, <5>1, <5>2
      <4> QED
        BY Zenon, <2>0, <4>3, <4>4 DEF PlaceInv
    <3> QED
      BY <3>1, <3>2, <3>3
  <2> QED
    BY <2>1, <2>2
<1>3. CASE OtherStep
  <2>1. CASE StartFlush
    <3>1. PICK segs \in SUBSET held :
            flush' = [pc |-> "queue", ts |-> now, segs |-> segs] /\ held' = held \ segs
      BY Zenon, <2>1 DEF StartFlush, Sealable
    <3>2. UNCHANGED <<catalog, queue, drop, insp>> /\ flush.pc = "new"
      BY Zenon, <2>1 DEF StartFlush, segVars, queueVars
    <3>3. FlushSegs = {} /\ FlushSegs' = segs /\ DropSegs' = DropSegs
      BY Zenon, <3>1, <3>2 DEF FlushSegs, DropSegs
    <3> QED
      BY Zenon, <3>1, <3>2, <3>3 DEF PlaceInv
  <2>2. CASE FlushSeals
    <3>1. UNCHANGED <<catalog, held, drop, insp>> /\ queue' = queue \cup FlushSegs /\ FlushSegs' = {}
      BY <2>2 DEF FlushSeals, AsyncSeal, FlushSegs, segVars, partVars, QueueTypes
    <3>2. DropSegs' = DropSegs /\ Nil \notin FlushSegs
      BY Zenon, <1>0, <3>1 DEF DropSegs, FlushSegs, QueueTypes
    <3> QED
      BY Zenon, <3>1, <3>2 DEF PlaceInv
  <2>3. CASE StartDrop
    <3>1. PICK segs \in SUBSET held :
            drop' = [pc |-> "queue", segs |-> segs] /\ held' \subseteq held \ segs
      BY Zenon, <2>3 DEF StartDrop, Sealable
    <3>2. UNCHANGED <<catalog, queue, flush, insp>> /\ drop.pc = "new"
      BY <2>3 DEF StartDrop, segVars, queueVars
    <3>3. DropSegs = {} /\ DropSegs' = segs /\ FlushSegs' = FlushSegs
      BY Zenon, <3>1, <3>2 DEF FlushSegs, DropSegs
    <3> QED
      BY Zenon, <3>1, <3>2, <3>3 DEF PlaceInv
  <2>4. CASE DropSeals
    <3>1. UNCHANGED <<catalog, held, flush, insp>> /\ queue' = queue \cup DropSegs /\ DropSegs' = {}
      BY <2>4 DEF DropSeals, AsyncSeal, DropSegs, segVars, partVars, QueueTypes
    <3>2. FlushSegs' = FlushSegs /\ Nil \notin DropSegs
      BY <1>0, <3>1 DEF DropSegs, FlushSegs, QueueTypes
    <3> QED
      BY Zenon, <3>1, <3>2 DEF PlaceInv
  <2>5. CASE EndFlush \/ EndDrop \/ GiveUp \/ Forget \/ StopWAL
    <3>1. UNCHANGED <<catalog, held, queue, insp>>
      BY <2>5 DEF EndFlush, EndDrop, GiveUp, Forget, StopWAL, segVars, partVars, queueVars
    <3>2. UNCHANGED <<FlushSegs, DropSegs>>
      <4>1. CASE EndFlush
        BY <4>1 DEF EndFlush, FlushSegs, DropSegs, QueueTypes
      <4>2. CASE EndDrop
        BY <4>2 DEF EndDrop, FlushSegs, DropSegs, QueueTypes
      <4>3. CASE GiveUp
        BY <4>3 DEF GiveUp, FlushSegs, DropSegs, QueueTypes
      <4>4. CASE Forget \/ StopWAL
        BY Zenon, <4>4 DEF Forget, StopWAL, FlushSegs, DropSegs
      <4> QED
        BY <2>5, <4>1, <4>2, <4>3, <4>4
    <3> QED
      BY Zenon, <3>1, <3>2 DEF PlaceInv
  <2>6. CASE CloseWAL
    <3>1. UNCHANGED <<held, queue, insp, FlushSegs, DropSegs>>
      BY Zenon, <2>6 DEF CloseWAL, FlushSegs, DropSegs, partVars, queueVars
    <3>2. \A s \in Segments : catalog'[s] \in {catalog[s], "sealed"}
      BY <2>6 DEF CloseWAL
    <3> QED
      BY Zenon, <3>1, <3>2 DEF PlaceInv
  <2>7. CASE Collect \/ MustSeal
    <3>1. PICK segs :
            /\ segs \subseteq held \/ segs = {Nil}
            /\ held' \subseteq held \ segs
            /\ insp' = [insp EXCEPT !.pc = "queue", !.taken = segs]
      <4>1. CASE Collect
        BY Zenon, <4>1 DEF Collect, Growing, AlreadySealed
      <4>2. CASE MustSeal
        <5>1. PICK s : /\ held' = held \ {s}
                       /\ insp' = [insp EXCEPT !.pc = "queue", !.taken = IF s \in held THEN {s} ELSE {Nil}]
          BY Zenon, <4>2 DEF MustSeal
        <5>2. CASE s \in held
          BY Zenon, <5>1, <5>2
        <5>3. CASE s \notin held
          BY Zenon, <1>0, <5>1, <5>3 DEF QueueTypes
        <5> QED
          BY Zenon, <5>2, <5>3
      <4> QED
        BY Zenon, <2>7, <4>1, <4>2
    <3>2. UNCHANGED <<catalog, queue, flush, drop>> /\ insp.pc = "idle"
      BY Zenon, <2>7 DEF Collect, MustSeal, segVars, queueVars
    <3>3. UNCHANGED <<FlushSegs, DropSegs>>
      BY <3>2 DEF FlushSegs, DropSegs
    <3>4. insp'.pc = "queue" /\ insp'.taken = segs /\ insp'.ready = insp.ready /\ insp'.undone = insp.undone
      BY <3>1 DEF QueueTypes
    <3>5. /\ insp.taken = {} /\ insp.ready = {} /\ insp.undone = {} /\ Nil \notin queue
          /\ Nil \notin FlushSegs /\ Nil \notin DropSegs /\ Nil \notin held
      BY Zenon, <1>0, <3>2 DEF PlaceInv, QueueTypes, FlushSegs, DropSegs
    <3> QED
      BY <1>0, <3>1, <3>2, <3>3, <3>4, <3>5 DEF PlaceInv
  <2>8. CASE InspectorSeals
    <3>1. /\ UNCHANGED <<catalog, held, FlushSegs, DropSegs>>
          /\ queue' = queue \cup insp.taken /\ insp.pc = "queue"
          /\ insp' = [insp EXCEPT !.pc = "take", !.taken = {}]
      BY <2>8 DEF InspectorSeals, AsyncSeal, FlushSegs, DropSegs, segVars, partVars
    <3>2. insp'.pc = "take" /\ insp'.taken = {} /\ insp'.ready = insp.ready /\ insp'.undone = insp.undone
      BY <3>1 DEF QueueTypes
    <3> QED
      BY <3>1, <3>2 DEF PlaceInv
  <2>9. CASE SealAllWait
    <3>1. /\ UNCHANGED <<catalog, held, FlushSegs, DropSegs>>
          /\ queue' = {} /\ insp.pc \in {"take", "idle"}
          /\ insp' = [insp EXCEPT !.pc = "transfer", !.taken = queue]
      BY <2>9 DEF SealAllWait, FlushSegs, DropSegs, segVars, partVars
    <3>2. insp'.pc = "transfer" /\ insp'.taken = queue /\ insp'.ready = insp.ready /\ insp'.undone = insp.undone
      BY <3>1 DEF QueueTypes
    <3> QED
      BY <3>1, <3>2 DEF PlaceInv
  <2>10. CASE Transfer
    <3>1. UNCHANGED <<held, queue, FlushSegs, DropSegs>> /\ insp.pc = "transfer"
      BY <2>10 DEF Transfer, FlushSegs, DropSegs, partVars, queueVars
    <3>2. PICK s \in insp.taken :
            /\ UNCHANGED catalog \/ (s # Nil /\ (Commit(s, "sealed") \/ CommitFails(s, "sealed")))
            /\ \/ insp' = insp
               \/ s # Nil /\ insp' = [insp EXCEPT !.ready = @ \cup {s}]
               \/ s # Nil /\ insp' = [insp EXCEPT !.undone = @ \cup {s}]
      BY <2>10 DEF Transfer
    <3>3. \A t \in Segments : catalog'[t] \in {catalog[t], "sealed"}
      BY <3>2 DEF Commit, CommitFails, MetaTypes, QueueTypes
    <3>4. /\ insp'.pc = insp.pc /\ insp'.taken = insp.taken
          /\ insp'.ready \subseteq insp.ready \cup {s} /\ insp'.undone \subseteq insp.undone \cup {s}
      BY <3>2 DEF QueueTypes
    <3> QED
      BY Zenon, <3>1, <3>3, <3>4 DEF PlaceInv
  <2>11. CASE AppendFlush
    <3>1. UNCHANGED <<catalog, held, queue, FlushSegs, DropSegs>> /\ insp.pc = "transfer"
      BY <2>11 DEF AppendFlush, FlushSegs, DropSegs, segVars, partVars, queueVars
    <3>2. /\ insp'.pc = "commit" /\ insp'.taken = insp.taken
          /\ insp'.ready \cup insp'.undone = insp.ready \cup insp.undone
      BY Zenon, <2>11 DEF AppendFlush, QueueTypes
    <3> QED
      BY Zenon, <3>1, <3>2 DEF PlaceInv
  <2>12. CASE CommitFlushed
    <3>1. UNCHANGED <<held, queue, FlushSegs, DropSegs>> /\ insp.pc = "commit"
      BY <2>12 DEF CommitFlushed, FlushSegs, DropSegs, partVars, queueVars
    <3>2. PICK s \in insp.ready :
            /\ Commit(s, "flushed") \/ CommitFails(s, "flushed")
            /\ \/ insp' = [insp EXCEPT !.ready = @ \ {s}]
               \/ insp' = [insp EXCEPT !.ready = @ \ {s}, !.undone = @ \cup {s}]
      BY Zenon, <2>12 DEF CommitFlushed
    <3>3. \A t \in Segments : catalog'[t] \in {catalog[t], "flushed"}
      BY <3>2 DEF Commit, CommitFails, MetaTypes, QueueTypes
    <3>4. /\ insp'.pc = insp.pc /\ insp'.taken = insp.taken
          /\ insp'.ready \cup insp'.undone \subseteq insp.ready \cup insp.undone
      <4>1. CASE insp' = [insp EXCEPT !.ready = @ \ {s}]
        BY <4>1 DEF QueueTypes
      <4>2. CASE insp' = [insp EXCEPT !.ready = @ \ {s}, !.undone = @ \cup {s}]
        BY <3>2, <4>2 DEF QueueTypes
      <4> QED
        BY Zenon, <3>2, <4>1, <4>2
    <3> QED
      BY Zenon, <3>1, <3>3, <3>4 DEF PlaceInv
  <2>13. CASE EndSeal
    <3>1. /\ UNCHANGED <<catalog, held, FlushSegs, DropSegs>>
          /\ queue' = queue \cup insp.undone /\ insp' = Idle /\ insp.pc = "commit"
      BY Zenon, <2>13 DEF EndSeal, Requeue, FlushSegs, DropSegs, segVars, partVars
    <3>2. insp'.pc = "idle" /\ insp'.taken = {} /\ insp'.ready = {} /\ insp'.undone = {}
      BY Zenon, <3>1 DEF Idle
    <3>3. Nil \notin insp.undone
      BY <1>0 DEF QueueTypes
    <3> QED
      BY Zenon, <3>1, <3>2, <3>3 DEF PlaceInv
  <2> QED
    BY Zenon, <1>3, <2>1, <2>2, <2>3, <2>4, <2>5, <2>6, <2>7, <2>8, <2>9, <2>10, <2>11, <2>12, <2>13
    DEF OtherStep, FlushStep, DropStep, SealStep
<1>4. ASSUME NEW r, Recover(r) PROVE PlaceInv'
  <2>1. /\ held' \in {Loaded, {}} /\ queue' \in {Loaded, {}} /\ held' \cap queue' = {}
        /\ UNCHANGED catalog /\ insp' = Idle
    BY <1>4 DEF Recover
  <2>2. FlushSegs' = {} /\ DropSegs' = {}
    BY <1>4 DEF Recover, FlushSegs, DropSegs, QueueTypes
  <2>3. insp'.pc = "idle" /\ insp'.taken = {} /\ insp'.ready = {} /\ insp'.undone = {}
    BY Zenon, <2>1 DEF Idle
  <2>4. Nil \notin Loaded /\ \A s \in Loaded : catalog[s] # "none"
    BY <1>0 DEF Loaded
  <2> QED
    BY Zenon, <2>1, <2>2, <2>3, <2>4 DEF PlaceInv
<1> QED
  BY <1>1, <1>2, <1>3, <1>4, Kinds

------------------------------------------------------------------------------
(* The wait counter. *)

(* The queue, and what is taken from it, are finite.                        *)
LEMMA PlacesFinite ==
  ASSUME NEW S \in SUBSET (Segments \cup {Nil})
  PROVE  IsFiniteSet(S) /\ Cardinality(S) \in Nat
<1>1. IsFiniteSet(Segments)
  BY SegmentAssumption, FS_Interval DEF Segments
<1>2. IsFiniteSet(Segments \cup {Nil})
  BY <1>1, FS_AddElement
<1> QED
  BY <1>2, FS_Subset, FS_CardinalityType

(* The size of a union of two places without a common segment.              *)
LEMMA UnionSize ==
  ASSUME NEW S \in SUBSET (Segments \cup {Nil}), NEW T \in SUBSET (Segments \cup {Nil}), S \cap T = {}
  PROVE  Cardinality(S \cup T) = Cardinality(S) + Cardinality(T)
<1>1. IsFiniteSet(S) /\ IsFiniteSet(T) /\ Cardinality(S) \in Nat /\ Cardinality(T) \in Nat
  BY PlacesFinite
<1>2. Cardinality(S \cap T) = 0
  BY FS_EmptySet
<1>3. Cardinality(S \cup T) = Cardinality(S) + Cardinality(T) - Cardinality(S \cap T)
  BY <1>1, FS_Union
<1>4. ASSUME NEW a \in Nat, NEW b \in Nat PROVE a + b - 0 = a + b
  OBVIOUS
<1> QED
  BY Zenon, <1>1, <1>2, <1>3, <1>4

(* Every step moves the wait counter with the queue and what is taken.      *)
LEMMA CountStep ==
  ASSUME InsertTypes, MetaTypes, QueueTypes, PlaceInv, CountInv, [Next]_vars
  PROVE  CountInv'
<1>0. /\ queue \in SUBSET (Segments \cup {Nil}) /\ Counted \in SUBSET (Segments \cup {Nil})
      /\ Cardinality(queue) \in Nat /\ Cardinality(Counted) \in Nat
  BY PlacesFinite DEF QueueTypes, Counted
<1>1. ASSUME UNCHANGED <<queue, counter, Counted>> PROVE CountInv'
  BY <1>1 DEF CountInv
<1>2. CASE UNCHANGED vars
  BY <1>1, <1>2 DEF vars, queueVars, Counted
<1>3. ASSUME NEW i \in Inserts, InsertStep(i) PROVE CountInv'
  BY <1>1, <1>3, InsertsKeepQueue DEF Counted
<1>4. ASSUME NEW segs \in SUBSET (Segments \cup {Nil}), queue \cap segs = {}, AsyncSeal(segs), Counted' = Counted
      PROVE  CountInv'
  <2>1. Cardinality(queue \cup segs) = Cardinality(queue) + Cardinality(segs) /\ Cardinality(segs) \in Nat
    BY Zenon, <1>0, <1>4, UnionSize, PlacesFinite
  <2> QED
    BY <1>0, <1>4, <2>1 DEF AsyncSeal, CountInv
<1>5. CASE OtherStep
  <2>1. CASE StartFlush \/ EndFlush \/ StartDrop \/ EndDrop \/ GiveUp \/ Forget \/ StopWAL \/ CloseWAL
    <3>1. UNCHANGED <<queue, counter, insp>>
      BY Zenon, <2>1
         DEF StartFlush, EndFlush, StartDrop, EndDrop, GiveUp, Forget, StopWAL, CloseWAL, queueVars
    <3> QED
      BY <1>1, <3>1 DEF Counted
  <2>2. CASE FlushSeals
    <3>1. AsyncSeal(flush.segs) /\ insp' = insp /\ flush.pc = "queue"
      BY <2>2 DEF FlushSeals
    <3>2. flush.segs \in SUBSET (Segments \cup {Nil}) /\ queue \cap flush.segs = {}
      BY Zenon, <3>1 DEF PlaceInv, FlushSegs, QueueTypes
    <3> QED
      BY Zenon, <1>4, <3>1, <3>2 DEF Counted
  <2>3. CASE DropSeals
    <3>1. AsyncSeal(drop.segs) /\ insp' = insp /\ drop.pc = "queue"
      BY <2>3 DEF DropSeals
    <3>2. drop.segs \in SUBSET (Segments \cup {Nil}) /\ queue \cap drop.segs = {}
      BY Zenon, <3>1 DEF PlaceInv, DropSegs, QueueTypes
    <3> QED
      BY <1>4, <3>1, <3>2 DEF Counted
  <2>4. CASE Collect \/ MustSeal
    <3>1. UNCHANGED <<queue, counter>> /\ insp.pc = "idle" /\ insp'.pc = "queue"
      BY Zenon, <2>4 DEF Collect, MustSeal, queueVars, QueueTypes
    <3> QED
      BY <1>1, <3>1 DEF Counted
  <2>5. CASE InspectorSeals
    <3>1. AsyncSeal(insp.taken) /\ insp.pc = "queue" /\ insp'.pc = "take"
      BY <2>5 DEF InspectorSeals, QueueTypes
    <3>2. insp.taken \in SUBSET (Segments \cup {Nil}) /\ queue \cap insp.taken = {}
      BY Zenon DEF PlaceInv, QueueTypes
    <3> QED
      BY <1>4, <3>1, <3>2 DEF Counted
  <2>6. CASE SealAllWait
    <3>1. insp.pc \in {"idle", "take"} /\ insp'.pc = "transfer" /\ insp'.taken = queue /\ queue' = {} /\ counter' = counter
      BY <2>6 DEF SealAllWait, QueueTypes
    <3>2. Counted = {} /\ Counted' = queue
      BY <3>1 DEF Counted
    <3> QED
      BY <1>0, <3>1, <3>2, FS_EmptySet DEF CountInv
  <2>7. CASE Transfer
    <3>1. UNCHANGED <<queue, counter>>
      BY <2>7 DEF Transfer, queueVars
    <3>2. PICK s \in insp.taken :
            \/ insp' = insp
            \/ insp' = [insp EXCEPT !.ready = @ \cup {s}]
            \/ insp' = [insp EXCEPT !.undone = @ \cup {s}]
      BY <2>7 DEF Transfer
    <3>3. insp'.pc = insp.pc /\ insp'.taken = insp.taken
      BY <3>2 DEF QueueTypes
    <3> QED
      BY <1>1, <3>1, <3>3 DEF Counted
  <2>8. CASE AppendFlush
    <3>1. UNCHANGED <<queue, counter>> /\ insp.pc = "transfer" /\ insp'.pc = "commit" /\ insp'.taken = insp.taken
      BY Zenon, <2>8 DEF AppendFlush, queueVars, QueueTypes
    <3> QED
      BY <1>1, <3>1 DEF Counted
  <2>9. CASE CommitFlushed
    <3>1. UNCHANGED <<queue, counter>>
      BY <2>9 DEF CommitFlushed, queueVars
    <3>2. PICK s \in insp.ready :
            \/ insp' = [insp EXCEPT !.ready = @ \ {s}]
            \/ insp' = [insp EXCEPT !.ready = @ \ {s}, !.undone = @ \cup {s}]
      BY Zenon, <2>9 DEF CommitFlushed
    <3>3. insp'.pc = insp.pc /\ insp'.taken = insp.taken
      BY Zenon, <3>2 DEF QueueTypes
    <3> QED
      BY <1>1, <3>1, <3>3 DEF Counted
  <2>10. CASE EndSeal
    <3>1. /\ insp.pc = "commit" /\ insp' = Idle /\ queue' = queue \cup insp.undone
          /\ counter' = counter - (Cardinality(insp.taken) - Cardinality(insp.undone))
      BY Zenon, <2>10 DEF EndSeal, Requeue, Count
    <3>2. Counted = insp.taken /\ Counted' = {}
      BY <3>1 DEF Counted, Idle
    <3>3. insp.undone \in SUBSET (Segments \cup {Nil}) /\ queue \cap insp.undone = {}
      BY DEF PlaceInv, QueueTypes
    <3>4. /\ Cardinality(queue \cup insp.undone) = Cardinality(queue) + Cardinality(insp.undone)
          /\ Cardinality(insp.undone) \in Nat
      BY Zenon, <1>0, <3>3, UnionSize, PlacesFinite
    <3> QED
      BY <1>0, <3>1, <3>2, <3>4, FS_EmptySet DEF CountInv
  <2> QED
    BY <1>5, <2>1, <2>2, <2>3, <2>4, <2>5, <2>6, <2>7, <2>8, <2>9, <2>10
       DEF OtherStep, FlushStep, DropStep, SealStep
<1>6. ASSUME NEW r, Recover(r) PROVE CountInv'
  <2>1. counter' = Cardinality(queue') /\ Counted' = {} /\ queue' \in {Loaded, {}}
    BY <1>6 DEF Recover, Counted, Idle
  <2>2. queue' \in SUBSET (Segments \cup {Nil})
    BY <2>1 DEF Loaded
  <2>3. Cardinality(queue') \in Nat
    BY <2>2, PlacesFinite
  <2> QED
    BY <2>1, <2>3, FS_EmptySet DEF CountInv
<1> QED
  BY <1>2, <1>3, <1>5, <1>6, Kinds

------------------------------------------------------------------------------
(* Theorems. *)

(* The interceptor of a new channel satisfies the invariant.                *)
LEMMA InitIInv == Init => IInv
<1> SUFFICES ASSUME Init PROVE IInv
  OBVIOUS
<1>1. InsertTypes
  BY Zenon DEF Init, InsertTypes, InFlight
<1>2. MetaTypes
  BY SMTT(20) DEF Init, MetaTypes, States
<1>3. QueueTypes
  BY Zenon DEF Init, QueueTypes, Idle
<1>4. SemInv
  <2>1. \A s : Acking(s) = {} /\ InTransaction(s) = {}
    BY Zenon, SegmentAssumption DEF Init, Acking, InTransaction, InFlight
  <2>2. \A s \in Segments : ack[s] = 0 /\ txn[s] = 0
    BY Zenon DEF Init
  <2> QED
    BY <2>1, <2>2, FS_EmptySet DEF SemInv
<1>5. FlushInv
  BY Zenon DEF Init, FlushInv, Idle
<1>6. PlaceInv
  BY Zenon DEF Init, PlaceInv, FlushSegs, DropSegs, Idle
<1>7. CountInv
  BY SMTT(20), FS_EmptySet DEF Init, CountInv, Counted, Idle
<1> QED
  BY <1>1, <1>2, <1>3, <1>4, <1>5, <1>6, <1>7 DEF IInv

(* Every step keeps the invariant.                                          *)
LEMMA NextIInv == IInv /\ [Next]_vars => IInv'
BY InsertTypesStep, MetaTypesStep, QueueTypesStep, SemStep, FlushStepInv, PlaceStep, CountStep
   DEF IInv

(* The invariant that the two properties rest on: the semaphores of a       *)
(* segment count the inserts under way, a flushed segment is over, a        *)
(* segment is in one place, and the wait counter counts two of the places.  *)
THEOREM SegmentInvariant == Spec => []IInv
BY InitIInv, NextIInv, PTL DEF Spec

(* tryToSealSegments and AsyncSeal keep waitCounter equal to the number of  *)
(* segments that wait or are being sealed.                                  *)
THEOREM WaitCounterExactHolds == Spec => []WaitCounterExact
<1>1. IInv => WaitCounterExact
  <2> SUFFICES ASSUME IInv PROVE WaitCounterExact
    OBVIOUS
  <2>1. CASE insp.pc \in {"transfer", "commit"}
    BY Zenon, <2>1 DEF IInv, CountInv, Counted, WaitCounterExact
  <2>2. CASE insp.pc \notin {"transfer", "commit"}
    BY Zenon, <2>2, FS_EmptySet DEF IInv, CountInv, Counted, WaitCounterExact
  <2> QED
    BY <2>1, <2>2
<1> QED
  BY <1>1, SegmentInvariant, PTL

(* No insert of a segment and no commit of its transactions follows the     *)
(* segment's flush message, whatever interleaves and fails.                 *)
THEOREM FlushLastHolds == Spec => FlushLast
<1>1. IInv /\ [Next]_vars => [\A s \in flushed : written'[s] = written[s]]_vars
  <2> SUFFICES ASSUME IInv, Next PROVE \A s \in flushed : written'[s] = written[s]
    BY DEF vars
  <2>1. ASSUME NEW i \in Inserts, InsertStep(i) PROVE \A s \in flushed : written'[s] = written[s]
    <3>1. ins[i].pc \in InFlight => ins[i].seg \notin flushed
      BY Zenon DEF IInv, FlushInv, Quiet
    <3>2. \/ written' = written
          \/ ins[i].pc \in InFlight /\ written' = [written EXCEPT ![ins[i].seg] = @ + 1]
      BY Zenon, <2>1
         DEF InsertStep, StartInsert, GetManager, AssignSegment, AppendInsert, Ack, EndTxn, logVars, InFlight
    <3> QED
      BY <3>1, <3>2 DEF IInv, MetaTypes
  <2>2. CASE OtherStep
    BY <2>2, OthersKeepInserts
  <2>3. ASSUME NEW r, Recover(r) PROVE \A s \in flushed : written'[s] = written[s]
    BY <2>3 DEF Recover, logVars
  <2> QED
    BY Zenon, <2>1, <2>2, <2>3, Kinds
<1> QED
  BY <1>1, SegmentInvariant, PTL DEF Spec, FlushLast
================================================================================
