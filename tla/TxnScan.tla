------------------------------- MODULE TxnScan -------------------------------
(***************************************************************************)
(* Transactions from end to end: the log that Txn writes, read by a        *)
(* scanner.  What a scanner hands out is a function of the log, so the     *)
(* reading needs no state of its own.                                      *)
(***************************************************************************)
EXTENDS Txn, SequencesExt

B == INSTANCE ScanBuffers

(* handleUpstream of one entry, for a scanner without filters.              *)
HandleUpstream(s, e) ==
  IF e.type = "msg"
  THEN [s EXCEPT !.scan = B!Push(@, [tt |-> e.tt, lastConfirmed |-> e.lastConfirmed,
                                     kind |-> content[e.tt].kind, txn |-> content[e.tt].session])]
  ELSE LET r == B!HandleTimeTick(s.scan, e.tt)
       IN [scan |-> r.scan, out |-> s.out \o r.out]

Scanned == FoldLeft(HandleUpstream, [scan |-> B!EmptyScan, out |-> << >>], wal).out

MessagesOf(s) == {wal[i].tt : i \in {j \in 1 .. Len(wal) : wal[j].type = "msg"
                                                          /\ content[wal[j].tt].session = s}}

(* The TxnBuffer is to "hold the uncommitted txn messages until the commit  *)
(* or rollback message comes and pop the committed txn messages": once a    *)
(* time tick covers a commit, its transaction has come out with all that    *)
(* was written for it before the commit.  The lease the scanner computes    *)
(* from the log never ends before the one by which TxnSession accepted.     *)
CommittedDelivered ==
  LET out == Scanned
  IN \A c \in 1 .. Len(wal) :
       /\ wal[c].type = "msg" /\ content[wal[c].tt].kind = "commit"
       /\ \E k \in c + 1 .. Len(wal) : wal[k].type = "timetick" /\ wal[c].tt <= wal[k].tt
       => \E d \in 1 .. Len(out) :
            out[d].msgs = {t \in MessagesOf(content[wal[c].tt].session) : t <= wal[c].tt}

=============================================================================
