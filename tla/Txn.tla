--------------------------------- MODULE Txn ---------------------------------
(***************************************************************************)
(* Transactions on one WAL: TxnManager and TxnSession composed with the    *)
(* time tick machinery of TimeTick.  Every step of an appender and of the  *)
(* sync goroutine is the step of TimeTick together with what it does to    *)
(* the sessions; handleBegin, handleCommit, handleRollback and             *)
(* handleTxnMessage, and the deferred calls that run between the append    *)
(* and the acknowledgement, are steps of their own.                        *)
(***************************************************************************)
EXTENDS TimeTick, Integers, FiniteSets

CONSTANT Keepalive   \* the lease of a session, in time ticks

ASSUME KeepaliveAssumption == Keepalive \in Nat \ {0}
ASSUME AppendersAssumption == IsFiniteSet(Appenders)

VARIABLES
  session,   \* the TxnSession of each transaction
  sessions,  \* TxnManager.sessions: the transactions it still knows
  closed,    \* TxnManager.closed is set, by GracefulClose
  kind,      \* the type of the message an appender carries
  stage,     \* where an appender is among the handlers and deferred calls
  begun,     \* transactions whose id the client has received
  content,   \* the messages, by time tick
  panicked,  \* the process has panicked
  spoilt     \* history: transactions of which the append of a body message failed

sessionVars == <<session, sessions, closed, begun, panicked, spoilt>>
txnVars == <<sessionVars, kind, stage, content>>

-----------------------------------------------------------------------------
(* TxnSession. *)

NoTxnSession == [state |-> "none", lastTimetick |-> 0, expired |-> FALSE,
                 inFlightCount |-> 0, doneWait |-> "nil"]

expiredTimeTick(s) == session[s].lastTimetick + Keepalive

IsExpiredOrDone(s, ts) ==
  expiredTimeTick(s) <= ts \/ session[s].state \in {"rollbacked", "committed"}

(* The sessions AddConfirmedDetails finds over at a time tick.              *)
OverAt(ts) == {s \in Sessions : session[s].state # "none" /\ IsExpiredOrDone(s, ts)}

(* Mutant: a message at the time tick the session expires is let in.        *)
checkIfExpiredLate(s, tt) == session[s].expired \/ tt > expiredTimeTick(s)

checkIfExpired(s, tt) == session[s].expired \/ tt >= expiredTimeTick(s)

(* A message that ends leaves one less in flight; the last one wakes the    *)
(* commit or rollback that waits.                                           *)
OneLess(x) ==
  [x EXCEPT !.inFlightCount = @ - 1,
            !.doneWait = IF @ # "nil" /\ x.inFlightCount = 1 THEN "closed" ELSE @]

(* A message that ends refreshes the lease.                                 *)
Refreshed(x, tt) == [x EXCEPT !.lastTimetick = IF @ < tt THEN tt ELSE @]

AddNewMessageFail(s) == session' = [session EXCEPT ![s] = OneLess(@)]

(* Mutant: the lease is refreshed and the waiter forgotten.                 *)
AddNewMessageDoneSilently(s, tt) ==
  session' = [session EXCEPT ![s].lastTimetick = IF @ < tt THEN tt ELSE @,
                             ![s].inFlightCount = @ - 1]

AddNewMessageDoneAndKeepalive(s, tt) ==
  session' = [session EXCEPT ![s] = Refreshed(OneLess(@), tt)]

(* Mutant: the channel is closed whatever is in flight.                     *)
doneChanAlways(s) == "closed"

(* The state of the channel getDoneChan returns.                            *)
doneChan(s) == IF session[s].inFlightCount = 0 THEN "closed" ELSE "open"

getDoneChan(s, state) ==
  session' = [session EXCEPT ![s].state = state, ![s].doneWait = doneChan(s)]

(* TxnManager.CleanupTxnUntil, called with every time tick.                 *)
CleanupTxnUntil(ts) ==
  /\ sessions' = {s \in sessions : ~IsExpiredOrDone(s, ts)}
  /\ UNCHANGED <<session, closed, kind, stage, begun, content, panicked, spoilt>>

-----------------------------------------------------------------------------
(* timeTickAppendInterceptor.DoAppend with its transaction handlers. *)

SessionOf(p) == request[p].session

(* A client begins a new transaction, or uses one whose begin was answered; *)
(* nothing orders the calls it makes for one transaction.                   *)
StartMessage(p, barrier, k, s) ==
  /\ StartAppend(p, barrier, s)
  /\ k = "auto" <=> s = NoSession
  /\ k = "begin" => /\ session[s].state = "none"
                    /\ \A q \in Appenders : SessionOf(q) # s
  /\ k \in {"body", "commit", "rollback"} => s \in begun
  /\ kind' = [kind EXCEPT ![p] = k]
  /\ UNCHANGED <<sessionVars, stage, content>>

GiveUpMessage(p) ==
  /\ GiveUp(p)
  /\ kind' = [kind EXCEPT ![p] = "none"]
  /\ UNCHANGED <<sessionVars, stage, content>>

AllocateMessage(p) ==
  /\ AllocateAcker(p)
  /\ content' = [t \in DOMAIN content \cup {tso'} |->
                   IF t = tso' THEN [kind |-> kind[p], session |-> SessionOf(p)]
                               ELSE content[t]]
  /\ UNCHANGED <<sessionVars, kind, stage>>

Handles(p, kinds) == pc[p] = "append" /\ stage[p] = "none" /\ kind[p] \in kinds

(* handleBegin: BeginNewTxn and BeginDone, before anyone knows the session. *)
HandleBegin(p) ==
  /\ Handles(p, {"begin"})
  /\ ~closed
  /\ session' = [session EXCEPT ![SessionOf(p)] =
                   [NoTxnSession EXCEPT !.state = "inflight", !.lastTimetick = acker[p]]]
  /\ sessions' = sessions \cup {SessionOf(p)}
  /\ stage' = [stage EXCEPT ![p] = "handled"]
  /\ UNCHANGED <<vars, closed, kind, begun, content, panicked, spoilt>>

(* Mutant: a session that is ending still lets messages in.                 *)
AcceptedEnding(p) ==
  /\ SessionOf(p) \in sessions
  /\ ~checkIfExpired(SessionOf(p), acker[p])

(* What a message of a known session must meet.                             *)
Accepted(p) ==
  /\ SessionOf(p) \in sessions
  /\ ~checkIfExpired(SessionOf(p), acker[p])
  /\ session[SessionOf(p)].state = "inflight"

(* handleTxnMessage: GetSessionOfTxn and AddNewMessage.                     *)
HandleTxnMessage(p) ==
  /\ Handles(p, {"body"})
  /\ Accepted(p)
  /\ session' = [session EXCEPT ![SessionOf(p)].inFlightCount = @ + 1]
  /\ stage' = [stage EXCEPT ![p] = "handled"]
  /\ UNCHANGED <<vars, sessions, closed, kind, begun, content, panicked, spoilt>>

(* handleCommit and handleRollback up to the wait.                          *)
RequestDone(p) ==
  /\ Handles(p, {"commit", "rollback"})
  /\ Accepted(p)
  /\ getDoneChan(SessionOf(p), IF kind[p] = "commit" THEN "oncommit" ELSE "onrollback")
  /\ stage' = [stage EXCEPT ![p] = "waiting"]
  /\ UNCHANGED <<vars, sessions, closed, kind, begun, content, panicked, spoilt>>

(* Mutant: the error is returned and the acker forgotten.                   *)
ReturnErrorNoAck(p) ==
  /\ pc[p] = "append"
  /\ pc' = [pc EXCEPT ![p] = "idle"]
  /\ request' = [request EXCEPT ![p] = NoRequest]
  /\ acker' = [acker EXCEPT ![p] = 0]
  /\ stage' = [stage EXCEPT ![p] = "none"]
  /\ UNCHANGED <<tso, wal, crashes, failures, ready, managerVars, waiters, syncVars>>

(* The message is not written, and is acknowledged with an error.           *)
ReturnError(p) ==
  /\ UNCHANGED <<wal, failures>>
  /\ AppendMsg(p)
  /\ stage' = [stage EXCEPT ![p] = "done"]

(* The manager does not know the session, or the session refuses; one that  *)
(* refuses because its lease is over says so from then on.                  *)
Refuse(p) ==
  /\ Handles(p, {"body", "commit", "rollback"})
  /\ ~Accepted(p)
  /\ ReturnError(p)
  /\ session' = IF SessionOf(p) \in sessions /\ checkIfExpired(SessionOf(p), acker[p])
                  THEN [session EXCEPT ![SessionOf(p)].expired = TRUE] ELSE session
  /\ UNCHANGED <<sessions, closed, kind, begun, content, panicked, spoilt>>

WaitDone(p) ==
  /\ stage[p] = "waiting"
  /\ session[SessionOf(p)].doneWait = "closed"
  /\ stage' = [stage EXCEPT ![p] = "handled"]
  /\ UNCHANGED <<vars, sessionVars, kind, content>>

(* The context of the commit or rollback ends first.                        *)
WaitCancelled(p) ==
  /\ stage[p] = "waiting"
  /\ ReturnError(p)
  /\ UNCHANGED <<sessionVars, kind, content>>

(* appendMsg.  With MaxFailures = 0 no append fails, and no interceptor     *)
(* after this one refuses the message.                                      *)
WriteMessage(p) ==
  /\ stage[p] = "handled" \/ kind[p] = "auto"
  /\ AppendMsg(p)
  /\ wal' = wal => MaxFailures > 0
  /\ stage' = [stage EXCEPT ![p] = IF kind[p] \in {"auto", "begin"} THEN "done" ELSE @]
  /\ UNCHANGED <<sessionVars, kind, content>>

(* The first deferred call of a body message whose append failed.           *)
BodyFailed(p) ==
  /\ pc[p] = "mark" /\ stage[p] = "handled" /\ kind[p] = "body"
  /\ detail[acker[p]].err
  /\ AddNewMessageFail(SessionOf(p))
  /\ stage' = [stage EXCEPT ![p] = "failed"]
  /\ spoilt' = spoilt \cup {SessionOf(p)}
  /\ UNCHANGED <<vars, sessions, closed, kind, begun, content, panicked>>

(* The deferred call that every body message makes, failed or not.          *)
BodyDone(p) ==
  /\ pc[p] = "mark" /\ kind[p] = "body"
  /\ stage[p] = "failed" \/ (stage[p] = "handled" /\ ~detail[acker[p]].err)
  /\ AddNewMessageDoneAndKeepalive(SessionOf(p), acker[p])
  /\ stage' = [stage EXCEPT ![p] = "done"]
  /\ UNCHANGED <<vars, sessions, closed, kind, begun, content, panicked, spoilt>>

(* CommitDone and RollbackDone, deferred too: the append may have failed.   *)
EndDone(p) ==
  /\ pc[p] = "mark" /\ stage[p] = "handled" /\ kind[p] \in {"commit", "rollback"}
  /\ session' = [session EXCEPT ![SessionOf(p)].state =
                   IF kind[p] = "commit" THEN "committed" ELSE "rollbacked"]
  /\ stage' = [stage EXCEPT ![p] = "done"]
  /\ UNCHANGED <<vars, sessions, closed, kind, begun, content, panicked, spoilt>>

MarkMessage(p) ==
  /\ stage[p] = "done"
  /\ MarkAcker(p)
  /\ UNCHANGED txnVars

(* The append result carries the context of a new transaction.              *)
Answered(p) == kind[p] = "begin" /\ ~detail[acker[p]].err

(* The acknowledgement, and the answer to the client.                       *)
AckMessage(p) ==
  /\ AckAcker(p, OverAt(lastConfirmedTimeTick'))
  /\ begun' = IF Answered(p) THEN begun \cup {SessionOf(p)} ELSE begun
  /\ kind' = [kind EXCEPT ![p] = "none"]
  /\ stage' = [stage EXCEPT ![p] = "none"]
  /\ UNCHANGED <<session, sessions, closed, content, panicked, spoilt>>

-----------------------------------------------------------------------------
(* The sync goroutine, and the life of the WAL. *)

Untouched(A) == A /\ UNCHANGED txnVars

(* The time tick goes through DoAppend, which first cleans up the sessions, *)
(* unless the WAL is shutting down and refuses it before.                   *)
SendTimeTick ==
  /\ SendPersistentTsMsg \/ SendNoPersistentTsMsg
  /\ \/ \E ts \in ackDetails : IsLastAllAcknowledged(ts) /\ CleanupTxnUntil(ts)
     \/ wal' = wal /\ ackDetails' # {} /\ UNCHANGED txnVars

(* TxnManager.GracefulClose: no transaction begins from now on.  The WAL is *)
(* closed next, so the bound on closings is the bound of Crash.             *)
GracefulClose ==
  /\ ready
  /\ ~closed
  /\ crashes < MaxCrashes
  /\ closed' = TRUE
  /\ UNCHANGED <<vars, session, sessions, kind, stage, begun, content, panicked, spoilt>>

(* Nothing of the sessions survives the WAL, or the node.                   *)
LoseSessions ==
  /\ Crash
  /\ session' = [s \in Sessions |->
                   IF session[s].state = "none" THEN session[s]
                   ELSE [NoTxnSession EXCEPT !.state = "rollbacked"]]
  /\ sessions' = {}
  /\ closed' = FALSE
  /\ kind' = [p \in Appenders |-> "none"]
  /\ stage' = [p \in Appenders |-> "none"]
  /\ begun' = {}
  /\ UNCHANGED <<content, spoilt>>

CloseWAL == LoseSessions /\ UNCHANGED panicked

(* handleBegin when BeginNewTxn fails, because the manager is closed or the *)
(* id allocator fails (where MaxFailures allows failures): BeginRollback is *)
(* called on the nil session that came with the error.                      *)
BeginPanics(p) ==
  /\ Handles(p, {"begin"})
  /\ closed \/ MaxFailures > 0
  /\ LoseSessions
  /\ panicked' = TRUE

TxnInit ==
  /\ Init
  /\ session = [s \in Sessions |-> NoTxnSession]
  /\ sessions = {}
  /\ closed = FALSE
  /\ kind = [p \in Appenders |-> "none"]
  /\ stage = [p \in Appenders |-> "none"]
  /\ begun = {}
  /\ content = << >>
  /\ panicked = FALSE
  /\ spoilt = {}

TxnAppendStep(p) ==
  \/ \E barrier \in Barriers \cup {0}, k \in {"auto", "begin", "body", "commit", "rollback"},
        s \in Sessions \cup {NoSession} : StartMessage(p, barrier, k, s)
  \/ GiveUpMessage(p)
  \/ AllocateMessage(p)
  \/ HandleBegin(p)
  \/ BeginPanics(p)
  \/ HandleTxnMessage(p)
  \/ RequestDone(p)
  \/ Refuse(p)
  \/ WaitDone(p)
  \/ WaitCancelled(p)
  \/ WriteMessage(p)
  \/ BodyFailed(p)
  \/ BodyDone(p)
  \/ EndDone(p)
  \/ MarkMessage(p)
  \/ AckMessage(p)

TxnSyncStep ==
  \/ Untouched(SyncAllocate)
  \/ Untouched(SyncAllocateFail)
  \/ Untouched(SyncMark)
  \/ Untouched(SyncAck(OverAt(lastConfirmedTimeTick')))
  \/ Untouched(SyncTake)
  \/ SendTimeTick
  \/ Untouched(NotifyPersisted)

TxnNext ==
  \/ \E p \in Appenders : TxnAppendStep(p)
  \/ TxnSyncStep
  \/ Untouched(FirstTimeTick)
  \/ GracefulClose
  \/ CloseWAL

TxnSpec == TxnInit /\ [][TxnNext]_<<vars, txnVars>>

(* A goroutine that is inside DoAppend goes on: the log answers, and the    *)
(* deferred calls run.  No context has to end for that.                     *)
Goroutines ==
  \A p \in Appenders :
    WF_<<vars, txnVars>>(HandleTxnMessage(p) \/ WriteMessage(p) \/ BodyFailed(p) \/ BodyDone(p)
                         \/ WaitDone(p))

-----------------------------------------------------------------------------
(* Properties. *)

(* Every variable has its type, TimeTick's included; the count in flight is  *)
(* an Int because AddNewMessageFail and the call after it both lower it.    *)
TxnTypeOK ==
  /\ TypeOK
  /\ session \in [Sessions -> [state : {"none", "inflight", "oncommit", "onrollback", "committed",
                                        "rollbacked"},
                               lastTimetick : Nat, expired : BOOLEAN, inFlightCount : Int,
                               doneWait : {"nil", "open", "closed"}]]
  /\ sessions \subseteq Sessions /\ begun \subseteq Sessions /\ spoilt \subseteq Sessions
  /\ closed \in BOOLEAN /\ panicked \in BOOLEAN
  /\ kind \in [Appenders -> {"none", "auto", "begin", "body", "commit", "rollback"}]
  /\ stage \in [Appenders -> {"none", "waiting", "handled", "failed", "done"}]
  /\ DOMAIN content \subseteq Nat

InFlight(p, s) ==
  kind[p] = "body" /\ SessionOf(p) = s /\ stage[p] = "handled" /\ pc[p] = "append"

(* RequestCommitAndWait "waits for the all messages sent": when a commit or *)
(* rollback is written, no message of its transaction is still on its way   *)
(* to the log.  (A body message that failed has lowered the count twice,    *)
(* see InFlightExact; nothing is claimed of its transaction any more.)      *)
CommitWaits ==
  \A p, q \in Appenders :
    kind[p] \in {"commit", "rollback"} /\ stage[p] = "handled" /\ SessionOf(p) \notin spoilt
      => ~InFlight(q, SessionOf(p))

(* TxnSession.inFlightCount "is in flight count of the session": it counts  *)
(* the messages between AddNewMessage and the deferred call that ends them. *)
InFlightExact ==
  \A s \in Sessions :
    session[s].inFlightCount =
      Cardinality({p \in Appenders : kind[p] = "body" /\ SessionOf(p) = s /\ stage[p] = "handled"})

(* The panics of CommitDone and RollbackDone are "unreachable code": of all *)
(* commits and rollbacks of a transaction one at most gets through, even    *)
(* when appends fail, contexts end and sessions expire.                     *)
EndsOnce ==
  \A p \in Appenders :
    stage[p] = "handled" =>
      /\ kind[p] = "commit" => session[SessionOf(p)].state = "oncommit"
      /\ kind[p] = "rollback" => session[SessionOf(p)].state = "onrollback"

(* RegisterCleanup's panic is unreachable, as its message says: a session   *)
(* that let a message in is neither over for it nor forgotten by the        *)
(* manager while the message goes through the other interceptors, unless an *)
(* earlier message of it failed and was counted twice.                      *)
CleanupRegistrable ==
  \A p \in Appenders, s \in Sessions \ spoilt :
    InFlight(p, s) => s \in sessions /\ ~IsExpiredOrDone(s, acker[p])

(* A session that is over for the confirmed time tick stays so: no message  *)
(* can refresh the lease once updateLastConfirmedMessageID has counted on   *)
(* it and CleanupTxnUntil may have dropped it.                              *)
OverForGood ==
  [][ready /\ ready' => OverAt(lastConfirmedTimeTick) \subseteq OverAt(lastConfirmedTimeTick)']_<<vars, txnVars>>

(* A commit or rollback that waits is answered once the messages in flight  *)
(* are done, without its context having to end, unless one of them fails.   *)
CommitReturns ==
  \A p \in Appenders : stage[p] = "waiting" ~> stage[p] # "waiting" \/ SessionOf(p) \in spoilt

(* The comment on WithLastConfirmed in DoAppend, for transactions: a        *)
(* consumer that starts at the last confirmed id of a message misses        *)
(* nothing of a transaction that commits after that message's time tick.    *)
CommittedTxnKept ==
  \A m, c, i \in 1 .. Len(wal) :
    /\ wal[c].type = "msg" /\ content[wal[c].tt].kind = "commit"
    /\ wal[i].type = "msg" /\ content[wal[i].tt].session = content[wal[c].tt].session
    /\ wal[c].tt > wal[m].tt
    => i >= wal[m].lastConfirmed

(* With its sessions the WAL still behaves as TimeTick says: the handlers   *)
(* and deferred calls change none of its steps, and what they refuse is     *)
(* acknowledged all the same.                                               *)
ImplementsTimeTick == Spec

(* "The manager is on graceful shutdown. Avoid creating new transactions":  *)
(* the begin is refused with an error and the node goes on.                 *)
NeverPanics == ~panicked

=============================================================================
