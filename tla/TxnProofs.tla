------------------------------ MODULE TxnProofs ------------------------------
(***************************************************************************)
(* A WAL with transactions implements TimeTick, so what is proved of       *)
(* TimeTick holds of it; and its sessions keep their own inductive         *)
(* invariant, on top of TimeTick's.                                        *)
(***************************************************************************)
EXTENDS Txn, TimeTickProofs

-----------------------------------------------------------------------------
(* The inductive invariant of the sessions, and of the messages that use     *)
(* them.                                                                    *)

TxnSessionType ==
  [state : {"none", "inflight", "oncommit", "onrollback", "committed", "rollbacked"},
   lastTimetick : Nat, expired : BOOLEAN, inFlightCount : Int,
   doneWait : {"nil", "open", "closed"}]

(* Where a message is when its handlers and deferred calls run.              *)
Stages ==
  \A p \in Appenders :
    /\ stage[p] # "none" => Holds(p)
    /\ pc[p] = "ack" => stage[p] = "done"
    /\ stage[p] = "waiting" => pc[p] = "append" /\ kind[p] \in {"commit", "rollback"}
    /\ kind[p] \in {"begin", "body", "commit", "rollback"} => SessionOf(p) \in Sessions

(* A session that a begin message is to open is new, and nobody else's.      *)
Begins ==
  \A p \in Appenders : kind[p] = "begin" =>
    /\ stage[p] = "none" => session[SessionOf(p)].state = "none"
    /\ \A q \in Appenders : q # p /\ kind[q] = "begin" => SessionOf(q) # SessionOf(p)

(* A commit or rollback that was let in is the only one of its session.      *)
Ending(p) == kind[p] \in {"commit", "rollback"} /\ stage[p] \in {"waiting", "handled"}
Endings ==
  \A p \in Appenders : Ending(p) =>
    /\ session[SessionOf(p)].state = IF kind[p] = "commit" THEN "oncommit" ELSE "onrollback"
    /\ \A q \in Appenders : q # p /\ Ending(q) => SessionOf(q) # SessionOf(p)

(* A body message that was let in is within the lease of its session.        *)
Going(p) == kind[p] = "body" /\ stage[p] \in {"handled", "failed"}
Leases ==
  \A p \in Appenders : Going(p) =>
    /\ session[SessionOf(p)].state # "none"
    /\ acker[p] < expiredTimeTick(SessionOf(p))

TxnInv == TxnTypeOK /\ Stages /\ Begins /\ Endings /\ Leases

(* A body message whose append failed is taken off the count twice, so the  *)
(* count of its transaction means nothing any more: it is spoilt.            *)
Spoils == \A p \in Appenders : kind[p] = "body" /\ stage[p] = "failed" => SessionOf(p) \in spoilt

(* Of the other transactions the count is exact, so the channel is closed,   *)
(* and the session done, only when no body message is under way.             *)
Bodies(s) == {p \in Appenders : kind[p] = "body" /\ SessionOf(p) = s /\ stage[p] = "handled"}
Exact == \A s \in Sessions \ spoilt : session[s].inFlightCount = Cardinality(Bodies(s))
WaitsFor(s) ==
  /\ session[s].doneWait # "nil" => session[s].state \notin {"none", "inflight"}
  /\ session[s].doneWait = "closed" => session[s].inFlightCount = 0
  /\ session[s].state \in {"none", "committed", "rollbacked"} => session[s].inFlightCount = 0
Waits == \A s \in Sessions \ spoilt : WaitsFor(s)
Waited ==
  \A p \in Appenders : Ending(p) /\ stage[p] = "handled" => session[SessionOf(p)].doneWait = "closed"
Registered ==
  \A p \in Appenders : Going(p) /\ pc[p] = "append" /\ SessionOf(p) \notin spoilt => SessionOf(p) \in sessions

ExactInv == Spoils /\ Exact /\ Waits /\ Waited /\ Registered

-----------------------------------------------------------------------------
(* Frames. *)

(* What the steps below need of the types, without unfolding them.           *)
TxnFunctions ==
  /\ pc \in [Appenders -> {"idle", "allocate", "append", "mark", "ack"}]
  /\ DOMAIN request = Appenders
  /\ acker \in [Appenders -> Nat]
  /\ kind \in [Appenders -> {"none", "auto", "begin", "body", "commit", "rollback"}]
  /\ stage \in [Appenders -> {"none", "waiting", "handled", "failed", "done"}]
  /\ session \in [Sessions -> TxnSessionType]
  /\ \A p \in Appenders : SessionOf(p) \in Sessions \cup {NoSession}

(* They follow from the type invariant.                                      *)
LEMMA TxnTyped ==
  ASSUME TxnTypeOK
  PROVE  TxnFunctions
BY Zenon DEF TxnTypeOK, TypeOK, TxnFunctions, TxnSessionType, SessionOf

(* Steps of the sync goroutine and of the WAL touch no message and no        *)
(* session; the manager may forget sessions.                                 *)
Quiet ==
  /\ UNCHANGED <<session, kind, stage, begun, content, panicked, spoilt, pc, request, acker>>
  /\ sessions' \subseteq sessions
LEMMA QuietSteps ==
  ASSUME TxnSyncStep \/ Untouched(FirstTimeTick) \/ GracefulClose \/ UNCHANGED <<vars, txnVars>>
  PROVE  Quiet
<1> USE DEF Quiet, txnVars, sessionVars, appenderVars
<1>1. CASE Untouched(SyncAllocate) \/ Untouched(SyncAllocateFail) \/ Untouched(SyncMark)
  BY Zenon, <1>1 DEF Untouched, SyncAllocate, SyncAllocateFail, SyncMark
<1>2. CASE Untouched(SyncAck(OverAt(lastConfirmedTimeTick')))
  BY <1>2 DEF Untouched, SyncAck
<1>3. CASE Untouched(SyncTake) \/ Untouched(NotifyPersisted) \/ Untouched(FirstTimeTick)
  BY <1>3 DEF Untouched, SyncTake, NotifyPersisted, FirstTimeTick
<1>4. CASE SendTimeTick
  BY <1>4 DEF SendTimeTick, SendPersistentTsMsg, SendNoPersistentTsMsg, CleanupTxnUntil
<1>5. CASE GracefulClose \/ UNCHANGED <<vars, txnVars>>
  BY <1>5 DEF GracefulClose, vars
<1>6. QED  BY <1>1, <1>2, <1>3, <1>4, <1>5 DEF TxnSyncStep

(* A step of one message leaves the other messages where they are.           *)
OthersKeep(p) ==
  \A q \in Appenders : q # p =>
    /\ pc'[q] = pc[q] /\ request'[q] = request[q] /\ acker'[q] = acker[q]
    /\ kind'[q] = kind[q] /\ stage'[q] = stage[q]
LEMMA MessagesKeep ==
  ASSUME TxnFunctions, NEW p \in Appenders, TxnAppendStep(p)
  PROVE  OthersKeep(p) \/ LoseSessions
<1> USE DEF OthersKeep, TxnFunctions, vars, appenderVars, txnVars, sessionVars
<1>1. ASSUME NEW barrier, NEW k, NEW s, StartMessage(p, barrier, k, s)
      PROVE  OthersKeep(p)
  BY <1>1 DEF StartMessage, StartAppend
<1>2. CASE GiveUpMessage(p) \/ AllocateMessage(p)
  BY <1>2 DEF GiveUpMessage, GiveUp, AllocateMessage, AllocateAcker
<1>3. CASE HandleBegin(p) \/ HandleTxnMessage(p) \/ RequestDone(p) \/ WaitDone(p)
  BY <1>3 DEF HandleBegin, HandleTxnMessage, RequestDone, WaitDone
<1>4. CASE Refuse(p) \/ WaitCancelled(p) \/ WriteMessage(p)
  <2>1. /\ pc' = [pc EXCEPT ![p] = "mark"] /\ UNCHANGED <<request, acker, kind>>
        /\ \A q \in Appenders : q # p => stage'[q] = stage[q]
    BY Zenon, <1>4 DEF Refuse, WaitCancelled, WriteMessage, ReturnError, AppendMsg
  <2>2. QED  BY <2>1
<1>5. CASE BodyFailed(p) \/ BodyDone(p) \/ EndDone(p) \/ MarkMessage(p)
  BY Zenon, <1>5 DEF BodyFailed, BodyDone, EndDone, MarkMessage, MarkAcker
<1>6. CASE AckMessage(p)
  BY <1>6 DEF AckMessage, AckAcker
<1>7. CASE BeginPanics(p)
  BY <1>7 DEF BeginPanics
<1>8. QED  BY Zenon, <1>1, <1>2, <1>3, <1>4, <1>5, <1>6, <1>7 DEF TxnAppendStep

(* A step that is no begin, no body message's and no ending leaves the       *)
(* sessions alone, but for the flag a refusal sets.                          *)
Flagged == \A s \in Sessions : \/ session'[s] = session[s]
                               \/ session'[s] = [session[s] EXCEPT !.expired = TRUE]
Plain(p) ==
  \/ \E barrier \in Barriers \cup {0}, k \in {"auto", "begin", "body", "commit", "rollback"},
        s \in Sessions \cup {NoSession} : StartMessage(p, barrier, k, s)
  \/ GiveUpMessage(p) \/ AllocateMessage(p) \/ Refuse(p) \/ WaitDone(p) \/ WaitCancelled(p)
  \/ WriteMessage(p) \/ MarkMessage(p) \/ AckMessage(p)
LEMMA PlainKeeps ==
  ASSUME TxnFunctions, NEW p \in Appenders, Plain(p)
  PROVE  Flagged
<1>1. CASE ~Refuse(p)
  <2>1. session' = session
    BY <1>1 DEF Plain, StartMessage, GiveUpMessage, AllocateMessage, WaitDone, WaitCancelled,
       WriteMessage, MarkMessage, AckMessage, txnVars, sessionVars
  <2>2. QED  BY <2>1 DEF Flagged
<1>2. CASE Refuse(p)
  BY Zenon, <1>2 DEF Refuse, TxnFunctions, Flagged
<1>3. QED  BY <1>1, <1>2

(* A session whose fields change within their types is a session.            *)
LEMMA SessionFields ==
  ASSUME NEW x \in TxnSessionType
  PROVE  /\ \A v \in {"inflight", "oncommit", "onrollback", "committed", "rollbacked"} :
              [x EXCEPT !.state = v] \in TxnSessionType
         /\ \A v \in Nat : [x EXCEPT !.lastTimetick = v] \in TxnSessionType
         /\ [x EXCEPT !.expired = TRUE] \in TxnSessionType
         /\ \A v \in Int : [x EXCEPT !.inFlightCount = v] \in TxnSessionType
         /\ \A v \in {"nil", "open", "closed"} : [x EXCEPT !.doneWait = v] \in TxnSessionType
         /\ x.lastTimetick \in Nat /\ x.inFlightCount \in Int
         /\ x.doneWait \in {"nil", "open", "closed"}
<1>1. \A v \in {"inflight", "oncommit", "onrollback", "committed", "rollbacked"} :
        [x EXCEPT !.state = v] \in TxnSessionType
  BY Zenon DEF TxnSessionType
<1>2. \A v \in Nat : [x EXCEPT !.lastTimetick = v] \in TxnSessionType
  BY Zenon DEF TxnSessionType
<1>3. [x EXCEPT !.expired = TRUE] \in TxnSessionType
  BY Zenon DEF TxnSessionType
<1>4. \A v \in Int : [x EXCEPT !.inFlightCount = v] \in TxnSessionType
  BY Zenon DEF TxnSessionType
<1>5. \A v \in {"nil", "open", "closed"} : [x EXCEPT !.doneWait = v] \in TxnSessionType
  BY Zenon DEF TxnSessionType
<1>6. QED  BY <1>1, <1>2, <1>3, <1>4, <1>5 DEF TxnSessionType

(* So is the new one, one with a message less in flight, one refreshed.      *)
LEMMA SessionValues ==
  /\ NoTxnSession \in TxnSessionType
  /\ \A x \in TxnSessionType : OneLess(x) \in TxnSessionType
  /\ \A x \in TxnSessionType, tt \in Nat : Refreshed(x, tt) \in TxnSessionType
<1>1. NoTxnSession \in TxnSessionType
  <2>1. 0 \in Nat /\ 0 \in Int
    OBVIOUS
  <2>2. QED  BY Zenon, <2>1 DEF NoTxnSession, TxnSessionType
<1>2. ASSUME NEW x \in TxnSessionType
      PROVE  OneLess(x) \in TxnSessionType
  <2>0. x.inFlightCount \in Int /\ x.doneWait \in {"nil", "open", "closed"}
    BY Zenon, SessionFields
  <2>1. x.inFlightCount - 1 \in Int
    BY <2>0
  <2>2. PICK d \in {"nil", "open", "closed"} :
          d = IF x.doneWait # "nil" /\ x.inFlightCount = 1 THEN "closed" ELSE x.doneWait
    BY <2>0
  <2> DEFINE y == [x EXCEPT !.inFlightCount = x.inFlightCount - 1]
  <2>3. OneLess(x) = [y EXCEPT !.doneWait = d]
    BY <2>2 DEF OneLess, TxnSessionType
  <2>4. y \in TxnSessionType
    BY Zenon, <2>1, SessionFields
  <2> HIDE DEF y
  <2>5. QED  BY Zenon, <2>3, <2>4, SessionFields
<1>3. ASSUME NEW x \in TxnSessionType, NEW tt \in Nat
      PROVE  Refreshed(x, tt) \in TxnSessionType
  <2>1. PICK v \in Nat : v = IF x.lastTimetick < tt THEN tt ELSE x.lastTimetick
    BY DEF TxnSessionType
  <2>2. Refreshed(x, tt) = [x EXCEPT !.lastTimetick = v]
    BY Zenon, <2>1 DEF Refreshed
  <2>3. QED  BY ZenonT(30), <2>2, SessionFields
<1>4. QED  BY <1>1, <1>2, <1>3

(* The types hold after a step of a message.                                 *)
LEMMA SessionTypesStep ==
  ASSUME TxnFunctions, Stages, NEW p \in Appenders, TxnAppendStep(p)
  PROVE  session' \in [Sessions -> TxnSessionType]
<1> DEFINE S == SessionOf(p)
<1>1. ASSUME NEW s \in Sessions
      PROVE  /\ session[s] \in TxnSessionType
             /\ [session[s] EXCEPT !.expired = TRUE] \in TxnSessionType
             /\ [session[s] EXCEPT !.inFlightCount = @ + 1] \in TxnSessionType
             /\ OneLess(session[s]) \in TxnSessionType
  <2>1. session[s] \in TxnSessionType
    BY DEF TxnFunctions
  <2>2. session[s].inFlightCount + 1 \in Int
    <3>1. session[s].inFlightCount \in Int
      BY <2>1 DEF TxnSessionType
    <3>2. QED  BY <3>1
  <2>3. /\ [session[s] EXCEPT !.expired = TRUE] \in TxnSessionType
        /\ [session[s] EXCEPT !.inFlightCount = session[s].inFlightCount + 1] \in TxnSessionType
    BY Zenon, <2>1, <2>2, SessionFields
  <2>4. QED  BY Zenon, <2>1, <2>3, SessionValues
<1>2. CASE Plain(p)
  <2>1. DOMAIN session' = Sessions
    <3>1. CASE Refuse(p)
      BY Zenon, <3>1 DEF Refuse, TxnFunctions
    <3>2. CASE ~Refuse(p)
      BY <3>2, <1>2
         DEF Plain, StartMessage, GiveUpMessage, AllocateMessage, WaitDone, WaitCancelled,
         WriteMessage, MarkMessage, AckMessage, txnVars, sessionVars, TxnFunctions
    <3>3. QED  BY <3>1, <3>2
  <2>2. session' = [s \in Sessions |-> session'[s]]
    <3>1. CASE Refuse(p)
      BY Zenon, <3>1 DEF Refuse, TxnFunctions
    <3>2. CASE ~Refuse(p)
      BY SMTT(20), <3>2, <1>2
         DEF Plain, StartMessage, GiveUpMessage, AllocateMessage, WaitDone, WaitCancelled,
         WriteMessage, MarkMessage, AckMessage, txnVars, sessionVars, TxnFunctions
    <3>3. QED  BY <3>1, <3>2
  <2>3. \A s \in Sessions : session'[s] \in TxnSessionType
    BY Zenon, <1>1, <1>2, PlainKeeps DEF Flagged
  <2>4. QED  BY <2>2, <2>3
<1>3. CASE HandleBegin(p)
  <2>1. [NoTxnSession EXCEPT !.state = "inflight", !.lastTimetick = acker[p]] \in TxnSessionType
    <3> DEFINE x == [NoTxnSession EXCEPT !.state = "inflight"]
    <3>1. acker[p] \in Nat
      BY DEF TxnFunctions
    <3>2. x \in TxnSessionType
      BY Zenon, SessionFields, SessionValues
    <3>3. [x EXCEPT !.lastTimetick = acker[p]] \in TxnSessionType
      <4> HIDE DEF x
      <4>1. QED  BY Zenon, <3>1, <3>2, SessionFields
    <3>4. QED  BY <3>3
  <2>2. S \in Sessions
    BY <1>3 DEF HandleBegin, Handles, Stages
  <2>3. QED  BY <1>3, <2>1, <2>2 DEF HandleBegin, TxnFunctions
<1>4. CASE HandleTxnMessage(p)
  <2>1. S \in Sessions
    BY <1>4 DEF HandleTxnMessage, Handles, Stages
  <2>2. session' = [session EXCEPT ![S] = [session[S] EXCEPT !.inFlightCount = @ + 1]]
    BY <1>4 DEF HandleTxnMessage
  <2>3. QED  BY Zenon, <1>1, <2>1, <2>2 DEF TxnFunctions
<1>5. CASE RequestDone(p)
  <2>1. S \in Sessions
    BY <1>5 DEF RequestDone, Handles, Stages
  <2>2. \A x, y : x \in {"oncommit", "onrollback"} /\ y \in {"closed", "open"} =>
          [[session[S] EXCEPT !.state = x] EXCEPT !.doneWait = y] \in TxnSessionType
    BY Zenon, <1>1, <2>1 DEF TxnSessionType
  <2>3. PICK x \in {"oncommit", "onrollback"}, y \in {"closed", "open"} :
          session' = [session EXCEPT ![S] = [[session[S] EXCEPT !.state = x] EXCEPT !.doneWait = y]]
    BY Zenon, <1>5, <2>1 DEF RequestDone, getDoneChan, doneChan, TxnFunctions
  <2>4. QED  BY Zenon, <2>1, <2>2, <2>3 DEF TxnFunctions
<1>6. CASE BodyFailed(p)
  <2>1. S \in Sessions
    BY <1>6 DEF BodyFailed, Stages
  <2>2. session' = [session EXCEPT ![S] = OneLess(session[S])]
    BY Zenon, <1>6 DEF BodyFailed, AddNewMessageFail
  <2>3. QED  BY Zenon, <1>1, <2>1, <2>2 DEF TxnFunctions
<1>7. CASE BodyDone(p)
  <2>1. S \in Sessions /\ acker[p] \in Nat
    BY <1>7 DEF BodyDone, Stages, TxnFunctions
  <2>2. session' = [session EXCEPT ![S] = Refreshed(OneLess(session[S]), acker[p])]
    BY <1>7 DEF BodyDone, AddNewMessageDoneAndKeepalive
  <2>3. Refreshed(OneLess(session[S]), acker[p]) \in TxnSessionType
    BY Zenon, <1>1, <2>1, SessionValues
  <2>4. QED  BY <2>1, <2>2, <2>3 DEF TxnFunctions
<1>8. CASE EndDone(p)
  <2>1. S \in Sessions
    BY <1>8 DEF EndDone, Stages
  <2>2. \A x \in {"committed", "rollbacked"} : [session[S] EXCEPT !.state = x] \in TxnSessionType
    BY Zenon, <1>1, <2>1 DEF TxnSessionType
  <2>3. PICK x \in {"committed", "rollbacked"} :
          session' = [session EXCEPT ![S] = [session[S] EXCEPT !.state = x]]
    BY Zenon, <1>8 DEF EndDone
  <2>4. QED  BY <2>1, <2>2, <2>3 DEF TxnFunctions
<1>9. CASE LoseSessions
  <2>1. [NoTxnSession EXCEPT !.state = "rollbacked"] \in TxnSessionType
    BY Zenon, SessionFields, SessionValues
  <2>2. QED  BY Zenon, <1>1, <1>9, <2>1 DEF LoseSessions
<1>10. QED  BY <1>2, <1>3, <1>4, <1>5, <1>6, <1>7, <1>8, <1>9 DEF TxnAppendStep, Plain, BeginPanics

(* What each step does to the session of its message, field by field.        *)
Becomes(s, state, lastTimetick, count, doneWait) ==
  /\ s \in Sessions
  /\ \A t \in Sessions : t # s => session'[t] = session[t]
  /\ session'[s].state = state
  /\ session'[s].lastTimetick = lastTimetick
  /\ session'[s].inFlightCount = count
  /\ session'[s].doneWait = doneWait
SameSessions ==
  \A s \in Sessions :
    /\ session'[s].state = session[s].state
    /\ session'[s].lastTimetick = session[s].lastTimetick
    /\ session'[s].inFlightCount = session[s].inFlightCount
    /\ session'[s].doneWait = session[s].doneWait
Less(x) == IF x.doneWait # "nil" /\ x.inFlightCount = 1 THEN "closed" ELSE x.doneWait
Later(x, tt) == IF x.lastTimetick < tt THEN tt ELSE x.lastTimetick
LEMMA SessionSteps ==
  ASSUME TxnFunctions, Stages, NEW p \in Appenders
  PROVE  LET S == SessionOf(p)
             x == session[S]
         IN /\ Plain(p) => SameSessions
            /\ HandleBegin(p) => Becomes(S, "inflight", acker[p], 0, "nil")
            /\ HandleTxnMessage(p) =>
                 Becomes(S, "inflight", x.lastTimetick, x.inFlightCount + 1, x.doneWait)
            /\ RequestDone(p) =>
                 Becomes(S, IF kind[p] = "commit" THEN "oncommit" ELSE "onrollback", x.lastTimetick,
                         x.inFlightCount, IF x.inFlightCount = 0 THEN "closed" ELSE "open")
            /\ BodyFailed(p) => Becomes(S, x.state, x.lastTimetick, x.inFlightCount - 1, Less(x))
            /\ BodyDone(p) => Becomes(S, x.state, Later(x, acker[p]), x.inFlightCount - 1, Less(x))
            /\ EndDone(p) =>
                 Becomes(S, IF kind[p] = "commit" THEN "committed" ELSE "rollbacked", x.lastTimetick,
                         x.inFlightCount, x.doneWait)
<1> DEFINE S == SessionOf(p)
           x == session[S]
<1>0. \A s \in Sessions : session[s] \in TxnSessionType
  BY DEF TxnFunctions
<1>1. ASSUME Plain(p) PROVE SameSessions
  BY ZenonT(30), <1>0, <1>1, PlainKeeps DEF Flagged, SameSessions, TxnSessionType
<1>2. ASSUME HandleBegin(p) PROVE Becomes(S, "inflight", acker[p], 0, "nil")
  <2>1. S \in Sessions
    BY <1>2 DEF HandleBegin, Handles, Stages
  <2>2. session'[S] = [NoTxnSession EXCEPT !.state = "inflight", !.lastTimetick = acker[p]]
    BY <1>2, <2>1 DEF HandleBegin, TxnFunctions
  <2>3. \A t \in Sessions : t # S => session'[t] = session[t]
    BY <1>2 DEF HandleBegin, TxnFunctions
  <2>4. QED  BY <2>1, <2>2, <2>3 DEF Becomes, NoTxnSession
<1>3. ASSUME HandleTxnMessage(p)
      PROVE  Becomes(S, "inflight", x.lastTimetick, x.inFlightCount + 1, x.doneWait)
  <2>1. S \in Sessions /\ x.state = "inflight"
    BY <1>3 DEF HandleTxnMessage, Handles, Stages, Accepted
  <2>2. session'[S] = [x EXCEPT !.inFlightCount = x.inFlightCount + 1]
    BY <1>3, <2>1 DEF HandleTxnMessage, TxnFunctions
  <2>3. \A t \in Sessions : t # S => session'[t] = session[t]
    BY <1>3 DEF HandleTxnMessage, TxnFunctions
  <2>4. QED  BY <1>0, <2>1, <2>2, <2>3 DEF Becomes, TxnSessionType
<1>4. ASSUME RequestDone(p)
      PROVE  Becomes(S, IF kind[p] = "commit" THEN "oncommit" ELSE "onrollback", x.lastTimetick,
                     x.inFlightCount, IF x.inFlightCount = 0 THEN "closed" ELSE "open")
  <2> DEFINE st == IF kind[p] = "commit" THEN "oncommit" ELSE "onrollback"
             d == IF x.inFlightCount = 0 THEN "closed" ELSE "open"
  <2>1. S \in Sessions
    BY <1>4 DEF RequestDone, Handles, Stages
  <2>2. session'[S] = [[x EXCEPT !.state = st] EXCEPT !.doneWait = d]
    BY <1>4, <2>1 DEF RequestDone, TxnFunctions, getDoneChan, doneChan
  <2>3. \A t \in Sessions : t # S => session'[t] = session[t]
    BY <1>4 DEF RequestDone, TxnFunctions, getDoneChan
  <2> HIDE DEF st, d
  <2>4. Becomes(S, st, x.lastTimetick, x.inFlightCount, d)
    BY <1>0, <2>1, <2>2, <2>3 DEF Becomes, TxnSessionType
  <2>5. QED  BY <2>4 DEF st, d
<1>5. ASSUME NEW s \in Sessions
      PROVE  LET y == session[s] IN
             /\ OneLess(y).state = y.state /\ OneLess(y).lastTimetick = y.lastTimetick
             /\ OneLess(y).inFlightCount = y.inFlightCount - 1 /\ OneLess(y).doneWait = Less(y)
  BY <1>0 DEF OneLess, Less, TxnSessionType
<1>6. ASSUME BodyFailed(p)
      PROVE  Becomes(S, x.state, x.lastTimetick, x.inFlightCount - 1, Less(x))
  <2>1. S \in Sessions
    BY Zenon, <1>6 DEF BodyFailed, Stages
  <2>2. session'[S] = OneLess(x) /\ \A t \in Sessions : t # S => session'[t] = session[t]
    BY Zenon, <1>6, <2>1 DEF BodyFailed, AddNewMessageFail, TxnFunctions
  <2>3. QED  BY <1>5, <2>1, <2>2 DEF Becomes
<1>7. ASSUME BodyDone(p)
      PROVE  Becomes(S, x.state, Later(x, acker[p]), x.inFlightCount - 1, Less(x))
  <2>1. S \in Sessions
    BY <1>7 DEF BodyDone, Stages
  <2>2. /\ session'[S] = Refreshed(OneLess(x), acker[p])
        /\ \A t \in Sessions : t # S => session'[t] = session[t]
    BY <1>7, <2>1 DEF BodyDone, AddNewMessageDoneAndKeepalive, TxnFunctions
  <2>3. \A y \in TxnSessionType :
          /\ Refreshed(y, acker[p]).state = y.state
          /\ Refreshed(y, acker[p]).lastTimetick = Later(y, acker[p])
          /\ Refreshed(y, acker[p]).inFlightCount = y.inFlightCount
          /\ Refreshed(y, acker[p]).doneWait = y.doneWait
    BY DEF Refreshed, Later, TxnSessionType
  <2>4. OneLess(x) \in TxnSessionType
    BY <1>0, <2>1, SessionValues
  <2>5. Later(OneLess(x), acker[p]) = Later(x, acker[p])
    BY <1>5, <2>1 DEF Later
  <2>6. QED  BY <1>5, <2>1, <2>2, <2>3, <2>4, <2>5 DEF Becomes
<1>8. ASSUME EndDone(p)
      PROVE  Becomes(S, IF kind[p] = "commit" THEN "committed" ELSE "rollbacked", x.lastTimetick,
                     x.inFlightCount, x.doneWait)
  <2> DEFINE st == IF kind[p] = "commit" THEN "committed" ELSE "rollbacked"
  <2>1. S \in Sessions
    BY <1>8 DEF EndDone, Stages
  <2>2. session'[S] = [x EXCEPT !.state = st] /\ \A t \in Sessions : t # S => session'[t] = session[t]
    BY <1>8, <2>1 DEF EndDone, TxnFunctions
  <2> HIDE DEF st
  <2>3. Becomes(S, st, x.lastTimetick, x.inFlightCount, x.doneWait)
    BY <1>0, <2>1, <2>2 DEF Becomes, TxnSessionType
  <2>4. QED  BY <2>3 DEF st
<1>9. QED  BY Zenon, <1>1, <1>2, <1>3, <1>4, <1>6, <1>7, <1>8

(* A closed WAL forgets its messages, and keeps no session but new ones.     *)
LEMMA LostKeeps ==
  ASSUME LoseSessions
  PROVE  Stages' /\ Begins' /\ Endings' /\ Leases'
<1>1. \A p \in Appenders : kind'[p] = "none" /\ stage'[p] = "none" /\ pc'[p] = "idle"
  BY DEF LoseSessions, Crash
<1>2. QED  BY <1>1 DEF Stages, Begins, Endings, Leases, Ending, Going

(* The types hold after every step.                                          *)
LEMMA TxnTypesStep ==
  ASSUME TxnTypeOK, Stages, TypeOK', [TxnNext]_<<vars, txnVars>>
  PROVE  TxnTypeOK'
<1> DEFINE Kinds == {"none", "auto", "begin", "body", "commit", "rollback"}
           Places == {"none", "waiting", "handled", "failed", "done"}
<1>0. TxnFunctions
  BY TxnTyped
<1>1. /\ kind \in [Appenders -> Kinds] /\ stage \in [Appenders -> Places]
      /\ sessions \subseteq Sessions /\ begun \subseteq Sessions /\ spoilt \subseteq Sessions
      /\ closed \in BOOLEAN /\ panicked \in BOOLEAN /\ DOMAIN content \subseteq Nat
      /\ session \in [Sessions -> TxnSessionType]
  BY DEF TxnTypeOK, TxnSessionType
<1>2. SUFFICES /\ kind' \in [Appenders -> Kinds] /\ stage' \in [Appenders -> Places]
               /\ sessions' \subseteq Sessions /\ begun' \subseteq Sessions /\ spoilt' \subseteq Sessions
               /\ closed' \in BOOLEAN /\ panicked' \in BOOLEAN /\ DOMAIN content' \subseteq Nat
               /\ session' \in [Sessions -> TxnSessionType]
  BY Zenon DEF TxnTypeOK, TxnSessionType
<1>3. ASSUME NEW p \in Appenders, TxnAppendStep(p)
      PROVE  /\ kind' \in [Appenders -> Kinds] /\ stage' \in [Appenders -> Places]
             /\ sessions' \subseteq Sessions /\ begun' \subseteq Sessions /\ spoilt' \subseteq Sessions
             /\ closed' \in BOOLEAN /\ panicked' \in BOOLEAN /\ DOMAIN content' \subseteq Nat
  <2> USE <1>1 DEF txnVars, sessionVars
  <2>1. ASSUME NEW barrier, NEW k \in {"auto", "begin", "body", "commit", "rollback"}, NEW s,
               StartMessage(p, barrier, k, s)
        PROVE  /\ kind' \in [Appenders -> Kinds]
               /\ UNCHANGED <<stage, sessions, begun, closed, panicked, content, spoilt>>
    BY <2>1 DEF StartMessage
  <2>2. CASE GiveUpMessage(p) \/ WaitDone(p) \/ WaitCancelled(p) \/ WriteMessage(p) \/ MarkMessage(p)
    BY <2>2 DEF GiveUpMessage, WaitDone, WaitCancelled, ReturnError, WriteMessage, MarkMessage
  <2>3. CASE AllocateMessage(p)
    <3>1. tso' \in Nat
      BY DEF TypeOK
    <3>2. QED  BY <2>3, <3>1 DEF AllocateMessage
  <2>4. CASE HandleBegin(p) \/ HandleTxnMessage(p) \/ RequestDone(p)
    BY <2>4 DEF HandleBegin, HandleTxnMessage, RequestDone, Handles, Stages
  <2>5. CASE Refuse(p) \/ BodyFailed(p) \/ BodyDone(p) \/ EndDone(p)
    BY <2>5 DEF Refuse, ReturnError, BodyFailed, BodyDone, EndDone, Stages
  <2>6. CASE AckMessage(p)
    BY Zenon, <2>6 DEF AckMessage, Answered, Stages
  <2>7. CASE BeginPanics(p)
    BY Zenon, <2>7 DEF BeginPanics, LoseSessions
  <2>8. QED  BY SMTT(20), <1>3, <2>1, <2>2, <2>3, <2>4, <2>5, <2>6, <2>7 DEF TxnAppendStep
<1>4. CASE \E p \in Appenders : TxnAppendStep(p)
  BY <1>0, <1>3, <1>4, SessionTypesStep
<1>5. CASE TxnSyncStep \/ Untouched(FirstTimeTick) \/ GracefulClose \/ UNCHANGED <<vars, txnVars>>
  <2>1. Quiet
    BY <1>5, QuietSteps
  <2>2. closed' \in BOOLEAN
    BY Zenon, <1>1, <1>5
       DEF TxnSyncStep, Untouched, SendTimeTick, CleanupTxnUntil, GracefulClose, txnVars,
       sessionVars
  <2>3. QED  BY <1>1, <2>1, <2>2 DEF Quiet
<1>6. CASE CloseWAL
  <2>1. [NoTxnSession EXCEPT !.state = "rollbacked"] \in TxnSessionType
    BY Zenon, SessionFields, SessionValues
  <2>2. session' \in [Sessions -> TxnSessionType]
    BY Zenon, <1>1, <1>6, <2>1 DEF CloseWAL, LoseSessions
  <2>3. QED  BY Zenon, <1>1, <1>6, <2>2 DEF CloseWAL, LoseSessions
<1>7. QED  BY <1>4, <1>5, <1>6 DEF TxnNext

(* A message is where its handlers and deferred calls put it.                *)
LEMMA StagesStep ==
  ASSUME TxnFunctions, Stages, NEW p \in Appenders, TxnAppendStep(p), ~LoseSessions
  PROVE  Stages'
<1>0. OthersKeep(p)
  BY MessagesKeep
<1> DEFINE Sits(q) ==
      /\ stage[q] # "none" => Holds(q)
      /\ pc[q] = "ack" => stage[q] = "done"
      /\ stage[q] = "waiting" => pc[q] = "append" /\ kind[q] \in {"commit", "rollback"}
      /\ kind[q] \in {"begin", "body", "commit", "rollback"} => SessionOf(q) \in Sessions
<1>1. Sits(p)
  BY DEF Stages
<1> USE DEF Holds, SessionOf, TxnFunctions, vars, appenderVars, txnVars, sessionVars
<1>2. Sits(p)'
  <2>1. ASSUME NEW barrier, NEW k, NEW s \in Sessions \cup {NoSession}, StartMessage(p, barrier, k, s)
        PROVE  Sits(p)'
    BY <1>1, <2>1, ConstantsAssumption DEF StartMessage, StartAppend
  <2>2. CASE GiveUpMessage(p) \/ AllocateMessage(p)
    BY Zenon, <1>1, <2>2 DEF GiveUpMessage, GiveUp, AllocateMessage, AllocateAcker
  <2>3. CASE HandleBegin(p) \/ HandleTxnMessage(p) \/ RequestDone(p) \/ WaitDone(p)
    BY <1>1, <2>3 DEF HandleBegin, HandleTxnMessage, RequestDone, WaitDone, Handles
  <2>4. CASE Refuse(p) \/ WaitCancelled(p) \/ WriteMessage(p)
    <3>1. /\ pc'[p] = "mark" /\ UNCHANGED <<request, kind>>
          /\ stage'[p] = "done" \/ (stage[p] = "handled" /\ stage'[p] = "handled")
      BY Zenon, <2>4 DEF Refuse, WaitCancelled, WriteMessage, ReturnError, AppendMsg
    <3>2. QED  BY Zenon, <1>1, <3>1
  <2>5. CASE BodyFailed(p) \/ BodyDone(p) \/ EndDone(p) \/ MarkMessage(p)
    BY Zenon, <1>1, <2>5 DEF BodyFailed, BodyDone, EndDone, MarkMessage, MarkAcker
  <2>6. CASE AckMessage(p)
    BY Zenon, <1>1, <2>6 DEF AckMessage, AckAcker
  <2>7. QED  BY Zenon, <2>1, <2>2, <2>3, <2>4, <2>5, <2>6 DEF TxnAppendStep, BeginPanics
<1>3. \A q \in Appenders : q # p => Sits(q)'
  BY <1>0 DEF OthersKeep, Stages
<1>4. QED  BY <1>2, <1>3 DEF Stages

(* A step of a message starts it, ends it, or moves it on: then only         *)
(* RequestDone lets an ending in, and only HandleTxnMessage a body.          *)
Starts(p) ==
  \E k \in {"auto", "begin", "body", "commit", "rollback"}, s \in Sessions \cup {NoSession} :
    /\ kind'[p] = k /\ SessionOf(p)' = s /\ stage'[p] = "none"
    /\ session' = session
    /\ k = "begin" => session[s].state = "none" /\ \A q \in Appenders : SessionOf(q) # s
Leaves(p) == kind'[p] = "none" /\ session' = session
Proceeds(p) ==
  /\ kind'[p] = kind[p] /\ SessionOf(p)' = SessionOf(p)
  /\ stage'[p] = "none" => stage[p] = "none"
  /\ stage'[p] = "none" \/ kind[p] # "begin" => ~HandleBegin(p)
  /\ Ending(p)' => Ending(p) \/ RequestDone(p)
  /\ Ending(p)' => ~EndDone(p)
  /\ Going(p)' => Going(p) \/ HandleTxnMessage(p)
  /\ stage'[p] = "failed" => stage[p] = "failed" \/ BodyFailed(p)
  /\ stage[p] # "none" => acker'[p] = acker[p]
  /\ HandleTxnMessage(p) => acker'[p] = acker[p]
LEMMA OwnSteps ==
  ASSUME TxnFunctions, Stages, NEW p \in Appenders, TxnAppendStep(p), ~LoseSessions
  PROVE  Starts(p) \/ Leaves(p) \/ Proceeds(p)
<1>0. /\ stage[p] # "none" => pc[p] \in {"append", "mark", "ack"}
      /\ stage[p] = "waiting" => pc[p] = "append" /\ kind[p] \in {"commit", "rollback"}
  BY DEF Stages, Holds
<1> USE DEF TxnFunctions, vars, appenderVars, txnVars, sessionVars
<1>1. ASSUME NEW barrier, NEW k \in {"auto", "begin", "body", "commit", "rollback"},
             NEW s \in Sessions \cup {NoSession}, StartMessage(p, barrier, k, s)
      PROVE  Starts(p)
  <2>1. /\ kind'[p] = k /\ request'[p].session = s /\ stage'[p] = "none" /\ session' = session
        /\ k = "begin" => session[s].state = "none" /\ \A q \in Appenders : SessionOf(q) # s
    BY <1>0, <1>1 DEF StartMessage, StartAppend
  <2>2. QED  BY Zenon, <2>1 DEF Starts, SessionOf
<1>2. CASE GiveUpMessage(p) \/ AckMessage(p)
  BY <1>2 DEF GiveUpMessage, AckMessage, Leaves
<1>3. CASE AllocateMessage(p)
  <2>1. /\ UNCHANGED <<kind, stage, request>> /\ pc[p] = "allocate"
    BY Zenon, <1>3 DEF AllocateMessage, AllocateAcker
  <2>2. stage[p] = "none"
    BY <1>0, <2>1
  <2>3. QED  BY <2>1, <2>2
                DEF Proceeds, Ending, Going, SessionOf, HandleBegin, HandleTxnMessage, Handles
<1>4. CASE HandleBegin(p) \/ HandleTxnMessage(p) \/ RequestDone(p) \/ WaitDone(p)
  <2>1. UNCHANGED <<kind, request, acker>>
    BY <1>4 DEF HandleBegin, HandleTxnMessage, RequestDone, WaitDone
  <2>2. CASE HandleBegin(p)
    BY <2>1, <2>2 DEF HandleBegin, Handles, Proceeds, Ending, Going, SessionOf
  <2>3. CASE HandleTxnMessage(p)
    BY <2>1, <2>3 DEF HandleBegin, HandleTxnMessage, Handles, Proceeds, Ending, Going, SessionOf
  <2>4. CASE RequestDone(p)
    BY <2>1, <2>4 DEF HandleBegin, RequestDone, Handles, Proceeds, Ending, Going, SessionOf, EndDone
  <2>5. CASE WaitDone(p)
    BY <1>0, <2>1, <2>5
       DEF HandleBegin, WaitDone, Handles, Proceeds, Ending, Going, SessionOf, EndDone
  <2>6. QED  BY Zenon, <1>4, <2>2, <2>3, <2>4, <2>5
<1>5. CASE Refuse(p) \/ WaitCancelled(p) \/ WriteMessage(p)
  <2>1. /\ UNCHANGED <<request, kind, acker>> /\ pc'[p] = "mark" /\ pc[p] = "append"
        /\ stage'[p] = "done" \/ (stage[p] \in {"handled", "done"} /\ stage'[p] = stage[p])
           \/ (kind[p] = "auto" /\ stage'[p] = "done")
    BY Zenon, <1>5 DEF Refuse, WaitCancelled, WriteMessage, ReturnError, AppendMsg
  <2>2. ~HandleBegin(p) /\ ~HandleTxnMessage(p) /\ ~EndDone(p)
    BY <2>1 DEF HandleBegin, HandleTxnMessage, EndDone
  <2>3. QED  BY Zenon, <2>1, <2>2 DEF Proceeds, Ending, Going, SessionOf
<1>6. CASE BodyFailed(p) \/ BodyDone(p) \/ EndDone(p) \/ MarkMessage(p)
  <2>1. /\ UNCHANGED <<request, kind, acker>> /\ pc[p] = "mark"
        /\ stage[p] # "none" /\ stage'[p] # "none"
        /\ stage'[p] = "done" \/ (kind[p] = "body" /\ stage'[p] = "failed" /\ stage[p] = "handled" /\ BodyFailed(p))
    BY Zenon, <1>6 DEF BodyFailed, BodyDone, EndDone, MarkMessage, MarkAcker
  <2>2. QED  BY <2>1 DEF Proceeds, Ending, Going, SessionOf, HandleBegin, HandleTxnMessage, Handles
<1>7. QED  BY Zenon, <1>1, <1>2, <1>3, <1>4, <1>5, <1>6 DEF TxnAppendStep, BeginPanics

(* Only a begin, an ending that is let in and one that is done change the    *)
(* state of a session; only a begin sets its lease back, only a body message *)
(* that is done extends it.                                                  *)
StateMoves(p, s) ==
  \/ /\ session'[s].state = session[s].state
     /\ \/ session'[s].lastTimetick = session[s].lastTimetick
        \/ /\ s = SessionOf(p) /\ BodyDone(p)
           /\ session'[s].lastTimetick >= session[s].lastTimetick
  \/ /\ s = SessionOf(p) /\ HandleBegin(p) /\ session'[s].state = "inflight"
  \/ /\ s = SessionOf(p) /\ RequestDone(p) /\ session[s].state = "inflight"
     /\ session'[s].state = IF kind[p] = "commit" THEN "oncommit" ELSE "onrollback"
     /\ session'[s].lastTimetick = session[s].lastTimetick
  \/ /\ s = SessionOf(p) /\ EndDone(p) /\ session'[s].lastTimetick = session[s].lastTimetick
     /\ session'[s].state \in {"committed", "rollbacked"}
LEMMA StatesMove ==
  ASSUME TxnFunctions, Stages, NEW p \in Appenders, TxnAppendStep(p), ~LoseSessions,
         NEW s \in Sessions
  PROVE  StateMoves(p, s)
<1>0. session[s].lastTimetick \in Nat /\ acker[p] \in Nat
  BY DEF TxnFunctions, TxnSessionType
<1>1. CASE Plain(p)
  BY Zenon, <1>0, <1>1, SessionSteps DEF SameSessions, StateMoves
<1>2. CASE HandleBegin(p)
  <2>1. Becomes(SessionOf(p), "inflight", acker[p], 0, "nil")
    BY Zenon, <1>2, SessionSteps
  <2>2. \/ s # SessionOf(p) /\ session'[s] = session[s]
        \/ s = SessionOf(p) /\ session'[s].state = "inflight"
    BY Zenon, <2>1 DEF Becomes
  <2>3. QED  BY Zenon, <1>2, <2>2 DEF StateMoves
<1>3. CASE HandleTxnMessage(p)
  <2>1. session[SessionOf(p)].state = "inflight"
    BY <1>3 DEF HandleTxnMessage, Accepted
  <2>2. Becomes(SessionOf(p), "inflight", session[SessionOf(p)].lastTimetick,
                session[SessionOf(p)].inFlightCount + 1, session[SessionOf(p)].doneWait)
    BY Zenon, <1>3, SessionSteps
  <2>3. session'[s].state = session[s].state /\ session'[s].lastTimetick = session[s].lastTimetick
    BY Zenon, <2>1, <2>2 DEF Becomes
  <2>4. QED  BY Zenon, <2>3 DEF StateMoves
<1>4. CASE RequestDone(p)
  <2>1. session[SessionOf(p)].state = "inflight"
    BY Zenon, <1>4 DEF RequestDone, Accepted
  <2>2. QED  BY Zenon, <1>0, <1>4, <2>1, SessionSteps DEF Becomes, StateMoves
<1>5. CASE BodyFailed(p)
  BY Zenon, <1>0, <1>5, SessionSteps DEF Becomes, StateMoves
<1>6. CASE BodyDone(p)
  <2>1. Later(session[s], acker[p]) >= session[s].lastTimetick
    BY <1>0 DEF Later
  <2>2. QED  BY Zenon, <1>0, <1>6, <2>1, SessionSteps DEF Becomes, StateMoves
<1>7. CASE EndDone(p)
  BY Zenon, <1>0, <1>7, SessionSteps DEF Becomes, StateMoves
<1>8. QED  BY Zenon, <1>1, <1>2, <1>3, <1>4, <1>5, <1>6, <1>7 DEF TxnAppendStep, Plain, BeginPanics

(* A session stays new until its begin message is handled.                   *)
LEMMA BeginsStep ==
  ASSUME TxnFunctions, Stages, Begins, Endings, NEW p \in Appenders, TxnAppendStep(p), ~LoseSessions
  PROVE  Begins'
<1>0. /\ OthersKeep(p)
      /\ \A s \in Sessions : StateMoves(p, s)
      /\ Starts(p) \/ Leaves(p) \/ Proceeds(p)
  BY Zenon, MessagesKeep, StatesMove, OwnSteps
<1>1. \A q \in Appenders : q # p => /\ kind'[q] = kind[q] /\ stage'[q] = stage[q]
                                    /\ SessionOf(q)' = SessionOf(q)
  BY <1>0 DEF OthersKeep, SessionOf
<1>2. ASSUME NEW q \in Appenders, q # p, kind'[q] = "begin", stage'[q] = "none"
      PROVE  session'[SessionOf(q)].state = "none"
  <2>1. kind[q] = "begin" /\ stage[q] = "none"
    BY Zenon, <1>1, <1>2
  <2>2. session[SessionOf(q)].state = "none" /\ SessionOf(q) \in Sessions
    BY <2>1 DEF Begins, Stages
  <2>3. HandleBegin(p) => SessionOf(p) # SessionOf(q)
    BY Zenon, <1>2, <2>1 DEF HandleBegin, Handles, Begins
  <2>4. EndDone(p) => SessionOf(p) # SessionOf(q)
    <3>1. EndDone(p) => session[SessionOf(p)].state \in {"oncommit", "onrollback"}
      BY DEF EndDone, Endings, Ending
    <3>2. QED  BY <2>2, <3>1
  <2>5. StateMoves(p, SessionOf(q))
    BY Zenon, <1>0, <2>2
  <2>6. QED  BY Zenon, <2>2, <2>3, <2>4, <2>5 DEF StateMoves
<1>3. CASE Starts(p)
  <2>1. PICK k \in {"auto", "begin", "body", "commit", "rollback"}, s \in Sessions \cup {NoSession} :
          /\ kind'[p] = k /\ SessionOf(p)' = s /\ stage'[p] = "none"
          /\ session' = session
          /\ k = "begin" => session[s].state = "none" /\ \A q \in Appenders : SessionOf(q) # s
    BY Zenon, <1>3 DEF Starts
  <2>2. QED  BY <1>1, <1>2, <2>1 DEF Begins, SessionOf
<1>4. CASE Leaves(p)
  BY <1>1, <1>2, <1>4 DEF Leaves, Begins, SessionOf
<1>5. CASE Proceeds(p)
  <2>1. ASSUME kind'[p] = "begin", stage'[p] = "none"
        PROVE  session'[SessionOf(p)].state = "none"
    <3>1. kind[p] = "begin" /\ stage[p] = "none" /\ ~HandleBegin(p)
      BY Zenon, <1>5, <2>1 DEF Proceeds
    <3>2. session[SessionOf(p)].state = "none" /\ SessionOf(p) \in Sessions
      BY <3>1 DEF Begins, Stages
    <3>3. ~RequestDone(p) /\ ~EndDone(p)
      BY <3>1 DEF RequestDone, EndDone, Handles
    <3>4. StateMoves(p, SessionOf(p))
      BY Zenon, <1>0, <3>2
    <3>5. QED  BY Zenon, <3>1, <3>2, <3>3, <3>4 DEF StateMoves
  <2>2. SessionOf(p)' = SessionOf(p) /\ kind'[p] = kind[p]
    BY Zenon, <1>5 DEF Proceeds
  <2>3. \A q, r \in Appenders : q # r /\ kind'[q] = "begin" /\ kind'[r] = "begin" =>
          SessionOf(q)' # SessionOf(r)'
    BY SMTT(20), <1>1, <2>2 DEF Begins
  <2>4. \A q \in Appenders : kind'[q] = "begin" /\ stage'[q] = "none" =>
          session'[SessionOf(q)'].state = "none"
    BY <1>1, <1>2, <2>1, <2>2
  <2>5. QED  BY <2>3, <2>4 DEF Begins, SessionOf
<1>6. QED  BY <1>0, <1>3, <1>4, <1>5

(* No second commit or rollback of a session is let in.                      *)
LEMMA EndingsStep ==
  ASSUME TxnFunctions, Stages, Begins, Endings, NEW p \in Appenders, TxnAppendStep(p), ~LoseSessions
  PROVE  Endings'
<1>0. /\ OthersKeep(p)
      /\ \A s \in Sessions : StateMoves(p, s)
      /\ Starts(p) \/ Leaves(p) \/ Proceeds(p)
  BY MessagesKeep, StatesMove, OwnSteps
<1>1. \A q \in Appenders : q # p => /\ kind'[q] = kind[q] /\ Ending(q)' = Ending(q)
                                    /\ SessionOf(q)' = SessionOf(q)
  BY Zenon, <1>0 DEF OthersKeep, SessionOf, Ending
<1> DEFINE On(q) == IF kind[q] = "commit" THEN "oncommit" ELSE "onrollback"
<1>2. \A q \in Appenders : Ending(q) => SessionOf(q) \in Sessions /\ session[SessionOf(q)].state = On(q)
  BY Zenon DEF Endings, Ending, Stages
<1>3. HandleBegin(p) => session[SessionOf(p)].state = "none"
  BY DEF HandleBegin, Handles, Begins
<1>4. ASSUME NEW q \in Appenders, q # p, Ending(q)
      PROVE  session'[SessionOf(q)].state = On(q)
  <2>1. SessionOf(q) \in Sessions /\ session[SessionOf(q)].state \in {"oncommit", "onrollback"}
    BY <1>2, <1>4
  <2>2. HandleBegin(p) \/ EndDone(p) \/ RequestDone(p) => SessionOf(p) # SessionOf(q)
    <3>1. EndDone(p) => Ending(p)
      BY DEF EndDone, Ending
    <3>2. RequestDone(p) => session[SessionOf(p)].state = "inflight"
      BY Zenon DEF RequestDone, Accepted
    <3>3. QED  BY Zenon, <1>3, <1>4, <2>1, <3>1, <3>2 DEF Endings
  <2>3. StateMoves(p, SessionOf(q))
    BY Zenon, <1>0, <2>1
  <2>4. QED  BY Zenon, <1>2, <1>4, <2>2, <2>3 DEF StateMoves
<1>5. CASE ~Ending(p)'
  BY <1>1, <1>4, <1>5 DEF Endings, SessionOf
<1>6. CASE Ending(p)'
  <2>1. Proceeds(p)
    BY Zenon, <1>0, <1>6 DEF Starts, Leaves, Ending
  <2>2. /\ kind'[p] = kind[p] /\ SessionOf(p)' = SessionOf(p) /\ ~EndDone(p)
        /\ Ending(p) \/ RequestDone(p)
    BY Zenon, <1>6, <2>1 DEF Proceeds
  <2>3. SessionOf(p) \in Sessions
    BY Zenon, <1>2, <2>2 DEF RequestDone, Handles, Stages
  <2>4. StateMoves(p, SessionOf(p))
    BY <1>0, <2>3
  <2>5. session'[SessionOf(p)].state = On(p)
    <3>1. CASE RequestDone(p)
      BY Zenon, <3>1, SessionSteps DEF Becomes
    <3>2. CASE ~RequestDone(p)
      BY Zenon, <1>2, <1>3, <2>2, <2>4, <3>2 DEF StateMoves
    <3>3. QED  BY Zenon, <3>1, <3>2
  <2>6. \A q \in Appenders : q # p /\ Ending(q) => SessionOf(q) # SessionOf(p)
    <3>1. CASE RequestDone(p)
      <4>1. session[SessionOf(p)].state = "inflight"
        BY <3>1 DEF RequestDone, Accepted
      <4>2. QED  BY <1>2, <4>1
    <3>2. CASE ~RequestDone(p)
      BY Zenon, <2>2, <3>2 DEF Endings
    <3>3. QED  BY <3>1, <3>2
  <2>7. \A q, r \in Appenders : q # r /\ Ending(q)' /\ Ending(r)' => SessionOf(q)' # SessionOf(r)'
    <3>1. ASSUME NEW q \in Appenders, q # p, Ending(q)'
          PROVE  Ending(q) /\ SessionOf(q)' = SessionOf(q) /\ SessionOf(q) # SessionOf(p)'
      BY Zenon, <1>1, <2>2, <2>6, <3>1
    <3>2. ASSUME NEW q \in Appenders, NEW r \in Appenders, q # r, q # p, r # p, Ending(q)', Ending(r)'
          PROVE  SessionOf(q)' # SessionOf(r)'
      BY Zenon, <3>1, <3>2 DEF Endings
    <3>3. QED  BY Zenon, <3>1, <3>2
  <2>8. \A q \in Appenders : Ending(q)' => session'[SessionOf(q)'].state = On(q)'
    BY Zenon, <1>1, <1>4, <2>2, <2>5
  <2>9. QED  BY <2>7, <2>8 DEF Endings, SessionOf
<1>7. QED  BY Zenon, <1>5, <1>6

(* No step ends the lease of a message that was let in.                      *)
LEMMA LeasesStep ==
  ASSUME TxnFunctions, Stages, Begins, Leases, NEW p \in Appenders, TxnAppendStep(p), ~LoseSessions
  PROVE  Leases'
<1>0. /\ OthersKeep(p)
      /\ \A s \in Sessions : StateMoves(p, s)
      /\ Starts(p) \/ Leaves(p) \/ Proceeds(p)
  BY MessagesKeep, StatesMove, OwnSteps
<1>1. \A q \in Appenders : q # p => /\ Going(q)' = Going(q) /\ acker'[q] = acker[q]
                                    /\ SessionOf(q)' = SessionOf(q)
  BY Zenon, <1>0 DEF OthersKeep, SessionOf, Going
<1>2. Going(p)' => /\ Going(p) \/ HandleTxnMessage(p)
                   /\ acker'[p] = acker[p] /\ SessionOf(p)' = SessionOf(p)
  BY Zenon, <1>0 DEF Starts, Leaves, Proceeds, Going
<1>3. ASSUME NEW q \in Appenders, Going(q) \/ (q = p /\ HandleTxnMessage(p))
      PROVE  /\ SessionOf(q) \in Sessions /\ session[SessionOf(q)].state # "none"
             /\ acker[q] < session[SessionOf(q)].lastTimetick + Keepalive
             /\ acker[q] \in Nat /\ session[SessionOf(q)].lastTimetick \in Nat
  <2>1. SessionOf(q) \in Sessions
    BY <1>3 DEF Going, HandleTxnMessage, Handles, Stages
  <2>2. acker[q] \in Nat /\ session[SessionOf(q)].lastTimetick \in Nat
    BY <2>1 DEF TxnFunctions, TxnSessionType
  <2>3. CASE Going(q)
    BY <2>1, <2>2, <2>3 DEF Leases, expiredTimeTick
  <2>4. CASE q = p /\ HandleTxnMessage(p)
    BY <2>1, <2>2, <2>4, KeepaliveAssumption DEF HandleTxnMessage, Accepted, checkIfExpired,
       expiredTimeTick
  <2>5. QED  BY <1>3, <2>3, <2>4
<1>4. HandleBegin(p) => session[SessionOf(p)].state = "none"
  BY DEF HandleBegin, Handles, Begins
<1>5. ASSUME NEW q \in Appenders, Going(q) \/ (q = p /\ HandleTxnMessage(p))
      PROVE  /\ session'[SessionOf(q)].state # "none"
             /\ acker[q] < session'[SessionOf(q)].lastTimetick + Keepalive
  <2>1. StateMoves(p, SessionOf(q))
    BY Zenon, <1>0, <1>3, <1>5
  <2>2. HandleBegin(p) => SessionOf(p) # SessionOf(q)
    BY <1>3, <1>4, <1>5
  <2>3. session'[SessionOf(q)].state # "none"
    BY Zenon, <1>3, <1>5, <2>1, <2>2 DEF StateMoves
  <2>4. session'[SessionOf(q)].lastTimetick \in Nat
    <3>1. session' \in [Sessions -> TxnSessionType]
      BY SessionTypesStep
    <3>2. QED  BY <1>3, <1>5, <3>1 DEF TxnSessionType
  <2>5. session'[SessionOf(q)].lastTimetick >= session[SessionOf(q)].lastTimetick
    <3>1. session[SessionOf(q)].lastTimetick \in Nat
      BY <1>3, <1>5
    <3>2. \/ session'[SessionOf(q)].lastTimetick = session[SessionOf(q)].lastTimetick
          \/ session'[SessionOf(q)].lastTimetick >= session[SessionOf(q)].lastTimetick
      BY Zenon, <2>1, <2>2 DEF StateMoves
    <3>3. QED  BY <3>1, <3>2
  <2>6. /\ acker[q] \in Nat /\ session[SessionOf(q)].lastTimetick \in Nat
        /\ acker[q] < session[SessionOf(q)].lastTimetick + Keepalive
    BY Zenon, <1>3, <1>5
  <2>7. \A a, l, m \in Nat : a < l + Keepalive /\ m >= l => a < m + Keepalive
    BY KeepaliveAssumption
  <2>8. QED  BY Zenon, <2>3, <2>4, <2>5, <2>6, <2>7
<1>6. \A q \in Appenders : Going(q)' =>
        /\ session'[SessionOf(q)'].state # "none"
        /\ acker'[q] < session'[SessionOf(q)'].lastTimetick + Keepalive
  BY <1>1, <1>2, <1>5
<1>7. QED  BY Zenon, <1>6 DEF Leases, expiredTimeTick, SessionOf

-----------------------------------------------------------------------------
(* The invariant of the sessions. *)

(* The invariant holds at the start.                                         *)
LEMMA TxnInitHolds ==
  ASSUME TxnInit, TypeOK
  PROVE  TxnInv
<1>2. TxnTypeOK
  <2>1. session \in [Sessions -> TxnSessionType]
    BY SessionValues DEF TxnInit
  <2>2. DOMAIN content \subseteq Nat
    BY DEF TxnInit
  <2>3. closed \in BOOLEAN /\ panicked \in BOOLEAN
    BY Zenon DEF TxnInit
  <2>4. /\ sessions \subseteq Sessions /\ begun \subseteq Sessions /\ spoilt \subseteq Sessions
        /\ kind \in [Appenders -> {"none", "auto", "begin", "body", "commit", "rollback"}]
        /\ stage \in [Appenders -> {"none", "waiting", "handled", "failed", "done"}]
    BY DEF TxnInit
  <2>5. QED  BY Zenon, <2>1, <2>2, <2>3, <2>4 DEF TxnTypeOK, TxnSessionType
<1>3. Stages /\ Begins /\ Endings /\ Leases
  BY DEF TxnInit, Stages, Begins, Endings, Leases, Ending, Going, Init
<1>4. QED  BY <1>2, <1>3 DEF TxnInv

(* Every step keeps it: a step of a message, of the rest, or a closed WAL.   *)
LEMMA TxnNextKeeps ==
  ASSUME TxnInv, TypeOK', [TxnNext]_<<vars, txnVars>>
  PROVE  TxnInv'
<1>0. TxnFunctions /\ Stages /\ Begins /\ Endings /\ Leases
  BY TxnTyped DEF TxnInv
<1>1. TxnTypeOK'
  BY TxnTypesStep DEF TxnInv
<1>2. CASE LoseSessions
  BY Zenon, <1>1, <1>2, LostKeeps DEF TxnInv
<1>3. ASSUME NEW p \in Appenders, TxnAppendStep(p), ~LoseSessions
      PROVE  TxnInv'
  BY Zenon, <1>0, <1>1, <1>3, StagesStep, BeginsStep, EndingsStep, LeasesStep DEF TxnInv
<1>4. CASE TxnSyncStep \/ Untouched(FirstTimeTick) \/ GracefulClose \/ UNCHANGED <<vars, txnVars>>
  <2>1. UNCHANGED <<session, kind, stage, pc, request, acker>>
    BY <1>4, QuietSteps DEF Quiet
  <2>2. Stages' /\ Begins' /\ Endings' /\ Leases'
    BY Zenon, <1>0, <2>1 DEF Stages, Begins, Endings, Leases, Ending, Going, Holds, SessionOf,
       expiredTimeTick
  <2>3. QED  BY <1>1, <2>2 DEF TxnInv
<1>5. QED  BY <1>2, <1>3, <1>4 DEF TxnNext, CloseWAL

(* What OverForGood says of one step.                                        *)
StaysOver == ready /\ ready' => OverAt(lastConfirmedTimeTick) \subseteq OverAt(lastConfirmedTimeTick)'

(* A message that could refresh the lease is ahead of the confirmed time     *)
(* tick, and within the lease; so a lease that is over for the confirmed     *)
(* time tick has no such message.                                            *)
LEMMA OverStays ==
  ASSUME Inv, Inv', TxnInv, TxnNext, lastConfirmedTimeTick' >= lastConfirmedTimeTick,
         ready, ready', NEW s \in OverAt(lastConfirmedTimeTick)
  PROVE  s \in OverAt(lastConfirmedTimeTick)'
<1>0. TxnFunctions /\ Stages /\ Begins /\ Leases
  BY TxnTyped DEF TxnInv
<1>1. /\ s \in Sessions /\ session[s].state # "none"
      /\ \/ session[s].lastTimetick + Keepalive <= lastConfirmedTimeTick
         \/ session[s].state \in {"rollbacked", "committed"}
  BY DEF OverAt, IsExpiredOrDone, expiredTimeTick
<1>2. /\ lastConfirmedTimeTick' >= lastConfirmedTimeTick
      /\ lastConfirmedTimeTick \in Nat /\ lastConfirmedTimeTick' \in Nat
  BY Zenon DEF Inv, TypeOK
<1>3. SUFFICES /\ session'[s].state # "none"
               /\ \/ session'[s].lastTimetick + Keepalive <= lastConfirmedTimeTick'
                  \/ session'[s].state \in {"rollbacked", "committed"}
  BY <1>1 DEF OverAt, IsExpiredOrDone, expiredTimeTick
<1>4. ~LoseSessions
  BY DEF LoseSessions, Crash
<1>5. session[s].lastTimetick \in Nat
  BY Zenon, <1>0, <1>1 DEF TxnFunctions, TxnSessionType
<1>6. CASE TxnSyncStep \/ Untouched(FirstTimeTick) \/ GracefulClose
  <2>1. session' = session
    BY <1>6, QuietSteps DEF Quiet
  <2>2. QED  BY <1>1, <1>2, <1>5, <2>1, KeepaliveAssumption
<1>7. ASSUME NEW p \in Appenders, TxnAppendStep(p)
      PROVE  /\ session'[s].state # "none"
             /\ \/ session'[s].lastTimetick + Keepalive <= lastConfirmedTimeTick'
                \/ session'[s].state \in {"rollbacked", "committed"}
  <2>1. StateMoves(p, s)
    BY Zenon, <1>0, <1>1, <1>4, <1>7, StatesMove
  <2>2. HandleBegin(p) => SessionOf(p) # s
    BY Zenon, <1>0, <1>1 DEF HandleBegin, Handles, Begins
  <2>3. ASSUME BodyDone(p), SessionOf(p) = s
        PROVE  session[s].state \in {"rollbacked", "committed"}
    <3>1. Going(p) /\ pc[p] = "mark"
      BY Zenon, <2>3 DEF BodyDone, Going
    <3>2. acker[p] < session[s].lastTimetick + Keepalive
      BY Zenon, <1>0, <2>3, <3>1 DEF Leases, expiredTimeTick
    <3>3. acker[p] \in DOMAIN detail /\ ~detail[acker[p]].acknowledged
      BY Zenon, <3>1 DEF Inv, Owners, Holds
    <3>4. lastConfirmedTimeTick < acker[p]
      BY <3>3 DEF Inv, Heaps
    <3>5. acker[p] \in Nat
      BY Zenon, <1>0 DEF TxnFunctions
    <3>6. QED  BY <1>1, <1>2, <1>5, <3>2, <3>4, <3>5, KeepaliveAssumption
  <2>4. CASE UNCHANGED <<session[s].state, session[s].lastTimetick>>
    BY <1>1, <1>2, <1>5, <2>4, KeepaliveAssumption
  <2>5. CASE session'[s].state = session[s].state /\ s = SessionOf(p) /\ BodyDone(p)
    BY Zenon, <1>1, <2>3, <2>5
  <2>6. CASE /\ session[s].state = "inflight" /\ session'[s].state \in {"oncommit", "onrollback"}
             /\ session'[s].lastTimetick = session[s].lastTimetick
    <3>1. session[s].lastTimetick + Keepalive <= lastConfirmedTimeTick
      BY Zenon, <1>1, <2>6
    <3>2. session[s].lastTimetick + Keepalive <= lastConfirmedTimeTick'
      BY <1>2, <1>5, <3>1, KeepaliveAssumption
    <3>3. QED  BY Zenon, <2>6, <3>2
  <2>7. CASE session'[s].state \in {"committed", "rollbacked"}
    BY Zenon, <2>7
  <2>8. QED  BY Zenon, <2>1, <2>2, <2>4, <2>5, <2>6, <2>7 DEF StateMoves
<1>8. QED  BY Zenon, <1>4, <1>6, <1>7 DEF TxnNext, CloseWAL

-----------------------------------------------------------------------------
(* The count in flight. *)

(* The transactions that are spoilt only become more, by failed messages.    *)
LEMMA SpoiltGrows ==
  ASSUME NEW p \in Appenders, TxnAppendStep(p), ~LoseSessions
  PROVE  \/ UNCHANGED spoilt
         \/ BodyFailed(p) /\ spoilt' = spoilt \cup {SessionOf(p)}
<1> USE DEF txnVars, sessionVars
<1>1. CASE BodyFailed(p)
  BY Zenon, <1>1 DEF BodyFailed
<1>2. ASSUME NEW barrier, NEW k, NEW s, StartMessage(p, barrier, k, s)
      PROVE  UNCHANGED spoilt
  BY Zenon, <1>2 DEF StartMessage
<1>3. CASE \/ GiveUpMessage(p) \/ AllocateMessage(p) \/ HandleBegin(p) \/ HandleTxnMessage(p)
           \/ RequestDone(p) \/ Refuse(p) \/ WaitDone(p) \/ WaitCancelled(p) \/ WriteMessage(p)
  BY <1>3 DEF GiveUpMessage, AllocateMessage, HandleBegin, HandleTxnMessage, RequestDone, Refuse,
     WaitDone, WaitCancelled, WriteMessage
<1>4. CASE BodyDone(p) \/ EndDone(p) \/ MarkMessage(p) \/ AckMessage(p)
  BY Zenon, <1>4 DEF BodyDone, EndDone, MarkMessage, AckMessage
<1>5. QED  BY Zenon, <1>1, <1>2, <1>3, <1>4 DEF TxnAppendStep, BeginPanics

(* A message that fails spoils its transaction.                              *)
LEMMA SpoilsStep ==
  ASSUME TxnFunctions, Stages, Spoils, NEW p \in Appenders, TxnAppendStep(p), ~LoseSessions
  PROVE  Spoils'
<1>0. /\ OthersKeep(p)
      /\ Starts(p) \/ Leaves(p) \/ Proceeds(p)
      /\ UNCHANGED spoilt \/ (BodyFailed(p) /\ spoilt' = spoilt \cup {SessionOf(p)})
  BY MessagesKeep, OwnSteps, SpoiltGrows
<1>1. ASSUME NEW q \in Appenders, q # p, kind'[q] = "body", stage'[q] = "failed"
      PROVE  SessionOf(q)' \in spoilt'
  <2>1. kind[q] = "body" /\ stage[q] = "failed" /\ SessionOf(q)' = SessionOf(q)
    BY Zenon, <1>0, <1>1 DEF OthersKeep, SessionOf
  <2>2. QED  BY Zenon, <1>0, <2>1 DEF Spoils
<1>2. ASSUME kind'[p] = "body", stage'[p] = "failed"
      PROVE  SessionOf(p)' \in spoilt'
  <2>1. Proceeds(p)
    BY Zenon, <1>0, <1>2 DEF Starts, Leaves
  <2>2. /\ kind[p] = "body" /\ SessionOf(p)' = SessionOf(p)
        /\ stage[p] = "failed" \/ BodyFailed(p)
    BY Zenon, <1>2, <2>1 DEF Proceeds
  <2>3. CASE BodyFailed(p)
    BY Zenon, <2>2, <2>3 DEF BodyFailed
  <2>4. CASE stage[p] = "failed"
    BY Zenon, <1>0, <2>2, <2>4 DEF Spoils
  <2>5. QED  BY Zenon, <2>2, <2>3, <2>4
<1>3. QED  BY <1>1, <1>2 DEF Spoils, SessionOf

(* Of the body messages that the count counts, only HandleTxnMessage adds    *)
(* one, and only BodyDone takes one away, unless a message has failed.       *)
Counted(p) == kind[p] = "body" /\ stage[p] = "handled"
LEMMA BodiesMove ==
  ASSUME TxnFunctions, Stages, Spoils, NEW p \in Appenders, TxnAppendStep(p), ~LoseSessions,
         NEW s \in Sessions \ spoilt'
  PROVE  \/ HandleTxnMessage(p) /\ s = SessionOf(p) /\ p \notin Bodies(s) /\ Bodies(s)' = Bodies(s) \cup {p}
         \/ BodyDone(p) /\ s = SessionOf(p) /\ p \in Bodies(s) /\ Bodies(s)' = Bodies(s) \ {p}
         \/ /\ s # SessionOf(p) \/ ~(HandleTxnMessage(p) \/ BodyDone(p) \/ BodyFailed(p))
            /\ Bodies(s)' = Bodies(s)
<1>0. /\ OthersKeep(p) /\ s \notin spoilt
      /\ BodyFailed(p) => s # SessionOf(p)
  BY Zenon, MessagesKeep, SpoiltGrows DEF BodyFailed
<1>1. \A q \in Appenders : q # p => (q \in Bodies(s)' <=> q \in Bodies(s))
  BY Zenon, <1>0 DEF Bodies, OthersKeep, SessionOf
<1>2. Bodies(s) \in SUBSET Appenders /\ Bodies(s)' \in SUBSET Appenders
  BY Zenon DEF Bodies
<1>3. /\ (p \in Bodies(s)' <=> p \in Bodies(s)) => Bodies(s)' = Bodies(s)
      /\ p \in Bodies(s)' /\ p \notin Bodies(s) => Bodies(s)' = Bodies(s) \cup {p}
      /\ p \notin Bodies(s)' /\ p \in Bodies(s) => Bodies(s)' = Bodies(s) \ {p}
  <2> DEFINE B == Bodies(s)
             C == Bodies(s)'
  <2>1. B \in SUBSET Appenders /\ C \in SUBSET Appenders
    BY <1>2
  <2>2. \A q \in Appenders : q # p => (q \in C <=> q \in B)
    BY <1>1
  <2> HIDE DEF B, C
  <2>3. /\ (p \in C <=> p \in B) => C = B
        /\ p \in C /\ p \notin B => C = B \cup {p}
        /\ p \notin C /\ p \in B => C = B \ {p}
    BY <2>1, <2>2
  <2>4. QED  BY <2>3 DEF B, C
<1>4. /\ p \in Bodies(s) <=> Counted(p) /\ SessionOf(p) = s
      /\ p \in Bodies(s)' <=> Counted(p)' /\ SessionOf(p)' = s
  BY DEF Bodies, Counted, SessionOf
<1> USE DEF TxnFunctions, txnVars, sessionVars, vars, appenderVars
<1>5. CASE HandleTxnMessage(p)
  <2>1. /\ kind[p] = "body" /\ stage[p] = "none" /\ kind'[p] = "body" /\ stage'[p] = "handled"
        /\ SessionOf(p)' = SessionOf(p)
    BY <1>5 DEF HandleTxnMessage, Handles, SessionOf
  <2>2. ~Counted(p) /\ Counted(p)'
    BY Zenon, <2>1 DEF Counted
  <2>3. QED  BY Zenon, <1>3, <1>4, <1>5, <2>1, <2>2
<1>6. CASE BodyDone(p)
  <2>1. kind[p] = "body" /\ stage[p] \in {"handled", "failed"} /\ stage'[p] = "done"
    BY <1>6 DEF BodyDone
  <2>2. ~Counted(p)'
    BY Zenon, <2>1 DEF Counted
  <2>3. stage[p] = "failed" => s # SessionOf(p)
    BY Zenon, <1>0, <2>1 DEF Spoils
  <2>4. s = SessionOf(p) => Counted(p)
    BY Zenon, <2>1, <2>3 DEF Counted
  <2>5. QED  BY Zenon, <1>3, <1>4, <1>6, <2>2, <2>4
<1>7. CASE BodyFailed(p)
  <2>1. stage'[p] = "failed"
    BY <1>7 DEF BodyFailed
  <2>2. ~Counted(p)'
    BY Zenon, <2>1 DEF Counted
  <2>3. QED  BY Zenon, <1>0, <1>3, <1>4, <1>7, <2>2
<1>8. CASE ~HandleTxnMessage(p) /\ ~BodyDone(p) /\ ~BodyFailed(p)
  <2>1. Counted(p)' = Counted(p) /\ (Counted(p) => SessionOf(p)' = SessionOf(p))
    <3>1. ASSUME NEW barrier, NEW k, NEW t, StartMessage(p, barrier, k, t)
          PROVE  stage'[p] = "none" /\ stage[p] = "none"
      BY Zenon, <3>1 DEF StartMessage, StartAppend, Stages, Holds
    <3>2. CASE GiveUpMessage(p) \/ AckMessage(p)
      <4>1. kind'[p] = "none"
        BY <3>2 DEF GiveUpMessage, AckMessage
      <4>2. stage[p] \in {"none", "done"}
        BY Zenon, <3>2 DEF GiveUpMessage, GiveUp, AckMessage, AckAcker, Stages, Holds
      <4>3. QED  BY Zenon, <4>1, <4>2 DEF Counted
    <3>3. CASE AllocateMessage(p) \/ MarkMessage(p)
      BY Zenon, <3>3 DEF AllocateMessage, AllocateAcker, MarkMessage, MarkAcker, Counted, SessionOf
    <3>4. CASE HandleBegin(p) \/ RequestDone(p) \/ EndDone(p)
      BY <3>4 DEF HandleBegin, RequestDone, EndDone, Handles, Counted
    <3>5. CASE WaitDone(p)
      BY Zenon, <3>5 DEF WaitDone, Stages, Counted
    <3>6. CASE Refuse(p) \/ WaitCancelled(p)
      BY Zenon, <3>6 DEF Refuse, WaitCancelled, Handles, ReturnError, Counted
    <3>7. CASE WriteMessage(p)
      BY <3>7 DEF WriteMessage, AppendMsg, Counted, SessionOf
    <3>8. QED  BY Zenon, <1>8, <3>1, <3>2, <3>3, <3>4, <3>5, <3>6, <3>7
             DEF TxnAppendStep, BeginPanics, Counted
  <2>2. QED  BY Zenon, <1>3, <1>4, <1>8, <2>1
<1>9. QED  BY Zenon, <1>5, <1>6, <1>7, <1>8

(* The appenders can be counted; TxnProofs shows it of any finite set.       *)
Countable ==
  /\ Cardinality({}) = 0
  /\ \A A \in SUBSET Appenders :
       /\ Cardinality(A) \in Nat
       /\ Cardinality(A) = 0 <=> A = {}
       /\ \A p \in Appenders \ A : Cardinality(A \cup {p}) = Cardinality(A) + 1
       /\ \A p \in A : Cardinality(A \ {p}) = Cardinality(A) - 1

(* So the body messages of a session under way can be counted.               *)
LEMMA BodiesCounted ==
  ASSUME Countable, NEW s
  PROVE  /\ Cardinality(Bodies(s)) \in Nat
         /\ Cardinality(Bodies(s)) = 0 <=> Bodies(s) = {}
         /\ \A p \in Appenders \ Bodies(s) : Cardinality(Bodies(s) \cup {p}) = Cardinality(Bodies(s)) + 1
         /\ \A p \in Bodies(s) : Cardinality(Bodies(s) \ {p}) = Cardinality(Bodies(s)) - 1
<1>1. Bodies(s) \in SUBSET Appenders
  BY Zenon DEF Bodies
<1>2. QED  BY Zenon, <1>1 DEF Countable

(* A step of a message keeps the count exact, and closes the channel only    *)
(* when the count is zero.                                                   *)
LEMMA CountStep ==
  ASSUME Countable, TxnFunctions, Stages, Begins, Spoils, Exact, Waits, Waited,
         NEW p \in Appenders, TxnAppendStep(p), ~LoseSessions, NEW s \in Sessions \ spoilt'
  PROVE  session'[s].inFlightCount = Cardinality(Bodies(s)') /\ WaitsFor(s)'
<1> DEFINE S == SessionOf(p)
<1>1. /\ s \in Sessions /\ s \notin spoilt
      /\ BodyFailed(p) => s # S
  BY Zenon, SpoiltGrows DEF BodyFailed
<1>2. /\ session[s].inFlightCount = Cardinality(Bodies(s)) /\ WaitsFor(s)
      /\ Cardinality(Bodies(s)) \in Nat
      /\ Cardinality(Bodies(s)) = 0 <=> Bodies(s) = {}
  BY Zenon, <1>1, BodiesCounted DEF Exact, Waits
<1>3. CASE /\ s # S
           /\ \/ HandleBegin(p) \/ HandleTxnMessage(p) \/ RequestDone(p) \/ BodyDone(p) \/ EndDone(p)
              \/ BodyFailed(p)
  <2>1. session'[s] = session[s]
    BY Zenon, <1>1, <1>3, SessionSteps DEF Becomes
  <2>2. Bodies(s)' = Bodies(s)
    BY <1>3, BodiesMove
  <2>3. QED  BY Zenon, <1>2, <2>1, <2>2 DEF WaitsFor
<1>4. CASE s = S /\ HandleTxnMessage(p)
  <2>1. session[s].state = "inflight" /\ stage[p] = "none"
    BY <1>4 DEF HandleTxnMessage, Handles, Accepted
  <2>2. p \notin Bodies(s) /\ Bodies(s)' = Bodies(s) \cup {p}
    BY Zenon, <1>4, <2>1, BodiesMove DEF BodyDone
  <2>3. Cardinality(Bodies(s)') = Cardinality(Bodies(s)) + 1
    BY Zenon, <2>2, BodiesCounted
  <2>4. Becomes(s, "inflight", session[s].lastTimetick, session[s].inFlightCount + 1, session[s].doneWait)
    BY Zenon, <1>4, SessionSteps
  <2>5. session[s].doneWait = "nil"
    BY Zenon, <1>2, <2>1 DEF WaitsFor
  <2>6. QED  BY Zenon, <1>2, <2>3, <2>4, <2>5 DEF Becomes, WaitsFor
<1>5. CASE s = S /\ BodyDone(p)
  <2>1. p \in Bodies(s) /\ Bodies(s)' = Bodies(s) \ {p}
    BY Zenon, <1>5, BodiesMove DEF HandleTxnMessage, Handles, BodyDone
  <2>2. Cardinality(Bodies(s)') = Cardinality(Bodies(s)) - 1 /\ Cardinality(Bodies(s)) # 0
    BY Zenon, <1>2, <2>1, BodiesCounted
  <2>3. Becomes(s, session[s].state, Later(session[s], acker[p]), session[s].inFlightCount - 1,
                Less(session[s]))
    BY Zenon, <1>5, SessionSteps
  <2>4. session'[s].inFlightCount = Cardinality(Bodies(s)')
    BY Zenon, <1>2, <2>2, <2>3 DEF Becomes
  <2>5. /\ session[s].state \notin {"none", "committed", "rollbacked"}
        /\ session[s].doneWait # "closed"
        /\ session'[s].state = session[s].state
    BY Zenon, <1>2, <2>2, <2>3 DEF Becomes, WaitsFor
  <2>6. session'[s].doneWait = "closed" => session'[s].inFlightCount = 0
    <3>1. /\ session'[s].inFlightCount = session[s].inFlightCount - 1
          /\ session'[s].doneWait = Less(session[s])
      BY Zenon, <2>3 DEF Becomes
    <3>2. Less(session[s]) = "closed" => session[s].inFlightCount = 1
      BY Zenon, <2>5 DEF Less
    <3>3. QED  BY <3>1, <3>2
  <2>7. session'[s].doneWait # "nil" => session[s].doneWait # "nil"
    BY Zenon, <2>3 DEF Becomes, Less
  <2>8. WaitsFor(s)'
    BY Zenon, <1>2, <2>5, <2>6, <2>7 DEF WaitsFor
  <2>9. QED  BY <2>4, <2>8
<1>6. CASE ~HandleTxnMessage(p) /\ ~BodyDone(p) /\ ~BodyFailed(p)
  <2>1. Bodies(s)' = Bodies(s)
    BY <1>6, BodiesMove
  <2>2. CASE Plain(p)
    <3>1. SameSessions
      BY Zenon, <2>2, SessionSteps
    <3>2. QED  BY Zenon, <1>1, <1>2, <2>1, <3>1 DEF SameSessions, WaitsFor
  <2>3. CASE s = S /\ HandleBegin(p)
    <3>1. session[s].state = "none"
      BY <2>3 DEF HandleBegin, Handles, Begins
    <3>2. Becomes(s, "inflight", acker[p], 0, "nil")
      BY Zenon, <2>3, SessionSteps
    <3>3. QED  BY Zenon, <1>2, <2>1, <3>1, <3>2 DEF Becomes, WaitsFor
  <2>4. CASE s = S /\ RequestDone(p)
    <3>1. Becomes(s, IF kind[p] = "commit" THEN "oncommit" ELSE "onrollback", session[s].lastTimetick,
                  session[s].inFlightCount, IF session[s].inFlightCount = 0 THEN "closed" ELSE "open")
      BY Zenon, <2>4, SessionSteps
    <3>2. QED  BY Zenon, <1>2, <2>1, <3>1 DEF Becomes, WaitsFor
  <2>5. CASE s = S /\ EndDone(p)
    <3>1. session[s].doneWait = "closed"
      BY <2>5 DEF EndDone, Waited, Ending
    <3>2. Becomes(s, IF kind[p] = "commit" THEN "committed" ELSE "rollbacked", session[s].lastTimetick,
                  session[s].inFlightCount, session[s].doneWait)
      BY Zenon, <2>5, SessionSteps
    <3>3. QED  BY Zenon, <1>2, <2>1, <3>1, <3>2 DEF Becomes, WaitsFor
  <2>6. QED  BY Zenon, <1>3, <1>6, <2>2, <2>3, <2>4, <2>5 DEF TxnAppendStep, Plain, BeginPanics
<1>7. QED  BY Zenon, <1>1, <1>3, <1>4, <1>5, <1>6

(* A commit or rollback that goes on has seen the channel closed, which      *)
(* nothing opens again.                                                      *)
LEMMA WaitedStep ==
  ASSUME TxnFunctions, Stages, Begins, Endings, Waited,
         NEW p \in Appenders, TxnAppendStep(p), ~LoseSessions
  PROVE  Waited'
<1>0. /\ OthersKeep(p)
      /\ Starts(p) \/ Leaves(p) \/ Proceeds(p)
  BY MessagesKeep, OwnSteps
<1>1. ASSUME NEW q \in Appenders, Ending(q), session[SessionOf(q)].doneWait = "closed", ~EndDone(p) \/ q # p
      PROVE  session'[SessionOf(q)].doneWait = "closed"
  <2>1. SessionOf(q) \in Sessions /\ session[SessionOf(q)].state \in {"oncommit", "onrollback"}
    BY Zenon, <1>1 DEF Endings, Ending, Stages
  <2>2. CASE Plain(p)
    BY Zenon, <1>1, <2>1, <2>2, SessionSteps DEF SameSessions
  <2>3. CASE HandleBegin(p)
    <3>1. session[SessionOf(p)].state = "none"
      BY <2>3 DEF HandleBegin, Handles, Begins
    <3>2. QED  BY Zenon, <1>1, <2>1, <2>3, <3>1, SessionSteps DEF Becomes
  <2>4. CASE RequestDone(p)
    <3>1. session[SessionOf(p)].state = "inflight"
      BY Zenon, <2>4 DEF RequestDone, Accepted
    <3>2. QED  BY Zenon, <1>1, <2>1, <2>4, <3>1, SessionSteps DEF Becomes
  <2>5. CASE HandleTxnMessage(p) \/ EndDone(p)
    BY Zenon, <1>1, <2>1, <2>5, SessionSteps DEF Becomes
  <2>6. CASE BodyFailed(p) \/ BodyDone(p)
    BY Zenon, <1>1, <2>1, <2>6, SessionSteps DEF Becomes, Less
  <2>7. QED  BY Zenon, <2>2, <2>3, <2>4, <2>5, <2>6 DEF TxnAppendStep, Plain, BeginPanics
<1>2. ASSUME NEW q \in Appenders, q # p, Ending(q)', stage'[q] = "handled"
      PROVE  session'[SessionOf(q)'].doneWait = "closed"
  <2>1. Ending(q) /\ stage[q] = "handled" /\ SessionOf(q)' = SessionOf(q)
    BY Zenon, <1>0, <1>2 DEF OthersKeep, Ending, SessionOf
  <2>2. QED  BY Zenon, <1>1, <1>2, <2>1 DEF Waited
<1>3. ASSUME Ending(p)', stage'[p] = "handled"
      PROVE  session'[SessionOf(p)'].doneWait = "closed"
  <2>1. Proceeds(p)
    BY Zenon, <1>0, <1>3 DEF Starts, Leaves, Ending
  <2>2. Ending(p) /\ ~EndDone(p) /\ SessionOf(p)' = SessionOf(p)
    BY Zenon, <1>3, <2>1 DEF Proceeds, RequestDone, TxnFunctions
  <2>3. stage[p] = "handled" \/ WaitDone(p)
    <3>1. CASE stage[p] = "waiting"
      BY Zenon, <1>3, <2>2, <3>1
         DEF TxnAppendStep, StartMessage, StartAppend, GiveUpMessage, GiveUp,
         AllocateMessage, AllocateAcker, HandleBegin, HandleTxnMessage, RequestDone, Refuse, Handles,
         WaitCancelled, ReturnError, WriteMessage, BodyFailed, BodyDone, EndDone, MarkMessage,
         AckMessage, BeginPanics, Ending, Stages, TxnFunctions
    <3>2. QED  BY Zenon, <2>2, <3>1 DEF Ending
  <2>4. session[SessionOf(p)].doneWait = "closed"
    BY Zenon, <2>2, <2>3 DEF Waited, WaitDone
  <2>5. QED  BY Zenon, <1>1, <2>2, <2>4
<1>4. QED  BY Zenon, <1>2, <1>3 DEF Waited, SessionOf

(* A session that let a message in is not dropped before the message is      *)
(* acknowledged: the time ticks that clean up are behind the message.        *)
LEMMA RegisteredStep ==
  ASSUME Countable, Inv, TxnInv, Spoils, Exact, Waits, Registered, TxnNext, ~LoseSessions
  PROVE  Registered'
<1>0. TxnFunctions /\ Stages /\ Leases
  BY TxnTyped DEF TxnInv
<1>1. ASSUME NEW q \in Appenders, Going(q), pc[q] = "append", SessionOf(q) \notin spoilt
      PROVE  /\ SessionOf(q) \in sessions /\ SessionOf(q) \in Sessions
             /\ \A ts \in ackDetails : ~IsExpiredOrDone(SessionOf(q), ts)
  <2> DEFINE s == SessionOf(q)
  <2>1. s \in Sessions /\ q \in Bodies(s)
    BY Zenon, <1>0, <1>1 DEF Going, Stages, Spoils, Bodies
  <2>2. session[s].state \notin {"committed", "rollbacked"}
    <3>1. session[s].inFlightCount # 0
      <4>1. session[s].inFlightCount = Cardinality(Bodies(s)) /\ Bodies(s) # {}
        BY <1>1, <2>1 DEF Exact
      <4>2. QED  BY Zenon, <4>1, BodiesCounted
    <3>2. QED  BY Zenon, <1>1, <2>1, <3>1 DEF Waits, WaitsFor
  <2>3. acker[q] \in DOMAIN detail /\ ~detail[acker[q]].acknowledged
    BY Zenon, <1>1 DEF Inv, Owners, Holds
  <2>4. \A ts \in ackDetails : ts <= lastConfirmedTimeTick /\ lastConfirmedTimeTick < acker[q]
    BY Zenon, <2>3 DEF Inv, Heaps
  <2>5. \A ts \in ackDetails : ts \in Nat /\ lastConfirmedTimeTick \in Nat /\ acker[q] \in Nat
    BY Zenon, <1>0 DEF Inv, TypeOK, TxnFunctions
  <2>6. acker[q] < session[s].lastTimetick + Keepalive /\ session[s].lastTimetick \in Nat
    BY <1>0, <1>1, <2>1 DEF Leases, expiredTimeTick, TxnFunctions, TxnSessionType
  <2>7. \A ts \in ackDetails : ~(session[s].lastTimetick + Keepalive <= ts)
    <3>1. ASSUME NEW ts \in ackDetails
          PROVE  ~(session[s].lastTimetick + Keepalive <= ts)
      <4>1. /\ ts \in Nat /\ ts <= lastConfirmedTimeTick /\ lastConfirmedTimeTick < acker[q]
            /\ lastConfirmedTimeTick \in Nat /\ acker[q] \in Nat
        BY Zenon, <2>4, <2>5
      <4> DEFINE last == session[s].lastTimetick
      <4>2. last \in Nat /\ acker[q] < last + Keepalive
        BY Zenon, <2>6
      <4> HIDE DEF last, s
      <4>3. ~(last + Keepalive <= ts)
        BY <4>1, <4>2, KeepaliveAssumption
      <4>4. QED  BY <4>3 DEF last
    <3>2. QED  BY Zenon, <3>1
  <2>8. QED  BY Zenon, <1>1, <2>1, <2>2, <2>7 DEF Registered, IsExpiredOrDone, expiredTimeTick
<1>2. ASSUME NEW p \in Appenders, TxnAppendStep(p)
      PROVE  Registered'
  <2>1. OthersKeep(p) /\ (Starts(p) \/ Leaves(p) \/ Proceeds(p))
    BY Zenon, <1>0, <1>2, MessagesKeep, OwnSteps
  <2>a. spoilt \subseteq spoilt'
    BY Zenon, <1>2, SpoiltGrows
  <2>2. sessions \subseteq sessions'
    BY Zenon, <1>2 DEF TxnAppendStep, StartMessage, GiveUpMessage, AllocateMessage, HandleBegin,
       HandleTxnMessage, RequestDone, Refuse, WaitDone, WaitCancelled, WriteMessage, BodyFailed,
       BodyDone, EndDone, MarkMessage, AckMessage, BeginPanics, txnVars, sessionVars
  <2>3. ASSUME NEW q \in Appenders, q # p, Going(q)', pc'[q] = "append", SessionOf(q)' \notin spoilt'
        PROVE  SessionOf(q)' \in sessions'
    <3>1. Going(q) /\ pc[q] = "append" /\ SessionOf(q)' = SessionOf(q)
      BY Zenon, <2>1, <2>3 DEF OthersKeep, Going, SessionOf
    <3>2. QED  BY Zenon, <1>1, <2>2, <2>3, <2>a, <3>1
  <2>4. ASSUME Going(p)', pc'[p] = "append", SessionOf(p)' \notin spoilt'
        PROVE  SessionOf(p)' \in sessions'
    <3>1. /\ Going(p) \/ HandleTxnMessage(p)
          /\ SessionOf(p)' = SessionOf(p)
      BY Zenon, <2>1, <2>4 DEF Starts, Leaves, Proceeds, Going
    <3>2. CASE HandleTxnMessage(p)
      BY <2>2, <3>1, <3>2 DEF HandleTxnMessage, Accepted
    <3>3. CASE Going(p) /\ ~HandleTxnMessage(p)
      <4>1. pc[p] = "append"
        <5>1. pc[p] # "allocate" /\ pc[p] # "idle"
          BY Zenon, <1>0, <3>3 DEF Going, Stages, Holds
        <5>2. ~AllocateMessage(p)
          BY Zenon, <5>1 DEF AllocateMessage, AllocateAcker
        <5>3. \A barrier, k, s : ~StartMessage(p, barrier, k, s)
          BY Zenon, <5>1 DEF StartMessage, StartAppend
        <5>4. CASE GiveUpMessage(p) \/ AckMessage(p)
          BY Zenon, <1>0, <2>4, <5>4 DEF GiveUpMessage, GiveUp, AckMessage, AckAcker, TxnFunctions
        <5>5. CASE Refuse(p) \/ WaitCancelled(p) \/ WriteMessage(p)
          BY Zenon, <5>5 DEF Refuse, WaitCancelled, WriteMessage, ReturnError, AppendMsg
        <5>6. CASE MarkMessage(p)
          BY Zenon, <1>0, <2>4, <5>6 DEF MarkMessage, MarkAcker, TxnFunctions
        <5>7. CASE \/ HandleBegin(p) \/ RequestDone(p) \/ WaitDone(p) \/ BodyFailed(p) \/ BodyDone(p)
                   \/ EndDone(p)
          BY Zenon, <2>4, <5>7
             DEF HandleBegin, RequestDone, WaitDone, BodyFailed, BodyDone, EndDone, vars,
             appenderVars
        <5>8. QED  BY Zenon, <1>2, <3>3, <5>2, <5>3, <5>4, <5>5, <5>6, <5>7
                      DEF TxnAppendStep, BeginPanics
      <4>2. QED  BY Zenon, <1>1, <2>2, <2>4, <2>a, <3>1, <3>3, <4>1
    <3>4. QED  BY <3>1, <3>2, <3>3
  <2>5. QED  BY Zenon, <2>3, <2>4 DEF Registered, SessionOf
<1>3. CASE TxnSyncStep \/ Untouched(FirstTimeTick) \/ GracefulClose
  <2>1. UNCHANGED <<session, kind, stage, pc, request, spoilt>>
    BY Zenon, <1>3, QuietSteps DEF Quiet
  <2>2. \A q \in Appenders : Going(q) /\ pc[q] = "append" /\ SessionOf(q) \notin spoilt =>
          SessionOf(q) \in sessions'
    <3>1. CASE SendTimeTick
      BY <1>1, <3>1 DEF SendTimeTick, CleanupTxnUntil, txnVars, sessionVars
    <3>2. CASE ~SendTimeTick
      BY Zenon, <1>1, <1>3, <3>2 DEF TxnSyncStep, Untouched, GracefulClose, txnVars, sessionVars
    <3>3. QED  BY Zenon, <3>1, <3>2
  <2>3. QED  BY Zenon, <2>1, <2>2 DEF Registered, Going, SessionOf
<1>4. QED  BY <1>2, <1>3 DEF TxnNext, CloseWAL

(* Every step keeps the count of the transactions that are not spoilt exact. *)
LEMMA ExactKeeps ==
  ASSUME Countable, Inv, TxnInv, ExactInv, [TxnNext]_<<vars, txnVars>>
  PROVE  ExactInv'
<1>0. /\ TxnFunctions /\ Stages /\ Begins /\ Endings
      /\ Spoils /\ Exact /\ Waits /\ Waited /\ Registered
  BY TxnTyped DEF TxnInv, ExactInv
<1>1. CASE LoseSessions
  <2>1. /\ \A p \in Appenders : kind'[p] = "none" /\ stage'[p] = "none"
        /\ spoilt' = spoilt
    BY Zenon, <1>1 DEF LoseSessions
  <2>2. \A s \in Sessions : Bodies(s)' = {}
    BY Zenon, <2>1 DEF Bodies
  <2>3. \A s \in Sessions \ spoilt : WaitsFor(s)' /\ session'[s].inFlightCount = 0
    <3>1. ASSUME NEW s \in Sessions \ spoilt, session[s].state = "none"
          PROVE  WaitsFor(s)' /\ session'[s].inFlightCount = 0
      <4>1. session'[s] = session[s]
        BY <1>1, <3>1 DEF LoseSessions
      <4>2. QED  BY Zenon, <1>0, <3>1, <4>1 DEF Waits, WaitsFor
    <3>2. ASSUME NEW s \in Sessions \ spoilt, session[s].state # "none"
          PROVE  WaitsFor(s)' /\ session'[s].inFlightCount = 0
      <4>1. session'[s] = [NoTxnSession EXCEPT !.state = "rollbacked"]
        BY <1>1, <3>2 DEF LoseSessions
      <4>2. QED  BY <4>1 DEF NoTxnSession, WaitsFor
    <3>3. QED  BY <3>1, <3>2
  <2>4. Exact'
    BY Zenon, <2>1, <2>2, <2>3 DEF Exact, Countable
  <2>5. Waits'
    BY Zenon, <2>1, <2>3 DEF Waits
  <2>6. Spoils' /\ Waited' /\ Registered'
    BY Zenon, <2>1 DEF Spoils, Waited, Registered, Ending, Going
  <2>7. QED  BY Zenon, <2>4, <2>5, <2>6 DEF ExactInv
<1>2. CASE ~LoseSessions /\ TxnNext
  <2>1. Registered'
    BY Zenon, <1>0, <1>2, RegisteredStep
  <2>2. ASSUME NEW p \in Appenders, TxnAppendStep(p)
        PROVE  Spoils' /\ Exact' /\ Waits' /\ Waited'
    <3>1. Exact' /\ Waits'
      BY Zenon, <1>0, <1>2, <2>2, CountStep DEF Exact, Waits
    <3>2. Spoils' /\ Waited'
      BY Zenon, <1>0, <1>2, <2>2, SpoilsStep, WaitedStep
    <3>3. QED  BY <3>1, <3>2
  <2>3. CASE TxnSyncStep \/ Untouched(FirstTimeTick) \/ GracefulClose
    <3>1. UNCHANGED <<session, kind, stage, request, spoilt>>
      BY <2>3, QuietSteps DEF Quiet
    <3>2. Spoils' /\ Exact' /\ Waits' /\ Waited'
      BY Zenon, <1>0, <3>1 DEF Spoils, Exact, Bodies, Waits, WaitsFor, Waited, Ending, SessionOf
    <3>3. QED  BY <2>1, <3>2 DEF ExactInv
  <2>4. QED  BY Zenon, <1>2, <2>1, <2>2, <2>3 DEF TxnNext, CloseWAL, ExactInv
<1>3. CASE UNCHANGED <<vars, txnVars>>
  <2>1. UNCHANGED <<session, sessions, kind, stage, request, pc, spoilt>>
    BY <1>3 DEF vars, txnVars, sessionVars, appenderVars
  <2>2. Spoils' /\ Exact' /\ Waits' /\ Waited' /\ Registered'
    BY Zenon, <1>0, <2>1
       DEF Spoils, Exact, Bodies, Waits, WaitsFor, Waited, Registered, Ending, Going, SessionOf
  <2>3. QED  BY Zenon, <2>2 DEF ExactInv
<1>4. QED  BY <1>1, <1>2, <1>3

(* It holds at the start.                                                    *)
LEMMA ExactInit ==
  ASSUME TxnInit, Countable
  PROVE  ExactInv
<1>1. \A s \in Sessions : session[s] = NoTxnSession
  BY DEF TxnInit
<1>2. \A p \in Appenders : kind[p] = "none" /\ stage[p] = "none" /\ pc[p] = "idle"
  BY Zenon DEF TxnInit, Init
<1>3. \A s \in Sessions : Bodies(s) = {}
  BY <1>2 DEF Bodies
<1>4. \A s \in Sessions : session[s].inFlightCount = 0 /\ session[s].doneWait = "nil"
  <2>1. NoTxnSession.inFlightCount = 0 /\ NoTxnSession.doneWait = "nil"
    BY DEF NoTxnSession
  <2>2. QED  BY Zenon, <1>1, <2>1
<1>5. Exact
  BY Zenon, <1>3, <1>4 DEF Exact, Countable
<1>6. Waits
  BY <1>4 DEF Waits, WaitsFor
<1>7. Spoils /\ Waited /\ Registered
  BY Zenon, <1>2 DEF Spoils, Waited, Registered, Ending, Going
<1>8. QED  BY <1>5, <1>6, <1>7 DEF ExactInv

(* A commit or rollback whose wait is over finds no body message under way.  *)
LEMMA NoneUnderWay ==
  ASSUME TxnInv, ExactInv, Countable
  PROVE  CommitWaits
<1>1. SUFFICES ASSUME NEW p \in Appenders, NEW q \in Appenders,
                      kind[p] \in {"commit", "rollback"}, stage[p] = "handled", SessionOf(p) \notin spoilt,
                      InFlight(q, SessionOf(p))
               PROVE  FALSE
  BY DEF CommitWaits
<1>2. SessionOf(p) \in Sessions \ spoilt
  BY Zenon, <1>1 DEF TxnInv, Stages
<1>3. session[SessionOf(p)].inFlightCount = 0
  BY Zenon, <1>1, <1>2 DEF ExactInv, Waited, Waits, WaitsFor, Ending
<1>4. Bodies(SessionOf(p)) = {}
  BY Zenon, <1>2, <1>3, BodiesCounted DEF ExactInv, Exact
<1>5. QED  BY Zenon, <1>1, <1>4 DEF InFlight, Bodies

(* The session of a body message under way is registered and goes on.        *)
LEMMA SessionGoesOn ==
  ASSUME TxnInv, ExactInv, Countable
  PROVE  CleanupRegistrable
<1>1. SUFFICES ASSUME NEW p \in Appenders, NEW s \in Sessions \ spoilt, InFlight(p, s)
               PROVE  s \in sessions /\ ~IsExpiredOrDone(s, acker[p])
  BY DEF CleanupRegistrable
<1>2. Going(p) /\ pc[p] = "append" /\ SessionOf(p) = s /\ p \in Bodies(s)
  BY Zenon, <1>1 DEF InFlight, Going, Bodies
<1>3. s \in sessions
  BY <1>1, <1>2 DEF ExactInv, Registered
<1>4. session[s].state \notin {"committed", "rollbacked"}
  <2>1. session[s].inFlightCount # 0
    <3>1. session[s].inFlightCount = Cardinality(Bodies(s)) /\ Bodies(s) # {}
      BY <1>1, <1>2 DEF ExactInv, Exact
    <3>2. QED  BY Zenon, <3>1, BodiesCounted
  <2>2. QED  BY Zenon, <1>1, <2>1 DEF ExactInv, Waits, WaitsFor
<1>5. acker[p] \in Nat /\ session[s].lastTimetick \in Nat
  <2>1. acker \in [Appenders -> Nat] /\ session[s] \in TxnSessionType
    BY Zenon, <1>1, TxnTyped DEF TxnInv, TxnFunctions
  <2>2. QED  BY <2>1 DEF TxnSessionType
<1>6. acker[p] < session[s].lastTimetick + Keepalive
  BY Zenon, <1>2 DEF TxnInv, Leases, expiredTimeTick
<1>7. ~(session[s].lastTimetick + Keepalive <= acker[p])
  BY <1>5, <1>6, KeepaliveAssumption
<1>8. QED  BY Zenon, <1>3, <1>4, <1>7 DEF IsExpiredOrDone, expiredTimeTick

-----------------------------------------------------------------------------
(* The sessions over at a time tick are sessions.                           *)
LEMMA OverAreSessions ==
  ASSUME NEW ts
  PROVE  OverAt(ts) \in SUBSET Sessions
BY Zenon DEF OverAt

(* A step of a message with its transaction is a step of TimeTick's         *)
(* appender, or changes nothing of TimeTick.                                *)
LEMMA TxnAppendStepIsStep ==
  ASSUME NEW p \in Appenders, TxnAppendStep(p)
  PROVE  Next \/ UNCHANGED vars
<1>1. ASSUME NEW barrier \in Barriers \cup {0}, NEW k, NEW s \in Sessions \cup {NoSession},
             StartMessage(p, barrier, k, s)
      PROVE  Next
  <2>1. StartAppend(p, barrier, s)
    BY Zenon, <1>1 DEF StartMessage
  <2>2. QED  BY Zenon, <2>1 DEF Next, AppendStep
<1>2. CASE GiveUpMessage(p)
  BY Zenon, <1>2 DEF GiveUpMessage, Next, AppendStep
<1>3. CASE AllocateMessage(p)
  BY Zenon, <1>3 DEF AllocateMessage, Next, AppendStep
<1>4. CASE HandleBegin(p) \/ HandleTxnMessage(p) \/ RequestDone(p) \/ WaitDone(p)
  BY <1>4 DEF HandleBegin, HandleTxnMessage, RequestDone, WaitDone
<1>5. CASE Refuse(p) \/ WaitCancelled(p) \/ WriteMessage(p)
  <2>1. AppendMsg(p)
    BY <1>5 DEF Refuse, WaitCancelled, WriteMessage, ReturnError
  <2>2. QED  BY <2>1 DEF Next, AppendStep
<1>6. CASE BodyFailed(p) \/ BodyDone(p) \/ EndDone(p)
  BY Zenon, <1>6 DEF BodyFailed, BodyDone, EndDone
<1>7. CASE MarkMessage(p)
  BY <1>7 DEF MarkMessage, Next, AppendStep
<1>8. CASE AckMessage(p)
  <2>1. AckAcker(p, OverAt(lastConfirmedTimeTick'))
    BY <1>8 DEF AckMessage
  <2>2. QED  BY Zenon, <2>1, OverAreSessions DEF Next, AppendStep
<1>9. CASE BeginPanics(p)
  BY <1>9 DEF BeginPanics, LoseSessions, Next
<1>10. QED  BY Zenon, <1>1, <1>2, <1>3, <1>4, <1>5, <1>6, <1>7, <1>8, <1>9 DEF TxnAppendStep

(* So is every step of a WAL with transactions.                             *)
LEMMA TxnNextIsStep ==
  ASSUME [TxnNext]_<<vars, txnVars>>
  PROVE  [Next]_vars
<1>1. CASE \E p \in Appenders : TxnAppendStep(p)
  BY <1>1, TxnAppendStepIsStep
<1>2. CASE TxnSyncStep
  <2>1. CASE Untouched(SyncAck(OverAt(lastConfirmedTimeTick')))
    BY <2>1, OverAreSessions DEF Untouched, Next, SyncStep
  <2>2. CASE SendTimeTick
    BY <2>2 DEF SendTimeTick, Next, SyncStep
  <2>3. CASE \/ Untouched(SyncAllocate) \/ Untouched(SyncAllocateFail) \/ Untouched(SyncMark)
             \/ Untouched(SyncTake) \/ Untouched(NotifyPersisted)
    BY <2>3 DEF Untouched, Next, SyncStep
  <2>4. QED  BY Zenon, <1>2, <2>1, <2>2, <2>3 DEF TxnSyncStep
<1>3. CASE Untouched(FirstTimeTick)
  BY <1>3 DEF Untouched, Next
<1>4. CASE GracefulClose
  BY <1>4 DEF GracefulClose
<1>5. CASE CloseWAL
  BY <1>5 DEF CloseWAL, LoseSessions, Next
<1>6. CASE UNCHANGED <<vars, txnVars>>
  BY <1>6
<1>7. QED  BY Zenon, <1>1, <1>2, <1>3, <1>4, <1>5, <1>6 DEF TxnNext

(* Composed with the transaction sessions, the append path and the sync     *)
(* goroutine of the interceptor take only steps that TimeTick allows.       *)
THEOREM TxnImplementsTimeTick == TxnSpec => ImplementsTimeTick
<1>1. TxnInit => Init
  BY DEF TxnInit
<1>2. [TxnNext]_<<vars, txnVars>> => [Next]_vars
  BY TxnNextIsStep
<1>3. QED  BY <1>1, <1>2, PTL DEF TxnSpec, Spec, ImplementsTimeTick

(* Hence with transactions too: after a time tick no message with a smaller *)
(* or equal one is written, and no entry's last confirmed id skips a later  *)
(* message.                                                                 *)
THEOREM TxnKeepsPrinciples ==
  TxnSpec => [](TimeTickPrinciple /\ NotifierPrinciple /\ LastConfirmedPrinciple)
BY TxnImplementsTimeTick, TimeTickPrincipleHolds, NotifierPrincipleHolds,
   LastConfirmedPrincipleHolds, PTL DEF ImplementsTimeTick

(* And to the scanners a WAL with transactions is a WatermarkLog.           *)
THEOREM TxnImplementsWatermarkLog == TxnSpec => ImplementsWatermarkLog
BY TxnImplementsTimeTick, ImplementsWatermarkLogHolds, PTL DEF ImplementsTimeTick

-----------------------------------------------------------------------------
(* The sessions. *)

(* TimeTick's invariant holds with transactions too.                         *)
LEMMA InvWithTxn == TxnSpec => []Inv
BY TxnImplementsTimeTick, InvHolds, PTL DEF ImplementsTimeTick

(* The invariant of the sessions, for any number of appenders and sessions,  *)
(* over failed appends, expired leases, crashes and graceful shutdowns.      *)
THEOREM TxnInvariant == TxnSpec => []TxnInv
<1>1. TxnInit => TxnInv
  BY Zenon, InitHolds, TxnInitHolds DEF TxnInit, Inv
<1>2. TxnInv /\ Inv' /\ [TxnNext]_<<vars, txnVars>> => TxnInv'
  BY TxnNextKeeps DEF Inv
<1>3. QED  BY <1>1, <1>2, InvWithTxn, PTL DEF TxnSpec

(* Every variable keeps its type: only sessions are registered, and only     *)
(* sessions are handed to clients.                                           *)
THEOREM TxnTypeCorrect == TxnSpec => []TxnTypeOK
<1>1. TxnInv => TxnTypeOK
  BY Zenon DEF TxnInv
<1>2. QED  BY <1>1, TxnInvariant, PTL

(* The panics of CommitDone and RollbackDone are unreachable: a commit or    *)
(* rollback that is written finds its session in the state it asked for.     *)
THEOREM EndsOnceHolds == TxnSpec => []EndsOnce
<1>1. TxnInv => EndsOnce
  BY DEF TxnInv, EndsOnce, Endings, Ending
<1>2. QED  BY <1>1, TxnInvariant, PTL

(* No message refreshes a lease that updateLastConfirmedMessageID has        *)
(* counted as over, and no such session comes back.                          *)
THEOREM OverForGoodHolds == TxnSpec => OverForGood
<1>1. Inv /\ Inv' /\ TxnInv /\ [TxnNext]_<<vars, txnVars>> => [StaysOver]_<<vars, txnVars>>
  <2>1. ASSUME Inv, Inv', TxnInv, TxnNext, ready, ready'
        PROVE  OverAt(lastConfirmedTimeTick) \subseteq OverAt(lastConfirmedTimeTick)'
    <3>1. lastConfirmedTimeTick \in Nat
      BY Zenon, <2>1 DEF Inv, TypeOK
    <3>2. lastConfirmedTimeTick' >= lastConfirmedTimeTick
      BY <2>1, <3>1, TxnNextIsStep, StepForward DEF Forward, vars, managerVars
    <3>3. QED  BY Zenon, <2>1, <3>2, OverStays
  <2>2. QED  BY <2>1 DEF StaysOver
<1>2. QED  BY <1>1, InvWithTxn, TxnInvariant, PTL DEF TxnSpec, OverForGood, StaysOver

F == INSTANCE FiniteSetTheorems

(* Finitely many appenders can be counted.                                   *)
LEMMA AppendersCountable == Countable
<1>0. /\ \A A : F!IsFiniteSet(A) <=> IsFiniteSet(A)
      /\ \A A : F!Cardinality(A) = Cardinality(A)
  <2>1. ASSUME NEW A PROVE F!IsFiniteSet(A) <=> IsFiniteSet(A)
    BY Zenon DEF F!IsFiniteSet, IsFiniteSet
  <2>2. ASSUME NEW A PROVE F!Cardinality(A) = Cardinality(A)
    BY Zenon DEF F!Cardinality, Cardinality
  <2>3. QED  BY Zenon, <2>1, <2>2
<1>1. Cardinality({}) = 0
  BY Zenon, <1>0, F!FS_EmptySet
<1>2. ASSUME NEW A \in SUBSET Appenders
      PROVE  /\ Cardinality(A) \in Nat
             /\ Cardinality(A) = 0 <=> A = {}
             /\ \A p \in Appenders \ A : Cardinality(A \cup {p}) = Cardinality(A) + 1
             /\ \A p \in A : Cardinality(A \ {p}) = Cardinality(A) - 1
  <2>1. F!IsFiniteSet(A)
    BY Zenon, <1>0, AppendersAssumption, F!FS_Subset
  <2>2. Cardinality(A) \in Nat
    BY Zenon, <1>0, <2>1, F!FS_CardinalityType
  <2>3. Cardinality(A) = 0 <=> A = {}
    BY Zenon, <1>0, <2>1, F!FS_EmptySet
  <2>4. \A p \in Appenders \ A : Cardinality(A \cup {p}) = Cardinality(A) + 1
    BY Zenon, <1>0, <2>1, F!FS_AddElement
  <2>5. \A p \in A : Cardinality(A \ {p}) = Cardinality(A) - 1
    BY Zenon, <1>0, <2>1, F!FS_RemoveElement
  <2>6. QED  BY Zenon, <2>2, <2>3, <2>4, <2>5
<1>3. QED  BY Zenon, <1>1, <1>2 DEF Countable

(* Of a transaction none of whose appends failed, the count in flight is     *)
(* exact: over any number of transactions, failures, leases that run out,    *)
(* cancelled waits, crashes and graceful shutdowns.                          *)
THEOREM CountExact == TxnSpec => []ExactInv
<1>1. TxnInit => ExactInv
  BY Zenon, ExactInit, AppendersCountable
<1>2. Inv /\ TxnInv /\ ExactInv /\ [TxnNext]_<<vars, txnVars>> => ExactInv'
  BY Zenon, ExactKeeps, AppendersCountable
<1>3. QED  BY <1>1, <1>2, InvWithTxn, TxnInvariant, PTL DEF TxnSpec

(* RequestCommitAndWait and RequestRollback wait for all messages: when a    *)
(* commit or rollback is written, none of its transaction is on its way,     *)
(* unless the append of one has failed.                                      *)
THEOREM CommitWaitsHolds == TxnSpec => []CommitWaits
<1>1. TxnInv /\ ExactInv => CommitWaits
  BY Zenon, NoneUnderWay, AppendersCountable
<1>2. QED  BY <1>1, CountExact, TxnInvariant, PTL

(* RegisterCleanup's panic is unreachable: while a message goes through the  *)
(* other interceptors its session is registered, alive and not done, unless  *)
(* the append of one of its messages has failed.                             *)
THEOREM CleanupRegistrableHolds == TxnSpec => []CleanupRegistrable
<1>1. TxnInv /\ ExactInv => CleanupRegistrable
  BY SessionGoesOn, AppendersCountable
<1>2. QED  BY <1>1, CountExact, TxnInvariant, PTL
================================================================================
