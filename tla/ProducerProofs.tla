---------------------------- MODULE ProducerProofs ----------------------------
(***************************************************************************)
(* For any number of calls and faults: a call of Produce that waits is on  *)
(* record in a producer that will still tell it, and a call that returns a *)
(* result has its message in the log.                                      *)
(*                                                                         *)
(* The invariant says that the records of a producer that has not finished *)
(* are exactly the calls that wait on it, that a producer which has        *)
(* finished has no arm left, and that the answers under way are true.      *)
(***************************************************************************)
EXTENDS Producer, TLAPS

CallStates == {"get", "offer", "wait", "done", "failed"}

Answers == [call : Calls, ok : BOOLEAN]

TypesOK ==
  /\ call \in [Calls -> CallStates] /\ on \in [Calls -> Streams \cup {NoStream}]
  /\ cur \in Streams \cup {NoStream}
  /\ send \in [Streams -> {"none", "run", "exited"}]
  /\ recv \in [Streams -> {"none", "run", "eof", "error"}]
  /\ finished \in [Streams -> BOOLEAN]
  /\ pending \in [Streams -> SUBSET Calls]

Endings == ended \in [Streams -> {"no", "eof", "error"}]

LogTypes ==
  /\ up \in [Streams -> Seq(Calls)] /\ down \in [Streams -> Seq(Answers)]
  /\ checked \in [Streams -> SUBSET Calls] /\ appending \in [Streams -> SUBSET Calls]
  /\ log \in [Calls -> Nat]

(* A call is offered to a producer that there is, and waits on record.      *)
OnRecord ==
  \A c \in Calls :
    /\ call[c] \in {"offer", "wait"} => on[c] \in Streams
    /\ call[c] = "wait" => c \in pending[on[c]] /\ ~finished[on[c]]

(* What is on record of a producer that has not finished waits on it.       *)
RecordsWait ==
  \A s \in Streams, c \in Calls :
    c \in pending[s] /\ ~finished[s] => call[c] = "wait" /\ on[c] = s

(* A producer that has finished has no arm that works, and one that was not *)
(* created yet has none either.                                             *)
FinishedExited ==
  \A s \in Streams :
    /\ finished[s] => send[s] = "exited" /\ recv[s] \in {"eof", "error"}
    /\ s > cur => send[s] = "none" /\ recv[s] = "none"

(* An answer without error is about a message in the log.                   *)
AnswersTrue ==
  \A s \in Streams : \A i \in 1..Len(down[s]) : down[s][i].ok => log[down[s][i].call] > 0

RecordInv == TypesOK /\ OnRecord /\ RecordsWait /\ FinishedExited

AckInv == LogTypes /\ AnswersTrue /\ AckedPersisted

------------------------------------------------------------------------------
(* The records. *)

(* Steps of the server, of the network and of Close touch no record.        *)
LEMMA RecordsUntouched ==
  ASSUME RecordInv, UNCHANGED <<call, on, cur, send, recv, finished, pending>>
  PROVE  RecordInv'
BY DEF RecordInv, TypesOK, OnRecord, RecordsWait, FinishedExited

(* No call is made, no producer exists.                                     *)
LEMMA InitRecords == Init => RecordInv
<1> SUFFICES ASSUME Init PROVE RecordInv
  OBVIOUS
<1>1. TypesOK
  BY DEF Init, TypesOK, CallStates
<1>2. OnRecord /\ RecordsWait
  BY DEF Init, OnRecord, RecordsWait
<1>3. FinishedExited
  BY DEF Init, FinishedExited
<1> QED
  BY <1>1, <1>2, <1>3 DEF RecordInv

(* A call c that is not on record moves to another state without waiting,   *)
(* and producers keep what they have, or one of their send arms exits.      *)
LEMMA CallMoves ==
  ASSUME RecordInv, NEW c \in Calls, call[c] # "wait",
         NEW k \in CallStates \ {"wait"}, call' = [call EXCEPT ![c] = k],
         NEW t \in Streams, k = "offer" => on'[c] = t,
         on' \in {on, [on EXCEPT ![c] = t]},
         UNCHANGED <<cur, recv, finished, pending>>,
         send' = send \/ (send[t] = "run" /\ send' = [send EXCEPT ![t] = "exited"])
  PROVE  RecordInv'
<1>0. TypesOK /\ OnRecord /\ RecordsWait /\ FinishedExited
  BY DEF RecordInv
<1>1. /\ \A d \in Calls : d # c => call'[d] = call[d] /\ on'[d] = on[d]
      /\ call'[c] = k /\ call' \in [Calls -> CallStates] /\ on' \in [Calls -> Streams \cup {NoStream}]
  BY <1>0 DEF TypesOK
<1>2. \A s \in Streams : send'[s] = send[s] \/ (s = t /\ send[s] = "run" /\ send'[s] = "exited")
  BY <1>0 DEF TypesOK
<1>3. TypesOK'
  BY <1>0, <1>1 DEF TypesOK
<1>4. OnRecord'
  BY <1>0, <1>1 DEF OnRecord
<1>5. RecordsWait'
  BY <1>0, <1>1 DEF RecordsWait
<1>6. FinishedExited'
  BY <1>0, <1>2 DEF FinishedExited
<1> QED
  BY <1>3, <1>4, <1>5, <1>6 DEF RecordInv

(* The steps of a call: getting a producer, offering the request, sending.  *)
LEMMA CallStepRecords ==
  ASSUME RecordInv, NEW c \in Calls, CallStep(c)
  PROVE  RecordInv'
<1>0. /\ TypesOK /\ OnRecord /\ RecordsWait /\ FinishedExited
      /\ call \in [Calls -> CallStates] /\ on \in [Calls -> Streams \cup {NoStream}]
      /\ send \in [Streams -> {"none", "run", "exited"}]
  BY DEF RecordInv, TypesOK
<1>1. call[c] = "offer" => on[c] \in Streams
  BY <1>0 DEF OnRecord
<1>2. CASE GetProducerAfterAvailable(c)
  <2>1. cur \in Streams
    BY <1>0, <1>2 DEF GetProducerAfterAvailable, Available, TypesOK
  <2>2. /\ call[c] = "get" /\ call' = [call EXCEPT ![c] = "offer"] /\ on' = [on EXCEPT ![c] = cur]
        /\ UNCHANGED <<cur, send, recv, finished, pending>>
    BY <1>2 DEF GetProducerAfterAvailable, resumeVars, armVars
  <2>3. on'[c] = cur /\ "offer" \in CallStates \ {"wait"}
    BY <1>0, <2>2 DEF CallStates
  <2>4. PICK t \in Streams : t = cur
    BY <2>1
  <2> QED
    BY Zenon, <2>2, <2>3, <2>4, CallMoves
<1>3. CASE SendFails(c) \/ OfferFails(c)
  <2>1. /\ call[c] = "offer" /\ call' = [d \in Calls |-> IF d = c THEN "get" ELSE call[d]]
        /\ UNCHANGED <<on, cur, recv, finished, pending>>
        /\ send' = send \/ (send[on[c]] = "run" /\ send' = [send EXCEPT ![on[c]] = "exited"])
    BY <1>3 DEF SendFails, OfferFails, Retry, resumeVars, armVars
  <2>2. call' = [call EXCEPT ![c] = "get"] /\ "get" \in CallStates \ {"wait"}
    BY Zenon, <1>0, <2>1 DEF CallStates
  <2>3. PICK t \in Streams : t = on[c]
    BY <1>1, <2>1
  <2> QED
    BY <2>1, <2>2, <2>3, CallMoves
<1>4. CASE SendProduceMessage(c)
  <2> DEFINE s == on[c]
  <2>1. /\ call[c] = "offer" /\ send[s] = "run" /\ s \in Streams
        /\ call' = [call EXCEPT ![c] = "wait"]
        /\ pending' = [pending EXCEPT ![s] = pending[s] \cup {c}]
        /\ UNCHANGED <<on, cur, send, recv, finished>>
    BY <1>1, <1>4 DEF SendProduceMessage, resumeVars
  <2> HIDE DEF s
  <2>2. /\ \A d \in Calls : d # c => call'[d] = call[d]
        /\ call'[c] = "wait" /\ call' \in [Calls -> CallStates]
    BY <1>0, <2>1 DEF CallStates
  <2>3. /\ \A r \in Streams : r # s => pending'[r] = pending[r]
        /\ pending'[s] = pending[s] \cup {c} /\ pending' \in [Streams -> SUBSET Calls]
    BY <1>0, <2>1 DEF TypesOK
  <2>4. TypesOK'
    BY <1>0, <2>1, <2>2, <2>3 DEF TypesOK
  <2>5. ~finished[s]
    BY <1>0, <2>1 DEF FinishedExited
  <2>6. OnRecord'
    <3>1. c \in pending'[on[c]] /\ ~finished[on[c]] /\ on[c] \in Streams
      BY <2>1, <2>3, <2>5 DEF s
    <3>2. \A r \in Streams : pending[r] \subseteq pending'[r]
      BY <2>3
    <3> QED
      BY <1>0, <2>1, <2>2, <3>1, <3>2 DEF OnRecord
  <2>7. RecordsWait'
    <3>1. ASSUME NEW r \in Streams, NEW d \in Calls, d \in pending'[r], ~finished[r]
          PROVE  call'[d] = "wait" /\ on[d] = r
      <4>1. CASE d = c
        <5>1. call[d] # "wait"
          BY <2>1, <4>1
        <5>2. d \notin pending[r]
          BY <1>0, <3>1, <5>1 DEF RecordsWait
        <5>3. r = s
          BY <2>3, <3>1, <5>2
        <5> QED
          BY <2>2, <4>1, <5>3 DEF s
      <4>2. CASE d # c
        <5>1. d \in pending[r]
          BY <2>3, <3>1, <4>2
        <5> QED
          BY <1>0, <2>2, <3>1, <4>2, <5>1 DEF RecordsWait
      <4> QED
        BY <4>1, <4>2
    <3> QED
      BY <2>1, <3>1 DEF RecordsWait
  <2>8. FinishedExited'
    BY <1>0, <2>1 DEF FinishedExited
  <2> QED
    BY <2>4, <2>6, <2>7, <2>8 DEF RecordInv
<1> QED
  BY <1>2, <1>3, <1>4 DEF CallStep

(* The arms of a producer: recvLoop tells one call, execute tells all that  *)
(* are left.                                                                *)
LEMMA ClientStepRecords ==
  ASSUME RecordInv, Endings, NEW s \in Streams, ClientStep(s)
  PROVE  RecordInv'
<1>0. /\ TypesOK /\ OnRecord /\ RecordsWait /\ FinishedExited
      /\ call \in [Calls -> CallStates] /\ pending \in [Streams -> SUBSET Calls]
      /\ send \in [Streams -> {"none", "run", "exited"}]
      /\ recv \in [Streams -> {"none", "run", "eof", "error"}] /\ finished \in [Streams -> BOOLEAN]
  BY DEF RecordInv, TypesOK
<1>1. CASE OtherSendFails(s) \/ SendExits(s)
  <2>1. /\ send[s] = "run" /\ send' = [send EXCEPT ![s] = "exited"]
        /\ UNCHANGED <<call, on, cur, recv, finished, pending>>
    BY <1>1 DEF OtherSendFails, SendExits, callVars, resumeVars
  <2>2. \A r \in Streams : send'[r] = send[r] \/ (send[r] = "run" /\ send'[r] = "exited")
    BY <1>0, <2>1
  <2>3. FinishedExited'
    BY <1>0, <2>1, <2>2 DEF FinishedExited
  <2> QED
    BY <1>0, <2>1, <2>3 DEF RecordInv, TypesOK, OnRecord, RecordsWait
<1>2. CASE RecvEnds(s)
  <2>1. /\ recv[s] = "run" /\ recv' = [recv EXCEPT ![s] = ended[s]] /\ ended[s] # "no"
        /\ UNCHANGED <<call, on, cur, send, finished, pending>>
    BY <1>2 DEF RecvEnds, callVars, resumeVars
  <2>2. ~finished[s] /\ ~(s > cur)
    BY <1>0, <2>1 DEF FinishedExited
  <2>3. \A r \in Streams : r # s => recv'[r] = recv[r]
    BY <1>0, <2>1
  <2>4. FinishedExited'
    BY <1>0, <2>1, <2>2, <2>3 DEF FinishedExited
  <2>5. recv' \in [Streams -> {"none", "run", "eof", "error"}]
    BY <1>0, <2>1 DEF Endings
  <2> QED
    BY <1>0, <2>1, <2>4, <2>5 DEF RecordInv, TypesOK, OnRecord, RecordsWait
<1>3. CASE RecvProduce(s)
  <2> DEFINE c == Head(down[s]).call
  <2>1. /\ recv[s] = "run" /\ pending' = [pending EXCEPT ![s] = pending[s] \ {c}]
        /\ IF c \in pending[s] THEN \E k \in {"done", "get", "failed"} : call' = [call EXCEPT ![c] = k]
                               ELSE call' = call
        /\ UNCHANGED <<on, cur, send, recv, finished>>
    BY <1>3 DEF RecvProduce, resumeVars
  <2> HIDE DEF c
  <2>2. /\ \A r \in Streams : r # s => pending'[r] = pending[r]
        /\ pending'[s] = pending[s] \ {c} /\ pending' \in [Streams -> SUBSET Calls]
    BY <1>0, <2>1
  <2>3. FinishedExited' /\ ~finished[s]
    BY <1>0, <2>1 DEF FinishedExited
  <2>4. CASE c \notin pending[s]
    <3>1. pending'[s] = pending[s] /\ call' = call
      BY <2>1, <2>2, <2>4
    <3>2. pending' = pending
      BY <1>0, <2>2, <3>1
    <3> QED
      BY <2>1, <3>1, <3>2, RecordsUntouched
  <2>5. CASE c \in pending[s]
    <3>1. c \in Calls /\ call[c] = "wait" /\ on[c] = s
      BY <1>0, <2>3, <2>5 DEF RecordsWait
    <3>2. PICK k \in {"done", "get", "failed"} : call' = [call EXCEPT ![c] = k]
      BY <2>1, <2>5
    <3>3. /\ \A d \in Calls : d # c => call'[d] = call[d]
          /\ call'[c] = k /\ call' \in [Calls -> CallStates]
      BY <1>0, <3>1, <3>2 DEF CallStates
    <3>4. OnRecord'
      BY <1>0, <2>1, <2>2, <3>1, <3>3 DEF OnRecord
    <3>5. RecordsWait'
      <4>1. ASSUME NEW r \in Streams, NEW d \in Calls, d \in pending'[r], ~finished[r]
            PROVE  call'[d] = "wait" /\ on[d] = r
        <5>1. d \in pending[r]
          BY <2>2, <4>1
        <5>2. call[d] = "wait" /\ on[d] = r
          BY <1>0, <4>1, <5>1 DEF RecordsWait
        <5>3. d # c
          BY <2>2, <3>1, <4>1, <5>2
        <5> QED
          BY <3>3, <5>2, <5>3
      <4> QED
        BY <2>1, <4>1 DEF RecordsWait
    <3> QED
      BY <1>0, <2>1, <2>2, <2>3, <3>3, <3>4, <3>5 DEF RecordInv, TypesOK
  <2> QED
    BY <2>4, <2>5
<1>4. CASE Finish(s)
  <2>1. /\ recv[s] \in {"eof", "error"} /\ send[s] = "exited" /\ ~finished[s]
        /\ finished' = [finished EXCEPT ![s] = TRUE]
        /\ call' = [c \in Calls |-> IF c \in pending[s] THEN "get" ELSE call[c]]
        /\ UNCHANGED <<on, cur, send, recv, pending>>
    BY <1>4 DEF Finish, Retry, resumeVars
  <2>2. /\ \A r \in Streams : r # s => finished'[r] = finished[r]
        /\ finished'[s] = TRUE /\ finished' \in [Streams -> BOOLEAN]
    BY <1>0, <2>1
  <2>3. /\ \A c \in Calls : call'[c] = IF c \in pending[s] THEN "get" ELSE call[c]
        /\ call' \in [Calls -> CallStates]
    BY <1>0, <2>1 DEF CallStates
  <2>4. OnRecord'
    <3>1. ASSUME NEW c \in Calls PROVE call'[c] \in {"offer", "wait"} => on[c] \in Streams
      BY <1>0, <2>3 DEF OnRecord
    <3>2. ASSUME NEW c \in Calls, call'[c] = "wait"
          PROVE  c \in pending[on[c]] /\ ~finished'[on[c]]
      <4>1. c \notin pending[s] /\ call[c] = "wait"
        BY <2>3, <3>2
      <4>2. c \in pending[on[c]] /\ ~finished[on[c]] /\ on[c] \in Streams
        BY <1>0, <4>1 DEF OnRecord
      <4> QED
        BY <2>2, <4>1, <4>2
    <3> QED
      BY <2>1, <3>1, <3>2 DEF OnRecord
  <2>5. RecordsWait'
    <3>1. ASSUME NEW r \in Streams, NEW c \in Calls, c \in pending[r], ~finished'[r]
          PROVE  call'[c] = "wait" /\ on[c] = r
      <4>1. r # s /\ ~finished[r]
        BY <2>2, <3>1
      <4>2. call[c] = "wait" /\ on[c] = r
        BY <1>0, <3>1, <4>1 DEF RecordsWait
      <4>3. c \notin pending[s]
        BY <1>0, <2>1, <4>1, <4>2 DEF RecordsWait
      <4> QED
        BY <2>3, <4>2, <4>3
    <3> QED
      BY <2>1, <3>1 DEF RecordsWait
  <2>6. FinishedExited'
    BY <1>0, <2>1, <2>2 DEF FinishedExited
  <2> QED
    BY <1>0, <2>1, <2>2, <2>3, <2>4, <2>5, <2>6 DEF RecordInv, TypesOK
<1> QED
  BY <1>1, <1>2, <1>3, <1>4 DEF ClientStep

(* resumeLoop: a new producer starts with both arms and no record.          *)
LEMMA ResumeStepRecords ==
  ASSUME RecordInv, ResumeStep
  PROVE  RecordInv'
<1>0. /\ TypesOK /\ FinishedExited /\ cur \in Streams \cup {NoStream}
      /\ send \in [Streams -> {"none", "run", "exited"}]
      /\ recv \in [Streams -> {"none", "run", "eof", "error"}]
  BY DEF RecordInv, TypesOK
<1>1. CASE CreateNewProducer
  <2>1. /\ cur + 1 \in Streams /\ cur' = cur + 1
        /\ send' = [send EXCEPT ![cur + 1] = "run"] /\ recv' = [recv EXCEPT ![cur + 1] = "run"]
        /\ UNCHANGED <<call, on, finished, pending>>
    BY <1>1 DEF CreateNewProducer, callVars
  <2>2. \A s \in Streams : s # cur + 1 => send'[s] = send[s] /\ recv'[s] = recv[s]
    BY <1>0, <2>1
  <2>3. cur \in Nat /\ Streams \subseteq Nat
    BY <1>0, ProducerAssumption DEF Streams, NoStream
  <2>4. ~finished[cur + 1]
    BY <1>0, <2>1, <2>3 DEF FinishedExited
  <2>5. \A s \in Streams : s > cur + 1 => s > cur /\ s # cur + 1
    BY <2>3
  <2>6. FinishedExited'
    BY <1>0, <2>1, <2>2, <2>4, <2>5 DEF FinishedExited
  <2>7. TypesOK'
    BY <1>0, <2>1 DEF TypesOK
  <2> QED
    BY <2>1, <2>6, <2>7 DEF RecordInv, OnRecord, RecordsWait
<1>2. CASE OldProducerClosed \/ WaitUntilUnavailable
  BY <1>2, RecordsUntouched DEF OldProducerClosed, WaitUntilUnavailable, callVars, armVars
<1> QED
  BY <1>1, <1>2 DEF ResumeStep

(* Every step keeps the records.                                            *)
LEMMA NextRecords == RecordInv /\ Endings /\ [Next]_vars => RecordInv' /\ Endings'
<1> SUFFICES ASSUME RecordInv, Endings, [Next]_vars PROVE RecordInv' /\ Endings'
  OBVIOUS
<1>1. CASE ResumeStep
  BY <1>1, ResumeStepRecords
     DEF Endings, ResumeStep, CreateNewProducer, OldProducerClosed, WaitUntilUnavailable, serverVars
<1>2. CASE CloseProducer
  BY <1>2, RecordsUntouched DEF Endings, CloseProducer, Close, callVars, serverVars
<1>3. CASE ForceClose
  <2>1. RecordInv'
    BY <1>3, RecordsUntouched DEF ForceClose, callVars, resumeVars, armVars
  <2> QED
    BY Zenon, <1>3, <2>1 DEF ForceClose, Endings
<1>4. ASSUME NEW c \in Calls, CallStep(c) PROVE RecordInv' /\ Endings'
  BY Zenon, <1>4, CallStepRecords
     DEF Endings, CallStep, GetProducerAfterAvailable, SendProduceMessage, SendFails, OfferFails, serverVars
<1>5. ASSUME NEW s \in Streams, ClientStep(s) PROVE RecordInv' /\ Endings'
  BY Zenon, <1>5, ClientStepRecords
     DEF Endings, ClientStep, OtherSendFails, SendExits, RecvProduce, RecvEnds, Finish, serverVars
<1>6. ASSUME NEW s \in Streams, ServerStep(s) \/ LoseWAL(s) \/ Break(s) PROVE RecordInv' /\ Endings'
  <2>1. UNCHANGED <<call, on, cur, send, recv, finished, pending>>
    BY Zenon, <1>6 DEF ServerStep, ServerRecv, AppendAsync, AppendDone, ServerEnds, LoseWAL, Break,
       callVars, resumeVars, armVars
  <2>2. ended' = ended \/ \E e \in {"eof", "error"} : ended' = [ended EXCEPT ![s] = e]
    BY Zenon, <1>6 DEF ServerStep, ServerRecv, AppendAsync, AppendDone, ServerEnds, LoseWAL, Break
  <2> QED
    BY <2>1, <2>2, RecordsUntouched DEF Endings
<1>7. CASE UNCHANGED vars
  BY <1>7, RecordsUntouched DEF Endings, vars, callVars, resumeVars, armVars, serverVars
<1> QED
  BY <1>1, <1>2, <1>3, <1>4, <1>5, <1>6, <1>7 DEF Next, Progress

(* For any number of calls, streams and faults, a call that waits for its   *)
(* answer is on record in a producer that has not finished: notifyRequest,  *)
(* a failing Send, the end of execute and a new producer forget no call.    *)
THEOREM NoneForgottenHolds == Spec => []NoneForgotten
<1>1. Init => RecordInv /\ Endings
  BY InitRecords DEF Init, Endings
<1>2. RecordInv => NoneForgotten
  BY DEF RecordInv, OnRecord, NoneForgotten
<1> QED
  BY <1>1, <1>2, NextRecords, PTL DEF Spec

------------------------------------------------------------------------------
(* The answers. *)

(* A step that answers nothing and ends no call.                            *)
LEMMA AnswersUntouched ==
  ASSUME AckInv, LogTypes', UNCHANGED <<down, log>>,
         \A c \in Calls : call'[c] = "done" => call[c] = "done"
  PROVE  AckInv'
BY DEF AckInv, AnswersTrue, AckedPersisted

(* The steps of calls and of the arms that send, or end a producer.         *)
LEMMA CallsAnswers ==
  ASSUME RecordInv, AckInv,
         \/ ResumeStep \/ CloseProducer \/ UNCHANGED vars
         \/ \E c \in Calls : CallStep(c)
         \/ \E s \in Streams : OtherSendFails(s) \/ SendExits(s) \/ RecvEnds(s) \/ Finish(s)
  PROVE  AckInv'
<1>0. /\ call \in [Calls -> CallStates] /\ on \in [Calls -> Streams \cup {NoStream}] /\ OnRecord
      /\ up \in [Streams -> Seq(Calls)] /\ LogTypes
  BY DEF RecordInv, TypesOK, AckInv, LogTypes
<1>1. UNCHANGED <<down, checked, appending, log>>
  BY Zenon
     DEF vars, ResumeStep, CreateNewProducer, OldProducerClosed, WaitUntilUnavailable, CloseProducer,
     CallStep, GetProducerAfterAvailable, SendProduceMessage, SendFails, OfferFails,
     OtherSendFails, SendExits, RecvEnds, Finish, serverVars
<1>2. \A c \in Calls : call'[c] = "done" => call[c] = "done"
  <2>1. CASE ResumeStep \/ CloseProducer \/ UNCHANGED vars
    BY Zenon, <2>1 DEF vars, ResumeStep, CreateNewProducer, OldProducerClosed, WaitUntilUnavailable,
       CloseProducer, callVars
  <2>2. ASSUME NEW c \in Calls, CallStep(c)
        PROVE  \A d \in Calls : call'[d] = "done" => call[d] = "done"
    BY Zenon, <1>0, <2>2
       DEF CallStep, GetProducerAfterAvailable, SendProduceMessage, SendFails, OfferFails, Retry
  <2>3. ASSUME NEW s \in Streams, OtherSendFails(s) \/ SendExits(s) \/ RecvEnds(s) \/ Finish(s)
        PROVE  \A d \in Calls : call'[d] = "done" => call[d] = "done"
    BY Zenon, <1>0, <2>3 DEF OtherSendFails, SendExits, RecvEnds, Finish, Retry, callVars
  <2> QED
    BY <2>1, <2>2, <2>3
<1>3. up' \in [Streams -> Seq(Calls)]
  <2>1. CASE up' = up
    BY <1>0, <2>1
  <2>2. ASSUME NEW c \in Calls, SendProduceMessage(c) PROVE up' \in [Streams -> Seq(Calls)]
    <3>1. on[c] \in Streams /\ (up' = up \/ up' = [up EXCEPT ![on[c]] = Append(up[on[c]], c)])
      BY Zenon, <1>0, <2>2 DEF SendProduceMessage, OnRecord
    <3>2. Append(up[on[c]], c) \in Seq(Calls)
      BY <1>0, <3>1
    <3> QED
      BY Zenon, <1>0, <3>1, <3>2
  <2> QED
    BY Zenon, <2>1, <2>2
       DEF vars, ResumeStep, CreateNewProducer, OldProducerClosed, WaitUntilUnavailable,
       CloseProducer, CallStep, GetProducerAfterAvailable, SendFails, OfferFails,
       OtherSendFails, SendExits, RecvEnds, Finish
<1>4. LogTypes'
  BY <1>0, <1>1, <1>3 DEF LogTypes
<1> QED
  BY <1>1, <1>2, <1>4, AnswersUntouched

(* notifyRequest ends a call with what the answer says.                     *)
LEMMA RecvProduceAnswers ==
  ASSUME RecordInv, AckInv, NEW s \in Streams, RecvProduce(s)
  PROVE  AckInv'
<1>0. /\ call \in [Calls -> CallStates] /\ down \in [Streams -> Seq(Answers)] /\ LogTypes
      /\ AnswersTrue /\ AckedPersisted
  BY DEF RecordInv, TypesOK, AckInv, LogTypes
<1>1. /\ down[s] # << >> /\ down[s] \in Seq(Answers) /\ down' = [down EXCEPT ![s] = Tail(down[s])]
      /\ UNCHANGED <<up, checked, appending, log>>
  BY Zenon, <1>0 DEF RecvProduce, serverVars
<1>2. /\ Len(down[s]) \in Nat /\ Len(down[s]) # 0
      /\ Tail(down[s]) \in Seq(Answers) /\ Len(Tail(down[s])) = Len(down[s]) - 1
      /\ \A i \in 1..Len(Tail(down[s])) : Tail(down[s])[i] = down[s][i + 1]
      /\ Head(down[s]) = down[s][1] /\ Head(down[s]) \in Answers
  BY <1>1
<1>3. /\ \A r \in Streams : r # s => down'[r] = down[r]
      /\ down'[s] = Tail(down[s]) /\ down' \in [Streams -> Seq(Answers)]
  BY <1>0, <1>1, <1>2
<1>4. AnswersTrue'
  <2>1. ASSUME NEW r \in Streams, NEW i \in 1..Len(down'[r]), down'[r][i].ok
        PROVE  log[down'[r][i].call] > 0
    <3>1. CASE r # s
      BY <1>0, <1>3, <2>1, <3>1 DEF AnswersTrue
    <3>2. CASE r = s
      <4>1. i \in 1..Len(Tail(down[s])) /\ down'[r] = Tail(down[s])
        BY Zenon, <1>3, <2>1, <3>2
      <4>2. i + 1 \in 1..Len(down[s])
        BY <1>2, <4>1
      <4>3. down'[r][i] = down[s][i + 1]
        BY <1>2, <4>1
      <4> QED
        BY <1>0, <2>1, <4>2, <4>3 DEF AnswersTrue
    <3> QED
      BY <3>1, <3>2
  <2> QED
    BY Zenon, <1>1, <2>1 DEF AnswersTrue
<1>5. AckedPersisted'
  <2> DEFINE c == Head(down[s]).call
  <2>1. c \in Calls
    BY <1>2 DEF Answers
  <2>2. Head(down[s]).ok => log[c] > 0
    <3>1. 1 \in 1..Len(down[s])
      BY SMTT(20), <1>2
    <3> QED
      BY Zenon, <1>0, <1>2, <3>1 DEF AnswersTrue
  <2>3. \/ call' = call
        \/ Head(down[s]).ok /\ call' = [call EXCEPT ![c] = "done"]
        \/ \E k \in {"get", "failed"} : call' = [call EXCEPT ![c] = k]
    BY Zenon DEF RecvProduce
  <2> HIDE DEF c
  <2>4. \A d \in Calls : call'[d] = "done" => call[d] = "done" \/ (d = c /\ log[c] > 0)
    BY <1>0, <2>1, <2>2, <2>3
  <2> QED
    BY <1>0, <1>1, <2>4 DEF AckedPersisted
<1>6. LogTypes'
  BY Zenon, <1>0, <1>1, <1>3 DEF LogTypes
<1> QED
  BY <1>4, <1>5, <1>6 DEF AckInv

(* The server answers what the append returned, after the log has it; a     *)
(* stream that breaks loses answers.                                        *)
LEMMA ServerAnswers ==
  ASSUME AckInv, NEW s \in Streams,
         ServerStep(s) \/ LoseWAL(s) \/ Break(s) \/ (ForceClose /\ s = cur)
  PROVE  AckInv'
<1>0. /\ LogTypes /\ AnswersTrue /\ AckedPersisted
      /\ up \in [Streams -> Seq(Calls)] /\ down \in [Streams -> Seq(Answers)]
      /\ checked \in [Streams -> SUBSET Calls] /\ appending \in [Streams -> SUBSET Calls]
      /\ log \in [Calls -> Nat]
  BY DEF AckInv, LogTypes
<1>1. call' = call
  BY Zenon
     DEF ServerStep, ServerRecv, AppendAsync, AppendDone, ServerEnds, LoseWAL, Break, ForceClose, callVars
<1>2. CASE ServerRecv(s) \/ AppendAsync(s) \/ ServerEnds(s) \/ LoseWAL(s)
  <2>1. UNCHANGED <<down, log>>
    BY Zenon, <1>2 DEF ServerRecv, AppendAsync, ServerEnds, LoseWAL
  <2>2. up[s] # << >> => Head(up[s]) \in Calls /\ Tail(up[s]) \in Seq(Calls)
    BY <1>0
  <2>3. /\ up' \in [Streams -> Seq(Calls)]
        /\ checked' \in [Streams -> SUBSET Calls] /\ appending' \in [Streams -> SUBSET Calls]
    <3>1. CASE ServerRecv(s)
      BY Zenon, <1>0, <2>2, <3>1 DEF ServerRecv
    <3>2. CASE AppendAsync(s)
      BY <1>0, <3>2 DEF AppendAsync
    <3>3. CASE ServerEnds(s)
      <4>1. up' = [up EXCEPT ![s] = << >>] /\ UNCHANGED <<checked, appending>>
        BY <3>3 DEF ServerEnds
      <4> QED
        BY <1>0, <4>1
    <3>4. CASE LoseWAL(s)
      BY <1>0, <3>4 DEF LoseWAL
    <3> QED
      BY <1>2, <3>1, <3>2, <3>3, <3>4
  <2> QED
    BY Zenon, <1>0, <1>1, <2>1, <2>3, AnswersUntouched DEF LogTypes
<1>3. CASE Break(s) \/ (ForceClose /\ s = cur)
  <2>1. /\ up' = [up EXCEPT ![s] = << >>] /\ down' = [down EXCEPT ![s] = << >>]
        /\ UNCHANGED <<checked, appending, log>>
    BY <1>3 DEF Break, ForceClose
  <2>2. /\ up' \in [Streams -> Seq(Calls)] /\ down' \in [Streams -> Seq(Answers)]
        /\ \A r \in Streams : down'[r] = down[r] \/ down'[r] = << >>
    BY <1>0, <2>1
  <2>3. AnswersTrue'
    BY <1>0, <2>1, <2>2 DEF AnswersTrue
  <2> QED
    BY Zenon, <1>0, <1>1, <2>1, <2>2, <2>3 DEF AckInv, LogTypes, AckedPersisted
<1>4. CASE AppendDone(s)
  <2>1. PICK c \in appending[s], ok \in BOOLEAN :
          /\ appending' = [appending EXCEPT ![s] = @ \ {c}]
          /\ log' = [log EXCEPT ![c] = @ + 1] \/ (~ok /\ log' = log)
          /\ down' = down \/ down' = [down EXCEPT ![s] = Append(down[s], Answer(c, ok))]
    BY Zenon, <1>4 DEF AppendDone
  <2>2. c \in Calls /\ UNCHANGED <<up, checked>>
    BY <1>0, <1>4 DEF AppendDone
  <2>3. /\ log' \in [Calls -> Nat] /\ (ok => log'[c] > 0)
        /\ \A d \in Calls : log[d] > 0 => log'[d] > 0
    <3>1. CASE log' = log /\ ~ok
      BY <1>0, <3>1
    <3>2. CASE log' = [log EXCEPT ![c] = @ + 1]
      <4>1. \A d \in Calls : log[d] \in Nat /\ log'[d] = IF d = c THEN log[d] + 1 ELSE log[d]
        BY <1>0, <2>2, <3>2
      <4>2. log' \in [Calls -> Nat]
        BY <1>0, <2>2, <3>2
      <4> QED
        BY SMTT(20), <2>2, <4>1, <4>2
    <3> QED
      BY <2>1, <3>1, <3>2
  <2> DEFINE a == Answer(c, ok)
  <2>4. a \in Answers /\ a.call = c /\ (a.ok => ok)
    BY <2>2 DEF Answer, Answers
  <2> HIDE DEF a
  <2>5. \A r \in Streams : down'[r] = down[r] \/ down'[r] = Append(down[r], a)
    BY <1>0, <2>1 DEF a
  <2>6. down' \in [Streams -> Seq(Answers)]
    <3>1. Append(down[s], a) \in Seq(Answers)
      BY <1>0, <2>4
    <3> QED
      BY Zenon, <1>0, <2>1, <3>1 DEF a
  <2>7. AnswersTrue'
    <3>1. ASSUME NEW r \in Streams, NEW i \in 1..Len(down'[r]), down'[r][i].ok
          PROVE  log'[down'[r][i].call] > 0
      <4>1. \/ i \in 1..Len(down[r]) /\ down'[r][i] = down[r][i]
            \/ down'[r][i] = a
        <5>1. down[r] \in Seq(Answers)
          BY <1>0
        <5>2. CASE down'[r] = down[r]
          BY <3>1, <5>2
        <5>3. CASE down'[r] = Append(down[r], a)
          BY <3>1, <5>1, <5>3
        <5> QED
          BY <2>5, <5>2, <5>3
      <4>2. CASE i \in 1..Len(down[r]) /\ down'[r][i] = down[r][i]
        <5>1. down[r][i] \in Answers
          BY <1>0, <4>2
        <5>2. down[r][i].call \in Calls
          BY <5>1 DEF Answers
        <5>3. log[down[r][i].call] > 0
          BY <1>0, <3>1, <4>2 DEF AnswersTrue
        <5> QED
          BY <2>3, <4>2, <5>2, <5>3
      <4>3. CASE down'[r][i] = a
        BY <2>3, <2>4, <3>1, <4>3
      <4> QED
        BY <4>1, <4>2, <4>3
    <3> QED
      BY <3>1 DEF AnswersTrue
  <2>8. AckedPersisted'
    BY <1>0, <1>1, <2>3 DEF AckedPersisted
  <2>9. appending' \in [Streams -> SUBSET Calls]
    BY <1>0, <2>1
  <2> QED
    BY <1>0, <2>2, <2>3, <2>6, <2>7, <2>8, <2>9 DEF AckInv, LogTypes
<1> QED
  BY <1>2, <1>3, <1>4 DEF ServerStep

(* For any number of calls, streams and faults, Produce returns a result    *)
(* only for a message that the log has: AppendAsync answers after the log,  *)
(* and an answer belongs to the call that asked, also when the call was     *)
(* retried on another stream.                                               *)
THEOREM AckedPersistedHolds == Spec => []AckedPersisted
<1>1. Init => RecordInv /\ Endings /\ AckInv
  BY InitRecords DEF Init, Endings, AckInv, LogTypes, AnswersTrue, AckedPersisted
<1>2. RecordInv /\ AckInv /\ [Next]_vars => AckInv'
  <2> SUFFICES ASSUME RecordInv, AckInv, [Next]_vars PROVE AckInv'
    OBVIOUS
  <2>1. CASE ForceClose
    <3>1. cur \in Streams
      BY <2>1 DEF ForceClose, RecordInv, TypesOK
    <3>2. PICK s \in Streams : s = cur
      BY <3>1
    <3> QED
      BY <2>1, <3>2, ServerAnswers
  <2>2. ASSUME NEW s \in Streams, ClientStep(s) PROVE AckInv'
    BY <2>2, CallsAnswers, RecvProduceAnswers DEF ClientStep
  <2>3. ASSUME NEW s \in Streams, ServerStep(s) \/ LoseWAL(s) \/ Break(s) PROVE AckInv'
    BY <2>3, ServerAnswers
  <2> QED
    BY <2>1, <2>2, <2>3, CallsAnswers DEF Next, Progress
<1>3. AckInv => AckedPersisted
  BY DEF AckInv
<1> QED
  BY <1>1, <1>2, <1>3, NextRecords, PTL DEF Spec
===============================================================================
