------------------------------- MODULE Producer -------------------------------
(***************************************************************************)
(* Producing to a channel: ResumableProducer retries a call on one         *)
(* underlying producer after the other; a producer is a gRPC stream with a *)
(* send arm, a receive arm and the requests that wait for an answer; the   *)
(* streaming node serves the stream while its WAL is available.  Streams   *)
(* break, the WAL goes away under a stream, appends fail or succeed        *)
(* without an answer.                                                      *)
(***************************************************************************)
EXTENDS Integers, Sequences

CONSTANTS
  Calls,      \* calls of Produce, with contexts that do not end
  Traffic,    \* whether other calls keep using the producer
  MaxFaults   \* bound: broken streams, lost WALs and failed appends

ASSUME ProducerAssumption == Traffic \in BOOLEAN /\ MaxFaults \in Nat

Streams == 1..(MaxFaults + 1)   \* a stream is replaced only after a fault
NoStream == 0

VARIABLES
  call,       \* what each call does: get, offer, wait, done or failed
  on,         \* the stream it uses
  cur,        \* the current underlying producer
  resuming,   \* resumeLoop: create, watch, close the old one, or exited
  closing,    \* ResumableProducer: open, stopping, stopped or closed
  send,       \* send arm of each stream: run or exited
  recv,       \* receive arm: run, eof or error
  finished,   \* execute has ended, and told whoever was waiting
  released,   \* Close of the underlying producer was called
  pending,    \* pendingRequests
  up, down,   \* requests and answers under way
  wal,        \* whether the WAL of the stream is available
  checked,    \* the request handleProduce has let in, but not counted
  appending,  \* appends the server waits for: appendWG
  ended,      \* how the server ended the stream: no, eof or error
  log,        \* how often each call's message was persisted
  faults

callVars == <<call, on>>
resumeVars == <<cur, resuming, closing>>
armVars == <<send, recv, finished, released, pending>>
serverVars == <<wal, checked, appending, ended, log>>
vars == <<callVars, resumeVars, armVars, up, down, serverVars, faults>>

Fault == faults > 0 /\ faults' = faults - 1

InUse(s) == {c \in Calls : call[c] \in {"offer", "wait"} /\ on[c] = s}

Init ==
  /\ call = [c \in Calls |-> "get"] /\ on = [c \in Calls |-> NoStream]
  /\ cur = NoStream /\ resuming = "create" /\ closing = "open"
  /\ send = [s \in Streams |-> "none"] /\ recv = [s \in Streams |-> "none"]
  /\ finished = [s \in Streams |-> FALSE] /\ released = [s \in Streams |-> FALSE]
  /\ pending = [s \in Streams |-> {}]
  /\ up = [s \in Streams |-> << >>] /\ down = [s \in Streams |-> << >>]
  /\ wal = [s \in Streams |-> FALSE] /\ checked = [s \in Streams |-> {}]
  /\ appending = [s \in Streams |-> {}] /\ ended = [s \in Streams |-> "no"]
  /\ log = [c \in Calls |-> 0]
  /\ faults = MaxFaults

------------------------------------------------------------------------------
(* ResumableProducer. *)

Available(s) == s # NoStream /\ send[s] = "run"

GetProducerAfterAvailable(c) ==
  /\ call[c] = "get" /\ Available(cur)
  /\ call' = [call EXCEPT ![c] = "offer"] /\ on' = [on EXCEPT ![c] = cur]
  /\ UNCHANGED <<resumeVars, armVars, up, down, serverVars, faults>>

(* SwapProducer with a new producer; the old one is closed after that.      *)
CreateNewProducer ==
  /\ resuming = "create" /\ closing \in {"open", "stopping"}
  /\ cur + 1 \in Streams
  /\ cur' = cur + 1
  /\ send' = [send EXCEPT ![cur + 1] = "run"] /\ recv' = [recv EXCEPT ![cur + 1] = "run"]
  /\ wal' = [wal EXCEPT ![cur + 1] = TRUE]
  /\ IF cur = NoStream
     THEN resuming' = "watch" /\ UNCHANGED released
     ELSE resuming' = "close" /\ released' = [released EXCEPT ![cur] = TRUE]
  /\ UNCHANGED <<callVars, closing, finished, pending, up, down, checked, appending, ended, log, faults>>

OldProducerClosed ==
  /\ resuming = "close" /\ finished[cur - 1]
  /\ resuming' = "watch"
  /\ UNCHANGED <<callVars, cur, closing, armVars, up, down, serverVars, faults>>

WaitUntilUnavailable ==
  /\ resuming = "watch" /\ ~Available(cur)
  /\ resuming' = "create"
  /\ UNCHANGED <<callVars, cur, closing, armVars, up, down, serverVars, faults>>

(* Close: no new calls, and the ones there are return first.                *)
Close ==
  \/ /\ closing = "open" /\ \A c \in Calls : call[c] \in {"done", "failed"}
     /\ closing' = "stopping" /\ UNCHANGED <<resuming, released>>
  \/ /\ closing = "stopping" /\ resuming \in {"create", "watch"}
     /\ closing' = "stopped" /\ resuming' = "exited"
     /\ released' = IF cur = NoStream THEN released ELSE [released EXCEPT ![cur] = TRUE]
  \/ /\ closing = "stopped" /\ (cur = NoStream \/ finished[cur])
     /\ closing' = "closed" /\ UNCHANGED <<resuming, released>>

CloseProducer ==
  /\ Close
  /\ UNCHANGED <<callVars, cur, send, recv, finished, pending, up, down, serverVars, faults>>

(* A stream that has not ended 50ms later is canceled.                      *)
ForceClose ==
  /\ closing = "stopped" /\ cur # NoStream /\ ended[cur] = "no"
  /\ ended' = [ended EXCEPT ![cur] = "error"]
  /\ up' = [up EXCEPT ![cur] = << >>] /\ down' = [down EXCEPT ![cur] = << >>]
  /\ UNCHANGED <<callVars, resumeVars, armVars, wal, checked, appending, log, faults>>

------------------------------------------------------------------------------
(* The underlying producer, client side. *)

(* A call fails with an error that is retried.                              *)
Retry(calls) == call' = [c \in Calls |-> IF c \in calls THEN "get" ELSE call[c]]

(* The send arm takes the request.  A stream that has ended, and nobody     *)
(* noticed, swallows it.                                                    *)
SendProduceMessage(c) ==
  LET s == on[c] IN
  /\ call[c] = "offer" /\ send[s] = "run" /\ recv[s] # "error"
  /\ call' = [call EXCEPT ![c] = "wait"]
  /\ pending' = [pending EXCEPT ![s] = @ \cup {c}]
  /\ up' = IF ended[s] = "no" THEN [up EXCEPT ![s] = Append(@, c)] ELSE up
  /\ UNCHANGED <<on, resumeVars, send, recv, finished, released, down, serverVars, faults>>

(* Mutant: the call is not told that it was not sent.                       *)
SendFailsForgetting(c) ==
  LET s == on[c] IN
  /\ call[c] = "offer" /\ send[s] = "run" /\ ended[s] # "no"
  /\ call' = [call EXCEPT ![c] = "wait"]
  /\ send' = [send EXCEPT ![s] = "exited"]
  /\ UNCHANGED <<on, resumeVars, recv, finished, released, pending, up, down, serverVars, faults>>

(* Sending fails, the call is told so, and the send arm exits.              *)
SendFails(c) ==
  LET s == on[c] IN
  /\ call[c] = "offer" /\ send[s] = "run" /\ ended[s] # "no"
  /\ Retry({c})
  /\ send' = [send EXCEPT ![s] = "exited"]
  /\ UNCHANGED <<on, resumeVars, recv, finished, released, pending, up, down, serverVars, faults>>

(* Some other call finds out.                                               *)
OtherSendFails(s) ==
  /\ Traffic /\ closing = "open" /\ send[s] = "run" /\ ended[s] # "no"
  /\ send' = [send EXCEPT ![s] = "exited"]
  /\ UNCHANGED <<callVars, resumeVars, recv, finished, released, pending, up, down, serverVars, faults>>

OfferFails(c) ==
  /\ call[c] = "offer" /\ (send[on[c]] = "exited" \/ recv[on[c]] = "eof")
  /\ Retry({c})
  /\ UNCHANGED <<on, resumeVars, armVars, up, down, serverVars, faults>>

(* Mutant: a released producer does not ask to be closed.                   *)
SendExitsOnEOF(s) ==
  /\ send[s] = "run" /\ recv[s] = "eof"
  /\ send' = [send EXCEPT ![s] = "exited"]
  /\ UNCHANGED <<callVars, resumeVars, recv, finished, released, pending, up, down, serverVars, faults>>

(* The send arm exits when recvExitCh is closed, or requestCh is: then it   *)
(* asks the server to close.                                                *)
SendExits(s) ==
  /\ send[s] = "run"
  /\ recv[s] = "eof" \/ (released[s] /\ InUse(s) = {})
  /\ send' = [send EXCEPT ![s] = "exited"]
  /\ UNCHANGED <<callVars, resumeVars, recv, finished, released, pending, up, down, serverVars, faults>>

(* An answer: notifyRequest.  An error is retried or final.                 *)
RecvProduce(s) ==
  /\ recv[s] = "run" /\ down[s] # << >>
  /\ down' = [down EXCEPT ![s] = Tail(@)]
  /\ LET c == Head(down[s]).call IN
     /\ pending' = [pending EXCEPT ![s] = @ \ {c}]
     /\ IF c \in pending[s]
        THEN \/ Head(down[s]).ok /\ call' = [call EXCEPT ![c] = "done"]
             \/ ~Head(down[s]).ok /\ call' \in {[call EXCEPT ![c] = "get"], [call EXCEPT ![c] = "failed"]}
        ELSE UNCHANGED call
  /\ UNCHANGED <<on, resumeVars, send, recv, finished, released, up, serverVars, faults>>

(* recvLoop ends; it closes recvExitCh only if the stream ended well.       *)
RecvEnds(s) ==
  /\ recv[s] = "run" /\ down[s] = << >> /\ ended[s] # "no"
  /\ recv' = [recv EXCEPT ![s] = ended[s]]
  /\ UNCHANGED <<callVars, resumeVars, send, finished, released, pending, up, down, serverVars, faults>>

(* Mutant: the calls still pending are not told.                            *)
FinishSilently(s) ==
  /\ recv[s] \in {"eof", "error"} /\ send[s] = "exited" /\ ~finished[s]
  /\ finished' = [finished EXCEPT ![s] = TRUE]
  /\ UNCHANGED <<callVars, resumeVars, send, recv, released, pending, up, down, serverVars, faults>>

(* execute: both arms are over, whoever still waits is told.                *)
Finish(s) ==
  /\ recv[s] \in {"eof", "error"} /\ send[s] = "exited" /\ ~finished[s]
  /\ finished' = [finished EXCEPT ![s] = TRUE]
  /\ Retry(pending[s])
  /\ UNCHANGED <<on, resumeVars, send, recv, released, pending, up, down, serverVars, faults>>

------------------------------------------------------------------------------
(* The streaming node. *)

(* handleProduce: nothing is answered once the WAL is unavailable.          *)
ServerRecv(s) ==
  /\ ended[s] = "no" /\ up[s] # << >> /\ checked[s] = {}
  /\ up' = [up EXCEPT ![s] = Tail(@)]
  /\ checked' = IF wal[s] THEN [checked EXCEPT ![s] = {Head(up[s])}] ELSE checked
  /\ UNCHANGED <<callVars, resumeVars, armVars, down, wal, appending, ended, log, faults>>

(* It counts the request only after looking at the WAL.                     *)
AppendAsync(s) ==
  /\ checked[s] # {}
  /\ appending' = [appending EXCEPT ![s] = @ \cup checked[s]]
  /\ checked' = [checked EXCEPT ![s] = {}]
  /\ UNCHANGED <<callVars, resumeVars, armVars, up, down, wal, ended, log, faults>>

(* Mutant: a failed append is answered as a success.                        *)
AnswerAlways(c, persisted) == [call |-> c, ok |-> TRUE]

Answer(c, persisted) == [call |-> c, ok |-> persisted]

(* The append ends and is answered if the stream is still there.  One that  *)
(* reports an error may have been persisted.                                *)
AppendDone(s) ==
  /\ \E c \in appending[s], ok \in BOOLEAN :
       /\ appending' = [appending EXCEPT ![s] = @ \ {c}]
       /\ IF ok THEN log' = [log EXCEPT ![c] = @ + 1] /\ UNCHANGED faults
                ELSE log' \in {log, [log EXCEPT ![c] = @ + 1]} /\ Fault
       /\ down' = IF ended[s] = "no" THEN [down EXCEPT ![s] = Append(@, Answer(c, ok))] ELSE down
  /\ UNCHANGED <<callVars, resumeVars, armVars, up, wal, checked, ended>>

LoseWAL(s) ==
  /\ wal[s] /\ Fault
  /\ wal' = [wal EXCEPT ![s] = FALSE]
  /\ UNCHANGED <<callVars, resumeVars, armVars, up, down, checked, appending, ended, log>>

(* sendLoop ends: the WAL is gone and no append is counted, or the client   *)
(* has closed and everything was answered.                                  *)
ServerEnds(s) ==
  /\ ended[s] = "no" /\ appending[s] = {} /\ recv[s] # "none"
  /\ \/ ~wal[s] /\ ended' = [ended EXCEPT ![s] = "error"]
     \/ send[s] = "exited" /\ up[s] = << >> /\ checked[s] = {} /\ ended' = [ended EXCEPT ![s] = "eof"]
  /\ up' = [up EXCEPT ![s] = << >>]
  /\ UNCHANGED <<callVars, resumeVars, armVars, down, wal, checked, appending, log, faults>>

(* The connection breaks.                                                   *)
Break(s) ==
  /\ ended[s] = "no" /\ recv[s] # "none" /\ Fault
  /\ ended' = [ended EXCEPT ![s] = "error"]
  /\ up' = [up EXCEPT ![s] = << >>] /\ down' = [down EXCEPT ![s] = << >>]
  /\ UNCHANGED <<callVars, resumeVars, armVars, wal, checked, appending, log>>

CallStep(c) == GetProducerAfterAvailable(c) \/ SendProduceMessage(c) \/ SendFails(c) \/ OfferFails(c)

ClientStep(s) == OtherSendFails(s) \/ SendExits(s) \/ RecvProduce(s) \/ RecvEnds(s) \/ Finish(s)

ServerStep(s) == ServerRecv(s) \/ AppendAsync(s) \/ AppendDone(s) \/ ServerEnds(s)

ResumeStep == CreateNewProducer \/ OldProducerClosed \/ WaitUntilUnavailable

Progress ==
  \/ ResumeStep \/ CloseProducer \/ ForceClose
  \/ \E c \in Calls : CallStep(c)
  \/ \E s \in Streams : ClientStep(s) \/ ServerStep(s)

Next == Progress \/ \E s \in Streams : LoseWAL(s) \/ Break(s)

(* As long as some goroutine can go on, one does: appends return, and a new *)
(* producer can be created in the end.                                      *)
Spec == Init /\ [][Next]_vars /\ WF_vars(Progress)

------------------------------------------------------------------------------
(* A call that waits is on record in a producer that will still look at its *)
(* records: neither an answer, nor a failure to send, nor the end of the    *)
(* producer forgets a call.                                                 *)
NoneForgotten ==
  \A c \in Calls : call[c] = "wait" => c \in pending[on[c]] /\ ~finished[on[c]]

(* Produce returns a result only for a message that the log has.            *)
AckedPersisted ==
  \A c \in Calls : call[c] = "done" => log[c] > 0

(* Every call of Produce returns: streams that break and WALs that go away  *)
(* are noticed and the call is retried.                                     *)
ProduceReturns ==
  \A c \in Calls : <>(call[c] \in {"done", "failed"})

(* Close returns once the calls have.                                       *)
CloseReturns ==
  closing = "stopping" ~> closing = "closed"
================================================================================
