-------------------------- MODULE AssignmentDiscovery --------------------------
(***************************************************************************)
(* How a client finds the streaming node of a channel: the coordinator     *)
(* pushes versioned assignments over a stream, the client's watcher,       *)
(* resolver and handler watcher pass them on, and a handler is created on  *)
(* the node they name.  Where that fails the client reports the assignment *)
(* and the coordinator makes another one.  Streams break with everything   *)
(* that is under way, and the coordinator restarts.                        *)
(*                                                                         *)
(* One channel.  How the coordinator makes an assignment is the subject of *)
(* ChannelAssignment; here its record goes from assigned to unavailable or *)
(* assigning and to the next term.                                         *)
(***************************************************************************)
EXTENDS Integers, Sequences

CONSTANTS
  MaxFaults   \* bound: restarts, broken streams, moves, nodes that fail and
              \* retries before there is any news

ASSUME DiscoveryAssumption == MaxFaults \in Nat

NoTerm == -1   \* types.InitialTerm: no assignment

VARIABLES
  version,      \* ChannelManager's version: coordinator's id and its counter
  meta,         \* its record of the channel: term and state
  broken,       \* the terms whose node has no WAL to serve
  stream,       \* the discovery stream: open, broken or closed
  pushed,       \* what WatchAssignmentResult has sent on it last
  down, up,     \* messages under way to the client and to the coordinator
  last,         \* watcher.lastVersionedAssignment
  latest,       \* resolver.latestState
  assignments,  \* the term in watcherImpl.assignments
  handler,      \* createHandlerAfterStreamingNodeReady: what it does next
  assign,       \* and the term it tries
  faults

coordVars == <<version, meta, broken>>
streamVars == <<stream, pushed, down, up>>
viewVars == <<last, latest, assignments>>
vars == <<coordVars, streamVars, viewVars, handler, assign, faults>>

Fault == faults > 0 /\ faults' = faults - 1

(* VersionInt64Pair: the coordinator first.                                 *)
GT(v, w) == v.global > w.global \/ (v.global = w.global /\ v.local > w.local)

NoVersion == [global |-> -1, local |-> -1]

(* getAssignments: only what is assigned is told.                           *)
Announced ==
  [version |-> version, term |-> IF meta.state = "assigned" THEN meta.term ELSE NoTerm]

Init ==
  /\ version = [global |-> 1, local |-> 0]
  /\ meta = [term |-> 1, state |-> "assigned"] /\ broken = {}
  /\ stream = "closed" /\ pushed = NoVersion /\ down = << >> /\ up = << >>
  /\ last = [version |-> NoVersion, term |-> NoTerm] /\ latest = last
  /\ assignments = NoTerm
  /\ handler = "get" /\ assign = NoTerm
  /\ faults = MaxFaults

------------------------------------------------------------------------------
(* The coordinator. *)

updatePChannelMeta(term, state) ==
  /\ meta' = [term |-> term, state |-> state]
  /\ version' = [version EXCEPT !.local = @ + 1]

(* A round of the balancer finds the channel without assignment.            *)
Assign ==
  /\ meta.state # "assigned"
  /\ IF meta.state = "unavailable" THEN updatePChannelMeta(meta.term + 1, "assigning")
                                   ELSE updatePChannelMeta(meta.term, "assigned")
  /\ UNCHANGED <<broken, streamVars, viewVars, handler, assign, faults>>

(* The policy moves the channel.                                            *)
Move ==
  /\ meta.state = "assigned" /\ Fault
  /\ updatePChannelMeta(meta.term + 1, "assigning")
  /\ UNCHANGED <<broken, streamVars, viewVars, handler, assign>>

(* The node of the assignment loses the WAL or its session.                 *)
LoseNode ==
  /\ meta.term \notin broken /\ Fault
  /\ broken' = broken \cup {meta.term}
  /\ UNCHANGED <<version, meta, streamVars, viewVars, handler, assign>>

Break ==
  stream' = "broken" /\ down' = << >> /\ up' = << >> /\ UNCHANGED pushed

(* Another coordinator, with a new id, recovers the record.                 *)
Restart ==
  /\ Fault
  /\ version' = [global |-> version.global + 1, local |-> 0]
  /\ IF stream = "open" THEN Break ELSE UNCHANGED streamVars
  /\ UNCHANGED <<meta, broken, viewVars, handler, assign>>

------------------------------------------------------------------------------
(* The stream. *)

BreakStream ==
  /\ stream = "open" /\ Fault
  /\ Break
  /\ UNCHANGED <<coordVars, viewVars, handler, assign>>

(* resumeLoop: the old stream is over before a new one is swapped in.       *)
SwapAssignmentDiscoverClient ==
  /\ stream # "open"
  /\ stream' = "open" /\ pushed' = NoVersion /\ down' = << >> /\ up' = << >>
  /\ UNCHANGED <<coordVars, viewVars, handler, assign, faults>>

(* WatchAssignmentResult: the first time, and whenever the version changed. *)
Push ==
  /\ stream = "open" /\ pushed # version
  /\ down' = Append(down, Announced) /\ pushed' = version
  /\ UNCHANGED <<coordVars, stream, up, viewVars, handler, assign, faults>>

(* Mutant: the term of the report is not looked at.                         *)
MarkAnyAsUnavailable(term) ==
  IF meta.state = "assigned"
  THEN updatePChannelMeta(meta.term, "unavailable") ELSE updatePChannelMeta(meta.term, meta.state)

(* MarkAsUnavailable: the record is saved, changed or not.                  *)
MarkAsUnavailable(term) ==
  IF meta.state = "assigned" /\ meta.term = term
  THEN updatePChannelMeta(meta.term, "unavailable") ELSE updatePChannelMeta(meta.term, meta.state)

ServerRecv ==
  /\ stream = "open" /\ up # << >>
  /\ up' = Tail(up)
  /\ MarkAsUnavailable(Head(up))
  /\ UNCHANGED <<broken, stream, pushed, down, viewVars, handler, assign, faults>>

(* watcher.Update.                                                          *)
ClientRecv ==
  /\ stream = "open" /\ down # << >>
  /\ down' = Tail(down)
  /\ last' = IF GT(Head(down).version, last.version) THEN Head(down) ELSE last
  /\ UNCHANGED <<coordVars, stream, pushed, up, latest, assignments, handler, assign, faults>>

------------------------------------------------------------------------------
(* The client. *)

(* doDiscover takes what the watcher has now.                               *)
DoDiscover ==
  /\ GT(last.version, latest.version)
  /\ latest' = last
  /\ UNCHANGED <<coordVars, streamVars, last, assignments, handler, assign, faults>>

(* resolver.Watch calls updateAssignment with the latest state.             *)
UpdateAssignment ==
  /\ assignments # latest.term
  /\ assignments' = latest.term
  /\ UNCHANGED <<coordVars, streamVars, last, latest, handler, assign, faults>>

GetAssignment ==
  /\ handler = "get"
  /\ assign' = assignments
  /\ handler' = IF assignments = NoTerm THEN "wait" ELSE "create"
  /\ UNCHANGED <<coordVars, streamVars, viewVars, faults>>

(* A failure is permanent until a new assignment where the node has no WAL  *)
(* of that term; otherwise the handler is created, or not for now.          *)
Create ==
  /\ handler = "create"
  /\ IF assign \in broken \/ assign # meta.term
     THEN handler' = "report" /\ UNCHANGED faults
     ELSE \/ handler' = "done" /\ UNCHANGED faults
          \/ handler' = "wait" /\ Fault
  /\ UNCHANGED <<coordVars, streamVars, viewVars, assign>>

(* ReportAssignmentError waits for a stream.                                *)
Report ==
  /\ handler = "report" /\ stream = "open"
  /\ up' = Append(up, assign)
  /\ handler' = "wait"
  /\ UNCHANGED <<coordVars, stream, pushed, down, viewVars, assign, faults>>

(* Nothing is under way that could still change what the client knows.      *)
Quiet ==
  /\ stream = "open" /\ pushed = version /\ down = << >> /\ up = << >>
  /\ meta.state = "assigned" /\ latest = last /\ assignments = latest.term

(* Mutant: the handler waits for a new assignment only.                     *)
Watch(retry) ==
  /\ handler = "wait"
  /\ assignments > assign
  /\ handler' = "get" /\ UNCHANGED faults

(* watcher.Watch returns on a later term, or the backoff runs out.  How     *)
(* often it does so while news is on its way is bounded.                    *)
WaitForNextBackoff(retry) ==
  /\ handler = "wait"
  /\ handler' = "get"
  /\ \/ (assignments > assign \/ Quiet) /\ UNCHANGED faults
     \/ retry /\ Fault

Wait(retry) ==
  /\ WaitForNextBackoff(retry)
  /\ UNCHANGED <<coordVars, streamVars, viewVars, assign>>

(* The handler breaks when its node does, and is created again.             *)
Recreate ==
  /\ handler = "done"
  /\ assign \in broken \/ assign # meta.term
  /\ handler' = "get"
  /\ UNCHANGED <<coordVars, streamVars, viewVars, assign, faults>>

Client ==
  DoDiscover \/ UpdateAssignment \/ GetAssignment \/ Create \/ Report \/ Wait(TRUE) \/ Recreate

Stream == SwapAssignmentDiscoverClient \/ Push \/ ServerRecv \/ ClientRecv

Next == Assign \/ Move \/ LoseNode \/ Restart \/ BreakStream \/ Stream \/ Client

(* Balancer, loops and timers run on; a handler is created or reported as   *)
(* soon as it can be.                                                       *)
Spec ==
  /\ Init /\ [][Next]_vars
  /\ WF_vars(Assign) /\ WF_vars(SwapAssignmentDiscoverClient) /\ WF_vars(Push)
  /\ WF_vars(ServerRecv) /\ WF_vars(ClientRecv) /\ WF_vars(DoDiscover) /\ WF_vars(UpdateAssignment)
  /\ WF_vars(GetAssignment) /\ WF_vars(Create) /\ WF_vars(Report)
  /\ WF_vars(Wait(FALSE)) /\ WF_vars(Recreate)

------------------------------------------------------------------------------
(* A report takes an assignment away only if its own node failed: reports   *)
(* that are late, or of a client that has not heard of the newer term, do   *)
(* not disturb the assignment that replaced it.                             *)
OnlyBrokenMarked ==
  meta.state = "unavailable" => meta.term \in broken

(* The client's handler is created on the node that has the channel, in     *)
(* the end and for good: no report is needed that is not sent again, and    *)
(* no broken stream or new coordinator leaves the client with an old        *)
(* assignment.                                                              *)
EventuallyCreated ==
  <>[](handler = "done" /\ assign = meta.term /\ meta.term \notin broken)

================================================================================
