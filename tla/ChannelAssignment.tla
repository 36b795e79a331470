--------------------------- MODULE ChannelAssignment ---------------------------
(***************************************************************************)
(* The streaming coordinator assigns a channel to streaming nodes, term    *)
(* after term.  ChannelManager records an assignment in the catalog before *)
(* the balancer applies it: it removes the channel from every node of the  *)
(* assignment's history, opens it on the new node and records that it is   *)
(* done.  The coordinator may crash between any two steps; its calls may   *)
(* fail after they took effect, arrive late, or be sent again by gRPC.     *)
(*                                                                         *)
(* A node is its walLifetime (module WALLifetime) with the steps of the    *)
(* background task that other nodes can tell apart.  A node that restarts  *)
(* gets a new server id, so it is another node here.  Channels do not      *)
(* interact: the module is about one, and the policy, which looks at all   *)
(* of them, may choose any node.                                           *)
(***************************************************************************)
EXTENDS Integers, Sequences

CONSTANTS
  Nodes,      \* streaming nodes
  NoNode,     \* the node of a channel that was never assigned
  Zombies,    \* whether a node may lose its session and live on for a while
  MaxFaults   \* bound: crashes, failures, reports of clients and moves

ASSUME AssignmentAssumption ==
  NoNode \notin Nodes /\ Zombies \in BOOLEAN /\ MaxFaults \in Nat

VARIABLES
  coord,     \* the balancer: down, idle or applying an assignment
  meta,      \* PChannelMeta in the memory of ChannelManager
  catalog,   \* PChannelMeta in etcd
  step,      \* which of the calls of the assignment is next
  call,      \* what has become of it
  inbox,     \* requests that have not reached their node
  node,      \* session and process of each node
  view,      \* the nodes that the coordinator's resolver knows of
  expected,  \* walLifetime of each node: the expected state,
  current,   \* the current state, with its last error,
  task,      \* and the state the background task works on
  sent,      \* history: the assignments that were sent to nodes
  faults     \* how many faults are left

metaVars == <<meta, catalog>>
applyVars == <<coord, step, call>>
lifetimeVars == <<expected, current, task>>
vars == <<metaVars, applyVars, inbox, node, view, lifetimeVars, sent, faults>>

State(term, available) == [term |-> term, available |-> available]
Current(term, available, err) == [term |-> term, available |-> available, err |-> err]
InitialState == State(0, FALSE)

isStateBefore(s, t) ==
  s.term < t.term \/ (s.term = t.term /\ s.available /\ ~t.available)

Fault == faults > 0 /\ faults' = faults - 1

(* A node has a session while it is up or its lease has not run out, and a  *)
(* process while it is up or has not noticed that its lease did.            *)
Registered(n) == node[n] \in {"up", "stale"}
Running(n) == node[n] \in {"up", "zombie"}

------------------------------------------------------------------------------
(* PChannelMeta. *)

newPChannelMeta == [term |-> 1, node |-> NoNode, state |-> "uninitialized", histories |-> << >>]

(* Mutant: an unavailable assignment needs no Remove.                       *)
TryAssignUnlessUnavailable(m, n) ==
  [term |-> m.term + 1, node |-> n, state |-> "assigning",
   histories |-> IF m.state \in {"assigning", "assigned"}
                 THEN Append(m.histories, [term |-> m.term, node |-> m.node])
                 ELSE m.histories]

(* Whatever had the channel before goes to the histories, unless it is new. *)
TryAssignToServerID(m, n) ==
  [term |-> m.term + 1, node |-> n, state |-> "assigning",
   histories |-> IF m.state # "uninitialized"
                 THEN Append(m.histories, [term |-> m.term, node |-> m.node])
                 ELSE m.histories]

AssignToServerDone(m) ==
  IF m.state = "assigning" THEN [m EXCEPT !.state = "assigned", !.histories = << >>] ELSE m

MarkAsUnavailable(m, term) ==
  IF m.state = "assigned" /\ m.term = term THEN [m EXCEPT !.state = "unavailable"] ELSE m

Init ==
  /\ meta = newPChannelMeta /\ catalog = newPChannelMeta
  /\ coord = "idle" /\ step = 1 /\ call = "none"
  /\ inbox = {} /\ sent = {}
  /\ node = [n \in Nodes |-> "new"] /\ view = {}
  /\ expected = [n \in Nodes |-> InitialState]
  /\ current = [n \in Nodes |-> Current(0, FALSE, FALSE)]
  /\ task = [n \in Nodes |-> InitialState]
  /\ faults = MaxFaults

------------------------------------------------------------------------------
(* The coordinator. *)

(* Mutant: memory is changed without the catalog.                           *)
SaveInMemory(m) == meta' = m /\ UNCHANGED catalog

(* updatePChannelMeta: the catalog first, then memory.                      *)
Save(m) == catalog' = m /\ meta' = m

(* A save that fails may have reached etcd nevertheless.                    *)
SaveFails(m) == catalog' \in {catalog, m} /\ UNCHANGED meta

(* A round of balance in which the policy puts the channel on n.  Leaving a *)
(* node that is alive for the resolver is the policy's choice, or the node  *)
(* did not answer CollectStatus.                                            *)
Balance(n) ==
  /\ coord = "idle"
  /\ n \in view
  /\ LET m == TryAssignToServerID(meta, n)
     IN IF meta.state = "assigned" /\ meta.node \in view
        THEN n # meta.node /\ Save(m) /\ coord' = "applying" /\ Fault
        ELSE \/ Save(m) /\ coord' = "applying" /\ UNCHANGED faults
             \/ SaveFails(m) /\ UNCHANGED coord /\ Fault
  /\ step' = 1
  /\ UNCHANGED <<call, inbox, node, view, lifetimeVars, sent>>

(* applyBalanceResultToStreamingNode: Remove for every history, then        *)
(* Assign.  Nothing but this goroutine changes the meta meanwhile.          *)
Removing == step <= Len(meta.histories)

Target ==
  IF Removing
  THEN [node |-> meta.histories[step].node, state |-> State(meta.histories[step].term, FALSE)]
  ELSE [node |-> meta.node, state |-> State(meta.term, TRUE)]

Calling == coord = "applying" /\ step <= Len(meta.histories) + 1

(* An error ends the round; the next one starts from the meta.              *)
GiveUpRound == coord' = "idle" /\ step' = 1 /\ call' = "none"

NextCall == step' = step + 1 /\ call' = "none" /\ UNCHANGED coord

(* Mutant: Assign takes a skipped operation for success too.                *)
SuccessOfSkipped(available, answer) ==
  answer \in {"ok", "ignored", "unmatched"} \/ (answer = "no connection" /\ ~available)

(* managerClientImpl.Remove takes a skipped operation, and a node that has  *)
(* no session, for success; Assign does not.                                *)
Success(available, answer) ==
  answer = "ok" \/ (answer \in {"ignored", "unmatched", "no connection"} /\ ~available)

Conclude(answer) == IF Success(Target.state.available, answer) THEN NextCall ELSE GiveUpRound

SendCall ==
  /\ Calling /\ call = "none"
  /\ Target.node \in view
  /\ call' = "sent"
  /\ inbox' = inbox \cup {Target}
  /\ sent' = IF Removing THEN sent ELSE sent \cup {[term |-> meta.term, node |-> meta.node]}
  /\ UNCHANGED <<metaVars, coord, step, node, view, lifetimeVars, faults>>

(* The picker has no connection for a node that the resolver does not know. *)
NoConnection ==
  /\ Calling
  /\ Target.node \notin view
  /\ Conclude("no connection")
  /\ UNCHANGED <<metaVars, inbox, node, view, lifetimeVars, sent, faults>>

(* The connection breaks and gRPC sends the request again, or gives up.     *)
Disconnect ==
  /\ Calling /\ call # "none"
  /\ Fault
  /\ \/ call' = "sent" /\ inbox' = inbox \cup {Target} /\ UNCHANGED <<coord, step>>
     \/ GiveUpRound /\ UNCHANGED inbox
  /\ UNCHANGED <<metaVars, node, view, lifetimeVars, sent>>

(* What a node answers to a request it has taken.                           *)
Reached(n, s) ==
  IF current[n].term > s.term THEN "unmatched" ELSE IF current[n].err THEN "error" ELSE "ok"

Answer ==
  /\ Calling
  /\ Running(Target.node)
  /\ \/ call = "ignored" /\ Conclude("ignored")
     \/ /\ call = "accepted"
        /\ ~isStateBefore(current[Target.node], Target.state)
        /\ Conclude(Reached(Target.node, Target.state))
  /\ UNCHANGED <<metaVars, inbox, node, view, lifetimeVars, sent, faults>>

(* AssignPChannelsDone.                                                     *)
AssignDone ==
  /\ coord = "applying" /\ ~Calling
  /\ LET m == AssignToServerDone(meta)
     IN (Save(m) /\ UNCHANGED faults) \/ (SaveFails(m) /\ Fault)
  /\ GiveUpRound
  /\ UNCHANGED <<inbox, node, view, lifetimeVars, sent>>

(* A client reports that it cannot use the assignment of some term.         *)
ReportError(term) ==
  /\ coord = "idle"
  /\ Fault
  /\ LET m == MarkAsUnavailable(meta, term) IN Save(m) \/ SaveFails(m)
  /\ UNCHANGED <<applyVars, inbox, node, view, lifetimeVars, sent>>

Crash ==
  /\ coord # "down"
  /\ Fault
  /\ coord' = "down" /\ step' = 1 /\ call' = "none"
  /\ UNCHANGED <<metaVars, inbox, node, view, lifetimeVars, sent>>

(* RecoverChannelManager, and a resolver that starts from the sessions.     *)
RecoverChannelManager ==
  /\ coord = "down"
  /\ coord' = "idle"
  /\ meta' = catalog
  /\ view' = {n \in Nodes : Registered(n)}
  /\ UNCHANGED <<catalog, step, call, inbox, node, lifetimeVars, sent, faults>>

(* Mutant: a session that ends is not noticed.                              *)
DiscoverNew ==
  /\ coord # "down"
  /\ ~({n \in Nodes : Registered(n)} \subseteq view)
  /\ view' = view \cup {n \in Nodes : Registered(n)}
  /\ UNCHANGED <<metaVars, applyVars, inbox, node, lifetimeVars, sent, faults>>

(* The resolver learns of sessions that came and went.                      *)
Discover ==
  /\ coord # "down"
  /\ view # {n \in Nodes : Registered(n)}
  /\ view' = {n \in Nodes : Registered(n)}
  /\ UNCHANGED <<metaVars, applyVars, inbox, node, lifetimeVars, sent, faults>>

------------------------------------------------------------------------------
(* The nodes. *)

Start(n) ==
  /\ node[n] = "new"
  /\ node' = [node EXCEPT ![n] = "up"]
  /\ UNCHANGED <<metaVars, applyVars, inbox, view, lifetimeVars, sent, faults>>

(* The process ends, with the session in etcd or after it.                  *)
Die(n) ==
  /\ \/ node[n] = "up" /\ Fault /\ node' = [node EXCEPT ![n] = "stale"]
     \/ node[n] = "zombie" /\ node' = [node EXCEPT ![n] = "dead"] /\ UNCHANGED faults
  /\ inbox' = {m \in inbox : m.node # n}
  /\ UNCHANGED <<metaVars, applyVars, view, lifetimeVars, sent>>

(* The lease of the session runs out.                                       *)
Expire(n) ==
  /\ \/ node[n] = "stale" /\ node' = [node EXCEPT ![n] = "dead"] /\ UNCHANGED faults
     \/ Zombies /\ node[n] = "up" /\ Fault /\ node' = [node EXCEPT ![n] = "zombie"]
  /\ UNCHANGED <<metaVars, applyVars, inbox, view, lifetimeVars, sent>>

(* A request arrives: SetExpectedState.                                     *)
Receive(m) ==
  /\ Running(m.node)
  /\ inbox' = inbox \ {m}
  /\ LET taken == isStateBefore(expected[m.node], m.state)
     IN /\ expected' = IF taken THEN [expected EXCEPT ![m.node] = m.state] ELSE expected
        /\ call' = IF Calling /\ call = "sent" /\ m = Target
                   THEN (IF taken THEN "accepted" ELSE "ignored") ELSE call
  /\ UNCHANGED <<metaVars, coord, step, node, view, current, task, sent, faults>>

(* The background task of n has something to do.                            *)
Busy(n) == isStateBefore(current[n], task[n])

TaskWake(n) ==
  /\ Running(n) /\ ~Busy(n)
  /\ isStateBefore(current[n], expected[n])
  /\ task' = [task EXCEPT ![n] = expected[n]]
  /\ UNCHANGED <<metaVars, applyVars, inbox, node, view, expected, current, sent, faults>>

(* doLifetimeChanged closes the WAL of the previous state ...               *)
CloseOld(n) ==
  /\ Running(n) /\ Busy(n)
  /\ current[n].available
  /\ current' = [current EXCEPT ![n] = Current(@.term, FALSE, FALSE)]
  /\ UNCHANGED <<metaVars, applyVars, inbox, node, view, expected, task, sent, faults>>

(* ... and opens the one of the new state, if it has one.                   *)
Reach(n) ==
  /\ Running(n) /\ Busy(n)
  /\ ~current[n].available
  /\ \/ /\ current' = [current EXCEPT ![n] = Current(task[n].term, task[n].available, FALSE)]
        /\ UNCHANGED faults
     \/ /\ task[n].available /\ Fault
        /\ current' = [current EXCEPT ![n] = Current(task[n].term, FALSE, TRUE)]
  /\ UNCHANGED <<metaVars, applyVars, inbox, node, view, expected, task, sent>>

Next ==
  \/ SendCall \/ NoConnection \/ Disconnect \/ Answer \/ AssignDone
  \/ \E term \in 1..meta.term : ReportError(term)
  \/ Crash \/ RecoverChannelManager \/ Discover
  \/ \E n \in Nodes :
       Balance(n) \/ Start(n) \/ Die(n) \/ Expire(n) \/ TaskWake(n) \/ CloseOld(n) \/ Reach(n)
  \/ \E m \in inbox : Receive(m)

Spec == Init /\ [][Next]_vars

(* Every step that is not a fault is taken in the end: the balancer retries *)
(* with a backoff timer, gRPC delivers, the tasks of the nodes run, leases  *)
(* run out, and the coordinator is restarted.                               *)
Fairness ==
  /\ WF_vars(SendCall) /\ WF_vars(NoConnection) /\ WF_vars(Answer) /\ WF_vars(AssignDone)
  /\ WF_vars(RecoverChannelManager) /\ WF_vars(Discover)
  /\ WF_vars(\E n \in Nodes : Balance(n))
  /\ WF_vars(\E m \in inbox : Receive(m))
  /\ \A n \in Nodes :
       /\ WF_vars(node[n] = "stale" /\ Expire(n)) /\ WF_vars(node[n] = "zombie" /\ Die(n))
       /\ WF_vars(TaskWake(n)) /\ WF_vars(CloseOld(n)) /\ WF_vars(Reach(n))

FairSpec == Spec /\ Fairness

------------------------------------------------------------------------------
(* Properties. *)

(* At most one node that is alive and has its session keeps the channel:   *)
(* its walLifetime expects the WAL to be open.  Remove of every history     *)
(* comes before Assign, also across a crash of the coordinator, a save that *)
(* failed, calls that were lost, repeated or late.                          *)
OneKeeper ==
  \A m, n \in Nodes :
    node[m] = "up" /\ expected[m].available /\ node[n] = "up" /\ expected[n].available => m = n

(* A term belongs to one node: AssignPChannels saves the term before any    *)
(* node hears of it, so a coordinator that recovers never gives it away     *)
(* again.  The fencing of the WAL by terms rests on this.                   *)
TermOfOneNode ==
  \A a, b \in sent : a.term = b.term => a.node = b.node

(* What is announced to clients is true: a channel that is recorded as      *)
(* assigned to a node that lives has its WAL open there, in that term.      *)
AssignmentsTrue ==
  meta.state = "assigned" /\ node[meta.node] = "up"
    => current[meta.node] = Current(meta.term, TRUE, FALSE)

(* At most one running node has the WAL open, as Remove promises before     *)
(* Assign is sent: "the streaming node is not the owner of the wal, so the  *)
(* wal on it is already removed".                                           *)
OneOwner ==
  \A m, n \in Nodes :
    node[m] = "up" /\ current[m].available /\ node[n] = "up" /\ current[n].available => m = n

Served ==
  /\ coord = "idle" /\ meta.state = "assigned" /\ node[meta.node] = "up"
  /\ current[meta.node] = Current(meta.term, TRUE, FALSE)

(* If some node stays up, the channel is served in the end and stays so:    *)
(* no crash, lost answer or dead node of the history wedges the balancer.   *)
EventuallyServed ==
  (\E n \in Nodes : <>[](node[n] = "up")) => <>[]Served
================================================================================
