----------------------------- MODULE WALLifetime -----------------------------
(***************************************************************************)
(* The WAL manager of a streaming node, for one channel: Open and Remove   *)
(* requests of the coordinator raise the expected (term, available) state  *)
(* of a walLifetime and wait until the current state has reached it; one   *)
(* background task closes and opens the WAL.                               *)
(***************************************************************************)
EXTENDS Integers

CONSTANTS
  Requests,  \* calls of Open and Remove
  MaxTerm,   \* bound: the terms the coordinator assigns are 0 .. MaxTerm
  MayClose   \* whether the manager is closed in this instance

ASSUME LifetimeAssumption == MaxTerm \in Nat /\ MayClose \in BOOLEAN

VARIABLES
  current,     \* walStatePair.currentState: term, available and last error
  expected,    \* walStatePair.expectedState
  task,        \* where the background task is in doLifetimeChanged
  target,      \* the expected state it works on
  wals,        \* the terms whose WAL is open
  opened,      \* the terms whose WAL has ever been opened
  flusher,     \* the terms registered with the flusher
  request,     \* each request: its step, expected state and last look at current
  manager      \* where managerImpl.Close is

vars == <<current, expected, task, target, wals, opened, flusher, request, manager>>

Terms == 0 .. MaxTerm
InitialTerm == -1
State(term, available) == [term |-> term, available |-> available]
Current(term, available, err) == [term |-> term, available |-> available, err |-> err]

InitialState == State(InitialTerm, FALSE)
NoRequest == [step |-> "none", expected |-> InitialState,
              seen |-> Current(InitialTerm, FALSE, FALSE), result |-> "none"]

isStateBefore(s, t) ==
  s.term < t.term \/ (s.term = t.term /\ s.available /\ ~t.available)

Same(s, t) == s.term = t.term /\ s.available = t.available

(* SetStateAndNotify of the current state.                                  *)
SetCurrentState(s) == current' = IF isStateBefore(current, s) THEN s ELSE current

-----------------------------------------------------------------------------
(* The requests. *)

isOpenable == manager = "working"
isRemoveable == manager \in {"working", "draining", "closing"}

(* managerImpl.lifetime.Add: Open needs the manager open, Remove may come   *)
(* until it is stopped.                                                     *)
Admitted(available) == IF available THEN isOpenable ELSE isRemoveable

(* Open (available) and Remove, up to SetExpectedState.                     *)
Call(r, s) ==
  /\ request[r].step = "none"
  /\ IF Admitted(s.available) /\ isStateBefore(expected, s)
       THEN /\ expected' = s
            /\ request' = [request EXCEPT ![r] = [step |-> "watch", expected |-> s, seen |-> current,
                                                  result |-> "none"]]
       ELSE /\ request' = [request EXCEPT ![r].step = "done", ![r].expected = s,
                                          ![r].result = IF Admitted(s.available) THEN "ignored"
                                                                                 ELSE "shutdown"]
            /\ UNCHANGED expected
  /\ UNCHANGED <<current, task, target, wals, opened, flusher, manager>>

(* A round of WaitCurrentStateReachExpected: the state has changed since it *)
(* was looked at.                                                           *)
Watch(r) ==
  /\ request[r].step = "watch"
  /\ isStateBefore(request[r].seen, request[r].expected)
  /\ ~Same(request[r].seen, current)
  /\ request' = [request EXCEPT ![r].seen = current]
  /\ UNCHANGED <<current, expected, task, target, wals, opened, flusher, manager>>

(* Mutant: a newer term is not told from the one that was asked for.        *)
ReachedUnchecked(seen, s) == IF seen.err THEN "error" ELSE "ok"

Reached(seen, s) ==
  IF seen.term > s.term THEN "unmatched" ELSE IF seen.err THEN "error" ELSE "ok"

(* The state that was looked at is no longer before the expected one.       *)
Return(r) ==
  /\ request[r].step = "watch"
  /\ ~isStateBefore(request[r].seen, request[r].expected)
  /\ request' = [request EXCEPT ![r].step = "done",
                                ![r].result = Reached(request[r].seen, request[r].expected)]
  /\ UNCHANGED <<current, expected, task, target, wals, opened, flusher, manager>>

(* The context of the request ends while it waits.                          *)
Cancel(r) ==
  /\ request[r].step = "watch"
  /\ isStateBefore(request[r].seen, request[r].expected)
  /\ request' = [request EXCEPT ![r].step = "done", ![r].result = "cancelled"]
  /\ UNCHANGED <<current, expected, task, target, wals, opened, flusher, manager>>

-----------------------------------------------------------------------------
(* The background task. *)

(* Where doLifetimeChanged goes on once the old WAL is gone.                *)
AfterClose(s) == IF s.available THEN "open" ELSE "unavailable"

(* Mutant: the WAL of the old term is left to its own.                      *)
FirstStepNoClose(s) == AfterClose(s)

(* The first step of doLifetimeChanged that has something to do.            *)
FirstStep(s) == IF current.available THEN "unregister" ELSE AfterClose(s)

TaskWake ==
  /\ task = "wait"
  /\ ~Same(expected, target)
  /\ target' = expected
  /\ task' = IF isStateBefore(current, expected) THEN FirstStep(expected) ELSE "wait"
  /\ UNCHANGED <<current, expected, wals, opened, flusher, request, manager>>

(* Mutant: the flusher is not told.                                         *)
UnregisterNothing ==
  /\ task = "unregister"
  /\ task' = "close"
  /\ UNCHANGED <<current, expected, target, wals, opened, flusher, request, manager>>

Unregister ==
  /\ task = "unregister"
  /\ flusher' = {}
  /\ task' = "close"
  /\ UNCHANGED <<current, expected, target, wals, opened, request, manager>>

CloseOld ==
  /\ task = "close"
  /\ wals' = wals \ {current.term}
  /\ task' = "closed"
  /\ UNCHANGED <<current, expected, target, opened, flusher, request, manager>>

PushClosed ==
  /\ task = "closed"
  /\ SetCurrentState(Current(current.term, FALSE, FALSE))
  /\ task' = AfterClose(target)
  /\ UNCHANGED <<expected, target, wals, opened, flusher, request, manager>>

PushUnavailable ==
  /\ task = "unavailable"
  /\ SetCurrentState(Current(target.term, FALSE, FALSE))
  /\ task' = "wait"
  /\ UNCHANGED <<expected, target, wals, opened, flusher, request, manager>>

OpenNew ==
  /\ task = "open"
  /\ wals' = wals \cup {target.term}
  /\ opened' = opened \cup {target.term}
  /\ task' = "register"
  /\ UNCHANGED <<current, expected, target, flusher, request, manager>>

(* Mutant: the failure is not published.                                    *)
OpenFailsSilently ==
  /\ task = "open"
  /\ task' = "wait"
  /\ UNCHANGED <<current, expected, target, wals, opened, flusher, request, manager>>

(* The opener fails, for instance because the context of the Open ended.    *)
OpenFails ==
  /\ task = "open"
  /\ SetCurrentState(Current(target.term, FALSE, TRUE))
  /\ task' = "wait"
  /\ UNCHANGED <<expected, target, wals, opened, flusher, request, manager>>

Register ==
  /\ task = "register"
  /\ flusher' = flusher \cup {target.term}
  /\ task' = "publish"
  /\ UNCHANGED <<current, expected, target, wals, opened, request, manager>>

(* The failure is published before the new WAL is closed.                   *)
RegisterFails ==
  /\ task = "register"
  /\ SetCurrentState(Current(target.term, FALSE, TRUE))
  /\ task' = "discard"
  /\ UNCHANGED <<expected, target, wals, opened, flusher, request, manager>>

(* Mutant: the WAL that could not be registered stays open.                 *)
DiscardForgets ==
  /\ task = "discard"
  /\ task' = "wait"
  /\ UNCHANGED <<current, expected, target, wals, opened, flusher, request, manager>>

Discard ==
  /\ task = "discard"
  /\ wals' = wals \ {target.term}
  /\ task' = "wait"
  /\ UNCHANGED <<current, expected, target, opened, flusher, request, manager>>

Publish ==
  /\ task = "publish"
  /\ SetCurrentState(Current(target.term, TRUE, FALSE))
  /\ task' = "wait"
  /\ UNCHANGED <<expected, target, wals, opened, flusher, request, manager>>

TaskStep ==
  \/ TaskWake
  \/ Unregister \/ CloseOld \/ PushClosed \/ PushUnavailable
  \/ OpenNew \/ OpenFails \/ Register \/ RegisterFails \/ Discard \/ Publish

-----------------------------------------------------------------------------
(* managerImpl.Close. *)

(* The lifetime refuses Open from now on.                                   *)
StartClose ==
  /\ MayClose
  /\ manager = "working"
  /\ manager' = "draining"
  /\ UNCHANGED <<current, expected, task, target, wals, opened, flusher, request>>

(* lifetime.Wait is over, and walLifetime.Close cancels the task.           *)
CancelTask ==
  /\ manager = "draining"
  /\ \A r \in Requests : request[r].step # "watch"
  /\ manager' = "closing"
  /\ UNCHANGED <<current, expected, task, target, wals, opened, flusher, request>>

(* The task leaves when it waits; a Remove that came too late is not done.  *)
TaskExit ==
  /\ manager = "closing"
  /\ task = "wait"
  /\ task' = "exited"
  /\ UNCHANGED <<current, expected, target, wals, opened, flusher, request, manager>>

(* The rest of Close: the current WAL is closed, and from now on the        *)
(* manager refuses Remove too.  The flusher is not told.                    *)
CloseCurrent ==
  /\ manager = "closing"
  /\ task = "exited"
  /\ wals' = IF current.available THEN wals \ {current.term} ELSE wals
  /\ manager' = "stopped"
  /\ UNCHANGED <<current, expected, task, target, opened, flusher, request>>

Init ==
  /\ current = Current(InitialTerm, FALSE, FALSE)
  /\ expected = InitialState
  /\ task = "wait"
  /\ target = InitialState
  /\ wals = {}
  /\ opened = {}
  /\ flusher = {}
  /\ request = [r \in Requests |-> NoRequest]
  /\ manager = "working"

RequestStep(r) ==
  \/ \E term \in Terms, available \in BOOLEAN : Call(r, State(term, available))
  \/ Watch(r) \/ Return(r) \/ Cancel(r)

Next ==
  \/ \E r \in Requests : RequestStep(r)
  \/ TaskStep
  \/ StartClose \/ CancelTask \/ TaskExit \/ CloseCurrent

Spec == Init /\ [][Next]_vars

(* The task's goroutine goes on (closing, opening and registering a WAL end *)
(* one way or the other), and so does a request that has been woken.        *)
FairSpec ==
  /\ Spec
  /\ WF_vars(TaskStep)
  /\ \A r \in Requests : WF_vars(Watch(r) \/ Return(r))

-----------------------------------------------------------------------------
(* Properties. *)

WALState == [term : Terms \cup {InitialTerm}, available : BOOLEAN]
CurrentState == [term : Terms \cup {InitialTerm}, available : BOOLEAN, err : BOOLEAN]

(* Every variable of the manager and of its requests has its type.          *)
TypeOK ==
  /\ current \in CurrentState
  /\ expected \in WALState /\ target \in WALState
  /\ task \in {"wait", "unregister", "close", "closed", "unavailable", "open", "register",
               "publish", "discard", "exited"}
  /\ wals \subseteq Terms /\ opened \subseteq Terms /\ flusher \subseteq Terms
  /\ request \in [Requests -> [step : {"none", "watch", "done"}, expected : WALState,
                               seen : CurrentState,
                               result : {"none", "ok", "error", "unmatched", "ignored", "shutdown",
                                         "cancelled"}]]
  /\ manager \in {"working", "draining", "closing", "stopped"}

Lease == INSTANCE TermLease WITH held <- wals, used <- opened

(* Whatever the order of the requests, and whichever steps fail, the node   *)
(* opens the WAL of a term when no other is open, and terms only go up      *)
(* ("All management operation for a wal will be serialized with order of    *)
(* term", manager_impl.go).                                                 *)
ImplementsLease == Lease!Spec

(* When Remove reports success, no WAL of its term or of an older one is    *)
(* open on the node: the coordinator may assign the channel elsewhere.      *)
RemoveReleases ==
  \A r \in Requests :
    request[r].result = "ok" /\ ~request[r].expected.available =>
      \A t \in wals : t > request[r].expected.term

(* When Open reports success its WAL has been opened, or a Remove of the    *)
(* same term was accepted as well: a newer term is never taken for it.      *)
OpenHonest ==
  \A r \in Requests :
    request[r].result = "ok" /\ request[r].expected.available =>
      \/ request[r].expected.term \in opened
      \/ \E q \in Requests : request[q].expected = State(request[r].expected.term, FALSE)

(* Open waits "until the WAL state is ready or term expired or error        *)
(* occurs": when it reports success its WAL has been opened.                *)
OpenOpens ==
  \A r \in Requests :
    request[r].result = "ok" /\ request[r].expected.available =>
      request[r].expected.term \in opened

(* The flusher only works on a WAL that is open, until the manager closes.  *)
FlusherHasWAL == manager # "stopped" => flusher \subseteq wals

(* The order of states, as a reflexive relation.                            *)
Advances(s, t) == s.term < t.term \/ (s.term = t.term /\ (t.available => s.available))

(* "term is always increasing, available is always before unavailable in    *)
(* same term" (wal_lifetime.go), of the current and of the expected state:  *)
(* neither late requests nor a failed open ever take one of them back.      *)
StatesAdvance == [][Advances(current, current') /\ Advances(expected, expected')]_vars

(* Every Open and Remove is answered without its context having to end, as  *)
(* long as the manager is not closed.                                       *)
RequestsReturn ==
  \A r \in Requests :
    request[r].step = "watch" ~> request[r].step = "done" \/ manager # "working"

(* The current state is "same or greater (e.g. open wal failure) than       *)
(* expected state finally" (wal_state_pair.go), also when the request that  *)
(* set the expected state has gone, until the manager is closed.            *)
CurrentCatchesUp == []<>(~isStateBefore(current, expected) \/ manager # "working")

=============================================================================
