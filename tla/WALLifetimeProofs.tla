-------------------------- MODULE WALLifetimeProofs --------------------------
(***************************************************************************)
(* The safety properties of WALLifetime, for every set of requests and     *)
(* every bound on the terms.                                               *)
(***************************************************************************)
EXTENDS WALLifetime, TLAPS

-----------------------------------------------------------------------------
(* The inductive invariant. *)

(* What the background task knows at each of its steps.                     *)
Idle == wals = IF current.available THEN {current.term} ELSE {}

TaskInv ==
  /\ task = "wait" => Idle /\ manager # "stopped"
  /\ task = "exited" => IF manager = "stopped" THEN wals = {} ELSE Idle
  /\ task \in {"unregister", "close", "closed"} =>
       /\ current.available
       /\ isStateBefore(current, target)
       /\ wals = IF task = "closed" THEN {} ELSE {current.term}
  /\ task = "unavailable" => ~current.available /\ ~target.available /\ wals = {}
  /\ task \in {"open", "register", "publish"} =>
       /\ ~current.available
       /\ target.available
       /\ current.term < target.term
       /\ wals = IF task = "open" THEN {} ELSE {target.term}
  /\ task = "discard" =>
       ~current.available /\ current.err /\ current.term = target.term /\ wals = {target.term}
  /\ manager = "stopped" => task = "exited"

(* The terms opened so far are old, but for the one being opened.           *)
OpenedInv ==
  /\ wals \subseteq opened
  /\ \A u \in opened : u <= current.term \/ (task \in {"register", "publish"} /\ u = target.term)

FlusherInv ==
  /\ manager # "stopped" => flusher \subseteq wals
  /\ task \in {"close", "register", "discard"} => flusher = {}

(* A state that was current once, and a term that is over for good.         *)
Past(s) == s = current \/ isStateBefore(s, current)
LeftBehind(t) == current.term > t \/ (current.term = t /\ ~current.available /\ ~current.err)

RequestInv ==
  \A r \in Requests :
    /\ request[r].step = "watch" => Past(request[r].seen)
    /\ request[r].result = "ok" /\ ~request[r].expected.available =>
         LeftBehind(request[r].expected.term)

(* The background task only works on what some request asked for.           *)
Asked(s) == s = InitialState \/ \E q \in Requests : request[q].step # "none" /\ request[q].expected = s

Explained(s) == s.term = InitialTerm \/ s.err \/ s.term \in opened \/ Asked(State(s.term, FALSE))

AskedInv ==
  /\ Asked(expected) /\ Asked(target)
  /\ current.available => current.term \in opened
  /\ Explained(current)
  /\ \A r \in Requests : request[r].step = "watch" =>
       Explained(request[r].seen) /\ request[r].expected.term \in Terms
  /\ \A r \in Requests : request[r].result = "ok" /\ request[r].expected.available =>
       /\ request[r].expected.term \in Terms
       /\ request[r].expected.term \in opened \/ Asked(State(request[r].expected.term, FALSE))

Inv == TypeOK /\ TaskInv /\ OpenedInv /\ FlusherInv /\ RequestInv /\ AskedInv

-----------------------------------------------------------------------------
(* Facts about the states and the steps they are used in. *)

(* SetCurrentState leaves the state or advances it.                         *)
LEMMA SetCurrentStateAdvances ==
  ASSUME NEW s, SetCurrentState(s)
  PROVE  current' = current \/ (current' = s /\ isStateBefore(current, s))
BY DEF SetCurrentState

(* As long as the requests stay as they are and the current state advances, *)
(* what they have seen stays in the past.                                   *)
LEMMA RequestInvAdvances ==
  ASSUME TypeOK, RequestInv, UNCHANGED request, current' \in CurrentState,
         current' = current \/ isStateBefore(current, current')
  PROVE  RequestInv'
<1> SUFFICES ASSUME NEW r \in Requests
             PROVE  /\ request[r].step = "watch" => Past(request[r].seen)'
                    /\ request[r].result = "ok" /\ ~request[r].expected.available =>
                         LeftBehind(request[r].expected.term)'
  BY DEF RequestInv
<1> /\ current \in CurrentState
    /\ request[r].seen \in CurrentState
    /\ request[r].expected \in WALState
  BY DEF TypeOK
<1>1. request[r].step = "watch" => Past(request[r].seen)'
  BY DEF RequestInv, Past, isStateBefore, CurrentState, Terms, InitialTerm
<1>2. request[r].result = "ok" /\ ~request[r].expected.available =>
        LeftBehind(request[r].expected.term)'
  BY LifetimeAssumption
     DEF RequestInv, LeftBehind, isStateBefore, CurrentState, WALState, Terms, InitialTerm
<1>3. QED  BY <1>1, <1>2

(* What is asked and explained stays so when the requests do.               *)
LEMMA AskedInvKept ==
  ASSUME TypeOK, AskedInv, UNCHANGED <<request, expected>>, opened \subseteq opened',
         Asked(target'),
         current' = current \/ (Explained(current)' /\ (current'.available => current'.term \in opened'))
  PROVE  AskedInv'
<1>1. \A s : Asked(s) => Asked(s)'
  BY DEF Asked
<1>2. \A s : Explained(s) => (s.term = InitialTerm \/ s.err \/ s.term \in opened' \/ Asked(State(s.term, FALSE))')
  BY Zenon, <1>1 DEF Explained
<1>3. Asked(expected)' /\ Asked(target)'
  BY DEF AskedInv, Asked
<1>4. (current.available => current.term \in opened)' /\ Explained(current)'
  BY Zenon, <1>2 DEF AskedInv, Explained
<1>5. ASSUME NEW r \in Requests
      PROVE  /\ request[r].step = "watch" => Explained(request[r].seen)' /\ request[r].expected.term \in Terms
             /\ request[r].result = "ok" /\ request[r].expected.available =>
                  /\ request[r].expected.term \in Terms
                  /\ request[r].expected.term \in opened' \/ Asked(State(request[r].expected.term, FALSE))'
  BY Zenon, <1>1, <1>2 DEF AskedInv, Explained
<1>6. QED  BY Zenon, <1>3, <1>4, <1>5 DEF AskedInv

-----------------------------------------------------------------------------
(* The requests. *)

(* A new request raises the expected state or is answered at once.          *)
LEMMA CallKeeps ==
  ASSUME Inv, NEW r \in Requests, NEW term \in Terms, NEW available \in BOOLEAN,
         Call(r, State(term, available))
  PROVE  Inv'
<1> DEFINE s == State(term, available)
<1> s \in WALState /\ s.term = term /\ s.available = available
  BY DEF State, WALState
<1>0. /\ request[r].step = "none"
      /\ UNCHANGED <<current, task, target, wals, opened, flusher, manager>>
      /\ \/ /\ expected' = s
            /\ request' = [request EXCEPT ![r] = [step |-> "watch", expected |-> s, seen |-> current,
                                                  result |-> "none"]]
         \/ /\ UNCHANGED expected
            /\ \E result \in {"ignored", "shutdown"} :
                 request' = [request EXCEPT ![r].step = "done", ![r].expected = s, ![r].result = result]
  BY DEF Call
<1>1. TypeOK'
  BY <1>0 DEF Inv, TypeOK
<1>2. TaskInv' /\ OpenedInv' /\ FlusherInv'
  BY <1>0 DEF Inv, TaskInv, Idle, OpenedInv, FlusherInv
<1>3. /\ request'[r].step # "none" /\ request'[r].expected = s
      /\ request'[r].result # "ok"
      /\ request'[r].step = "watch" => request'[r].seen = current
      /\ \A q \in Requests \ {r} : request'[q] = request[q]
  BY <1>0 DEF Inv, TypeOK
<1>4. RequestInv'
  BY <1>0, <1>3 DEF Inv, RequestInv, Past, LeftBehind
<1>5. \A x : Asked(x) => Asked(x)'
  BY <1>0, <1>3 DEF Asked
<1>6. Asked(expected)' /\ Asked(target)'
  <2>1. Asked(s)'
    BY <1>3 DEF Asked
  <2>2. Asked(expected) /\ Asked(target)
    BY DEF Inv, AskedInv
  <2>3. Asked(s)' => Asked(expected)' \/ UNCHANGED expected
    BY <1>0 DEF Asked
  <2>4. Asked(target)'
    BY <1>0, <1>3, <2>2 DEF Asked
  <2>5. UNCHANGED expected => Asked(expected)'
    BY <1>0, <1>3, <2>2 DEF Asked
  <2>6. QED  BY <2>1, <2>3, <2>4, <2>5
<1>7. \A x : Explained(x) => Explained(x)'
  BY Zenon, <1>0, <1>5 DEF Explained
<1>8. (current.available => current.term \in opened)' /\ Explained(current)'
  BY Zenon, <1>0, <1>7 DEF Inv, AskedInv, Explained
<1>9. ASSUME NEW q \in Requests
      PROVE  /\ request'[q].step = "watch" => Explained(request[q].seen)' /\ request'[q].expected.term \in Terms
             /\ request'[q].result = "ok" /\ request'[q].expected.available =>
                  /\ request'[q].expected.term \in Terms
                  /\ request'[q].expected.term \in opened' \/ Asked(State(request[q].expected.term, FALSE))'
  <2>1. CASE q = r
    BY Zenon, <1>0, <1>3, <1>7, <2>1 DEF Inv, AskedInv, Explained
  <2>2. CASE q # r
    BY Zenon, <1>0, <1>3, <1>5, <1>7, <2>2 DEF Inv, AskedInv, Explained
  <2>3. QED  BY Zenon, <2>1, <2>2
<1>10. AskedInv'
  BY Zenon, <1>6, <1>8, <1>9 DEF AskedInv
<1>11. QED  BY <1>1, <1>2, <1>4, <1>10 DEF Inv

(* A request that only changes its step, what it has seen and its result.   *)
LEMMA SameRequestsAsked ==
  ASSUME NEW r \in Requests, Inv, TypeOK', UNCHANGED <<current, expected, target, opened>>,
         request[r].step # "none", request'[r].step # "none",
         request'[r].expected = request[r].expected,
         \A q \in Requests \ {r} : request'[q] = request[q],
         request'[r].step = "watch" => request[r].step = "watch" /\ Explained(request'[r].seen),
         request'[r].result = "ok" /\ request[r].expected.available =>
           /\ request[r].expected.term \in Terms
           /\ request[r].expected.term \in opened \/ Asked(State(request[r].expected.term, FALSE))
  PROVE  AskedInv'
<1>1. \A x : Asked(x) => Asked(x)'
  BY DEF Asked
<1>2. \A x : Explained(x) => (x.term = InitialTerm \/ x.err \/ x.term \in opened' \/ Asked(State(x.term, FALSE))')
  BY Zenon, <1>1 DEF Explained
<1>3. Asked(expected)' /\ Asked(target)'
  BY <1>1 DEF Inv, AskedInv, Asked
<1>4. (current.available => current.term \in opened)' /\ Explained(current)'
  BY Zenon, <1>2 DEF Inv, AskedInv, Explained
<1>5. ASSUME NEW q \in Requests
      PROVE  /\ request'[q].step = "watch" => Explained(request[q].seen)' /\ request'[q].expected.term \in Terms
             /\ request'[q].result = "ok" /\ request'[q].expected.available =>
                  /\ request'[q].expected.term \in Terms
                  /\ request'[q].expected.term \in opened' \/ Asked(State(request[q].expected.term, FALSE))'
  <2>1. CASE q = r
    BY Zenon, <1>1, <1>2, <2>1 DEF Inv, AskedInv, Explained
  <2>2. CASE q # r
    BY Zenon, <1>1, <1>2, <2>2 DEF Inv, AskedInv, Explained
  <2>3. QED  BY Zenon, <2>1, <2>2
<1>6. QED  BY Zenon, <1>3, <1>4, <1>5 DEF AskedInv

(* A request that looks at the current state, returns or is cancelled.      *)
LEMMA WaitingKeeps ==
  ASSUME Inv, NEW r \in Requests, Watch(r) \/ Return(r) \/ Cancel(r)
  PROVE  Inv'
<1>0. /\ request[r].step = "watch"
      /\ UNCHANGED <<current, expected, task, target, wals, opened, flusher, manager>>
  BY DEF Watch, Return, Cancel
<1>1. TypeOK'
  BY DEF Inv, TypeOK, Watch, Return, Reached, Cancel
<1>2. TaskInv' /\ OpenedInv' /\ FlusherInv'
  BY <1>0 DEF Inv, TaskInv, Idle, OpenedInv, FlusherInv
<1>3. /\ request'[r].step # "none"
      /\ request'[r].expected = request[r].expected
      /\ \A q \in Requests \ {r} : request'[q] = request[q]
  BY DEF Inv, TypeOK, Watch, Return, Cancel
<1>4. CASE Watch(r)
  <2>1. request'[r].seen = current /\ request'[r].result = request[r].result
    BY <1>4 DEF Watch, Inv, TypeOK
  <2>2. RequestInv'
    BY <1>0, <1>3, <2>1 DEF Inv, RequestInv, Past, LeftBehind
  <2>3. AskedInv'
    BY Zenon, <1>0, <1>1, <1>3, <2>1, SameRequestsAsked DEF Inv, AskedInv
  <2>4. QED  BY <1>1, <1>2, <2>2, <2>3 DEF Inv
<1>5. CASE Cancel(r)
  <2>1. request'[r].step = "done" /\ request'[r].result = "cancelled"
    BY <1>5 DEF Cancel, Inv, TypeOK
  <2>2. RequestInv'
    BY <1>0, <1>3, <2>1 DEF Inv, RequestInv, Past, LeftBehind
  <2>3. AskedInv'
    BY Zenon, <1>0, <1>1, <1>3, <2>1, SameRequestsAsked
  <2>4. QED  BY <1>1, <1>2, <2>2, <2>3 DEF Inv
<1>6. CASE Return(r)
  <2> DEFINE seen == request[r].seen
             asked == request[r].expected
  <2>1. /\ request'[r].step = "done"
        /\ request'[r].result = Reached(seen, asked)
        /\ ~isStateBefore(seen, asked)
    BY <1>6 DEF Return, Inv, TypeOK
  <2>2. seen \in CurrentState /\ asked \in WALState /\ current \in CurrentState
    BY DEF Inv, TypeOK
  <2>3. Past(seen) /\ Explained(seen) /\ asked.term \in Terms
    BY <1>0 DEF Inv, RequestInv, AskedInv
  <2>4. ASSUME Reached(seen, asked) = "ok"
        PROVE  seen.term = asked.term /\ ~seen.err /\ (~asked.available => ~seen.available)
    BY <2>1, <2>2, <2>4 DEF Reached, isStateBefore, CurrentState, WALState, Terms, InitialTerm
  <2>5. Reached(seen, asked) = "ok" /\ ~asked.available => LeftBehind(asked.term)
    BY <2>2, <2>3, <2>4
       DEF Past, LeftBehind, isStateBefore, CurrentState, WALState, Terms, InitialTerm
  <2>6. RequestInv'
    BY <1>0, <1>3, <2>1, <2>5 DEF Inv, RequestInv, Past, LeftBehind
  <2>7. Reached(seen, asked) = "ok" => asked.term \in opened \/ Asked(State(asked.term, FALSE))
    <3>1. asked.term # InitialTerm
      BY <2>3 DEF Terms, InitialTerm
    <3>2. QED  BY Zenon, <2>3, <2>4, <3>1 DEF Explained
  <2>8. AskedInv'
    BY Zenon, <1>0, <1>1, <1>3, <2>1, <2>3, <2>7, SameRequestsAsked
  <2>9. QED  BY <1>1, <1>2, <2>6, <2>8 DEF Inv
<1>7. QED  BY <1>4, <1>5, <1>6

-----------------------------------------------------------------------------
(* The background task. *)

(* The background task takes up the expected state when it is ahead.        *)
LEMMA TaskWakeKeeps ==
  ASSUME Inv, TaskWake
  PROVE  Inv'
<1>0. /\ task = "wait" /\ target' = expected
      /\ task' = IF isStateBefore(current, expected) THEN FirstStep(expected) ELSE "wait"
      /\ UNCHANGED <<current, expected, wals, opened, flusher, request, manager>>
  BY DEF TaskWake
<1> current \in CurrentState /\ expected \in WALState
  BY DEF Inv, TypeOK
<1>1. TypeOK'
  BY <1>0 DEF Inv, TypeOK, FirstStep, AfterClose
<1>2. TaskInv'
  BY <1>0 DEF Inv, TaskInv, Idle, FirstStep, AfterClose, isStateBefore, CurrentState, WALState,
              Terms, InitialTerm
<1>3. OpenedInv'
  BY <1>0 DEF Inv, OpenedInv, FirstStep, AfterClose
<1>4. FlusherInv'
  BY <1>0 DEF Inv, FlusherInv, FirstStep, AfterClose
<1>5. RequestInv'
  BY <1>0 DEF Inv, RequestInv, Past, LeftBehind
<1>6. AskedInv'
  BY Zenon, <1>0, AskedInvKept DEF Inv, AskedInv
<1>7. QED  BY <1>1, <1>2, <1>3, <1>4, <1>5, <1>6 DEF Inv

(* The steps that take a WAL away from the flusher or close it.             *)
LEMMA ClosingKeeps ==
  ASSUME Inv, Unregister \/ CloseOld \/ Discard
  PROVE  Inv'
<1>0. UNCHANGED <<current, expected, target, opened, request, manager>>
  BY DEF Unregister, CloseOld, Discard
<1> current \in CurrentState /\ target \in WALState
  BY DEF Inv, TypeOK
<1>1. TypeOK'
  BY <1>0 DEF Inv, TypeOK, Unregister, CloseOld, Discard
<1>2. TaskInv'
  BY <1>0 DEF Inv, TaskInv, Idle, isStateBefore, Unregister, CloseOld, Discard
<1>3. OpenedInv'
  BY <1>0 DEF Inv, OpenedInv, Unregister, CloseOld, Discard
<1>4. FlusherInv'
  BY <1>0 DEF Inv, FlusherInv, TaskInv, Unregister, CloseOld, Discard
<1>5. RequestInv'
  BY <1>0 DEF Inv, RequestInv, Past, LeftBehind
<1>6. AskedInv'
  BY Zenon, <1>0, AskedInvKept DEF Inv, AskedInv
<1>7. QED  BY <1>1, <1>2, <1>3, <1>4, <1>5, <1>6 DEF Inv

(* The steps that open the WAL of the target's term and register it.        *)
LEMMA OpeningKeeps ==
  ASSUME Inv, OpenNew \/ Register
  PROVE  Inv'
<1>0. UNCHANGED <<current, expected, target, request, manager>>
  BY DEF OpenNew, Register
<1> current \in CurrentState /\ target \in WALState
  BY DEF Inv, TypeOK
<1>1. target.term \in Terms
  BY DEF Inv, TaskInv, OpenNew, Register, CurrentState, WALState, Terms, InitialTerm
<1>2. TypeOK'
  BY <1>0, <1>1 DEF Inv, TypeOK, OpenNew, Register
<1>3. TaskInv'
  BY <1>0 DEF Inv, TaskInv, Idle, OpenNew, Register
<1>4. OpenedInv'
  BY <1>0 DEF Inv, OpenedInv, OpenNew, Register
<1>5. FlusherInv'
  BY <1>0 DEF Inv, FlusherInv, TaskInv, OpenNew, Register
<1>6. RequestInv'
  BY <1>0 DEF Inv, RequestInv, Past, LeftBehind
<1>7. AskedInv'
  BY Zenon, <1>0, AskedInvKept DEF Inv, AskedInv, OpenNew, Register
<1>8. QED  BY <1>2, <1>3, <1>4, <1>5, <1>6, <1>7 DEF Inv

(* The steps that set the current state.                                    *)
LEMMA PushingKeeps ==
  ASSUME Inv, PushClosed \/ PushUnavailable \/ OpenFails \/ RegisterFails \/ Publish
  PROVE  Inv'
<1>0. UNCHANGED <<expected, target, wals, opened, flusher, request, manager>>
  BY Zenon DEF PushClosed, PushUnavailable, OpenFails, RegisterFails, Publish
<1> current \in CurrentState /\ target \in WALState
  BY DEF Inv, TypeOK
<1>1. /\ current' \in CurrentState
      /\ current' = current \/ isStateBefore(current, current')
  <2>1. current' = current \/ isStateBefore(current, current')
    BY Zenon, SetCurrentStateAdvances
       DEF PushClosed, PushUnavailable, OpenFails, RegisterFails, Publish
  <2>2. current' = current \/ \E t \in {current.term, target.term}, a, e \in BOOLEAN : current' = Current(t, a, e)
    BY Zenon, SetCurrentStateAdvances
       DEF PushClosed, PushUnavailable, OpenFails, RegisterFails, Publish
  <2>3. QED  BY <2>1, <2>2 DEF Current, CurrentState, WALState
<1>2. TypeOK'
  BY Zenon, <1>0, <1>1
     DEF Inv, TypeOK, PushClosed, PushUnavailable, OpenFails, RegisterFails, Publish, AfterClose
<1>3. TaskInv'
  <2>1. CASE PushClosed
    BY <1>0, <2>1 DEF Inv, TaskInv, Idle, PushClosed, SetCurrentState, AfterClose, isStateBefore,
                      Current, CurrentState, WALState, Terms, InitialTerm
  <2>2. CASE PushUnavailable
    BY <1>0, <2>2 DEF Inv, TaskInv, Idle, PushUnavailable, SetCurrentState, isStateBefore,
                      Current, CurrentState, WALState, Terms, InitialTerm
  <2>3. CASE OpenFails \/ RegisterFails \/ Publish
    BY <1>0, <2>3 DEF Inv, TaskInv, Idle, OpenFails, RegisterFails, Publish, SetCurrentState,
                      isStateBefore, Current, CurrentState, WALState, Terms, InitialTerm
  <2>4. QED  BY <2>1, <2>2, <2>3
<1>4. OpenedInv'
  <2>1. current'.term >= current.term
    BY <1>1 DEF isStateBefore, CurrentState, Terms, InitialTerm
  <2>2. opened \subseteq Terms
    BY DEF Inv, TypeOK
  <2>3. CASE PushClosed \/ PushUnavailable \/ OpenFails
    <3>1. wals \subseteq opened /\ \A u \in opened : u <= current.term
      BY Zenon, <2>3 DEF Inv, OpenedInv, PushClosed, PushUnavailable, OpenFails
    <3>2. QED  BY <1>0, <1>1, <2>1, <2>2, <3>1 DEF OpenedInv, CurrentState, Terms, InitialTerm
  <2>4. CASE RegisterFails \/ Publish
    <3>1. current'.term = target.term
      BY <2>4 DEF Inv, TaskInv, RegisterFails, Publish, SetCurrentState, isStateBefore, Current
    <3>2. QED  BY <1>0, <1>1, <2>1, <2>2, <2>4, <3>1
                  DEF Inv, OpenedInv, CurrentState, Terms, InitialTerm
  <2>5. QED  BY <2>3, <2>4
<1>5. FlusherInv'
  BY Zenon, <1>0
     DEF Inv, FlusherInv, PushClosed, PushUnavailable, OpenFails, RegisterFails, Publish, AfterClose
<1>6. RequestInv'
  BY <1>0, <1>1, RequestInvAdvances DEF Inv
<1>7. AskedInv'
  <2>1. \A x : Asked(x) => Asked(x)'
    BY <1>0 DEF Asked
  <2>2. CASE current' = current
    BY Zenon, <1>0, <2>2, AskedInvKept DEF Inv, AskedInv
  <2>3. CASE current' = Current(current.term, FALSE, FALSE) /\ PushClosed
    <3>1. current.term \in opened
      BY Zenon, <2>3 DEF Inv, TaskInv, AskedInv, PushClosed
    <3>2. Explained(current)' /\ ~current'.available
      BY Zenon, <1>0, <2>3, <3>1 DEF Explained, Current
    <3>3. QED  BY Zenon, <1>0, <3>2, AskedInvKept DEF Inv, AskedInv
  <2>4. CASE current' = Current(target.term, FALSE, FALSE) /\ PushUnavailable
    <3>1. target = State(target.term, FALSE)
      BY <2>4 DEF Inv, TaskInv, PushUnavailable, WALState, State
    <3>2. Asked(State(target.term, FALSE))'
      BY Zenon, <1>0, <2>1, <3>1 DEF Inv, AskedInv, State
    <3>3. Explained(current)' /\ ~current'.available
      BY Zenon, <2>4, <3>2, <1>0 DEF Explained, Current
    <3>4. QED  BY Zenon, <1>0, <3>3, AskedInvKept DEF Inv, AskedInv
  <2>5. CASE current' = Current(target.term, FALSE, TRUE)
    <3>1. Explained(current)' /\ ~current'.available
      BY <2>5 DEF Explained, Current
    <3>2. QED  BY Zenon, <1>0, <3>1, AskedInvKept DEF Inv, AskedInv
  <2>6. CASE current' = Current(target.term, TRUE, FALSE) /\ Publish
    <3>1. target.term \in opened
      BY <2>6 DEF Inv, TaskInv, OpenedInv, Publish
    <3>2. Explained(current)' /\ current'.term \in opened'
      BY Zenon, <1>0, <2>6, <3>1 DEF Explained, Current
    <3>3. QED  BY Zenon, <1>0, <3>2, AskedInvKept DEF Inv, AskedInv
  <2>7. QED  BY Zenon, <2>2, <2>3, <2>4, <2>5, <2>6, SetCurrentStateAdvances
                DEF PushClosed, PushUnavailable, OpenFails, RegisterFails, Publish
<1>8. QED  BY <1>2, <1>3, <1>4, <1>5, <1>6, <1>7 DEF Inv

-----------------------------------------------------------------------------
(* managerImpl.Close. *)

(* The steps of Close: the task has ended when the last WAL is closed.      *)
LEMMA ManagerKeeps ==
  ASSUME Inv, StartClose \/ CancelTask \/ TaskExit \/ CloseCurrent
  PROVE  Inv'
<1>0. UNCHANGED <<current, expected, target, opened, flusher, request>>
  BY DEF StartClose, CancelTask, TaskExit, CloseCurrent
<1>1. TypeOK'
  BY <1>0 DEF Inv, TypeOK, StartClose, CancelTask, TaskExit, CloseCurrent
<1>2. TaskInv'
  BY Zenon, <1>0
     DEF Inv, TaskInv, Idle, isStateBefore, StartClose, CancelTask, TaskExit, CloseCurrent
<1>3. OpenedInv'
  BY <1>0 DEF Inv, OpenedInv, StartClose, CancelTask, TaskExit, CloseCurrent
<1>4. FlusherInv'
  BY <1>0 DEF Inv, FlusherInv, StartClose, CancelTask, TaskExit, CloseCurrent
<1>5. RequestInv'
  BY <1>0 DEF Inv, RequestInv, Past, LeftBehind
<1>6. AskedInv'
  BY Zenon, <1>0, AskedInvKept DEF Inv, AskedInv
<1>7. QED  BY <1>1, <1>2, <1>3, <1>4, <1>5, <1>6 DEF Inv

-----------------------------------------------------------------------------
(* The theorems. *)

(* A lifetime starts without a WAL, a term and a request.                   *)
LEMMA InitHolds ==
  ASSUME Init
  PROVE  Inv
<1> USE DEF Init, InitialState, State, Current, InitialTerm
<1>1. TypeOK
  BY DEF TypeOK, NoRequest, CurrentState, WALState
<1>2. TaskInv /\ OpenedInv /\ FlusherInv
  BY DEF TaskInv, Idle, OpenedInv, FlusherInv
<1>3. \A r \in Requests : request[r].step = "none" /\ request[r].result = "none"
  BY Zenon DEF NoRequest
<1>4. RequestInv /\ AskedInv
  BY Zenon, <1>3 DEF RequestInv, AskedInv, Asked, Explained
<1>5. QED  BY <1>1, <1>2, <1>4 DEF Inv

(* A step that changes nothing keeps the invariant.                         *)
LEMMA StutterKeeps ==
  ASSUME Inv, UNCHANGED vars
  PROVE  Inv'
<1> USE DEF vars
<1>1. TypeOK' /\ TaskInv' /\ OpenedInv' /\ FlusherInv'
  BY DEF Inv, TypeOK, TaskInv, Idle, OpenedInv, FlusherInv
<1>2. RequestInv'
  BY DEF Inv, RequestInv, Past, LeftBehind
<1>3. AskedInv'
  BY Zenon, AskedInvKept DEF Inv, AskedInv
<1>4. QED  BY <1>1, <1>2, <1>3 DEF Inv

(* Every step keeps the invariant, one case for each group of actions.      *)
LEMMA NextKeeps ==
  ASSUME Inv, [Next]_vars
  PROVE  Inv'
<1>1. CASE \E r \in Requests : RequestStep(r)
  BY <1>1, CallKeeps, WaitingKeeps DEF RequestStep
<1>2. CASE TaskStep
  BY <1>2, TaskWakeKeeps, ClosingKeeps, OpeningKeeps, PushingKeeps DEF TaskStep
<1>3. CASE StartClose \/ CancelTask \/ TaskExit \/ CloseCurrent
  BY <1>3, ManagerKeeps
<1>4. CASE UNCHANGED vars
  BY <1>4, StutterKeeps
<1>5. QED  BY <1>1, <1>2, <1>3, <1>4 DEF Next

(* Whatever requests come, in whatever order, and whichever steps of the    *)
(* background task fail, the inductive invariant holds.                     *)
THEOREM InvHolds == Spec => []Inv
BY InitHolds, NextKeeps, PTL DEF Spec

(* The variables of the WAL manager keep their types.                       *)
THEOREM TypeCorrect == Spec => []TypeOK
<1>1. Inv => TypeOK
  BY DEF Inv
<1>2. QED  BY <1>1, InvHolds, PTL

(* A Remove that reports success leaves no WAL of its term or an older one  *)
(* open, then and for ever after.                                           *)
THEOREM RemoveReleasesHolds == Spec => []RemoveReleases
<1>1. ASSUME Inv, NEW r \in Requests, request[r].result = "ok", ~request[r].expected.available,
             NEW t \in wals
      PROVE  t > request[r].expected.term
  <2>1. LeftBehind(request[r].expected.term)
    BY <1>1 DEF Inv, RequestInv
  <2>2. /\ current \in CurrentState /\ target \in WALState
        /\ request[r].expected \in WALState
        /\ task \in {"wait", "unregister", "close", "closed", "unavailable", "open", "register",
                     "publish", "discard", "exited"}
    BY <1>1 DEF Inv, TypeOK
  <2>3. TaskInv
    BY <1>1 DEF Inv
  <2>4. QED  BY <1>1, <2>1, <2>2, <2>3
                DEF TaskInv, Idle, LeftBehind, CurrentState, WALState, Terms, InitialTerm
<1>2. Inv => RemoveReleases
  BY <1>1 DEF RemoveReleases
<1>3. QED  BY <1>2, InvHolds, PTL

(* An Open that reports success had its WAL opened, or was overtaken by a   *)
(* Remove of its own term.                                                  *)
THEOREM OpenHonestHolds == Spec => []OpenHonest
<1>1. Inv => OpenHonest
  <2>1. ASSUME NEW t \in Terms, Asked(State(t, FALSE))
        PROVE  \E q \in Requests : request[q].expected = State(t, FALSE)
    <3>1. t # InitialTerm
      BY LifetimeAssumption DEF Terms, InitialTerm
    <3>2. State(t, FALSE) # InitialState
      BY <3>1 DEF State, InitialState
    <3>3. QED  BY Zenon, <2>1, <3>2 DEF Asked
  <2>2. QED  BY Zenon, <2>1 DEF Inv, AskedInv, OpenHonest
<1>2. QED  BY <1>1, InvHolds, PTL

(* Until the manager closes, the flusher never has a WAL that is closed.    *)
THEOREM FlusherHasWALHolds == Spec => []FlusherHasWAL
<1>1. Inv => FlusherHasWAL
  BY DEF Inv, FlusherInv, FlusherHasWAL
<1>2. QED  BY <1>1, InvHolds, PTL

(* Current and expected state only move forward in the order of terms.      *)
THEOREM StatesAdvanceHolds == Spec => StatesAdvance
<1> DEFINE Step == Advances(current, current') /\ Advances(expected, expected')
<1>1. ASSUME Inv, [Next]_vars
      PROVE  Step
  <2>1. current \in CurrentState /\ expected \in WALState
    BY <1>1 DEF Inv, TypeOK
  <2>2. CASE \E r \in Requests : RequestStep(r)
    <3>1. UNCHANGED current
      BY ZenonT(60), <2>2 DEF RequestStep, Call, Watch, Return, Cancel
    <3>2. expected' = expected \/ isStateBefore(expected, expected')
      BY ZenonT(60), <2>2 DEF RequestStep, Call, Watch, Return, Cancel
    <3>3. QED  BY <2>1, <3>1, <3>2
                  DEF Advances, isStateBefore, CurrentState, WALState, Terms, InitialTerm
  <2>3. CASE PushClosed \/ PushUnavailable \/ OpenFails \/ RegisterFails \/ Publish
    <3>1. UNCHANGED expected
      BY Zenon, <2>3 DEF PushClosed, PushUnavailable, OpenFails, RegisterFails, Publish
    <3>2. current' = current \/ isStateBefore(current, current')
      BY Zenon, <2>3, SetCurrentStateAdvances
         DEF PushClosed, PushUnavailable, OpenFails, RegisterFails, Publish
    <3>3. QED  BY <2>1, <3>1, <3>2
                  DEF Advances, isStateBefore, CurrentState, WALState, Terms, InitialTerm
  <2>4. CASE UNCHANGED <<current, expected>>
    BY <2>1, <2>4 DEF Advances, CurrentState, WALState, Terms, InitialTerm
  <2>5. QED  BY <1>1, <2>2, <2>3, <2>4
                DEF Next, TaskStep, TaskWake, Unregister, CloseOld, OpenNew, Register, Discard,
                    StartClose, CancelTask, TaskExit, CloseCurrent, vars
<1>2. QED  BY <1>1, InvHolds, PTL DEF Spec, StatesAdvance

(* The manager implements the lease: one WAL at a time, terms only upwards. *)
THEOREM ImplementsLeaseHolds == Spec => ImplementsLease
<1>1. Init => Lease!Init
  BY DEF Init, Lease!Init
<1>2. ASSUME Inv, [Next]_vars
      PROVE  [Lease!Next]_<<wals, opened>>
  <2> current \in CurrentState /\ target \in WALState /\ opened \subseteq Terms
    BY <1>2 DEF Inv, TypeOK
  <2>1. CASE OpenNew
    <3>1. /\ wals = {} /\ wals' = {target.term} /\ opened' = opened \cup {target.term}
          /\ current.term < target.term
          /\ \A u \in opened : u <= current.term
      BY <1>2, <2>1 DEF Inv, TaskInv, OpenedInv, OpenNew
    <3>2. target.term \in Terms /\ \A u \in opened : u < target.term
      BY <3>1 DEF CurrentState, WALState, Terms, InitialTerm
    <3>3. Lease!Acquire(target.term)
      BY <3>1, <3>2 DEF Lease!Acquire
    <3>4. QED  BY <3>2, <3>3 DEF Lease!Next
  <2>2. CASE CloseOld \/ Discard \/ CloseCurrent
    <3>1. opened' = opened /\ (wals' = wals \/ (wals # {} /\ wals' = {}))
      BY <1>2, <2>2 DEF Inv, TaskInv, Idle, CloseOld, Discard, CloseCurrent
    <3>2. QED  BY <3>1 DEF Lease!Next, Lease!Release
  <2>3. CASE ~(OpenNew \/ CloseOld \/ Discard \/ CloseCurrent)
    BY ZenonT(60), <1>2, <2>3
       DEF Next, RequestStep, Call, Watch, Return, Cancel, TaskStep, TaskWake, Unregister,
           PushClosed, PushUnavailable, OpenFails, Register, RegisterFails, Publish,
           StartClose, CancelTask, TaskExit, vars
  <2>4. QED  BY <2>1, <2>2, <2>3
<1>3. QED  BY <1>1, <1>2, InvHolds, PTL DEF Spec, ImplementsLease, Lease!Spec

=============================================================================
