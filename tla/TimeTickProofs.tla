--------------------------- MODULE TimeTickProofs ---------------------------
(***************************************************************************)
(* The properties of TimeTick for every set of appenders, sessions and     *)
(* barriers and every bound.  First lemmas on the two critical sections of *)
(* the AckManager; then one for each action of an appender, of the sync    *)
(* goroutine and of the WAL's life: the invariant of TimeTickInvariant is  *)
(* kept, hence it always holds, and the properties follow from it.         *)
(***************************************************************************)
EXTENDS TimeTickInvariant, TLAPS

-----------------------------------------------------------------------------
(* The types of the log's entries and of the ackers, spelled out.           *)
WalTyped ==
  /\ Len(wal) \in Nat
  /\ \A i \in 1 .. Len(wal) : wal[i].tt \in Nat /\ wal[i].lastConfirmed \in Nat
DetailTyped ==
  \A t \in DOMAIN detail :
    /\ t \in Nat
    /\ detail[t].lastConfirmed \in Nat /\ detail[t].end \in Nat /\ detail[t].id \in Nat
    /\ detail[t].isSync \in BOOLEAN /\ detail[t].acknowledged \in BOOLEAN

Numbers ==
  /\ tso \in Nat
  /\ lastAllocatedTimeTick \in Nat
  /\ lastConfirmedTimeTick \in Nat
  /\ lastConfirmedMessageID \in Nat
  /\ \A x \in notDoneTxnMessage : x.id \in Nat
  /\ notifier.id \in Nat /\ notifier.tt \in Nat
  /\ notAckHeap \subseteq DOMAIN detail
  /\ ackHeap \subseteq DOMAIN detail
  /\ acknowledgedDetails \subseteq DOMAIN detail
  /\ ackDetails \subseteq DOMAIN detail

(* The order of the naturals, for steps that have many other facts.         *)
LEMMA Orders ==
  /\ \A a, b, c \in Nat : a <= b /\ b < c => a < c
  /\ \A a, b, c \in Nat : a < b /\ b < c => a < c
  /\ \A a, b, c \in Nat : a <= b /\ b <= c => a <= c
  /\ \A a, b \in Nat : a < b <=> ~(b <= a)
OBVIOUS

(* One of them by itself.                                                   *)
LEMMA LessLess ==
  \A a, b, c \in Nat : a < b /\ b < c => a < c
OBVIOUS

(* The members of an interval are at most its end.                          *)
LEMMA InInterval ==
  \A n : \A i \in 1 .. n : i <= n
OBVIOUS

(* What the steps below need of the type invariant, without its unfolding.  *)
LEMMA Typed ==
  ASSUME TypeOK
  PROVE  WalTyped /\ DetailTyped /\ Numbers
<1>1. \A i \in 1 .. Len(wal) : wal[i] \in WalEntry
  BY DEF TypeOK
<1>2. WalTyped
  <2>1. Len(wal) \in Nat
    BY DEF TypeOK
  <2>2. QED  BY <1>1, <2>1 DEF WalTyped, WalEntry
<1>3. \A t \in DOMAIN detail : detail[t] \in AckDetail
  BY DEF TypeOK
<1>4. DetailTyped
  <2>1. DOMAIN detail \subseteq Nat
    BY DEF TypeOK
  <2>2. QED  BY <1>3, <2>1 DEF DetailTyped, AckDetail
<1>5. Numbers
  BY DEF TypeOK, Numbers
<1>6. QED  BY <1>2, <1>4, <1>5

(* A prefix of the log covered by a time tick is covered by every later     *)
(* one.                                                                     *)
LEMMA CoveredMonotone ==
  ASSUME WalTyped, NEW id \in Nat, NEW a \in Nat, NEW b \in Nat, a <= b, CoveredTo(id, a)
  PROVE  CoveredTo(id, b)
  BY DEF WalTyped, CoveredTo

-----------------------------------------------------------------------------
(* The AckManager's critical sections. *)

(* What Allocate does to the ackers: a new one, larger than all others.     *)
Allocates(ts) ==
  /\ ts \in Nat
  /\ ts = tso + 1
  /\ tso' = ts
  /\ lastAllocatedTimeTick' = ts
  /\ DOMAIN detail' = DOMAIN detail \cup {ts}
  /\ \A t \in DOMAIN detail : t < ts /\ detail'[t] = detail[t]
  /\ detail'[ts] = newAckDetail(lastConfirmedMessageID)
  /\ detail' \in [DOMAIN detail' -> AckDetail]
  /\ \A i \in 1 .. Len(wal) : wal[i].tt < ts

(* AckManager.Allocate adds one acker, ahead of the log and of all others.  *)
LEMMA AllocateFacts ==
  ASSUME Inv, NEW ts \in Timestamps, Allocate(ts)
  PROVE  Allocates(ts)
<1>1. ts \in Nat /\ ts = tso + 1 /\ tso' = ts /\ lastAllocatedTimeTick' = ts
  BY DEF Inv, TypeOK, Allocate, Timestamps
<1>2. /\ DOMAIN detail' = DOMAIN detail \cup {ts}
      /\ detail'[ts] = newAckDetail(lastConfirmedMessageID)
      /\ \A t \in DOMAIN detail : t # ts => detail'[t] = detail[t]
  BY DEF Allocate
<1>3. \A t \in DOMAIN detail : t < ts
  BY SMTT(20), <1>1 DEF Inv, TypeOK, Allocated
<1>4. detail'[ts] \in AckDetail
  BY <1>2 DEF Inv, TypeOK, newAckDetail, AckDetail
<1>5. detail' \in [DOMAIN detail' -> AckDetail]
  <2>1. \A t \in DOMAIN detail' : detail'[t] \in AckDetail
    BY <1>2, <1>3, <1>4 DEF Inv, TypeOK
  <2>2. QED  BY <2>1 DEF Allocate
<1>6. \A i \in 1 .. Len(wal) : wal[i].tt < ts
  <2>1. WalTyped
    BY Typed DEF Inv
  <2>2. tso \in Nat
    BY DEF Inv, TypeOK
  <2>3. QED  BY <1>1, <2>1, <2>2 DEF Inv, Allocated, WalTyped
<1>7. QED  BY <1>1, <1>2, <1>3, <1>5, <1>6 DEF Allocates

(* Allocate keeps what the invariant says of the manager and the log.       *)
LEMMA AllocateKeeps ==
  ASSUME Inv, ready, NEW ts \in Timestamps, Allocate(ts),
         UNCHANGED <<wal, ready, ackDetails, notifier, sentInfo>>,
         syncPc' = "sent" => syncPc = "sent"
  PROVE  Allocated' /\ Closed' /\ Heaps' /\ Published' /\ Announced' /\ Confirmed'
<1>0. Allocates(ts) /\ WalTyped /\ DetailTyped /\ Numbers
  BY AllocateFacts, Typed DEF Inv
<1>a. /\ notAckHeap' = notAckHeap \cup {ts}
      /\ UNCHANGED <<lastConfirmedTimeTick, ackHeap, acknowledgedDetails,
                     lastConfirmedMessageID, notDoneTxnMessage>>
  BY DEF Allocate
<1>b. /\ detail'[ts].lastConfirmed = lastConfirmedMessageID
      /\ detail'[ts].id = 0 /\ detail'[ts].acknowledged = FALSE
  BY <1>0 DEF Allocates, newAckDetail
<1>c. ts \in Nat /\ tso < ts /\ tso' = ts /\ lastAllocatedTimeTick' = ts
  BY <1>0 DEF Allocates, Numbers
<1> USE <1>a
<1>1. Allocated'
  <2>1. lastConfirmedTimeTick <= ts
    BY <1>0, <1>c DEF Inv, Allocated, Numbers
  <2>2. \A t \in DOMAIN detail' : 0 < t /\ t <= ts
    BY <1>0, <1>c DEF Inv, Allocated, Numbers, Allocates, DetailTyped
  <2>3. \A i \in 1 .. Len(wal) : 0 < wal[i].tt /\ wal[i].tt <= ts
    BY <1>0 DEF Inv, Allocated, Allocates, WalTyped
  <2>4. QED  BY <1>c, <2>1, <2>2, <2>3 DEF Allocated
<1>2. Closed'
  BY DEF Closed
<1>3. Heaps'
  <2>1. lastConfirmedTimeTick < ts
    BY <1>0, <1>c DEF Inv, Allocated, Numbers
  <2>2. \A t \in DOMAIN detail' :
          /\ t \in notAckHeap' <=> lastConfirmedTimeTick < t
          /\ ~detail'[t].acknowledged => t \in notAckHeap'
    BY <1>0, <2>1 DEF Inv, Heaps, Allocates
  <2>3. \A t \in ackHeap : detail'[t].acknowledged
    BY <1>0 DEF Inv, Heaps, Allocates, Numbers
  <2>4. QED  BY <2>2, <2>3 DEF Inv, Heaps, DetailsSorted
<1>4. Published'
  BY DEF Inv, Published, Promised, TimeTickPrinciple, TimeTicksAscend
<1>5. Announced'
  BY <1>0 DEF Inv, Announced, Allocates, NotifierPrinciple, IsLastAllAcknowledged
<1>6. Confirmed'
  <2>1. \A t \in DOMAIN detail' : detail'[t].id <= Len(wal)
    BY <1>0, <1>b DEF Inv, Confirmed, Allocates, WalTyped
  <2>2. \A t \in ackHeap : CoveredTo(detail'[t].id, detail'[t].end)
    BY <1>0 DEF Inv, Confirmed, Allocates, Numbers
  <2>3. ASSUME NEW t \in DOMAIN detail'
        PROVE  /\ detail'[t].lastConfirmed <= Len(wal)
               /\ \A i \in 1 .. detail'[t].lastConfirmed : wal[i].tt < t
    <3>1. CASE t = ts
      <4>1. lastConfirmedMessageID <= Len(wal) /\ lastConfirmedMessageID \in Nat
        BY <1>0 DEF Inv, Confirmed, CoveredTo, Numbers
      <4>2. \A i \in 1 .. Len(wal) : wal[i].tt < ts
        BY <1>0 DEF Allocates
      <4>3. QED  BY <1>0, <1>b, <3>1, <4>1, <4>2 DEF WalTyped
    <3>2. CASE t \in DOMAIN detail
      BY <1>0, <3>2 DEF Inv, Confirmed, Allocates
    <3>3. QED  BY <1>0, <3>1, <3>2 DEF Allocates
  <2>4. QED  BY <2>1, <2>2, <2>3 DEF Inv, Confirmed, CoveredTo, LastConfirmedPrinciple
<1>7. QED  BY <1>1, <1>2, <1>3, <1>4, <1>5, <1>6

(* What Ack does: the acker gets its end; the others keep their details.    *)
Ends(ts) ==
  /\ DOMAIN detail' = DOMAIN detail
  /\ detail' \in [DOMAIN detail' -> AckDetail]
  /\ detail'[ts].end = lastAllocatedTimeTick
  /\ \A t \in DOMAIN detail :
       /\ t # ts => detail'[t] = detail[t]
       /\ detail'[t].id = detail[t].id
       /\ detail'[t].lastConfirmed = detail[t].lastConfirmed
       /\ detail'[t].isSync = detail[t].isSync
       /\ detail'[t].acknowledged = detail[t].acknowledged

(* AckManager.ack sets the end timestamp of one acker and no other field.   *)
LEMMA AckFacts ==
  ASSUME TypeOK, NEW ts \in DOMAIN detail, NEW over, Ack(ts, over)
  PROVE  Ends(ts)
<1>1. detail' = [detail EXCEPT ![ts].end = lastAllocatedTimeTick]
  BY DEF Ack
<1>2. detail'[ts] = [detail[ts] EXCEPT !.end = lastAllocatedTimeTick]
  BY <1>1
<1>3. \A t \in DOMAIN detail : t # ts => detail'[t] = detail[t]
  BY <1>1
<1>4. detail[ts] \in AckDetail /\ lastAllocatedTimeTick \in Nat
  BY DEF TypeOK
<1>5. detail'[ts] \in AckDetail
  BY <1>2, <1>4 DEF AckDetail
<1>6. /\ detail'[ts].end = lastAllocatedTimeTick
      /\ detail'[ts].id = detail[ts].id
      /\ detail'[ts].lastConfirmed = detail[ts].lastConfirmed
      /\ detail'[ts].isSync = detail[ts].isSync
      /\ detail'[ts].acknowledged = detail[ts].acknowledged
  BY <1>2, <1>4 DEF AckDetail
<1>7. DOMAIN detail' = DOMAIN detail /\ detail' \in [DOMAIN detail' -> AckDetail]
  BY <1>1, <1>3, <1>5 DEF TypeOK
<1>8. QED  BY <1>3, <1>6, <1>7 DEF Ends

(* AddConfirmedDetails takes the ids it keeps, and the one it confirms,     *)
(* from where they were or from the details that were confirmed.            *)
LEMMA AddConfirmedFacts ==
  ASSUME NEW C, NEW over, AddConfirmedDetails(C, over)
  PROVE  /\ \A x \in notDoneTxnMessage' : x \in notDoneTxnMessage \/ \E d \in C : x.id = d.id
         /\ \/ lastConfirmedMessageID' = lastConfirmedMessageID
            \/ \E x \in notDoneTxnMessage : lastConfirmedMessageID' = x.id
            \/ \E d \in C : lastConfirmedMessageID' = d.id
<1> DEFINE infos == notDoneTxnMessage \cup {[id |-> d.id, session |-> d.session] :
                                              d \in {c \in C : ~c.isSync /\ ~c.err}}
<1>1. \A x \in infos : x \in notDoneTxnMessage \/ \E d \in C : x.id = d.id
  OBVIOUS
<1>2. notDoneTxnMessage' \subseteq infos
  BY DEF AddConfirmedDetails, ConfirmedIDs
<1>3. \/ lastConfirmedMessageID' = lastConfirmedMessageID
      \/ \E x \in infos : lastConfirmedMessageID' = x.id
  BY DEF AddConfirmedDetails, ConfirmedIDs
<1> HIDE DEF infos
<1>4. QED  BY <1>1, <1>2, <1>3

(* The part of TypeOK that speaks of the manager's variables.               *)
ManagerTyped ==
  /\ lastAllocatedTimeTick \in Nat
  /\ lastConfirmedTimeTick \in Nat
  /\ detail \in [DOMAIN detail -> AckDetail]
  /\ DOMAIN detail \subseteq Nat
  /\ notAckHeap \subseteq DOMAIN detail
  /\ ackHeap \subseteq DOMAIN detail
  /\ acknowledgedDetails \subseteq DOMAIN detail
  /\ lastConfirmedMessageID \in Nat
  /\ notDoneTxnMessage \subseteq [id : Nat, session : Sessions \cup {NoSession}]

(* AddConfirmedDetails keeps the types of lastConfirmedManager's fields.    *)
LEMMA AddConfirmedTyped ==
  ASSUME NEW C \in SUBSET AckDetail, NEW over, AddConfirmedDetails(C, over), TypeOK
  PROVE  /\ lastConfirmedMessageID' \in Nat
         /\ notDoneTxnMessage' \subseteq [id : Nat, session : Sessions \cup {NoSession}]
<1> DEFINE Info == [id : Nat, session : Sessions \cup {NoSession}]
           infos == notDoneTxnMessage \cup {[id |-> d.id, session |-> d.session] :
                                              d \in {c \in C : ~c.isSync /\ ~c.err}}
<1>1. \A d \in C : [id |-> d.id, session |-> d.session] \in Info
  BY DEF AckDetail
<1>2. infos \subseteq Info
  BY <1>1 DEF TypeOK
<1>3. notDoneTxnMessage' \subseteq infos
  BY DEF AddConfirmedDetails, ConfirmedIDs
<1>4. \/ lastConfirmedMessageID' = lastConfirmedMessageID
      \/ \E x \in infos : lastConfirmedMessageID' = x.id
  BY DEF AddConfirmedDetails, ConfirmedIDs
<1>5. lastConfirmedMessageID \in Nat
  BY DEF TypeOK
<1> HIDE DEF infos
<1>6. QED  BY <1>2, <1>3, <1>4, <1>5

(* The two outcomes of popUntilLastAllAcknowledged inside Ack, with the new *)
(* details in place of the expression that computes them.                   *)
PopsNothing(ts) ==
  /\ PoppedAcked = {}
  /\ ackHeap' = ackHeap \cup {ts}
  /\ UNCHANGED <<waiters, notAckHeap, lastConfirmedTimeTick, acknowledgedDetails,
                 lastConfirmedMessageID, notDoneTxnMessage>>

Confirming(ts, last) == {t \in ackHeap \cup {ts} : detail'[t].end < last}

Pops(ts, last, over) ==
  /\ last \in PoppedAcked
  /\ \A t \in PoppedAcked : t <= last
  /\ notAckHeap' = notAckHeap \ PoppedAcked
  /\ waiters' = {}
  /\ lastConfirmedTimeTick' = last
  /\ ackHeap' = (ackHeap \cup {ts}) \ Confirming(ts, last)
  /\ AddConfirmedDetails({detail'[t] : t \in Confirming(ts, last)}, over)
  /\ acknowledgedDetails' = acknowledgedDetails \cup PoppedAcked

(* popUntilLastAllAcknowledged returns early, or pops up to some last       *)
(* acker.                                                                   *)
LEMMA AckCases ==
  ASSUME NEW ts, NEW over, Ack(ts, over)
  PROVE  PopsNothing(ts) \/ \E last : Pops(ts, last, over)
<1> DEFINE acked == [detail EXCEPT ![ts].end = lastAllocatedTimeTick]
           confirmed(last) == {t \in ackHeap \cup {ts} : acked[t].end < last}
           moves(last) ==
             /\ \A t \in PoppedAcked : t <= last
             /\ notAckHeap' = notAckHeap \ PoppedAcked
             /\ waiters' = {}
             /\ lastConfirmedTimeTick' = last
             /\ acknowledgedDetails' = acknowledgedDetails \cup PoppedAcked
           confirms(last) ==
             /\ ackHeap' = (ackHeap \cup {ts}) \ confirmed(last)
             /\ AddConfirmedDetails({acked[t] : t \in confirmed(last)}, over)
<1>1. detail' = acked
  BY DEF Ack
<1>2. \A last : /\ confirmed(last) = Confirming(ts, last)
                /\ {acked[t] : t \in confirmed(last)} =
                     {detail'[t] : t \in Confirming(ts, last)}
  BY <1>1 DEF Confirming
<1>3. PopsNothing(ts) \/ \E last \in PoppedAcked : moves(last) /\ confirms(last)
  BY Zenon DEF Ack, EndedBefore, PopsNothing
<1>4. ASSUME NEW last \in PoppedAcked, moves(last), confirms(last)
      PROVE  Pops(ts, last, over)
  <2>1. /\ ackHeap' = (ackHeap \cup {ts}) \ Confirming(ts, last)
        /\ AddConfirmedDetails({detail'[t] : t \in Confirming(ts, last)}, over)
    <3> HIDE DEF acked, confirmed
    <3>1. QED  BY <1>2, <1>4, Zenon
  <2>2. QED  BY <1>4, <2>1 DEF Pops
<1> HIDE DEF moves, confirms
<1>5. QED  BY <1>3, <1>4

(* AckManager.ack keeps the types of the manager's fields.                  *)
LEMMA AckTyped ==
  ASSUME TypeOK, NEW ts \in DOMAIN detail, NEW over, Ack(ts, over)
  PROVE  ManagerTyped' /\ waiters' \subseteq waiters
<1>1. Ends(ts) /\ DetailTyped /\ Numbers
  BY AckFacts, Typed
<1>2. /\ DOMAIN detail' = DOMAIN detail
      /\ detail' \in [DOMAIN detail' -> AckDetail]
      /\ DOMAIN detail' \subseteq Nat
      /\ lastAllocatedTimeTick' \in Nat
  BY <1>1 DEF Ends, DetailTyped, Numbers, Ack
<1>3. PoppedAcked \subseteq notAckHeap /\ notAckHeap \subseteq DOMAIN detail
  BY <1>1 DEF PoppedAcked, Numbers
<1>4. CASE PopsNothing(ts)
  <2>1. notDoneTxnMessage' \subseteq [id : Nat, session : Sessions \cup {NoSession}]
    BY <1>4 DEF PopsNothing, TypeOK
  <2>2. QED  BY <1>1, <1>2, <1>4, <2>1 DEF PopsNothing, ManagerTyped, Numbers
<1>5. ASSUME NEW last, Pops(ts, last, over)
      PROVE  ManagerTyped' /\ waiters' \subseteq waiters
  <2>1. /\ notAckHeap' = notAckHeap \ PoppedAcked
        /\ waiters' = {}
        /\ last \in PoppedAcked /\ lastConfirmedTimeTick' = last
        /\ ackHeap' \subseteq ackHeap \cup {ts}
        /\ AddConfirmedDetails({detail'[t] : t \in Confirming(ts, last)}, over)
        /\ acknowledgedDetails' = acknowledgedDetails \cup PoppedAcked
    BY <1>5 DEF Pops
  <2>2. Confirming(ts, last) \subseteq DOMAIN detail
    BY <1>1 DEF Confirming, Numbers
  <2>3. {detail'[t] : t \in Confirming(ts, last)} \in SUBSET AckDetail
    BY <1>2, <2>2
  <2>4. /\ lastConfirmedMessageID' \in Nat
        /\ notDoneTxnMessage' \subseteq [id : Nat, session : Sessions \cup {NoSession}]
    BY <2>1, <2>3, AddConfirmedTyped
  <2>5. lastConfirmedTimeTick' \in Nat
    BY <1>1, <1>3, <2>1 DEF DetailTyped
  <2>6. /\ notAckHeap' \subseteq DOMAIN detail
        /\ ackHeap' \subseteq DOMAIN detail
        /\ acknowledgedDetails' \subseteq DOMAIN detail
    BY <1>1, <1>3, <2>1 DEF Numbers
  <2>7. QED  BY <1>2, <2>1, <2>4, <2>5, <2>6 DEF ManagerTyped
<1>6. QED  BY <1>4, <1>5, AckCases

(* Ack keeps what the invariant says of the manager and the log.            *)
LEMMA AckKeeps ==
  ASSUME Inv, ready, NEW ts \in DOMAIN detail, detail[ts].acknowledged, NEW over, Ack(ts, over),
         UNCHANGED <<tso, wal, ready, ackDetails, notifier, sentInfo>>,
         syncPc' = "sent" => syncPc = "sent"
  PROVE  Allocated' /\ Closed' /\ Heaps' /\ Published' /\ Announced' /\ Confirmed'
<1>0. Ends(ts) /\ WalTyped /\ DetailTyped /\ Numbers
  BY AckFacts, Typed DEF Inv
<1>b. /\ \A t \in DOMAIN detail' : t \in Nat
      /\ \A t \in DOMAIN detail' : detail'[t].id \in Nat /\ detail'[t].end \in Nat
      /\ \A t \in DOMAIN detail' : detail'[t].acknowledged = detail[t].acknowledged
      /\ \A t \in DOMAIN detail' : detail'[t].isSync = detail[t].isSync
      /\ DOMAIN detail' = DOMAIN detail
  BY <1>0 DEF Ends, DetailTyped, Numbers
<1>c. PoppedAcked \subseteq notAckHeap /\ \A t \in PoppedAcked : detail[t].acknowledged
  <2>1. \A t \in notAckHeap : t \in Nat
    BY <1>0 DEF Numbers, DetailTyped
  <2>2. QED  BY <2>1 DEF PoppedAcked
<1>d. UNCHANGED lastAllocatedTimeTick /\ ackHeap' \subseteq ackHeap \cup {ts}
  <2>1. CASE PopsNothing(ts)
    BY <2>1 DEF PopsNothing, Ack
  <2>2. ASSUME NEW last, Pops(ts, last, over)
        PROVE  ackHeap' \subseteq ackHeap \cup {ts}
    BY <2>2 DEF Pops
  <2>3. UNCHANGED lastAllocatedTimeTick
    BY DEF Ack
  <2>4. QED  BY <2>1, <2>2, <2>3, AckCases
<1>a. /\ lastConfirmedTimeTick' \in Nat
      /\ lastConfirmedTimeTick <= lastConfirmedTimeTick'
      /\ lastConfirmedTimeTick' <= tso
      /\ notAckHeap' \subseteq notAckHeap
      /\ \A t \in notAckHeap' : lastConfirmedTimeTick' < t
      /\ \A t \in notAckHeap \ notAckHeap' : /\ t <= lastConfirmedTimeTick'
                                             /\ lastConfirmedTimeTick < t
                                             /\ detail[t].acknowledged
      /\ acknowledgedDetails' = acknowledgedDetails \cup (notAckHeap \ notAckHeap')
  <2>0. /\ \A t \in notAckHeap : t \in Nat /\ t <= tso /\ lastConfirmedTimeTick < t
        /\ lastConfirmedTimeTick <= tso
    BY <1>0 DEF Inv, Heaps, Allocated, DetailTyped, Numbers
  <2>1. CASE PopsNothing(ts)
    BY <1>0, <2>0, <2>1 DEF PopsNothing, Numbers
  <2>2. ASSUME NEW last, Pops(ts, last, over)
        PROVE  <1>a!:
    <3>1. /\ last \in PoppedAcked
          /\ \A t \in PoppedAcked : t <= last
          /\ notAckHeap' = notAckHeap \ PoppedAcked
          /\ lastConfirmedTimeTick' = last
          /\ acknowledgedDetails' = acknowledgedDetails \cup PoppedAcked
      BY <2>2 DEF Pops
    <3>2. last \in notAckHeap
      BY <1>c, <3>1
    <3>3. \A t \in notAckHeap \ PoppedAcked : last < t
      BY <2>0, <3>1, <3>2 DEF PoppedAcked
    <3>4. notAckHeap \ notAckHeap' = PoppedAcked
      BY <1>c, <3>1
    <3>5. lastConfirmedTimeTick <= last
      BY <1>0, <2>0, <3>2 DEF Numbers
    <3>6. QED  BY <1>c, <2>0, <3>1, <3>2, <3>3, <3>4, <3>5
  <2>3. QED  BY <2>1, <2>2, AckCases
<1>1. Allocated'
  BY Zenon, <1>0, <1>a, <1>b, <1>d DEF Inv, Allocated
<1>2. Closed'
  BY DEF Closed
<1>3. Heaps'
  <2>1. (\A t \in DOMAIN detail : t \in notAckHeap <=> lastConfirmedTimeTick < t)'
    <3>1. \A t \in DOMAIN detail : t \in notAckHeap <=> lastConfirmedTimeTick < t
      BY DEF Inv, Heaps
    <3>2. \A t \in DOMAIN detail : t \in Nat
      BY <1>0 DEF DetailTyped
    <3>3. notAckHeap' \subseteq DOMAIN detail /\ lastConfirmedTimeTick \in Nat
      BY <1>0, <1>a DEF Numbers
    <3>4. ASSUME NEW t \in DOMAIN detail PROVE t \in notAckHeap' <=> lastConfirmedTimeTick' < t
      <4>1. CASE t \in notAckHeap'
        BY <1>a, <4>1
      <4>2. CASE t \in notAckHeap \ notAckHeap'
        BY <1>a, <3>2, <4>2
      <4>3. CASE t \notin notAckHeap
        BY <1>a, <3>1, <3>2, <3>3, <4>3
      <4>4. QED  BY <4>1, <4>2, <4>3
    <3>5. QED  BY <1>b, <3>4
  <2>2. (\A t \in DOMAIN detail : ~detail[t].acknowledged => t \in notAckHeap)'
    BY <1>a, <1>b DEF Inv, Heaps
  <2>3. (\A t \in acknowledgedDetails \cup ackDetails : t <= lastConfirmedTimeTick)'
    <3>1. \A t \in acknowledgedDetails \cup ackDetails : t \in Nat /\ t <= lastConfirmedTimeTick
      BY <1>0 DEF Inv, Heaps, Numbers, DetailTyped
    <3>2. QED  BY <1>0, <1>a, <3>1 DEF Numbers
  <2>4. DetailsSorted'
    <3>1. \A u \in ackDetails : u \in Nat /\ u <= lastConfirmedTimeTick
      BY <1>0 DEF Inv, Heaps, Numbers, DetailTyped
    <3>2. \A t \in notAckHeap : t \in Nat
      BY <1>0 DEF Numbers, DetailTyped
    <3>3. QED  BY <1>0, <1>a, <3>1, <3>2 DEF Inv, Heaps, DetailsSorted, Numbers
  <2>5. (\A t \in ackHeap : detail[t].acknowledged)'
    <3>1. ackHeap' \subseteq DOMAIN detail
      BY <1>0, <1>d DEF Numbers
    <3>2. QED  BY <1>b, <1>d, <3>1 DEF Inv, Heaps
  <2>6. QED  BY <2>1, <2>2, <2>3, <2>4, <2>5 DEF Heaps
<1>4. Published'
  <2>1. ASSUME NEW i \in 1 .. Len(wal), wal[i].type = "timetick"
        PROVE  /\ wal[i].tt <= lastConfirmedTimeTick'
               /\ \A t \in acknowledgedDetails' : wal[i].tt < t
               /\ ackDetails # {} => \E t \in ackDetails : wal[i].tt <= t
    <3>1. /\ wal[i].tt <= lastConfirmedTimeTick
          /\ \A t \in acknowledgedDetails : wal[i].tt < t
          /\ ackDetails # {} => \E t \in ackDetails : wal[i].tt <= t
      BY Zenon, <2>1 DEF Inv, Published, Promised
    <3>2. wal[i].tt \in Nat /\ lastConfirmedTimeTick \in Nat
      BY Zenon, <1>0 DEF WalTyped, Numbers
    <3>3. \A t \in acknowledgedDetails' :
            t \in acknowledgedDetails \/ (t \in Nat /\ lastConfirmedTimeTick < t)
      BY Zenon, <1>0, <1>a DEF Numbers, DetailTyped
    <3>4. QED  BY SMTT(20), <1>a, <3>1, <3>2, <3>3
  <2>2. QED  BY <2>1 DEF Inv, Published, Promised, TimeTickPrinciple, TimeTicksAscend
<1>5. Announced'
  <2>1. (notifier.id <= Len(wal) /\ notifier.tt <= lastConfirmedTimeTick /\ NotifierPrinciple)'
    <3>1. notifier.id <= Len(wal) /\ notifier.tt <= lastConfirmedTimeTick /\ NotifierPrinciple
      BY Zenon DEF Inv, Announced
    <3>2. NotifierPrinciple'
      BY Zenon, <3>1 DEF NotifierPrinciple
    <3>3. notifier.tt \in Nat /\ lastConfirmedTimeTick \in Nat
      BY Zenon, <1>0 DEF Numbers
    <3>4. notifier.tt <= lastConfirmedTimeTick'
      BY <1>a, <3>1, <3>3
    <3>5. QED  BY Zenon, <3>1, <3>2, <3>4
  <2>a. (\A t \in acknowledgedDetails \cup ackDetails : notifier.tt < t)'
    <3>1. \A t \in acknowledgedDetails \cup ackDetails : notifier.tt < t
      BY Zenon DEF Inv, Announced
    <3>2. \A t \in notAckHeap \ notAckHeap' : t \in Nat /\ notifier.tt < t
      BY SMTT(20), <1>0, <1>a DEF Inv, Announced, Numbers, DetailTyped
    <3>3. QED  BY <1>a, <3>1, <3>2
  <2>2. ASSUME NEW j \in 1 .. Len(wal), wal[notifier.id].tt < wal[j].tt, wal[j].type = "msg"
        PROVE  /\ wal[j].tt \in DOMAIN detail'
               /\ ~detail'[wal[j].tt].isSync
               /\ wal[j].tt <= lastConfirmedTimeTick' =>
                    wal[j].tt \in acknowledgedDetails' \cup ackDetails
    <3>1. /\ wal[j].tt \in DOMAIN detail
          /\ ~detail[wal[j].tt].isSync
          /\ wal[j].tt <= lastConfirmedTimeTick => wal[j].tt \in acknowledgedDetails \cup ackDetails
      BY Zenon, <2>2 DEF Inv, Announced
    <3>2. lastConfirmedTimeTick < wal[j].tt => wal[j].tt \in notAckHeap
      BY Zenon, <3>1 DEF Inv, Heaps
    <3>3. wal[j].tt \in Nat /\ lastConfirmedTimeTick \in Nat
      BY <1>0 DEF WalTyped, Numbers
    <3>4. wal[j].tt \in notAckHeap' => ~(wal[j].tt <= lastConfirmedTimeTick')
      BY <1>a, <3>3
    <3>5. QED  BY SMTT(20), <1>a, <1>b, <3>1, <3>2, <3>3, <3>4
  <2>3. QED  BY Zenon, <2>1, <2>a, <2>2 DEF Inv, Announced, IsLastAllAcknowledged
<1>6. Confirmed'
  <2>1. \A t \in ackHeap \cup {ts} : CoveredTo(detail'[t].id, detail'[t].end)
    <3>1. CoveredTo(detail[ts].id, lastAllocatedTimeTick)
      <4>1. detail[ts].id <= Len(wal) /\ detail[ts].id \in Nat /\ Len(wal) \in Nat
        BY <1>0 DEF Inv, Confirmed, DetailTyped, WalTyped
      <4>2. \A i \in 1 .. Len(wal) : wal[i].tt <= lastAllocatedTimeTick
        BY DEF Inv, Allocated
      <4>3. QED  BY <4>1, <4>2 DEF CoveredTo
    <3>2. \A t \in ackHeap : CoveredTo(detail[t].id, detail[t].end)
      BY DEF Inv, Confirmed
    <3>3. ackHeap \subseteq DOMAIN detail
      BY <1>0 DEF Numbers
    <3>4. QED  BY <1>0, <3>1, <3>2, <3>3 DEF Ends
  <2>2. ASSUME NEW id \in Nat, NEW a \in Nat, a <= lastConfirmedTimeTick', CoveredTo(id, a)
        PROVE  CoveredTo(id, lastConfirmedTimeTick')
    BY Zenon, <1>0, <1>a, <2>2, CoveredMonotone
  <2>3. /\ \A x \in notDoneTxnMessage : CoveredTo(x.id, lastConfirmedTimeTick')
        /\ CoveredTo(lastConfirmedMessageID, lastConfirmedTimeTick')
    BY <1>0, <1>a, <2>2 DEF Inv, Confirmed, Numbers
  <2>4. /\ \A x \in notDoneTxnMessage' : CoveredTo(x.id, lastConfirmedTimeTick')
        /\ CoveredTo(lastConfirmedMessageID', lastConfirmedTimeTick')
    <3>1. CASE PopsNothing(ts)
      BY <3>1, <2>3 DEF PopsNothing
    <3>2. ASSUME NEW last, Pops(ts, last, over)
          PROVE  <2>4!:
      <4> DEFINE details == {detail'[t] : t \in Confirming(ts, last)}
      <4>1. lastConfirmedTimeTick' = last /\ AddConfirmedDetails(details, over)
        BY <3>2 DEF Pops
      <4>2. ASSUME NEW t \in Confirming(ts, last)
            PROVE  CoveredTo(detail'[t].id, lastConfirmedTimeTick')
        <5>1. t \in ackHeap \cup {ts} /\ detail'[t].end < lastConfirmedTimeTick'
          BY <4>1 DEF Confirming
        <5>2. detail'[t].id \in Nat /\ detail'[t].end \in Nat
          BY <1>0, <1>b, <5>1 DEF Numbers
        <5>3. detail'[t].end <= lastConfirmedTimeTick'
          BY <1>a, <5>1, <5>2
        <5>4. QED  BY Zenon, <2>1, <2>2, <5>1, <5>2, <5>3
      <4>3. \A d \in details : CoveredTo(d.id, lastConfirmedTimeTick')
        BY <4>2
      <4> HIDE DEF details
      <4>4. /\ \A x \in notDoneTxnMessage' :
                 x \in notDoneTxnMessage \/ \E d \in details : x.id = d.id
            /\ \/ lastConfirmedMessageID' = lastConfirmedMessageID
               \/ \E x \in notDoneTxnMessage : lastConfirmedMessageID' = x.id
               \/ \E d \in details : lastConfirmedMessageID' = d.id
        BY <4>1, AddConfirmedFacts
      <4>5. QED  BY <4>3, <4>4, <2>3
    <3>3. QED  BY <3>1, <3>2, AckCases
  <2>5. \A t \in DOMAIN detail' :
          /\ detail'[t].id <= Len(wal)
          /\ detail'[t].lastConfirmed <= Len(wal)
          /\ \A i \in 1 .. detail'[t].lastConfirmed : wal[i].tt < t
    BY <1>0 DEF Inv, Confirmed, Ends
  <2>6. QED  BY Zenon, <1>d, <2>1, <2>4, <2>5 DEF Inv, Confirmed, CoveredTo, LastConfirmedPrinciple
<1>7. QED  BY <1>1, <1>2, <1>3, <1>4, <1>5, <1>6

-----------------------------------------------------------------------------
(* The steps of an appender. *)

(* A message that enters DoAppend only moves its own appender.              *)
LEMMA StartAppendKeeps ==
  ASSUME Inv, NEW p \in Appenders, NEW barrier \in Barriers \cup {0},
         NEW session \in Sessions \cup {NoSession}, StartAppend(p, barrier, session)
  PROVE  Inv'
<1> USE DEF Inv, StartAppend, managerVars, syncVars
<1>1. TypeOK'
  <2>1. [barrier |-> barrier, session |-> session] \in
          [barrier : Nat, session : Sessions \cup {NoSession}]
    BY ConstantsAssumption
  <2>2. QED  BY Zenon, <2>1 DEF TypeOK
<1>2. Allocated' /\ Heaps' /\ Published' /\ Announced' /\ Confirmed'
  BY Zenon DEF Allocated, Heaps, DetailsSorted, Published, Promised, TimeTickPrinciple,
         TimeTicksAscend, Announced, NotifierPrinciple, IsLastAllAcknowledged,
         Confirmed, CoveredTo, LastConfirmedPrinciple
<1>3. Closed'
  BY Zenon DEF Closed
<1>4. Owners'
  BY Zenon DEF TypeOK, Owners, Holds, SyncHolds
<1>5. QED  BY <1>1, <1>2, <1>3, <1>4

(* A message that gives up before it is allocated leaves no acker behind.   *)
LEMMA GiveUpKeeps ==
  ASSUME Inv, NEW p \in Appenders, GiveUp(p)
  PROVE  Inv'
<1> USE DEF Inv, GiveUp, managerVars, syncVars
<1>1. TypeOK'
  BY Zenon DEF TypeOK, NoRequest
<1>2. Allocated' /\ Heaps' /\ Published' /\ Announced' /\ Confirmed'
  BY Zenon DEF Allocated, Heaps, DetailsSorted, Published, Promised, TimeTickPrinciple,
         TimeTicksAscend, Announced, NotifierPrinciple, IsLastAllAcknowledged,
         Confirmed, CoveredTo, LastConfirmedPrinciple
<1>3. Closed'
  BY Zenon DEF Closed, TypeOK
<1>4. Owners'
  BY Zenon DEF TypeOK, Owners, Holds, SyncHolds
<1>5. QED  BY <1>1, <1>2, <1>3, <1>4

(* A new acker is ahead of the log and belongs to its appender alone.       *)
LEMMA AllocateAckerKeeps ==
  ASSUME Inv, NEW p \in Appenders, AllocateAcker(p)
  PROVE  Inv'
<1>1. PICK ts \in Timestamps : Allocate(ts) /\ acker' = [acker EXCEPT ![p] = ts]
  BY Zenon DEF AllocateAcker
<1>2. Allocates(ts)
  BY <1>1, AllocateFacts
<1>3. ready
  BY DEF Inv, Closed, AllocateAcker
<1>4. Allocated' /\ Closed' /\ Heaps' /\ Published' /\ Announced' /\ Confirmed'
  BY <1>1, <1>3, AllocateKeeps DEF AllocateAcker, syncVars
<1>5. TypeOK'
  BY Zenon, <1>1, <1>2 DEF Inv, TypeOK, Allocates, Allocate, AllocateAcker, syncVars
<1>6. Owners'
  <2>1. ASSUME NEW q \in Appenders, q # p
        PROVE  acker'[q] = acker[q] /\ pc'[q] = pc[q]
    BY <1>1, <2>1 DEF AllocateAcker, Inv, TypeOK
  <2>2. acker'[p] = ts /\ pc'[p] = "append"
    BY <1>1 DEF AllocateAcker, Inv, TypeOK
  <2>3. ts \notin DOMAIN detail /\ ~detail'[ts].acknowledged /\ ~detail'[ts].isSync
    BY <1>2 DEF Allocates, newAckDetail
  <2>4. \A i \in 1 .. Len(wal) : wal[i].tt # ts
    BY <1>2, Typed DEF Inv, Allocates, WalTyped
  <2>5. /\ UNCHANGED <<syncPc, syncAcker, wal>> /\ DOMAIN detail' = DOMAIN detail \cup {ts}
        /\ \A t \in DOMAIN detail : detail'[t] = detail[t]
    BY Zenon, <1>2 DEF AllocateAcker, Allocates, syncVars
  <2>6. \A q \in Appenders : q # p /\ Holds(q)' => Holds(q) /\ acker[q] # ts
    BY Zenon, <2>1, <2>3 DEF Inv, Owners, Holds
  <2>7. SyncHolds' => SyncHolds /\ syncAcker # ts
    BY Zenon, <2>3, <2>5 DEF Inv, Owners, SyncHolds
  <2>8. ASSUME NEW q \in Appenders, Holds(q)'
        PROVE  (/\ acker[q] \in DOMAIN detail
                /\ detail[acker[q]].acknowledged <=> pc[q] = "ack"
                /\ ~detail[acker[q]].isSync
                /\ SyncHolds => acker[q] # syncAcker
                /\ \A r \in Appenders : r # q /\ Holds(r) => acker[q] # acker[r])'
    <3>1. CASE q = p
      BY Zenon, <2>1, <2>2, <2>3, <2>5, <2>6, <2>7, <3>1
    <3>2. CASE q # p
      <4>1. Holds(q) /\ acker'[q] = acker[q] /\ pc'[q] = pc[q] /\ acker[q] # ts
        BY Zenon, <2>1, <2>6, <2>8, <3>2
      <4>2. /\ acker[q] \in DOMAIN detail /\ ~detail[acker[q]].isSync
            /\ detail[acker[q]].acknowledged <=> pc[q] = "ack"
            /\ SyncHolds => acker[q] # syncAcker
            /\ \A r \in Appenders : r # q /\ Holds(r) => acker[q] # acker[r]
        BY Zenon, <4>1 DEF Inv, Owners
      <4>3. \A r \in Appenders : r # q /\ Holds(r)' => acker[q] # acker'[r]
        BY Zenon, <2>1, <2>2, <2>6, <4>1, <4>2
      <4>4. QED  BY Zenon, <2>5, <2>7, <4>1, <4>2, <4>3
    <3>3. QED  BY Zenon, <3>1, <3>2
  <2>9. SyncHolds' => (/\ syncAcker \in DOMAIN detail
                       /\ detail[syncAcker].acknowledged <=> syncPc = "ack"
                       /\ detail[syncAcker].id = 0
                       /\ \A i \in 1 .. Len(wal) : wal[i].tt # syncAcker)'
    BY Zenon, <2>5, <2>7 DEF Inv, Owners
  <2>10. QED  BY Zenon, <2>8, <2>9 DEF Owners
<1>7. QED  BY <1>4, <1>5, <1>6 DEF Inv

(* The critical section of Acker.Ack, after which the appender holds        *)
(* nothing.                                                                 *)
LEMMA AckAckerKeeps ==
  ASSUME Inv, NEW p \in Appenders, NEW over, AckAcker(p, over)
  PROVE  Inv'
<1> DEFINE ts == acker[p]
<1>1. ts \in DOMAIN detail /\ detail[ts].acknowledged /\ ready
  BY Zenon DEF AckAcker, Inv, Owners, Holds, Closed
<1>2. Ends(ts)
  BY <1>1, AckFacts DEF AckAcker, Inv
<1>3. Allocated' /\ Closed' /\ Heaps' /\ Published' /\ Announced' /\ Confirmed'
  BY <1>1, AckKeeps DEF AckAcker, syncVars
<1>4. TypeOK'
  <2>1. ManagerTyped' /\ waiters' \subseteq waiters
    BY <1>1, AckTyped DEF AckAcker, Inv
  <2>2. /\ pc' = [pc EXCEPT ![p] = "idle"]
        /\ request' = [request EXCEPT ![p] = NoRequest]
        /\ acker' = [acker EXCEPT ![p] = 0]
        /\ UNCHANGED <<tso, wal, crashes, failures, ready, syncVars>>
    BY DEF AckAcker
  <2>3. NoRequest \in [barrier : Nat, session : Sessions \cup {NoSession}]
    BY DEF NoRequest
  <2>4. QED  BY Zenon, <1>2, <2>1, <2>2, <2>3 DEF ManagerTyped, Inv, TypeOK, Ends, syncVars
<1>5. Owners'
  <2>1. ASSUME NEW q \in Appenders, q # p
        PROVE  acker'[q] = acker[q] /\ pc'[q] = pc[q]
    BY <2>1 DEF AckAcker, Inv, TypeOK
  <2>2. pc'[p] = "idle"
    BY DEF AckAcker, Inv, TypeOK
  <2>3. UNCHANGED <<syncPc, syncAcker, wal>>
    BY DEF AckAcker, syncVars
  <2> HIDE DEF ts
  <2>4. QED  BY SMTT(20), <1>2, <2>1, <2>2, <2>3 DEF Inv, Owners, Holds, SyncHolds, Ends
<1>6. QED  BY <1>3, <1>4, <1>5 DEF Inv

(* What Acker.Ack stores before it takes the lock.                          *)
Marks(ts, isSync) ==
  /\ DOMAIN detail' = DOMAIN detail
  /\ detail' \in [DOMAIN detail' -> AckDetail]
  /\ detail'[ts].acknowledged = TRUE
  /\ detail'[ts].isSync = isSync
  /\ \A t \in DOMAIN detail :
       /\ t # ts => detail'[t] = detail[t]
       /\ detail'[t].id = detail[t].id
       /\ detail'[t].end = detail[t].end
       /\ detail'[t].lastConfirmed = detail[t].lastConfirmed

(* The store of the acknowledged flag, field by field.                      *)
LEMMA MarkFacts ==
  ASSUME TypeOK, NEW ts \in DOMAIN detail, NEW isSync \in BOOLEAN, MarkAcknowledged(ts, isSync)
  PROVE  Marks(ts, isSync)
<1>1. detail' = [detail EXCEPT ![ts] = [[@ EXCEPT !.acknowledged = TRUE] EXCEPT !.isSync = isSync]]
  BY Zenon DEF MarkAcknowledged
<1>2. detail'[ts] = [[detail[ts] EXCEPT !.acknowledged = TRUE] EXCEPT !.isSync = isSync]
  BY <1>1
<1>3. \A t \in DOMAIN detail : t # ts => detail'[t] = detail[t]
  BY <1>1
<1>4. detail[ts] \in AckDetail
  BY DEF TypeOK
<1>5. detail'[ts] \in AckDetail
  BY Zenon, <1>2, <1>4 DEF AckDetail
<1>6. /\ detail'[ts].acknowledged = TRUE
      /\ detail'[ts].isSync = isSync
      /\ detail'[ts].id = detail[ts].id
      /\ detail'[ts].end = detail[ts].end
      /\ detail'[ts].lastConfirmed = detail[ts].lastConfirmed
  BY <1>2, <1>4 DEF AckDetail
<1>7. DOMAIN detail' = DOMAIN detail /\ detail' \in [DOMAIN detail' -> AckDetail]
  BY <1>1, <1>3, <1>5 DEF TypeOK
<1>8. QED  BY <1>3, <1>6, <1>7 DEF Marks

(* Storing the flag keeps what the invariant says of the manager, provided  *)
(* a message in the log is not marked as a sync.                            *)
LEMMA MarkKeeps ==
  ASSUME Inv, ready, NEW ts \in DOMAIN detail, NEW isSync \in BOOLEAN,
         MarkAcknowledged(ts, isSync),
         isSync => \A i \in 1 .. Len(wal) : wal[i].tt # ts,
         UNCHANGED <<tso, wal, ready, ackDetails, notifier, sentInfo>>,
         syncPc' = "sent" => syncPc = "sent"
  PROVE  Allocated' /\ Closed' /\ Heaps' /\ Published' /\ Announced' /\ Confirmed'
<1>0. Marks(ts, isSync) /\ WalTyped /\ DetailTyped
  BY Zenon, MarkFacts, Typed DEF Inv
<1>a. UNCHANGED <<lastAllocatedTimeTick, lastConfirmedTimeTick, notAckHeap, ackHeap,
                  acknowledgedDetails, lastConfirmedMessageID, notDoneTxnMessage>>
  BY Zenon DEF MarkAcknowledged
<1> USE <1>0, <1>a DEF Inv, Marks, WalTyped, DetailTyped
<1>1. Allocated'
  BY DEF Allocated
<1>2. Closed'
  BY DEF Closed
<1>3. Heaps'
  BY Zenon DEF Heaps, DetailsSorted, TypeOK
<1>4. Published'
  BY Zenon DEF Published, Promised, TimeTickPrinciple, TimeTicksAscend
<1>5. Announced'
  BY ZenonT(30) DEF Announced, NotifierPrinciple, IsLastAllAcknowledged
<1>6. Confirmed'
  <2>1. (\A t \in ackHeap : CoveredTo(detail[t].id, detail[t].end))'
    BY Zenon DEF Confirmed, CoveredTo, TypeOK
  <2>2. QED  BY Zenon, <2>1 DEF Confirmed, CoveredTo, LastConfirmedPrinciple
<1>7. QED  BY <1>1, <1>2, <1>3, <1>4, <1>5, <1>6

(* An appender sets the flag of its own acker, which is not a sync.         *)
LEMMA MarkAckerKeeps ==
  ASSUME Inv, NEW p \in Appenders, MarkAcker(p)
  PROVE  Inv'
<1> DEFINE ts == acker[p]
<1>1. ts \in DOMAIN detail /\ ready
  BY DEF MarkAcker, Inv, Owners, Holds, Closed
<1>2. MarkAcknowledged(ts, FALSE)
  BY Zenon DEF MarkAcker
<1>3. Marks(ts, FALSE)
  BY Zenon, <1>1, <1>2, MarkFacts DEF Inv
<1>4. Allocated' /\ Closed' /\ Heaps' /\ Published' /\ Announced' /\ Confirmed'
  BY Zenon, <1>1, <1>2, MarkKeeps DEF MarkAcker, syncVars
<1>5. TypeOK'
  BY ZenonT(30), <1>2, <1>3 DEF MarkAcker, MarkAcknowledged, Marks, Inv, TypeOK, syncVars
<1>6. Owners'
  <2>1. ASSUME NEW q \in Appenders, q # p
        PROVE  acker'[q] = acker[q] /\ pc'[q] = pc[q]
    BY Zenon, <2>1 DEF MarkAcker, Inv, TypeOK
  <2>2. acker'[p] = ts /\ pc'[p] = "ack" /\ pc[p] = "mark"
    BY Zenon DEF MarkAcker, Inv, TypeOK
  <2>3. QED  BY SMTT(20), <1>3, <2>1, <2>2
             DEF Inv, Owners, Holds, SyncHolds, Marks, MarkAcker, syncVars
<1>7. QED  BY <1>4, <1>5, <1>6 DEF Inv

(* An entry that fits behind the log: it is above the time ticks there, and *)
(* no message above it is at or before its last confirmed id.               *)
Fits(entry) ==
  /\ entry \in WalEntry
  /\ \A i \in 1 .. Len(wal) : wal[i].type = "timetick" =>
       /\ wal[i].tt <= entry.tt
       /\ entry.type = "msg" => wal[i].tt < entry.tt
  /\ entry.lastConfirmed <= Len(wal) + 1
  /\ \A i \in 1 .. Len(wal) : wal[i].type = "msg" /\ wal[i].tt > entry.tt => i > entry.lastConfirmed

(* An append to the underlying log leaves the entry there, or nothing.      *)
Grows(entry) ==
  /\ Len(wal') \in Nat /\ Len(wal) <= Len(wal')
  /\ \A i \in 1 .. Len(wal) : i \in 1 .. Len(wal') /\ wal'[i] = wal[i]
  /\ \A i \in 1 .. Len(wal') : i \in 1 .. Len(wal) \/ (i = Len(wal) + 1 /\ wal'[i] = entry)

(* An append, successful or not, adds the entry or nothing.                 *)
LEMMA GrowFacts ==
  ASSUME TypeOK, NEW entry \in WalEntry, wal' \in {wal, Append(wal, entry)}
  PROVE  Grows(entry) /\ wal' \in Seq(WalEntry)
<1>1. wal \in Seq(WalEntry) /\ Len(wal) \in Nat
  BY SMTT(20) DEF TypeOK
<1>2. CASE wal' = wal
  BY <1>1, <1>2 DEF Grows
<1>3. CASE wal' = Append(wal, entry)
  BY <1>1, <1>3 DEF Grows
<1>4. QED  BY <1>2, <1>3

(* What is covered stays covered: the log only grows behind it.             *)
LEMMA GrowCovers ==
  ASSUME WalTyped, NEW entry, Grows(entry), NEW id \in Nat, NEW b, CoveredTo(id, b)
  PROVE  id <= Len(wal') /\ \A i \in 1 .. id : wal'[i].tt <= b
  BY DEF WalTyped, Grows, CoveredTo

(* A fitting entry keeps the principles that speak of the log alone.        *)
LEMMA GrowKeeps ==
  ASSUME WalTyped, NEW entry, Grows(entry), Fits(entry), wal' = wal \/ Len(wal') = Len(wal) + 1,
         TimeTickPrinciple, TimeTicksAscend, LastConfirmedPrinciple,
         \A m \in 1 .. Len(wal) : wal[m].lastConfirmed <= Len(wal)
  PROVE  /\ TimeTickPrinciple' /\ TimeTicksAscend' /\ LastConfirmedPrinciple'
         /\ (\A m \in 1 .. Len(wal) : wal[m].lastConfirmed <= Len(wal))'
<1>0. entry.tt \in Nat /\ entry.lastConfirmed \in Nat
  BY Zenon DEF Fits, WalEntry
<1>1. TimeTickPrinciple'
  BY SMTT(20), <1>0 DEF WalTyped, Grows, Fits, TimeTickPrinciple
<1>2. TimeTicksAscend'
  BY SMTT(20), <1>0 DEF WalTyped, Grows, Fits, TimeTicksAscend
<1>3. (\A m \in 1 .. Len(wal) : wal[m].lastConfirmed <= Len(wal))'
  BY SMTT(20), <1>0 DEF WalTyped, Grows, Fits
<1>4. LastConfirmedPrinciple'
  <2>1. SUFFICES ASSUME NEW m \in 1 .. Len(wal'), NEW i \in 1 .. Len(wal'),
                        wal'[i].type = "msg", wal'[i].tt > wal'[m].tt
                 PROVE  i > wal'[m].lastConfirmed
    BY DEF LastConfirmedPrinciple
  <2>2. CASE m \in 1 .. Len(wal) /\ i \in 1 .. Len(wal)
    BY <2>1, <2>2 DEF LastConfirmedPrinciple, Grows
  <2>3. CASE m \in 1 .. Len(wal) /\ i = Len(wal) + 1
    BY <2>1, <2>3 DEF Grows, WalTyped
  <2>4. CASE m = Len(wal) + 1 /\ wal'[m] = entry /\ i \in 1 .. Len(wal)
    BY Zenon, <2>1, <2>4 DEF Grows, Fits
  <2>5. CASE m = Len(wal) + 1 /\ i = Len(wal) + 1
    BY <1>0, <2>1, <2>5 DEF Grows
  <2>6. QED  BY Zenon, <2>2, <2>3, <2>4, <2>5 DEF Grows
<1>5. QED  BY Zenon, <1>1, <1>2, <1>3, <1>4

(* What AppendMsg does to the acker: id and session, or the error.          *)
Sends(ts) ==
  /\ DOMAIN detail' = DOMAIN detail
  /\ detail' \in [DOMAIN detail' -> AckDetail]
  /\ detail'[ts].id = detail[ts].id \/ (detail'[ts].id = Len(wal) + 1 /\ Len(wal') = Len(wal) + 1)
  /\ \A t \in DOMAIN detail :
       /\ t # ts => detail'[t] = detail[t]
       /\ detail'[t].end = detail[t].end
       /\ detail'[t].isSync = detail[t].isSync
       /\ detail'[t].acknowledged = detail[t].acknowledged
       /\ detail'[t].lastConfirmed = detail[t].lastConfirmed

(* What appendMsg does to the log and to the acker's detail, field by       *)
(* field.                                                                   *)
LEMMA SendFacts ==
  ASSUME TypeOK, NEW p \in Appenders, acker[p] \in DOMAIN detail, AppendMsg(p)
  PROVE  Sends(acker[p])
<1> DEFINE ts == acker[p]
           session == request[p].session
<1>1. detail[ts] \in AckDetail /\ Len(wal) + 1 \in Nat /\ session \in Sessions \cup {NoSession}
  <2>1. detail[ts] \in AckDetail /\ session \in Sessions \cup {NoSession}
    BY Zenon DEF TypeOK
  <2>2. Len(wal) \in Nat
    BY Typed DEF WalTyped
  <2>3. QED  BY <2>1, <2>2
<1>2. CASE /\ wal' = Append(wal, Message(ts, detail[ts].lastConfirmed))
           /\ detail' = [detail EXCEPT ![ts].id = Len(wal) + 1, ![ts].session = session]
  <2>1. detail' = [detail EXCEPT ![ts] = [[@ EXCEPT !.id = Len(wal) + 1] EXCEPT !.session = session]]
    BY Zenon, <1>2
  <2>2. detail'[ts] = [[detail[ts] EXCEPT !.id = Len(wal) + 1] EXCEPT !.session = session]
    BY <2>1
  <2>3. \A t \in DOMAIN detail : t # ts => detail'[t] = detail[t]
    BY <2>1
  <2>4. detail'[ts] \in AckDetail
    BY Zenon, <1>1, <2>2 DEF AckDetail
  <2>5. /\ detail'[ts].id = Len(wal) + 1
        /\ detail'[ts].end = detail[ts].end
        /\ detail'[ts].isSync = detail[ts].isSync
        /\ detail'[ts].acknowledged = detail[ts].acknowledged
        /\ detail'[ts].lastConfirmed = detail[ts].lastConfirmed
    BY <1>1, <2>2 DEF AckDetail
  <2>6. DOMAIN detail' = DOMAIN detail /\ detail' \in [DOMAIN detail' -> AckDetail]
    BY <2>1, <2>3, <2>4 DEF TypeOK
  <2>7. Len(wal') = Len(wal) + 1
    BY <1>2 DEF TypeOK
  <2>8. QED  BY <2>3, <2>5, <2>6, <2>7 DEF Sends
<1>3. CASE detail' = [detail EXCEPT ![ts].err = TRUE]
  <2>1. detail'[ts] = [detail[ts] EXCEPT !.err = TRUE]
    BY <1>3
  <2>2. \A t \in DOMAIN detail : t # ts => detail'[t] = detail[t]
    BY <1>3
  <2>3. detail'[ts] \in AckDetail
    BY Zenon, <1>1, <2>1 DEF AckDetail
  <2>4. /\ detail'[ts].id = detail[ts].id
        /\ detail'[ts].end = detail[ts].end
        /\ detail'[ts].isSync = detail[ts].isSync
        /\ detail'[ts].acknowledged = detail[ts].acknowledged
        /\ detail'[ts].lastConfirmed = detail[ts].lastConfirmed
    BY <1>1, <2>1 DEF AckDetail
  <2>5. DOMAIN detail' = DOMAIN detail /\ detail' \in [DOMAIN detail' -> AckDetail]
    BY <1>3, <2>2, <2>3 DEF TypeOK
  <2>6. QED  BY Zenon, <2>2, <2>4, <2>5 DEF Sends
<1>4. QED  BY <1>2, <1>3 DEF AppendMsg

(* A message that is written is ahead of everything confirmed, whatever the *)
(* log answers.                                                             *)
LEMMA AppendMsgKeeps ==
  ASSUME Inv, NEW p \in Appenders, AppendMsg(p)
  PROVE  Inv'
<1> DEFINE ts == acker[p]
           entry == Message(ts, detail[ts].lastConfirmed)
<1>1. /\ ready
      /\ ts \in DOMAIN detail
      /\ ~detail[ts].acknowledged
      /\ ~detail[ts].isSync
      /\ pc[p] = "append"
  BY DEF AppendMsg, Inv, Owners, Holds, Closed
<1>2. WalTyped /\ DetailTyped /\ TypeOK
  BY Typed DEF Inv
<1>3. Sends(ts)
  BY <1>1, <1>2, SendFacts
<1>4. entry \in WalEntry
  BY Zenon, <1>1, <1>2 DEF TypeOK, DetailTyped, Message, WalEntry
<1>5. wal' \in {wal, Append(wal, entry)}
  BY DEF AppendMsg, FailedAppend
<1>6. Grows(entry) /\ wal' \in Seq(WalEntry)
  BY <1>2, <1>4, <1>5, GrowFacts
<1>7. TypeOK'
  <2>1. failures' \in Nat
    <3>1. failures \in Nat
      BY <1>2 DEF TypeOK
    <3>2. failures' = failures \/ failures' = failures + 1
      BY DEF AppendMsg, FailedAppend
    <3>3. QED  BY <3>1, <3>2
  <2>2. QED  BY Zenon, <1>3, <1>6, <2>1 DEF AppendMsg, Sends, Inv, TypeOK, syncVars
<1>8. /\ UNCHANGED <<tso, ready, lastAllocatedTimeTick, lastConfirmedTimeTick, notAckHeap,
                     ackHeap, acknowledgedDetails, lastConfirmedMessageID,
                     notDoneTxnMessage, ackDetails, notifier, sentInfo, syncPc,
                     syncAcker, acker>>
      /\ pc' = [pc EXCEPT ![p] = "mark"]
  BY DEF AppendMsg, syncVars
<1>9. /\ entry.tt = ts /\ entry.type = "msg" /\ entry.lastConfirmed = detail[ts].lastConfirmed
      /\ ts \in Nat /\ 0 < ts
      /\ ts <= lastAllocatedTimeTick /\ lastAllocatedTimeTick <= tso
      /\ lastConfirmedTimeTick < ts
      /\ ts \notin ackHeap
  BY Zenon, <1>1, <1>2 DEF Message, Inv, Heaps, Allocated, DetailTyped
<1>10. /\ lastConfirmedTimeTick \in Nat /\ lastAllocatedTimeTick \in Nat /\ tso \in Nat
       /\ ackHeap \subseteq DOMAIN detail
       /\ \A x \in notDoneTxnMessage : x.id \in Nat
       /\ lastConfirmedMessageID \in Nat
       /\ notifier.id \in Nat /\ notifier.tt \in Nat
  BY Zenon, <1>2 DEF TypeOK
<1> HIDE DEF ts, entry
<1>11. Fits(entry)
  BY SMTT(20), <1>1, <1>2, <1>4, <1>9, <1>10
     DEF Fits, Inv, Published, Promised, Confirmed, WalTyped, DetailTyped
<1>13. /\ TimeTickPrinciple' /\ TimeTicksAscend' /\ LastConfirmedPrinciple'
       /\ (\A m \in 1 .. Len(wal) : wal[m].lastConfirmed <= Len(wal))'
  <2>1. wal' = wal \/ Len(wal') = Len(wal) + 1
    BY <1>2, <1>5 DEF TypeOK
  <2>2. QED  BY Zenon, <1>2, <1>6, <1>11, <2>1, GrowKeeps DEF Inv, Published, Confirmed
<1>14. Allocated'
  <2>1. \A i \in 1 .. Len(wal) : 0 < wal[i].tt /\ wal[i].tt <= lastAllocatedTimeTick
    BY <1>1 DEF Inv, Allocated
  <2>2. \A i \in 1 .. Len(wal') :
          wal'[i].tt \in Nat /\ 0 < wal'[i].tt /\ wal'[i].tt <= lastAllocatedTimeTick
    BY Zenon, <1>2, <1>6, <1>9, <2>1 DEF Grows, WalTyped
  <2>3. \A i \in 1 .. Len(wal') : wal'[i].tt <= tso
    BY <1>9, <1>10, <2>2
  <2>4. QED  BY Zenon, <1>3, <1>8, <2>2, <2>3 DEF Inv, Allocated, Sends
<1>15. Closed'
  BY <1>1, <1>8 DEF Closed
<1>16. Heaps'
  BY Zenon, <1>3, <1>8, <1>10 DEF Inv, Heaps, DetailsSorted, Sends
<1>17. Owners'
  <2>1. ASSUME NEW q \in Appenders, q # p
        PROVE  acker'[q] = acker[q] /\ pc'[q] = pc[q]
    BY <1>2, <1>8, <2>1 DEF TypeOK
  <2>2. acker'[p] = ts /\ pc'[p] = "mark" /\ acker[p] = ts
    BY Zenon, <1>2, <1>8 DEF TypeOK, ts
  <2>3. (\A q \in Appenders : Holds(q) =>
           /\ acker[q] \in DOMAIN detail
           /\ detail[acker[q]].acknowledged <=> pc[q] = "ack"
           /\ ~detail[acker[q]].isSync
           /\ SyncHolds => acker[q] # syncAcker
           /\ \A r \in Appenders : r # q /\ Holds(r) => acker[q] # acker[r])'
    BY SMTT(20), <1>1, <1>3, <1>8, <2>1, <2>2 DEF Inv, Owners, Holds, SyncHolds, Sends
  <2>4. ASSUME SyncHolds
        PROVE  /\ syncAcker \in DOMAIN detail' /\ syncAcker # ts
               /\ detail'[syncAcker] = detail[syncAcker]
               /\ \A i \in 1 .. Len(wal') : wal'[i].tt # syncAcker
    BY SMTT(20), <1>1, <1>3, <1>6, <1>9, <2>2, <2>4 DEF Inv, Owners, Holds, Sends, Grows
  <2>5. QED  BY Zenon, <1>8, <2>3, <2>4 DEF Inv, Owners, SyncHolds
<1>18. Published'
  BY Zenon, <1>1, <1>6, <1>8, <1>9, <1>13 DEF Inv, Published, Promised, Grows
<1>19. Announced'
  <2>0. /\ notifier.id \in 1 .. Len(wal) /\ notifier.id \in 1 .. Len(wal')
        /\ wal'[notifier.id] = wal[notifier.id]
        /\ wal[notifier.id].type = "timetick" /\ wal[notifier.id].tt <= notifier.tt
        /\ notifier.tt <= lastConfirmedTimeTick
        /\ \A t \in acknowledgedDetails \cup ackDetails : notifier.tt < t
    BY Zenon, <1>1, <1>6 DEF Inv, Announced, Grows
  <2>1. (notifier.id <= Len(wal) /\ notifier.tt <= lastConfirmedTimeTick)'
    <3>1. notifier.id <= Len(wal')
      BY Zenon, <2>0, InInterval
    <3>2. QED  BY Zenon, <1>8, <2>0, <3>1
  <2>2. ASSUME NEW j \in 1 .. Len(wal'), wal[notifier.id].tt < wal'[j].tt, wal'[j].type = "msg"
        PROVE  /\ wal'[j].tt \in DOMAIN detail'
               /\ ~detail'[wal'[j].tt].isSync
               /\ wal'[j].tt <= lastConfirmedTimeTick =>
                    wal'[j].tt \in acknowledgedDetails \cup ackDetails
    <3>1. CASE j \in 1 .. Len(wal)
      BY SMTT(20), <1>1, <1>3, <1>6, <2>2, <3>1 DEF Inv, Announced, Sends, Grows
    <3>2. CASE wal'[j] = entry
      <4>1. ~(ts <= lastConfirmedTimeTick)
        BY <1>9, <1>10
      <4>2. QED  BY Zenon, <1>1, <1>3, <1>9, <3>2, <4>1 DEF Sends
    <3>3. QED  BY Zenon, <1>6, <3>1, <3>2 DEF Grows
  <2>3. (syncPc = "sent" => /\ sentInfo.id \in 1 .. Len(wal)
                            /\ notifier.id < sentInfo.id
                            /\ wal[sentInfo.id].type = "timetick"
                            /\ wal[sentInfo.id].tt = sentInfo.tt
                            /\ IsLastAllAcknowledged(sentInfo.tt))'
    BY Zenon, <1>6, <1>8 DEF Inv, Announced, Grows, IsLastAllAcknowledged
  <2>4. ASSUME NEW j \in 1 .. Len(wal'), wal'[j].tt <= notifier.tt, wal'[j].type = "msg"
        PROVE  j < notifier.id /\ wal'[j].tt <= wal[notifier.id].tt
    <3>1. wal'[j] # entry
      <4>1. /\ notifier.tt <= lastConfirmedTimeTick /\ lastConfirmedTimeTick < ts
            /\ notifier.tt \in Nat /\ lastConfirmedTimeTick \in Nat /\ ts \in Nat
        BY Zenon, <1>9, <1>10, <2>0
      <4>2. ~(ts <= notifier.tt)
        BY <4>1
      <4>3. QED  BY Zenon, <1>9, <2>4, <4>2
    <3>2. j \in 1 .. Len(wal) /\ wal'[j] = wal[j]
      BY Zenon, <1>6, <3>1 DEF Grows
    <3>3. QED  BY Zenon, <2>4, <3>2 DEF Inv, Announced, NotifierPrinciple
  <2>5. QED  BY Zenon, <1>8, <2>0, <2>1, <2>2, <2>3, <2>4 DEF Announced, NotifierPrinciple
<1>20. Confirmed'
  <2>1. (\A t \in DOMAIN detail : detail[t].id <= Len(wal))'
    BY SMTT(20), <1>2, <1>3, <1>6 DEF Inv, Confirmed, Sends, Grows, WalTyped, DetailTyped
  <2>2. (\A t \in ackHeap : CoveredTo(detail[t].id, detail[t].end))'
    <3>1. \A t \in ackHeap : detail'[t] = detail[t] /\ detail[t].id \in Nat
      BY Zenon, <1>2, <1>3, <1>9, <1>10 DEF Sends, DetailTyped
    <3>2. \A t \in ackHeap : CoveredTo(detail[t].id, detail[t].end)
      BY Zenon DEF Inv, Confirmed
    <3>3. QED  BY Zenon, <1>2, <1>6, <1>8, <3>1, <3>2, GrowCovers DEF CoveredTo
  <2>3. /\ (\A x \in notDoneTxnMessage : CoveredTo(x.id, lastConfirmedTimeTick))'
        /\ CoveredTo(lastConfirmedMessageID, lastConfirmedTimeTick)'
    <3>1. /\ \A x \in notDoneTxnMessage : CoveredTo(x.id, lastConfirmedTimeTick)
          /\ CoveredTo(lastConfirmedMessageID, lastConfirmedTimeTick)
      BY Zenon DEF Inv, Confirmed
    <3>2. QED  BY Zenon, <1>2, <1>6, <1>8, <1>10, <3>1, GrowCovers DEF CoveredTo
  <2>4. (\A t \in DOMAIN detail : /\ detail[t].lastConfirmed <= Len(wal)
                                  /\ \A i \in 1 .. detail[t].lastConfirmed : wal[i].tt < t)'
    BY SMTT(20), <1>2, <1>3, <1>6 DEF Inv, Confirmed, Sends, Grows, WalTyped, DetailTyped
  <2>5. QED  BY Zenon, <1>13, <2>1, <2>2, <2>3, <2>4 DEF Confirmed
<1>21. QED  BY Zenon, <1>7, <1>14, <1>15, <1>16, <1>17, <1>18, <1>19, <1>20 DEF Inv

-----------------------------------------------------------------------------
(* One lemma for each action of the sync goroutine. *)

(* The acker of a sync is the goroutine's own, and names no entry of the    *)
(* log.                                                                     *)
LEMMA SyncAllocateKeeps ==
  ASSUME Inv, SyncAllocate
  PROVE  Inv'
<1>1. PICK ts \in Timestamps : Allocate(ts) /\ syncAcker' = ts
  BY DEF SyncAllocate
<1>2. Allocates(ts)
  BY <1>1, AllocateFacts
<1>3. Allocated' /\ Closed' /\ Heaps' /\ Published' /\ Announced' /\ Confirmed'
  BY <1>1, AllocateKeeps DEF SyncAllocate
<1>4. TypeOK'
  BY Zenon, <1>1, <1>2 DEF Inv, TypeOK, Allocates, Allocate, SyncAllocate, appenderVars
<1>5. Owners'
  <2>1. ts \notin DOMAIN detail /\ ~detail'[ts].acknowledged /\ detail'[ts].id = 0
    BY <1>2 DEF Allocates, newAckDetail
  <2>2. \A i \in 1 .. Len(wal) : wal[i].tt # ts
    BY <1>2, Typed DEF Inv, Allocates, WalTyped
  <2>3. QED  BY Zenon, <1>1, <1>2, <2>1, <2>2
             DEF Inv, Owners, Holds, SyncHolds, Allocates, SyncAllocate, appenderVars
<1>6. QED  BY <1>3, <1>4, <1>5 DEF Inv

(* A sync whose allocation fails goes on with the details it had.           *)
LEMMA SyncAllocateFailKeeps ==
  ASSUME Inv, SyncAllocateFail
  PROVE  Inv'
<1> USE DEF Inv, SyncAllocateFail, managerVars, appenderVars
<1>1. TypeOK'
  BY Zenon DEF TypeOK
<1>2. Allocated' /\ Closed' /\ Heaps' /\ Published' /\ Confirmed'
  BY Zenon DEF Allocated, Closed, Heaps, DetailsSorted, Published, Promised, TimeTickPrinciple,
         TimeTicksAscend, Confirmed, CoveredTo, LastConfirmedPrinciple
<1>3. Announced'
  BY Zenon DEF Announced, NotifierPrinciple
<1>4. Owners'
  BY DEF Owners, Holds, SyncHolds
<1>5. QED  BY <1>1, <1>2, <1>3, <1>4

(* The flag of a sync's acker: no message in the log is taken for a sync.   *)
LEMMA SyncMarkKeeps ==
  ASSUME Inv, SyncMark
  PROVE  Inv'
<1>1. syncAcker \in DOMAIN detail /\ ready /\ \A i \in 1 .. Len(wal) : wal[i].tt # syncAcker
  BY Zenon DEF SyncMark, Inv, Owners, SyncHolds, Closed
<1>2. MarkAcknowledged(syncAcker, TRUE)
  BY Zenon DEF SyncMark
<1>3. Marks(syncAcker, TRUE)
  BY Zenon, <1>1, <1>2, MarkFacts DEF Inv
<1>4. Allocated' /\ Closed' /\ Heaps' /\ Published' /\ Announced' /\ Confirmed'
  BY Zenon, <1>1, <1>2, MarkKeeps DEF SyncMark
<1>5. TypeOK'
  BY Zenon, <1>2, <1>3 DEF SyncMark, MarkAcknowledged, Marks, Inv, TypeOK, appenderVars
<1>6. Owners'
  BY <1>1, <1>3 DEF Inv, Owners, Holds, SyncHolds, Marks, SyncMark, appenderVars
<1>7. QED  BY Zenon, <1>4, <1>5, <1>6 DEF Inv

(* The critical section of a sync's own Ack.                                *)
LEMMA SyncAckKeeps ==
  ASSUME Inv, NEW over, SyncAck(over)
  PROVE  Inv'
<1>1. syncAcker \in DOMAIN detail /\ detail[syncAcker].acknowledged /\ ready
  BY Zenon DEF SyncAck, Inv, Owners, SyncHolds, Closed
<1>2. Ends(syncAcker)
  BY <1>1, AckFacts DEF SyncAck, Inv
<1>3. Allocated' /\ Closed' /\ Heaps' /\ Published' /\ Announced' /\ Confirmed'
  BY <1>1, AckKeeps DEF SyncAck
<1>4. TypeOK'
  <2>1. ManagerTyped' /\ waiters' \subseteq waiters
    BY <1>1, AckTyped DEF SyncAck, Inv
  <2>2. /\ syncPc' = "take" /\ syncAcker' = 0
        /\ UNCHANGED <<tso, wal, crashes, failures, ready, pc, request, acker, sentInfo,
                       ackDetails, notifier>>
    BY Zenon DEF SyncAck
  <2>3. QED  BY Zenon, <1>2, <2>1, <2>2 DEF ManagerTyped, Inv, TypeOK, Ends
<1>5. Owners'
  BY <1>2 DEF Inv, Owners, Holds, SyncHolds, Ends, SyncAck
<1>6. QED  BY <1>3, <1>4, <1>5 DEF Inv

(* The details taken over are newer than those kept from failed rounds.     *)
LEMMA SyncTakeKeeps ==
  ASSUME Inv, SyncTake
  PROVE  Inv'
<1> USE DEF Inv, SyncTake, TakeDetails, appenderVars
<1>0. WalTyped /\ DetailTyped
  BY Typed
<1>1. TypeOK'
  BY Zenon DEF TypeOK
<1>2. Allocated' /\ Closed' /\ Confirmed'
  BY Zenon DEF Allocated, Closed, Confirmed, CoveredTo, LastConfirmedPrinciple
<1>3. Heaps'
  BY Zenon DEF Heaps, DetailsSorted
<1>4. Owners'
  BY Zenon DEF Owners, Holds, SyncHolds
<1>5. Published'
  <2>1. \A t \in acknowledgedDetails : t \in Nat
    BY DEF TypeOK
  <2>2. ASSUME NEW i \in 1 .. Len(wal), wal[i].type = "timetick"
        PROVE  /\ wal[i].tt <= Promised
               /\ ackDetails' # {} => \E t \in ackDetails' : wal[i].tt <= t
    <3>1. /\ wal[i].tt <= Promised
          /\ \A t \in acknowledgedDetails : wal[i].tt < t
          /\ ackDetails # {} => \E t \in ackDetails : wal[i].tt <= t
      BY Zenon, <2>2 DEF Published
    <3>2. ackDetails' = ackDetails \cup acknowledgedDetails /\ wal[i].tt \in Nat
      BY <1>0 DEF WalTyped
    <3> HIDE DEF Inv, SyncTake, TakeDetails, appenderVars
    <3>3. QED  BY <2>1, <3>1, <3>2
  <2>3. UNCHANGED <<wal, ready, lastConfirmedTimeTick, tso>> /\ acknowledgedDetails' = {}
    BY Zenon
  <2>4. QED  BY <2>2, <2>3 DEF Published, Promised, TimeTickPrinciple, TimeTicksAscend
<1>6. Announced'
  BY Zenon DEF Announced, NotifierPrinciple
<1>7. QED  BY <1>1, <1>2, <1>3, <1>4, <1>5, <1>6

(* The time tick sent is confirmed and no smaller than those in the log,    *)
(* also when the log answers with an error.                                 *)
LEMMA SendPersistentKeeps ==
  ASSUME Inv, SendPersistentTsMsg
  PROVE  Inv'
<1>1. PICK ts \in ackDetails, id \in {detail[t].lastConfirmed : t \in ackDetails} :
        /\ IsLastAllAcknowledged(ts)
        /\ IsEarliestLastConfirmed(id)
        /\ wal' \in {wal, Append(wal, TimeTickMsg(ts, id))}
        /\ \/ /\ wal' = Append(wal, TimeTickMsg(ts, id))
              /\ UNCHANGED failures
              /\ syncPc' = "sent"
              /\ sentInfo' = [id |-> Len(wal) + 1, tt |-> ts]
           \/ /\ failures' = failures + 1
              /\ syncPc' = "idle"
              /\ UNCHANGED sentInfo
  BY Zenon DEF SendPersistentTsMsg, FailedAppend
<1> DEFINE entry == TimeTickMsg(ts, id)
<1>2. WalTyped /\ DetailTyped /\ TypeOK
  BY Zenon, Typed DEF Inv
<1>3. /\ ready /\ syncPc = "send"
      /\ UNCHANGED <<tso, crashes, ready, managerVars, appenderVars, syncAcker, ackDetails, notifier>>
  BY DEF SendPersistentTsMsg, Inv, Closed
<1>4. /\ ts \in DOMAIN detail /\ ts \in Nat /\ id \in Nat /\ id <= detail[ts].lastConfirmed
      /\ 0 < ts /\ ts <= lastAllocatedTimeTick /\ lastAllocatedTimeTick <= tso
      /\ ts <= lastConfirmedTimeTick
      /\ \A t \in ackDetails : t <= ts
  <2>1. Numbers
    BY Zenon, <1>2, Typed
  <2>2. ts \in DOMAIN detail /\ ts \in Nat /\ id \in Nat
    BY Zenon, <1>1, <1>2, <2>1 DEF Numbers, DetailTyped
  <2>3. id <= detail[ts].lastConfirmed /\ \A t \in ackDetails : t <= ts
    BY <1>1 DEF IsEarliestLastConfirmed, IsLastAllAcknowledged
  <2>4. ts <= lastConfirmedTimeTick
    BY DEF Inv, Heaps
  <2>5. 0 < ts /\ ts <= lastAllocatedTimeTick /\ lastAllocatedTimeTick <= tso
    BY Zenon, <2>2 DEF Inv, Allocated
  <2>6. QED  BY <2>2, <2>3, <2>4, <2>5
<1>5. entry \in WalEntry /\ entry.tt = ts /\ entry.type = "timetick" /\ entry.lastConfirmed = id
  BY Zenon, <1>4 DEF TimeTickMsg, WalEntry
<1>6. Grows(entry) /\ wal' \in Seq(WalEntry)
  BY <1>1, <1>2, <1>5, GrowFacts
<1>7. TypeOK'
  <2>1. failures \in Nat /\ sentInfo \in [id : Nat, tt : Nat] /\ Len(wal) + 1 \in Nat
    BY <1>2 DEF TypeOK
  <2>2. /\ failures' \in Nat /\ syncPc' \in {"idle", "sent"}
        /\ sentInfo' \in [id : Nat, tt : Nat]
    BY <1>1, <1>4, <2>1
  <2>3. QED  BY Zenon, <1>2, <1>3, <1>6, <2>2 DEF TypeOK, managerVars, appenderVars
<1>8. /\ lastConfirmedTimeTick \in Nat /\ lastAllocatedTimeTick \in Nat /\ tso \in Nat
      /\ ackHeap \subseteq DOMAIN detail
      /\ \A x \in notDoneTxnMessage : x.id \in Nat
      /\ lastConfirmedMessageID \in Nat
      /\ notifier.id \in Nat /\ notifier.tt \in Nat
      /\ ackDetails \subseteq Nat
  BY Zenon, <1>2 DEF TypeOK
<1> HIDE DEF entry
<1>9. \A i \in 1 .. Len(wal) : wal[i].type = "timetick" =>
        /\ wal[i].tt <= lastConfirmedTimeTick
        /\ wal[i].tt <= ts
        /\ \A t \in acknowledgedDetails : wal[i].tt < t
  <2>1. ASSUME NEW i \in 1 .. Len(wal), wal[i].type = "timetick"
        PROVE  /\ wal[i].tt <= lastConfirmedTimeTick
               /\ \A t \in acknowledgedDetails : wal[i].tt < t
               /\ \E t \in ackDetails : wal[i].tt <= t
    BY <1>1, <1>3, <2>1 DEF Inv, Published, Promised
  <2>2. \A i \in 1 .. Len(wal) : wal[i].tt \in Nat
    BY Zenon, <1>2 DEF WalTyped
  <2>3. QED  BY <1>4, <1>8, <2>1, <2>2
<1>10. Fits(entry)
  <2>1. \A i \in 1 .. detail[ts].lastConfirmed : wal[i].tt < ts
    BY Zenon, <1>4 DEF Inv, Confirmed
  <2>2. detail[ts].lastConfirmed \in Nat /\ detail[ts].lastConfirmed <= Len(wal)
    BY <1>2, <1>4 DEF Inv, Confirmed, DetailTyped
  <2>3. \A i \in 1 .. Len(wal) : wal[i].tt > ts => i > id
    BY <1>2, <1>4, <2>1, <2>2 DEF WalTyped
  <2>4. id <= Len(wal) + 1
    BY <1>2, <1>4, <2>2 DEF WalTyped
  <2>5. QED  BY Zenon, <1>5, <1>9, <2>3, <2>4 DEF Fits
<1>11. /\ TimeTickPrinciple' /\ TimeTicksAscend' /\ LastConfirmedPrinciple'
       /\ (\A m \in 1 .. Len(wal) : wal[m].lastConfirmed <= Len(wal))'
  <2>1. wal' = wal \/ Len(wal') = Len(wal) + 1
    BY <1>1, <1>2 DEF TypeOK
  <2>2. QED  BY Zenon, <1>2, <1>6, <1>10, <2>1, GrowKeeps DEF Inv, Published, Confirmed
<1> USE <1>3 DEF managerVars, appenderVars
<1>12. Allocated'
  <2>1. \A i \in 1 .. Len(wal) : 0 < wal[i].tt /\ wal[i].tt <= lastAllocatedTimeTick
    BY Zenon, <1>4 DEF Inv, Allocated
  <2>2. \A i \in 1 .. Len(wal') :
          wal'[i].tt \in Nat /\ 0 < wal'[i].tt /\ wal'[i].tt <= lastAllocatedTimeTick
    BY Zenon, <1>2, <1>4, <1>5, <1>6, <2>1 DEF Grows, WalTyped
  <2>3. /\ lastConfirmedTimeTick <= tso
        /\ \A t \in DOMAIN detail : 0 < t /\ t <= lastAllocatedTimeTick
    BY Zenon DEF Inv, Allocated
  <2>4. UNCHANGED <<tso, lastAllocatedTimeTick, lastConfirmedTimeTick, detail>>
    BY Zenon
  <2>5. QED  BY SMTT(20), <1>4, <1>8, <2>2, <2>3, <2>4 DEF Allocated
<1>13. Closed'
  BY DEF Closed
<1>14. Heaps'
  BY Zenon DEF Inv, Heaps, DetailsSorted
<1>15. Owners'
  BY Zenon, <1>1 DEF Inv, Owners, Holds, SyncHolds
<1>16. Published'
  <2>1. \A t \in acknowledgedDetails : ts < t
    BY Zenon, <1>1 DEF Inv, Heaps, DetailsSorted
  <2>2. ASSUME NEW i \in 1 .. Len(wal'), wal'[i].type = "timetick"
        PROVE  /\ wal'[i].tt <= lastConfirmedTimeTick
               /\ \A t \in acknowledgedDetails : wal'[i].tt < t
               /\ \E t \in ackDetails : wal'[i].tt <= t
    <3>1. CASE i \in 1 .. Len(wal)
      BY <1>1, <1>6, <1>9, <2>2, <3>1 DEF Grows
    <3>2. CASE wal'[i] = entry
      BY Zenon, <1>1, <1>4, <1>5, <2>1, <3>2
    <3>3. QED  BY Zenon, <1>6, <3>1, <3>2 DEF Grows
  <2>3. QED  BY Zenon, <1>11, <2>2 DEF Published, Promised
<1>17. Announced'
  <2>0. /\ notifier.id \in 1 .. Len(wal) /\ notifier.id \in 1 .. Len(wal')
        /\ wal'[notifier.id] = wal[notifier.id]
        /\ wal[notifier.id].type = "timetick" /\ wal[notifier.id].tt <= notifier.tt
        /\ \A t \in acknowledgedDetails \cup ackDetails : notifier.tt < t
    BY Zenon, <1>6 DEF Inv, Announced, Grows
  <2>1. (notifier.id <= Len(wal) /\ notifier.tt <= lastConfirmedTimeTick)'
    <3>1. notifier.id <= Len(wal')
      BY Zenon, <2>0, InInterval
    <3>2. notifier.tt <= lastConfirmedTimeTick
      BY Zenon DEF Inv, Announced
    <3>3. QED  BY Zenon, <3>1, <3>2
  <2>a. ASSUME NEW j \in 1 .. Len(wal'), wal'[j].type = "msg"
        PROVE  j \in 1 .. Len(wal) /\ wal'[j] = wal[j]
    BY <1>5, <1>6, <2>a DEF Grows
  <2>2. ASSUME NEW j \in 1 .. Len(wal'), wal'[j].type = "msg"
        PROVE  /\ wal'[j].tt <= notifier.tt => j < notifier.id /\ wal'[j].tt <= wal[notifier.id].tt
               /\ wal[notifier.id].tt < wal'[j].tt =>
                    /\ wal'[j].tt \in DOMAIN detail
                    /\ ~detail[wal'[j].tt].isSync
                    /\ wal'[j].tt <= lastConfirmedTimeTick =>
                         wal'[j].tt \in acknowledgedDetails \cup ackDetails
    <3>1. j \in 1 .. Len(wal) /\ wal'[j] = wal[j]
      BY <2>2, <2>a
    <3>2. QED  BY Zenon, <2>2, <3>1 DEF Inv, Announced, NotifierPrinciple
  <2>3. ASSUME syncPc' = "sent"
        PROVE  /\ sentInfo'.id \in 1 .. Len(wal')
               /\ notifier.id < sentInfo'.id
               /\ wal'[sentInfo'.id].type = "timetick"
               /\ wal'[sentInfo'.id].tt = sentInfo'.tt
               /\ IsLastAllAcknowledged(sentInfo'.tt)
    <3>1. /\ wal' = Append(wal, entry)
          /\ sentInfo'.id = Len(wal) + 1 /\ sentInfo'.tt = ts
      <4>1. wal' = Append(wal, entry) /\ sentInfo' = [id |-> Len(wal) + 1, tt |-> ts]
        BY Zenon, <1>1, <2>3 DEF entry
      <4>2. QED  BY <4>1
    <3>2. wal'[Len(wal) + 1] = entry /\ Len(wal') = Len(wal) + 1
      <4>1. wal \in Seq(WalEntry)
        BY Zenon, <1>2 DEF TypeOK
      <4>2. QED  BY <3>1, <4>1
    <3>3. notifier.id < Len(wal) + 1
      BY <2>0
    <3>4. Len(wal) + 1 \in 1 .. Len(wal')
      <4>1. Len(wal) \in Nat
        BY Zenon, <1>2 DEF WalTyped
      <4>2. QED  BY <3>2, <4>1
    <3>5. QED  BY Zenon, <1>1, <1>5, <3>1, <3>2, <3>3, <3>4
  <2>4. QED  BY Zenon, <2>0, <2>1, <2>2, <2>3
                DEF Announced, NotifierPrinciple, IsLastAllAcknowledged
<1>18. Confirmed'
  <2>1. \A t \in ackHeap : CoveredTo(detail[t].id, detail[t].end) /\ detail[t].id \in Nat
    BY <1>2, <1>8 DEF Inv, Confirmed, DetailTyped
  <2>2. (\A t \in ackHeap : CoveredTo(detail[t].id, detail[t].end))'
    BY Zenon, <1>2, <1>6, <2>1, GrowCovers DEF CoveredTo
  <2>3. /\ (\A x \in notDoneTxnMessage : CoveredTo(x.id, lastConfirmedTimeTick))'
        /\ CoveredTo(lastConfirmedMessageID, lastConfirmedTimeTick)'
    <3>1. /\ \A x \in notDoneTxnMessage : CoveredTo(x.id, lastConfirmedTimeTick)
          /\ CoveredTo(lastConfirmedMessageID, lastConfirmedTimeTick)
      BY Zenon DEF Inv, Confirmed
    <3>2. QED  BY Zenon, <1>2, <1>6, <1>8, <3>1, GrowCovers DEF CoveredTo
  <2>4. (\A t \in DOMAIN detail : /\ detail[t].id <= Len(wal)
                                  /\ detail[t].lastConfirmed <= Len(wal)
                                  /\ \A i \in 1 .. detail[t].lastConfirmed : wal[i].tt < t)'
    <3>1. /\ Len(wal) \in Nat /\ Len(wal') \in Nat
          /\ \A t \in DOMAIN detail : detail[t].id \in Nat /\ detail[t].lastConfirmed \in Nat
      BY Zenon, <1>2, <1>6 DEF Grows, WalTyped, DetailTyped
    <3>2. \A t \in DOMAIN detail : /\ detail[t].id <= Len(wal) /\ detail[t].lastConfirmed <= Len(wal)
                                   /\ \A i \in 1 .. detail[t].lastConfirmed : wal[i].tt < t
      BY Zenon DEF Inv, Confirmed
    <3>3. Len(wal) <= Len(wal')
      BY Zenon, <3>1, <1>6 DEF Grows
    <3>4. \A t \in DOMAIN detail : detail[t].id <= Len(wal') /\ detail[t].lastConfirmed <= Len(wal')
      BY <3>1, <3>2, <3>3
    <3>5. ASSUME NEW t \in DOMAIN detail, NEW i \in 1 .. detail[t].lastConfirmed
          PROVE  wal'[i].tt < t
      <4>1. i \in 1 .. Len(wal)
        BY <3>1, <3>2
      <4>2. QED  BY Zenon, <1>6, <3>2, <4>1 DEF Grows
    <3>6. QED  BY Zenon, <3>4, <3>5
  <2>5. QED  BY Zenon, <1>11, <2>2, <2>3, <2>4 DEF Confirmed
<1>19. QED  BY Zenon, <1>7, <1>12, <1>13, <1>14, <1>15, <1>16, <1>17, <1>18 DEF Inv

(* The notifier learns of a time tick after messages may have followed it.  *)
LEMMA NotifyPersistedKeeps ==
  ASSUME Inv, NotifyPersisted
  PROVE  Inv'
<1>0. WalTyped /\ DetailTyped /\ TypeOK
  BY Typed DEF Inv
<1>1. /\ notifier.id < sentInfo.id /\ notifier' = sentInfo
      /\ sentInfo.id \in 1 .. Len(wal)
      /\ wal[sentInfo.id].type = "timetick" /\ wal[sentInfo.id].tt = sentInfo.tt
      /\ sentInfo.tt \in ackDetails /\ \A t \in ackDetails : t <= sentInfo.tt
  BY Zenon DEF NotifyPersisted, Inv, Announced, IsLastAllAcknowledged
<1>2. /\ syncPc' = "idle" /\ sentInfo' = NoInfo /\ ackDetails' = {} /\ ready
      /\ UNCHANGED <<tso, wal, crashes, failures, ready, managerVars, appenderVars, syncAcker>>
  BY DEF NotifyPersisted, Inv, Closed
<1> USE <1>2 DEF managerVars, appenderVars
<1>3. TypeOK'
  BY Zenon, <1>0, <1>1 DEF TypeOK, NoInfo
<1>4. Allocated' /\ Closed' /\ Confirmed'
  BY Zenon DEF Inv, Allocated, Closed, Confirmed, CoveredTo, LastConfirmedPrinciple
<1>5. Heaps'
  BY Zenon DEF Inv, Heaps, DetailsSorted
<1>6. Owners'
  BY Zenon DEF Inv, Owners, Holds, SyncHolds
<1>7. Published'
  BY Zenon DEF Inv, Published, Promised, TimeTickPrinciple, TimeTicksAscend
<1>8. Announced'
  <2>0. /\ \A t \in acknowledgedDetails : sentInfo.tt < t
        /\ wal[notifier.id].tt \in Nat /\ wal[notifier.id].tt < sentInfo.tt
        /\ sentInfo.tt \in Nat
    <3>1. \A t \in acknowledgedDetails : sentInfo.tt < t
      BY <1>1 DEF Inv, Heaps, DetailsSorted
    <3>2. /\ notifier.id \in 1 .. Len(wal) /\ wal[notifier.id].tt <= notifier.tt
          /\ notifier.tt < sentInfo.tt
      BY Zenon, <1>1, <1>2 DEF Inv, Announced
    <3>3. notifier.tt \in Nat /\ sentInfo.tt \in Nat
      BY <1>0 DEF TypeOK
    <3>4. wal[notifier.id].tt \in Nat
      BY Zenon, <1>0, <3>2 DEF WalTyped
    <3>5. QED  BY Zenon, <3>1, <3>2, <3>3, <3>4, Orders
  <2>1. ASSUME NEW j \in 1 .. Len(wal), sentInfo.tt < wal[j].tt, wal[j].type = "msg"
        PROVE  /\ wal[j].tt \in DOMAIN detail
               /\ ~detail[wal[j].tt].isSync
               /\ wal[j].tt <= lastConfirmedTimeTick => wal[j].tt \in acknowledgedDetails
    <3>a. wal[j].tt \in Nat
      BY Zenon, <1>0 DEF WalTyped
    <3>b. wal[notifier.id].tt \in Nat /\ sentInfo.tt \in Nat
      BY Zenon, <2>0
    <3>1. wal[notifier.id].tt < wal[j].tt
      <4>1. wal[notifier.id].tt < sentInfo.tt /\ sentInfo.tt < wal[j].tt
        BY Zenon, <2>0, <2>1
      <4>2. QED  BY Zenon, <3>a, <3>b, <4>1, LessLess
    <3>2. wal[j].tt \notin ackDetails
      BY Zenon, <1>1, <2>0, <2>1, <3>a, Orders
    <3>3. QED  BY Zenon, <1>2, <2>1, <3>1, <3>2 DEF Inv, Announced
  <2>2. sentInfo.tt <= lastConfirmedTimeTick /\ sentInfo.id <= Len(wal)
    BY Zenon, <1>1, InInterval DEF Inv, Heaps
  <2>3. ASSUME NEW j \in 1 .. Len(wal), wal[j].tt <= sentInfo.tt, wal[j].type = "msg"
        PROVE  j < sentInfo.id
    <3>1. sentInfo.id < j => sentInfo.tt < wal[j].tt
      BY Zenon, <1>1, <2>3 DEF Inv, Published, TimeTickPrinciple
    <3>2. QED  BY SMTT(20), <1>0, <1>1, <2>0, <2>3, <3>1 DEF WalTyped
  <2>4. QED  BY Zenon, <1>1, <2>0, <2>1, <2>2, <2>3 DEF Announced, NotifierPrinciple
<1>9. QED  BY <1>3, <1>4, <1>5, <1>6, <1>7, <1>8 DEF Inv

(* With syncs alone to publish, nothing was persisted behind the notifier's *)
(* id that the new time tick covers.                                        *)
LEMMA SendNoPersistentKeeps ==
  ASSUME Inv, SendNoPersistentTsMsg
  PROVE  Inv'
<1>0. WalTyped /\ DetailTyped /\ TypeOK
  BY Typed DEF Inv
<1>1. /\ syncPc' = "idle" /\ ready /\ syncPc = "send"
      /\ UNCHANGED <<tso, wal, crashes, failures, ready, managerVars, appenderVars, syncAcker,
                     sentInfo>>
  BY DEF SendNoPersistentTsMsg, Inv, Closed
<1>2. /\ ackDetails' \subseteq ackDetails
      /\ ackDetails' = ackDetails \/ ackDetails' = {}
  BY DEF SendNoPersistentTsMsg
<1>3. notifier' = notifier \/
      \E ts \in ackDetails : IsLastAllAcknowledged(ts) /\ notifier' = [notifier EXCEPT !.tt = ts]
  BY DEF SendNoPersistentTsMsg
<1>4. /\ notifier'.id = notifier.id
      /\ notifier' \in [id : Nat, tt : Nat]
      /\ \/ notifier' = notifier
         \/ /\ notifier'.tt \in ackDetails
            /\ notifier'.tt \in Nat
            /\ notifier'.tt <= lastConfirmedTimeTick
            /\ \A t \in acknowledgedDetails : notifier'.tt < t
  <2>1. notifier \in [id : Nat, tt : Nat] /\ ackDetails \subseteq Nat
    BY <1>0 DEF TypeOK
  <2>2. \A t \in ackDetails : t <= lastConfirmedTimeTick /\ \A u \in acknowledgedDetails : t < u
    BY DEF Inv, Heaps, DetailsSorted
  <2>3. QED  BY <1>3, <2>1, <2>2
<1> USE <1>1 DEF managerVars, appenderVars
<1>5. TypeOK'
  BY Zenon, <1>0, <1>2, <1>4 DEF TypeOK
<1>6. Allocated' /\ Closed' /\ Confirmed'
  BY Zenon DEF Inv, Allocated, Closed, Confirmed, CoveredTo, LastConfirmedPrinciple
<1>7. Heaps'
  BY Zenon, <1>2 DEF Inv, Heaps, DetailsSorted
<1>8. Owners'
  BY DEF Inv, Owners, Holds, SyncHolds
<1>9. Published'
  BY Zenon, <1>2 DEF Inv, Published, Promised, TimeTickPrinciple, TimeTicksAscend
<1>10. Announced'
  <2>0. /\ notifier.id \in 1 .. Len(wal) /\ wal[notifier.id].type = "timetick"
        /\ wal[notifier.id].tt <= notifier.tt /\ notifier.tt <= notifier'.tt
        /\ \A t \in acknowledgedDetails \cup ackDetails' : notifier'.tt < t
        /\ notifier.tt \in Nat /\ wal[notifier.id].tt \in Nat
    <3>1. /\ notifier.id \in 1 .. Len(wal) /\ wal[notifier.id].type = "timetick"
          /\ wal[notifier.id].tt <= notifier.tt
          /\ \A t \in acknowledgedDetails \cup ackDetails : notifier.tt < t
      BY Zenon DEF Inv, Announced
    <3>2. notifier.tt \in Nat /\ wal[notifier.id].tt \in Nat
      BY Zenon, <1>0, <3>1 DEF TypeOK, WalTyped
    <3>3. notifier' = notifier \/ ackDetails' = {}
      BY DEF SendNoPersistentTsMsg
    <3>4. QED  BY <1>2, <1>4, <3>1, <3>2, <3>3
  <2>1. ASSUME NEW j \in 1 .. Len(wal), wal[notifier.id].tt < wal[j].tt, wal[j].type = "msg"
        PROVE  /\ notifier'.tt < wal[j].tt
               /\ wal[j].tt \in DOMAIN detail
               /\ ~detail[wal[j].tt].isSync
               /\ wal[j].tt <= lastConfirmedTimeTick => wal[j].tt \in acknowledgedDetails
    <3>1. /\ wal[j].tt \in DOMAIN detail
          /\ ~detail[wal[j].tt].isSync
          /\ wal[j].tt <= lastConfirmedTimeTick => wal[j].tt \in acknowledgedDetails \cup ackDetails
          /\ notifier.tt < wal[j].tt
      <4>1. wal[j].tt \in Nat
        BY Zenon, <1>0 DEF WalTyped
      <4>2. ~(wal[j].tt <= wal[notifier.id].tt)
        BY Zenon, <2>0, <2>1, <4>1, Orders
      <4>3. ~(wal[j].tt <= notifier.tt)
        BY Zenon, <2>1, <4>2 DEF Inv, Announced, NotifierPrinciple
      <4>4. notifier.tt < wal[j].tt
        BY Zenon, <2>0, <4>1, <4>3, Orders
      <4>5. QED  BY Zenon, <2>1, <4>4 DEF Inv, Announced
    <3>2. wal[j].tt \notin ackDetails
      BY <3>1 DEF SendNoPersistentTsMsg, IsNoPersistedMessage
    <3>3. wal[j].tt \in Nat /\ lastConfirmedTimeTick \in Nat
      BY Zenon, <1>0 DEF WalTyped, TypeOK
    <3>4. wal[j].tt <= lastConfirmedTimeTick => wal[j].tt \in acknowledgedDetails
      BY Zenon, <3>1, <3>2
    <3>5. CASE notifier' = notifier
      BY Zenon, <3>1, <3>4, <3>5
    <3>6. CASE /\ notifier'.tt \in Nat /\ notifier'.tt <= lastConfirmedTimeTick
               /\ \A t \in acknowledgedDetails : notifier'.tt < t
      <4>1. notifier'.tt < wal[j].tt
        BY Zenon, <3>3, <3>4, <3>6, Orders
      <4>2. QED  BY Zenon, <3>1, <3>4, <4>1
    <3>7. QED  BY Zenon, <1>4, <3>5, <3>6
  <2>2. notifier'.tt <= lastConfirmedTimeTick /\ notifier'.id <= Len(wal)
    BY Zenon, <1>4 DEF Inv, Announced
  <2>3. ASSUME NEW j \in 1 .. Len(wal), wal[j].tt <= notifier'.tt, wal[j].type = "msg"
        PROVE  j < notifier.id /\ wal[j].tt <= wal[notifier.id].tt
    <3>1. wal[j].tt \in Nat /\ notifier'.tt \in Nat
      BY Zenon, <1>0, <1>4 DEF WalTyped
    <3>2. wal[j].tt <= wal[notifier.id].tt
      <4>1. wal[notifier.id].tt < wal[j].tt <=> ~(wal[j].tt <= wal[notifier.id].tt)
        BY Zenon, <2>0, <3>1, Orders
      <4>2. ~(notifier'.tt < wal[j].tt)
        BY Zenon, <2>3, <3>1, Orders
      <4>3. QED  BY Zenon, <2>1, <2>3, <4>1, <4>2
    <3>3. wal[j].tt <= notifier.tt
      <4>1. wal[j].tt <= wal[notifier.id].tt /\ wal[notifier.id].tt <= notifier.tt
            => wal[j].tt <= notifier.tt
        BY <2>0, <3>1
      <4>2. QED  BY Zenon, <2>0, <3>2, <4>1
    <3>4. QED  BY Zenon, <2>3, <3>2, <3>3 DEF Inv, Announced, NotifierPrinciple
  <2>4. NotifierPrinciple'
    BY Zenon, <1>4, <2>3 DEF NotifierPrinciple
  <2>5. wal[notifier.id].tt <= notifier'.tt /\ syncPc' # "sent"
    BY Zenon, <1>1, <1>4, <2>0, Orders
  <2>6. ASSUME NEW j \in 1 .. Len(wal), wal[notifier.id].tt < wal[j].tt, wal[j].type = "msg"
        PROVE  /\ wal[j].tt \in DOMAIN detail
               /\ ~detail[wal[j].tt].isSync
               /\ wal[j].tt <= lastConfirmedTimeTick => wal[j].tt \in acknowledgedDetails \cup ackDetails'
    BY Zenon, <2>1, <2>6
  <2>7. QED  BY Zenon, <1>4, <2>0, <2>2, <2>4, <2>5, <2>6 DEF Announced
<1>11. QED  BY <1>5, <1>6, <1>7, <1>8, <1>9, <1>10 DEF Inv

-----------------------------------------------------------------------------
(* The life of the WAL. *)

(* The values for no time tick and for no message have their types.         *)
LEMMA NothingTyped ==
  /\ NoInfo \in [id : Nat, tt : Nat]
  /\ NoRequest \in [barrier : Nat, session : Sessions \cup {NoSession}]
  BY DEF NoInfo, NoRequest

(* Losing the memory of a WAL leaves a log whose time ticks are all handed  *)
(* out.                                                                     *)
LEMMA CrashKeeps ==
  ASSUME Inv, Crash
  PROVE  Inv'
<1>0. WalTyped /\ TypeOK
  BY Typed DEF Inv
<1> USE DEF Crash, NewAckManager, newTimeTickSyncOperator
<1>1. TypeOK'
  <2>1. detail' \in [DOMAIN detail' -> AckDetail] /\ DOMAIN detail' = {}
    OBVIOUS
  <2>2. /\ pc' \in [Appenders -> {"idle", "allocate", "append", "mark", "ack"}]
        /\ request' \in [Appenders -> [barrier : Nat, session : Sessions \cup {NoSession}]]
        /\ acker' \in [Appenders -> Nat]
    BY NothingTyped
  <2>3. /\ notifier' \in [id : Nat, tt : Nat]
        /\ sentInfo' \in [id : Nat, tt : Nat]
    BY Zenon, NothingTyped
  <2>4. ManagerTyped'
    BY <2>1 DEF ManagerTyped
  <2>5. /\ tso' \in Nat /\ crashes' \in Nat /\ failures' \in Nat /\ ready' \in BOOLEAN
        /\ wal' \in Seq(WalEntry)
    <3>1. /\ tso \in Nat /\ crashes \in Nat /\ failures \in Nat /\ wal \in Seq(WalEntry)
      BY <1>0 DEF TypeOK
    <3>2. ready' \in BOOLEAN
      BY Zenon
    <3>3. wal' \in Seq(WalEntry)
      BY <3>1
    <3>4. tso' \in Nat /\ crashes' \in Nat /\ failures' \in Nat
      BY <3>1
    <3>5. QED  BY Zenon, <3>2, <3>3, <3>4
  <2>6. /\ ackDetails' = {} /\ waiters' = {} /\ syncPc' = "idle" /\ syncAcker' = 0
    OBVIOUS
  <2> HIDE DEF Crash, NewAckManager, newTimeTickSyncOperator
  <2>7. QED  BY Zenon, <2>2, <2>3, <2>4, <2>5, <2>6 DEF TypeOK, ManagerTyped
<1>2. /\ UNCHANGED <<tso, wal>>
      /\ ~ready'
      /\ lastAllocatedTimeTick' = 0 /\ lastConfirmedTimeTick' = 0
      /\ DOMAIN detail' = {}
      /\ notAckHeap' = {} /\ ackHeap' = {} /\ acknowledgedDetails' = {} /\ ackDetails' = {}
      /\ lastConfirmedMessageID' = 0 /\ notDoneTxnMessage' = {}
      /\ notifier' = NoInfo /\ syncPc' = "idle"
      /\ \A p \in Appenders : pc'[p] = "idle"
  OBVIOUS
<1> HIDE DEF Crash, NewAckManager, newTimeTickSyncOperator
<1>3. /\ tso \in Nat /\ Len(wal) \in Nat
      /\ \A i \in 1 .. Len(wal) : wal[i].tt \in Nat /\ 0 < wal[i].tt /\ wal[i].tt <= tso
  BY Zenon, <1>0, Typed DEF Inv, Allocated, WalTyped, Numbers
<1>4. Allocated' /\ Closed' /\ Heaps'
  BY SMTT(20), <1>2, <1>3 DEF Allocated, Closed, Heaps, DetailsSorted
<1>5. Owners'
  BY Zenon, <1>2 DEF Owners, Holds, SyncHolds
<1>6. Published'
  BY Zenon, <1>2, <1>3 DEF Inv, Published, Promised, TimeTickPrinciple, TimeTicksAscend
<1>7. Announced'
  <2>1. notifier'.id = 0 /\ notifier'.tt = 0
    BY <1>2 DEF NoInfo
  <2>2. 0 <= Len(wal) /\ \A i \in 1 .. Len(wal) : ~(wal[i].tt <= 0)
    BY <1>3
  <2>3. notifier'.id <= Len(wal') /\ notifier'.tt <= lastConfirmedTimeTick'
    BY <1>2, <2>1, <2>2
  <2>4. NotifierPrinciple'
    BY Zenon, <1>2, <2>1, <2>2 DEF NotifierPrinciple
  <2>5. QED  BY Zenon, <1>2, <2>3, <2>4 DEF Announced
<1>8. Confirmed'
  <2>1. CoveredTo(0, 0)'
    BY <1>2, <1>3 DEF CoveredTo
  <2>2. /\ \A m \in 1 .. Len(wal) : wal[m].lastConfirmed <= Len(wal)
        /\ LastConfirmedPrinciple
    BY Zenon DEF Inv, Confirmed
  <2>3. CoveredTo(lastConfirmedMessageID, lastConfirmedTimeTick)'
    BY <1>2, <2>1
  <2>4. QED  BY Zenon, <1>2, <2>2, <2>3 DEF Confirmed, LastConfirmedPrinciple
<1>9. QED  BY <1>1, <1>4, <1>5, <1>6, <1>7, <1>8 DEF Inv

(* The first time tick of a term is greater than everything in the log.     *)
LEMMA FirstTimeTickKeeps ==
  ASSUME Inv, FirstTimeTick
  PROVE  Inv'
<1> DEFINE ts == tso + 1
           id == Len(wal) + 1
           entry == TimeTickMsg(ts, id)
<1>0. WalTyped /\ TypeOK
  BY Typed DEF Inv
<1>1. /\ ts \in Nat /\ id \in Nat /\ 0 < ts /\ tso \in Nat /\ tso < ts
      /\ entry \in WalEntry /\ entry.tt = ts /\ entry.type = "timetick" /\ entry.lastConfirmed = id
  <2>1. tso \in Nat /\ Len(wal) \in Nat
    BY Zenon, <1>0 DEF TypeOK, WalTyped
  <2>2. ts \in Nat /\ id \in Nat /\ 0 < ts /\ tso < ts
    BY <2>1
  <2> HIDE DEF ts, id
  <2>3. /\ entry \in WalEntry /\ entry.tt = ts /\ entry.type = "timetick"
        /\ entry.lastConfirmed = id
    BY <2>2 DEF TimeTickMsg, WalEntry
  <2>4. QED  BY Zenon, <2>1, <2>2, <2>3
<1>2. /\ ~ready /\ tso' = ts
      /\ wal' \in {wal, Append(wal, entry)}
      /\ UNCHANGED <<crashes, appenderVars, syncPc, syncAcker, ackDetails, sentInfo>>
  BY DEF FirstTimeTick, FirstTimestamp, FailedAppend
<1>3. \/ /\ wal' = Append(wal, entry)
         /\ UNCHANGED failures
         /\ NewAckManager(ts, id)
         /\ notifier' = [id |-> id, tt |-> ts]
         /\ ready' = TRUE
      \/ /\ failures' = failures + 1
         /\ UNCHANGED <<ready, managerVars, notifier>>
  BY DEF FirstTimeTick, FirstTimestamp, FailedAppend
<1>4. /\ DOMAIN detail = {} /\ notDoneTxnMessage = {} /\ lastConfirmedMessageID = 0
      /\ notifier = NoInfo /\ syncPc = "idle" /\ \A p \in Appenders : pc[p] = "idle"
      /\ notAckHeap = {} /\ ackHeap = {} /\ acknowledgedDetails = {} /\ ackDetails = {}
      /\ lastConfirmedTimeTick \in Nat /\ lastConfirmedTimeTick <= tso
      /\ lastAllocatedTimeTick \in Nat /\ lastAllocatedTimeTick <= tso
      /\ failures \in Nat
  BY Zenon, <1>0, <1>2 DEF Inv, Closed, TypeOK, Allocated
<1>5. Grows(entry) /\ wal' \in Seq(WalEntry)
  BY <1>0, <1>1, <1>2, GrowFacts
<1>6. \A i \in 1 .. Len(wal) : 0 < wal[i].tt /\ wal[i].tt <= tso /\ wal[i].tt \in Nat
  BY Zenon, <1>0 DEF Inv, Allocated, WalTyped
<1>7. /\ lastConfirmedTimeTick' \in Nat /\ lastConfirmedTimeTick' <= ts
      /\ lastAllocatedTimeTick' \in Nat /\ lastAllocatedTimeTick' <= ts
      /\ DOMAIN detail' = {} /\ notDoneTxnMessage' = {}
      /\ notAckHeap' = {} /\ ackHeap' = {} /\ acknowledgedDetails' = {}
      /\ ready' => lastConfirmedTimeTick' = ts
      /\ ready' \in BOOLEAN
      /\ failures' \in Nat
      /\ detail' \in [DOMAIN detail' -> AckDetail]
  <2>1. CASE ready' = TRUE /\ NewAckManager(ts, id) /\ UNCHANGED failures
    BY SMTT(20), <1>1, <1>4, <2>1 DEF NewAckManager
  <2>2. CASE failures' = failures + 1 /\ UNCHANGED <<ready, managerVars, notifier>>
    <3>1. /\ UNCHANGED <<lastConfirmedTimeTick, lastAllocatedTimeTick, detail, notDoneTxnMessage,
                         notAckHeap, ackHeap, acknowledgedDetails, ready>>
          /\ detail \in [DOMAIN detail -> AckDetail]
      BY Zenon, <1>0, <2>2 DEF managerVars, TypeOK
    <3>2. lastConfirmedTimeTick <= ts /\ lastAllocatedTimeTick <= ts /\ failures + 1 \in Nat
      BY <1>1, <1>4
    <3>3. lastConfirmedTimeTick' \in Nat /\ lastAllocatedTimeTick' \in Nat /\ failures' \in Nat
      BY Zenon, <1>1, <1>4, <2>2, <3>1, <3>2
    <3>4. /\ DOMAIN detail' = {} /\ notDoneTxnMessage' = {}
          /\ notAckHeap' = {} /\ ackHeap' = {} /\ acknowledgedDetails' = {}
      BY Zenon, <1>4, <3>1
    <3>5. detail' \in [DOMAIN detail' -> AckDetail]
      BY Zenon, <3>1
    <3>6. lastConfirmedTimeTick' <= ts /\ lastAllocatedTimeTick' <= ts
      BY Zenon, <3>1, <3>2
    <3>7. ~ready' /\ ready' \in BOOLEAN
      BY Zenon, <1>0, <1>2, <3>1 DEF TypeOK
    <3>8. QED  BY Zenon, <3>3, <3>4, <3>5, <3>6, <3>7
  <2>3. QED  BY Zenon, <1>3, <2>1, <2>2
<1>8. \/ /\ lastConfirmedMessageID' = id /\ notifier' = [id |-> id, tt |-> ts] /\ Len(wal') = id
         /\ wal'[id] = entry
         /\ ready' = TRUE
      \/ /\ lastConfirmedMessageID' = 0 /\ notifier' = NoInfo
         /\ ready' = FALSE
  <2>1. Len(Append(wal, entry)) = id /\ Append(wal, entry)[id] = entry
    BY <1>0 DEF TypeOK
  <2>2. QED  BY Zenon, <1>2, <1>3, <1>4, <2>1, <1>0 DEF NewAckManager, managerVars, TypeOK
<1> HIDE DEF ts, id, entry
<1>9. TypeOK'
  <2>1. notifier' \in [id : Nat, tt : Nat] /\ lastConfirmedMessageID' \in Nat
    BY SMTT(20), <1>1, <1>8, NothingTyped
  <2>2. QED  BY Zenon, <1>0, <1>1, <1>2, <1>4, <1>5, <1>7, <2>1 DEF TypeOK, appenderVars
<1>10. \A i \in 1 .. Len(wal') : 0 < wal'[i].tt /\ wal'[i].tt <= ts
  BY SMTT(20), <1>1, <1>5, <1>6 DEF Grows
<1>11. Fits(entry)
  <2>1. \A i \in 1 .. Len(wal) : wal[i].tt <= ts /\ ~(wal[i].tt > ts)
    BY <1>1, <1>6
  <2>2. id <= Len(wal) + 1
    BY <1>0 DEF WalTyped, id
  <2>3. QED  BY Zenon, <1>1, <2>1, <2>2 DEF Fits
<1>12. /\ TimeTickPrinciple' /\ TimeTicksAscend' /\ LastConfirmedPrinciple'
       /\ (\A m \in 1 .. Len(wal) : wal[m].lastConfirmed <= Len(wal))'
  <2>1. wal' = wal \/ Len(wal') = Len(wal) + 1
    BY <1>0, <1>2 DEF TypeOK
  <2>2. QED  BY Zenon, <1>0, <1>5, <1>11, <2>1, GrowKeeps DEF Inv, Published, Confirmed
<1>13. Allocated'
  BY Zenon, <1>2, <1>7, <1>10 DEF Allocated
<1>14. Closed'
  BY Zenon, <1>2, <1>4, <1>7, <1>8 DEF Closed, appenderVars
<1>15. Heaps'
  BY <1>2, <1>4, <1>7 DEF Heaps, DetailsSorted
<1>16. Owners'
  BY Zenon, <1>2, <1>4 DEF Owners, Holds, SyncHolds, appenderVars
<1>17. Published'
  BY <1>2, <1>4, <1>7, <1>10, <1>12 DEF Published, Promised
<1>18. Announced'
  <2>1. CASE /\ ready' = TRUE /\ notifier' = [id |-> id, tt |-> ts] /\ Len(wal') = id
             /\ wal'[id] = entry
    <3>0. Len(wal) \in Nat
      BY Zenon, <1>0 DEF WalTyped
    <3>1. id \in 1 .. Len(wal') /\ notifier'.id = id /\ notifier'.tt = ts
      <4>1. id \in 1 .. id
        BY <3>0 DEF id
      <4>2. QED  BY Zenon, <2>1, <4>1
    <3>2. ASSUME NEW j \in 1 .. Len(wal'), wal'[j].type = "msg"
          PROVE  j < id /\ wal'[j].tt <= ts /\ ~(ts < wal'[j].tt)
      <4>0. "msg" # "timetick"
        OBVIOUS
      <4>1. j \in 1 .. Len(wal) /\ wal'[j] = wal[j]
        BY Zenon, <1>1, <1>5, <3>2, <4>0 DEF Grows
      <4>2. wal'[j].tt \in Nat /\ wal'[j].tt <= tso
        BY Zenon, <1>6, <4>1
      <4>3. wal'[j].tt <= ts /\ ~(ts < wal'[j].tt)
        BY <1>1, <4>2
      <4>4. j < id
        BY <3>0, <4>1 DEF id
      <4>5. QED  BY Zenon, <4>3, <4>4
    <3>3. notifier'.id <= Len(wal') /\ notifier'.tt <= lastConfirmedTimeTick'
      BY <1>1, <1>7, <2>1, <3>1
    <3>4. ts <= ts
      BY <1>1
    <3>5. NotifierPrinciple'
      BY Zenon, <1>1, <2>1, <3>1, <3>2 DEF NotifierPrinciple
    <3>6. (\A t \in acknowledgedDetails \cup ackDetails : notifier.tt < t)' /\ syncPc' # "sent"
      BY Zenon, <1>2, <1>4, <1>7
    <3>7. QED  BY Zenon, <1>1, <2>1, <3>1, <3>2, <3>3, <3>4, <3>5, <3>6 DEF Announced
  <2>2. CASE ready' = FALSE /\ notifier' = NoInfo
    <3>1. \A j \in 1 .. Len(wal') : ~(wal'[j].tt <= 0)
      BY <1>1, <1>5, <1>6 DEF Grows
    <3>2. notifier'.id = 0 /\ notifier'.tt = 0 /\ 0 <= Len(wal') /\ 0 <= lastConfirmedTimeTick'
      BY <1>5, <1>7, <2>2 DEF NoInfo, Grows
    <3>3. QED  BY Zenon, <1>2, <1>4, <1>7, <2>2, <3>1, <3>2 DEF Announced, NotifierPrinciple
  <2>3. QED  BY Zenon, <1>8, <2>1, <2>2
<1>19. Confirmed'
  <2>1. CoveredTo(lastConfirmedMessageID, lastConfirmedTimeTick)'
    <3>1. CASE lastConfirmedMessageID' = id /\ Len(wal') = id /\ ready' = TRUE
      BY <1>1, <1>7, <1>10, <3>1 DEF CoveredTo
    <3>2. CASE lastConfirmedMessageID' = 0
      BY <1>5, <3>2 DEF CoveredTo, Grows
    <3>3. QED  BY Zenon, <1>8, <3>1, <3>2
  <2>2. QED  BY <1>7, <1>12, <2>1 DEF Confirmed
<1>20. QED  BY Zenon, <1>9, <1>13, <1>14, <1>15, <1>16, <1>17, <1>18, <1>19 DEF Inv

(* An empty log with no operator satisfies the invariant.                   *)
LEMMA InitHolds ==
  ASSUME Init
  PROVE  Inv
<1> USE DEF Init
<1>1. TypeOK
  <2>1. detail \in [DOMAIN detail -> AckDetail] /\ DOMAIN detail = {}
    OBVIOUS
  <2>2. /\ wal \in Seq(WalEntry)
        /\ pc \in [Appenders -> {"idle", "allocate", "append", "mark", "ack"}]
        /\ request \in [Appenders -> [barrier : Nat, session : Sessions \cup {NoSession}]]
        /\ acker \in [Appenders -> Nat]
    BY NothingTyped
  <2>3. /\ notifier \in [id : Nat, tt : Nat]
        /\ sentInfo \in [id : Nat, tt : Nat]
    BY NothingTyped
  <2>4. QED  BY Zenon, <2>1, <2>2, <2>3 DEF TypeOK
<1>2. Allocated /\ Closed /\ Heaps /\ Owners /\ Published /\ Announced /\ Confirmed
  <2>1. Len(wal) = 0 /\ DOMAIN detail = {} /\ notifier.id = 0 /\ notifier.tt = 0
    BY SMTT(20) DEF NoInfo
  <2>2. Allocated /\ Closed /\ Heaps
    BY <2>1 DEF Allocated, Closed, Heaps, DetailsSorted
  <2>3. Owners
    BY Zenon DEF Owners, Holds, SyncHolds
  <2>4. Published
    BY <2>1 DEF Published, TimeTickPrinciple, TimeTicksAscend
  <2>5. Announced
    BY <2>1 DEF Announced, NotifierPrinciple
  <2>6. Confirmed
    BY <2>1 DEF Confirmed, CoveredTo, LastConfirmedPrinciple
  <2>7. QED  BY Zenon, <2>2, <2>3, <2>4, <2>5, <2>6
<1>3. QED  BY <1>1, <1>2 DEF Inv

-----------------------------------------------------------------------------
(* The theorems. *)

(* Every step keeps the invariant, one case for each action.                *)
LEMMA NextKeeps ==
  ASSUME Inv, [Next]_vars
  PROVE  Inv'
<1>1. ASSUME NEW p \in Appenders, AppendStep(p)
      PROVE  Inv'
  <2>1. ASSUME NEW barrier \in Barriers \cup {0}, NEW session \in Sessions \cup {NoSession},
               StartAppend(p, barrier, session)
        PROVE  Inv'
    BY <2>1, StartAppendKeeps
  <2>2. ASSUME NEW over \in SUBSET Sessions, AckAcker(p, over)
        PROVE  Inv'
    BY <2>2, AckAckerKeeps
  <2>3. QED  BY Zenon, <1>1, <2>1, <2>2, GiveUpKeeps, AllocateAckerKeeps, AppendMsgKeeps,
                MarkAckerKeeps DEF AppendStep
<1>2. CASE SyncStep
  <2>1. ASSUME NEW over \in SUBSET Sessions, SyncAck(over)
        PROVE  Inv'
    BY <2>1, SyncAckKeeps
  <2>2. QED  BY <1>2, <2>1, SyncAllocateKeeps, SyncAllocateFailKeeps, SyncMarkKeeps,
                SyncTakeKeeps, SendPersistentKeeps, NotifyPersistedKeeps,
                SendNoPersistentKeeps DEF SyncStep
<1>3. CASE FirstTimeTick
  BY <1>3, FirstTimeTickKeeps
<1>4. CASE Crash
  BY Zenon, <1>4, CrashKeeps
<1>5. CASE UNCHANGED vars
  <2> USE <1>5 DEF vars, managerVars, appenderVars, syncVars, Inv
  <2>1. TypeOK'
    BY Zenon DEF TypeOK
  <2>2. Allocated' /\ Closed' /\ Heaps'
    BY Zenon DEF Allocated, Closed, Heaps, DetailsSorted
  <2>3. Owners'
    BY Zenon DEF Owners, Holds, SyncHolds
  <2>4. Published'
    BY Zenon DEF Published, Promised, TimeTickPrinciple, TimeTicksAscend
  <2>5. Announced'
    BY Zenon DEF Announced, NotifierPrinciple, IsLastAllAcknowledged
  <2>6. Confirmed'
    BY Zenon DEF Confirmed, CoveredTo, LastConfirmedPrinciple
  <2>7. QED  BY <2>1, <2>2, <2>3, <2>4, <2>5, <2>6
<1>6. QED  BY Zenon, <1>1, <1>2, <1>3, <1>4, <1>5 DEF Next

(* Inv is an inductive invariant of the specification, whatever the number  *)
(* of appenders, the barriers, the answers of the sessions and the bounds.  *)
THEOREM InvHolds == Spec => []Inv
<1>1. Init => Inv
  BY InitHolds
<1>2. Inv /\ [Next]_vars => Inv'
  BY NextKeeps
<1>3. QED  BY <1>1, <1>2, PTL DEF Spec

(* Every variable keeps its type: the heaps and the details the operator    *)
(* holds only name ackers that exist.                                       *)
THEOREM TypeCorrect == Spec => []TypeOK
<1>1. Inv => TypeOK
  BY DEF Inv
<1>2. QED  BY <1>1, InvHolds, PTL

(* Behind a persisted time tick there is never a message at or below it:    *)
(* what sendPersistentTsMsg writes popUntilLastAllAcknowledged confirmed.   *)
THEOREM TimeTickPrincipleHolds == Spec => []TimeTickPrinciple
<1>1. Inv => TimeTickPrinciple
  BY DEF Inv, Published
<1>2. QED  BY <1>1, InvHolds, PTL

(* A time tick announced through the notifier without being persisted       *)
(* covers no message behind the persisted one: sendNoPersistentTsMsg.       *)
THEOREM NotifierPrincipleHolds == Spec => []NotifierPrinciple
<1>1. Inv => NotifierPrinciple
  BY Zenon DEF Inv, Announced
<1>2. QED  BY <1>1, InvHolds, PTL

(* Consuming from the last confirmed id of an entry misses no message with  *)
(* a greater time tick: the EndTimestamp argument of the ackHeap.           *)
THEOREM LastConfirmedPrincipleHolds == Spec => []LastConfirmedPrinciple
<1>1. Inv => LastConfirmedPrinciple
  BY DEF Inv, Confirmed
<1>2. QED  BY <1>1, InvHolds, PTL

(* Persisted time ticks never go back, over failed appends and crashes.     *)
THEOREM TimeTicksAscendHolds == Spec => []TimeTicksAscend
<1>1. Inv => TimeTicksAscend
  BY DEF Inv, Published
<1>2. QED  BY <1>1, InvHolds, PTL

(* The panic of AckDetails.AddDetails is unreachable.                       *)
THEOREM DetailsSortedHolds == Spec => []DetailsSorted
<1>1. Inv => DetailsSorted
  BY DEF Inv, Heaps
<1>2. QED  BY <1>1, InvHolds, PTL

(* No appender still has to acknowledge a message at or before the last     *)
(* confirmed id.                                                            *)
THEOREM ConfirmedIsDenseHolds == Spec => []ConfirmedIsDense
<1>1. ASSUME Inv
      PROVE  ConfirmedIsDense
  <2>1. SUFFICES ASSUME NEW p \in Appenders, pc[p] \in {"append", "mark"}
                 PROVE  /\ acker[p] > lastConfirmedTimeTick
                        /\ \A i \in 1 .. Len(wal) : wal[i].tt = acker[p] => i > lastConfirmedMessageID
    BY DEF ConfirmedIsDense
  <2>2. acker[p] \in DOMAIN detail /\ ~detail[acker[p]].acknowledged
    BY Zenon, <1>1, <2>1 DEF Inv, Owners, Holds
  <2>3. lastConfirmedTimeTick < acker[p]
    BY Zenon, <1>1, <2>2 DEF Inv, Heaps
  <2>4. acker[p] \in Nat /\ lastConfirmedTimeTick \in Nat /\ lastConfirmedMessageID \in Nat
    BY <1>1, <2>2 DEF Inv, TypeOK
  <2>5. CoveredTo(lastConfirmedMessageID, lastConfirmedTimeTick) /\ WalTyped
    BY Zenon, <1>1, Typed DEF Inv, Confirmed
  <2>6. QED  BY <2>3, <2>4, <2>5 DEF CoveredTo, WalTyped
<1>2. QED  BY <1>1, InvHolds, PTL

(* What ConfirmedAdvances says of one step.                                 *)
Forward ==
  ready /\ ready' => /\ lastConfirmedTimeTick' >= lastConfirmedTimeTick
                     /\ lastConfirmedMessageID' >= lastConfirmedMessageID

(* Only Ack moves what is confirmed, and it pops what was not confirmed.    *)
LEMMA StepForward ==
  ASSUME Inv, Next
  PROVE  Forward
<1> DEFINE Same == UNCHANGED <<lastConfirmedTimeTick, lastConfirmedMessageID>>
<1> USE DEF Forward
<1>1. ASSUME Inv, NEW ts, NEW over, Ack(ts, over)
      PROVE  Forward
  <2>1. /\ lastConfirmedTimeTick \in Nat /\ lastConfirmedMessageID \in Nat
        /\ notAckHeap \subseteq DOMAIN detail /\ DOMAIN detail \subseteq Nat
        /\ \A t \in notAckHeap : lastConfirmedTimeTick < t
    BY Zenon, <1>1 DEF Inv, TypeOK, Heaps
  <2>2. CASE PoppedAcked = {}
    BY <1>1, <2>1, <2>2 DEF Ack
  <2>3. CASE PoppedAcked # {}
    <3>1. PICK last \in PoppedAcked :
            /\ lastConfirmedTimeTick' = last
            /\ \E C : AddConfirmedDetails(C, over)
      BY Zenon, <1>1, <2>3 DEF Ack
    <3>2. lastConfirmedMessageID' >= lastConfirmedMessageID
      BY Zenon, <3>1 DEF AddConfirmedDetails, ConfirmedIDs
    <3>3. last \in notAckHeap
      BY DEF PoppedAcked
    <3>4. QED  BY <2>1, <3>1, <3>2, <3>3
  <2>4. QED  BY <2>2, <2>3
<1>2. Forward
  <2>0. lastConfirmedTimeTick \in Nat /\ lastConfirmedMessageID \in Nat
    BY Zenon DEF Inv, TypeOK
  <2>1. ASSUME Same
        PROVE  Forward
    BY <2>0, <2>1
  <2>2. ASSUME NEW p \in Appenders, AppendStep(p)
        PROVE  Forward
    <3>1. ASSUME NEW over, AckAcker(p, over)
          PROVE  Forward
      BY <1>1, <3>1 DEF AckAcker
    <3>2. CASE \/ \E barrier \in Barriers \cup {0}, session \in Sessions \cup {NoSession} :
                    StartAppend(p, barrier, session)
               \/ GiveUp(p) \/ AllocateAcker(p) \/ AppendMsg(p) \/ MarkAcker(p)
      <4>1. Same
        BY Zenon, <3>2 DEF StartAppend, GiveUp, AllocateAcker, Allocate, AppendMsg, MarkAcker,
                    MarkAcknowledged, managerVars
      <4>2. QED  BY <2>1, <4>1
    <3>3. QED  BY Zenon, <2>2, <3>1, <3>2 DEF AppendStep
  <2>3. CASE SyncStep
    <3>1. ASSUME NEW over, SyncAck(over)
          PROVE  Forward
      BY <1>1, <3>1 DEF SyncAck
    <3>2. CASE \/ SyncAllocate \/ SyncAllocateFail \/ SyncMark \/ SyncTake
               \/ SendPersistentTsMsg \/ NotifyPersisted \/ SendNoPersistentTsMsg
      <4>1. Same
        BY Zenon, <3>2
           DEF SyncAllocate, Allocate, SyncAllocateFail, SyncMark, MarkAcknowledged, SyncTake, TakeDetails,
                    SendPersistentTsMsg, NotifyPersisted, SendNoPersistentTsMsg, managerVars
      <4>2. QED  BY <2>1, <4>1
    <3>3. QED  BY <2>3, <3>1, <3>2 DEF SyncStep
  <2>4. CASE FirstTimeTick \/ Crash
    <3>1. ~ready \/ ~ready'
      BY <2>4 DEF FirstTimeTick, Crash
    <3>2. QED  BY Zenon, <3>1
  <2>5. QED  BY <2>2, <2>3, <2>4 DEF Next
<1>3. QED  BY <1>2

(* While the WAL stays open the confirmed time tick and the confirmed id    *)
(* only move forward: ack, Get and the pop loops never step back.           *)
THEOREM ConfirmedAdvancesHolds == Spec => ConfirmedAdvances
<1>1. Inv /\ [Next]_vars => [Forward]_vars
  BY StepForward
<1>2. QED  BY <1>1, InvHolds, PTL DEF Spec, ConfirmedAdvances, Forward

-----------------------------------------------------------------------------
(* The WAL as its readers see it. *)

(* What the log may rely on never goes back, not even when the WAL is lost. *)
LEMMA FloorRises ==
  ASSUME Inv, Next
  PROVE  Promised' >= Promised
<1>1. /\ tso \in Nat /\ lastConfirmedTimeTick \in Nat
      /\ lastConfirmedTimeTick <= tso /\ ready \in BOOLEAN
  BY DEF Inv, TypeOK, Allocated
<1>2. CASE ready /\ ready'
  BY <1>2, StepForward DEF Forward, Promised
<1>3. CASE Crash
  BY Zenon, <1>1, <1>3 DEF Crash, Promised
<1>4. CASE FirstTimeTick
  BY <1>1, <1>4 DEF FirstTimeTick, FirstTimestamp, NewAckManager, managerVars, Promised
<1>5. CASE ~Crash /\ ~FirstTimeTick
  <2>1. ready /\ ready' = ready
    <3>1. ASSUME NEW p \in Appenders, AppendStep(p)
          PROVE  ready /\ ready' = ready
      BY Zenon, <3>1 DEF AppendStep, StartAppend, GiveUp, AllocateAcker, AppendMsg, MarkAcker,
                         AckAcker, Inv, Closed
    <3>2. CASE SyncStep
      BY Zenon, <3>2 DEF SyncStep, SyncAllocate, SyncAllocateFail, SyncMark, SyncAck, SyncTake,
                         SendPersistentTsMsg, NotifyPersisted, SendNoPersistentTsMsg, Inv, Closed
    <3>3. QED  BY <1>5, <3>1, <3>2 DEF Next
  <2>2. QED  BY <1>2, <2>1
<1>6. QED  BY Zenon, <1>3, <1>4, <1>5

(* One entry is added: a message above the promise, or a time tick.         *)
Writes == \E e \in WalEntry : wal' = Append(wal, e) /\ (e.type = "msg" => e.tt > Promised')

(* No action does anything else to the log.                                 *)
LEMMA WalSteps ==
  ASSUME Inv, Next
  PROVE  wal' = wal \/ Writes
<1>0. DetailTyped /\ TypeOK
  BY Typed DEF Inv
<1>1. ASSUME NEW p \in Appenders, AppendMsg(p), wal' # wal
      PROVE  Writes
  <2> DEFINE ts == acker[p]
             entry == Message(ts, detail[ts].lastConfirmed)
  <2>1. ready /\ ts \in DOMAIN detail /\ ~detail[ts].acknowledged
    BY Zenon, <1>1 DEF AppendMsg, Inv, Owners, Holds, Closed
  <2>2. entry \in WalEntry /\ entry.tt = ts /\ wal' = Append(wal, entry)
    BY <1>0, <1>1, <2>1 DEF AppendMsg, FailedAppend, Message, WalEntry, DetailTyped
  <2>3. lastConfirmedTimeTick < ts /\ lastConfirmedTimeTick \in Nat /\ ts \in Nat
    BY Zenon, <1>0, <2>1 DEF Inv, Heaps, TypeOK, DetailTyped
  <2>4. Promised' = lastConfirmedTimeTick
    BY <1>1, <2>1 DEF AppendMsg, Promised
  <2> HIDE DEF ts, entry
  <2>5. QED  BY <2>2, <2>3, <2>4 DEF Writes
<1>2. ASSUME NEW ts \in Nat, NEW id \in Nat
      PROVE  TimeTickMsg(ts, id) \in WalEntry /\ TimeTickMsg(ts, id).type # "msg"
  BY DEF TimeTickMsg, WalEntry
<1>3. CASE SendPersistentTsMsg
  <2>1. PICK ts \in ackDetails, id \in {detail[t].lastConfirmed : t \in ackDetails} :
          wal' \in {wal, Append(wal, TimeTickMsg(ts, id))}
    BY Zenon, <1>3 DEF SendPersistentTsMsg, FailedAppend
  <2>2. ts \in Nat /\ id \in Nat
    BY SMTT(20), <1>0 DEF TypeOK, DetailTyped
  <2>3. QED  BY <1>2, <2>1, <2>2 DEF Writes
<1>4. CASE FirstTimeTick
  <2>1. wal' \in {wal, Append(wal, TimeTickMsg(tso + 1, Len(wal) + 1))}
    BY Zenon, <1>4 DEF FirstTimeTick, FirstTimestamp, FailedAppend
  <2>2. tso + 1 \in Nat /\ Len(wal) + 1 \in Nat
    BY <1>0 DEF TypeOK
  <2>3. QED  BY <1>2, <2>1, <2>2 DEF Writes
<1>5. ASSUME NEW p \in Appenders, AppendStep(p)
      PROVE  AppendMsg(p) \/ wal' = wal
  BY Zenon, <1>5 DEF AppendStep, StartAppend, GiveUp, AllocateAcker, MarkAcker, AckAcker
<1>6. CASE SyncStep
  <2>1. SendPersistentTsMsg \/ wal' = wal
    BY Zenon, <1>6 DEF SyncStep, SyncAllocate, SyncAllocateFail, SyncMark, SyncAck, SyncTake,
                       NotifyPersisted, SendNoPersistentTsMsg
  <2>2. QED  BY <1>3, <2>1
<1>7. CASE Crash
  BY Zenon, <1>7 DEF Crash
<1>8. QED  BY <1>1, <1>4, <1>5, <1>6, <1>7 DEF Next

(* What is written is written as WatermarkLog wants it: the principles that *)
(* hold of the log after the step say so of its last entry.                 *)
LEMMA LogGrows ==
  ASSUME Inv, Inv', NEW e \in WalEntry, wal' = Append(wal, e), e.type = "msg" => e.tt > Promised'
  PROVE  L!Grows(wal', Promised')
<1> DEFINE n == Len(wal) + 1
<1>0. wal \in Seq(WalEntry)
  BY Zenon DEF Inv, TypeOK
<1>1. /\ Len(wal) \in Nat /\ Len(wal') = n /\ wal'[n] = e /\ wal' # << >>
      /\ \A i \in 1 .. Len(wal) : wal'[i] = wal[i] /\ i \in 1 .. n /\ i < n
      /\ n \in 1 .. Len(wal')
  <2>1. Len(wal) \in Nat /\ Len(wal') = n /\ wal'[n] = e
    BY <1>0
  <2>2. wal' # << >>
    BY <2>1
  <2>3. \A i \in 1 .. Len(wal) : wal'[i] = wal[i] /\ i \in 1 .. n /\ i < n
    BY <1>0
  <2>4. QED  BY <2>1, <2>2, <2>3
<1>2. e.lastConfirmed \in Nat /\ e.tt \in Nat
  BY DEF WalEntry
<1>3. WalTyped
  BY Zenon, Typed DEF Inv
<1> HIDE DEF n
<1>4. L!MayStartAfter(e)
  <2>1. e.lastConfirmed <= n
    BY Zenon, <1>1 DEF Inv, Confirmed
  <2>2. ASSUME NEW i \in 1 .. Len(wal), i <= e.lastConfirmed, wal[i].type = "msg"
        PROVE  wal[i].tt <= e.tt
    <3>1. LastConfirmedPrinciple'
      BY Zenon DEF Inv, Confirmed
    <3>2. wal'[i].tt > wal'[n].tt => i > e.lastConfirmed
      BY <1>1, <2>2, <3>1 DEF LastConfirmedPrinciple
    <3>3. QED  BY <1>1, <1>2, <1>3, <2>2, <3>2 DEF WalTyped
  <2>3. QED  BY <2>1, <2>2 DEF L!MayStartAfter, L!IsMessage, n
<1>5. L!Writable(e, Promised')
  <2>1. CASE e.type = "msg"
    BY Zenon, <2>1 DEF L!Writable, L!IsMessage
  <2>2. CASE e.type # "msg"
    <3>1. e.type = "timetick" /\ \A i \in 1 .. Len(wal) : wal[i].type \in {"msg", "timetick"}
      <4>1. \A i \in 1 .. Len(wal) : wal[i] \in WalEntry
        BY <1>0
      <4>2. QED  BY Zenon, <2>2, <4>1 DEF WalEntry
    <3>2. e.tt <= Promised'
      BY Zenon, <1>1, <3>1 DEF Inv, Published
    <3>3. \A i \in 1 .. Len(wal) : wal[i].type = "timetick" => wal[i].tt <= e.tt
      <4>1. TimeTicksAscend'
        BY Zenon DEF Inv, Published
      <4>2. QED  BY <1>1, <3>1, <4>1 DEF TimeTicksAscend
    <3>4. QED  BY <2>2, <3>1, <3>2, <3>3 DEF L!Writable, L!IsMessage
  <2>3. QED  BY Zenon, <2>1, <2>2
<1>6. QED  BY <1>1, <1>4, <1>5 DEF L!Grows

(* The notifier is cleared with the WAL and otherwise only goes forward.    *)
LEMMA AnnouncementSteps ==
  ASSUME Inv, Inv', Next
  PROVE  L!NextAnnouncement(notifier', Promised', wal')
<1>0. notifier \in [id : Nat, tt : Nat] /\ ready \in BOOLEAN /\ ready' \in BOOLEAN
  BY Zenon DEF Inv, TypeOK
<1>1. CASE ~ready'
  BY Zenon, <1>1 DEF Inv, Closed, L!NextAnnouncement, L!NoAnnouncement, NoInfo
<1>2. CASE ready'
  <2>1. L!Announces(notifier', wal') /\ notifier'.tt <= Promised'
    BY Zenon, <1>2 DEF Inv, Announced, NotifierPrinciple, L!Announces, L!IsMessage, Promised
  <2>2. CASE FirstTimeTick
    <3>1. notifier = NoInfo /\ tso \in Nat
      BY Zenon, <2>2 DEF FirstTimeTick, Inv, Closed, TypeOK
    <3>2. notifier' = [id |-> Len(wal) + 1, tt |-> tso + 1] /\ lastConfirmedTimeTick' = tso + 1
      BY Zenon, <1>2, <2>2 DEF FirstTimeTick, FirstTimestamp, NewAckManager
    <3>3. QED  BY <1>2, <2>1, <3>1, <3>2 DEF L!NextAnnouncement, NoInfo, Promised
  <2>3. CASE ready
    <3>1. notifier # L!NoAnnouncement
      <4>1. notifier.id \in 1 .. Len(wal)
        BY Zenon, <2>3 DEF Inv, Announced
      <4>2. notifier.id # 0
        BY <4>1
      <4>3. QED  BY <4>2 DEF L!NoAnnouncement
    <3>2. notifier.tt <= notifier'.tt
      <4>1. CASE notifier' = notifier
        BY <1>0, <4>1
      <4>2. CASE NotifyPersisted
        <5>1. notifier.tt < sentInfo.tt /\ notifier' \in {sentInfo, notifier} /\ sentInfo.tt \in Nat
          BY Zenon, <4>2 DEF NotifyPersisted, Inv, Announced, IsLastAllAcknowledged, TypeOK
        <5>2. QED  BY <1>0, <5>1
      <4>3. CASE SendNoPersistentTsMsg
        <5>1. ackDetails \subseteq Nat
          BY Zenon DEF Inv, TypeOK
        <5>2. QED  BY <1>0, <4>3, <5>1 DEF SendNoPersistentTsMsg
      <4>4. ASSUME NEW p \in Appenders, AppendStep(p)
            PROVE  notifier' = notifier
        BY Zenon, <4>4 DEF AppendStep, StartAppend, GiveUp, AllocateAcker, AppendMsg, MarkAcker,
                           AckAcker, syncVars
      <4>5. CASE SyncStep
        <5>1. NotifyPersisted \/ SendNoPersistentTsMsg \/ notifier' = notifier
          BY Zenon, <4>5 DEF SyncStep, SyncAllocate, SyncAllocateFail, SyncMark, SyncAck,
                             SyncTake, SendPersistentTsMsg
        <5>2. QED  BY <4>1, <4>2, <4>3, <5>1
      <4>6. ~Crash /\ ~FirstTimeTick
        BY Zenon, <1>2, <2>3 DEF Crash, FirstTimeTick
      <4>7. QED  BY <4>1, <4>4, <4>5, <4>6 DEF Next
    <3>3. QED  BY <2>1, <3>1, <3>2 DEF L!NextAnnouncement
  <2>4. CASE ~ready /\ ~FirstTimeTick
    <3>1. ASSUME NEW p \in Appenders
          PROVE  ~AppendStep(p)
      BY Zenon, <2>4 DEF AppendStep, StartAppend, GiveUp, AllocateAcker, AppendMsg, MarkAcker,
                         AckAcker, Inv, Closed
    <3>2. ~SyncStep
      BY Zenon, <2>4 DEF SyncStep, SyncAllocate, SyncAllocateFail, SyncMark, SyncAck, SyncTake,
                         SendPersistentTsMsg, NotifyPersisted, SendNoPersistentTsMsg, Inv, Closed
    <3>3. QED  BY Zenon, <2>4, <3>1, <3>2 DEF Next, Crash
  <2>5. QED  BY <2>2, <2>3, <2>4
<1>3. QED  BY <1>1, <1>2

(* The WAL implements the abstract log its readers are verified against:    *)
(* whatever the appenders, the sync goroutine, failed appends and lost WALs *)
(* do, each step is one that WatermarkLog allows.                           *)
THEOREM ImplementsWatermarkLogHolds == Spec => ImplementsWatermarkLog
<1>1. Init => L!LogInit
  BY Zenon DEF Init, L!LogInit, L!NoAnnouncement, NoInfo, Promised
<1>2. Inv /\ Inv' /\ [Next]_vars => [L!LogStep]_(L!logVars)
  <2>1. ASSUME Inv, Inv', Next
        PROVE  L!LogStep
    <3>1. wal' = wal \/ L!Grows(wal', Promised')
      <4>1. ASSUME wal' # wal
            PROVE  L!Grows(wal', Promised')
        <5>1. PICK e \in WalEntry : wal' = Append(wal, e) /\ (e.type = "msg" => e.tt > Promised')
          BY <2>1, <4>1, WalSteps DEF Writes
        <5>2. QED  BY <2>1, <5>1, LogGrows
      <4>2. QED  BY <4>1
    <3>2. Promised' >= Promised
      BY <2>1, FloorRises
    <3>3. L!NextAnnouncement(notifier', Promised', wal')
      BY <2>1, AnnouncementSteps
    <3>4. QED  BY <3>1, <3>2, <3>3 DEF L!LogStep
  <2>2. ASSUME UNCHANGED vars
        PROVE  UNCHANGED L!logVars
    BY <2>2 DEF vars, managerVars, syncVars, L!logVars, Promised
  <2>3. QED  BY <2>1, <2>2
<1>3. QED  BY <1>1, <1>2, InvHolds, PTL DEF Spec, ImplementsWatermarkLog, L!LogSpec
=============================================================================
