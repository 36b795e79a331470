------------------------------ MODULE ScanBuffers ------------------------------
(***************************************************************************)
(* The two buffers of a scanner as functions of what they hold: the        *)
(* ReOrderByTimeTickBuffer, a set of messages and the last popped time     *)
(* tick, and the TxnBuffer, the messages of every open transaction.  A     *)
(* message is a record with its time tick and last confirmed id, its kind  *)
(* and its transaction.                                                    *)
(***************************************************************************)
EXTENDS Naturals, Sequences, SequencesExt, Functions

CONSTANT Keepalive   \* the lease of a transaction, in time ticks

EmptyScan == [heap |-> {}, lastPop |-> 0, builders |-> << >>]

(* What a consumer gets: the time tick and the last confirmed id of m, and  *)
(* the time ticks of the messages that come with it.                        *)
Item(m, msgs) ==
  [tt |-> m.tt, lastConfirmed |-> m.lastConfirmed, msgs |-> {n.tt : n \in Range(msgs)}]

-----------------------------------------------------------------------------
(* ReOrderByTimeTickBuffer. *)

(* A message below the last popped time tick is dropped.                    *)
Push(s, m) == IF m.tt < s.lastPop THEN s ELSE [s EXCEPT !.heap = @ \cup {m}]

(* Mutant: the messages at the time tick itself stay.                       *)
ReadyBelow(s, tt) == {m \in s.heap : m.tt < tt}

(* Mutant: everything that is buffered goes.                                *)
ReadyAll(s, tt) == s.heap

Ready(s, tt) == {m \in s.heap : m.tt <= tt}

PopUtilTimeTick(s, tt) ==
  [s EXCEPT !.heap = @ \ Ready(s, tt), !.lastPop = tt]

-----------------------------------------------------------------------------
(* TxnBuffer. *)

HasBuilder(b, m) == m.txn \in DOMAIN b.builders

(* ImmutableTxnMessageBuilder.ExpiredTimeTick, of the last message added.   *)
ExpiredTimeTick(msgs) == Last(msgs).tt + Keepalive

AliveAt(msgs, ts) == ExpiredTimeTick(msgs) > ts

Forget(builders, txn) == Restrict(builders, DOMAIN builders \ {txn})

(* One message of the loop of HandleImmutableMessages: b holds the builders *)
(* and out what goes to the consumer.                                       *)
HandleMessage(b, m) ==
  CASE m.kind = "auto" ->
         [b EXCEPT !.out = Append(@, Item(m, <<m>>))]
    [] m.kind = "begin" /\ ~HasBuilder(b, m) ->
         [b EXCEPT !.builders = [t \in DOMAIN @ \cup {m.txn} |-> IF t = m.txn THEN <<m>> ELSE @[t]]]
    [] m.kind = "body" /\ HasBuilder(b, m) ->
         [b EXCEPT !.builders[m.txn] = Append(@, m)]
    [] m.kind = "commit" /\ HasBuilder(b, m) ->
         [builders |-> Forget(b.builders, m.txn),
          out |-> Append(b.out, Item(m, Append(b.builders[m.txn], m)))]
    [] m.kind = "rollback" /\ HasBuilder(b, m) ->
         [b EXCEPT !.builders = Forget(@, m.txn)]
    [] OTHER -> b

Alive(builders, ts) == Restrict(builders, {t \in DOMAIN builders : AliveAt(builders[t], ts)})

HandleAll(builders, msgs) ==
  FoldLeft(HandleMessage, [builders |-> builders, out |-> << >>],
           SetToSortSeq(msgs, LAMBDA m, n : m.tt < n.tt))

(* Mutant: the expired transactions are dropped before the messages.        *)
HandleImmutableMessagesLate(builders, msgs, ts) == HandleAll(Alive(builders, ts), msgs)

(* HandleImmutableMessages of the messages in time tick order, with         *)
(* clearExpiredTxn: the builders left over and the items for the consumer.  *)
HandleImmutableMessages(builders, msgs, ts) ==
  [HandleAll(builders, msgs) EXCEPT !.builders = Alive(@, ts)]

(* handleUpstream of a time tick: the buffers after it, and what they give. *)
HandleTimeTick(s, tt) ==
  LET done == HandleImmutableMessages(s.builders, Ready(s, tt), tt)
  IN [scan |-> [PopUtilTimeTick(s, tt) EXCEPT !.builders = done.builders], out |-> done.out]

=============================================================================
