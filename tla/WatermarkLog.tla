----------------------------- MODULE WatermarkLog -----------------------------
(***************************************************************************)
(* What a write-ahead log promises to those who read it, without saying    *)
(* how: a floor that only rises, below which no message is written any     *)
(* more; time ticks that never pass the floor; and a notifier that may     *)
(* announce a time tick which is not in the log.  TimeTick implements it,  *)
(* and Scanner reads from it.                                              *)
(***************************************************************************)
EXTENDS Naturals, Sequences

VARIABLES
  wal,       \* the persisted log: records with type, tt and lastConfirmed
  floor,     \* no message at or below it will be written
  notifier   \* a position and a time tick that covers what is behind it

logVars == <<wal, floor, notifier>>

IsMessage(e) == e.type = "msg"

NoAnnouncement == [id |-> 0, tt |-> 0]

LogInit ==
  /\ wal = << >>
  /\ floor = 0
  /\ notifier = NoAnnouncement

(* Whoever starts after lastConfirmed finds all that is later than e.       *)
MayStartAfter(e) ==
  /\ e.lastConfirmed <= Len(wal) + 1
  /\ \A i \in 1 .. Len(wal) : i <= e.lastConfirmed /\ IsMessage(wal[i]) => wal[i].tt <= e.tt

(* A message is above the floor; a time tick is not, and is not below the   *)
(* time ticks before it.                                                    *)
Writable(e, top) ==
  IF IsMessage(e) THEN e.tt > top
  ELSE /\ e.tt <= top
       /\ \A i \in 1 .. Len(wal) : ~IsMessage(wal[i]) => wal[i].tt <= e.tt

(* A time tick that is announced without being persisted covers no message  *)
(* that the persisted one at its position does not cover.                   *)
Announces(info, log) ==
  /\ info.id <= Len(log)
  /\ \A j \in 1 .. Len(log) :
       IsMessage(log[j]) /\ log[j].tt <= info.tt => j < info.id /\ log[j].tt <= log[info.id].tt

(* The notifier forgets when the log is closed; otherwise it goes forward,  *)
(* and starts with all that has been promised.                              *)
NextAnnouncement(info, top, log) ==
  \/ info = NoAnnouncement
  \/ /\ Announces(info, log)
     /\ notifier.tt <= info.tt /\ info.tt <= top
     /\ notifier = NoAnnouncement => info.tt = top

Grows(log, top) ==
  /\ log # << >>
  /\ LET e == log[Len(log)]
     IN log = Append(wal, e) /\ MayStartAfter(e) /\ Writable(e, top)

LogStep ==
  /\ floor' >= floor
  /\ wal' = wal \/ Grows(wal', floor')
  /\ NextAnnouncement(notifier', floor', wal')

LogSpec == LogInit /\ [][LogStep]_logVars

=============================================================================
