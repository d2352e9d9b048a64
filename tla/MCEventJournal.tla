--------------------------- MODULE MCEventJournal ---------------------------
(* Bounds for TLC: a reader lags at most two lines behind the play, which is as
   many as the dedupe of these runs remembers, and only the first run is stopped;
   or the readers never overlap. *)
EXTENDS EventJournal

Bounded ==
  /\ \A p \in Readers : Len(lines[p]) <= 2
  /\ stopped => run = 1

NoOverlap == \E p \in Readers : hand[p] = Idle
=============================================================================
