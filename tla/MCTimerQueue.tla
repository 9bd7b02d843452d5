---------------------------- MODULE MCTimerQueue ----------------------------
(* TimerQueue for TLC: a timer that repeats forever, and one with a count,  *)
(* which starts later and, when its count is spent, repeats no more.        *)
EXTENDS TimerQueue

CONSTANTS always, counted

MCForever == -1
MCDelay == [t \in Timers |-> IF t = counted THEN 2 ELSE 0]
MCInterval == [t \in Timers |-> IF t = always THEN 2 ELSE 1]
MCCount == [t \in Timers |-> IF t = counted THEN 2 ELSE MCForever]
=============================================================================
