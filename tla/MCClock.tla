------------------------------- MODULE MCClock -------------------------------
(* Instances of Clock for TLC: durations from now, and uptimes, one of     *)
(* them more than INT_MAX ticks away.                                      *)
EXTENDS Clock

CONSTANTS m1, m2, s1, y1

OnePrio == [s \in Syncers |-> 0]
ShortDurations == {[abs |-> FALSE, ticks |-> 1], [abs |-> TRUE, ticks |-> 2]}
FarDurations == {[abs |-> FALSE, ticks |-> 1], [abs |-> TRUE, ticks |-> 8]}
==============================================================================
