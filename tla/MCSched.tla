------------------------------- MODULE MCSched -------------------------------
(* Instances of Sched for TLC: two or three threads and one wait queue.    *)
EXTENDS Sched

CONSTANTS t1, t2, t3

(* One cooperative and two preemptible threads; the rest have all threads  *)
(* of one preemptible priority, which is what time slicing is about.       *)
MixedPrio == [t \in Threads |-> CASE t = t1 -> 0 [] t = t2 -> -1 [] t = t3 -> 1]
EqualPrio == [t \in Threads |-> 0]
AllPrios == {-1, 0, 1}
TwoPrios == {-1, 0}
==============================================================================
