------------------------------- MODULE MCKSem -------------------------------
(* Instances of KSem for TLC: three users, two of one priority.            *)
EXTENDS KSem

CONSTANTS t1, t2, t3

SomePrio == [t \in Threads |-> IF t = t3 THEN -1 ELSE 5]
=============================================================================
