------------------------------ MODULE MCKMutex ------------------------------
(* Instances of KMutex for TLC: three priorities, one of them twice.       *)
EXTENDS KMutex

CONSTANTS t1, t2, t3, t4, m1, m2, cv

ThreePrios == [t \in Threads |-> CASE t = t1 -> 1 [] t \in {t2, t4} -> 3 [] t = t3 -> 5]
CeilingOfBuild == -127
=============================================================================
