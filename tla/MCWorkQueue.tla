----------------------------- MODULE MCWorkQueue -----------------------------
(* Instances of WorkQueue for TLC: the values are in the configurations.   *)
EXTENDS WorkQueue

CONSTANTS w1, w2, q1, q2, c1, c2
==============================================================================
