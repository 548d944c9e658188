------------------------------- MODULE AbsSem -------------------------------
(***************************************************************************)
(* What k_sem promises, without queues, timers or return values in         *)
(* registers: a bounded count, a set of blocked takers, and the outcome of *)
(* each finished take.  A unit goes to a blocked taker of the best         *)
(* priority, or into the count, or is dropped at the limit.                *)
(***************************************************************************)
EXTENDS Integers

CONSTANTS Threads, Prio, MaxLimit

VARIABLES avail, limit, blocked, outcome

absvars == <<avail, limit, blocked, outcome>>

AbsInit ==
  /\ limit \in 1 .. MaxLimit /\ avail \in 0 .. limit
  /\ blocked = {} /\ outcome = [t \in Threads |-> "none"]

Free(t) == t \notin blocked /\ outcome[t] = "none"

Take(t) ==
  /\ Free(t) /\ avail > 0
  /\ avail' = avail - 1 /\ outcome' = [outcome EXCEPT ![t] = "taken"]
  /\ UNCHANGED <<limit, blocked>>

Refuse(t) ==
  /\ Free(t) /\ avail = 0
  /\ outcome' = [outcome EXCEPT ![t] = "busy"]
  /\ UNCHANGED <<avail, limit, blocked>>

Block(t) ==
  /\ Free(t) /\ avail = 0
  /\ blocked' = blocked \cup {t}
  /\ UNCHANGED <<avail, limit, outcome>>

Grant(t) ==
  /\ t \in blocked /\ \A u \in blocked : Prio[t] <= Prio[u]
  /\ blocked' = blocked \ {t} /\ outcome' = [outcome EXCEPT ![t] = "taken"]
  /\ UNCHANGED <<avail, limit>>

Post ==
  /\ blocked = {}
  /\ avail' = IF avail # limit THEN avail + 1 ELSE avail
  /\ UNCHANGED <<limit, blocked, outcome>>

(* An interrupt handler takes a unit without waiting.                      *)
TakeNoOwner == avail > 0 /\ avail' = avail - 1 /\ UNCHANGED <<limit, blocked, outcome>>

Expire(t) ==
  /\ t \in blocked
  /\ blocked' = blocked \ {t} /\ outcome' = [outcome EXCEPT ![t] = "again"]
  /\ UNCHANGED <<avail, limit>>

Reset ==
  /\ avail' = 0 /\ blocked' = {}
  /\ outcome' = [t \in Threads |-> IF t \in blocked THEN "again" ELSE outcome[t]]
  /\ UNCHANGED limit

(* The taker is aborted; what it was handed is gone with it.               *)
Kill(t) ==
  /\ blocked' = blocked \ {t} /\ outcome' = [outcome EXCEPT ![t] = "dead"]
  /\ UNCHANGED <<avail, limit>>

Finish(t) ==
  /\ outcome[t] \in {"taken", "busy", "again"} /\ outcome' = [outcome EXCEPT ![t] = "none"]
  /\ UNCHANGED <<avail, limit, blocked>>

AbsNext ==
  \/ \E t \in Threads : \/ Take(t) \/ Refuse(t) \/ Block(t) \/ Grant(t)
                        \/ Expire(t) \/ Kill(t) \/ Finish(t)
  \/ Post \/ TakeNoOwner \/ Reset

AbsSpec == AbsInit /\ [][AbsNext]_absvars
=============================================================================
