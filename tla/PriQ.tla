-------------------------------- MODULE PriQ --------------------------------
(***************************************************************************)
(* Priority-ordered thread lists: the "dumb" list implementation that the  *)
(* build selects for the run queue (CONFIG_SCHED_DUMB) and for every wait  *)
(* queue (CONFIG_WAITQ_DUMB).  A list is a sequence of threads, best       *)
(* thread first; prio maps a thread to base.prio, and a numerically        *)
(* smaller value is a higher priority.                                     *)
(***************************************************************************)
EXTENDS Integers, Sequences

(* z_sched_prio_cmp(t1, t2) > 0: t1 strictly outranks t2.  The build has   *)
(* no CONFIG_SCHED_DEADLINE, so priority alone decides.                    *)
z_sched_prio_cmp_gt(prio, t1, t2) == prio[t1] < prio[t2]

(* The threads of a list, and "no thread is linked twice".                 *)
Members(pq) == {pq[i] : i \in 1 .. Len(pq)}
Distinct(pq) == \A i, j \in 1 .. Len(pq) : pq[i] = pq[j] => i = j

(* Where SYS_DLIST_FOR_EACH_CONTAINER stops: in front of the first thread  *)
(* that t outranks, or past the end.                                       *)
InsertPos(pq, t, prio) ==
  IF \E i \in 1 .. Len(pq) : z_sched_prio_cmp_gt(prio, t, pq[i])
  THEN CHOOSE i \in 1 .. Len(pq) :
         /\ z_sched_prio_cmp_gt(prio, t, pq[i])
         /\ \A j \in 1 .. (i - 1) : ~ z_sched_prio_cmp_gt(prio, t, pq[j])
  ELSE Len(pq) + 1

(* Link t at its place: behind every thread of its own priority.           *)
z_priq_dumb_add(pq, t, prio) ==
  LET pos == InsertPos(pq, t, prio)
  IN  [i \in 1 .. Len(pq) + 1 |-> IF i < pos THEN pq[i]
                                  ELSE IF i = pos THEN t
                                  ELSE pq[i - 1]]

(* Unlink t.  Callers check membership; unlinking a node that is on no     *)
(* list is undefined in the code, and here leaves the list alone.          *)
z_priq_dumb_remove(pq, t) ==
  IF t \in Members(pq)
  THEN LET pos == CHOOSE i \in 1 .. Len(pq) : pq[i] = t
       IN  [i \in 1 .. Len(pq) - 1 |-> IF i < pos THEN pq[i] ELSE pq[i + 1]]
  ELSE pq

(* Sorted by the priorities in force now.                                  *)
Sorted(pq, prio) ==
  \A i, j \in 1 .. Len(pq) : i < j => prio[pq[i]] <= prio[pq[j]]
=============================================================================
