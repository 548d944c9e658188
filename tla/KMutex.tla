------------------------------- MODULE KMutex -------------------------------
(***************************************************************************)
(* Mutexes with priority inheritance (kernel/mutex.c) and the condition    *)
(* variables on top of them (kernel/condvar.c).  Each critical section is  *)
(* one step; any thread that is in no call may be the one executing.       *)
(* Neither is used by interrupt handlers, so an expiring timeout is one    *)
(* step, after which the thread still has the rest of its call to do.      *)
(***************************************************************************)
EXTENDS PriQ, FiniteSets

CONSTANTS
  Threads, Mutexes, Condvars,
  Base,       \* the priority each thread was created with
  Ceiling,    \* CONFIG_PRIORITY_CEILING
  MaxCount,   \* bound on the nesting of k_mutex_lock by one thread
  NULL        \* no thread, no object

ASSUME KMutexAssumption ==
  /\ Base \in [Threads -> Int] /\ Ceiling \in Int /\ MaxCount \in Nat \ {0}
  /\ Mutexes \cap Condvars = {} /\ NULL \notin Threads \cup Mutexes \cup Condvars

VARIABLES
  m,         \* the objects and what the scheduler keeps of threads, see MState
  pc,        \* idle, pended, timedout or relock
  rest,      \* the mutex that the rest of a thread's call is about, or NULL
  held       \* ghost: held[t][x], locks of x by t minus unlocks

vars == <<m, pc, rest, held>>

Objs == Mutexes \cup Condvars
Prios == {Base[t] : t \in Threads} \cup {Ceiling}

MState ==
  [owner : [Mutexes -> Threads \cup {NULL}], lock_count : [Mutexes -> 0 .. MaxCount],
   owner_orig_prio : [Mutexes -> Int], wait_q : [Objs -> Seq(Threads)],
   prio : [Threads -> Prios],                   \* base.prio
   pended_on : [Threads -> Objs \cup {NULL}],
   timed : [Threads -> BOOLEAN]]                \* base.timeout is linked

(* k_mutex_init and k_condvar_init.                                        *)
Init ==
  /\ m = [owner |-> [x \in Mutexes |-> NULL], lock_count |-> [x \in Mutexes |-> 0],
          owner_orig_prio |-> [x \in Mutexes |-> 0], wait_q |-> [x \in Objs |-> <<>>],
          prio |-> Base, pended_on |-> [t \in Threads |-> NULL],
          timed |-> [t \in Threads |-> FALSE]]
  /\ pc = [t \in Threads |-> "idle"] /\ rest = [t \in Threads |-> NULL]
  /\ held = [t \in Threads |-> [x \in Mutexes |-> 0]]

-----------------------------------------------------------------------------
(* Helpers on a state s, named after the functions they stand for.         *)

Higher(p1, p2) == IF p1 < p2 THEN p1 ELSE p2

(* Mutant: one better than the waiter.                                     *)
new_prio_for_inheritance_above(target, limit) == Higher(target - 1, limit)

new_prio_for_inheritance(target, limit) ==
  LET p == Higher(target, limit) IN IF p >= Ceiling THEN p ELSE Ceiling

(* z_thread_prio_set: a thread that is pended keeps its place in its queue.*)
adjust_owner_prio(s, x, p) == [s EXCEPT !.prio[s.owner[x]] = p]

(* z_pend_curr, and z_unpend_thread.  Mutant first: the thread stays on    *)
(* the list it leaves.                                                     *)
Unpend_still_listed(s, t) == [s EXCEPT !.pended_on[t] = NULL, !.timed[t] = FALSE]

Pend(s, t, q, forever) ==
  [s EXCEPT !.wait_q[q] = z_priq_dumb_add(@, t, s.prio),
            !.pended_on[t] = q, !.timed[t] = ~forever]
Unpend(s, t) ==
  [s EXCEPT !.wait_q[s.pended_on[t]] = z_priq_dumb_remove(@, t),
            !.pended_on[t] = NULL, !.timed[t] = FALSE]

Takes(s, t, x) == s.lock_count[x] = 0 \/ s.owner[x] = t

LockTaken(s, t, x) ==
  [s EXCEPT !.owner_orig_prio[x] = IF s.lock_count[x] = 0 THEN s.prio[t] ELSE @,
            !.lock_count[x] = @ + 1, !.owner[x] = t]

LockPended(s, t, x, forever) ==
  LET p == new_prio_for_inheritance(s.prio[t], s.prio[s.owner[x]])
      raised == IF p < s.prio[s.owner[x]] THEN adjust_owner_prio(s, x, p) ELSE s
  IN  Pend(raised, t, x, forever)

(* The last unlock: the mutex goes to the best waiter, whose return value  *)
(* is set to 0, or to nobody.  Mutant first: the count is cleared also     *)
(* when a waiter gets the mutex.                                           *)
Release_count_cleared(s, x) ==
  LET back == adjust_owner_prio(s, x, s.owner_orig_prio[x])
      new_owner == Head(s.wait_q[x])
  IN  IF s.wait_q[x] = <<>>
      THEN [back EXCEPT !.owner[x] = NULL, !.lock_count[x] = 0]
      ELSE [Unpend(back, new_owner) EXCEPT !.owner[x] = new_owner, !.lock_count[x] = 0,
                                           !.owner_orig_prio[x] = back.prio[new_owner]]
Release(s, x) ==
  LET back == adjust_owner_prio(s, x, s.owner_orig_prio[x])
      new_owner == Head(s.wait_q[x])
  IN  IF s.wait_q[x] = <<>>
      THEN [back EXCEPT !.owner[x] = NULL, !.lock_count[x] = 0]
      ELSE [Unpend(back, new_owner) EXCEPT !.owner[x] = new_owner,
                                           !.owner_orig_prio[x] = back.prio[new_owner]]

(* k_mutex_unlock; the calls that return -EINVAL or -EPERM change nothing. *)
Unlocked(s, t, x) ==
  IF s.owner[x] # t THEN s
  ELSE IF s.lock_count[x] > 1 THEN [s EXCEPT !.lock_count[x] = @ - 1]
  ELSE Release(s, x)

(* Who gets x when t unlocks it.                                           *)
Granted(t, x) ==
  IF m.owner[x] = t /\ m.lock_count[x] = 1 /\ m.wait_q[x] # <<>>
  THEN {Head(m.wait_q[x])} ELSE {}

(* The bookkeeping of an unlock: a granted lock returns 0.                 *)
HeldAfterUnlock(t, x) ==
  [u \in Threads |-> [held[u] EXCEPT ![x] =
     IF u \in Granted(t, x) THEN 1 ELSE IF u = t /\ m.owner[x] = t THEN @ - 1 ELSE @]]

-----------------------------------------------------------------------------
(* k_mutex_lock, or the one at the end of k_condvar_wait.                  *)
LockFree(t, x) ==
  /\ Takes(m, t, x) /\ m.lock_count[x] < MaxCount
  /\ m' = LockTaken(m, t, x)
  /\ held' = [held EXCEPT ![t][x] = @ + 1]
  /\ pc' = [pc EXCEPT ![t] = "idle"] /\ rest' = [rest EXCEPT ![t] = NULL]

LockBusy(t, x, forever) ==
  /\ ~Takes(m, t, x)
  /\ m' = LockPended(m, t, x, forever)
  /\ pc' = [pc EXCEPT ![t] = "pended"] /\ rest' = [rest EXCEPT ![t] = NULL]
  /\ UNCHANGED held

k_mutex_lock(t, x, forever) ==
  pc[t] = "idle" /\ (LockFree(t, x) \/ LockBusy(t, x, forever))

k_mutex_unlock(t, x) ==
  /\ pc[t] = "idle" /\ m.owner[x] = t
  /\ m' = Unlocked(m, t, x) /\ held' = HeldAfterUnlock(t, x)
  /\ pc' = [u \in Threads |-> IF u \in Granted(t, x) THEN "idle" ELSE pc[u]]
  /\ UNCHANGED rest

(* z_thread_timeout for a waiter: it is off the queue; what is left of its *)
(* call runs when it is scheduled.                                         *)
Expire(t) ==
  /\ pc[t] = "pended" /\ m.timed[t]
  /\ m' = Unpend(m, t)
  /\ pc' = [pc EXCEPT ![t] = IF m.pended_on[t] \in Condvars THEN "relock" ELSE "timedout"]
  /\ rest' = IF m.pended_on[t] \in Mutexes THEN [rest EXCEPT ![t] = m.pended_on[t]] ELSE rest
  /\ UNCHANGED held

(* Mutant: the owner keeps the priority the waiter lent it.                *)
LockTimedOut_no_adjust(t) ==
  /\ pc[t] = "timedout"
  /\ pc' = [pc EXCEPT ![t] = "idle"] /\ rest' = [rest EXCEPT ![t] = NULL]
  /\ UNCHANGED <<m, held>>

(* The second section of a k_mutex_lock that timed out: the owner, if      *)
(* there still is one, gets the priority that the waiters left justify.    *)
LockTimedOut(t) ==
  /\ pc[t] = "timedout"
  /\ LET x == rest[t]
         p == IF m.wait_q[x] # <<>>
              THEN new_prio_for_inheritance(m.prio[Head(m.wait_q[x])], m.owner_orig_prio[x])
              ELSE m.owner_orig_prio[x]
     IN  m' = IF m.owner[x] # NULL THEN adjust_owner_prio(m, x, p) ELSE m
  /\ pc' = [pc EXCEPT ![t] = "idle"] /\ rest' = [rest EXCEPT ![t] = NULL]
  /\ UNCHANGED held

-----------------------------------------------------------------------------
(* k_condvar_wait: the unlock and the wait are one section, because the    *)
(* condition variables' own lock masks interrupts around both.             *)
k_condvar_wait(t, cv, x, forever) ==
  /\ pc[t] = "idle"
  /\ m' = Pend(Unlocked(m, t, x), t, cv, forever)
  /\ held' = HeldAfterUnlock(t, x)
  /\ pc' = [u \in Threads |-> IF u = t THEN "pended"
                              ELSE IF u \in Granted(t, x) THEN "idle" ELSE pc[u]]
  /\ rest' = [rest EXCEPT ![t] = x]

CondvarRelock(t) ==
  pc[t] = "relock" /\ (LockFree(t, rest[t]) \/ LockBusy(t, rest[t], TRUE))

k_condvar_signal(t, cv) ==
  /\ pc[t] = "idle" /\ m.wait_q[cv] # <<>>
  /\ m' = Unpend(m, Head(m.wait_q[cv]))
  /\ pc' = [pc EXCEPT ![Head(m.wait_q[cv])] = "relock"]
  /\ UNCHANGED <<rest, held>>

(* The loop of k_condvar_broadcast empties the queue.                      *)
k_condvar_broadcast(t, cv) ==
  /\ pc[t] = "idle" /\ m.wait_q[cv] # <<>>
  /\ LET woken == Members(m.wait_q[cv])
     IN  /\ m' = [m EXCEPT !.wait_q[cv] = <<>>,
                    !.pended_on = [u \in Threads |-> IF u \in woken THEN NULL ELSE @[u]],
                    !.timed = [u \in Threads |-> @[u] /\ u \notin woken]]
         /\ pc' = [u \in Threads |-> IF u \in woken THEN "relock" ELSE pc[u]]
  /\ UNCHANGED <<rest, held>>

Next ==
  \E t \in Threads :
    \/ \E x \in Mutexes : \/ k_mutex_lock(t, x, TRUE) \/ k_mutex_lock(t, x, FALSE)
                          \/ k_mutex_unlock(t, x)
    \/ \E cv \in Condvars : \/ \E x \in Mutexes, forever \in BOOLEAN :
                                 k_condvar_wait(t, cv, x, forever)
                            \/ k_condvar_signal(t, cv) \/ k_condvar_broadcast(t, cv)
    \/ Expire(t) \/ LockTimedOut(t) \/ CondvarRelock(t)

Spec == Init /\ [][Next]_vars

-----------------------------------------------------------------------------
(* The type invariant; inheritance invents no priorities.                  *)
TypeOK ==
  /\ m \in MState
  /\ pc \in [Threads -> {"idle", "pended", "timedout", "relock"}]
  /\ rest \in [Threads -> Mutexes \cup {NULL}]
  /\ held \in [Threads -> [Mutexes -> 0 .. MaxCount]]

(* Mutual exclusion with exact accounts: only the owner holds a mutex, as  *)
(* often as lock_count says, through hand-overs, timeouts and condition    *)
(* waits; and a mutex that nobody owns has no waiter left behind.          *)
Exclusion ==
  \A x \in Mutexes :
    /\ \A t \in Threads : held[t][x] = IF m.owner[x] = t THEN m.lock_count[x] ELSE 0
    /\ m.owner[x] = NULL <=> m.lock_count[x] = 0
    /\ m.owner[x] = NULL => m.wait_q[x] = <<>>

(* The wait queues hold exactly the pended threads, each once, on the      *)
(* object it names ...                                                     *)
Listed(s) ==
  \A q \in Objs : /\ Distinct(s.wait_q[q])
                  /\ Members(s.wait_q[q]) = {t \in Threads : s.pended_on[t] = q}

(* ... and a thread is pended exactly while its call waits.                *)
QueuesKept ==
  /\ Listed(m)
  /\ \A t \in Threads : /\ pc[t] = "pended" <=> m.pended_on[t] # NULL
                        /\ m.timed[t] => pc[t] = "pended"

(* Nobody is on two queues or on none while blocked; and the first to wait *)
(* for a mutex, to whom k_mutex_unlock hands it, is a best one: mutex.c    *)
(* relies on the order when it gives the new owner no priority of the      *)
(* remaining waiters.  The order holds for one mutex.                      *)
WaitInv == QueuesKept /\ \A x \in Mutexes : Sorted(m.wait_q[x], m.prio)

(* The head of mutex.c: an owner runs at the priority of the best thread   *)
(* waiting for its mutex, or at its own, and no longer than they wait;     *)
(* only while a waiter that timed out has not finished its call may the    *)
(* owner still be higher.  A thread that owns nothing has its own          *)
(* priority.  For one mutex.                                               *)
Justified(x) ==
  LET ps == {m.prio[t] : t \in Members(m.wait_q[x])} \cup {m.owner_orig_prio[x]}
  IN  CHOOSE p \in ps : \A p2 \in ps : p <= p2
ExactBoost ==
  \A x \in Mutexes :
    /\ m.owner[x] # NULL =>
         /\ m.prio[m.owner[x]] <= Justified(x)
         /\ (\A t \in Threads : pc[t] # "timedout") => m.prio[m.owner[x]] = Justified(x)
         /\ m.owner_orig_prio[x] = Base[m.owner[x]]
    /\ \A t \in Threads : m.owner[x] # t => m.prio[t] = Base[t]
=============================================================================
