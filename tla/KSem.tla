-------------------------------- MODULE KSem --------------------------------
(***************************************************************************)
(* One counting semaphore: kernel/sem.c on the wait queue and timeout      *)
(* services of sched.c and timeout.c.  Each critical section is one step.  *)
(* Any thread that is in no call may be the one executing, which covers    *)
(* every schedule.  The timer interrupt takes two steps for a timeout: it  *)
(* unlinks it, then runs the callback; in between only other interrupt     *)
(* handlers execute, and they may give the semaphore or take it without    *)
(* waiting.                                                                *)
(***************************************************************************)
EXTENDS PriQ

CONSTANTS
  Threads,   \* the threads that use the semaphore
  Prio,      \* their priorities, constant while they wait
  MaxLimit,  \* K_SEM_MAX_LIMIT
  NULL       \* no thread

ASSUME KSemAssumption ==
  /\ Prio \in [Threads -> Int] /\ MaxLimit \in Nat \ {0} /\ NULL \notin Threads

VARIABLES
  count, limit, wait_q,   \* struct k_sem
  pc,                     \* where each thread is in k_sem_take
  timed,                  \* its wait was given a finite timeout
  timeout,                \* base.timeout is linked
  retval,                 \* arch.swap_return_value, then what the call returns
  firing                  \* the thread whose timeout callback is due

vars == <<count, limit, wait_q, pc, timed, timeout, retval, firing>>

EAGAIN == -11
EBUSY == -16

(* k_sem_init: the arguments CHECKIF accepts.                              *)
k_sem_init(initial_count, l) ==
  /\ l # 0 /\ l <= MaxLimit /\ initial_count <= l
  /\ count = initial_count /\ limit = l /\ wait_q = <<>>

Init ==
  /\ \E l \in 0 .. MaxLimit : \E c \in 0 .. MaxLimit : k_sem_init(c, l)
  /\ pc = [t \in Threads |-> "idle"]
  /\ timed = [t \in Threads |-> FALSE] /\ timeout = [t \in Threads |-> FALSE]
  /\ retval = [t \in Threads |-> 0]
  /\ firing = NULL

(* A thread executes and is in no call.                                    *)
Free(t) == pc[t] = "idle" /\ firing = NULL

(* k_sem_take, the three ways out of its critical section.                 *)
TakeAvailable(t) ==
  /\ Free(t) /\ count > 0
  /\ count' = count - 1
  /\ pc' = [pc EXCEPT ![t] = "done"] /\ retval' = [retval EXCEPT ![t] = 0]
  /\ UNCHANGED <<limit, wait_q, timed, timeout, firing>>

TakeNoWait(t) ==
  /\ Free(t) /\ count = 0
  /\ pc' = [pc EXCEPT ![t] = "done"] /\ retval' = [retval EXCEPT ![t] = EBUSY]
  /\ UNCHANGED <<count, limit, wait_q, timed, timeout, firing>>

(* Mutants: first come, first served; the timeout is never linked.         *)
TakePend_fifo(t, forever) ==
  /\ Free(t) /\ count = 0
  /\ wait_q' = Append(wait_q, t)
  /\ pc' = [pc EXCEPT ![t] = "pended"] /\ retval' = [retval EXCEPT ![t] = EAGAIN]
  /\ timed' = [timed EXCEPT ![t] = ~forever] /\ timeout' = [timeout EXCEPT ![t] = ~forever]
  /\ UNCHANGED <<count, limit, firing>>
TakePend_unarmed(t, forever) ==
  /\ Free(t) /\ count = 0
  /\ wait_q' = z_priq_dumb_add(wait_q, t, Prio)
  /\ pc' = [pc EXCEPT ![t] = "pended"] /\ retval' = [retval EXCEPT ![t] = EAGAIN]
  /\ timed' = [timed EXCEPT ![t] = ~forever]
  /\ UNCHANGED <<count, limit, timeout, firing>>

TakePend(t, forever) ==
  /\ Free(t) /\ count = 0
  /\ wait_q' = z_priq_dumb_add(wait_q, t, Prio)
  /\ pc' = [pc EXCEPT ![t] = "pended"] /\ retval' = [retval EXCEPT ![t] = EAGAIN]
  /\ timed' = [timed EXCEPT ![t] = ~forever] /\ timeout' = [timeout EXCEPT ![t] = ~forever]
  /\ UNCHANGED <<count, limit, firing>>

(* The same call in an interrupt handler, with K_NO_WAIT; -EBUSY changes   *)
(* nothing.                                                                *)
TakeIsr ==
  /\ count > 0 /\ count' = count - 1
  /\ UNCHANGED <<limit, wait_q, pc, timed, timeout, retval, firing>>

(* k_sem_give, from a thread or an interrupt handler.                      *)
GiveWakes ==
  /\ wait_q # <<>>
  /\ LET t == Head(wait_q)
     IN  /\ wait_q' = z_priq_dumb_remove(wait_q, t)
         /\ timeout' = [timeout EXCEPT ![t] = FALSE]
         /\ retval' = [retval EXCEPT ![t] = 0]
         /\ pc' = [pc EXCEPT ![t] = "done"]
  /\ UNCHANGED <<count, limit, timed, firing>>

(* Mutants: the limit is not looked at; waiters are not looked at.         *)
GiveCounts_no_limit ==
  /\ wait_q = <<>> /\ count' = count + 1
  /\ UNCHANGED <<limit, wait_q, pc, timed, timeout, retval, firing>>
GiveCounts_ignores_waiters ==
  /\ count' = IF count # limit THEN count + 1 ELSE count
  /\ UNCHANGED <<limit, wait_q, pc, timed, timeout, retval, firing>>

GiveCounts ==
  /\ wait_q = <<>>
  /\ count' = IF count # limit THEN count + 1 ELSE count
  /\ UNCHANGED <<limit, wait_q, pc, timed, timeout, retval, firing>>

(* Mutant: the aborted takes return success.                               *)
k_sem_reset_success ==
  /\ firing = NULL
  /\ count' = 0 /\ wait_q' = <<>>
  /\ timeout' = [t \in Threads |-> timeout[t] /\ t \notin Members(wait_q)]
  /\ retval' = [t \in Threads |-> IF t \in Members(wait_q) THEN 0 ELSE retval[t]]
  /\ pc' = [t \in Threads |-> IF t \in Members(wait_q) THEN "done" ELSE pc[t]]
  /\ UNCHANGED <<limit, timed, firing>>

(* k_sem_reset, from a thread: the loop empties the queue.                 *)
k_sem_reset ==
  /\ firing = NULL
  /\ count' = 0 /\ wait_q' = <<>>
  /\ timeout' = [t \in Threads |-> timeout[t] /\ t \notin Members(wait_q)]
  /\ retval' = [t \in Threads |-> IF t \in Members(wait_q) THEN EAGAIN ELSE retval[t]]
  /\ pc' = [t \in Threads |-> IF t \in Members(wait_q) THEN "done" ELSE pc[t]]
  /\ UNCHANGED <<limit, timed, firing>>

(* sys_clock_announce unlinks an expired timeout ...                       *)
Announce(t) ==
  /\ firing = NULL /\ timeout[t]
  /\ timeout' = [timeout EXCEPT ![t] = FALSE] /\ firing' = t
  /\ UNCHANGED <<count, limit, wait_q, pc, timed, retval>>

(* Mutant: the expired timeout is started again.                           *)
z_thread_timeout_periodic ==
  /\ firing # NULL /\ firing' = NULL
  /\ timeout' = [timeout EXCEPT ![firing] = firing \in Members(wait_q)]
  /\ UNCHANGED <<count, limit, wait_q, pc, timed, retval>>

(* ... and z_thread_timeout unpends the thread if it still is pended.      *)
z_thread_timeout ==
  /\ firing # NULL
  /\ IF firing \in Members(wait_q)
     THEN /\ wait_q' = z_priq_dumb_remove(wait_q, firing)
          /\ pc' = [pc EXCEPT ![firing] = "done"]
     ELSE UNCHANGED <<wait_q, pc>>
  /\ firing' = NULL
  /\ UNCHANGED <<count, limit, timed, timeout, retval>>

(* k_thread_abort on a user of the semaphore: halt_thread takes it off the *)
(* wait queue and aborts its timeout.                                      *)
Abort(t) ==
  /\ pc[t] # "dead"
  /\ wait_q' = z_priq_dumb_remove(wait_q, t)
  /\ timeout' = [timeout EXCEPT ![t] = FALSE]
  /\ pc' = [pc EXCEPT ![t] = "dead"]
  /\ UNCHANGED <<count, limit, timed, retval, firing>>

(* k_sem_take returns retval[t] to its caller.                             *)
TakeReturns(t) ==
  /\ pc[t] = "done" /\ firing = NULL
  /\ pc' = [pc EXCEPT ![t] = "idle"]
  /\ timed' = [timed EXCEPT ![t] = FALSE]
  /\ UNCHANGED <<count, limit, wait_q, timeout, retval, firing>>

Next ==
  \/ \E t \in Threads : \/ TakeAvailable(t) \/ TakeNoWait(t)
                        \/ TakePend(t, TRUE) \/ TakePend(t, FALSE)
                        \/ Announce(t) \/ Abort(t) \/ TakeReturns(t)
  \/ TakeIsr \/ GiveWakes \/ GiveCounts \/ k_sem_reset \/ z_thread_timeout

(* The timer interrupt goes on and reaches a timeout that stays linked.    *)
(* Nothing is assumed of the threads, which may never be scheduled again.  *)
Fairness ==
  /\ WF_vars(z_thread_timeout)
  /\ \A t \in Threads : SF_vars(Announce(t))

Spec == Init /\ [][Next]_vars
FairSpec == Spec /\ Fairness

-----------------------------------------------------------------------------
(* The type invariant: the count stays within the limit, so it cannot wrap *)
(* even with limit = K_SEM_MAX_LIMIT.                                      *)
TypeOK ==
  /\ limit \in 1 .. MaxLimit /\ count \in 0 .. limit
  /\ wait_q \in Seq(Threads)
  /\ pc \in [Threads -> {"idle", "pended", "done", "dead"}]
  /\ timed \in [Threads -> BOOLEAN] /\ timeout \in [Threads -> BOOLEAN]
  /\ retval \in [Threads -> {0, EAGAIN, EBUSY}]
  /\ firing \in Threads \cup {NULL}

(* The wait queue holds exactly the threads blocked in k_sem_take, each    *)
(* once, best priority first, whatever gives, expiries, resets and aborts  *)
(* came in between.                                                        *)
QueueInv ==
  /\ Distinct(wait_q) /\ Sorted(wait_q, Prio)
  /\ Members(wait_q) = {t \in Threads : pc[t] = "pended"}

(* No unit is left lying beside a sleeper: k_sem_give counts only when     *)
(* nobody waits, k_sem_take waits only when nothing is counted.            *)
NoLostUnit == count > 0 => wait_q = <<>>

(* A wait with a finite timeout has its timeout linked or its callback     *)
(* due, and a linked timeout belongs to such a wait: no expiry is lost and *)
(* none strikes a later call.                                              *)
TimedWaitArmed ==
  \A t \in Threads :
    /\ (pc[t] = "pended" /\ timed[t]) => (timeout[t] \/ firing = t)
    /\ timeout[t] => (pc[t] = "pended" /\ timed[t] /\ firing # t)

(* A blocked call has -EAGAIN prepared: it returns 0 only if a give put    *)
(* the 0 there (arch_swap, arch_thread_return_value_set).                  *)
PendedRetval == \A t \in Threads : pc[t] = "pended" => retval[t] = EAGAIN

IInv == TypeOK /\ QueueInv /\ NoLostUnit /\ TimedWaitArmed /\ PendedRetval

(* Each abstract outcome, from the program counter and the return value.   *)
OutcomeOf(t) ==
  CASE pc[t] = "dead" -> "dead"
    [] pc[t] = "done" /\ retval[t] = 0 -> "taken"
    [] pc[t] = "done" /\ retval[t] = EBUSY -> "busy"
    [] pc[t] = "done" /\ retval[t] = EAGAIN -> "again"
    [] OTHER -> "none"

Outcomes == [t \in Threads |-> OutcomeOf(t)]
Blocked == Members(wait_q)

Abs == INSTANCE AbsSem WITH avail <- count, blocked <- Blocked, outcome <- Outcomes

(* kernel.h on k_sem_take, k_sem_give and k_sem_reset: the list, timer and *)
(* return-register code behaves as the counting semaphore of AbsSem.       *)
ImplementsAbsSem == Abs!AbsSpec

(* A take with a finite timeout does not block for ever, even if nobody    *)
(* gives: its thread leaves the wait queue and is made ready.              *)
TimedTakeEnds ==
  \A t \in Threads : (pc[t] = "pended" /\ timed[t]) ~> pc[t] # "pended"
=============================================================================
