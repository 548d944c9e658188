----------------------------- MODULE KSemProofs -----------------------------
(***************************************************************************)
(* Proofs about the semaphore for every set of threads, every priorities   *)
(* and every limit: the inductive invariant IInv, and the refinement of    *)
(* AbsSem.                                                                 *)
(***************************************************************************)
EXTENDS KSem, PriQProofs

(* Every state k_sem_init can leave satisfies the invariant.               *)
LEMMA InitIInv == Init => IInv
<1> SUFFICES ASSUME Init PROVE IInv
  OBVIOUS
<1> USE KSemAssumption
<1>1. TypeOK
  BY DEF Init, k_sem_init, TypeOK, EAGAIN, EBUSY
<1>2. wait_q = <<>> /\ Members(wait_q) = {}
  BY DEF Init, k_sem_init, Members
<1>3. QueueInv
  BY <1>2 DEF QueueInv, Distinct, Sorted, Init
<1>4. QED
  BY <1>1, <1>2, <1>3 DEF Init, IInv, NoLostUnit, TimedWaitArmed, PendedRetval

(* The list operations on the wait queue keep it free of duplicates and    *)
(* sorted.                                                                 *)
LEMMA WaitqAdd ==
  ASSUME IInv, NEW t \in Threads, t \notin Members(wait_q)
  PROVE  LET new == z_priq_dumb_add(wait_q, t, Prio)
         IN  /\ new \in Seq(Threads) /\ Distinct(new) /\ Sorted(new, Prio)
             /\ Members(new) = Members(wait_q) \cup {t}
<1>1. wait_q \in Seq(Threads) /\ Distinct(wait_q) /\ Sorted(wait_q, Prio)
  BY DEF IInv, TypeOK, QueueInv
<1>2. Prio \in [Threads -> Int]
  BY KSemAssumption
<1>3. QED
  BY <1>1, <1>2, AddSpec

LEMMA WaitqRemove ==
  ASSUME IInv, NEW t \in Threads
  PROVE  LET new == z_priq_dumb_remove(wait_q, t)
         IN  /\ new \in Seq(Threads) /\ Distinct(new) /\ Sorted(new, Prio)
             /\ Members(new) = Members(wait_q) \ {t}
<1>1. wait_q \in Seq(Threads) /\ Distinct(wait_q) /\ Sorted(wait_q, Prio)
  BY DEF IInv, TypeOK, QueueInv
<1>2. Prio \in [Threads -> Int]
  BY KSemAssumption
<1>3. QED
  BY <1>1, <1>2, RemoveSpec

(* The thread k_sem_give picks: a waiter that no waiter outranks.          *)
LEMMA WaitqHead ==
  ASSUME IInv, wait_q # <<>>
  PROVE  /\ Head(wait_q) \in Members(wait_q) /\ Head(wait_q) \in Threads
         /\ \A x \in Members(wait_q) : Prio[Head(wait_q)] <= Prio[x]
<1>1. wait_q \in Seq(Threads) /\ Sorted(wait_q, Prio)
  BY DEF IInv, TypeOK, QueueInv
<1>2. Prio \in [Threads -> Int]
  BY KSemAssumption
<1>3. QED
  BY <1>1, <1>2, HeadIsBest

LEMMA WaitqEmpty ==
  ASSUME IInv
  PROVE  Members(wait_q) = {} <=> wait_q = <<>>
<1>1. wait_q \in Seq(Threads)
  BY DEF IInv, TypeOK
<1>2. QED
  BY <1>1, MembersEmpty

(* An empty queue satisfies every condition on queues.                     *)
LEMMA EmptyQueue ==
  /\ <<>> \in Seq(Threads) /\ Members(<<>>) = {}
  /\ Distinct(<<>>) /\ Sorted(<<>>, Prio)
<1>1. QED
  BY DEF Members, Distinct, Sorted

-----------------------------------------------------------------------------
(* Steps that leave the wait queue alone.                                  *)
LEMMA QuietStep ==
  ASSUME IInv,
         \/ \E t \in Threads : \/ TakeAvailable(t) \/ TakeNoWait(t)
                               \/ Announce(t) \/ TakeReturns(t)
         \/ TakeIsr \/ GiveCounts \/ UNCHANGED vars
  PROVE  IInv'
<1> USE KSemAssumption DEF IInv
<1>1. ASSUME NEW t \in Threads, TakeAvailable(t) PROVE IInv'
  <2>1. TypeOK' /\ NoLostUnit'
    BY <1>1 DEF TakeAvailable, TypeOK, NoLostUnit, Free
  <2>2. QueueInv' /\ TimedWaitArmed' /\ PendedRetval'
    BY <1>1 DEF TakeAvailable, TypeOK, QueueInv, TimedWaitArmed, PendedRetval, Free
  <2>3. QED
    BY <2>1, <2>2
<1>2. ASSUME NEW t \in Threads, TakeNoWait(t) PROVE IInv'
  <2>1. TypeOK' /\ NoLostUnit'
    BY <1>2 DEF TakeNoWait, TypeOK, NoLostUnit, Free
  <2>2. QueueInv' /\ TimedWaitArmed' /\ PendedRetval'
    BY <1>2 DEF TakeNoWait, TypeOK, QueueInv, TimedWaitArmed, PendedRetval, Free
  <2>3. QED
    BY <2>1, <2>2
<1>3. ASSUME NEW t \in Threads, Announce(t) PROVE IInv'
  BY <1>3 DEF Announce, TypeOK, QueueInv, NoLostUnit, TimedWaitArmed, PendedRetval
<1>4. ASSUME NEW t \in Threads, TakeReturns(t) PROVE IInv'
  <2>1. TypeOK' /\ NoLostUnit'
    BY <1>4 DEF TakeReturns, TypeOK, NoLostUnit
  <2>2. QueueInv' /\ TimedWaitArmed' /\ PendedRetval'
    BY <1>4 DEF TakeReturns, TypeOK, QueueInv, TimedWaitArmed, PendedRetval
  <2>3. QED
    BY <2>1, <2>2
<1>5. CASE TakeIsr
  BY <1>5 DEF TakeIsr, TypeOK, QueueInv, NoLostUnit, TimedWaitArmed, PendedRetval
<1>6. CASE GiveCounts
  BY <1>6 DEF GiveCounts, TypeOK, QueueInv, NoLostUnit, TimedWaitArmed, PendedRetval
<1>7. CASE UNCHANGED vars
  BY <1>7 DEF vars, TypeOK, QueueInv, NoLostUnit, TimedWaitArmed, PendedRetval
<1>8. QED
  BY <1>1, <1>2, <1>3, <1>4, <1>5, <1>6, <1>7

(* A thread joins the wait queue.                                          *)
LEMMA PendStep ==
  ASSUME IInv, NEW t \in Threads, NEW forever \in BOOLEAN, TakePend(t, forever)
  PROVE  IInv'
<1> USE KSemAssumption DEF IInv
<1>1. t \notin Members(wait_q)
  BY DEF TakePend, Free, QueueInv
<1>2. /\ wait_q' \in Seq(Threads) /\ Distinct(wait_q') /\ Sorted(wait_q', Prio)
      /\ Members(wait_q') = Members(wait_q) \cup {t}
  BY <1>1, WaitqAdd DEF TakePend
<1>3. TypeOK'
  BY <1>2 DEF TakePend, TypeOK
<1>4. QueueInv'
  BY <1>2 DEF TakePend, QueueInv, TypeOK
<1>5. NoLostUnit'
  BY DEF TakePend, NoLostUnit, TypeOK
<1>6. TimedWaitArmed' /\ PendedRetval'
  BY DEF TakePend, Free, TimedWaitArmed, PendedRetval, TypeOK
<1>7. QED
  BY <1>3, <1>4, <1>5, <1>6

(* k_sem_give hands its unit to the head of the queue.                     *)
LEMMA GiveStep ==
  ASSUME IInv, GiveWakes
  PROVE  IInv'
<1> USE KSemAssumption DEF IInv
<1> DEFINE t == Head(wait_q)
<1>1. wait_q # <<>> /\ t \in Members(wait_q) /\ t \in Threads
  BY WaitqHead DEF GiveWakes
<1>2. /\ wait_q' \in Seq(Threads) /\ Distinct(wait_q') /\ Sorted(wait_q', Prio)
      /\ Members(wait_q') = Members(wait_q) \ {t}
  BY <1>1, WaitqRemove DEF GiveWakes
<1>3. /\ timeout' = [timeout EXCEPT ![t] = FALSE]
      /\ retval' = [retval EXCEPT ![t] = 0]
      /\ pc' = [pc EXCEPT ![t] = "done"]
      /\ UNCHANGED <<count, limit, timed, firing>>
  BY DEF GiveWakes
<1> HIDE DEF t
<1>4. TypeOK'
  BY <1>1, <1>2, <1>3 DEF TypeOK
<1>5. QueueInv'
  BY <1>1, <1>2, <1>3 DEF QueueInv, TypeOK
<1>6. NoLostUnit'
  BY <1>1, <1>3 DEF NoLostUnit, TypeOK
<1>7. TimedWaitArmed' /\ PendedRetval'
  BY <1>1, <1>3 DEF TimedWaitArmed, PendedRetval, TypeOK
<1>8. QED
  BY <1>4, <1>5, <1>6, <1>7

(* The timeout callback takes its thread off the queue, if it still is on  *)
(* it.                                                                     *)
LEMMA TimeoutStep ==
  ASSUME IInv, z_thread_timeout
  PROVE  IInv'
<1> USE KSemAssumption DEF IInv
<1>0. firing \in Threads
  BY DEF z_thread_timeout, TypeOK
<1>1. CASE firing \in Members(wait_q)
  <2>1. /\ wait_q' \in Seq(Threads) /\ Distinct(wait_q') /\ Sorted(wait_q', Prio)
        /\ Members(wait_q') = Members(wait_q) \ {firing}
    BY <1>0, <1>1, WaitqRemove DEF z_thread_timeout
  <2>2. TypeOK'
    BY <1>0, <1>1, <2>1 DEF z_thread_timeout, TypeOK
  <2>3. QueueInv'
    BY <1>0, <1>1, <2>1 DEF z_thread_timeout, QueueInv, TypeOK
  <2>4. NoLostUnit'
    <3>1. wait_q # <<>>
      BY <1>1, EmptyQueue
    <3>2. QED
      BY <3>1 DEF z_thread_timeout, NoLostUnit
  <2>5. TimedWaitArmed' /\ PendedRetval'
    BY <1>0, <1>1 DEF z_thread_timeout, TimedWaitArmed, PendedRetval, TypeOK
  <2>6. QED
    BY <2>2, <2>3, <2>4, <2>5
<1>2. CASE firing \notin Members(wait_q)
  <2>1. UNCHANGED <<wait_q, pc, count, limit, timed, timeout, retval>> /\ firing' = NULL
    BY <1>2 DEF z_thread_timeout
  <2>2. TypeOK' /\ QueueInv' /\ NoLostUnit' /\ PendedRetval'
    BY <2>1 DEF TypeOK, QueueInv, NoLostUnit, PendedRetval
  <2>3. pc[firing] # "pended"
    BY <1>0, <1>2 DEF QueueInv
  <2>4. TimedWaitArmed'
    BY <2>1, <2>3 DEF TimedWaitArmed
  <2>5. QED
    BY <2>2, <2>4
<1>3. QED
  BY <1>1, <1>2

(* k_thread_abort takes a waiter off the queue with its timeout.           *)
LEMMA AbortStep ==
  ASSUME IInv, NEW t \in Threads, Abort(t)
  PROVE  IInv'
<1> USE KSemAssumption DEF IInv
<1>1. /\ wait_q' \in Seq(Threads) /\ Distinct(wait_q') /\ Sorted(wait_q', Prio)
      /\ Members(wait_q') = Members(wait_q) \ {t}
  BY WaitqRemove DEF Abort
<1>2. TypeOK'
  BY <1>1 DEF Abort, TypeOK
<1>3. QueueInv'
  BY <1>1 DEF Abort, QueueInv, TypeOK
<1>4. NoLostUnit'
  <2>1. wait_q = <<>> => Members(wait_q) = {}
    BY EmptyQueue
  <2>2. wait_q = <<>> => wait_q' = <<>>
    BY <2>1 DEF Abort, z_priq_dumb_remove
  <2>3. QED
    BY <2>2 DEF Abort, NoLostUnit
<1>5. TimedWaitArmed' /\ PendedRetval'
  BY DEF Abort, TimedWaitArmed, PendedRetval, TypeOK
<1>6. QED
  BY <1>2, <1>3, <1>4, <1>5

(* k_sem_reset empties the queue: nobody is left pended or armed.          *)
LEMMA ResetStep ==
  ASSUME IInv, k_sem_reset
  PROVE  IInv'
<1> USE KSemAssumption DEF IInv
<1>1. \A t \in Threads : t \in Members(wait_q) <=> pc[t] = "pended"
  BY DEF QueueInv
<1>2. /\ wait_q' = <<>> /\ wait_q' \in Seq(Threads) /\ Members(wait_q') = {}
      /\ Distinct(wait_q') /\ Sorted(wait_q', Prio)
  BY EmptyQueue DEF k_sem_reset
<1>3. \A t \in Threads : pc'[t] # "pended" /\ ~ timeout'[t]
  BY <1>1 DEF k_sem_reset, TypeOK, TimedWaitArmed
<1>4. TypeOK'
  BY <1>2 DEF k_sem_reset, TypeOK
<1>5. QueueInv'
  BY <1>2, <1>3 DEF QueueInv
<1>6. NoLostUnit' /\ TimedWaitArmed' /\ PendedRetval'
  BY <1>2, <1>3 DEF NoLostUnit, TimedWaitArmed, PendedRetval
<1>7. QED
  BY <1>4, <1>5, <1>6

-----------------------------------------------------------------------------
(* Every state of the semaphore satisfies IInv, for any number of threads: *)
(* the count is within its limit, the queue is exactly the blocked         *)
(* threads in priority order, no unit lies beside a waiter, no expiry is   *)
(* lost or strikes a later call (k_sem_take, k_sem_give, k_sem_reset).     *)
THEOREM SemInvariant == Spec => []IInv
<1>1. IInv /\ [Next]_vars => IInv'
  <2> SUFFICES ASSUME IInv, [Next]_vars PROVE IInv'
    OBVIOUS
  <2>1. CASE \/ \E t \in Threads : \/ TakeAvailable(t) \/ TakeNoWait(t)
                                  \/ Announce(t) \/ TakeReturns(t)
             \/ TakeIsr \/ GiveCounts \/ UNCHANGED vars
    BY <2>1, QuietStep
  <2>2. CASE \E t \in Threads : TakePend(t, TRUE) \/ TakePend(t, FALSE)
    BY <2>2, PendStep
  <2>3. CASE \E t \in Threads : Abort(t)
    BY <2>3, AbortStep
  <2>4. CASE GiveWakes
    BY <2>4, GiveStep
  <2>5. CASE z_thread_timeout
    BY <2>5, TimeoutStep
  <2>6. CASE k_sem_reset
    BY <2>6, ResetStep
  <2>7. QED
    BY <2>1, <2>2, <2>3, <2>4, <2>5, <2>6 DEF Next
<1>2. QED
  BY <1>1, InitIInv, PTL DEF Spec

(* The parts the runs check.  k_sem_give and k_sem_reset: the count stays  *)
(* within its limit.                                                       *)
THEOREM SemTypeOK == Spec => []TypeOK
<1>1. IInv => TypeOK
  BY DEF IInv
<1>2. QED
  BY <1>1, SemInvariant, PTL

(* k_sem_take, give, reset and expiries: the wait queue holds exactly the  *)
(* pended threads, once each and sorted.                                   *)
THEOREM SemQueue == Spec => []QueueInv
<1>1. IInv => QueueInv
  BY DEF IInv
<1>2. QED
  BY <1>1, SemInvariant, PTL

(* k_sem_give: no unit is left beside a waiter.                            *)
THEOREM SemNoLostUnit == Spec => []NoLostUnit
<1>1. IInv => NoLostUnit
  BY DEF IInv
<1>2. QED
  BY <1>1, SemInvariant, PTL

(* z_pend_curr and z_unpend_first_thread: every timed wait has its timeout *)
(* running, and nobody else has.                                           *)
THEOREM SemTimedWait == Spec => []TimedWaitArmed
<1>1. IInv => TimedWaitArmed
  BY DEF IInv
<1>2. QED
  BY <1>1, SemInvariant, PTL

-----------------------------------------------------------------------------
(* What the mapped outcome of a thread is, before and after a step.        *)
LEMMA OutcomeCases ==
  ASSUME NEW t \in Threads
  PROVE  /\ pc[t] = "dead" => OutcomeOf(t) = "dead"
         /\ pc[t] = "done" /\ retval[t] = 0 => OutcomeOf(t) = "taken"
         /\ pc[t] = "done" /\ retval[t] = EBUSY => OutcomeOf(t) = "busy"
         /\ pc[t] = "done" /\ retval[t] = EAGAIN => OutcomeOf(t) = "again"
         /\ pc[t] = "idle" \/ pc[t] = "pended" => OutcomeOf(t) = "none"
<1>1. QED
  BY DEF OutcomeOf, EAGAIN, EBUSY

LEMMA OutcomeCasesPrime ==
  ASSUME NEW t \in Threads
  PROVE  /\ pc'[t] = "dead" => OutcomeOf(t)' = "dead"
         /\ pc'[t] = "done" /\ retval'[t] = 0 => OutcomeOf(t)' = "taken"
         /\ pc'[t] = "done" /\ retval'[t] = EBUSY => OutcomeOf(t)' = "busy"
         /\ pc'[t] = "done" /\ retval'[t] = EAGAIN => OutcomeOf(t)' = "again"
         /\ pc'[t] = "idle" \/ pc'[t] = "pended" => OutcomeOf(t)' = "none"
         /\ pc'[t] = pc[t] /\ retval'[t] = retval[t] => OutcomeOf(t)' = OutcomeOf(t)
<1>1. QED
  BY DEF OutcomeOf, EAGAIN, EBUSY

(* A step that touches one thread changes one outcome; one that touches    *)
(* none changes none.                                                      *)
LEMMA OneOutcome ==
  ASSUME NEW t \in Threads, NEW x, OutcomeOf(t)' = x,
         \A u \in Threads \ {t} : pc'[u] = pc[u] /\ retval'[u] = retval[u]
  PROVE  Outcomes' = [Outcomes EXCEPT ![t] = x]
<1>1. \A u \in Threads \ {t} : OutcomeOf(u)' = OutcomeOf(u)
  BY OutcomeCasesPrime
<1>2. QED
  BY <1>1 DEF Outcomes

LEMMA NoOutcome ==
  ASSUME \A u \in Threads : OutcomeOf(u)' = OutcomeOf(u)
  PROVE  Outcomes' = Outcomes
<1>1. QED
  BY DEF Outcomes

(* Initial states map to initial states.                                   *)
LEMMA RefineInit == Init => Abs!AbsInit
<1> SUFFICES ASSUME Init PROVE Abs!AbsInit
  OBVIOUS
<1>1. Blocked = {}
  BY EmptyQueue DEF Init, k_sem_init, Blocked
<1>2. Outcomes = [t \in Threads |-> "none"]
  BY OutcomeCases DEF Init, Outcomes
<1>3. limit \in 1 .. MaxLimit /\ count \in 0 .. limit
  BY KSemAssumption DEF Init, k_sem_init
<1>4. QED
  BY <1>1, <1>2, <1>3 DEF Abs!AbsInit

(* The steps of k_sem_take.                                                *)
LEMMA RefineTake ==
  ASSUME IInv, NEW t \in Threads,
         \/ TakeAvailable(t) \/ TakeNoWait(t) \/ TakeReturns(t)
         \/ TakePend(t, TRUE) \/ TakePend(t, FALSE)
  PROVE  Abs!AbsNext
<1> USE DEF IInv
<1>0. /\ pc \in [Threads -> {"idle", "pended", "done", "dead"}]
      /\ retval \in [Threads -> {0, EAGAIN, EBUSY}]
      /\ Blocked = {u \in Threads : pc[u] = "pended"}
  BY DEF TypeOK, QueueInv, Blocked
<1>1. pc[t] = "idle" => Abs!Free(t)
  BY <1>0, OutcomeCases DEF Abs!Free, Outcomes
<1>2. CASE TakeAvailable(t)
  <2>1. OutcomeOf(t)' = "taken"
    BY <1>0, <1>2, OutcomeCasesPrime DEF TakeAvailable
  <2>2. Outcomes' = [Outcomes EXCEPT ![t] = "taken"]
    BY <1>0, <1>2, <2>1, OneOutcome DEF TakeAvailable
  <2>3. Abs!Take(t)
    BY <1>1, <1>2, <2>2 DEF TakeAvailable, Free, Abs!Take, Blocked
  <2>4. QED
    BY <2>3 DEF Abs!AbsNext
<1>3. CASE TakeNoWait(t)
  <2>1. OutcomeOf(t)' = "busy"
    BY <1>0, <1>3, OutcomeCasesPrime DEF TakeNoWait
  <2>2. Outcomes' = [Outcomes EXCEPT ![t] = "busy"]
    BY <1>0, <1>3, <2>1, OneOutcome DEF TakeNoWait
  <2>3. Abs!Refuse(t)
    BY <1>1, <1>3, <2>2 DEF TakeNoWait, Free, Abs!Refuse, Blocked
  <2>4. QED
    BY <2>3 DEF Abs!AbsNext
<1>4. CASE TakeReturns(t)
  <2>1. OutcomeOf(t)' = "none"
    BY <1>0, <1>4, OutcomeCasesPrime DEF TakeReturns
  <2>2. Outcomes' = [Outcomes EXCEPT ![t] = "none"]
    BY <1>0, <1>4, <2>1, OneOutcome DEF TakeReturns
  <2>3. Outcomes[t] \in {"taken", "busy", "again"}
    BY <1>0, <1>4, OutcomeCases DEF TakeReturns, Outcomes
  <2>4. Abs!Finish(t)
    BY <1>4, <2>2, <2>3 DEF TakeReturns, Abs!Finish, Blocked
  <2>5. QED
    BY <2>4 DEF Abs!AbsNext
<1>5. ASSUME NEW forever \in BOOLEAN, TakePend(t, forever) PROVE Abs!AbsNext
  <2>1. t \notin Members(wait_q)
    BY <1>5 DEF TakePend, Free, QueueInv
  <2>2. Blocked' = Blocked \cup {t}
    BY <1>5, <2>1, WaitqAdd DEF TakePend, Blocked
  <2>3. OutcomeOf(t) = "none" /\ OutcomeOf(t)' = "none"
    BY <1>0, <1>5, OutcomeCases, OutcomeCasesPrime DEF TakePend, Free
  <2>4. \A u \in Threads \ {t} : OutcomeOf(u)' = OutcomeOf(u)
    BY <1>0, <1>5, OutcomeCasesPrime DEF TakePend
  <2>5. Outcomes' = Outcomes
    BY <2>3, <2>4, NoOutcome
  <2>6. Abs!Block(t)
    BY <1>1, <1>5, <2>2, <2>5 DEF TakePend, Free, Abs!Block
  <2>7. QED
    BY <2>6 DEF Abs!AbsNext
<1>6. QED
  BY <1>2, <1>3, <1>4, <1>5

(* k_sem_give and an interrupt handler's take.                             *)
LEMMA RefineGive ==
  ASSUME IInv, GiveWakes \/ GiveCounts \/ TakeIsr
  PROVE  Abs!AbsNext
<1> USE DEF IInv
<1>1. CASE GiveWakes
  <2>0. PICK t \in Threads : t = Head(wait_q)
    BY <1>1, WaitqHead DEF GiveWakes
  <2>1. t \in Blocked /\ \A u \in Blocked : Prio[t] <= Prio[u]
    BY <1>1, <2>0, WaitqHead DEF GiveWakes, Blocked
  <2>2. Blocked' = Blocked \ {t}
    BY <1>1, <2>0, WaitqRemove DEF GiveWakes, Blocked
  <2>3. /\ pc' = [pc EXCEPT ![t] = "done"] /\ retval' = [retval EXCEPT ![t] = 0]
        /\ UNCHANGED <<count, limit>>
    BY <1>1, <2>0 DEF GiveWakes
  <2>4. OutcomeOf(t)' = "taken"
    BY <2>1, <2>3, OutcomeCasesPrime DEF TypeOK
  <2>5. Outcomes' = [Outcomes EXCEPT ![t] = "taken"]
    BY <2>1, <2>3, <2>4, OneOutcome DEF TypeOK
  <2>6. Abs!Grant(t)
    BY <2>1, <2>2, <2>3, <2>5 DEF Abs!Grant
  <2>7. QED
    BY <2>1, <2>6 DEF Abs!AbsNext
<1>2. CASE GiveCounts
  <2>1. Blocked = {} /\ Blocked' = {}
    BY <1>2, WaitqEmpty DEF GiveCounts, Blocked
  <2>2. Outcomes' = Outcomes
    BY <1>2, OutcomeCasesPrime, NoOutcome DEF GiveCounts
  <2>3. Abs!Post
    BY <1>2, <2>1, <2>2 DEF GiveCounts, Abs!Post
  <2>4. QED
    BY <2>3 DEF Abs!AbsNext
<1>3. CASE TakeIsr
  <2>1. Outcomes' = Outcomes
    BY <1>3, OutcomeCasesPrime, NoOutcome DEF TakeIsr
  <2>2. Abs!TakeNoOwner
    BY <1>3, <2>1 DEF TakeIsr, Abs!TakeNoOwner, Blocked
  <2>3. QED
    BY <2>2 DEF Abs!AbsNext
<1>4. QED
  BY <1>1, <1>2, <1>3

(* The two steps of an expiry: unlinking is invisible, the callback        *)
(* expires the wait or, when a give came first, does nothing.              *)
LEMMA RefineTimeout ==
  ASSUME IInv, z_thread_timeout \/ \E t \in Threads : Announce(t)
  PROVE  Abs!AbsNext \/ UNCHANGED Abs!absvars
<1> USE DEF IInv
<1>1. CASE \E t \in Threads : Announce(t)
  <2>1. UNCHANGED <<count, limit, wait_q, pc, retval>>
    BY <1>1 DEF Announce
  <2>2. Outcomes' = Outcomes
    BY <2>1, OutcomeCasesPrime, NoOutcome
  <2>3. QED
    BY <2>1, <2>2 DEF Abs!absvars, Blocked
<1>2. CASE z_thread_timeout /\ firing \notin Members(wait_q)
  <2>1. UNCHANGED <<count, limit, wait_q, pc, retval>>
    BY <1>2 DEF z_thread_timeout
  <2>2. Outcomes' = Outcomes
    BY <2>1, OutcomeCasesPrime, NoOutcome
  <2>3. QED
    BY <2>1, <2>2 DEF Abs!absvars, Blocked
<1>3. CASE z_thread_timeout /\ firing \in Members(wait_q)
  <2>1. firing \in Threads /\ firing \in Blocked /\ retval[firing] = EAGAIN
    BY <1>3 DEF z_thread_timeout, TypeOK, QueueInv, PendedRetval, Blocked
  <2>2. Blocked' = Blocked \ {firing}
    BY <1>3, <2>1, WaitqRemove DEF z_thread_timeout, Blocked
  <2>3. Outcomes' = [Outcomes EXCEPT ![firing] = "again"]
    <3> DEFINE t == firing
    <3>1. /\ pc' = [pc EXCEPT ![t] = "done"] /\ retval' = retval
          /\ t \in Threads /\ retval[t] = EAGAIN
      BY <1>3, <2>1 DEF z_thread_timeout
    <3>2. PICK u \in Threads : u = t
      BY <3>1
    <3>3. /\ pc' = [pc EXCEPT ![u] = "done"] /\ retval' = retval
          /\ retval[u] = EAGAIN
      BY <3>1, <3>2
    <3>4. OutcomeOf(u)' = "again"
      BY <3>3, OutcomeCasesPrime DEF TypeOK
    <3>5. Outcomes' = [Outcomes EXCEPT ![u] = "again"]
      BY <3>3, <3>4, OneOutcome DEF TypeOK
    <3>6. QED
      BY <3>2, <3>5
  <2>4. Abs!Expire(firing)
    BY <1>3, <2>1, <2>2, <2>3 DEF z_thread_timeout, Abs!Expire
  <2>5. QED
    BY <2>1, <2>4 DEF Abs!AbsNext
<1>4. QED
  BY <1>1, <1>2, <1>3

(* k_thread_abort and k_sem_reset.                                         *)
LEMMA RefineAbort ==
  ASSUME IInv, NEW t \in Threads, Abort(t)
  PROVE  Abs!AbsNext
<1> USE DEF IInv
<1>1. Blocked' = Blocked \ {t}
  BY WaitqRemove DEF Abort, Blocked
<1>2. OutcomeOf(t)' = "dead"
  BY OutcomeCasesPrime DEF Abort, TypeOK
<1>3. Outcomes' = [Outcomes EXCEPT ![t] = "dead"]
  BY <1>2, OneOutcome DEF Abort, TypeOK
<1>4. Abs!Kill(t)
  BY <1>1, <1>3 DEF Abort, Abs!Kill
<1>5. QED
  BY <1>4 DEF Abs!AbsNext

LEMMA RefineReset ==
  ASSUME IInv, k_sem_reset
  PROVE  Abs!AbsNext
<1> USE DEF IInv
<1>1. Blocked' = {}
  BY EmptyQueue DEF k_sem_reset, Blocked
<1>2. ASSUME NEW t \in Threads
      PROVE  OutcomeOf(t)' = IF t \in Blocked THEN "again" ELSE OutcomeOf(t)
  <2>1. CASE t \in Blocked
    BY <2>1, OutcomeCasesPrime DEF k_sem_reset, Blocked
  <2>2. CASE t \notin Blocked
    BY <2>2, OutcomeCasesPrime DEF k_sem_reset, Blocked
  <2>3. QED
    BY <2>1, <2>2
<1>3. Outcomes' = [t \in Threads |-> IF t \in Blocked THEN "again" ELSE Outcomes[t]]
  BY <1>2 DEF Outcomes
<1>4. Abs!Reset
  BY <1>1, <1>3 DEF k_sem_reset, Abs!Reset
<1>5. QED
  BY <1>4 DEF Abs!AbsNext

(* The semaphore of sem.c, with its queue, its two-step timeouts and its   *)
(* return-value register, implements the counting semaphore of AbsSem.     *)
THEOREM SemRefinement == Spec => ImplementsAbsSem
<1>1. IInv /\ [Next]_vars => [Abs!AbsNext]_(Abs!absvars)
  <2> SUFFICES ASSUME IInv, [Next]_vars
               PROVE  Abs!AbsNext \/ UNCHANGED Abs!absvars
    OBVIOUS
  <2>1. CASE \E t \in Threads : \/ TakeAvailable(t) \/ TakeNoWait(t) \/ TakeReturns(t)
                              \/ TakePend(t, TRUE) \/ TakePend(t, FALSE)
    BY <2>1, RefineTake
  <2>2. CASE GiveWakes \/ GiveCounts \/ TakeIsr
    BY <2>2, RefineGive
  <2>3. CASE z_thread_timeout \/ \E t \in Threads : Announce(t)
    BY <2>3, RefineTimeout
  <2>4. CASE \E t \in Threads : Abort(t)
    BY <2>4, RefineAbort
  <2>5. CASE k_sem_reset
    BY <2>5, RefineReset
  <2>6. CASE UNCHANGED vars
    <3>1. Outcomes' = Outcomes
      BY <2>6, OutcomeCasesPrime, NoOutcome DEF vars
    <3>2. QED
      BY <2>6, <3>1 DEF vars, Abs!absvars, Blocked
  <2>7. QED
    BY <2>1, <2>2, <2>3, <2>4, <2>5, <2>6 DEF Next
<1>2. QED
  BY <1>1, RefineInit, SemInvariant, PTL DEF Spec, ImplementsAbsSem, Abs!AbsSpec
=============================================================================
