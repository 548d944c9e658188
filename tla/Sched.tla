-------------------------------- MODULE Sched --------------------------------
(***************************************************************************)
(* The uniprocessor thread scheduler of the Zephyr kernel that the demo    *)
(* image links: kernel/sched.c, kernel/timeslicing.c, kernel/include/      *)
(* kthread.h and kswap.h, with the Cortex-M context switch under it.       *)
(*                                                                         *)
(* A kernel critical section (the code between k_spin_lock and the unlock  *)
(* or swap that ends it) runs with interrupts masked and is one step.      *)
(* Between the sections of a call anything may happen: interrupts, the     *)
(* timer interrupt, and the threads they make the scheduler switch to.     *)
(* Blocking does not switch: arch_swap only pends the PendSV exception     *)
(* (CONFIG_SWAP_NONATOMIC), so an interrupt can find _current already on a *)
(* wait queue or asleep.  That window is the variable pendsv.              *)
(***************************************************************************)
EXTENDS PriQ, FiniteSets

CONSTANTS
  Threads,       \* the application threads
  Main,          \* the thread running when the system starts
  Idle,          \* the idle thread, never on the run queue
  Objs,          \* wait queues of kernel objects (semaphores, queues, ...)
  NULL,          \* no thread, no wait queue
  SliceTimer,    \* the time slice timeout, as an element of the timeout list
  InitPrio,      \* base.prio each thread is created with
  Prios,         \* the priorities k_thread_priority_set may be given
  MaxLock,       \* bound on the nesting of k_sched_lock
  SliceMaxPrio,  \* slice_max_prio
  NestedISR,     \* TRUE: an interrupt may preempt the timer interrupt
  Ops            \* the calls the application makes

ASSUME SchedAssumption ==
  /\ IsFiniteSet(Threads) /\ Main \in Threads
  /\ Threads \cap Objs = {}
  /\ {Idle, NULL, SliceTimer} \cap (Threads \cup Objs) = {}
  /\ Cardinality({Idle, NULL, SliceTimer}) = 3
  /\ Prios \subseteq Int /\ InitPrio \in [Threads -> Int]
  /\ MaxLock \in Nat /\ SliceMaxPrio \in Int /\ NestedISR \in BOOLEAN

VARIABLES
  k,        \* the scheduler's state, see KernelState
  call,     \* call[t]: the API call t is in the middle of
  pendsv,   \* a context switch is pending and not yet taken
  tick,     \* sys_clock_announce is running in the timer interrupt
  firing,   \* the timeout it has unlinked and whose callback is due
  susp,     \* ghost: threads suspended by k_thread_suspend, not resumed
  finite,   \* ghost: threads whose current wait was given a finite timeout
  yielded   \* ghost: _current gave the CPU up with k_yield

vars == <<k, call, pendsv, tick, firing, susp, finite, yielded>>

EAGAIN == -11

(* thread_state bits.  _THREAD_DUMMY, _ABORTING and _SUSPENDING belong to  *)
(* the boot thread and to SMP.                                             *)
Preventing == {"PENDING", "PRESTART", "DEAD", "SUSPENDED"}
StateBits == Preventing \cup {"QUEUED"}

(* Each thread's join queue is named by the thread itself.                 *)
WaitQs == Objs \cup Threads

KernelState ==
  [state : [Threads -> SUBSET StateBits], prio : [Threads -> Int],
   sched_locked : [Threads -> 0 .. MaxLock],
   timeout : [Threads -> BOOLEAN],             \* base.timeout is linked
   pended_on : [Threads -> WaitQs \cup {NULL}],
   waitq : [WaitQs -> Seq(Threads)], runq : Seq(Threads),
   current : Threads \cup {Idle}, cache : Threads \cup {Idle},
   retval : [Threads -> {0, EAGAIN}],          \* arch.swap_return_value
   pending_current : Threads \cup {NULL},
   slicing : BOOLEAN,                          \* slice_ticks # 0
   slice_timeout : BOOLEAN,                    \* slice_timeouts[0] is linked
   slice_expired : BOOLEAN,
   corrupt : BOOLEAN]                          \* an unlinked node was removed

NoCall == [op |-> "none", arg |-> NULL]
Calls == {NoCall} \cup [op : {"suspend", "wakeup1", "wakeup_look", "wakeup2", "join"}, arg : Threads]

-----------------------------------------------------------------------------
(* Predicates of kthread.h and timeslicing.c on a scheduler state s.       *)

z_is_thread_prevented_from_running(s, t) ==
  t # Idle /\ s.state[t] \cap Preventing # {}

z_is_thread_timeout_active(s, t) == t # Idle /\ s.timeout[t]

z_is_thread_ready(s, t) ==
  ~ z_is_thread_prevented_from_running(s, t) /\ ~ z_is_thread_timeout_active(s, t)

z_is_thread_queued(s, t) == t # Idle /\ "QUEUED" \in s.state[t]

(* base.preempt <= _PREEMPT_THRESHOLD: a priority that is not negative and *)
(* no scheduler lock.                                                      *)
thread_is_preemptible(s, t) ==
  t = Idle \/ (s.prio[t] >= 0 /\ s.sched_locked[t] = 0)

thread_is_sliceable(s, t) ==
  /\ t # Idle
  /\ thread_is_preemptible(s, t)
  /\ s.slicing
  /\ s.prio[t] >= SliceMaxPrio
  /\ ~ z_is_thread_prevented_from_running(s, t)

should_preempt(s, thread, preempt_ok) ==
  \/ preempt_ok
  \/ z_is_thread_prevented_from_running(s, s.current)
  \/ z_is_thread_timeout_active(s, thread)
  \/ thread_is_preemptible(s, s.current)

-----------------------------------------------------------------------------
(* State transformers: one per static function of the scheduler, each from *)
(* a scheduler state to the state it leaves, called with the lock held.    *)

next_up(s) == IF s.runq = <<>> THEN Idle ELSE Head(s.runq)

z_reset_time_slice(s, t) ==
  [s EXCEPT !.slice_expired = FALSE, !.slice_timeout = thread_is_sliceable(s, t)]

(* Mutant: the best queued thread is taken, preemptible _current or not.   *)
update_cache_always_best(s, preempt_ok) == [s EXCEPT !.cache = next_up(s)]

update_cache(s, preempt_ok) ==
  LET thread == next_up(s)
  IN  IF should_preempt(s, thread, preempt_ok)
      THEN [(IF thread # s.current THEN z_reset_time_slice(s, thread) ELSE s)
              EXCEPT !.cache = thread]
      ELSE [s EXCEPT !.cache = s.current]

queue_thread(s, t) ==
  [s EXCEPT !.state[t] = @ \cup {"QUEUED"},
            !.runq = z_priq_dumb_add(@, t, s.prio)]

dequeue_thread(s, t) ==
  [s EXCEPT !.state[t] = @ \ {"QUEUED"},
            !.corrupt = @ \/ t \notin Members(s.runq),
            !.runq = z_priq_dumb_remove(@, t)]

DequeueIfQueued(s, t) == IF z_is_thread_queued(s, t) THEN dequeue_thread(s, t) ELSE s

(* Mutant: the thread is queued again without being taken off first.       *)
move_thread_to_end_queued_twice(s, t) == update_cache(queue_thread(s, t), t = s.current)

move_thread_to_end_of_prio_q(s, t) ==
  update_cache(queue_thread(DequeueIfQueued(s, t), t), t = s.current)

ready_thread(s, t) ==
  IF ~ z_is_thread_queued(s, t) /\ z_is_thread_ready(s, t)
  THEN update_cache(queue_thread(s, t), FALSE)
  ELSE s

unready_thread(s, t) == update_cache(DequeueIfQueued(s, t), t = s.current)

add_to_waitq_locked(s, t, wait_q) ==
  [unready_thread(s, t) EXCEPT
     !.state[t] = @ \cup {"PENDING"},
     !.pended_on[t] = wait_q,
     !.waitq[wait_q] = z_priq_dumb_add(@, t, s.prio)]

(* add_thread_timeout: K_FOREVER links nothing.                            *)
add_thread_timeout(s, t, forever) == [s EXCEPT !.timeout[t] = @ \/ ~forever]

z_abort_thread_timeout(s, t) == [s EXCEPT !.timeout[t] = FALSE]

(* Mutant: the thread still points to the queue it left.                   *)
unpend_thread_keeps_queue(s, t) ==
  [s EXCEPT !.waitq[s.pended_on[t]] = z_priq_dumb_remove(@, t), !.state[t] = @ \ {"PENDING"}]

unpend_thread_no_timeout(s, t) ==
  [s EXCEPT !.waitq[s.pended_on[t]] = z_priq_dumb_remove(@, t),
            !.state[t] = @ \ {"PENDING"},
            !.pended_on[t] = NULL]

UnpendIfPended(s, t) ==
  IF s.pended_on[t] # NULL THEN unpend_thread_no_timeout(s, t) ELSE s

(* Mutant: made ready before its timeout is aborted.                       *)
UnpendAndReady_swapped(s, t) ==
  z_abort_thread_timeout(ready_thread(unpend_thread_no_timeout(s, t), t), t)

(* One round of z_unpend_first_thread / z_unpend_thread followed by        *)
(* z_ready_thread, as every object's wake path does it.                    *)
UnpendAndReady(s, t) ==
  ready_thread(z_abort_thread_timeout(unpend_thread_no_timeout(s, t), t), t)

SetRetval(s, t, v) == [s EXCEPT !.retval[t] = v]

(* A waiting thread is woken and its wait returns 0.                       *)
WakeThread(s, t) == UnpendAndReady(SetRetval(s, t, 0), t)

(* unpend_all(): empty the queue from its head, each thread returning 0.   *)
unpend_all(s, wait_q) ==
  LET q == s.waitq[wait_q]
      woken[i \in 0 .. Len(q)] ==
        IF i = 0 THEN s ELSE WakeThread(woken[i - 1], q[i])
  IN  woken[Len(q)]

(* Mutant: the expired thread stays on its wait queue.                     *)
z_sched_wake_thread_still_pended(s, t, is_timeout) ==
  IF "DEAD" \in s.state[t] THEN s
  ELSE ready_thread([s EXCEPT !.state[t] = @ \ {"PRESTART", "SUSPENDED"}], t)

z_sched_wake_thread(s, t, is_timeout) ==
  IF "DEAD" \in s.state[t] THEN s
  ELSE LET started == [UnpendIfPended(s, t) EXCEPT
                         !.state[t] = (@ \ {"PRESTART"}) \
                                      (IF is_timeout THEN {"SUSPENDED"} ELSE {})]
       IN  ready_thread(started, t)

(* Mutant: the final update_cache(1) is missing.                           *)
halt_thread_stale_cache(s, t, new_state) ==
  IF new_state \in s.state[t] THEN s
  ELSE LET out == DequeueIfQueued([s EXCEPT !.state[t] = @ \cup {new_state}], t)
       IN  IF new_state = "DEAD"
           THEN unpend_all(z_abort_thread_timeout(UnpendIfPended(out, t), t), t)
           ELSE out

(* Mutant: a suspension releases the joining threads too.                  *)
halt_thread_releases_joiners(s, t, new_state) ==
  IF new_state \in s.state[t] THEN s
  ELSE LET out == DequeueIfQueued([s EXCEPT !.state[t] = @ \cup {new_state}], t)
           gone == IF new_state = "DEAD"
                   THEN z_abort_thread_timeout(UnpendIfPended(out, t), t)
                   ELSE out
       IN  update_cache(unpend_all(gone, t), TRUE)

halt_thread(s, t, new_state) ==
  IF new_state \in s.state[t] THEN s
  ELSE LET out == DequeueIfQueued([s EXCEPT !.state[t] = @ \cup {new_state}], t)
           gone == IF new_state = "DEAD"
                   THEN unpend_all(z_abort_thread_timeout(UnpendIfPended(out, t), t), t)
                   ELSE out
       IN  update_cache(gone, TRUE)

(* Mutant: the cache is not looked at again.                               *)
z_thread_prio_set_stale_cache(s, t, prio) ==
  IF z_is_thread_ready(s, t)
  THEN queue_thread([dequeue_thread(s, t) EXCEPT !.prio[t] = prio], t)
  ELSE [s EXCEPT !.prio[t] = prio]

z_thread_prio_set(s, t, prio) ==
  IF z_is_thread_ready(s, t)
  THEN update_cache(queue_thread([dequeue_thread(s, t) EXCEPT !.prio[t] = prio], t), TRUE)
  ELSE [s EXCEPT !.prio[t] = prio]

(* z_time_slice(), at the end of every timer interrupt.                    *)
z_time_slice(s) ==
  LET curr == s.current
      cleared == [s EXCEPT !.pending_current = NULL]
      rotated == IF ~ z_is_thread_prevented_from_running(cleared, curr)
                 THEN move_thread_to_end_of_prio_q(cleared, curr)
                 ELSE cleared
  IN  IF s.pending_current = curr THEN z_reset_time_slice(s, curr)
      ELSE IF s.slice_expired /\ thread_is_sliceable(cleared, curr)
           THEN z_reset_time_slice(rotated, curr)
           ELSE cleared

-----------------------------------------------------------------------------
(* How a section ends.  Thread context: z_swap pends the switch, whoever   *)
(* asked; z_reschedule only if the cache names another thread.  Interrupt  *)
(* context: z_arm_int_exit pends it if the cache names another thread.     *)

Unlock(s) == k' = s /\ UNCHANGED pendsv

z_swap(s) == k' = SetRetval(s, s.current, EAGAIN) /\ pendsv' = TRUE

z_reschedule(s) == IF s.cache # s.current THEN z_swap(s) ELSE Unlock(s)

IsrExit(s) == k' = s /\ pendsv' = (pendsv \/ s.cache # s.current)

(* Thread c executes: it is _current, nothing is switching it out, and no  *)
(* interrupt runs.                                                         *)
Running(c) == c \in Threads /\ k.current = c /\ ~pendsv /\ ~tick
Starts(c, op) == Running(c) /\ call[c] = NoCall /\ op \in Ops
Continues(c, op) == Running(c) /\ call[c].op = op

(* An interrupt other than the timer's; it may preempt the timer's.        *)
InISR(op) == op \in Ops /\ (tick => NestedISR)

SameCalls == UNCHANGED call
SameTick == UNCHANGED <<tick, firing>>
SameGhosts == UNCHANGED <<susp, finite, yielded>>

-----------------------------------------------------------------------------
(* z_arm_pendsv: the context switch.                                       *)
PendSV ==
  /\ pendsv /\ ~tick
  /\ k' = [k EXCEPT !.current = k.cache]
  /\ pendsv' = FALSE /\ yielded' = FALSE
  /\ SameCalls /\ SameTick /\ UNCHANGED <<susp, finite>>

k_yield(c) ==
  /\ Starts(c, "yield")
  /\ z_swap(update_cache(queue_thread(dequeue_thread(k, c), c), TRUE))
  /\ yielded' = TRUE
  /\ SameCalls /\ SameTick /\ UNCHANGED <<susp, finite>>

(* k_sleep and k_usleep with a finite, non-zero delay; a zero delay is     *)
(* k_yield, K_FOREVER is k_thread_suspend(_current).                       *)
z_tick_sleep(c) ==
  /\ Starts(c, "sleep")
  /\ LET out == unready_thread([k EXCEPT !.pending_current = c], c)
     IN  z_swap([add_thread_timeout(out, c, FALSE) EXCEPT !.state[c] = @ \cup {"SUSPENDED"}])
  /\ SameCalls /\ SameTick /\ SameGhosts

(* Block on an object, with or without a timeout.                          *)
z_pend_curr(c, wait_q, forever) ==
  /\ Starts(c, "pend")
  /\ z_swap(add_thread_timeout(
              add_to_waitq_locked([k EXCEPT !.pending_current = c], c, wait_q), c, forever))
  /\ finite' = IF forever THEN finite \ {c} ELSE finite \cup {c}
  /\ SameCalls /\ SameTick /\ UNCHANGED <<susp, yielded>>

(* The wake path of the objects: z_unpend_first_thread, the return value,  *)
(* z_ready_thread.                                                         *)
WakeFirst(s, wait_q) == WakeThread(s, Head(s.waitq[wait_q]))

WakeOne(c, wait_q) ==
  /\ Starts(c, "wake") /\ k.waitq[wait_q] # <<>>
  /\ z_reschedule(WakeFirst(k, wait_q))
  /\ SameCalls /\ SameTick /\ SameGhosts

IsrWakeOne(wait_q) ==
  /\ InISR("isr_wake") /\ k.waitq[wait_q] # <<>>
  /\ IsrExit(WakeFirst(k, wait_q))
  /\ SameCalls /\ SameTick /\ SameGhosts

(* k_thread_create with a delay: the thread starts when its timeout fires. *)
thread_schedule_new(c, t) ==
  /\ Starts(c, "delay_start")
  /\ k.state[t] = {"PRESTART"} /\ ~k.timeout[t] /\ firing # t
  /\ Unlock(add_thread_timeout(k, t, FALSE))
  /\ SameCalls /\ SameTick /\ SameGhosts

z_sched_start(c, t) ==
  /\ Starts(c, "start") /\ "PRESTART" \in k.state[t]
  /\ z_reschedule(ready_thread([k EXCEPT !.state[t] = @ \ {"PRESTART"}], t))
  /\ SameCalls /\ SameTick /\ SameGhosts

(* k_thread_suspend aborts the target's timeout before it takes the        *)
(* scheduler lock: two sections.                                           *)
k_thread_suspend_abort(c, t) ==
  /\ Starts(c, "suspend")
  /\ Unlock(z_abort_thread_timeout(k, t))
  /\ call' = [call EXCEPT ![c] = [op |-> "suspend", arg |-> t]]
  /\ SameTick /\ SameGhosts

(* Mutant: suspending oneself forgets to swap.                             *)
k_thread_suspend_halt_no_swap(c) ==
  /\ Continues(c, "suspend")
  /\ Unlock(halt_thread(k, call[c].arg, "SUSPENDED"))
  /\ susp' = susp \cup {call[c].arg}
  /\ call' = [call EXCEPT ![c] = NoCall]
  /\ SameTick /\ UNCHANGED <<finite, yielded>>

k_thread_suspend_halt(c) ==
  /\ Continues(c, "suspend")
  /\ LET t == call[c].arg
     IN  /\ IF "SUSPENDED" \in k.state[t] THEN Unlock(k)
            ELSE IF t = c THEN z_swap(halt_thread(k, t, "SUSPENDED"))
            ELSE Unlock(halt_thread(k, t, "SUSPENDED"))
         /\ susp' = susp \cup {t}
  /\ call' = [call EXCEPT ![c] = NoCall]
  /\ SameTick /\ UNCHANGED <<finite, yielded>>

IsrSuspend(t) ==
  /\ InISR("isr_suspend")
  /\ IsrExit(halt_thread(z_abort_thread_timeout(k, t), t, "SUSPENDED"))
  /\ susp' = susp \cup {t}
  /\ SameCalls /\ SameTick /\ UNCHANGED <<finite, yielded>>

(* A resume of a thread that is only sleeping is a use of its own: the     *)
(* sleep sets the same SUSPENDED bit.                                      *)
Resumable(t, op) ==
  /\ "SUSPENDED" \in k.state[t]
  /\ t \in susp \/ op \in Ops

(* Mutant: the resumed thread is not made ready.                           *)
ResumeState_not_readied(t) == [k EXCEPT !.state[t] = @ \ {"SUSPENDED"}]

ResumeState(t) == ready_thread([k EXCEPT !.state[t] = @ \ {"SUSPENDED"}], t)

k_thread_resume(c, t) ==
  /\ Starts(c, "resume") /\ Resumable(t, "resume_sleeping")
  /\ z_reschedule(ResumeState(t))
  /\ susp' = susp \ {t}
  /\ SameCalls /\ SameTick /\ UNCHANGED <<finite, yielded>>

(* A thread suspended and then asleep is one that sleeps.                  *)
IsrResume(t) ==
  /\ InISR("isr_resume") /\ Resumable(t, "resume_sleeping")
  /\ k.timeout[t] /\ "PENDING" \notin k.state[t] => "resume_sleeping" \in Ops
  /\ IsrExit(ResumeState(t))
  /\ susp' = susp \ {t}
  /\ SameCalls /\ SameTick /\ UNCHANGED <<finite, yielded>>

(* k_wakeup reads the pending bit, aborts the timeout, looks at the state  *)
(* if there was none to abort, and takes the lock, each on its own.        *)
k_wakeup_check(c, t) ==
  /\ Starts(c, "wakeup") /\ "PENDING" \notin k.state[t]
  /\ call' = [call EXCEPT ![c] = [op |-> "wakeup1", arg |-> t]]
  /\ SameTick /\ SameGhosts /\ UNCHANGED <<k, pendsv>>

k_wakeup_abort(c) ==
  /\ Continues(c, "wakeup1")
  /\ LET t == call[c].arg
         next == IF k.timeout[t] THEN "wakeup2" ELSE "wakeup_look"
     IN  Unlock(z_abort_thread_timeout(k, t)) /\ call' = [call EXCEPT ![c] = [op |-> next, arg |-> t]]
  /\ SameTick /\ SameGhosts

k_wakeup_look(c) ==
  /\ Continues(c, "wakeup_look")
  /\ LET t == call[c].arg
         next == IF k.state[t] = {"SUSPENDED"} THEN [op |-> "wakeup2", arg |-> t] ELSE NoCall
     IN  call' = [call EXCEPT ![c] = next]
  /\ SameTick /\ SameGhosts /\ UNCHANGED <<k, pendsv>>

k_wakeup_ready(c) ==
  /\ Continues(c, "wakeup2")
  /\ z_reschedule(ResumeState(call[c].arg))
  /\ susp' = susp \ {call[c].arg}
  /\ call' = [call EXCEPT ![c] = NoCall]
  /\ SameTick /\ UNCHANGED <<finite, yielded>>

IsrWakeup(t) ==
  /\ InISR("isr_wakeup") /\ "PENDING" \notin k.state[t]
  /\ k.timeout[t] \/ k.state[t] = {"SUSPENDED"}
  /\ IsrExit(ready_thread([z_abort_thread_timeout(k, t) EXCEPT !.state[t] = @ \ {"SUSPENDED"}], t))
  /\ susp' = susp \ {t}
  /\ SameCalls /\ SameTick /\ UNCHANGED <<finite, yielded>>

(* Mutant: a thread that aborts itself goes on.                            *)
z_thread_abort_no_swap(c, t) ==
  /\ Starts(c, "abort") /\ "DEAD" \notin k.state[t]
  /\ Unlock(halt_thread(k, t, "DEAD"))
  /\ SameCalls /\ SameTick /\ SameGhosts

(* No thread is essential: k_thread_abort of one that is panics.           *)
z_thread_abort(c, t) ==
  /\ Starts(c, "abort") /\ "DEAD" \notin k.state[t]
  /\ IF t = c THEN z_swap(halt_thread(k, t, "DEAD")) ELSE Unlock(halt_thread(k, t, "DEAD"))
  /\ SameCalls /\ SameTick /\ SameGhosts

(* Out of an interrupt; aborting _current pends the switch unconditionally.*)
IsrAbort(t) ==
  /\ InISR("isr_abort") /\ "DEAD" \notin k.state[t]
  /\ LET s == halt_thread(k, t, "DEAD")
     IN  k' = s /\ pendsv' = (pendsv \/ s.cache # s.current \/ t = k.current)
  /\ SameCalls /\ SameTick /\ SameGhosts

(* k_thread_join: the branches that return at once change nothing.         *)
k_thread_join(c, t, forever) ==
  /\ Starts(c, "join")
  /\ "DEAD" \notin k.state[t] /\ t # c /\ k.pended_on[t] # c
  /\ z_swap(add_thread_timeout(add_to_waitq_locked(k, c, t), c, forever))
  /\ call' = [call EXCEPT ![c] = [op |-> "join", arg |-> t]]
  /\ finite' = IF forever THEN finite \ {c} ELSE finite \cup {c}
  /\ SameTick /\ UNCHANGED <<susp, yielded>>

JoinReturns(c) ==
  /\ Continues(c, "join")
  /\ call' = [call EXCEPT ![c] = NoCall]
  /\ SameTick /\ SameGhosts /\ UNCHANGED <<k, pendsv>>

k_thread_priority_set(c, t, prio) ==
  /\ Starts(c, "prio") /\ "DEAD" \notin k.state[t]
  /\ LET s == z_thread_prio_set(k, t, prio)
     IN  IF z_is_thread_ready(k, t) /\ k.sched_locked[c] = 0 THEN z_reschedule(s) ELSE Unlock(s)
  /\ SameCalls /\ SameTick /\ SameGhosts

k_sched_lock(c) ==
  /\ Starts(c, "lock") /\ k.sched_locked[c] < MaxLock
  /\ Unlock([k EXCEPT !.sched_locked[c] = @ + 1])
  /\ SameCalls /\ SameTick /\ SameGhosts

(* Mutant: one unlock too many goes unnoticed.                             *)
k_sched_unlock_unbalanced(c) ==
  /\ Starts(c, "lock")
  /\ z_reschedule(update_cache([k EXCEPT !.sched_locked[c] = @ - 1], FALSE))
  /\ SameCalls /\ SameTick /\ SameGhosts

(* The caller holds the lock, as the __ASSERT in k_sched_unlock demands.   *)
k_sched_unlock(c) ==
  /\ Starts(c, "lock") /\ k.sched_locked[c] > 0
  /\ z_reschedule(update_cache([k EXCEPT !.sched_locked[c] = @ - 1], FALSE))
  /\ SameCalls /\ SameTick /\ SameGhosts

(* The application turns slicing on and off; setting it to what it already *)
(* is would only restart the running slice.                                *)
k_sched_time_slice_set(c, on) ==
  /\ Starts(c, "slice") /\ on # k.slicing
  /\ Unlock(z_reset_time_slice([k EXCEPT !.slicing = on], c))
  /\ SameCalls /\ SameTick /\ SameGhosts

-----------------------------------------------------------------------------
(* The timer interrupt: sys_clock_announce unlinks each due timeout, drops *)
(* its lock, calls the callback, and ends in z_time_slice.                 *)

TickStart ==
  /\ ~tick /\ tick' = TRUE
  /\ SameCalls /\ SameGhosts /\ UNCHANGED <<k, pendsv, firing>>

AnnounceThread(t) ==
  /\ tick /\ firing = NULL /\ k.timeout[t]
  /\ k' = z_abort_thread_timeout(k, t) /\ firing' = t
  /\ SameCalls /\ SameGhosts /\ UNCHANGED <<pendsv, tick>>

AnnounceSlice ==
  /\ tick /\ firing = NULL /\ k.slice_timeout
  /\ k' = [k EXCEPT !.slice_timeout = FALSE] /\ firing' = SliceTimer
  /\ SameCalls /\ SameGhosts /\ UNCHANGED <<pendsv, tick>>

z_thread_timeout ==
  /\ tick /\ firing \in Threads
  /\ k' = z_sched_wake_thread(k, firing, TRUE)
  /\ firing' = NULL
  /\ SameCalls /\ SameGhosts /\ UNCHANGED <<pendsv, tick>>

slice_timeout ==
  /\ tick /\ firing = SliceTimer
  /\ k' = [k EXCEPT !.slice_expired = TRUE]
  /\ firing' = NULL
  /\ SameCalls /\ SameGhosts /\ UNCHANGED <<pendsv, tick>>

TickEnd ==
  /\ tick /\ firing = NULL
  /\ IsrExit(z_time_slice(k))
  /\ tick' = FALSE
  /\ SameCalls /\ SameGhosts /\ UNCHANGED firing

-----------------------------------------------------------------------------
(* Main runs, every other thread is created and not started.               *)
Init ==
  /\ k = [state |-> [t \in Threads |-> IF t = Main THEN {"QUEUED"} ELSE {"PRESTART"}],
          prio |-> InitPrio, sched_locked |-> [t \in Threads |-> 0],
          timeout |-> [t \in Threads |-> FALSE],
          pended_on |-> [t \in Threads |-> NULL],
          waitq |-> [w \in WaitQs |-> <<>>], runq |-> <<Main>>,
          current |-> Main, cache |-> Main,
          retval |-> [t \in Threads |-> EAGAIN],
          pending_current |-> NULL, slicing |-> FALSE,
          slice_timeout |-> FALSE, slice_expired |-> FALSE, corrupt |-> FALSE]
  /\ call = [t \in Threads |-> NoCall]
  /\ pendsv = FALSE /\ tick = FALSE /\ firing = NULL
  /\ susp = {} /\ finite = {} /\ yielded = FALSE

ThreadStep(c) ==
  \/ k_yield(c) \/ z_tick_sleep(c)
  \/ \E w \in Objs, f \in BOOLEAN : z_pend_curr(c, w, f)
  \/ \E w \in Objs : WakeOne(c, w)
  \/ \E t \in Threads : \/ thread_schedule_new(c, t) \/ z_sched_start(c, t)
                        \/ k_thread_suspend_abort(c, t) \/ k_thread_resume(c, t)
                        \/ k_wakeup_check(c, t) \/ z_thread_abort(c, t)
                        \/ \E f \in BOOLEAN : k_thread_join(c, t, f)
                        \/ \E p \in Prios : k_thread_priority_set(c, t, p)
  \/ k_thread_suspend_halt(c) \/ JoinReturns(c)
  \/ k_wakeup_abort(c) \/ k_wakeup_look(c) \/ k_wakeup_ready(c)
  \/ k_sched_lock(c) \/ k_sched_unlock(c)
  \/ \E on \in BOOLEAN : k_sched_time_slice_set(c, on)

IsrStep ==
  \/ \E w \in Objs : IsrWakeOne(w)
  \/ \E t \in Threads : IsrSuspend(t) \/ IsrResume(t) \/ IsrWakeup(t) \/ IsrAbort(t)

TimerStep ==
  \/ TickStart \/ AnnounceSlice \/ z_thread_timeout \/ slice_timeout \/ TickEnd
  \/ \E t \in Threads : AnnounceThread(t)

Next == PendSV \/ (\E c \in Threads : ThreadStep(c)) \/ IsrStep \/ TimerStep

Spec == Init /\ [][Next]_vars

(* Time passes whatever the threads do: the timer interrupt keeps coming,  *)
(* runs to its end, and reaches every timeout that stays linked.  A pended *)
(* context switch is taken as soon as no interrupt is active, so timer     *)
(* interrupts cannot hold it off for ever.  Nothing is assumed of the      *)
(* threads themselves.                                                     *)
Fairness ==
  /\ SF_vars(PendSV) /\ WF_vars(TickStart) /\ WF_vars(TickEnd)
  /\ WF_vars(z_thread_timeout) /\ WF_vars(slice_timeout)
  /\ SF_vars(AnnounceSlice) /\ \A t \in Threads : SF_vars(AnnounceThread(t))

FairSpec == Spec /\ Fairness

-----------------------------------------------------------------------------
(* The type invariant.                                                     *)
TypeOK ==
  /\ k.state \in [Threads -> SUBSET StateBits] /\ k.prio \in [Threads -> Int]
  /\ k.sched_locked \in [Threads -> 0 .. MaxLock]
  /\ k.timeout \in [Threads -> BOOLEAN]
  /\ k.pended_on \in [Threads -> WaitQs \cup {NULL}]
  /\ \A w \in WaitQs : Members(k.waitq[w]) \subseteq Threads
  /\ Members(k.runq) \subseteq Threads
  /\ {k.current, k.cache} \subseteq Threads \cup {Idle}
  /\ k.retval \in [Threads -> {0, EAGAIN}]
  /\ k.pending_current \in Threads \cup {NULL}
  /\ {k.slicing, k.slice_timeout, k.slice_expired, k.corrupt, pendsv, tick, yielded}
       \subseteq BOOLEAN
  /\ call \in [Threads -> Calls]
  /\ firing \in Threads \cup {SliceTimer, NULL}
  /\ susp \subseteq Threads /\ finite \subseteq Threads

(* The run queue never lies: a thread is linked on it exactly when its     *)
(* QUEUED bit is set, once, in priority order, and only threads that       *)
(* nothing prevents from running and that wait for no timeout are on it;   *)
(* and nothing was ever unlinked from it that was not on it (sched.c,      *)
(* queue_thread, dequeue_thread and all their callers).                    *)
RunqInv ==
  /\ Distinct(k.runq) /\ Sorted(k.runq, k.prio) /\ ~k.corrupt
  /\ Members(k.runq) = {t \in Threads : "QUEUED" \in k.state[t]}
  /\ \A t \in Members(k.runq) : z_is_thread_ready(k, t)

(* No thread is forgotten: one that is ready is on the run queue, unless   *)
(* its timeout callback or the rest of a k_thread_suspend or k_wakeup call *)
(* on it is still to come (ready_thread is reached on every path that      *)
(* clears the last bit holding a thread back).                             *)
NoLostThread ==
  \A t \in Threads : z_is_thread_ready(k, t) =>
     \/ t \in Members(k.runq)
     \/ firing = t
     \/ \E c \in Threads : call[c].op \in {"suspend", "wakeup2"} /\ call[c].arg = t

(* The thread the next context switch will load is the best queued one,    *)
(* or _current held on the CPU because it is not preemptible; idle only    *)
(* when the run queue is empty (update_cache after every change).          *)
CacheInv ==
  /\ k.cache = Idle => k.runq = <<>>
  /\ k.cache # Idle => k.cache \in Members(k.runq)
  /\ (k.runq # <<>> /\ k.cache # Head(k.runq)) =>
        (k.cache = k.current /\ ~thread_is_preemptible(k, k.current))

(* Run queue and cache together: what a context switch relies on, through  *)
(* every change of state, priority or lock (update_cache, queue_thread).   *)
ReadyQInv == RunqInv /\ CacheInv

(* Wait queues agree with the threads: PENDING, pended_on and the list a   *)
(* thread is linked on say the same, through timeouts and wakes.           *)
WaitqInv ==
  /\ \A w \in WaitQs : /\ Distinct(k.waitq[w])
                       /\ Members(k.waitq[w]) = {t \in Threads : k.pended_on[t] = w}
  /\ \A t \in Threads : "PENDING" \in k.state[t] <=> k.pended_on[t] # NULL

(* A cooperative or scheduler-locked thread that is ready keeps the CPU    *)
(* until it gives it up itself (kernel.h on k_sched_lock; should_preempt). *)
CoopPromise ==
  (/\ k.cache # k.current
   /\ z_is_thread_ready(k, k.current)
   /\ ~thread_is_preemptible(k, k.current)) => yielded

(* A wait with a finite timeout ends: while the thread is pending and not  *)
(* suspended its timeout is linked, or its callback is running, or a       *)
(* k_thread_suspend on it is half way.  k_thread_resume and k_wakeup, when *)
(* called for a thread that is pended, leave it pended without a timeout,  *)
(* and this does not hold of them.                                         *)
TimeoutsKept ==
  \A t \in finite \ susp : "PENDING" \in k.state[t] =>
     \/ k.timeout[t] \/ firing = t
     \/ \E c \in Threads : call[c].op = "suspend" /\ call[c].arg = t

(* What executes is allowed to: outside the window before a pended switch  *)
(* _current is not pending, suspended or dead and waits for no timeout     *)
(* (every path that takes _current off the queue ends in a swap).          *)
RunningIsRunnable ==
  (~pendsv /\ k.current # Idle) => z_is_thread_ready(k, k.current)

(* kernel.h on k_thread_abort: an aborted thread is on no queue and never  *)
(* becomes runnable, whatever timeout or wake was in flight for it.        *)
DeadIsGone ==
  \A t \in Threads : "DEAD" \in k.state[t] =>
     /\ k.state[t] \cap {"QUEUED", "PENDING"} = {} /\ ~k.timeout[t]
     /\ t \notin Members(k.runq) /\ k.cache # t
     /\ \A w \in WaitQs : t \notin Members(k.waitq[w])
     /\ k.waitq[t] = <<>>

(* k_thread_join that returns 0 found its target dead; a timed out join    *)
(* says so (the swap return value set by unpend_all against the -EAGAIN    *)
(* that arch_swap stored).                                                 *)
JoinHonest ==
  \A c \in Threads :
    (call[c].op = "join" /\ Running(c) /\ k.retval[c] = 0) => "DEAD" \in k.state[call[c].arg]

(* kernel.h on k_sched_time_slice_set: with slicing on, a queued thread    *)
(* whose priority is the running thread's gets its turn.                   *)
SliceFair ==
  <>[](k.slicing) =>
    \A t \in Threads : t \in Members(k.runq) ~> (k.current = t \/ t \notin Members(k.runq))
=============================================================================
