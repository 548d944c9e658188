# Verification of the Zephyr kernel in the TRACE32 STM32H7 demo

The repository packages a TRACE32 debugging environment for an STM32H7 in a
container. The program it debugs, and the only part of it with substantial logic
of its own in source form, is the Zephyr kernel under
`Trace32_H7/TRACE32/demo/zephyr/src/kernel` with the Cortex-M layer under
`arch/arm/core/cortex_m` and the timer driver
`zephyr/drivers/timer/cortex_m_systick.c`. Paths below are relative to
`Trace32_H7/TRACE32/demo/zephyr/src/` unless they start elsewhere; `kernel.h`
means `zephyr/include/zephyr/kernel.h`, which documents what the API promises.

The models follow the build that the demo links: one Cortex-M7 CPU,
`CONFIG_SWAP_NONATOMIC`, `CONFIG_TIMESLICING`, `CONFIG_SCHED_DUMB`,
`CONFIG_WAITQ_DUMB`, 64-bit timeouts, assertions off; no SMP, meta-IRQ
threads, deadlines, polling, events, pipes or user mode. Branches those options remove
are not modelled.

## 1. Inventory

| Component | State | Operations | Interacts through |
|---|---|---|---|
| Scheduler (`sched.c`, `kthread.h`, `kswap.h`) | thread state bits, priority, scheduler lock count, run queue, `ready_q.cache`, `_current`, wait queues, `pended_on` | start, yield, sleep, pend, wake, suspend, resume, wakeup, abort, join, priority, lock/unlock | called by every object; asks for context switches; timeouts call back |
| Priority lists (`priority_queues.c`, `wait_q.h`) | linked list | add, remove, best | run queue and all wait queues |
| Time slicing (`timeslicing.c`) | slice timeout, `slice_expired`, `pending_current` | set, reset, expiry, rotation | timer interrupt, `update_cache` |
| Context switch (`swap.c`, `swap_helper.S`, `exc_exit.S`, `thread_abort.c`) | PendSV pending bit, return-value slot | pend the switch, take it, check at interrupt exit | hardware exceptions |
| Timeouts (`timeout.c`) | delta list, `curr_tick`, `announce_remaining` | add, abort, announce, uptime | callbacks of threads, slices, delayed work, timers; asks the driver for alarms |
| Clock driver (`cortex_m_systick.c`) | `cycle_count`, `announced_cycles`, `overflow_cyc`, `last_load` over a 24-bit down-counter | read, set the next alarm, interrupt | announces ticks |
| Timers (`timer.c`) | period, status, wait queue, a timeout | start, stop, read, wait | timeouts, scheduler |
| Threads (`thread.c`) | thread object | create, start | scheduler |
| Semaphore (`sem.c`) | count, limit, wait queue | init, take, give, reset | scheduler, timeouts, interrupts |
| Mutex (`mutex.c`) | owner, count, saved priority, wait queue | lock, unlock | scheduler priorities |
| Condition variable (`condvar.c`) | wait queue | wait, signal, broadcast | mutex |
| Work queues (`work.c`) | item and queue flags, pending lists, cancel list, delay timeouts | submit, schedule, reschedule, flush, cancel (both kinds), drain, plug, the queue thread | scheduler, semaphores, timeouts, interrupts |
| Message queue (`msg_q.c`) | ring buffer, one wait queue for readers and writers | put, get, peek, purge | scheduler, timeouts, interrupts |
| Queue, FIFO, LIFO (`queue.c`) | linked list, wait queue | insert, append a list, get, cancel a wait, remove, peek | the same |
| Stack (`stack.c`) | array, wait queue | push, pop | the same; mailboxes keep descriptors in one |
| Memory slab (`mem_slab.c`) | free list, count, wait queue | alloc, free | the same |
| Mailbox (`mailbox.c`) | queues of senders and receivers, pool of descriptors | put, asynchronous put, get, fetch the data | scheduler, stack, semaphore |
| Not in the build: pipes, events, poll, futex, userspace, SMP, paging | | | |
| Thread logger sketches (`Trace32_H7/TRACE32/demo/T32ThreadDebugLogger`) | trace buffer | log | debugger reads it |
| Container and debugger scripts (`startup.sh`, `Dockerfile`, `*.bat`, PRACTICE scripts) | none of their own | sequential set-up | OS processes |

What is hard in this code:

- **The window before a switch.** On Cortex-M `arch_swap` only pends the PendSV
  exception. Between the end of the critical section and the switch an interrupt
  may run, and finds a `_current` that is on a wait queue, asleep, suspended or
  dead. Much special-case code exists for this window (`should_preempt`,
  `pending_current`).
- **Timeouts fire in two steps.** `sys_clock_announce` unlinks a timeout, drops
  its lock and calls the callback. A nested interrupt can act in between.
- **Calls of several sections.** `k_thread_suspend`, `k_wakeup`, a timed-out
  `k_mutex_lock` and `k_condvar_wait` do their work in more than one critical
  section, with other threads in between.
- **One bit, two meanings.** Sleeping and suspended threads carry the same
  `SUSPENDED` bit.
- **Keys that change under the list.** Priorities order lists, and priority
  inheritance changes them.
- **Hand-overs.** A give, an unlock, a put, a free or a completed work item acts
  on behalf of a thread that does not run: return values, owners, items and
  counts must be right before it does. A mailbox sender is even taken off its
  queue and left blocked until the receiver comes back to its message.
- **A clock that does not stand still.** The driver reads three registers of a
  counter that goes on, one of them cleared by the read, and reprograms it while
  its interrupt may be pending.
- **Time inside an announcement.** Callbacks see the tick that expired, not the
  time it is; what they arm is placed against a list in the middle of a change.

`PROJECT.json` lists each of these hazards at its line with the properties aimed
at it.

## 2. Modules

| Module | Models | Notes |
|---|---|---|
| `PriQ` | `z_priq_dumb_add`, `z_priq_dumb_remove`, `z_sched_prio_cmp` | operators on sequences, shared by all |
| `PriQProofs`, `SeqProofs` | lemmas on `PriQ`, and on the sequences `WorkQueue` uses | proved |
| `Sched` | scheduler, time slicing, context switch, timer interrupt | one record `k` for the kernel's data, one transformer per static function, one action per critical section |
| `SchedProofs` | invariants of `Sched` | proved |
| `KSem` | `sem.c` | with two-step timeouts, interrupts, aborts |
| `AbsSem` | what `k_sem` promises | count, set of blocked takers, outcomes |
| `KSemProofs` | invariant and refinement of `KSem` | proved |
| `WorkQueue` | `work.c` | flags as sets, lists as sequences |
| `WorkQueueProofs` | invariants of `WorkQueue` | proved |
| `KMutex` | `mutex.c` and `condvar.c` composed | priorities part of the state |
| `KMutexProofs` | invariants of `KMutex` | proved |
| `DeltaList` | the list of `timeout.c` | operators on sequences of nodes |
| `SysTick` | `cortex_m_systick.c` and its counter | operators on a record |
| `Clock` | `timeout.c` and `timer.c` over `SysTick`, and sleeping threads | one action per critical section; the announcement in its steps |
| `ClockProofs` | invariants of `DeltaList`, `SysTick` and `Clock` | proved |
| `Pend` | blocking, waking and expiry, as data objects use them | shared by the five below |
| `MsgQ`, `KStack`, `MemSlab`, `KQueue`, `Mbox` | `msg_q.c`, `stack.c`, `mem_slab.c`, `queue.c`, `mailbox.c` | an action per call, and per section where a call has several |
| `AbsBuffer` | what the first four of these promise | a sequence, wishes and outcomes |
| `Objects` | the five objects side by side | `used` says which one a behaviour is about |
| `ObjectsProofs` | invariants of the five objects and the refinement of `AbsBuffer` | proved |
| `MC*` | instances for TLC | model values and priority assignments |

A kernel critical section runs with interrupts masked, so it is one atomic
action. Everything between two sections of one call is interleaved.

**Sched.** `k` holds thread bits, priorities, lists, `cache`, `current`, the
return-value slots and the slice state. `call[t]` says which multi-section call
`t` is in; `pendsv` is the window before a switch; `tick` and `firing` are the
timer interrupt between unlinking a timeout and its callback. `z_swap` pends the
switch, `PendSV` takes it, `IsrExit` is the comparison at interrupt exit. The
constant `Ops` says which calls the application makes, so that each run asks
about a group of operations at a time; `NestedISR` whether other interrupts may
preempt the timer's. Ghost variables `susp`, `finite` and `yielded` record what
callers asked for and are read by no guard except that of `Resumable`, where
they tell a resume of a suspended thread from one of a sleeping thread, which is
a use of its own (section 3). Unlinking a node that is not linked, which is
undefined in the code, sets `corrupt`; `ReadyQInv` says it does not happen, and
run `prio_unlinks` shows the one combination of calls in which it does.
`k_wakeup` is four steps: the unlocked look at PENDING, the abort of the timeout,
a second unlocked look if there was none, and the locked section.
`k_sched_unlock` is called by a thread that holds the lock and no essential thread
is aborted: the code only asserts the one and panics on the other.

**KSem.** Any thread in no call may execute, which covers every schedule. `pc`,
`timed`, `timeout` and `retval` are the parts of the scheduler's state that the
semaphore touches.

**WorkQueue.** `wk` holds items, queues and delay timeouts; `active[q]` is the
item the thread of `q` is handling. Clients are the threads that make blocking
calls; non-blocking calls are made by anybody, and by handlers when `Chaining`.
`k_work_queue_start` is one step: it writes its fields without the lock, before
the queue's thread exists, and nobody may use the queue before it is over.
The ghost `owed` is the set of runs a flush or cancel has to wait for.

**KMutex.** `rest` remembers what the second section of a call is about; `held`
is a ghost account of locks minus unlocks.

**Clock.** `clk` is the driver and the hardware counter below it: `seen` and `lost`,
together the cycles since start-up, are visible to no code; `phase` is the distance
from the last wrap or reset, from which `VAL` is read; `flag` and `irq` are
COUNTFLAG and the pending interrupt. A `delay` record says how many cycles pass
between the accesses of one body of the driver: before CTRL, before the second VAL
(read C), between that and `val1` of `sys_clock_set_timeout` (`gap`), while a new
LOAD is computed (`calc`), and between `val2` and the write of VAL (`write`). The
code has no account of the cycles in `gap` and `write` (`cortex_m_systick.c:273-275`
and `306-309`), so that `cycle_count` falls behind the hardware for good: they go to
`lost`, and the counter restarts as if they had not been. `list` is the timeout
list, each node with the ghosts `tick` and `due`; `isr` says which timeout an
announcement is handling and whether its function is still to run (`fn`) or is in
the expiry function (`expiry`). `k_timer_stop` has no lock around its two halves:
`stopping` counts the threads in between, `MaxStops` at most. `MaxLost` bounds the
cycles lost. `InTime` states the driver's own prerequisite, that a wrap is seen
before the next one. `Nested` are calls by interrupts above the timer's, for which
the comments in `timer.c` and `timeout.c` provide; this driver runs the timer at the
highest priority, so they need a zero-latency interrupt or another driver.
`K_FOREVER` as a duration makes both `k_timer_start` and `z_add_timeout` return at
once and is left out.

**Objects.** `thr[t]` is what a blocking call left in the thread: where it waits,
`swap_data`, the return value and whether its timeout is armed. Any thread in no
call may execute; a call that does not block may be an interrupt handler's, also
between an expiry and its callback (`firing`). `reply` is what the last such call
returned, so that the refinement covers return values. `held` (slab) and `owed`
(mailbox) are ghosts: blocks that callers own, signals asked for and not taken.
In `Mbox` a message is known by its `_syncing_thread`; `mail[t]` is what a thread
has in hand between the sections of a call, and a receiver disposes of a message
before its next mailbox call. A free descriptor's old contents, which nobody
reads, are cleared. `AbsBuffer` states what `kernel.h` promises: a purge ends the
waits of writers only, and a look at the store sees the item at the place it asks
for, or nothing if there is none. The constants `Surplus` and `PurgesReaders` say
whether the application appends lists shorter than the line of waiters and purges
message queues with waiting readers, the two uses in which the code does otherwise.

`KQueue` has the calls that take the queue's lock; `k_queue_remove` and
`k_queue_unique_append` walk the list without it and are left out (section 5).

## 3. Runs

Passing runs:

| Run | Instance | Shows |
|---|---|---|
| `sched_block` | 3 threads (one cooperative), 1 wait queue, nested interrupts; yield, sleep, pend, wake, start, delayed start, lock, slice | type, run queue and cache, wait queues, no lost thread, cooperative promise, timeouts kept |
| `sched_calls` | 2 threads; abort and join, `k_wakeup`, `k_thread_suspend` and `k_thread_resume` in their sections and from interrupts, priority changes, with sleeps, joins and expiries in flight | no lost thread; what runs may run; the dead are on no queue; joins tell the truth |
| `ksem` | 3 threads, 2 priorities, limit up to 2, fair timer | the invariants of the semaphore, the refinement of `AbsSem`, timed takes end |
| `work` | 2 items (1 delayable), 2 queues, 1 client that flushes, cancels and drains, submissions by anybody and by handlers, fair queue threads | no re-entry, lists exact (and empty behind a plug), no lost wakeup, sync calls honest, delays exact; queued items leave; flush and cancel return, and drain unless handlers submit for ever |
| `kmutex` | 4 threads of 3 priorities, 1 mutex, 1 condition variable | exclusion, wait queues exact and sorted, exact priority inheritance |
| `clock` | 1 timer (one-shot or periodic) with a thread in `k_timer_status_sync` and up to two inside `k_timer_stop`, 1 sleeper, 6 cycles of 2 per tick, every delay inside the driver, one lost cycle, an uptime of 8 ticks (`INT_MAX` is 6), restarts in the middle of an announcement | nothing but the gaps loses cycles, every timeout at its tick, alarm in time, waiters released, stopped timers silent, regular periods |
| `objects` | 3 threads of 2 priorities, interrupts, two-step timeouts on each of the five objects | wait queues exact, nobody waits for what is there, blocks and mail accounted for, refinement of `AbsBuffer` |

Runs that refute a statement of a doc or comment (details under `findings`):

| Run | The code does | against |
|---|---|---|
| `slice_starves` | a timer interrupt in the window before a switch stops the next thread's slice | `kernel.h` on time slicing |
| `prio_unlinks` | a priority change between the sections of `k_wakeup` unlinks a thread that is on no list | `sys/dlist.h` on `sys_dlist_remove` |
| `cancel_strands` | of two threads cancelling one running item synchronously one is released | the comment in `finalize_cancel_locked` |
| `timer_drift` | a periodic timer that is the second timeout of the last announced tick is re-armed from real time | comments in `timer.c` and `timeout.c` |
| `getters_lost` | purging an empty message queue ends the waits of its readers | `kernel.h` on `k_msgq_purge` and `k_msgq_get` |

**Combinations the passing runs leave out**, because the code then does what its
documentation excludes, and everything behind it would be checked in a state
that should not exist. Five are the violation runs above; the others can be
reproduced by giving `Ops`, `NestedISR`, `Nested`, `Syncers`, `Mutexes` or the
constant named here its value:

- `prio` or `isr_abort` with `lock`: `z_thread_prio_set` and `halt_thread` call
  `update_cache(1)` although `_current` holds the scheduler lock (`sched.c:778`,
  `sched.c:1344`), and the next interrupt exit preempts it (`CoopPromise`), where
  `kernel.h:1127` says that `k_sched_lock` "prevents the current thread from being
  preempted by another thread".
- `prio` with `wakeup` or `suspend` and three threads: `ReadyQInv` fails, run
  `prio_unlinks`. `sched_calls` has them together for the properties that survive.
- `wakeup` under `TimeoutsKept`: `k_wakeup` looks at PENDING without a lock and then
  aborts whatever timeout the thread has (`sched.c:1241`). If the thread has begun a
  timed wait meanwhile, that wait has no end, where `kernel.h:557` says that for a
  thread not sleeping "the routine has no effect".
- `suspend` and `resume` under `TimeoutsKept`: a timed wait that is suspended and
  resumed goes on without its timeout (`sched.c:532`), where `kernel.h:962-965` has
  the thread "return from the blocked call".
- `resume_sleeping` (a thread's or an interrupt's resume of a thread whose sleep
  timeout runs): a sleeper resumed in the window before its switch leaves the
  cache naming a thread that is off the run queue (`CacheInv`; `kthread.h:209`
  asks about the candidate's timeout where `_current`'s is the one that matters).
- `Ops = {"start", "sleep", "pend", "isr_wake", "suspend", "resume"}` with the
  invariant `\A t \in susp : "SUSPENDED" \in k.state[t]`: a sleep between the
  halves of `k_thread_suspend` undoes it, since the second half takes the sleep's
  bit for an earlier suspension (`sched.c:532`, `kernel.h:959`).
- `NestedISR` with delayable work: a reschedule between expiry and callback is
  taken by the old callback, and the node is linked twice (`DelayInv`;
  `work.c:948`).
- Two `Cancellers`: run `cancel_strands`; `SyncEnds` fails with it.
- Two mutexes: a waiter that owns the other one is boosted where it stands, since
  `z_thread_prio_set` does not move a pended thread (`sched.c:780`). The queue is no
  longer sorted (`WaitInv`), so that the unlock may hand the mutex to a thread of
  lower priority than the first waiter, which the comment at `mutex.c:266` rules out;
  and what an owner is lent through one mutex is forgotten at the other (`ExactBoost`, for
  which the head of `mutex.c` asks for a nesting that nothing enforces).
- `Nested` with `"stop"`: a timer stopped between its unlinking and its handler
  still expires (`TimersHonest`); `timer.c:46` only looks for a restart.
- Two `Syncers` on a one-shot timer: an expiry releases one, and the other waits
  for a next expiry (`TimersHonest`; `timer.c:96`). `kernel.h` does not say
  that several may wait.
- `PurgesReaders`: run `getters_lost`. `Surplus`: the same property fails in a queue
  (set `PurgesReaders` to `FALSE` to see it). `k_queue_append_list` unpends the next
  thread before it knows whether an item is left for it (`queue.c:268`); with fewer
  items than waiters that thread stands in no queue, its timeout is aborted and
  nobody makes it ready.
- A `k_condvar_wait` under a mutex locked twice is included: the thread then
  sleeps owning the mutex (`condvar.c:118`), which `Exclusion` accounts for.

**Bounds.** `MaxLock` 1 (nesting of the scheduler lock is one counter compared
with zero), `MaxCount` 2 (an inner and an outer lock), `MaxLimit` 2 (zero, one,
full), two to four threads: one to hold, one to wait, one of another priority
to come in between; interrupts are one more actor in every run. `Ceiling` is
the build's -127. Two queues are what moving a running item needs. One client
is in one blocking call at a time, against everybody's submissions and cancels;
that the calls of several do not disturb each other is left to the proofs, which
are for any number, and to `cancel_strands`, which has two. `sched_calls` has two
threads and two priorities, and its only waits are joins; its four properties too
are proved for any number of threads, with the other waits. A swap that keeps an
earlier return value takes a second wait to show: that one is checked in `ksem`.

In `clock` a tick is `CYC_PER_TICK` 2 cycles, so that a cycle can be in the middle
of one; `COUNTER_MAX` 6 makes the longest period two ticks, so that the clamp at
`MAX_CYCLES` happens; `MIN_DELAY` 2 lets the lower clamp move an alarm past a tick;
`HalfWrap` 7 stands for 2^31, and an uptime of 8 ticks is beyond `INT_MAX`; the
announcement that is forced when 2^31 cycles are unannounced needs more cycles than
the run has and is left to the proofs. `MaxLost` 1 is a cycle in either gap;
`MaxStops` 2 are two threads inside `k_timer_stop`. `MaxCycles` 6 are three ticks: an
announcement of several ticks, a period after it, and a start in
between. That `cycle_count - announced_cycles` never wraps its 32 bits is not
claimed: it rests on announcements coming at all. The other duration is a short one
from now, and every periodic timer is set again for an uptime; 0 and 1 tick from now
are the same to `k_timer_start`, and 0 is a yield to `k_sleep`. `timer_drift` has a
near uptime instead of the far one.

In `objects` two items, a ring of two and a stack of two give empty, half and
full; `MaxNodes` 2 is the longest list; one descriptor makes the pool run out;
`SemLimit` 1 bounds the signals outstanding; two of the threads have one
priority, so that order among equals matters.

**Deadlock** is checked everywhere except in `kmutex`, `objects` and `getters_lost`,
where the application itself may stop: all threads may wait, without a timeout,
for a condition, a message or a receiver that suits. In `clock` time ends at
`MaxCycles`, and other steps remain possible there.

**Fairness.** `Sched` and `KSem` assume it of the timer interrupt only: ticks
keep coming, an announcement runs to its end and reaches every timeout that
stays linked, and a pended switch is taken (strong fairness, since a tick
delays it and then lets it through). The hardware and the tickless timer driver
provide this; nothing is assumed of threads. `WorkQueue` also assumes that queue
threads and released clients are scheduled again and again and that handlers
return, which the application must provide and without which `kernel.h` promises
nothing either.

## 4. Proofs

`PriQProofs` proves, for every list, thread and priority assignment: where
`InsertPos` stops, that `z_priq_dumb_add` adds exactly its thread and keeps the
list distinct and sorted, that `z_priq_dumb_remove` removes exactly its thread
and keeps both, and that the head of a sorted list is a best thread.

`KSemProofs` proves, for every set of threads, priorities and limit, from
`KSemAssumption` alone:

- `SemInvariant`: `Spec => []IInv`, where
  `IInv == TypeOK /\ QueueInv /\ NoLostUnit /\ TimedWaitArmed /\ PendedRetval`.
  None of the parts is inductive on its own. `QueueInv` needs the type of the
  queue, and the order lemmas of `PriQ`. `TimedWaitArmed` needs `QueueInv`,
  since a give, a reset and an expiry take the timeouts of exactly the members
  of the queue. `NoLostUnit` needs to know that a give counts on an empty queue
  only. `PendedRetval` is what makes an expiry map to the outcome "again" and
  not to "taken". There is one lemma per group of actions.
- `SemTypeOK`, `SemQueue`, `SemNoLostUnit` and `SemTimedWait`: the four properties
  that the run `ksem` checks, from `IInv`.
- `SemRefinement`: `Spec => ImplementsAbsSem`. Initial states map to initial
  states; an announcement maps to a stutter, a callback to `Expire` or a stutter,
  and every other step to one abstract action. `GiveWakes` maps to `Grant` of a
  best thread by the lemma on heads of sorted lists.

`KMutexProofs` proves for any sets of threads, mutexes and condition variables, any
priorities and `MaxCount`:

- `MutexTypeOK` and `MutexExclusion`, from
  `IInv == TypeOK /\ Exclusion /\ QueuesKept /\ CallsKept`. `Exclusion` alone is not
  inductive: a hand-over makes the head of the queue the owner, so the queue must
  hold exactly the threads pended on this mutex, each of them inside its call
  (`QueuesKept`); and the rest of a timed-out lock or of a `k_condvar_wait` must
  know its mutex, and an owner a priority to go back to (`CallsKept`).
- `MutexWaiters` (`WaitInv`) for one mutex, and `MutexExactBoost` (`ExactBoost`) for
  one mutex and a `Ceiling` at or above every thread's own priority. Both come from
  one more inductive part, that the owner is lent what its waiters justify and
  that everybody in a queue has the priority it was sorted by. With two mutexes
  neither holds (section 3). The ceiling of the build is -127, above every
  priority a thread can have.

`WorkQueueProofs` proves for any sets of items, queues and clients: `WorkTypeOK`,
`WorkNoReentry`, `WorkLists`, `WorkNoLostWakeup` and `WorkSyncHonest` without any
further condition, `WorkDelays` when nothing interrupts the timer interrupt and
`WorkNoStranded` where no two threads wait for the cancellation of one item
(`OneEach`; run `cancel_strands` shows what happens otherwise). The
inductive invariant `GoodNow` ties five views of the same facts together: the flags
of an item, the list it is on, the item a queue thread has in hand, the flusher
queued behind an item, and the runs owed to a waiting client. `WorkSyncHonest` needs
them all: a flusher is behind the run it waits for, on a list that the queue thread
takes in order.

`SchedProofs` proves for any threads, priorities, wait queues and idle thread:

- `SchedCore`, for **every** set of calls `Ops`: links, state bits, wait queues,
  the cached thread, calls half way and the timeout being fired agree. From it
  `SchedTypeOK`, `SchedWaitQueues`, `SchedDeadIsGone`, `SchedJoinHonest` and
  `SchedNoLostThread`.
- `SchedSharp`, for programs that do not resume sleeping threads: no queued thread
  waits for a timeout, `_current` is queued or held back, and the cache is the best
  thread or a `_current` that may stay. From it `SchedRunningIsRunnable` and, where
  priority changes do not meet a `k_wakeup` or `k_thread_suspend` (`Apart`),
  `SchedReadyQueue`.
- `SchedCoopPromise` for programs that neither suspend, abort nor reprioritise
  threads nor resume sleeping ones (`Gentle`), from the invariant that the cache
  never names a thread that may not preempt. `Gentle` is wider than section 3's
  counterexamples need: with a `_current` that was suspended, aborted or given a
  new priority the promise is about a thread that no longer asks for it, and the
  invariant would have to say when.
- `SchedTimeoutsKept` for programs without `k_wakeup` and `k_thread_resume` calls
  (`Unresumed`), with suspensions, aborts and wakeups by interrupts.

Each function of `sched.c` has one lemma that says what it does to the thread it is
about and that it leaves the others alone (`Turns`, `Becomes`, `Effect`); the
actions are then cases of these. The loop of `z_unpend_all` and the sums of the delta list
are recursive functions: what they compute is shown by the least
counterexample (`LeastNat`), since the library's induction rules are out of the
prover's reach.

`ClockProofs` proves for any timers, sleeping threads, durations, periods, tick
length and counter, over the delays that `Reading` and `Setting` allow:

- `OnlyGapsLose` (`OnlyGapsLost`) and `PeriodsKeepStride` (`StrideKept`), under
  `LongPeriods`: a tick and `MIN_DELAY` have more than one cycle. With a period of
  one cycle the counter reads the same before and after the cycle in which a new
  period is computed, and that cycle is lost; the build's `MIN_DELAY` is at least
  1024. The inductive `Core` says of the clock that what the driver has counted,
  what the counter shows and a wrap not yet seen add up to the cycles passed less
  those in the two gaps, with which the sum is false; of the list that it has no
  timeout twice and that the deltas up to a node and `curr_tick` add up to the tick
  it was set for; and of the announcement that it handles a timeout at `curr_tick`
  and that `curr_tick`, the ticks left and the cycles announced agree.
- `TimeoutsOnTime` (`TimeoutsExact`) and `AlarmsInTime` (`AlarmInTime`), as long as
  announcements come before the driver's 32-bit differences wrap (`Announcing`, in
  every state; in the run it holds because `MaxCycles` is below `2 * HalfWrap`). This is
  a condition on the interrupt's latency that no code checks. `Timely` is the part of
  the invariant that needs it: the driver never announces cycles that have not
  passed, no sleeping thread's time is behind the tick of its timeout, and the
  alarm is in time.
- `TimersKeepFaith` (`TimersHonest`), for one thread in `k_timer_status_sync` and no
  `k_timer_stop` above the timer's interrupt (section 3 has what happens otherwise).

`ObjectsProofs` proves for any finite sets of threads, items and descriptors, any
priorities, ring and stack sizes and limit of the semaphore:

- `ObjWaitsInvariant` (`ObjWaitInv`), `SlabBlocksAccounted` (`BlocksAccounted`) and
  `MailNeverLost` (`MailInv`), without further condition, also with `Surplus`. The
  inductive `IInv` has a part that all objects share and one part for each.
  `PendInv` says that queues and threads agree, that the queues are sorted and
  without repetition, and what a thread carries in each place: a waiter's return
  value is already the one of a timeout, and a result is in the thread before it
  runs. `RingInv` ties the two indices to the count, and the kind of waiter to the
  ring being empty or full; `StacksInv` and `NodesInv` say that nobody waits on
  what is not empty. `SlabInv` must name the blocks on their way (`Given`): a free
  hands a block to a thread that is in no ghost set yet, so `num_used` is the
  callers' blocks and those. `MboxInv` follows a message through the sections of
  the calls: which thread has it or is to fill it (`Has`, `Fills`), that this is
  one place only (`MailPlaced`), that no waiting pair suits (`NoneSuits`: a
  message is matched with everybody in the other queue before it is queued), and
  that signals owed are those in the semaphore, about to be given, or to be given
  at a disposal (`SignalsDue`).
- `ObjectsAreBuffers` (`ImplementsAbsBuffer`), where `Orderly` holds: no list with
  fewer items than there are waiters is appended to a queue, and no message queue
  is purged while readers wait. For each object there
  are lemmas on what `AbsBuffer` sees of it (`View...`) and one for each action on
  the abstract step it is (`Refine...`). The ring is read as the sequence of the
  cells from `read_ptr` on (`Cell`); a stack is the sequence backwards. An
  announcement maps to `Quiet`, a callback to `Expire` or `Quiet`, a thread that
  runs again to `Return`; every step of a mailbox, for which `AbsBuffer` promises
  nothing, is a stutter. With `Surplus` the refinement is false:
  `k_queue_append_list` unpends one waiter too many, which then is neither
  waiting nor done. With `PurgesReaders` it is false too: `k_msgq_purge` ends
  waits that the abstract purge leaves alone.
- `GettersAreKept` (`GettersKept`, but for mailboxes), under `Orderly`: the statement
  that `getters_lost` refutes. Those two uses are therefore the only ones that take a
  getter out of its wait queue for nothing. Beyond `IInv` it needs that no getter
  was ever given `-ENOMSG` (`Unpurged`).

The sets are assumed finite (`PendAssumption`, `MboxAssumption`) because
cardinalities are counted; a kernel image has finitely many of each.

Only model-checked, for good: the liveness properties `TimedTakeEnds`, `SyncEnds`
and `QueuedRuns`, since fairness and `ENABLED` are outside the prover's reach. Every
other invariant, action property and refinement of a passing run has a theorem;
where it carries a hypothesis, section 3 shows the code breaking the property
without it, or (`Gentle`, `LongPeriods`, `Announcing`) this section says what it
excludes.

## 5. Not modelled, and why

- Outside `Clock`, tick arithmetic: in the other models any linked timeout may be
  the one that expires, and delays are "none", "some" or "for ever". `Clock` is
  what justifies that a linked timeout does expire.
- In the driver, the counter stopped for sloppy idle and the separate idle timer,
  neither of which this build has; `sys_timepoint_*`.
- Taking an object's memory from the heap and giving it back (`k_msgq_alloc_init`,
  `k_stack_alloc_init`, the two `cleanup` calls).
- Message contents and sizes. A mailbox sender that waits off the queue can be
  made ready by other calls on it (`k_thread_resume` after a suspension) before
  its message is disposed of: `Mbox` leaves suspension to `Sched`.
- `k_queue_remove` and `k_queue_unique_append` (`queue.c:353-382`), documented as
  `isr_ok`. They walk the list, and the first unlinks a node, without the queue's
  lock. An item inserted behind the node after its `next` was read is cut off; two
  `k_queue_unique_append` calls with one item that overlap both find it missing and
  both append it; and a walk that stands on an item which is got and put back goes
  on from the end. As one atomic step they would promise what the code does not
  do, so `KQueue`, the refinement of `AbsBuffer` and the theorems on queues are about
  the locked calls. `k_queue_peek_head` and `_tail` take no lock either, but read one
  pointer each and are one step; the second read by which they fetch the data of an
  allocated node is left out.
- Pipes: not compiled.
- Memory: stacks, registers, MPU, FPU; logging, tracing and object cores.
- Delayable work with a `K_FOREVER` delay, handlers that call a blocking
  operation on themselves (documented as illegal), drains of queues that were
  not started, setting time slicing to what it already is.
- User-mode verification wrappers (`z_vrfy_*`): not compiled.
- Everything marked `not_modelled` in `PROJECT.json`, with the reason there.

## 6. Plan

The modules above are the models, and the theorems of section 4 the proofs, that
this project means to have. Worth doing next, should the build change: pipes and
events once they are compiled in, as further objects over `Pend`; and a weaker
condition than `Gentle` for `SchedCoopPromise`.
