-------------------------------- MODULE Clock --------------------------------
(***************************************************************************)
(* The system clock: the timeout service of kernel/timeout.c between the   *)
(* SysTick driver below it and its users, kernel timers (kernel/timer.c)   *)
(* and thread timeouts, above it.  Each critical section is one step;      *)
(* cycles pass between steps and, by the driver's delays, within them.     *)
(* sys_clock_announce drops its lock around a timeout's function: isr says *)
(* which timeout is being handled and how far.                             *)
(***************************************************************************)
EXTENDS SysTick, PriQ

CONSTANTS
  Timers,      \* struct k_timer
  Sleeps,      \* timeouts of sleeping threads
  Syncers,     \* threads that call k_timer_status_sync
  Prio,        \* their priorities
  Durations,   \* records [abs, ticks]: a tick count from now, or an uptime
  Periods,     \* 0 is K_NO_WAIT, a timer that expires once
  Nested,      \* "start", "stop": calls by interrupts above the timer's
  NULL,
  MaxStops,    \* threads inside k_timer_stop of one timer
  MaxLost,     \* cycles that may pass where the driver does not look
  MaxCycles    \* where time ends

ASSUME ClockAssumption ==
  /\ Durations \subseteq [abs : BOOLEAN, ticks : Nat] /\ Periods \subseteq Nat
  /\ Timers \cap Sleeps = {} /\ NULL \notin Timers \cup Sleeps
  /\ Prio \in [Syncers -> Int] /\ MaxCycles \in Nat
  /\ MaxLost \in Nat /\ MaxStops \in Nat

VARIABLES
  clk,                      \* the SysTick driver and its counter
  list,                     \* timeout_list
  curr_tick,
  announce_remaining,
  isr,                      \* sys_clock_announce: where it is, on what
  period, status, wait_q,   \* struct k_timer
  pc,                       \* where each thread is in k_timer_status_sync
  stopping,                 \* how many threads are half way in k_timer_stop
  stopped                   \* ghost: timers stopped and not started since

timeouts == <<clk, list, curr_tick, announce_remaining, isr>>
timers == <<period, status, wait_q, pc, stopping, stopped>>
vars == <<timeouts, timers>>

(* A node of the list.  tick and due are history, read by no action: the   *)
(* tick the timeout was set for and the cycle before which it may not      *)
(* expire, of those the driver saw: more than these may pass, never less.  *)
Node(to, dticks, earliest) ==
  [to |-> to, dticks |-> dticks, tick |-> curr_tick + dticks, due |-> earliest]

NoIsr == [at |-> "none", to |-> NULL, dt |-> 0, due |-> 0, tick |-> 0]
NoDelay == [ctrl |-> 0, val |-> 0, gap |-> 0, calc |-> 0, write |-> 0]
INT_MAX == HalfWrap - 1
MAX_WAIT == INT_MAX

Init ==
  /\ clk = sys_clock_driver_init /\ list = <<>> /\ curr_tick = 0
  /\ announce_remaining = 0 /\ isr = NoIsr
  /\ period = [m \in Timers |-> 0] /\ status = [m \in Timers |-> 0]
  /\ wait_q = [m \in Timers |-> <<>>] /\ stopping = [m \in Timers |-> 0] /\ stopped = Timers
  /\ pc = [s \in Syncers |-> [at |-> "idle", timer |-> NULL]]

(* What the driver asks of its users: that no second wrap comes before the *)
(* first is seen (comments at elapsed() and MIN_DELAY).                    *)
InTime(n) == clk.seen + clk.lost + n <= MaxCycles /\ (clk.flag => clk.phase + n < clk.load)
Reading == {d \in Delays : /\ d.gap + d.calc + d.write = 0
                           /\ d.ctrl + d.val <= 1 /\ InTime(d.ctrl + d.val)}
Setting == {d \in Delays : /\ d.ctrl = 0 /\ d.val + d.gap + d.calc + d.write <= 1
                           /\ InTime(d.val + d.gap + d.calc + d.write)
                           /\ clk.lost + d.gap + d.write <= MaxLost}

(* Who may be calling: a thread or a lower interrupt, the expiry function  *)
(* of the timer being handled, or an interrupt above the timer's.          *)
Calls(op) == isr.at \in {"none", "expiry"} \/ op \in Nested

-----------------------------------------------------------------------------
(* elapsed() of timeout.c reads the driver's clock only when no            *)
(* announcement has ticks left; next_timeout and sys_clock_set_timeout.    *)
ReadElapsed(c, remaining) == IF remaining = 0 THEN elapsed(c, NoDelay) ELSE c
ElapsedTicks(c, remaining) == IF remaining = 0 THEN sys_clock_elapsed(c) ELSE 0

next_timeout(c, l, remaining) ==
  IF l = <<>> \/ l[1].dticks - ElapsedTicks(c, remaining) > INT_MAX THEN MAX_WAIT
  ELSE Larger(0, l[1].dticks - ElapsedTicks(c, remaining))

Reprogram(c, l, remaining, d) ==
  LET e == ReadElapsed(c, remaining)
  IN  sys_clock_set_timeout(e, next_timeout(e, l, remaining), d)

(* The distance z_add_timeout gives to a new timeout.                      *)
Dticks(c, dur) ==
  IF dur.abs THEN Larger(1, dur.ticks - curr_tick)
  ELSE dur.ticks + 1 + ElapsedTicks(c, announce_remaining)

(* Mutant: the alarm is left as it was.                                    *)
z_add_timeout_no_alarm(now, l, to, dur, d, earliest) ==
  LET c == IF dur.abs THEN now ELSE ReadElapsed(now, announce_remaining)
  IN  /\ list' = Insert(l, Node(to, Dticks(c, dur), earliest))
      /\ clk' = c

(* z_add_timeout of to, with now and l the clock and the list it finds.    *)
z_add_timeout(now, l, to, dur, d, earliest) ==
  LET c == IF dur.abs THEN now ELSE ReadElapsed(now, announce_remaining)
  IN  /\ list' = Insert(l, Node(to, Dticks(c, dur), earliest))
      /\ clk' = IF list'[1].to = to THEN Reprogram(c, list', announce_remaining, d) ELSE c

z_abort_timeout(to) == IF to \in Linked(list) THEN remove_timeout(list, to) ELSE list

-----------------------------------------------------------------------------
(* A cycle passes.                                                         *)
Cycle ==
  /\ InTime(1) /\ clk' = Run(clk, 1)
  /\ UNCHANGED <<list, curr_tick, announce_remaining, isr, timers>>

(* sys_clock_tick_get, sys_clock_cycle_get: elapsed() notes a wrap.        *)
ReadClock(d) ==
  /\ isr.at \in {"none", "expiry"} /\ clk' = elapsed(clk, d)
  /\ UNCHANGED <<list, curr_tick, announce_remaining, isr, timers>>

(* A thread goes to sleep for some ticks (for none it only yields), and is *)
(* woken before its time.                                                  *)
Sleep(s, dur, d) ==
  /\ isr.at = "none" /\ s \notin Linked(list) /\ (dur.abs \/ dur.ticks > 0)
  /\ z_add_timeout(clk, list, s, dur, d, IF dur.abs THEN dur.ticks * CYC_PER_TICK
                                         ELSE clk.seen + dur.ticks * CYC_PER_TICK)
  /\ UNCHANGED <<curr_tick, announce_remaining, isr, timers>>

Wakeup(s) ==
  /\ isr.at = "none" /\ s \in Linked(list)
  /\ list' = z_abort_timeout(s)
  /\ UNCHANGED <<clk, curr_tick, announce_remaining, isr, timers>>

-----------------------------------------------------------------------------
(* k_timer_start; with K_FOREVER it returns at once.                       *)
k_timer_start(m, dur, p, d) ==
  /\ Calls("start")
  /\ period' = [period EXCEPT ![m] = p] /\ status' = [status EXCEPT ![m] = 0]
  /\ LET ticks == IF dur.abs THEN dur.ticks ELSE Larger(dur.ticks - 1, 0)
     IN  z_add_timeout(clk, z_abort_timeout(m), m, [dur EXCEPT !.ticks = ticks], d, 0)
  /\ stopped' = stopped \ {m}
  /\ UNCHANGED <<curr_tick, announce_remaining, isr, wait_q, pc, stopping>>

(* The first waiter of m is released: z_unpend1_no_timeout and the         *)
(* z_unpend_thread_no_timeout of the expiration handler.                   *)
Release(m) ==
  IF wait_q[m] = <<>> THEN UNCHANGED <<wait_q, pc>>
  ELSE /\ wait_q' = [wait_q EXCEPT ![m] = z_priq_dumb_remove(@, Head(@))]
       /\ pc' = [pc EXCEPT ![Head(wait_q[m])].at = "woken"]

(* Mutant: a waiter is left to the expiry that will not come.              *)
StopReleases_nobody(m) ==
  /\ isr.at = "none" /\ stopping[m] > 0 /\ stopping' = [stopping EXCEPT ![m] = @ - 1]
  /\ UNCHANGED <<timeouts, period, status, wait_q, pc, stopped>>

(* k_timer_stop holds no lock between aborting the timeout and releasing   *)
(* a waiter: a thread's call takes two steps.  A call by an interrupt      *)
(* handler takes one; the handlers above it do not use the same timer.     *)
StopReleases(m) ==
  /\ isr.at = "none" /\ stopping[m] > 0 /\ stopping' = [stopping EXCEPT ![m] = @ - 1]
  /\ Release(m)
  /\ UNCHANGED <<timeouts, period, status, stopped>>

k_timer_stop(m, thread) ==
  /\ Calls("stop") /\ (thread => isr.at = "none" /\ stopping[m] < MaxStops)
  /\ stopped' = stopped \cup {m} /\ list' = z_abort_timeout(m)
  /\ CASE m \notin Linked(list) -> UNCHANGED <<wait_q, pc, stopping>>
       [] m \in Linked(list) /\ thread ->
            stopping' = [stopping EXCEPT ![m] = @ + 1] /\ UNCHANGED <<wait_q, pc>>
       [] OTHER -> Release(m) /\ UNCHANGED stopping
  /\ UNCHANGED <<clk, curr_tick, announce_remaining, isr, period, status>>

k_timer_status_get(m) ==
  /\ isr.at \in {"none", "expiry"} /\ status' = [status EXCEPT ![m] = 0]
  /\ UNCHANGED <<timeouts, period, wait_q, pc, stopping, stopped>>

(* k_timer_status_sync: it waits for an expiry or a stop of a running      *)
(* timer, and then reads the status in a second critical section.          *)
k_timer_status_sync(s, m) ==
  /\ isr.at = "none" /\ pc[s].at = "idle"
  /\ IF status[m] = 0 /\ m \in Linked(list)
     THEN /\ wait_q' = [wait_q EXCEPT ![m] = z_priq_dumb_add(@, s, Prio)]
          /\ pc' = [pc EXCEPT ![s] = [at |-> "waits", timer |-> m]]
          /\ UNCHANGED status
     ELSE status' = [status EXCEPT ![m] = 0] /\ UNCHANGED <<wait_q, pc>>
  /\ UNCHANGED <<timeouts, period, stopping, stopped>>

SyncReturns(s) ==
  /\ isr.at = "none" /\ pc[s].at = "woken"
  /\ status' = [status EXCEPT ![pc[s].timer] = 0]
  /\ pc' = [pc EXCEPT ![s] = [at |-> "idle", timer |-> NULL]]
  /\ UNCHANGED <<timeouts, period, wait_q, stopping, stopped>>

-----------------------------------------------------------------------------
(* The head of the loop of sys_clock_announce, which unlinks the next      *)
(* expired timeout or ends the announcement and sets the alarm.            *)
AnnounceLoop(c, l, remaining, d) ==
  IF l # <<>> /\ l[1].dticks <= remaining
  THEN /\ isr' = [at |-> "fn", to |-> l[1].to, dt |-> l[1].dticks,
                  due |-> l[1].due, tick |-> l[1].tick]
       /\ curr_tick' = curr_tick + l[1].dticks /\ list' = Tail(l)
       /\ announce_remaining' = remaining /\ clk' = c
  ELSE /\ list' = IF l = <<>> THEN l ELSE [l EXCEPT ![1].dticks = @ - remaining]
       /\ curr_tick' = curr_tick + remaining /\ announce_remaining' = 0
       /\ clk' = Reprogram(c, list', 0, d) /\ isr' = NoIsr

Handled(d) == AnnounceLoop(clk, list, announce_remaining - isr.dt, d)

sys_clock_isr(d) ==
  /\ isr.at = "none" /\ clk.irq
  /\ LET c == IsrClock(clk, d)
     IN  AnnounceLoop(Announced(c), list, IsrTicks(c), NoDelay)
  /\ UNCHANGED <<timers>>

(* The function of a thread's timeout, z_thread_timeout.                   *)
ThreadTimeout(d) ==
  /\ isr.at = "fn" /\ isr.to \in Sleeps /\ Handled(d)
  /\ UNCHANGED <<timers>>

(* z_timer_expiration_handler finds the timer started again ...            *)
ExpiryIgnored(d) ==
  /\ isr.at = "fn" /\ isr.to \in Timers \cap Linked(list) /\ Handled(d)
  /\ UNCHANGED <<timers>>

(* Mutant: the tick that z_add_timeout adds is not taken off.              *)
NextTick_late(m, uptime) == [abs |-> TRUE, ticks |-> uptime + 1 + period[m]]

NextTick(m, uptime) == [abs |-> TRUE, ticks |-> uptime + 1 + Larger(period[m] - 1, 0)]

(* ... or starts a periodic one again, at an uptime, counts the expiry and *)
(* calls the expiry function ...                                           *)
Expiry(d) ==
  /\ isr.at = "fn" /\ isr.to \in Timers \ Linked(list)
  /\ LET m == isr.to
         c == ReadElapsed(clk, announce_remaining)
         uptime == curr_tick + ElapsedTicks(c, announce_remaining)
     IN  /\ IF period[m] = 0 THEN UNCHANGED <<list, clk>>
            ELSE z_add_timeout(c, list, m, NextTick(m, uptime), d, 0)
         /\ status' = [status EXCEPT ![m] = @ + 1]
         /\ isr' = [isr EXCEPT !.at = "expiry"]
  /\ UNCHANGED <<curr_tick, announce_remaining, period, wait_q, pc, stopping, stopped>>

(* ... and, when that has returned, releases the first waiter.             *)
ExpiryEnds(d) ==
  /\ isr.at = "expiry" /\ Release(isr.to) /\ Handled(d)
  /\ UNCHANGED <<period, status, stopping, stopped>>

Next ==
  \/ Cycle
  \/ \E d \in Reading : ReadClock(d) \/ sys_clock_isr(d)
  \/ \E d \in Setting :
       \/ ThreadTimeout(d) \/ ExpiryIgnored(d) \/ Expiry(d) \/ ExpiryEnds(d)
       \/ \E s \in Sleeps, dur \in Durations : Sleep(s, dur, d)
       \/ \E m \in Timers, dur \in Durations, p \in Periods : k_timer_start(m, dur, p, d)
  \/ \E s \in Sleeps : Wakeup(s)
  \/ \E m \in Timers : \/ StopReleases(m) \/ k_timer_status_get(m)
                      \/ \E thread \in BOOLEAN : k_timer_stop(m, thread)
  \/ \E s \in Syncers : SyncReturns(s) \/ \E m \in Timers : k_timer_status_sync(s, m)

Spec == Init /\ [][Next]_vars

-----------------------------------------------------------------------------
(* cycle_count, what elapsed() will return and a wrap it has yet to see.   *)
CyclesKnown == clk.cycle_count + Elapsed(clk) + (IF clk.flag THEN clk.load ELSE 0)

(* The counter is reset and reprogrammed, wraps between any two reads, and *)
(* COUNTFLAG is cleared by whoever reads it first: still no cycle is       *)
(* counted twice, and none is lost but in the two gaps of                  *)
(* sys_clock_set_timeout, so that the clock never goes back or ahead of    *)
(* the time and stays behind by exactly what those gaps took.              *)
OnlyGapsLost == CyclesKnown = clk.seen

(* z_timeout_expires                                                       *)
z_timeout_expires(to) == curr_tick + timeout_rem(list, to)

(* The deltas of the list always add up to the tick each timeout was set   *)
(* for; curr_tick agrees with the announced cycles; a timeout is handled   *)
(* at its own tick, and a thread sleeps for at least the ticks it asked.   *)
TimeoutsExact ==
  /\ \A i, j \in 1 .. Len(list) : list[i].to = list[j].to => i = j
  /\ \A i \in 1 .. Len(list) : z_timeout_expires(list[i].to) = list[i].tick
  /\ isr.at = "none" /\ list # <<>> => list[1].dticks >= 1
  /\ clk.announced_cycles = (curr_tick + announce_remaining - isr.dt) * CYC_PER_TICK
  /\ isr.at # "none" => isr.tick = curr_tick /\ isr.due <= clk.seen

(* With a timeout pending the interrupt is pending, or the counter will    *)
(* wrap by the tick of the first timeout, or MIN_DELAY after it was set;   *)
(* for a timeout overdue when it was set, by the next tick.  The counter   *)
(* starts only after the computation, hence one delay more.  All this is   *)
(* time as the driver knows it.                                            *)
AlarmInTime ==
  isr.at = "none" /\ list # <<>> /\ ~ clk.irq =>
    LET set == clk.seen - clk.phase
        first == clk.announced_cycles + list[1].dticks * CYC_PER_TICK
        tick == ((set + CYC_PER_TICK - 1) \div CYC_PER_TICK) * CYC_PER_TICK
    IN  set + clk.load <= Larger(IF first > set THEN first ELSE tick, set + MIN_DELAY) + 1

(* A thread waits in k_timer_status_sync only while an expiry is to come   *)
(* or being handled, or a k_timer_stop has still to release it; and a      *)
(* stopped timer does not expire until it is started again.                *)
TimersHonest ==
  /\ \A s \in Syncers : pc[s].at = "waits" =>
       \/ pc[s].timer \in Linked(list) \/ stopping[pc[s].timer] > 0
       \/ isr.at # "none" /\ isr.to = pc[s].timer
  /\ \A m \in stopped : m \notin Linked(list) /\ ~(isr.at = "fn" /\ isr.to = m)

(* timer.c on z_timer_expiration_handler: "If we're delayed for any        *)
(* reason, we still end up calculating the next expiration as a regular    *)
(* stride from where we 'should' have run".                                *)
RegularStride ==
  [][isr.at = "fn" /\ isr'.at = "expiry" /\ period[isr.to] # 0
       => z_timeout_expires(isr.to)' = curr_tick + period[isr.to]]_vars

(* The same for a timer that does not share its tick with one handled      *)
(* before it at the end of an announcement.                                *)
StrideKept ==
  [][isr.at = "fn" /\ isr'.at = "expiry" /\ period[isr.to] # 0 /\ announce_remaining # 0
       => z_timeout_expires(isr.to)' = curr_tick + period[isr.to]]_vars
==============================================================================
