------------------------------ MODULE SysTick ------------------------------
(***************************************************************************)
(* The tickless SysTick driver, cortex_m_systick.c, and the down-counter   *)
(* it drives.  A clock is a record of                                      *)
(*   seen     ghost: cycles since start-up, less those of                  *)
(*   lost     ghost: cycles that passed where sys_clock_set_timeout does   *)
(*            not look at the counter, between two reads it takes for one  *)
(*            and between its last read and the restart;                   *)
(*   phase    cycles since the counter was reset or wrapped: the register  *)
(*            VAL reads load - phase, and 0 when phase is 0;               *)
(*   flag     COUNTFLAG, set by a wrap, cleared by reading CTRL;           *)
(*   irq      the SysTick interrupt is pending;                            *)
(*   load     last_load, the length of a period of the counter;            *)
(*   cycle_count, announced_cycles, overflow_cyc   the driver's variables. *)
(* The bodies run with interrupts locked, or in the SysTick interrupt,     *)
(* which has the highest priority, but the counter goes on: a delay says   *)
(* how many cycles pass between two reads of its registers.                *)
(***************************************************************************)
EXTENDS DeltaList

CONSTANTS
  CYC_PER_TICK,
  COUNTER_MAX,   \* the largest value of LOAD
  MIN_DELAY,     \* the smallest period the driver programs
  HalfWrap       \* 2^31: half the range of the driver's 32-bit differences

MAX_TICKS == COUNTER_MAX \div CYC_PER_TICK - 1
MAX_CYCLES == MAX_TICKS * CYC_PER_TICK

ASSUME SysTickAssumption ==
  /\ CYC_PER_TICK \in Nat \ {0} /\ COUNTER_MAX \in Nat /\ MIN_DELAY \in Nat \ {0}
  /\ HalfWrap \in Nat
  /\ MAX_TICKS > 0 /\ MIN_DELAY <= MAX_CYCLES
  /\ MAX_CYCLES + CYC_PER_TICK < HalfWrap

(* sys_clock_driver_init                                                   *)
sys_clock_driver_init ==
  [seen |-> 0, lost |-> 0, phase |-> 0, flag |-> FALSE, irq |-> FALSE, load |-> CYC_PER_TICK,
   cycle_count |-> 0, announced_cycles |-> 0, overflow_cyc |-> 0]

(* The counter runs for n cycles, of which at most one wraps it.           *)
Run(c, n) ==
  LET wraps == c.phase + n >= c.load
  IN  [c EXCEPT !.seen = @ + n, !.phase = (@ + n) % c.load,
                !.flag = @ \/ wraps, !.irq = @ \/ wraps]

VAL(c) == IF c.phase = 0 THEN 0 ELSE c.load - c.phase

(* The delays within a body: before the read of CTRL, before the second    *)
(* read of VAL, then in sys_clock_set_timeout before its own first read of *)
(* VAL, while a new LOAD value is computed, and before VAL is written.     *)
Delays == [ctrl : {0, 1}, val : {0, 1}, gap : {0, 1}, calc : {0, 1}, write : {0, 1}]

(* Mutant: a wrap between the reads of CTRL and VAL goes unseen.           *)
elapsed_flag_only(c, d) ==
  LET b == Run(c, d.ctrl)
      e == Run([b EXCEPT !.flag = FALSE], d.val)
  IN  IF b.flag THEN [e EXCEPT !.overflow_cyc = @ + c.load, !.flag = FALSE] ELSE e

(* elapsed(): the clock after it; what it returns is Elapsed of that.      *)
elapsed(c, d) ==
  LET realign(v) == IF v = 0 THEN c.load ELSE v
      val1 == realign(VAL(c))
      b == Run(c, d.ctrl)
      e == Run([b EXCEPT !.flag = FALSE], d.val)
      val2 == realign(VAL(e))
  IN  IF b.flag \/ val1 < val2
      THEN [e EXCEPT !.overflow_cyc = @ + c.load, !.flag = FALSE]
      ELSE e

Elapsed(c) == c.phase + c.overflow_cyc

(* Differences of cycle counts are kept in 32 bits.                        *)
Unannounced(c) == (c.cycle_count - c.announced_cycles) % (2 * HalfWrap)

(* sys_clock_elapsed, what it returns once elapsed() has run.              *)
sys_clock_elapsed(c) == ((Elapsed(c) + Unannounced(c)) % (2 * HalfWrap)) \div CYC_PER_TICK

(* The period to program for the next announcement, ticks from now.        *)
NextLoad(ticks, unannounced) ==
  LET t == IF ticks <= 1 THEN 0 ELSE IF ticks - 1 > MAX_TICKS THEN MAX_TICKS ELSE ticks - 1
      boundary == (t * CYC_PER_TICK + unannounced + CYC_PER_TICK - 1) \div CYC_PER_TICK
      delay == Larger(boundary * CYC_PER_TICK - unannounced, MIN_DELAY)
  IN  IF unannounced >= HalfWrap THEN MIN_DELAY
      ELSE IF delay > MAX_CYCLES THEN MAX_CYCLES ELSE delay

(* The counter runs for n cycles that nobody will count.                   *)
Unseen(c, n) == [Run(c, n) EXCEPT !.seen = c.seen, !.lost = @ + n]

(* sys_clock_set_timeout: what has elapsed is counted, the counter starts  *)
(* again with the new period, and the cycles of the computation, from p to *)
(* r, are added.  Those between elapsed()'s last read and val1, and those  *)
(* between val2 and the restart, are not.  Writing VAL clears COUNTFLAG    *)
(* but not a pending interrupt.                                            *)
sys_clock_set_timeout(c, ticks, d) ==
  LET e == elapsed(c, d)
      p == Unseen([e EXCEPT !.cycle_count = @ + Elapsed(e), !.overflow_cyc = 0], d.gap)
      r == Run(p, d.calc)
      passed == IF VAL(p) < VAL(r) THEN VAL(p) + (c.load - VAL(r)) ELSE VAL(p) - VAL(r)
  IN  [Unseen(r, d.write) EXCEPT !.cycle_count = @ + passed, !.phase = 0, !.flag = FALSE,
                                 !.load = NextLoad(ticks, Unannounced(p))]

(* sys_clock_isr up to its call of sys_clock_announce, and the ticks it    *)
(* announces.                                                              *)
IsrClock(c, d) ==
  LET e == elapsed([c EXCEPT !.irq = FALSE], d)
  IN  [e EXCEPT !.cycle_count = @ + e.overflow_cyc, !.overflow_cyc = 0]

IsrTicks(c) == Unannounced(c) \div CYC_PER_TICK
Announced(c) == [c EXCEPT !.announced_cycles = @ + IsrTicks(c) * CYC_PER_TICK]
============================================================================
