SPECIFICATION Spec
CONSTANTS
  t1 = t1
  t2 = t2
  t3 = t3
  Threads = {t1, t2, t3}
  Main = t1
  Idle = Idle
  Objs = {w}
  NULL = NULL
  SliceTimer = SliceTimer
  InitPrio <- MixedPrio
  Prios <- AllPrios
  MaxLock = 1
  SliceMaxPrio = 0
  NestedISR = FALSE
  Ops = {"start", "sleep", "wakeup", "isr_wakeup", "prio"}
INVARIANT
  ReadyQInv
