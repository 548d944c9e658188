SPECIFICATION FairSpec
CONSTANTS
  t1 = t1
  t2 = t2
  t3 = t3
  Threads = {t1, t2}
  Main = t1
  Idle = Idle
  Objs = {w}
  NULL = NULL
  SliceTimer = SliceTimer
  InitPrio <- EqualPrio
  Prios <- AllPrios
  MaxLock = 1
  SliceMaxPrio = 0
  NestedISR = FALSE
  Ops = {"start", "slice", "pend", "yield", "isr_wake"}
PROPERTIES
  SliceFair
