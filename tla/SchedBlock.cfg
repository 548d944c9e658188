SPECIFICATION Spec
CONSTANTS
  t1 = t1
  t2 = t2
  t3 = t3
  Threads = {t1, t2, t3}
  Main = t1
  Idle = Idle
  Objs = {w}
  NULL = NULL
  SliceTimer = SliceTimer
  InitPrio <- MixedPrio
  Prios <- AllPrios
  MaxLock = 1
  SliceMaxPrio = 0
  NestedISR = TRUE
  Ops = {"yield", "sleep", "pend", "wake", "isr_wake", "start", "delay_start", "lock", "slice"}
INVARIANTS
  TypeOK
  ReadyQInv
  NoLostThread
  WaitqInv
  CoopPromise
  TimeoutsKept
