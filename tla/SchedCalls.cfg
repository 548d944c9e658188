SPECIFICATION Spec
CONSTANTS
  t1 = t1
  t2 = t2
  t3 = t3
  Threads = {t1, t2}
  Main = t1
  Idle = Idle
  Objs = {w}
  NULL = NULL
  SliceTimer = SliceTimer
  InitPrio <- MixedPrio
  Prios <- TwoPrios
  MaxLock = 1
  SliceMaxPrio = 0
  NestedISR = FALSE
  Ops = {"sleep", "start", "suspend", "resume", "wakeup", "isr_suspend", "isr_resume", "isr_wakeup", "prio", "abort", "isr_abort", "join"}
INVARIANTS
  NoLostThread
  RunningIsRunnable
  DeadIsGone
  JoinHonest
