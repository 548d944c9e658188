SPECIFICATION FairSpec
CONSTANTS
  t1 = t1
  t2 = t2
  t3 = t3
  Threads = {t1, t2, t3}
  Prio <- SomePrio
  MaxLimit = 2
  NULL = NULL
INVARIANTS
  TypeOK
  QueueInv
  NoLostUnit
  TimedWaitArmed
PROPERTY
  ImplementsAbsSem
  TimedTakeEnds
