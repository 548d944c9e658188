SPECIFICATION FairSpec
CONSTANTS
  w1 = w1
  w2 = w2
  q1 = q1
  q2 = q2
  c1 = c1
  c2 = c2
  NULL = NULL
  Works = {w1, w2}
  Delayables = {w2}
  Queues = {q1, q2}
  Clients = {c1}
  Cancellers = {c1}
  NestedISR = FALSE
  Chaining = TRUE
INVARIANTS
  TypeOK
  NoReentry
  ListInv
  NoLostWakeup
  SyncHonest
  DelayInv
PROPERTIES
  QueuedRuns
  SyncEnds
