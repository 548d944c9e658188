SPECIFICATION Spec
CONSTANTS
  t1 = t1
  t2 = t2
  t3 = t3
  t4 = t4
  m1 = m1
  m2 = m2
  cv = cv
  NULL = NULL
  Threads = {t1, t2, t3, t4}
  Mutexes = {m1}
  Condvars = {cv}
  Base <- ThreePrios
  Ceiling <- CeilingOfBuild
  MaxCount = 2
INVARIANTS
  TypeOK
  Exclusion
  WaitInv
  ExactBoost
CHECK_DEADLOCK FALSE
