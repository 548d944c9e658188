SPECIFICATION Spec
CONSTANTS
  m1 = m1
  m2 = m2
  s1 = s1
  y1 = y1
  NULL = NULL
  Timers = {m1}
  Sleeps = {s1}
  Syncers = {y1}
  Prio <- OnePrio
  Durations <- FarDurations
  Periods = {0, 1}
  Nested = {"start"}
  CYC_PER_TICK = 2
  COUNTER_MAX = 6
  MIN_DELAY = 2
  HalfWrap = 7
  MaxStops = 2
  MaxLost = 1
  MaxCycles = 6
INVARIANTS
  OnlyGapsLost
  TimeoutsExact
  AlarmInTime
  TimersHonest
PROPERTIES
  StrideKept
