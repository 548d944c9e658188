SPECIFICATION Spec
CONSTANTS
  w1 = w1
  w2 = w2
  q1 = q1
  q2 = q2
  c1 = c1
  c2 = c2
  NULL = NULL
  Works = {w1, w2}
  Delayables = {w2}
  Queues = {q1}
  Clients = {c1, c2}
  Cancellers = {c1, c2}
  NestedISR = FALSE
  Chaining = FALSE
INVARIANT
  NoStrandedCanceller
