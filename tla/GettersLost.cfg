SPECIFICATION Spec
CONSTANTS
  hi = hi
  mid = mid
  lo = lo
  a = a
  b = b
  desc1 = desc1
  Threads = {hi, mid, lo}
  Prio <- MCPrio
  Items = {a, b}
  NULL = NULL
  ANY = ANY
  Descs = {desc1}
  max_msgs = 2
  PurgesReaders = TRUE
  num_entries <- MCEntries
  MaxNodes = 2
  Surplus = TRUE
  SemLimit = 1
  Kinds = {"msgq", "queue"}
INVARIANTS GettersKept
CHECK_DEADLOCK FALSE
