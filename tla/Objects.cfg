SPECIFICATION Spec
CONSTANTS
  hi = hi
  mid = mid
  lo = lo
  a = a
  b = b
  desc1 = desc1
  Threads = {hi, mid, lo}
  Prio <- MCPrio
  Items = {a, b}
  NULL = NULL
  ANY = ANY
  Descs = {desc1}
  max_msgs = 2
  PurgesReaders = FALSE
  num_entries <- MCEntries
  MaxNodes = 2
  Surplus = FALSE
  SemLimit = 1
  Kinds = {"msgq", "stack", "slab", "queue", "mbox"}
INVARIANTS ObjWaitInv BlocksAccounted MailInv
PROPERTY ImplementsAbsBuffer
CHECK_DEADLOCK FALSE
