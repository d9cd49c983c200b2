SPECIFICATION Spec
CONSTANTS
  Clients = {c1}
  Workers = {w1, w2, w3}
  Tasks = {t1, t2, t3}
  NULL = NULL
  TPOOL_MAX_THREADS = 2
  TPOOL_MAX_TASKS = 2
  MaxThreadCounts = {0, 1, 2, 3}
  NEED_DETACH = TRUE
  NEED_TIMED_JOIN = TRUE
  Timeouts = {"none", "finite", "infinite"}
SYMMETRY Symmetry
INVARIANTS PoolInvariant TypeOK TaskInOnePlace CountersExact DeletableWhenDone
  NoPoolUseAfterFree ThreadBound NoSleepWhileWork
PROPERTIES JoinDelivers
