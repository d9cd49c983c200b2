SPECIFICATION Spec
CONSTANTS
  Clients = {c1}
  Workers = {w1}
  Tasks = {t1}
  NULL = NULL
  TPOOL_MAX_THREADS = 2
  TPOOL_MAX_TASKS = 2
  MaxThreadCounts = {1}
  NEED_DETACH = TRUE
  NEED_TIMED_JOIN = FALSE
  Timeouts = {}
INVARIANT NoTaskUseAfterFree
