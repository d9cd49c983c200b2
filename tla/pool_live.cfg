SPECIFICATION FairSpec
CONSTANTS
  Clients = {c1}
  Workers = {w1, w2}
  Tasks = {t1, t2}
  NULL = NULL
  TPOOL_MAX_THREADS = 2
  TPOOL_MAX_TASKS = 1
  MaxThreadCounts = {2}
  NEED_DETACH = TRUE
  NEED_TIMED_JOIN = TRUE
  Timeouts = {"finite"}
PROPERTIES CallsReturn DetachedIsFreed ImplementsLifecycle
