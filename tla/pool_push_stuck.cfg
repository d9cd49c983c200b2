SPECIFICATION FairSpec
CONSTANTS
  Clients = {c1, c2}
  Workers = {w1, w2}
  Tasks = {t1, t2}
  NULL = NULL
  TPOOL_MAX_THREADS = 2
  TPOOL_MAX_TASKS = 2
  MaxThreadCounts = {2}
  NEED_DETACH = FALSE
  NEED_TIMED_JOIN = FALSE
  Timeouts = {}
PROPERTY CallsReturn
