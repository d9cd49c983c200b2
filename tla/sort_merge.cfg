SPECIFICATION SortSpec
CONSTANTS
  Coros = {c1}
  Waiters = {}
  coro_sched = coro_sched
  NULL = NULL
  CommandLines <- OneCoroutine
  Files = {1, 2}
  Contents <- LargestAndTrailing
  Junk = {0}
  INT_MAX = 4
  DEFAULT_COROUTINES = 3
  DEFAULT_TARGET_LATENCY = 1000
INVARIANT MergesAll
