SPECIFICATION SortFairSpec
CONSTANTS
  Coros = {c1, c2, c3}
  Waiters = {}
  coro_sched = coro_sched
  NULL = NULL
  CommandLines <- Calls
  Files = {1, 2}
  Contents <- SomeContents
  Junk = {0, 4}
  INT_MAX = 4
  DEFAULT_COROUTINES = 3
  DEFAULT_TARGET_LATENCY = 1000
INVARIANTS SortTypeOK EachFileSorted HeapKept OutputExact
PROPERTY Ends
