SPECIFICATION FairSpec
CONSTANTS
  Coros = {c1, c2, c3, c4, c5}
  Waiters = {c1, c2}
  coro_sched = coro_sched
  NULL = NULL
INVARIANTS TypeOK ListExact UnfinishedRun PlaceToReturn FinishedReturned
PROPERTY GetsControl
