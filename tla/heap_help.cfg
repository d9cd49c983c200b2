SPECIFICATION Spec
CONSTANTS
  Threads = {m, t1}
  main_thread = m
  Addrs = {a1, a2, a3}
  NULL = NULL
  ALLOCATION_BATCH_SIZE = 2
  STATIC_SIZE = 1
  Calls = {"malloc", "strdup", "getaddrinfo", "getline", "realloc", "free", "freeaddrinfo", "pthread_create"}
  ReportModes = {"leaks", "quiet"}
SYMMETRY Symmetry
INVARIANTS HeapTypeOK RecordOnce BlocksRecorded AbortsExplained InitFirst ReportExact NobodyStuck
