------------------------------ MODULE HeapHelp ------------------------------
(***************************************************************************)
(* The allocation tracker of src/utils/heap_help/heap_help.c: it takes the *)
(* place of malloc, free and their kin, calls the real functions and keeps *)
(* a list of the blocks in use, which it reports when the process exits.   *)
(*                                                                         *)
(* A step is what a thread does between two points at which another thread *)
(* can get in: a test of a shared flag, a call of the C library, a section *)
(* under the spin lock.  calloc is malloc here, and the stack trace of a   *)
(* record is reduced to whether trace_is_internal says of it that the      *)
(* library made the allocation for itself.  Sizes, alloc_count_total and   *)
(* what exactly is printed are left out.                                   *)
(***************************************************************************)
EXTENDS Integers, Sequences, FiniteSets, SequencesExt

CONSTANTS
  Threads,
  main_thread,       \* the one that exits; it makes the others
  Addrs,             \* addresses that the C library hands out
  NULL,
  ALLOCATION_BATCH_SIZE,
  STATIC_SIZE,       \* blocks that dlsym wants; the static allocator has more
  Calls,             \* the functions that the program calls
  ReportModes        \* what HHREPORT may say

ASSUME HeapHelpAssumption ==
  /\ IsFiniteSet(Threads) /\ main_thread \in Threads
  /\ NULL \notin Addrs \cup Threads
  /\ Addrs \cap Nat = {}
  /\ ALLOCATION_BATCH_SIZE \in Nat \ {0}
  /\ STATIC_SIZE \in Nat
  /\ Calls \subseteq {"malloc", "strdup", "getaddrinfo", "getline", "realloc",
                      "free", "freeaddrinfo", "pthread_create"}
  /\ ReportModes \subseteq {"verbose", "leaks", "quiet"}

(* NULL also stands for an assertion that has not failed. *)
ASSUME AbortAssumption ==
  NULL \notin {"strdup at exit", "freeing bad memory", "double free",
               "initialised twice"}

VARIABLES
  setup,         \* initialisation: is_init_done, init_lock, what the
                 \* default_* pointers lead to, static_used, report_mode
  is_exit_done,
  allocs_lock,
  allocs,        \* the list of records: mem, internal
  alloc_pool,    \* how many records are in the pool: they are all alike
  alloc_batch,   \* the number of batches made and of records used in the last
  alloc_count,
  heap,          \* the C library's blocks
  owned,         \* blocks in the hands of the program
  thread,        \* local state of the threads
  report,        \* what heaph_atexit found, NULL before
  aborted,       \* the assertion that failed, NULL if none has
  history        \* for the properties only: reused, an address had records of
                 \* two kinds at a time; stolen, a call for a forgotten block
                 \* removed the record of another one; at_exit, what was in
                 \* use when heaph_atexit started, NULL if calls were under way

records == <<allocs, alloc_pool, alloc_batch, alloc_count>>
vars == <<setup, is_exit_done, allocs_lock, records, heap, owned, thread,
          report, aborted, history>>

(* A block of the C library; forgotten means that its record was dropped   *)
(* while it was in use.                                                    *)
NoBlock == [live |-> FALSE, internal |-> FALSE, info |-> FALSE, forgotten |-> FALSE]

(* ptr is the argument and res the block of the C library; forgotten is    *)
(* for the properties.                                                     *)
Idle == [pc |-> "idle", call |-> NULL, ptr |-> NULL, res |-> NULL, depth |-> 0,
         forgotten |-> FALSE]

Init ==
  /\ \E mode \in ReportModes :
       setup = [is_init_done |-> FALSE, init_lock |-> FALSE, default |-> "none",
                static_used |-> 0, report_mode |-> mode]
  /\ is_exit_done = FALSE
  /\ allocs_lock = NULL
  /\ allocs = <<>> /\ alloc_pool = 0 /\ alloc_count = 0
  /\ alloc_batch = [made |-> 0, used |-> 0]
  /\ heap = [a \in Addrs |-> NoBlock]
  /\ owned = {}
  /\ thread = [t \in Threads |-> [Idle EXCEPT !.pc = IF t = main_thread THEN "idle" ELSE "none"]]
  /\ report = NULL
  /\ aborted = NULL
  /\ history = [reused |-> FALSE, stolen |-> FALSE, at_exit |-> NULL]

-----------------------------------------------------------------------------
(* Calls and their ends.                                                   *)

At(t, pc) == aborted = NULL /\ thread[t].pc = pc

Goto(t, pc) == thread' = [thread EXCEPT ![t].pc = pc]

(* heaph_assert fails. *)
Abort(what) ==
  /\ aborted' = what
  /\ UNCHANGED <<setup, is_exit_done, allocs_lock, records, heap, owned, thread,
                 report, history>>

(* spinlock_acq succeeds.  A section under the lock that nobody can see    *)
(* from outside is one step.                                               *)
Unlocked == allocs_lock = NULL

(* The stack of an allocation that the C library makes for itself. *)
trace_is_internal(call) == call = "pthread_create"

(* static_malloc returns offsets into the static buffer. *)
alloc_is_static(ptr) == ptr \in 0..(STATIC_SIZE - 1)

(* The call of thread t is over and leaves block res to the program, or,   *)
(* if it is pthread_create, to the thread that it has made.                *)
Return(t, res) ==
  IF thread[t].call = "pthread_create"
  THEN /\ thread' = [u \in Threads |->
            CASE u = t -> Idle
              [] u # t /\ res # NULL /\ thread[u].pc = "none"
                   /\ u = CHOOSE v \in Threads : thread[v].pc = "none" -> Idle
              [] OTHER -> thread[u]]
       /\ UNCHANGED owned
  ELSE /\ thread' = [thread EXCEPT ![t] = Idle]
       /\ owned' = owned \cup ({res} \ {NULL})

(* The program calls a function: heaph_touch comes first.  Only blocks in  *)
(* its hands are passed on, each by one thread; freeaddrinfo is for what   *)
(* getaddrinfo has made.  Calls made after heaph_atexit has ended are left *)
(* out: is_exit_done keeps them away from the records.                     *)
Call(t, call, ptr) ==
  /\ At(t, "idle") /\ thread[main_thread].pc # "ended"
  /\ call \in Calls
  /\ \/ /\ call \in {"malloc", "strdup", "getaddrinfo", "getline", "realloc",
                   "pthread_create"}
        /\ ptr = NULL
     \/ call \in {"realloc", "getline", "free"} /\ ptr \in owned /\ ~heap[ptr].info
     \/ call = "freeaddrinfo" /\ ptr \in owned /\ heap[ptr].info
     \/ call = "realloc" /\ alloc_is_static(ptr) /\ ptr < setup.static_used
  /\ call = "pthread_create" => \E u \in Threads : thread[u].pc = "none"
  /\ owned' = owned \ {ptr}
  /\ thread' = [thread EXCEPT ![t] =
       [Idle EXCEPT !.pc = IF setup.is_init_done THEN "enter" ELSE "touch",
                    !.call = call, !.ptr = ptr, !.depth = 1,
                    !.forgotten = ptr \in owned /\ heap[ptr].forgotten]]
  /\ UNCHANGED <<setup, is_exit_done, allocs_lock, records, heap, report,
                 aborted, history>>

-----------------------------------------------------------------------------
(* heaph_init                                                              *)

(* Variant: the flag is set before the work. *)
InitFlagFirst(t) ==
  /\ At(t, "touch")
  /\ ~setup.init_lock
  /\ setup' = [setup EXCEPT !.init_lock = TRUE, !.default = "static",
                            !.is_init_done = TRUE]
  /\ Goto(t, "dlsym")
  /\ UNCHANGED <<is_exit_done, allocs_lock, records, heap, owned, report,
                 aborted, history>>

(* heaph_lock, and the static allocator takes over: nobody looks again     *)
(* whether another thread has initialised everything meanwhile.            *)
InitStart(t) ==
  /\ At(t, "touch")
  /\ ~setup.init_lock
  /\ setup' = [setup EXCEPT !.init_lock = TRUE, !.default = "static"]
  /\ Goto(t, "dlsym")
  /\ UNCHANGED <<is_exit_done, allocs_lock, records, heap, owned, report,
                 aborted, history>>

(* dlsym allocates: heaph_touch returns because this thread has the lock,  *)
(* and static_malloc serves.  What dlsym frees is not reused.              *)
InitAllocates(t) ==
  /\ At(t, "dlsym")
  /\ setup.static_used < STATIC_SIZE
  /\ setup' = [setup EXCEPT !.static_used = @ + 1]
  /\ UNCHANGED <<is_exit_done, allocs_lock, records, heap, owned, thread, report,
                 aborted, history>>

(* The functions are known, heaph_atexit is registered. *)
InitEnd(t) ==
  /\ At(t, "dlsym")
  /\ setup.static_used = STATIC_SIZE
  /\ setup' = [setup EXCEPT !.init_lock = FALSE, !.default = "libc",
                            !.is_init_done = TRUE]
  /\ aborted' = IF setup.is_init_done THEN "initialised twice" ELSE NULL
  /\ Goto(t, "enter")
  /\ UNCHANGED <<is_exit_done, allocs_lock, records, heap, owned, report, history>>

-----------------------------------------------------------------------------
(* The C library does its part.                                            *)

Free == {a \in Addrs : ~heap[a].live}

(* Calls that get a new block from malloc or calloc, which default_malloc  *)
(* stands for, and from realloc.                                           *)
WantsBlock(t) ==
  LET call == thread[t].call IN
  \/ call \in {"malloc", "getaddrinfo", "pthread_create"}
  \/ call = "strdup" /\ ~is_exit_done
  \/ call \in {"realloc", "getline"}
     /\ (thread[t].ptr = NULL \/ alloc_is_static(thread[t].ptr))

(* A new block, or none.  strdup, getaddrinfo and getline call malloc of   *)
(* the tracker again, one level deeper; from there on they are like it.    *)
Allocate(t) ==
  LET call == thread[t].call IN
  /\ At(t, "enter") /\ WantsBlock(t)
  /\ \/ \E a \in Free :
          /\ heap' = [heap EXCEPT ![a] =
               [NoBlock EXCEPT !.live = TRUE, !.internal = trace_is_internal(call),
                               !.info = call = "getaddrinfo"]]
          /\ thread' = [thread EXCEPT ![t].pc = "trace", ![t].ptr = NULL, ![t].res = a,
               ![t].call = IF call = "pthread_create" THEN call ELSE "malloc",
               ![t].depth = IF call \in {"strdup", "getaddrinfo", "getline"} THEN 2 ELSE 1]
          /\ UNCHANGED owned
     \/ Return(t, NULL) /\ UNCHANGED heap
  /\ UNCHANGED <<setup, is_exit_done, allocs_lock, records, report, aborted, history>>

(* heaph_assert(!is_exit_done) *)
StrdupAtExit(t) ==
  /\ At(t, "enter")
  /\ thread[t].call = "strdup" /\ is_exit_done
  /\ Abort("strdup at exit")

(* default_realloc of a block, directly or, one level deeper, in getline:  *)
(* it stays where it is, moves, is freed (size 0), or is left alone when   *)
(* there is no memory.  After the last two NULL is returned and the record *)
(* goes; res is what the program has then.                                 *)
Resize(t) ==
  LET ptr == thread[t].ptr IN
  /\ At(t, "enter")
  /\ thread[t].call \in {"realloc", "getline"} /\ ptr \in Addrs
  /\ \/ Return(t, ptr) /\ UNCHANGED heap
     \/ /\ \E a \in Free :
             /\ heap' = [heap EXCEPT ![ptr] = NoBlock, ![a] = [heap[ptr] EXCEPT !.forgotten = FALSE]]
             /\ thread' = [thread EXCEPT ![t].pc = "untrace", ![t].res = a,
                  ![t].depth = IF thread[t].call = "getline" THEN 2 ELSE 1]
        /\ UNCHANGED owned
     \/ /\ thread[t].call = "realloc"
        /\ \/ heap' = [heap EXCEPT ![ptr] = NoBlock] /\ Goto(t, "untrace")
           \/ /\ heap' = [heap EXCEPT ![ptr].forgotten = TRUE]
              /\ thread' = [thread EXCEPT ![t].pc = "untrace", ![t].res = ptr]
        /\ UNCHANGED owned
  /\ UNCHANGED <<setup, is_exit_done, allocs_lock, records, report, aborted, history>>

(* default_free, called by free or, one level deeper, by freeaddrinfo. *)
Release(t) ==
  /\ At(t, "release")
  /\ heap' = [heap EXCEPT ![thread[t].ptr] = NoBlock]
  /\ aborted' = IF heap[thread[t].ptr].live THEN NULL ELSE "double free"
  /\ Return(t, NULL)
  /\ UNCHANGED <<setup, is_exit_done, allocs_lock, records, report, history>>

-----------------------------------------------------------------------------
(* alloc_trace_new                                                         *)

(* What follows alloc_trace_new: the end of a nested malloc or realloc     *)
(* leads back to the outer function, which has its own tracing to do.      *)
AfterTrace(t) ==
  IF thread[t].depth = 1 THEN Return(t, thread[t].res)
  ELSE /\ thread' = [thread EXCEPT ![t].depth = 1,
                       ![t].pc = IF thread[t].ptr = NULL THEN "trace" ELSE "untrace"]
       /\ UNCHANGED owned

(* Variant: nested allocations are recorded, too. *)
TraceNested(t) ==
  /\ At(t, "trace")
  /\ IF is_exit_done THEN AfterTrace(t) ELSE Goto(t, "take") /\ UNCHANGED owned
  /\ UNCHANGED <<setup, is_exit_done, allocs_lock, records, heap, report,
                 aborted, history>>

Trace(t) ==
  /\ At(t, "trace")
  /\ IF thread[t].depth > 1 \/ is_exit_done
     THEN AfterTrace(t)
     ELSE Goto(t, "take") /\ UNCHANGED owned
  /\ UNCHANGED <<setup, is_exit_done, allocs_lock, records, heap, report,
                 aborted, history>>

(* A record for thread t from the pool, which then holds pool, or from the *)
(* batch, a new one if limit records of the last are used.                 *)
NextRecord(t, pool, limit) ==
  /\ IF alloc_pool > 0
     THEN alloc_pool' = pool /\ UNCHANGED alloc_batch
     ELSE /\ alloc_batch' =
               IF alloc_batch.made = 0 \/ alloc_batch.used = limit
               THEN [made |-> alloc_batch.made + 1, used |-> 1]
               ELSE [alloc_batch EXCEPT !.used = @ + 1]
          /\ UNCHANGED alloc_pool
  /\ Goto(t, "record")
  /\ UNCHANGED <<setup, is_exit_done, allocs, alloc_count, heap, owned, report,
                 aborted, history>>

(* Variant: a record stays in the pool when it is taken. *)
TakeKeepsPool(t) ==
  /\ At(t, "take")
  /\ Unlocked /\ UNCHANGED allocs_lock
  /\ NextRecord(t, alloc_pool, ALLOCATION_BATCH_SIZE)

(* Variant: a full batch is noticed one record too late. *)
TakeBehindBatch(t) ==
  /\ At(t, "take")
  /\ Unlocked /\ UNCHANGED allocs_lock
  /\ NextRecord(t, alloc_pool - 1, ALLOCATION_BATCH_SIZE + 1)

(* Variant: the lock is not released. *)
TakeKeepsLock(t) ==
  /\ At(t, "take")
  /\ Unlocked /\ allocs_lock' = t
  /\ NextRecord(t, alloc_pool - 1, ALLOCATION_BATCH_SIZE)

Take(t) ==
  /\ At(t, "take")
  /\ Unlocked /\ UNCHANGED allocs_lock
  /\ NextRecord(t, alloc_pool - 1, ALLOCATION_BATCH_SIZE)

(* The record is filled and becomes the first of the list. *)
Record(t) ==
  /\ At(t, "record")
  /\ Unlocked
  /\ allocs' = <<[mem |-> thread[t].res,
                  internal |-> trace_is_internal(thread[t].call)]>> \o allocs
  /\ alloc_count' = alloc_count + 1
  /\ AfterTrace(t)
  /\ UNCHANGED <<setup, is_exit_done, allocs_lock, alloc_pool, alloc_batch, heap,
                 report, aborted, history>>

-----------------------------------------------------------------------------
(* alloc_free                                                              *)

(* What follows alloc_free. *)
AfterUntrace(t) ==
  LET self == thread[t]
      next == CASE self.call = "freeaddrinfo" /\ self.depth = 1 -> "untrace"
                [] self.call \in {"realloc", "getline"} -> "trace"
                [] OTHER -> "release"
  IN IF self.call = "realloc" /\ self.res \in {NULL, self.ptr}
     THEN Return(t, self.res)
     ELSE /\ thread' = [thread EXCEPT ![t].pc = next,
                          ![t].depth = IF next = "untrace" THEN 2 ELSE @]
          /\ UNCHANGED owned

(* free and freeaddrinfo begin with it. *)
BeforeUntrace(t) ==
  \/ At(t, "untrace")
  \/ At(t, "enter") /\ thread[t].call \in {"free", "freeaddrinfo"}

(* Variant: nested calls look for a record, too. *)
UntraceNested(t) ==
  /\ BeforeUntrace(t)
  /\ IF is_exit_done THEN AfterUntrace(t) ELSE Goto(t, "unlink") /\ UNCHANGED owned
  /\ UNCHANGED <<setup, is_exit_done, allocs_lock, records, heap, report,
                 aborted, history>>

Untrace(t) ==
  /\ BeforeUntrace(t)
  /\ IF thread[t].depth > 1 \/ is_exit_done
     THEN AfterUntrace(t)
     ELSE Goto(t, "unlink") /\ UNCHANGED owned
  /\ UNCHANGED <<setup, is_exit_done, allocs_lock, records, heap, report,
                 aborted, history>>

(* The places in the list of the records of an address. *)
Places(ptr) == {i \in DOMAIN allocs : allocs[i].mem = ptr}

(* The first record of the address goes to the pool. *)
Unlink(t) ==
  LET places == Places(thread[t].ptr) IN
  /\ At(t, "unlink")
  /\ Unlocked
  /\ \E first \in places :
       (\A i \in places : first <= i) /\ allocs' = RemoveAt(allocs, first)
  /\ alloc_pool' = alloc_pool + 1
  /\ alloc_count' = alloc_count - 1
  /\ history' = [history EXCEPT
       !.reused = @ \/ \E i, j \in places : allocs[i] # allocs[j],
       !.stolen = @ \/ thread[t].forgotten]
  /\ AfterUntrace(t)
  /\ UNCHANGED <<setup, is_exit_done, allocs_lock, alloc_batch, heap, report, aborted>>

(* heaph_assert(!"freeing bad memory") *)
UnlinkNothing(t) ==
  /\ At(t, "unlink")
  /\ Unlocked
  /\ Places(thread[t].ptr) = {}
  /\ Abort("freeing bad memory")

-----------------------------------------------------------------------------
(* heaph_atexit, called while other threads go on                          *)

(* What is in the hands of the program and of its threads. *)
InUse ==
  [leaks |-> Cardinality({a \in owned : ~heap[a].forgotten}),
   suppressed |-> Cardinality({a \in Addrs : heap[a].internal})]

ExitStart ==
  /\ At(main_thread, "idle")
  /\ setup.is_init_done /\ ~is_exit_done
  /\ is_exit_done' = TRUE
  /\ history' = [history EXCEPT !.at_exit =
       IF \A t \in Threads : thread[t].pc \in {"idle", "none"} THEN InUse ELSE NULL]
  /\ Goto(main_thread, IF setup.report_mode = "quiet" THEN "ended" ELSE "report")
  /\ UNCHANGED <<setup, allocs_lock, records, heap, owned, report, aborted>>

(* The lock is taken; it is kept as long as there is something to print. *)
ExitLock ==
  /\ At(main_thread, "report")
  /\ Unlocked
  /\ allocs_lock' = IF alloc_count = 0 THEN NULL ELSE main_thread
  /\ Goto(main_thread, IF alloc_count = 0 THEN "ended" ELSE "printing")
  /\ report' = IF alloc_count # 0 THEN NULL
               ELSE [leaks |-> 0, suppressed |-> 0]
  /\ UNCHANGED <<setup, is_exit_done, records, heap, owned, aborted, history>>

(* Variant: the library's own blocks are counted as leaks. *)
ExitCountsInternal ==
  /\ At(main_thread, "printing")
  /\ allocs_lock' = NULL
  /\ report' = [leaks |-> alloc_count, suppressed |-> 0]
  /\ Goto(main_thread, "ended")
  /\ UNCHANGED <<setup, is_exit_done, records, heap, owned, aborted, history>>

ExitReport ==
  LET leaks == Cardinality({i \in DOMAIN allocs : ~allocs[i].internal}) IN
  /\ At(main_thread, "printing")
  /\ allocs_lock' = NULL
  /\ report' = [leaks |-> leaks, suppressed |-> alloc_count - leaks]
  /\ Goto(main_thread, "ended")
  /\ UNCHANGED <<setup, is_exit_done, records, heap, owned, aborted, history>>

-----------------------------------------------------------------------------
(* What a thread does by itself in a call. *)
Step(t) ==
  \/ InitStart(t) \/ InitAllocates(t) \/ InitEnd(t)
  \/ Allocate(t) \/ StrdupAtExit(t) \/ Resize(t) \/ Release(t)
  \/ Trace(t) \/ Take(t) \/ Record(t)
  \/ Untrace(t) \/ Unlink(t) \/ UnlinkNothing(t)
  \/ t = main_thread /\ (ExitLock \/ ExitReport)

Ended ==
  /\ aborted # NULL \/ thread[main_thread].pc = "ended"
  /\ UNCHANGED vars

Next ==
  \/ \E t \in Threads, call \in Calls, ptr \in owned \cup {NULL} \cup 0..(STATIC_SIZE - 1) :
       Call(t, call, ptr)
  \/ \E t \in Threads : Step(t)
  \/ ExitStart
  \/ Ended

Spec == Init /\ [][Next]_vars

-----------------------------------------------------------------------------
(* Properties                                                              *)

Busy(t) == thread[t].pc \notin {"idle", "none", "ended"}

Blocks == [live : BOOLEAN, internal : BOOLEAN, info : BOOLEAN, forgotten : BOOLEAN]

ThreadRecords ==
  [pc : {"none", "idle", "touch", "dlsym", "enter", "trace", "take", "record",
         "untrace", "unlink", "release", "report", "printing", "ended"},
   call : Calls \cup {NULL, "malloc"},
   ptr : Addrs \cup {NULL} \cup 0..(STATIC_SIZE - 1),
   res : Addrs \cup {NULL},
   depth : 0..2,
   forgotten : BOOLEAN]

(* The states have the shape that the code gives them; no more records of  *)
(* a batch are used than it has, and alloc_count is never negative.        *)
HeapTypeOK ==
  /\ setup \in [is_init_done : BOOLEAN, init_lock : BOOLEAN,
                default : {"none", "static", "libc"}, static_used : 0..STATIC_SIZE,
                report_mode : ReportModes]
  /\ is_exit_done \in BOOLEAN
  /\ allocs_lock \in {NULL, main_thread}
  /\ allocs \in Seq([mem : Addrs, internal : BOOLEAN])
  /\ alloc_pool \in Nat
  /\ alloc_batch \in [made : Nat, used : 0..ALLOCATION_BATCH_SIZE]
  /\ alloc_count \in Nat
  /\ heap \in [Addrs -> Blocks]
  /\ owned \subseteq Addrs
  /\ thread \in [Threads -> ThreadRecords]
  /\ report \in {NULL} \cup [leaks : Nat, suppressed : Nat]

(* No struct allocation of the batches is lost, or used twice, by threads  *)
(* that take one in one locked section and link it in another: each is in  *)
(* allocs, in alloc_pool, or in the hands of one thread.                   *)
RecordOnce ==
  /\ alloc_count = Len(allocs)
  /\ alloc_count + alloc_pool + Cardinality({t \in Threads : thread[t].pc = "record"}) =
       IF alloc_batch.made = 0 THEN 0
       ELSE (alloc_batch.made - 1) * ALLOCATION_BATCH_SIZE + alloc_batch.used

(* Threads whose call still has to take away a record of an address, after *)
(* the C library has already freed it or before it does so.                *)
ToUnlink(a) ==
  {t \in Threads :
     /\ thread[t].ptr = a /\ ~thread[t].forgotten
     /\ \/ thread[t].pc = "unlink"
        \/ thread[t].pc = "untrace" /\ (thread[t].depth = 2 => thread[t].call = "getline")
        \/ thread[t].pc = "trace" /\ thread[t].depth = 2
        \/ thread[t].pc \in {"touch", "dlsym", "enter"}}

(* Until exit a block in use has its record and a block that is not has    *)
(* none, however the calls of several threads fall between default_realloc *)
(* that frees the old address and alloc_free that removes its record.  The *)
(* exception is a block that realloc failed to resize: its record is       *)
(* dropped at heap_help.c:552, and from the time that it takes away the    *)
(* record of another block nothing is said any more.                       *)
BlocksRecorded ==
  ~is_exit_done /\ aborted = NULL /\ ~history.stolen =>
    \A a \in Addrs :
      Cardinality(Places(a)) =
        Cardinality(ToUnlink(a))
        + (IF \/ a \in owned /\ ~heap[a].forgotten
              \/ heap[a].internal /\ \A t \in Threads : thread[t].res # a
           THEN 1 ELSE 0)

(* A program that uses the heap correctly is aborted in two cases only: a  *)
(* thread calls strdup when heaph_atexit has begun (heap_help.c:507), or   *)
(* frees or resizes a block that realloc failed to resize before (552).    *)
AbortsExplained ==
  /\ aborted \in {NULL, "strdup at exit", "freeing bad memory"}
  /\ aborted = "freeing bad memory" =>
       history.stolen \/ \E t \in Threads : thread[t].pc = "unlink" /\ thread[t].forgotten

(* No thread gets past heaph_touch before the functions of the C library   *)
(* are known, and no two threads initialise: the second thread of the      *)
(* process is made by a call that allocates.                               *)
InitFirst ==
  /\ \A t \in Threads :
       Busy(t) /\ thread[t].pc \notin {"touch", "dlsym"} =>
         setup.is_init_done /\ setup.default = "libc"
  /\ \A t, u \in Threads : thread[t].pc = "dlsym" /\ thread[u].pc \in {"touch", "dlsym"} => t = u
  /\ setup.is_init_done => setup.default = "libc"

(* When heaph_atexit starts while no call is under way, and no call for a  *)
(* block that realloc failed to resize took the record of another, it      *)
(* counts every block that is in use but those that realloc failed to      *)
(* resize, and those of pthread_create apart unless a reused address has   *)
(* mixed up records; whatever other threads do meanwhile.                  *)
ReportExact ==
  LET used == history.at_exit IN
  report # NULL /\ used # NULL /\ ~history.stolen =>
    /\ report.leaks + report.suppressed = used.leaks + used.suppressed
    /\ ~history.reused => report = used

(* Nobody spins for ever: a thread in a call can go on, unless it waits    *)
(* for the spin lock that heaph_atexit holds while it prints, and that can *)
(* go on then.  No call takes the lock that it has already, on the way     *)
(* through heaph_touch, alloc_free and alloc_trace_new.                    *)
NobodyStuck ==
  aborted = NULL =>
    \A t \in Threads :
      Busy(t) => \/ ENABLED Step(t)
                 \/ t # main_thread /\ allocs_lock = main_thread /\ ENABLED ExitReport

=============================================================================
