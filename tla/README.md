# A TLA+ model of the iu_sp programs

The repository holds the solutions of four exercises in systems programming
(`src/homework-01` to `-04`) and two tools for their tests (`src/utils`). This
directory models the parts with state of their own, checks the models with TLC
on small instances, and proves with TLAPS, for all sizes, the safety properties of
every part and that two of them implement what their headers promise, one of
them with exceptions that are named.

## 1. The system

| part | state | operations | what is hard |
|---|---|---|---|
| thread pool, `homework-04/thread_pool.c` | the pool (threads, counters, list of pending tasks, mutex, two condition variables), the tasks (flags, result, mutex, condition variable), the stacks of workers and callers | `thread_pool_new/delete/push_task`, `thread_task_new/join/timed_join/delete/detach`, the worker thread | real threads, two levels of locks, lost and spurious wakeups, timeouts against results, memory freed by another thread |
| file system in memory, `homework-03/userfs.c` | list of files, lists of blocks, table of descriptors, last error | `ufs_open/close/read/write/delete/resize/destroy` | deleted files that are still open, sums with block sizes, several descriptors on one file |
| coroutines, `homework-01/libcoro.c` | list of coroutines, who runs, whether the scheduler waits | `coro_new/yield/delete`, `coro_sched_wait`, the end of a coroutine | control that jumps between stacks, a list that changes while it is walked |
| merge sort of files, `homework-01/solution.c` | index of the next file, arrays, merge positions | file sorting in coroutines, heap sort, merge | a shared index between yields, limits of `int`, end of file |
| allocation tracker, `utils/heap_help` | list of records, pool and batches of records, flags of initialisation and exit, two spin locks | `malloc`, `calloc`, `realloc`, `free`, `strdup`, `getline`, `getaddrinfo`, `freeaddrinfo`, the report at exit | threads, a lock that is not recursive, wrapped functions that call each other, the order of freeing and recording |
| shell, `homework-02` | | | only the text of the exercise; no code |
| tests, `utils/unit.h`, scripts, make files | | | drivers, no state of interest |

The parts do not call each other, except that the sorter runs on the
coroutines and that the tests can be linked with `heap_help`. Each is therefore
a module of its own, and `MergeSort` is composed with `Coro`; `PROJECT.json` lists, under "hazards", the places where
each can go wrong and the property that watches the place.

## 2. Modules

| module | models |
|---|---|
| `ThreadPool` | the whole of `thread_pool.c` |
| `TaskLifecycle` | what `thread_pool.h` promises of tasks and of the pool, without threads: the abstract specification that `ThreadPool` implements |
| `MCThreadPool` | symmetry for TLC |
| `ThreadPoolProofs` | theorems on `ThreadPool` and its refinement of `TaskLifecycle`, with proofs |
| `ThreadPoolWorkerProofs` | theorems on the worker threads of `ThreadPool`, with proofs |
| `UserFS` | the whole of `userfs.c` |
| `FileSystem` | what `userfs.h` promises of names, descriptors, rights, positions, contents, errors and the life of files: the abstract specification that `UserFS` implements but for one call |
| `MCUserFS` | arguments of the calls and symmetry for TLC |
| `DataTheorems` | facts about numbers, lists and recursive functions that the other proofs use |
| `UserFSBlockProofs` | what the loops of `ufs_write` and `ufs_resize` do to the blocks of a file, and what the loop of `ufs_read` reads |
| `UserFSProofs` | theorems on `UserFS` and its refinement of `FileSystem`, with proofs |
| `Coro` | `libcoro.c` |
| `CoroProofs` | theorems on `Coro` and on `MergeSort`, with proofs |
| `MergeSort` | `solution.c`, composed with `Coro` |
| `MCMergeSort` | command lines and files for TLC |
| `HeapHelp` | `heap_help.c` |
| `MCHeapHelp` | symmetry of the addresses for TLC |
| `HeapHelpProofs` | theorems on the counts and the initialisation of `HeapHelp`, with proofs |
| `HeapHelpRecordProofs` | theorems on the records and the report of `HeapHelp`, with proofs |

Definitions whose comment says "Variant" are deliberate mistakes. They are used
by no specification: each stands for a plausible bug, and replacing the
definition that follows by it makes one of the properties fail. They show that
the properties are about the code.

### ThreadPool

`pool`, `task`, `worker` and `client` hold the fields of `struct thread_pool`,
of every `struct thread_task`, and the local state of the threads. A step goes
from one point where another thread can get in to the next: taking a lock,
sleeping on a condition, a write without a lock. Calls that take a free lock,
work and release it are one step. The worker (`_thread_worker`) becomes nine
actions:

| action | lines | worker's pc before -> after |
|---|---|---|
| `WorkerStart` | 53-64 | spawned -> check (holds the pool's mutex) |
| `WorkerWait`, `WorkerWake` | 65-68 | check -> wait -> check |
| `WorkerExit` | 70-73 | check -> exited |
| `WorkerTake` | 75-82 | check -> taken |
| `WorkerExecute` | 84-89 | taken -> lock_pool; the task's function runs |
| `WorkerLockPool` | 91 | lock_pool -> lock_task |
| `WorkerFinish` | 92-101 | lock_task -> unlock_task |
| `WorkerUnlockTask` | 102, 64 | unlock_task -> check, the pool's mutex still held |

The functions of the header are one action each, with one more for each way to
go on after a wait (`PushTaskWake`, `JoinWake`, `TimedJoinExpire`,
`TimedJoinTimeout`, `TimedJoinSpin`, `PoolDeleteJoin`). Condition variables are
sets of sleeping threads: a signal removes any one of them, `SpuriousWakeup`
removes one without a signal, and a thread that has been removed competes for
the lock like any other. A timed wait gives up at any moment
(`TimedJoinExpire`): real time is not modelled.

Data is abstracted: `arg` and `function` are left out, and the result of a run
is the number, modulo 2, of the push it belongs to, so that results of
different pushes can be told apart. The fields `push` and `exec` are history
and the code has nothing like them.

The clients are the program around the pool. They call anything at any time,
within what the header leaves open: a task is worked on by one client at a
time, it is not touched after `thread_task_detach`, it is pushed only when it
is new or joined, and no function of a pool is called during or after its
deletion. Different clients do push into one pool at the same time. `malloc` and
`pthread_create` do not fail, as in the code, which does not look. After
`thread_pool_delete` the memory of the pool can become a new pool; after
`thread_task_delete` that of a task can become a new task.

Left out: the three getters, which change nothing (their unlocked reads are a
data race on a `bool`), and the time arithmetic of the deadline except for its
outcome: a timeout below a nanosecond, a finite one, and an infinite one
(infinity or `DBL_MAX`). For the last the conversions to `long` are out of
range; the model takes what x86-64 yields, `LONG_MIN`, which makes `tv_nsec`
negative and `pthread_cond_timedwait` return `EINVAL` at once.

### UserFS

The program is sequential and an action is a call. A file's blocks are a
sequence of records with `occupied` and the bytes of `memory`; a new block
holds `JUNK` from `malloc` or 0 from `calloc`. `WriteBlocks`, `ReadBytes`,
`ShrinkBlocks` and `GrowBlocks` are the loops over blocks as operators, and
they work byte by byte because the properties are about bytes. The loop of
`ufs_read` is a recursive function, one turn (`ReadTurn`) for each block. `data`
(the bytes the file should have) and `patched` (a write or resize had to
change what a block held already) are history. `BLOCK_SIZE`, `MAX_FILE_SIZE`
and the first size of the table are constants, made small for TLC. Bounds of
the model that the code does not have are `MAX_CAPACITY` (places in the table)
and `MAX_BLOCKS` (blocks in a file). Calls with descriptors out of range are
included.

### Coro

`coro_this_ptr` is the coroutine whose code runs, or the scheduler's context;
one thread does everything, so exactly one of them moves. `coro_new` and its
detour through a signal handler on the new stack is one step: no other
coroutine can run in it. `CoroSchedWait` is one turn of the loop of
`coro_sched_wait`, made when main calls it and again whenever the caller gets
control back. Coroutines yield, finish, create others and delete what was
returned at will, and so does main. Nothing in `libcoro.h` keeps a coroutine from calling
`coro_sched_wait` as well, where it sets and resets the flag that main's call
uses; those of `Waiters` do. `inside` says who has given control away within
`coro_sched_wait`, so that the flag can be compared with the stacks. A step of
`coro_body` that finds the flag down sets `exited`, and the process is over.
`Coros` is the set of addresses: a coroutine that was deleted makes room for a
new one, so that there is no bound on how many are created one after the other.
`switch_count` is left out.

### FileSystem

`named` gives the files of a name (a set, so that it says something that there
is never more than one), `opened` the file, the rights and the position of each
open descriptor, `content` the bytes of a file, `error` the last error. `Write`
puts its bytes at the position, `Resize` cuts off or adds empty bytes and moves
positions behind the new end, and both ask for the right to write, as the flags
of the header say. A call that fails changes nothing but `error`, and only to a
code that the state justifies: `NO_PERMISSION` if there is a descriptor without
one of the rights, `NO_MEM` if there is a descriptor. A file is in use while it
has a name or a descriptor; then its content stays, and only then. A new file is
one that is not in use. `UserFS` maps its list of files, table of descriptors and
blocks onto these (`Abstract`); the content is read out of the blocks with
`ReadBytes` and not taken from the history variable. `ufs_resize` asks for no
right; `ResizedByAny` is the step that the code can make and `Resize` is not.

### MergeSort

The module extends `Coro`, and every action is conjoined with the step of the
library that it calls: `coro_new` for each coroutine, `coro_sched_wait` and
`coro_delete` in main's loop, `coro_yield` wherever
`yield_if_necessary_record_work_time` is called, the end of a coroutine when
`coroutine_func_f` returns. Time is not modelled: at each of these places the
coroutine may yield or go on. `phase` is where main is, `work` where every
coroutine is in `coroutine_func_f` and `heap_sort` (`i` and `j` are its loop
variables); one swap of a sift is one step, as there is a yield behind it.

| actions | lines |
|---|---|
| `PickFile`, `ReadNumbers`, `CoroutineReturns` | 139-199 |
| `BuildHeap`, `ExtractMax` | 71-97, 98-127 |
| `MainStart`, `MainCreate` | 209-256, 263-283 |
| `MainWait`, `MainDelete` | 285-289 |
| `MainOpen`, `MainMerge` | 310-321, 324-345 |

A file is a sequence of numbers, and whether whitespace follows the last one:
that decides if the loop until `feof` counts one too many, and then `malloc`
leaves something (`Junk`) in the last element. Command lines are sequences of
words; options, refused arguments, a file named twice and a file that is missing
are among them. Left out: what is printed, and the freeing of memory at the end.

### HeapHelp

`heap` is the C library: which addresses are live. `owned` are the blocks that
the program has. A call takes its block out of `owned` and returns the new one,
so that the program frees only what it has, and no block twice. A thread's `pc`
goes through the pieces of a call:

| pc | code |
|---|---|
| touch, dlsym | `heaph_touch`, `heaph_init` (466-479, 425-464) |
| enter | the call of `default_...` |
| trace, take, record | the tests, the first and the second locked section of `alloc_trace_new` (153-201) |
| untrace, unlink | the tests and the locked section of `alloc_free` (203-235) |
| release | `default_free`, `default_freeaddrinfo` |
| report, printing | `heaph_atexit` (354-423) |

`depth` is the code's. `strdup`, `getaddrinfo` and `getline` run through `trace`
(and a `getline` that moves its buffer also through `untrace`) with depth 2 for
the function of the tracker that the C library calls, and then with depth 1 for
themselves; `freeaddrinfo` the other way round. The C library may fail any
allocation, and `realloc` may leave a block where it is, move it, free it or
fail. An address is free for others as soon as the C library has freed it.

A process starts with `main_thread` alone; a further thread begins with a
`pthread_create` that returns, and `pthread_create` allocates, as
`heap_help.c:319` knows, so that initialisation is over before there are two
threads. Two threads that meet in `heaph_touch` are therefore not in the model.
Records are counted, not named; sizes are left out, and the trace of a record is
reduced to `trace_is_internal`. `calloc` differs from `malloc` in nothing that is
left.

## 3. What is checked

### Runs that pass

| run | instance | states | properties |
|---|---|---|---|
| `pool_safety` | 1 client, 3 thread identities, 3 tasks, pools of size up to 2, 2 pending tasks, invalid sizes 0 and 3, all timeouts, detaching | 700 000 | `PoolInvariant`, `TypeOK`, `TaskInOnePlace`, `CountersExact`, `DeletableWhenDone`, `NoPoolUseAfterFree`, `ThreadBound`, `NoSleepWhileWork`, `JoinDelivers` |
| `pool_live` | 1 client, 2 threads, 2 tasks, timed joins and detaching, fair | 190 000 | `CallsReturn`, `DetachedIsFreed`, `ImplementsLifecycle` |
| `ufs_table` | 2 files, 2 names, table of 1, 2 and then 4 places, read-only and read-write descriptors, writes of 1 byte, truncation to 0 | 100 000 | `TypeOK`, `RefsExact`, `UsedExact`, `NoFileLost`, `ImplementsButForResize` |
| `ufs_blocks` | 1 file, 2 descriptors, blocks of 2 bytes, up to 3 blocks, writes of 1 and 3 bytes, new sizes 0, 1, 4 and 5 (one above the limit) | 320 000 | `AppendedReadBack`, `BlocksCover`, `SizeBound` |
| `coro_sched` | 5 addresses, 2 coroutines that call `coro_sched_wait`, fair | 25 000 | `TypeOK`, `ListExact`, `UnfinishedRun`, `PlaceToReturn`, `FinishedReturned`, `GetsControl` |
| `merge_sort` | 8 command lines with 1 to 3 coroutines and 1 to 3 files, 17 contents of up to 7 numbers, fair | 520 000 | `SortTypeOK`, `EachFileSorted`, `HeapKept`, `OutputExact`, `Ends` |
| `heap_help` | 2 threads, 3 addresses, batches of 2 records, all calls, report on or off | 210 000 | `HeapTypeOK`, `RecordOnce`, `BlocksRecorded`, `AbortsExplained`, `InitFirst`, `ReportExact`, `NobodyStuck` |

What they show of the pool: a pushed task is in the list or with exactly one
worker (`TaskInOnePlace`); the counters by which push and delete decide are
exact (`CountersExact`), and there is no moment between the report of a
finished task and the worker being idle at which a deletion would fail
(`DeletableWhenDone`); no worker or caller is left inside a freed pool
(`NoPoolUseAfterFree`); with one client the limit on threads is kept
(`ThreadBound`); a signal is never lost on a worker that takes no task
(`NoSleepWhileWork`, which like `PoolInvariant` is proved for any number of
clients); a join returns the result of the push it joins, also
after timeouts and re-pushes (`JoinDelivers`); every call that blocks returns
(`CallsReturn`); a detached task is freed (`DetachedIsFreed`); and seen from
outside, tasks have the life that the header describes (`ImplementsLifecycle`,
by the mapping `stage` and `open <- pool.alive`).

Of the file system: reference counts, the counter of used places and the list
of files stay exact whatever is opened, deleted, created anew and closed; no
list walk leaves the list, with all ways of writing and resizing; files that
are appended to, cut off and extended from block boundaries read back exactly.
The limit on the size is kept although it is tested on the size and not on the
offset, because a shrinking file takes all descriptors back to its end
(`SizeBound`, for files without the flaw of `ufs_overwrite`, behind which even
this limit can be passed). Every call of `ufs_table` is a step of
`FileSystem`, with its rights, positions, bytes and error codes, or changes
nothing of it, but for a truncation without the right to write
(`ImplementsButForResize`). That is checked with files of one byte, where nothing
is overwritten across blocks and nothing grows from the middle of a block; reads
are in `ufs_blocks`, and part of the refinement that is proved.

Of the coroutines: control never reaches a finished, returned or freed
coroutine; "no place to return" is never reached, although coroutines that call
`coro_sched_wait` use the same flag (`PlaceToReturn`: such a call does not
return before main's, since every coroutine that finishes jumps to main's
context, and main removes it from the list before anybody else looks). Every
coroutine gets control (`GetsControl`), with two exceptions. `coro_new` puts a new coroutine at the head of the list (56-60) and the
scheduler begins again at the head after each one that has finished (141), so that
coroutines that each create another and finish leave those behind them without
a turn; and a coroutine that is inside `coro_sched_wait` itself sends control to
the head of the list whenever it gets it. Nothing in the repository promises more,
so neither is a finding.

Of the sorter: two coroutines never take one file and none is forgotten, main
goes on only when all are sorted (`EachFileSorted`); a coroutine that yields in
the middle of a sift comes back to a heap (`HeapKept`, the loop invariant of
`heap_sort`); what is written is in order, and for ordinary files it is exactly
what was given (`OutputExact`); the program ends (`Ends`). Ordinary are files
without `INT_MAX` and without whitespace behind the last number; for the others,
which the exercise allows, the output is wrong (`sort_merge`).

Of the tracker: records and blocks agree at every moment, counting the calls
that are between the library's free and the removal of the record
(`BlocksRecorded`); no record is lost or given out twice (`RecordOnce`); a
program that uses the heap correctly is aborted only by `strdup` at exit or
after a failed `realloc` (`AbortsExplained`); the report at exit is exact when
exit finds no call under way (`ReportExact`); a thread that is in a call can
always go on, unless it waits for the report to be printed (`NobodyStuck`). The
properties of records and report leave
out blocks that `realloc` failed to resize, whose records are dropped, and say
nothing any more once a call for such a block has taken the record of another
one at its address.
`ReportExact` allows for records of two kinds at one address, which takes a
third thread; with two its stronger part is checked throughout. The same instance
with three threads (2 500 000 states, three and a half minutes) shows no
violation either; it is too long to be one of the runs.

The bounds are enough for the cases of interest: one more thread identity than
the pool may have, so that a thread too many could appear; more tasks than may
be pending, so that pushes are refused; several blocks and a size that ends
inside one; a table that is enlarged twice; a list with coroutines before and
behind the running one, created at any moment; sifts of several swaps, more
files than coroutines and more coroutines than files; an address that one
thread gives up and another one gets while a third block is in use; a batch that
is used up. Symmetry is used where only
invariants and action properties are checked.

### Fairness

`FairSpec` of the pool has strong fairness for every worker and for the rest of
every call that blocks: the operating system runs every thread, and gives a
mutex that is free again and again to every thread that asks for it (weak
fairness would let one thread be overtaken at the lock for ever), and task
functions return. Nothing obliges a client to make a call, no thread to be
woken without a signal. `FairSpec` of the coroutines has weak fairness for the
one thread: coroutines yield or end, and main calls `coro_sched_wait` again, as
`solution.c:287` does; nothing obliges anybody to stop creating coroutines, or not
to call `coro_sched_wait` in one, so `GetsControl` names these cases itself. In `MergeSort` that need not be assumed any more:
`SortFairSpec` only says that the process runs. `HeapHelp` needs no fairness:
a call has a bounded number of steps, and `NobodyStuck` says that the next one
can be taken. That a spin lock which is free again and again is got at last is
up to the scheduler.

### Runs that show a disagreement

Each ends with a counterexample, and "findings" in `PROJECT.json` quotes the
line that the code does not keep.

| run | what happens |
|---|---|
| `pool_push_stuck` | two overlapping pushes both see the old `thread_count`, create a worker each and wait for it to be 1 while it has gone on to 2 (`!=` at line 193): both sleep for ever |
| `pool_detach_free` | the worker frees a detached task at line 95 and unlocks its mutex at line 102 |
| `pool_infinite_join` | with an infinite timeout the loop at line 280 spins with the lock the worker needs |
| `ufs_overwrite` | a write into a full block goes into a new block at the end of the file |
| `sort_merge` | a file with `INT_MAX` that ends with whitespace: one number too many is counted (154-158), never read, and sorted and written; the search for the smallest number begins with `INT_MAX` (328), finds nothing smaller, and the merge stops without writing that one |

Further disagreements seen while modelling, without a run.

- Thread pool: the test against `max_thread_count` looks at a counter that the
  new worker raises itself (180, 61), so the two pushes of `pool_push_stuck` also make
  two threads with one index, in a pool for one thread as well
  (`thread_pool.h:42`, "maximum"); `ThreadBound` is checked and proved for one
  client. The limit
  `TPOOL_MAX_TASKS` is tested before the wait at line 195 lets other pushes in,
  so two clients exceed it. A worker already signalled still counts as idle, so a
  second task may wait although a thread could be created (`README.md:53-54`).
  The "queue" of `thread_pool.h:71` is a stack.
- File system: `ufs_resize` truncates and extends through a descriptor opened
  with `UFS_READ_ONLY`, with which "it is allowed to only read the file"
  (`userfs.h:38-39`); `ufs_table` does that, and `ImplementsButForResize` names it.
  A file that was cut off inside a block and is extended again shows
  the old bytes where the header says "new empty blocks" (`userfs.h:136`,
  `userfs.c:529`), or what `malloc` left in the block; `AppendedReadBack` leaves
  such files out. `ufs_write` tests the limit on the size of
  the file and not on the offset (`userfs.c:270`), so a write into a file that is
  nearly full is refused although the file would not grow.
- Sorter: in an empty file a number is counted, too. Options behind the file
  names are counted as options and then taken for names (253).
- Tracker: three ways to abort a correct program. A thread that calls `strdup`
  when `heaph_atexit` has begun fails the assertion at line 507. A block that
  `realloc` failed to resize stays with the program but its record goes (551-552), so
  freeing it is "freeing bad memory" (234). `is_init_done` is not looked at again
  when the lock is got (469-474), so if two threads could meet there, the second
  would initialise again and fail "!old" (478); the model has no such threads.
  The first two are the exceptions of `AbortsExplained`. Besides, a
  block resized in place keeps its old size in the report, and so can a block
  whose address was handed on between `default_realloc` and `alloc_free`.
  `realloc` of a block
  from the static allocator does not copy its bytes (546-548).

## 4. What is proved

`ThreadPoolProofs` proves for every set of clients and tasks, every finite set
of workers, all limits and both compile-time switches:

| theorem | statement |
|---|---|
| `PoolInvariantHolds` | `Spec => []PoolInvariant` |
| `TypeCorrect` | `Spec => []TypeOK` |
| `TasksInOnePlace` | `Spec => []TaskInOnePlace` |
| `JoinsDeliver` | `Spec => JoinDelivers` |
| `PoolImplementsLifecycle` | `Spec => ImplementsLifecycle` |

The only assumption is `ConstantsAssumption`: the sets of threads are disjoint,
`NULL` is nobody's name, workers are finite in number, the limits are positive
numbers.

`TaskInOnePlace` is not inductive by itself. `PoolInvariant` adds what a step
needs to know:

- `MutexHeld`: a worker is in the critical section iff it holds the mutex, so
  that nobody changes the list between its test and its use;
- `TaskCountersExact`: the worker takes the head because
  `pending_task_count >= 1`, and only the exactness of the counter says that
  there is a head;
- `WorkersRefer`, `CallsOnTasks`: what the threads point to, and that one client
  at a time has a task in hand, which is in the pool or not according to the call;
- `RunOnce`: how often the function has run, from where the task is; it carries
  `JoinDelivers`;
- `NothingToRun`: while a deletion joins the workers, and while there is no
  pool, no task is pending or held, so freeing the pool loses nothing.

The proof has one lemma per action. Most actions leave every task where it is;
for them `Places` and `Runs` say that the parts about tasks are preserved when
the list and the workers' tasks stay the same. Three actions move a task, and
their lemmas do the real work: `WorkerTakeStep` (list to worker, with `PopFront`
on sequences and `BusyCount` on cardinalities), `WorkerFinishStep` (worker to
nowhere) and `Enqueued` (caller to list, with `PushFront`). `NextInvariant`
collects them, and the theorems follow by temporal logic.

`PoolImplementsLifecycle` is the refinement of `TaskLifecycle` by `stage` and
`open <- pool.alive`. A task's stage depends on its fields and on whether a
worker has it; `PoolInvariant` says that for an unfinished task the list is the
only other place. Every action either keeps the stages of all tasks
(`LifecycleRests`: the waits, the locks, the creation of a worker, the start of a
join) or moves one task by one action of the life cycle: `TakeStarts`,
`FinishEnds`, `NewCreates`, `EnqueuePushes`, `TakeResultJoins`, `DeleteFollows`,
`DetachFollows`. The freeing of the pool is a step of the life cycle because
`NothingToRun` leaves no task pending or running (`FreeCloses`).

`ThreadPoolWorkerProofs` is about the threads, from the same assumption:

| theorem | statement |
|---|---|
| `WakeInvariantHolds`, `NoWakeupLost` | `Spec => []WakeInvariant`, `Spec => []NoSleepWhileWork` |
| `CountInvariantHolds`, `CountersStayExact` | `Spec => []CountInvariant`, `Spec => []CountersExact` |
| `PoolDeletableWhenDone` | `Spec => []DeletableWhenDone` |
| `OneClientInvariantHolds`, `ThreadsBounded` | `OneClient /\ Spec => []OneClientInvariant`, `... => []ThreadBound` |
| `NobodyInFreedPool` | `OneClient /\ Spec => []NoPoolUseAfterFree` |

- `NoSleepWhileWork` could be broken by a worker that is awake and leaves without
  a task. `WakeInvariant` adds that sleepers are in the inner loop and that
  `thread_idx_that_should_exit` is only set while a deletion joins the workers,
  when by `NothingToRun` nothing is pending. What is left is counting: a push adds
  one task and one worker that is awake, a worker that takes a task removes one of
  each (`EnqueueWakes`, `WorkerWakes`).
- `CountInvariant` says of the counters what is true during a deletion as well:
  `thread_count` is not decremented, so it is the number of started workers plus
  the loop variable of the deletion. It follows that when the last turn of the
  loop is over nobody is left who had started, in whatever way the indices are
  given out (`JoinCounts`). So the counters of the next pool start right even
  where two clients have created two workers for one index, and one of them comes
  to life in that pool. (That the memory of a freed pool is not touched before it
  is a pool again is a choice of the model, see `PoolUnlocked`.)
- `ThreadBound` and `NoPoolUseAfterFree` are false for two clients: two pushes
  that overlap may each create a worker (as those of `pool_push_stuck` do).
  `OneClient` says that all clients are the same, as in the tests of the
  repository. `OneClientInvariant` adds that the array has every worker that
  exists at its index, and from the one being joined on while a deletion runs
  (`Recorded`), that the client waits for any worker that has not started
  (`SpawnAwaited`), and how long the array is (`ThreadsLength`). A push then finds
  all workers counted, so that the test of `thread_count` is one of the workers
  that exist (`SpawnSteps`), and the last join removes the last of them
  (`PoolDeleteJoinSteps`).

`CoroProofs` proves for every set of coroutines, infinite ones included (so for
programs that go on creating them), all safety properties of `Coro`:

| theorem | statement |
|---|---|
| `CoroTypeCorrect` | `Spec => []TypeOK` |
| `ListIsExact` | `Spec => []ListExact` |
| `OnlyUnfinishedRun` | `Spec => []UnfinishedRun` |
| `AlwaysPlaceToReturn` | `Spec => []PlaceToReturn` |
| `FinishedAreReturned` | `Spec => []FinishedReturned` |

None of them is inductive alone. `CoroInvariant` adds that whoever has control is
in the list (`RunnerListed`), and that the list has at most
one finished coroutine, and only while the scheduler has control inside
`coro_sched_wait` (`FinishedSoonReturned`): the one that finishes jumps to the
scheduler, which returns it before it yields again. That is why
`coro_yield_to(coro_list)` in the scheduler and `coro_yield` need no test for
finished coroutines, and why a coroutine that calls `coro_sched_wait` and has
given control away never leaves it to reset the flag under main's call. The
assumption is `CoroAssumption` (the scheduler's context is no coroutine, `NULL`
is neither, `Waiters` are coroutines).

For the program on top, `solution.c`, the same module proves for any command lines
and files, any number of coroutines and of numbers, and every pattern of yields:

| theorem | statement |
|---|---|
| `LibraryUnderSort` | `SortSpec => Spec /\ [](ListExact /\ UnfinishedRun /\ PlaceToReturn)` |
| `SortTypeCorrect` | `SortSpec => []SortTypeOK` |
| `FilesAreSorted` | `SortSpec => []EachFileSorted` |
| `HeapsAreKept` | `SortSpec => []HeapKept` |
| `OutputAscending` | `SortSpec => []Ascending(output)` |
| `OutputIsMerge` | `SortSpec => [](phase = "done" => Ascending(output) /\ Copies(output, BelowMax))` |

`SortInvariant` is the invariant of `Coro` and four parts:

- `SetUp`: the arrays are there, one for each file, before anything is sorted;
- `Control`: coroutines run only while main waits for them, and they end when no
  file is left. When main goes on the list is empty, so by `ListExact` every
  coroutine that was created has finished, and there is one at least; hence all
  files have been taken and nobody has one in hand;
- `FilesOwned`: a file below the shared index is in the hands of one coroutine, or
  its array is sorted and has the numbers of the file. What a coroutine in the
  middle of `heap_sort` has is `GoodWork`: the loop invariants `Building` and
  `Extracting`, from which `HeapKept` follows;
- `Merged`: no number that is left is below the last one written.

`SiftStep`, `BuildStep` and `ExtractStep` are about arrays as values: a swap keeps
the bag of the numbers, and the heap but for the element being moved. That the
root of a heap is the largest element (`RootLargest`) would be an induction along
the tree; instead, of the elements larger than the root one has the least index,
and its parent, which has a smaller one, is not smaller. `OutputIsMerge` keeps a
bijection between the places of the output and the elements that the merge has
passed (`Copied`), one place more with each number written; at the end those are
all elements below `INT_MAX` (others are never written, see `sort_merge`). With
`FilesAreSorted`, by which every array has the numbers of its file, and
`OrdinaryFiles`, this is what `OutputExact` says of the bags.

Besides `CoroAssumption` this needs `MergeSortAssumption`: files are sequences of
integers with or without a trailing newline, what an uninitialized `int` may hold is a
nonempty set of integers, `INT_MAX` is an integer, and a command line is a sequence of
words, each `-n`, `-t`, a number or a name.

`HeapHelpProofs` proves for every finite set of threads, all addresses, every
size of the batches and every choice of calls:

| theorem | statement |
|---|---|
| `HeapTypeCorrect` | `Spec => []HeapTypeOK` |
| `EachRecordOnce` | `Spec => []RecordOnce` |
| `InitComesFirst` | `Spec => []InitFirst` |

`HeapInvariant` adds that the tracing of a block has a block (`Results`, by which
no record is linked for `NULL`) and that before the initialisation ends only
`main_thread` exists, as every second thread is made by a call that allocates
(`Beginnings`). Most steps only move a thread (`Moves`, `QuietStep`); `TakeStep`
is the arithmetic of pool and batch, `RecordStep` and `UnlinkStep` balance the
list against it. The assumption is `HeapHelpAssumption`.

`HeapHelpRecordProofs` goes on, for the same constants:

| theorem | statement |
|---|---|
| `OneOwner` | `Spec => []Ownership` |
| `BlocksAlwaysRecorded` | `Spec => []BlocksRecorded` |
| `AbortsAlwaysExplained` | `Spec => []AbortsExplained` |
| `ReportsExact` | `Spec => []ReportExact` |
| `NeverAborted` | `PlainCalls /\ Spec => [](aborted = NULL)` |

What these say is bounded by the exceptions written into the formulas, which the
code needs. `BlocksRecorded` ends with exit and with a stolen record, and leaves
out blocks that `realloc` failed to resize. `AbortsExplained` admits `strdup` at
exit, which is a race between two threads, and a missing record after a failed
`realloc`. `ReportExact` is about exits that find no call under way, counts
nothing that `realloc` failed to resize, and tells leaks from the blocks of the
C library only where no reused address had records of both kinds.
`NeverAborted` is what is left without any exception: with neither `realloc` nor
`strdup` (`PlainCalls`) no block is forgotten and no record stolen
(`NothingForgotten`), so none of the cases of `AbortsExplained` can come about.

`Shapes` says what a thread has in its local variables at each place of a call,
and `Ownership` who has an address: a block in use belongs to the program, or to
one call, or `pthread_create` has left it to the C library. Two calls never have
one address, which is why records that are linked and unlinked without any lock
around the call still come out right. `Books` is about the records: an address has as
many as threads are on the way to unlink one, and one more if its owner is past
recording it (`Balance`). When a call gives an address up before its record is
gone, as `realloc` does, another call may get that address and record it a second
time; the balance is then 2, and each of the two removes one. So a thread that
comes to unlink always finds a record (`AbortsExplained`), unless a failed
`realloc` had dropped the record of a block that the program kept
(`history.stolen`). The report counts the records at the moment of exit, when no
call is under way and every balance is 0 or 1; counting by kind needs
`KindsRecorded` (the records of an address are of the kind of its block), which
holds as long as no address with two records was of both kinds (`history.reused`).

`AbortAssumption` adds that `NULL` is not the text of an abort.

`UserFSProofs` proves for all sets of files and names, every size of blocks,
limit on files and first size of the table, all buffers and all sizes of reads and
resizes:

| theorem | statement |
|---|---|
| `FilesTyped` | `Spec => []TypeOK` |
| `ReferencesCounted` | `Spec => []RefsExact` |
| `PlaceAlwaysFound` | `Spec => []UsedExact` |
| `FilesListed` | `Spec => []NoFileLost` |
| `WalksStayInside` | `Spec => []BlocksCover` |
| `SizeBounded` | `Spec => []SizeBound` |
| `WrittenIsRead` | `Spec => []AppendedReadBack` |
| `ImplementsIntended` | `Spec => Intended!FSInit /\ [][Intended!FSNext \/ ResizedByAnyone \/ PatchedRead]_(Intended!fsVars)` |
| `ImplementsWithoutPatches` | `Spec /\ []NothingPatched => ImplementsButForResize` |
| `ImplementsForWriters` | `AllMayWrite /\ Spec /\ []NothingPatched => ImplementsFileSystem` |

`UserFSInvariant` is `TypeOK`, the exact counter of descriptors, `RefsExact`,
`NoFileLost`, and two parts that the properties do not have:

- `FilesGood`: the blocks of a file reach as far as its size, and a file that only
  got bytes at its end is `Exact`: all blocks but the last are full, the last is
  not empty and ends with the file, and block `i` holds the bytes of `data` from
  `(i - 1) * BLOCK_SIZE` on. `AppendedReadBack` speaks of what can be read from
  where a descriptor stands, and says nothing of the bytes before or of a file
  that nobody has open; a read at offset 0 after the next `ufs_open` needs both.
- `OffsetsGood`: no offset is behind the last block, and none is behind the end of
  a file that only got bytes at its end. Without it `SizeBound` is not inductive:
  the limit is tested on the size, and a write starts at the offset.

`UserFSBlockProofs` is about blocks as values: `WriteBlocks` turns exact files into
exact files when the write starts at the end (`WriteKeepsExact`), `ShrinkBlocks`
wherever it cuts (`ShrinkKeepsExact`), `GrowBlocks` when the old size is a multiple
of the block size (`GrowKeepsExact`), and all three leave enough blocks in any
case. It also shows that `ReadBytes` of an exact file is the part of
`data` that was asked for (`ReadBytesExact`), and that any read stays inside the
blocks. Induction is not available to the provers as a rule, so the proofs use that a
set of numbers has a least one (`LeastNumber`, proved from the library's facts on
naturals): of the places where the loop of `ufs_read` would be wrong, none can
have the least distance to the end. For the same reason it has to be proved that
the recursive function `ReadLoop` exists; the lemma `RecursionHasSolution` does so
for any recursion whose values depend on smaller ones only. `UserFSProofs` then has one
lemma for each way the state changes (a file replaced, a descriptor put in,
taken out, a file freed) and one for each call.

The refinement of `FileSystem` is proved in three steps. `Intended` is `FileSystem`
with the same names, descriptors and errors and, for the content, the bytes that
the calls should give the files (`data`). Every call is a step of it or changes
nothing, with two exceptions: a resize through a descriptor without the right to
write (`ResizedByAnyone`), which does what a resize does, and a read from a file
that was written or extended in the middle (`PatchedRead`), where the blocks hold
something else than `data` and the read may find more or fewer bytes; it moves
nothing but its own position. The steps carry what is written where, how far a
read moves, which positions a resize takes back, and that `ufs_error_code`
changes only in a call that fails and changes nothing else. All this needs
`CallersInvariant`, of which `NamesUnique` is the heart: of two allocated files
with one name at least one is deleted, so it does not matter that `ufs_open`
takes the first of the list, and `ufs_delete` leaves nothing behind under the
name. With `RefsExact` and `NoFileLost` a file is allocated exactly as long as
somebody can reach it (`ReachedWhileAlive`), which is what `FileSystem` says of
the life of files.

Then, as long as no file is written or extended but at its end
(`NothingPatched`), the blocks hold those bytes (`HeldIsMeant`, from `Exact`), the
two file systems are the same (`SameFileSystem`), and only the exception for
resizes is left: that is `ImplementsButForResize`, and `ufs_overwrite` shows that
the condition is needed. If besides every way to open a
file gives the right to write (`AllMayWrite`), every descriptor has it
(`WritersStay`), every resize is one of `FileSystem`, and there is no exception.
Without that condition it is false: a descriptor for reading truncates, as it does
in `ufs_table`.

The assumption is `UserFSAssumption`: blocks have a positive size, limits are
numbers, flags are those of the header, and `NULL`, files and descriptors are
different things. Bytes of buffers are 1 to 255 so that they differ from what
`calloc` leaves. The bounds `MAX_CAPACITY` and `MAX_BLOCKS` of the model may be
any numbers, so they bound nothing that matters here.

The inductive invariants were checked by TLC before they were proved.

Only model-checked:

- everything about liveness (`CallsReturn`, `DetachedIsFreed`, `GetsControl`,
  `Ends`), which is out of the prover's reach, and `NobodyStuck` of the tracker,
  which is about `ENABLED`;
- `OutputExact` of the sorter as it stands. Its two halves are `OutputAscending` and
  `OutputIsMerge`; what is left is that the bag of a sequence put together from the
  given files and filtered is the sum of theirs, an induction over data defined
  recursively, which no theorem can state for the provers.

## 5. Plan

1. `ThreadPool`, `TaskLifecycle`, `UserFS`, `Coro` and the proof of
   `PoolInvariant`: done.
2. `MergeSort` on top of `Coro`, `HeapHelp`, and `FileSystem` with the
   refinement by `UserFS`: done.
3. The safety of `Coro`; `HeapTypeOK`, `RecordOnce` and `InitFirst` of
   `HeapHelp`: proved.
4. All safety invariants of `UserFS`, with the loops over blocks: proved.
5. All safety of `ThreadPool`, and that it implements `TaskLifecycle`: proved.
6. `BlocksRecorded`, `AbortsExplained` and `ReportExact` of `HeapHelp`: proved.
7. All safety of `MergeSort` but for the form of `OutputExact`: proved.
8. That `UserFS` implements `FileSystem`, under the conditions above: proved.

Not modelled for good: `homework-02` (no code), the tests and scripts, the
construction of stacks with `sigaltstack`, symbol resolution and printing in
`heap_help`.
