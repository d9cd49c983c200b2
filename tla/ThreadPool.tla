----------------------------- MODULE ThreadPool -----------------------------
(***************************************************************************)
(* The thread pool of src/homework-04/thread_pool.c.                       *)
(*                                                                         *)
(* Threads are the pool's workers (_thread_worker) and the clients, which  *)
(* call the functions of thread_pool.h.  A step is what a thread does      *)
(* between two points at which another thread can get in: a lock           *)
(* acquisition, a condition wait, a lock-free access that another thread   *)
(* can observe.  A function that only takes a free lock, works and         *)
(* releases it is one step, guarded by the lock being free.                *)
(***************************************************************************)
EXTENDS Integers, Sequences, FiniteSets, Functions

CONSTANTS
  Clients,            \* threads of the program that use the pool
  Workers,            \* thread identities pthread_create can hand out
  Tasks,              \* addresses of struct thread_task
  NULL,
  TPOOL_MAX_THREADS,
  TPOOL_MAX_TASKS,
  MaxThreadCounts,    \* arguments the clients give to thread_pool_new
  NEED_DETACH,        \* the two compile-time switches of thread_pool.h
  NEED_TIMED_JOIN,
  Timeouts            \* kinds of timeout given to thread_task_timed_join

ASSUME ConstantsAssumption ==
  /\ Clients # {}
  /\ IsFiniteSet(Workers)
  /\ Clients \cap Workers = {}
  /\ NULL \notin Clients \cup Workers \cup Tasks
  /\ TPOOL_MAX_THREADS \in Nat \ {0}
  /\ TPOOL_MAX_TASKS \in Nat \ {0}
  /\ MaxThreadCounts \subseteq Int
  /\ NEED_DETACH \in BOOLEAN
  /\ NEED_TIMED_JOIN \in BOOLEAN
  /\ Timeouts \subseteq {"none", "finite", "infinite"}

VARIABLES
  pool,     \* the fields of struct thread_pool
  task,     \* the fields of struct thread_task, by address
  worker,   \* local state of every worker thread
  client    \* local state of every client thread

vars == <<pool, task, worker, client>>

(* The codes of enum thread_pool_errcode that the functions return. *)
Codes == {"OK", "INVALID_ARGUMENT", "TOO_MANY_TASKS", "HAS_TASKS",
          "TASK_NOT_PUSHED", "TASK_IN_POOL", "TIMEOUT"}

(* pending_task_list is the chain of next pointers from the head; threads  *)
(* is the array of pthread_t, <<>> while the pointer is NULL; cv and       *)
(* spawn_cv are the threads asleep on the condition variables.             *)
NoPool == [alive                       |-> FALSE,
           threads                     |-> <<>>,
           max_thread_count            |-> 0,
           thread_count                |-> 0,
           idle_thread_count           |-> 0,
           thread_idx_that_should_exit |-> -1,
           cv                          |-> {},
           spawn_cv                    |-> {},
           mutex                       |-> NULL,
           pending_task_count          |-> 0,
           running_task_count          |-> 0,
           pending_task_list           |-> <<>>]

(* A task's pool field is only ever compared with NULL; result is the push *)
(* for which the function computed it; cv is as in the pool.  Two fields   *)
(* are history: push tells one push of the task from the next (modulo 2),  *)
(* exec is how often the function ran for it (2 stands for more).          *)
FreeTask == [alive |-> FALSE, pool |-> FALSE, is_detached |-> FALSE,
             is_running |-> FALSE, is_finished |-> FALSE, result |-> NULL,
             cv |-> {}, mutex |-> NULL, push |-> 0, exec |-> 0]

NoWorker == [pc |-> "none", idx |-> 0, task |-> NULL]

(* n is the local required_thread_count of a push, the loop variable i of  *)
(* a pool deletion.                                                        *)
IdleClient == [pc |-> "idle", task |-> NULL, n |-> 0, ret |-> "OK",
               result |-> NULL]

Init ==
  /\ pool = NoPool
  /\ task = [t \in Tasks |-> FreeTask]
  /\ worker = [w \in Workers |-> NoWorker]
  /\ client = [c \in Clients |-> IdleClient]

-----------------------------------------------------------------------------
(* pthreads and the calling convention.                                    *)

(* What pthread_cond_signal can leave of a set of sleepers. *)
Signal(sleepers) ==
  IF sleepers = {} THEN {{}} ELSE {sleepers \ {x} : x \in sleepers}

(* The function client c is in returns code ret. *)
Return(c, ret) ==
  client' = [client EXCEPT ![c] = [IdleClient EXCEPT !.ret = ret]]

(* thread_task_join and its kin return 0 and store the task's result. *)
ReturnResult(c, t) ==
  client' = [client EXCEPT ![c] = [IdleClient EXCEPT !.result = task[t].result]]

(* Client c stays inside a function. *)
Block(c, pc, t, n) ==
  client' = [client EXCEPT ![c] = [@ EXCEPT !.pc = pc, !.task = t, !.n = n]]

(* Clients agree among themselves who works on a task, do not touch a task *)
(* they have detached, and call no function of a pool that is being        *)
(* deleted: the header leaves no other use.                                *)
MayUseTask(c, t) ==
  /\ client[c].pc = "idle"
  /\ task[t].alive
  /\ ~task[t].is_detached
  /\ \A d \in Clients : client[d].task # t

MayUsePool(c) ==
  /\ client[c].pc = "idle"
  /\ pool.alive
  /\ \A d \in Clients : client[d].pc # "pool_join"

-----------------------------------------------------------------------------
(* _thread_worker                                                          *)

(* The mutex of the pool can be locked.  What a worker that outlives its   *)
(* pool does to the freed memory is not followed (NoPoolUseAfterFree says  *)
(* when there is one): it goes on if the memory becomes a pool again.      *)
PoolUnlocked == pool.alive /\ pool.mutex = NULL

(* The start of the thread up to the inner loop.  The mutex is not         *)
(* released between the two counts, here and after every task.             *)
WorkerStart(w) ==
  /\ worker[w].pc = "spawned"
  /\ PoolUnlocked
  /\ \E rest \in Signal(pool.spawn_cv) :
       pool' = [pool EXCEPT !.mutex = w,
                            !.thread_count = @ + 1,
                            !.spawn_cv = rest,
                            !.idle_thread_count = @ + 1]
  /\ worker' = [worker EXCEPT ![w].pc = "check"]
  /\ UNCHANGED <<task, client>>

WorkerWait(w) ==
  /\ worker[w].pc = "check"
  /\ pool.pending_task_count < 1
  /\ pool.thread_idx_that_should_exit # worker[w].idx
  /\ pool' = [pool EXCEPT !.cv = @ \cup {w}, !.mutex = NULL]
  /\ worker' = [worker EXCEPT ![w].pc = "wait"]
  /\ UNCHANGED <<task, client>>

WorkerWake(w) ==
  /\ worker[w].pc = "wait"
  /\ w \notin pool.cv
  /\ PoolUnlocked
  /\ pool' = [pool EXCEPT !.mutex = w]
  /\ worker' = [worker EXCEPT ![w].pc = "check"]
  /\ UNCHANGED <<task, client>>

WorkerExit(w) ==
  /\ worker[w].pc = "check"
  /\ pool.thread_idx_that_should_exit = worker[w].idx
  /\ pool' = [pool EXCEPT !.mutex = NULL]
  /\ worker' = [worker EXCEPT ![w].pc = "exited"]
  /\ UNCHANGED <<task, client>>

(* Variants: the task is not counted as running; it stays in the list. *)
TakeUncounted(w) ==
  /\ worker[w].pc = "check"
  /\ pool.pending_task_count >= 1
  /\ pool.thread_idx_that_should_exit # worker[w].idx
  /\ pool' = [pool EXCEPT !.pending_task_list = Tail(@),
                          !.idle_thread_count = @ - 1,
                          !.pending_task_count = @ - 1,
                          !.mutex = NULL]
  /\ worker' = [worker EXCEPT ![w].pc = "taken",
                              ![w].task = Head(pool.pending_task_list)]
  /\ UNCHANGED <<task, client>>

TakeWithoutUnlinking(w) ==
  /\ worker[w].pc = "check"
  /\ pool.pending_task_count >= 1
  /\ pool.thread_idx_that_should_exit # worker[w].idx
  /\ pool' = [pool EXCEPT !.idle_thread_count = @ - 1,
                          !.pending_task_count = @ - 1,
                          !.running_task_count = @ + 1,
                          !.mutex = NULL]
  /\ worker' = [worker EXCEPT ![w].pc = "taken",
                              ![w].task = Head(pool.pending_task_list)]
  /\ UNCHANGED <<task, client>>

WorkerTake(w) ==
  /\ worker[w].pc = "check"
  /\ pool.pending_task_count >= 1
  /\ pool.thread_idx_that_should_exit # worker[w].idx
  /\ pool' = [pool EXCEPT !.pending_task_list = Tail(@),
                          !.idle_thread_count = @ - 1,
                          !.pending_task_count = @ - 1,
                          !.running_task_count = @ + 1,
                          !.mutex = NULL]
  /\ worker' = [worker EXCEPT ![w].pc = "taken",
                              ![w].task = Head(pool.pending_task_list)]
  /\ UNCHANGED <<task, client>>

(* Variant: the task is marked finished before the pool's lock is taken. *)
ExecuteAndFinishEarly(w) ==
  LET t == worker[w].task IN
  /\ worker[w].pc = "taken"
  /\ task' = [task EXCEPT ![t].is_finished = TRUE,
                          ![t].exec = IF @ < 2 THEN @ + 1 ELSE @]
  /\ worker' = [worker EXCEPT ![w].pc = "lock_pool"]
  /\ UNCHANGED <<pool, client>>

(* is_running is set without a lock, and task->function(task->arg) runs    *)
(* and returns.                                                            *)
WorkerExecute(w) ==
  LET t == worker[w].task IN
  /\ worker[w].pc = "taken"
  /\ task' = [task EXCEPT ![t] = [@ EXCEPT !.is_running = TRUE,
                                           !.exec = IF task[t].exec = 0 THEN 1 ELSE 2]]
  /\ worker' = [worker EXCEPT ![w].pc = "lock_pool"]
  /\ UNCHANGED <<pool, client>>

WorkerLockPool(w) ==
  /\ worker[w].pc = "lock_pool"
  /\ PoolUnlocked
  /\ pool' = [pool EXCEPT !.mutex = w]
  /\ worker' = [worker EXCEPT ![w].pc = "lock_task"]
  /\ UNCHANGED <<task, client>>

(* Variants: no signal to the joiner; the count forgotten for a detached   *)
(* task; a detached task treated like any other.                           *)
FinishUnsignalled(w) ==
  LET t == worker[w].task IN
  /\ worker[w].pc = "lock_task"
  /\ task[t].mutex = NULL
  /\ pool' = [pool EXCEPT !.running_task_count = @ - 1]
  /\ task' = IF task[t].is_detached
             THEN [task EXCEPT ![t] = FreeTask]
             ELSE [task EXCEPT ![t].is_finished = TRUE,
                               ![t].result = task[t].push, ![t].mutex = w]
  /\ worker' = [worker EXCEPT ![w].pc = "unlock_task"]
  /\ UNCHANGED client

FinishUncounted(w) ==
  LET t == worker[w].task IN
  /\ worker[w].pc = "lock_task"
  /\ task[t].mutex = NULL
  /\ IF task[t].is_detached
     THEN task' = [task EXCEPT ![t] = FreeTask] /\ UNCHANGED pool
     ELSE /\ task' = [task EXCEPT ![t].is_finished = TRUE, ![t].cv = {},
                                  ![t].result = task[t].push, ![t].mutex = w]
          /\ pool' = [pool EXCEPT !.running_task_count = @ - 1]
  /\ worker' = [worker EXCEPT ![w].pc = "unlock_task"]
  /\ UNCHANGED client

FinishKeepsDetached(w) ==
  LET t == worker[w].task IN
  /\ worker[w].pc = "lock_task"
  /\ task[t].mutex = NULL
  /\ pool' = [pool EXCEPT !.running_task_count = @ - 1]
  /\ task' = [task EXCEPT ![t].is_finished = TRUE, ![t].cv = {},
                          ![t].result = task[t].push, ![t].mutex = w]
  /\ worker' = [worker EXCEPT ![w].pc = "unlock_task"]
  /\ UNCHANGED client

(* With both locks held: a detached task is deleted there and then, any    *)
(* other one is marked finished and its joiner signalled.                  *)
WorkerFinish(w) ==
  LET t == worker[w].task IN
  /\ worker[w].pc = "lock_task"
  /\ task[t].mutex = NULL
  /\ pool' = [pool EXCEPT !.running_task_count = @ - 1]
  /\ \/ /\ task[t].is_detached
        /\ task' = [task EXCEPT ![t] = FreeTask]
     \/ /\ ~task[t].is_detached
        /\ \E rest \in Signal(task[t].cv) :
             task' = [task EXCEPT ![t] = [@ EXCEPT !.is_running = FALSE,
                                                   !.is_finished = TRUE,
                                                   !.result = task[t].push,
                                                   !.cv = rest,
                                                   !.mutex = w]]
  /\ worker' = [worker EXCEPT ![w].pc = "unlock_task"]
  /\ UNCHANGED <<client>>

(* The unlock clears the lock word even where the task is freed memory,    *)
(* and whoever owns that memory by then.  The pool's mutex stays held for  *)
(* the next turn of the outer loop.                                        *)
WorkerUnlockTask(w) ==
  /\ worker[w].pc = "unlock_task"
  /\ task' = [task EXCEPT ![worker[w].task].mutex = NULL]
  /\ pool' = [pool EXCEPT !.idle_thread_count = @ + 1]
  /\ worker' = [worker EXCEPT ![w].pc = "check", ![w].task = NULL]
  /\ UNCHANGED client

(* pthread_cond_wait may return without a signal. *)
SpuriousWakeup ==
  \/ /\ \E w \in pool.cv : pool' = [pool EXCEPT !.cv = @ \ {w}]
     /\ UNCHANGED <<task, worker, client>>
  \/ /\ \E c \in pool.spawn_cv : pool' = [pool EXCEPT !.spawn_cv = @ \ {c}]
     /\ UNCHANGED <<task, worker, client>>
  \/ /\ \E t \in Tasks : \E c \in task[t].cv :
          task' = [task EXCEPT ![t].cv = @ \ {c}]
     /\ UNCHANGED <<pool, worker, client>>

-----------------------------------------------------------------------------
(* thread_pool_new, thread_pool_push_task, thread_pool_delete              *)

ThreadPoolNew(c, n) ==
  /\ client[c].pc = "idle"
  /\ ~pool.alive
  /\ IF n < 1 \/ n > TPOOL_MAX_THREADS
     THEN Return(c, "INVALID_ARGUMENT") /\ UNCHANGED pool
     ELSE /\ Return(c, "OK")
          /\ pool' = [NoPool EXCEPT !.alive = TRUE, !.max_thread_count = n]
  /\ UNCHANGED <<task, worker>>

(* pthread_create of a worker with index thread_count, and the wait for it *)
(* with the mutex released.  The array is resized to that index.           *)
SpawnWorker(c, t) ==
  \E w \in Workers :
    /\ worker[w].pc = "none"
    /\ worker' = [worker EXCEPT ![w].pc = "spawned",
                                ![w].idx = pool.thread_count]
    /\ pool' = [pool EXCEPT
         !.threads = [i \in 1..(pool.thread_count + 1) |->
                        IF i = pool.thread_count + 1 THEN w
                        ELSE IF i \in DOMAIN @ THEN @[i] ELSE NULL],
         !.spawn_cv = @ \cup {c}]
    /\ Block(c, "spawn_wait", t, pool.thread_count + 1)
    /\ UNCHANGED <<task>>

(* Variant: only a push into an empty list signals. *)
EnqueueSignalsFirst(c, t) ==
  /\ \E rest \in IF pool.pending_task_list = <<>> THEN Signal(pool.cv) ELSE {pool.cv} :
       pool' = [pool EXCEPT !.pending_task_list = <<t>> \o @,
                            !.pending_task_count = @ + 1,
                            !.cv = rest]
  /\ task' = [task EXCEPT ![t].pool = TRUE, ![t].is_finished = FALSE,
                          ![t].is_running = FALSE, ![t].push = 1 - @,
                          ![t].exec = 0]
  /\ Return(c, "OK")
  /\ UNCHANGED worker

(* The end of a push: the task becomes the head of the list. *)
Enqueue(c, t) ==
  /\ \E rest \in Signal(pool.cv) :
       pool' = [pool EXCEPT !.pending_task_list = <<t>> \o @,
                            !.pending_task_count = @ + 1,
                            !.cv = rest]
  /\ task' = [task EXCEPT ![t] = [@ EXCEPT !.push = 1 - task[t].push,
                                           !.exec = 0,
                                           !.pool = TRUE,
                                           !.is_finished = FALSE,
                                           !.is_running = FALSE]]
  /\ Return(c, "OK")
  /\ UNCHANGED worker

(* Variant: an off-by-one in the limit. *)
NeedsWorkerOffByOne ==
  \/ pool.threads = <<>>
  \/ /\ pool.idle_thread_count = 0
     /\ pool.thread_count <= pool.max_thread_count

(* A first worker is created with no look at the limits: with threads NULL *)
(* the count is 0.  Clients push a task that is new or joined.             *)
NeedsWorker ==
  \/ pool.threads = <<>>
  \/ /\ pool.idle_thread_count = 0
     /\ pool.thread_count < pool.max_thread_count

ThreadPoolPushTask(c, t) ==
  /\ MayUsePool(c)
  /\ MayUseTask(c, t)
  /\ ~task[t].pool
  /\ pool.mutex = NULL
  /\ \/ /\ pool.pending_task_count >= TPOOL_MAX_TASKS
        /\ Return(c, "TOO_MANY_TASKS")
        /\ UNCHANGED <<pool, task, worker>>
     \/ /\ pool.pending_task_count < TPOOL_MAX_TASKS
        /\ NeedsWorker
        /\ SpawnWorker(c, t)
     \/ /\ pool.pending_task_count < TPOOL_MAX_TASKS
        /\ ~NeedsWorker
        /\ Enqueue(c, t)

PushTaskWake(c) ==
  /\ client[c].pc = "spawn_wait"
  /\ c \notin pool.spawn_cv
  /\ pool.mutex = NULL
  /\ \/ /\ pool.thread_count # client[c].n
        /\ pool' = [pool EXCEPT !.spawn_cv = @ \cup {c}]
        /\ UNCHANGED <<task, worker, client>>
     \/ /\ pool.thread_count = client[c].n
        /\ Enqueue(c, client[c].task)

(* Variant: pending tasks are not looked at. *)
PoolBusyUnlessPending ==
  \/ pool.running_task_count > 0
  \/ pool.idle_thread_count # pool.thread_count

PoolBusy ==
  \/ pool.running_task_count > 0
  \/ pool.pending_task_count > 0
  \/ pool.idle_thread_count # pool.thread_count

(* The body of the deletion loop up to pthread_join of worker i. *)
TellToExit(c, i) ==
  /\ pool' = [pool EXCEPT !.thread_idx_that_should_exit = i, !.cv = {}]
  /\ Block(c, "pool_join", NULL, i)

ThreadPoolDelete(c) ==
  /\ MayUsePool(c)
  /\ \A d \in Clients : client[d].pc # "spawn_wait"
  /\ pool.mutex = NULL
  /\ \/ /\ PoolBusy
        /\ Return(c, "HAS_TASKS")
        /\ UNCHANGED pool
     \/ /\ ~PoolBusy
        /\ pool.thread_count = 0
        /\ Return(c, "OK")
        /\ pool' = NoPool
     \/ /\ ~PoolBusy
        /\ pool.thread_count > 0
        /\ TellToExit(c, 0)
  /\ UNCHANGED <<task, worker>>

(* Variant: the loop over the workers ends one too early. *)
PoolDeleteJoinAllButLast(c) ==
  LET i == client[c].n IN
  /\ client[c].pc = "pool_join"
  /\ worker[pool.threads[i + 1]].pc = "exited"
  /\ pool.mutex = NULL
  /\ worker' = [worker EXCEPT ![pool.threads[i + 1]] = NoWorker]
  /\ IF i + 2 < pool.thread_count
     THEN TellToExit(c, i + 1)
     ELSE Return(c, "OK") /\ pool' = NoPool
  /\ UNCHANGED task

(* pthread_join returns; the next worker is told to exit, or the pool is   *)
(* destroyed and freed.                                                    *)
PoolDeleteJoin(c) ==
  LET i == client[c].n IN
  /\ client[c].pc = "pool_join"
  /\ i + 1 \in DOMAIN pool.threads
  /\ pool.threads[i + 1] # NULL
  /\ worker[pool.threads[i + 1]].pc = "exited"
  /\ pool.mutex = NULL
  /\ worker' = [worker EXCEPT ![pool.threads[i + 1]] = NoWorker]
  /\ IF i + 1 < pool.thread_count
     THEN TellToExit(c, i + 1)
     ELSE Return(c, "OK") /\ pool' = NoPool
  /\ UNCHANGED <<task>>

-----------------------------------------------------------------------------
(* thread_task_*                                                           *)

ThreadTaskNew(c, t) ==
  /\ client[c].pc = "idle"
  /\ ~task[t].alive
  /\ task' = [task EXCEPT ![t] = [FreeTask EXCEPT !.alive = TRUE]]
  /\ Return(c, "OK")
  /\ UNCHANGED <<pool, worker>>

(* Every function of a task first asks for its pool without the lock. *)
NotPushed(c, t) ==
  /\ ~task[t].pool
  /\ Return(c, "TASK_NOT_PUSHED")
  /\ UNCHANGED task

(* Variant: an "if" where the join has a "while". *)
TakeResultUnchecked(c, t) ==
  /\ ReturnResult(c, t)
  /\ task' = [task EXCEPT ![t].pool = FALSE]

(* With the task's lock held and the task finished: hand out the result. *)
TakeResult(c, t) ==
  /\ task[t].is_finished
  /\ ReturnResult(c, t)
  /\ task' = [task EXCEPT ![t].pool = FALSE]

(* pthread_cond_wait or pthread_cond_timedwait on the task. *)
SleepOnTask(c, t, pc) ==
  /\ ~task[t].is_finished
  /\ Block(c, pc, t, 0)
  /\ task' = [task EXCEPT ![t].cv = @ \cup {c}]

ThreadTaskJoin(c, t) ==
  /\ MayUseTask(c, t)
  /\ \/ NotPushed(c, t)
     \/ /\ task[t].pool
        /\ task[t].mutex = NULL
        /\ TakeResult(c, t) \/ SleepOnTask(c, t, "join_wait")
  /\ UNCHANGED <<pool, worker>>

(* A timeout below a nanosecond does not wait.  For infinity and DBL_MAX   *)
(* the conversions to long are out of range; on x86-64 both yield LONG_MIN *)
(* and tv_nsec is negative, so pthread_cond_timedwait returns EINVAL       *)
(* without releasing the lock.                                             *)
ThreadTaskTimedJoin(c, t, timeout) ==
  /\ MayUseTask(c, t)
  /\ \/ NotPushed(c, t)
     \/ /\ task[t].pool
        /\ task[t].mutex = NULL
        /\ \/ TakeResult(c, t)
           \/ /\ timeout = "none"
              /\ ~task[t].is_finished
              /\ Return(c, "TIMEOUT")
              /\ UNCHANGED task
           \/ /\ timeout = "finite"
              /\ SleepOnTask(c, t, "timed_wait")
           \/ /\ timeout = "infinite"
              /\ ~task[t].is_finished
              /\ Block(c, "spin", t, 0)
              /\ task' = [task EXCEPT ![t].mutex = c]
  /\ UNCHANGED <<pool, worker>>

JoinWake(c) ==
  LET t == client[c].task IN
  /\ client[c].pc \in {"join_wait", "timed_wait"}
  /\ c \notin task[t].cv
  /\ task[t].mutex = NULL
  /\ TakeResult(c, t) \/ SleepOnTask(c, t, client[c].pc)
  /\ UNCHANGED <<pool, worker>>

(* pthread_cond_timedwait gives up: ETIMEDOUT, before it has the lock. *)
TimedJoinExpire(c) ==
  LET t == client[c].task IN
  /\ client[c].pc = "timed_wait"
  /\ c \in task[t].cv
  /\ task' = [task EXCEPT ![t].cv = @ \ {c}]
  /\ client' = [client EXCEPT ![c].pc = "expired"]
  /\ UNCHANGED <<pool, worker>>

(* ETIMEDOUT wins over a task that finished in the meantime. *)
TimedJoinTimeout(c) ==
  /\ client[c].pc = "expired"
  /\ task[client[c].task].mutex = NULL
  /\ Return(c, "TIMEOUT")
  /\ UNCHANGED <<pool, task, worker>>

(* One turn of the loop after EINVAL.  A worker sets is_finished with the  *)
(* lock that the loop holds, so the loop condition stays true.             *)
TimedJoinSpin(c) ==
  /\ client[c].pc = "spin"
  /\ ~task[client[c].task].is_finished
  /\ UNCHANGED vars

ThreadTaskDelete(c, t) ==
  /\ MayUseTask(c, t)
  /\ \/ /\ task[t].pool
        /\ Return(c, "TASK_IN_POOL")
        /\ UNCHANGED task
     \/ /\ ~task[t].pool
        /\ Return(c, "OK")
        /\ task' = [task EXCEPT ![t] = FreeTask]
  /\ UNCHANGED <<pool, worker>>

ThreadTaskDetach(c, t) ==
  /\ MayUseTask(c, t)
  /\ \/ NotPushed(c, t)
     \/ /\ task[t].pool
        /\ task[t].mutex = NULL
        /\ Return(c, "OK")
        /\ IF task[t].is_finished
           THEN task' = [task EXCEPT ![t] = FreeTask]
           ELSE task' = [task EXCEPT ![t] = [@ EXCEPT !.pool = FALSE,
                                                      !.is_detached = TRUE]]
  /\ UNCHANGED <<pool, worker>>

-----------------------------------------------------------------------------
WorkerStep(w) ==
  \/ WorkerStart(w) \/ WorkerWait(w) \/ WorkerWake(w) \/ WorkerExit(w)
  \/ WorkerTake(w) \/ WorkerExecute(w) \/ WorkerLockPool(w)
  \/ WorkerFinish(w) \/ WorkerUnlockTask(w)

(* The rest of a call that blocked. *)
ClientStep(c) ==
  \/ PushTaskWake(c) \/ PoolDeleteJoin(c) \/ JoinWake(c)
  \/ TimedJoinExpire(c) \/ TimedJoinTimeout(c) \/ TimedJoinSpin(c)

ClientCall(c) ==
  \/ \E n \in MaxThreadCounts : ThreadPoolNew(c, n)
  \/ ThreadPoolDelete(c)
  \/ \E t \in Tasks :
       \/ ThreadTaskNew(c, t)
       \/ ThreadPoolPushTask(c, t)
       \/ ThreadTaskJoin(c, t)
       \/ NEED_TIMED_JOIN /\ \E d \in Timeouts : ThreadTaskTimedJoin(c, t, d)
       \/ ThreadTaskDelete(c, t)
       \/ NEED_DETACH /\ ThreadTaskDetach(c, t)

Next ==
  \/ \E w \in Workers : WorkerStep(w)
  \/ \E c \in Clients : ClientStep(c) \/ ClientCall(c)
  \/ SpuriousWakeup

Spec == Init /\ [][Next]_vars

(* The operating system runs every thread, hands a lock that is released   *)
(* again and again to every thread that asks for it, and task functions    *)
(* return.  Nothing obliges a client to make a call.                       *)
Fairness ==
  /\ \A w \in Workers : SF_vars(WorkerStep(w))
  /\ \A c \in Clients : SF_vars(ClientStep(c))

FairSpec == Spec /\ Fairness
-----------------------------------------------------------------------------
(* Properties.                                                             *)

(* The worker holds a task it has taken and not yet reported as finished. *)
HasTask(w) == worker[w].pc \in {"taken", "lock_pool", "lock_task"}

BusyWorkers == {w \in Workers : HasTask(w)}

(* The worker holds the pool's mutex. *)
HasPoolMutex(w) == worker[w].pc \in {"check", "lock_task", "unlock_task"}

(* t was pushed and neither joined nor deleted, and has not finished. *)
Pushed(t) == task[t].alive /\ (task[t].pool \/ task[t].is_detached)
Unfinished(t) == Pushed(t) /\ ~task[t].is_finished

(* A worker has t. *)
Held(t) == \E w \in Workers : HasTask(w) /\ worker[w].task = t

WorkerPCs == {"none", "spawned", "check", "wait", "taken", "lock_pool",
              "lock_task", "unlock_task", "exited"}
ClientPCs == {"idle", "spawn_wait", "join_wait", "timed_wait", "expired",
              "spin", "pool_join"}

PoolRecords ==
  [alive : BOOLEAN,
   threads : Seq(Workers \cup {NULL}),
   max_thread_count : Nat,
   thread_count : Nat,
   idle_thread_count : Int,
   thread_idx_that_should_exit : Int,
   cv : SUBSET Workers,
   spawn_cv : SUBSET Clients,
   mutex : Workers \cup {NULL},
   pending_task_count : Nat,
   running_task_count : Nat,
   pending_task_list : Seq(Tasks)]

TaskRecords ==
  [alive : BOOLEAN, pool : BOOLEAN, is_detached : BOOLEAN,
   is_running : BOOLEAN, is_finished : BOOLEAN, result : {NULL, 0, 1},
   cv : SUBSET Clients, mutex : Workers \cup Clients \cup {NULL},
   push : {0, 1}, exec : {0, 1, 2}]

WorkerRecords == [pc : WorkerPCs, idx : Nat, task : Tasks \cup {NULL}]

ClientRecords ==
  [pc : ClientPCs, task : Tasks \cup {NULL}, n : Nat, ret : Codes,
   result : {NULL, 0, 1}]

(* Every field of the pool, the tasks and the threads keeps the type that  *)
(* struct thread_pool and struct thread_task give it, and the numbers of   *)
(* threads, pending and running tasks are never decremented below 0.       *)
TypeOK ==
  /\ pool \in PoolRecords
  /\ task \in [Tasks -> TaskRecords]
  /\ worker \in [Workers -> WorkerRecords]
  /\ client \in [Clients -> ClientRecords]

(* A pushed task that has not finished is in exactly one place, the pool's *)
(* list or the hands of one worker, and no other task is in either: the    *)
(* unlinking at thread_pool.c:75-77 and the linking at 198-200 neither     *)
(* lose a task nor let two workers run it, and nothing the list or a       *)
(* worker refers to has been freed.                                        *)
TaskInOnePlace ==
  /\ IsInjective(pool.pending_task_list)
  /\ \A v, w \in Workers :
       HasTask(v) /\ HasTask(w) /\ worker[v].task = worker[w].task => v = w
  /\ \A w \in Workers :
       HasTask(w) => worker[w].task \notin Range(pool.pending_task_list)
  /\ \A t \in Tasks :
       Unfinished(t) <=> t \in Range(pool.pending_task_list) \/ Held(t)

(* A worker is inside the pool's critical section exactly when it holds    *)
(* the mutex, and nobody holds the mutex of a pool that is not there.      *)
MutexHeld ==
  /\ \A w \in Workers : HasPoolMutex(w) <=> pool.mutex = w
  /\ ~pool.alive => pool.mutex = NULL

(* Every call in progress on a task works on one of its own that lives:    *)
(* a push on a task that is not in the pool, a join on one that is.        *)
CallsOnTasks ==
  /\ \A c \in Clients :
       LET t == client[c].task IN
       /\ t = NULL <=> client[c].pc \in {"idle", "pool_join"}
       /\ t # NULL => /\ task[t].alive
                      /\ ~task[t].is_detached
                      /\ task[t].pool <=> client[c].pc # "spawn_wait"
  /\ \A c, d \in Clients :
       client[c].task = client[d].task /\ client[c].task # NULL => c = d

(* How often the function of a task has run follows from where it is, and  *)
(* a finished task in the pool has the result of its last push.            *)
RunOnce ==
  /\ \A w \in Workers :
       HasTask(w) => task[worker[w].task].exec = IF worker[w].pc = "taken" THEN 0 ELSE 1
  /\ \A t \in Range(pool.pending_task_list) : task[t].exec = 0
  /\ \A t \in Tasks :
       task[t].alive /\ task[t].pool /\ task[t].is_finished
         => task[t].exec = 1 /\ task[t].result = task[t].push

(* The counters of tasks are exact. *)
TaskCountersExact ==
  /\ pool.pending_task_count = Len(pool.pending_task_list)
  /\ pool.running_task_count = Cardinality(BusyWorkers)

(* A worker that has taken a task refers to one. *)
WorkersRefer ==
  \A w \in Workers :
    HasTask(w) \/ worker[w].pc = "unlock_task" => worker[w].task \in Tasks

(* While a deletion joins the workers there is nothing to run, so that no  *)
(* task is in the pool that it then frees.                                 *)
NothingToRun ==
  ~pool.alive \/ (\E c \in Clients : client[c].pc = "pool_join")
    => /\ pool.pending_task_count = 0
       /\ \A c \in Clients : client[c].pc # "spawn_wait"
       /\ \A w \in Workers : ~HasTask(w)

(* The inductive invariant behind the theorems of ThreadPoolProofs. *)
PoolInvariant ==
  /\ TypeOK
  /\ MutexHeld
  /\ WorkersRefer
  /\ CallsOnTasks
  /\ TaskCountersExact
  /\ TaskInOnePlace
  /\ RunOnce
  /\ NothingToRun

(* The counters on which push and delete base their decisions agree with   *)
(* the threads and the list, whoever holds the mutex, until a deletion     *)
(* begins to join the workers.                                             *)
CountersExact ==
  /\ TaskCountersExact
  /\ \/ \E c \in Clients : client[c].pc = "pool_join"
     \/ /\ pool.idle_thread_count =
              Cardinality({w \in Workers : worker[w].pc \in {"check", "wait"}})
        /\ pool.thread_count =
              Cardinality({w \in Workers : worker[w].pc \notin {"none", "spawned"}})

(* Once every task that was pushed has finished, and so after every join,  *)
(* a call of thread_pool_delete does not return TPOOL_ERR_HAS_TASKS: there *)
(* is no window between the report of a finished task at                   *)
(* thread_pool.c:93-102 and the worker being counted as idle at line 64.   *)
DeletableWhenDone ==
  /\ pool.alive
  /\ pool.mutex = NULL
  /\ \A c \in Clients : client[c].pc # "spawn_wait"
  /\ \A t \in Tasks : ~Unfinished(t)
  => ~PoolBusy

(* Nobody is left inside the pool when thread_pool_delete has freed it: no *)
(* worker thread exists and no client is in a call that would touch it.    *)
NoPoolUseAfterFree ==
  ~pool.alive =>
    /\ \A w \in Workers : worker[w].pc = "none"
    /\ \A c \in Clients : client[c].pc \notin {"spawn_wait", "pool_join"}

(* "Create a new thread pool with maximum @a max_thread_count threads"     *)
(* (thread_pool.h:42), counting the threads that exist and not the ones    *)
(* that have already counted themselves.                                   *)
ThreadBound ==
  Cardinality({w \in Workers : worker[w].pc # "none"}) <= pool.max_thread_count

(* While a worker sleeps, there are at least as many workers awake to look *)
(* at the list as there are pending tasks: the one pthread_cond_signal of  *)
(* a push (thread_pool.c:204) is never lost on a worker that is not going  *)
(* to take a task.                                                         *)
NoSleepWhileWork ==
  pool.cv # {} =>
    pool.pending_task_count <=
      Cardinality({w \in Workers : \/ worker[w].pc = "check"
                                   \/ worker[w].pc = "wait" /\ w \notin pool.cv})

(* A join that takes a task out of the pool hands out the result of the    *)
(* push being joined, whose function ran exactly once; the result of an    *)
(* earlier push of a reused task is never seen.                            *)
JoinDelivers ==
  [][\A t \in Tasks :
       /\ task[t].alive /\ task[t].pool
       /\ task'[t].alive /\ ~task'[t].pool /\ ~task'[t].is_detached
       => /\ task[t].exec = 1
          /\ \E c \in Clients : /\ client[c].task \in {t, NULL}
                                /\ client'[c] = [IdleClient EXCEPT
                                                   !.result = task[t].push]]_vars

-----------------------------------------------------------------------------
(* Liveness under FairSpec.                                                *)

(* Every call that blocks returns.  For a join, no signal at               *)
(* thread_pool.c:100 is lost between the test of is_finished and the wait; *)
(* a push that has created a worker finds thread_count at the one value it *)
(* waits for (line 193); in a deletion every worker wakes up for its own   *)
(* index, in whatever order the threads run.                               *)
CallsReturn ==
  \A c \in Clients : client[c].pc # "idle" ~> client[c].pc = "idle"

(* A detached task that a worker runs is freed: "auto-delete it when it is *)
(* finished" (thread_pool.h:153).                                          *)
DetachedIsFreed ==
  \A t \in Tasks : Held(t) /\ task[t].is_detached ~> ~task[t].alive

-----------------------------------------------------------------------------
(* The pool implements the life cycle of tasks of TaskLifecycle.           *)

Stage(t) ==
  CASE ~task[t].alive -> "absent"
    [] task[t].alive /\ ~Pushed(t) -> "ready"
    [] Pushed(t) /\ task[t].is_finished -> "done"
    [] Unfinished(t) ->
         IF Held(t)
         THEN IF task[t].is_detached THEN "detached running" ELSE "running"
         ELSE IF task[t].is_detached THEN "detached pending" ELSE "pending"

stage == [t \in Tasks |-> Stage(t)]

Lifecycle == INSTANCE TaskLifecycle WITH open <- pool.alive

(* Every step of the pool's threads is a step of a task's life or none at  *)
(* all: a task is started once for each push, leaves the pool only by a    *)
(* join of its finished run, a detachment or its deletion, and the pool    *)
(* goes away only when nothing is left to run.                             *)
ImplementsLifecycle == Lifecycle!LifecycleSpec

-----------------------------------------------------------------------------
(* A statement of the documentation that the code does not keep.           *)

(* A worker only touches memory of a task that has not been freed          *)
(* (thread_pool.h:153: a detached task is deleted when it is finished).    *)
NoTaskUseAfterFree ==
  \A w \in Workers :
    HasTask(w) \/ worker[w].pc = "unlock_task" => task[worker[w].task].alive
=============================================================================
