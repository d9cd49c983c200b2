----------------------- MODULE ThreadPoolWorkerProofs -----------------------
(***************************************************************************)
(* Proofs about the worker threads of ThreadPool.                          *)
(*                                                                         *)
(* For any number of clients, WakeInvariant is inductive: while a worker   *)
(* sleeps there are as many awake as tasks are pending, and workers exit   *)
(* only in a deletion, when nothing is pending.  So is CountInvariant,     *)
(* which gives CountersExact and DeletableWhenDone.  For a pool that one   *)
(* client uses OneClientInvariant is inductive and gives ThreadBound and   *)
(* NoPoolUseAfterFree.  It relates the array of threads to the threads:    *)
(* with two clients, who may create two workers for one index, neither it  *)
(* nor these two properties hold.                                          *)
(***************************************************************************)
EXTENDS ThreadPoolProofs

-----------------------------------------------------------------------------
(* Sleeping workers.                                                       *)

(* The workers that are going to look at the list. *)
AwakeWorkers == {w \in Workers : \/ worker[w].pc = "check"
                                 \/ worker[w].pc = "wait" /\ w \notin pool.cv}

(* thread_pool_delete joins the workers. *)
Deleting == \E c \in Clients : client[c].pc = "pool_join"

(* Whoever is asleep on the pool's condition variable is a worker in the   *)
(* inner loop, and workers are told to exit only by a deletion.            *)
SleepersWait == \A w \in pool.cv : worker[w].pc = "wait"
ExitOnlyInDelete == pool.thread_idx_that_should_exit # -1 => Deleting

WakeInvariant ==
  /\ PoolInvariant
  /\ SleepersWait
  /\ ExitOnlyInDelete
  /\ NoSleepWhileWork

-----------------------------------------------------------------------------
(* Counted threads.                                                        *)

StartedWorkers == {w \in Workers : worker[w].pc \notin {"none", "spawned"}}
IdleWorkers == {w \in Workers : worker[w].pc \in {"check", "wait"}}

(* Clients do not delete a pool twice at a time. *)
OneDeletes ==
  \A c, d \in Clients : client[c].pc = "pool_join" /\ client[d].pc = "pool_join" => c = d

(* Outside a deletion the counters are those of the threads, none of which *)
(* has exited.                                                             *)
CountedBefore ==
  ~Deleting => /\ pool.idle_thread_count = Cardinality(IdleWorkers)
               /\ pool.thread_count = Cardinality(StartedWorkers)
               /\ \A w \in Workers : worker[w].pc # "exited"

(* In a deletion no worker has a task, and thread_count stays as the       *)
(* workers are joined; in the end, none is left that counts.               *)
CountedInDeletion ==
  /\ Deleting => /\ pool.alive
                 /\ pool.idle_thread_count = pool.thread_count
                 /\ \A w \in Workers :
                      worker[w].pc \in {"none", "spawned", "check", "wait", "exited"}
  /\ \A c \in Clients : client[c].pc = "pool_join" =>
       pool.thread_count = Cardinality(StartedWorkers) + client[c].n
  /\ ~pool.alive => StartedWorkers = {}

CountInvariant ==
  /\ WakeInvariant
  /\ OneDeletes
  /\ CountedBefore
  /\ CountedInDeletion

-----------------------------------------------------------------------------
(* A pool with one client.                                                 *)

OneClient == \A c, d \in Clients : c = d

(* The array has every worker that exists at its index, and the workers    *)
(* before the one being joined are gone.                                   *)
Recorded ==
  \A w \in Workers : worker[w].pc # "none" =>
    /\ worker[w].idx + 1 \in 1..Len(pool.threads)
    /\ pool.threads[worker[w].idx + 1] = w
    /\ \A c \in Clients : client[c].pc = "pool_join" => worker[w].idx >= client[c].n

(* The client waits for a worker that has not started yet. *)
SpawnAwaited ==
  \A w \in Workers : worker[w].pc = "spawned" =>
    /\ worker[w].idx = pool.thread_count
    /\ \E c \in Clients : client[c].pc = "spawn_wait"

(* The array is as long as the client has asked for, which is the number   *)
(* of started workers once it does not wait.                               *)
ThreadsLength ==
  \A c \in Clients :
    Len(pool.threads) = IF client[c].pc = "spawn_wait" THEN client[c].n
                        ELSE pool.thread_count

OneClientInvariant ==
  /\ OneClient
  /\ CountInvariant
  /\ Recorded
  /\ SpawnAwaited
  /\ ThreadsLength
  /\ pool.alive => pool.max_thread_count >= 1
  /\ ThreadBound
  /\ NoPoolUseAfterFree

(* The number of workers that are awake is a number. *)
LEMMA AwakeFinite ==
  /\ IsFiniteSet(AwakeWorkers)
  /\ Cardinality(AwakeWorkers) \in Nat
<1>1. IsFiniteSet(AwakeWorkers)
  BY ConstantsAssumption, FS_Subset DEF AwakeWorkers
<1> QED
  BY <1>1, FS_CardinalityType

(* A step that puts no worker to sleep and adds no task loses no wakeup.   *)
LEMMA MoreAwake ==
  ASSUME PoolInvariant, PoolInvariant', NoSleepWhileWork,
         AwakeWorkers \subseteq AwakeWorkers',
         pool'.pending_task_count = pool.pending_task_count,
         pool'.cv # {} => pool.cv # {}
  PROVE  NoSleepWhileWork'
<1> DEFINE A == AwakeWorkers
           B == AwakeWorkers'
<1>1. IsFiniteSet(B)
  BY ConstantsAssumption, FS_Subset DEF AwakeWorkers
<1>2. Cardinality(A) <= Cardinality(B) /\ Cardinality(A) \in Nat /\ Cardinality(B) \in Nat
  <2> HIDE DEF A, B
  <2>1. A \subseteq B
    BY DEF A, B
  <2> QED
    BY <1>1, <2>1, FS_Subset, FS_CardinalityType
<1>3. pool.pending_task_count \in Nat
  BY DEF PoolInvariant, TypeOK, PoolRecords
<1>4. pool.cv # {} => pool.pending_task_count <= Cardinality(A)
  BY DEF NoSleepWhileWork, AwakeWorkers
<1>5. pool'.cv # {} => pool'.pending_task_count <= Cardinality(B)
  <2> HIDE DEF A, B
  <2> QED
    BY <1>2, <1>3, <1>4
<1> QED
  BY <1>5 DEF NoSleepWhileWork, AwakeWorkers

(* With nothing pending, or nobody asleep, there is no wakeup to lose. *)
LEMMA NothingToWake ==
  ASSUME pool'.cv = {} \/ pool'.pending_task_count = 0
  PROVE  NoSleepWhileWork'
<1>1. Cardinality(AwakeWorkers') \in Nat
  <2>1. IsFiniteSet(AwakeWorkers')
    BY ConstantsAssumption, FS_Subset DEF AwakeWorkers
  <2> QED
    BY <2>1, FS_CardinalityType
<1>2. pool'.cv # {} => pool'.pending_task_count <= Cardinality(AwakeWorkers')
  BY <1>1
<1> QED
  BY <1>2 DEF NoSleepWhileWork, AwakeWorkers

(* Where every worker is after a step of worker w. *)
StepsTo(w, pc) ==
  \A v \in Workers : worker'[v].pc = IF v = w THEN pc ELSE worker[v].pc

(* What a step of a worker that has started does to the pool. *)
SameFrame ==
  /\ pool'.alive = pool.alive
  /\ pool'.threads = pool.threads
  /\ pool'.max_thread_count = pool.max_thread_count
  /\ pool'.thread_count = pool.thread_count
  /\ pool'.thread_idx_that_should_exit = pool.thread_idx_that_should_exit

(* A worker in the inner loop waits, wakes up, exits or takes a task, all  *)
(* others go on with the task they have.                                   *)
LEMMA WorkerSteps ==
  ASSUME PoolInvariant, NEW w \in Workers
  PROVE
    /\ WorkerWait(w) \/ WorkerWake(w) \/ WorkerExit(w) \/ WorkerTake(w) \/ WorkerExecute(w)
         \/ WorkerLockPool(w) \/ WorkerFinish(w) \/ WorkerUnlockTask(w)
         => /\ SameFrame /\ client' = client
            /\ \A v \in Workers : worker'[v].idx = worker[v].idx
    /\ WorkerWait(w) =>
         /\ worker[w].pc = "check" /\ StepsTo(w, "wait")
         /\ pool'.cv = pool.cv \cup {w}
         /\ pool.pending_task_count = 0
         /\ pool'.pending_task_count = 0
         /\ pool'.idle_thread_count = pool.idle_thread_count
    /\ WorkerWake(w) =>
         /\ worker[w].pc = "wait" /\ StepsTo(w, "check")
         /\ pool'.cv = pool.cv /\ w \notin pool.cv
         /\ pool'.pending_task_count = pool.pending_task_count
         /\ pool'.idle_thread_count = pool.idle_thread_count
    /\ WorkerExit(w) =>
         /\ worker[w].pc = "check" /\ StepsTo(w, "exited")
         /\ pool.thread_idx_that_should_exit = worker[w].idx
         /\ pool'.cv = pool.cv
         /\ pool'.pending_task_count = pool.pending_task_count
         /\ pool'.idle_thread_count = pool.idle_thread_count
    /\ WorkerTake(w) =>
         /\ worker[w].pc = "check" /\ StepsTo(w, "taken")
         /\ pool'.cv = pool.cv
         /\ pool'.pending_task_count = pool.pending_task_count - 1
         /\ pool'.idle_thread_count = pool.idle_thread_count - 1
    /\ WorkerExecute(w) \/ WorkerLockPool(w) \/ WorkerFinish(w) =>
         /\ \E pc \in {"lock_pool", "lock_task", "unlock_task"} : StepsTo(w, pc)
         /\ worker[w].pc \in {"taken", "lock_pool", "lock_task"}
         /\ pool'.cv = pool.cv
         /\ pool'.pending_task_count = pool.pending_task_count
         /\ pool'.idle_thread_count = pool.idle_thread_count
    /\ WorkerUnlockTask(w) =>
         /\ worker[w].pc = "unlock_task" /\ StepsTo(w, "check")
         /\ pool'.cv = pool.cv
         /\ pool'.pending_task_count = pool.pending_task_count
         /\ pool'.idle_thread_count = pool.idle_thread_count + 1
<1>1. /\ pool \in PoolRecords /\ pool.pending_task_count \in Nat
      /\ worker \in [Workers -> WorkerRecords] /\ worker[w] \in WorkerRecords
  BY DEF PoolInvariant, TypeOK, PoolRecords
<1>2. WorkerWait(w) =>
         /\ SameFrame /\ client' = client
         /\ \A v \in Workers : worker'[v].idx = worker[v].idx
         /\ worker[w].pc = "check" /\ StepsTo(w, "wait")
         /\ pool'.cv = pool.cv \cup {w}
         /\ pool.pending_task_count = 0
         /\ pool'.pending_task_count = 0
         /\ pool'.idle_thread_count = pool.idle_thread_count
  BY <1>1 DEF WorkerWait, PoolRecords, WorkerRecords, StepsTo, SameFrame
<1>3. WorkerWake(w) =>
         /\ SameFrame /\ client' = client
         /\ \A v \in Workers : worker'[v].idx = worker[v].idx
         /\ worker[w].pc = "wait" /\ StepsTo(w, "check")
         /\ pool'.cv = pool.cv /\ w \notin pool.cv
         /\ pool'.pending_task_count = pool.pending_task_count
         /\ pool'.idle_thread_count = pool.idle_thread_count
  BY <1>1 DEF WorkerWake, PoolRecords, WorkerRecords, StepsTo, SameFrame
<1>4. WorkerExit(w) =>
         /\ SameFrame /\ client' = client
         /\ \A v \in Workers : worker'[v].idx = worker[v].idx
         /\ worker[w].pc = "check" /\ StepsTo(w, "exited")
         /\ pool.thread_idx_that_should_exit = worker[w].idx
         /\ pool'.cv = pool.cv
         /\ pool'.pending_task_count = pool.pending_task_count
         /\ pool'.idle_thread_count = pool.idle_thread_count
  BY <1>1 DEF WorkerExit, PoolRecords, WorkerRecords, StepsTo, SameFrame
<1>5. WorkerTake(w) =>
         /\ SameFrame /\ client' = client
         /\ \A v \in Workers : worker'[v].idx = worker[v].idx
         /\ worker[w].pc = "check" /\ StepsTo(w, "taken")
         /\ pool'.cv = pool.cv
         /\ pool'.pending_task_count = pool.pending_task_count - 1
         /\ pool'.idle_thread_count = pool.idle_thread_count - 1
  BY <1>1 DEF WorkerTake, PoolRecords, WorkerRecords, StepsTo, SameFrame
<1>6. ASSUME NEW pc, worker' = [worker EXCEPT ![w].pc = pc]
      PROVE  StepsTo(w, pc) /\ \A v \in Workers : worker'[v].idx = worker[v].idx
  BY <1>1, <1>6 DEF WorkerRecords, StepsTo
<1>7. WorkerExecute(w) \/ WorkerLockPool(w) \/ WorkerFinish(w) =>
         /\ SameFrame /\ client' = client
         /\ \A v \in Workers : worker'[v].idx = worker[v].idx
         /\ \E pc \in {"lock_pool", "lock_task", "unlock_task"} : StepsTo(w, pc)
         /\ worker[w].pc \in {"taken", "lock_pool", "lock_task"}
         /\ pool'.cv = pool.cv
         /\ pool'.pending_task_count = pool.pending_task_count
         /\ pool'.idle_thread_count = pool.idle_thread_count
  BY <1>1, <1>6 DEF WorkerExecute, WorkerLockPool, WorkerFinish, PoolRecords, SameFrame
<1>8. WorkerUnlockTask(w) =>
         /\ SameFrame /\ client' = client
         /\ \A v \in Workers : worker'[v].idx = worker[v].idx
         /\ worker[w].pc = "unlock_task" /\ StepsTo(w, "check")
         /\ pool'.cv = pool.cv
         /\ pool'.pending_task_count = pool.pending_task_count
         /\ pool'.idle_thread_count = pool.idle_thread_count + 1
  BY <1>1 DEF WorkerUnlockTask, PoolRecords, WorkerRecords, StepsTo, SameFrame
<1> QED
  BY <1>2, <1>3, <1>4, <1>5, <1>7, <1>8, Zenon

(* A step of a worker preserves the invariant of sleeping workers. *)
LEMMA WorkerWakes ==
  ASSUME WakeInvariant, PoolInvariant', NEW w \in Workers, WorkerStep(w)
  PROVE  WakeInvariant'
<1>1. /\ PoolInvariant /\ SleepersWait /\ ExitOnlyInDelete /\ NoSleepWhileWork
      /\ pool.cv \subseteq Workers /\ pool.pending_task_count \in Nat
  BY DEF WakeInvariant, PoolInvariant, TypeOK, PoolRecords
<1>2. CASE WorkerStart(w)
  <2>1. /\ pool'.cv = pool.cv
        /\ pool'.pending_task_count = pool.pending_task_count
        /\ pool'.thread_idx_that_should_exit = pool.thread_idx_that_should_exit
        /\ client' = client
        /\ worker[w].pc = "spawned" /\ StepsTo(w, "check")
    BY <1>1, <1>2 DEF WorkerStart, PoolInvariant, TypeOK, PoolRecords, WorkerRecords, StepsTo
  <2>2. SleepersWait'
    BY <1>1, <2>1 DEF SleepersWait, StepsTo
  <2>3. ExitOnlyInDelete'
    BY <1>1, <2>1 DEF ExitOnlyInDelete, Deleting
  <2>4. AwakeWorkers \subseteq AwakeWorkers'
    BY <2>1 DEF AwakeWorkers, StepsTo
  <2> QED
    BY <1>1, <2>1, <2>2, <2>3, <2>4, MoreAwake DEF WakeInvariant
<1>3. CASE ~WorkerStart(w)
  <2>1. SameFrame /\ client' = client
    BY <1>1, <1>3, WorkerSteps DEF WorkerStep
  <2>2. ExitOnlyInDelete'
    BY <1>1, <2>1 DEF ExitOnlyInDelete, Deleting, SameFrame
  <2>3. CASE WorkerWait(w)
    <3>1. /\ worker[w].pc = "check" /\ StepsTo(w, "wait")
          /\ pool'.cv = pool.cv \cup {w} /\ pool'.pending_task_count = 0
      BY <1>1, <2>3, WorkerSteps
    <3>2. SleepersWait'
      BY <1>1, <3>1 DEF SleepersWait, StepsTo
    <3> QED
      BY <2>2, <3>1, <3>2, NothingToWake DEF WakeInvariant
  <2>4. CASE WorkerWake(w)
    <3>1. /\ worker[w].pc = "wait" /\ StepsTo(w, "check")
          /\ pool'.cv = pool.cv /\ w \notin pool.cv
          /\ pool'.pending_task_count = pool.pending_task_count
      BY <1>1, <2>4, WorkerSteps
    <3>2. SleepersWait'
      BY <1>1, <3>1 DEF SleepersWait, StepsTo
    <3>3. AwakeWorkers \subseteq AwakeWorkers'
      BY <3>1 DEF AwakeWorkers, StepsTo
    <3> QED
      BY <1>1, <2>2, <3>1, <3>2, <3>3, MoreAwake DEF WakeInvariant
  <2>5. CASE WorkerExit(w)
    <3>1. /\ worker[w].pc = "check" /\ StepsTo(w, "exited")
          /\ pool.thread_idx_that_should_exit = worker[w].idx
          /\ pool'.cv = pool.cv
          /\ pool'.pending_task_count = pool.pending_task_count
      BY <1>1, <2>5, WorkerSteps
    <3>2. SleepersWait'
      BY <1>1, <3>1 DEF SleepersWait, StepsTo
    <3>3. worker[w].idx \in Nat
      BY <1>1 DEF PoolInvariant, TypeOK, WorkerRecords
    <3>4. Deleting
      BY <1>1, <3>1, <3>3 DEF ExitOnlyInDelete
    <3>5. pool'.pending_task_count = 0
      BY <1>1, <3>1, <3>4 DEF PoolInvariant, NothingToRun, Deleting
    <3> QED
      BY <2>2, <3>2, <3>5, NothingToWake DEF WakeInvariant
  <2>6. CASE WorkerTake(w)
    <3>1. /\ worker[w].pc = "check" /\ StepsTo(w, "taken")
          /\ pool'.cv = pool.cv
          /\ pool'.pending_task_count = pool.pending_task_count - 1
      BY <1>1, <2>6, WorkerSteps
    <3>2. SleepersWait'
      BY <1>1, <3>1 DEF SleepersWait, StepsTo
    <3>3. w \in AwakeWorkers /\ AwakeWorkers' = AwakeWorkers \ {w}
      BY <3>1 DEF AwakeWorkers, StepsTo
    <3>4. Cardinality(AwakeWorkers') = Cardinality(AwakeWorkers) - 1
      BY <3>3, AwakeFinite, FS_RemoveElement
    <3>5. Cardinality(AwakeWorkers) \in Nat
      BY AwakeFinite
    <3>6. pool.cv # {} => pool.pending_task_count <= Cardinality(AwakeWorkers)
      BY <1>1 DEF NoSleepWhileWork, AwakeWorkers
    <3>7. pool'.cv # {} => pool'.pending_task_count <= Cardinality(AwakeWorkers')
      BY <1>1, <3>1, <3>4, <3>5, <3>6
    <3>8. NoSleepWhileWork'
      BY <3>7 DEF NoSleepWhileWork, AwakeWorkers
    <3> QED
      BY <2>2, <3>2, <3>8 DEF WakeInvariant
  <2>7. CASE WorkerExecute(w) \/ WorkerLockPool(w) \/ WorkerFinish(w)
    <3>1. PICK pc \in {"lock_pool", "lock_task", "unlock_task"} :
            /\ StepsTo(w, pc)
            /\ worker[w].pc \in {"taken", "lock_pool", "lock_task"}
            /\ pool'.cv = pool.cv
            /\ pool'.pending_task_count = pool.pending_task_count
      BY <1>1, <2>7, WorkerSteps
    <3>2. SleepersWait'
      BY <1>1, <3>1 DEF SleepersWait, StepsTo
    <3>3. AwakeWorkers \subseteq AwakeWorkers'
      BY <3>1 DEF AwakeWorkers, StepsTo
    <3> QED
      BY <1>1, <2>2, <3>1, <3>2, <3>3, MoreAwake DEF WakeInvariant
  <2>8. CASE WorkerUnlockTask(w)
    <3>1. /\ worker[w].pc = "unlock_task" /\ StepsTo(w, "check")
          /\ pool'.cv = pool.cv
          /\ pool'.pending_task_count = pool.pending_task_count
      BY <1>1, <2>8, WorkerSteps
    <3>2. SleepersWait'
      BY <1>1, <3>1 DEF SleepersWait, StepsTo
    <3>3. AwakeWorkers \subseteq AwakeWorkers'
      BY <3>1 DEF AwakeWorkers, StepsTo
    <3> QED
      BY <1>1, <2>2, <3>1, <3>2, <3>3, MoreAwake DEF WakeInvariant
  <2> QED
    BY <1>3, <2>3, <2>4, <2>5, <2>6, <2>7, <2>8 DEF WorkerStep
<1> QED
  BY <1>2, <1>3

(* A step of a client c that is in no deletion before it leaves the        *)
(* deletions of others alone.                                              *)
LEMMA StillDeleting ==
  ASSUME NEW c \in Clients, client[c].pc # "pool_join",
         \A d \in Clients : d # c => client'[d] = client[d]
  PROVE  Deleting => Deleting'
BY DEF Deleting

(* A step that changes no worker, nor what the pool has of sleepers,       *)
(* pending tasks and exits, preserves the invariant.                       *)
LEMMA QuietWakes ==
  ASSUME WakeInvariant, PoolInvariant', worker' = worker,
         pool'.cv \subseteq pool.cv,
         pool'.pending_task_count = pool.pending_task_count,
         pool'.thread_idx_that_should_exit = pool.thread_idx_that_should_exit,
         Deleting => Deleting'
  PROVE  WakeInvariant'
<1>1. SleepersWait' /\ ExitOnlyInDelete'
  BY DEF WakeInvariant, SleepersWait, ExitOnlyInDelete
<1>2. AwakeWorkers \subseteq AwakeWorkers'
  BY DEF AwakeWorkers
<1>3. pool'.cv # {} => pool.cv # {}
  OBVIOUS
<1> QED
  BY <1>1, <1>2, <1>3, MoreAwake DEF WakeInvariant

(* Linking a task into the list wakes a worker up if one sleeps. *)
LEMMA EnqueueWakes ==
  ASSUME WakeInvariant, PoolInvariant', NEW c \in Clients, NEW t \in Tasks,
         Enqueue(c, t), client[c].pc # "pool_join"
  PROVE  WakeInvariant'
<1>1. PICK rest \in Signal(pool.cv) :
        /\ pool'.cv = rest
        /\ pool'.pending_task_count = pool.pending_task_count + 1
        /\ pool'.thread_idx_that_should_exit = pool.thread_idx_that_should_exit
        /\ worker' = worker
        /\ \A d \in Clients : d # c => client'[d] = client[d]
  BY DEF WakeInvariant, PoolInvariant, TypeOK, PoolRecords, Enqueue, Return
<1>2. /\ SleepersWait /\ ExitOnlyInDelete /\ NoSleepWhileWork
      /\ pool.cv \subseteq Workers /\ pool.pending_task_count \in Nat
  BY DEF WakeInvariant, PoolInvariant, TypeOK, PoolRecords
<1>3. ExitOnlyInDelete'
  BY <1>1, <1>2, StillDeleting DEF ExitOnlyInDelete
<1>4. SleepersWait'
  BY <1>1, <1>2 DEF SleepersWait, Signal
<1>5. CASE pool.cv = {}
  <2>1. pool'.cv = {}
    BY <1>1, <1>5 DEF Signal
  <2> QED
    BY <1>3, <1>4, <2>1, NothingToWake DEF WakeInvariant
<1>6. CASE pool.cv # {}
  <2>1. PICK x \in pool.cv : rest = pool.cv \ {x}
    BY <1>6 DEF Signal
  <2>2. x \notin AwakeWorkers /\ AwakeWorkers' = AwakeWorkers \cup {x}
    BY <1>1, <1>2, <2>1 DEF AwakeWorkers, SleepersWait
  <2>3. Cardinality(AwakeWorkers') = Cardinality(AwakeWorkers) + 1
    BY <2>2, AwakeFinite, FS_AddElement
  <2>4. pool.pending_task_count <= Cardinality(AwakeWorkers) /\ Cardinality(AwakeWorkers) \in Nat
    BY <1>2, <1>6, AwakeFinite DEF NoSleepWhileWork, AwakeWorkers
  <2>5. pool'.pending_task_count <= Cardinality(AwakeWorkers')
    BY <1>1, <1>2, <2>3, <2>4
  <2>6. NoSleepWhileWork'
    BY <2>5 DEF NoSleepWhileWork, AwakeWorkers
  <2> QED
    BY <1>3, <1>4, <2>6 DEF WakeInvariant
<1> QED
  BY <1>5, <1>6

(* A step that leaves nobody asleep preserves the invariant. *)
LEMMA NobodySleeps ==
  ASSUME PoolInvariant', pool'.cv = {},
         pool'.thread_idx_that_should_exit # -1 => Deleting'
  PROVE  WakeInvariant'
BY NothingToWake DEF WakeInvariant, SleepersWait, ExitOnlyInDelete

(* A call that touches only tasks. *)
TaskOnly(c) ==
  /\ pool' = pool /\ worker' = worker
  /\ client[c].pc \notin {"pool_join", "spawn_wait"}
  /\ client'[c].pc \notin {"pool_join", "spawn_wait"}
  /\ \A d \in Clients : d # c => client'[d] = client[d]

(* Who calls what leaves the other clients alone. *)
LEMMA OtherClients ==
  ASSUME PoolInvariant, NEW c \in Clients
  PROVE  /\ \A ret : Return(c, ret) =>
              /\ client'[c].pc = "idle" /\ \A d \in Clients : d # c => client'[d] = client[d]
         /\ \A t : ReturnResult(c, t) =>
              /\ client'[c].pc = "idle" /\ \A d \in Clients : d # c => client'[d] = client[d]
         /\ \A pc, t, n : Block(c, pc, t, n) =>
              /\ client'[c].pc = pc /\ client'[c].n = n
              /\ \A d \in Clients : d # c => client'[d] = client[d]
<1>1. client \in [Clients -> ClientRecords] /\ client[c] \in ClientRecords
  BY DEF PoolInvariant, TypeOK
<1>2. ASSUME NEW ret, Return(c, ret)
      PROVE  client'[c].pc = "idle" /\ \A d \in Clients : d # c => client'[d] = client[d]
  BY <1>1, <1>2 DEF Return, IdleClient
<1>3. ASSUME NEW t, ReturnResult(c, t)
      PROVE  client'[c].pc = "idle" /\ \A d \in Clients : d # c => client'[d] = client[d]
  BY <1>1, <1>3 DEF ReturnResult, IdleClient
<1>4. ASSUME NEW pc, NEW t, NEW n, Block(c, pc, t, n)
      PROVE  /\ client'[c].pc = pc /\ client'[c].n = n
             /\ \A d \in Clients : d # c => client'[d] = client[d]
  BY <1>1, <1>4 DEF Block, ClientRecords
<1> QED
  BY <1>2, <1>3, <1>4

(* The functions of tasks, but a push, touch only tasks. *)
LEMMA TaskFunctions ==
  ASSUME PoolInvariant, NEW c \in Clients,
         \/ JoinWake(c) \/ TimedJoinExpire(c) \/ TimedJoinTimeout(c)
         \/ \E t \in Tasks :
              \/ ThreadTaskNew(c, t) \/ ThreadTaskJoin(c, t)
              \/ \E d \in Timeouts : ThreadTaskTimedJoin(c, t, d)
              \/ ThreadTaskDelete(c, t) \/ ThreadTaskDetach(c, t)
  PROVE  TaskOnly(c)
<1>1. client \in [Clients -> ClientRecords] /\ client[c] \in ClientRecords
  BY DEF PoolInvariant, TypeOK
<1>2. ASSUME pool' = pool, worker' = worker, client[c].pc \notin {"pool_join", "spawn_wait"},
             \/ \E ret : Return(c, ret)
             \/ \E t : ReturnResult(c, t)
             \/ \E pc, t, n : Block(c, pc, t, n) /\ pc \notin {"pool_join", "spawn_wait"}
      PROVE  TaskOnly(c)
  BY <1>2, OtherClients DEF TaskOnly
<1>3. CASE JoinWake(c)
  BY <1>2, <1>3 DEF JoinWake, TakeResult, SleepOnTask
<1>4. CASE TimedJoinExpire(c)
  BY <1>1, <1>4 DEF TimedJoinExpire, TaskOnly, ClientRecords
<1>5. CASE TimedJoinTimeout(c)
  BY <1>2, <1>5 DEF TimedJoinTimeout
<1>6. ASSUME NEW t \in Tasks, ThreadTaskNew(c, t)
      PROVE  TaskOnly(c)
  BY <1>2, <1>6 DEF ThreadTaskNew
<1>7. ASSUME NEW t \in Tasks, ThreadTaskJoin(c, t)
      PROVE  TaskOnly(c)
  BY <1>2, <1>7 DEF ThreadTaskJoin, MayUseTask, NotPushed, TakeResult, SleepOnTask
<1>8. ASSUME NEW t \in Tasks, NEW d \in Timeouts, ThreadTaskTimedJoin(c, t, d)
      PROVE  TaskOnly(c)
  BY <1>2, <1>8 DEF ThreadTaskTimedJoin, MayUseTask, NotPushed, TakeResult, SleepOnTask
<1>9. ASSUME NEW t \in Tasks, ThreadTaskDelete(c, t)
      PROVE  TaskOnly(c)
  BY <1>2, <1>9 DEF ThreadTaskDelete, MayUseTask
<1>10. ASSUME NEW t \in Tasks, ThreadTaskDetach(c, t)
       PROVE  TaskOnly(c)
  BY <1>2, <1>10 DEF ThreadTaskDetach, MayUseTask, NotPushed
<1> QED
  BY <1>3, <1>4, <1>5, <1>6, <1>7, <1>8, <1>9, <1>10

(* The functions of the pool. *)
LEMMA PoolNewChanges ==
  ASSUME PoolInvariant, NEW c \in Clients, NEW n \in MaxThreadCounts, ThreadPoolNew(c, n)
  PROVE  \/ TaskOnly(c)
         \/ /\ ~pool.alive /\ n \in Nat /\ n >= 1
            /\ pool' = [NoPool EXCEPT !.alive = TRUE, !.max_thread_count = n]
            /\ worker' = worker
            /\ client[c].pc = "idle" /\ client'[c].pc = "idle"
            /\ \A d \in Clients : d # c => client'[d] = client[d]
<1>1. worker' = worker /\ client[c].pc = "idle" /\ ~pool.alive
  BY DEF ThreadPoolNew
<1>2. CASE n < 1 \/ n > TPOOL_MAX_THREADS
  BY <1>1, <1>2, OtherClients DEF ThreadPoolNew, TaskOnly
<1>3. CASE ~(n < 1 \/ n > TPOOL_MAX_THREADS)
  <2>1. n \in Int
    BY ConstantsAssumption
  <2>2. n \in Nat /\ n >= 1
    BY <1>3, <2>1
  <2> QED
    BY <1>1, <1>3, <2>2, OtherClients DEF ThreadPoolNew
<1> QED
  BY <1>2, <1>3

(* Telling worker i to exit wakes every worker up. *)
LEMMA TellingChanges ==
  ASSUME PoolInvariant, NEW c \in Clients, NEW i \in Nat, TellToExit(c, i)
  PROVE  /\ pool'.cv = {}
         /\ pool'.alive = pool.alive
         /\ pool'.threads = pool.threads
         /\ pool'.max_thread_count = pool.max_thread_count
         /\ pool'.thread_count = pool.thread_count
         /\ pool'.idle_thread_count = pool.idle_thread_count
         /\ client'[c].pc = "pool_join" /\ client'[c].n = i
         /\ \A d \in Clients : d # c => client'[d] = client[d]
BY OtherClients DEF TellToExit, PoolInvariant, TypeOK, PoolRecords

(* A step of a client preserves the invariant of sleeping workers. *)
LEMMA ClientWakes ==
  ASSUME WakeInvariant, PoolInvariant', NEW c \in Clients, ClientStep(c) \/ ClientCall(c)
  PROVE  WakeInvariant'
<1>1. PoolInvariant
  BY DEF WakeInvariant
<1>2. CASE TaskOnly(c)
  <2>1. Deleting => Deleting'
    BY <1>2, StillDeleting DEF TaskOnly
  <2> QED
    BY <1>2, <2>1, QuietWakes DEF TaskOnly
<1>3. CASE PushTaskWake(c)
  <2>1. CASE Enqueue(c, client[c].task)
    <3>1. client[c].task \in Tasks /\ client[c].pc # "pool_join"
      BY <1>1, <1>3, Calling DEF PushTaskWake
    <3> QED
      BY <2>1, <3>1, EnqueueWakes
  <2>2. CASE /\ pool' = [pool EXCEPT !.spawn_cv = pool.spawn_cv \cup {c}]
             /\ UNCHANGED <<task, worker, client>>
    <3>1. /\ pool'.cv = pool.cv
          /\ pool'.pending_task_count = pool.pending_task_count
          /\ pool'.thread_idx_that_should_exit = pool.thread_idx_that_should_exit
      BY <1>1, <2>2 DEF PoolInvariant, TypeOK, PoolRecords
    <3>2. Deleting => Deleting'
      BY <2>2 DEF Deleting
    <3> QED
      BY <2>2, <3>1, <3>2, QuietWakes
  <2> QED
    BY <1>3, <2>1, <2>2 DEF PushTaskWake
<1>4. ASSUME NEW i \in Nat, TellToExit(c, i)
      PROVE  WakeInvariant'
  <2>1. pool'.cv = {} /\ Deleting'
    BY <1>1, <1>4, TellingChanges DEF Deleting
  <2> QED
    BY <2>1, NobodySleeps
<1>5. CASE pool' = NoPool
  BY <1>5, NobodySleeps DEF NoPool
<1>6. CASE PoolDeleteJoin(c)
  <2>1. client[c].n + 1 \in Nat
    BY <1>1 DEF PoolInvariant, TypeOK, ClientRecords
  <2> QED
    BY <1>4, <1>5, <1>6, <2>1 DEF PoolDeleteJoin
<1>7. CASE TimedJoinSpin(c)
  <2>1. Deleting => Deleting'
    BY <1>7 DEF TimedJoinSpin, vars, Deleting
  <2> QED
    BY <1>7, <2>1, QuietWakes DEF TimedJoinSpin, vars
<1>8. ASSUME NEW n \in MaxThreadCounts, ThreadPoolNew(c, n)
      PROVE  WakeInvariant'
  <2>1. CASE pool' = [NoPool EXCEPT !.alive = TRUE, !.max_thread_count = n]
    <3>1. pool'.cv = {} /\ pool'.thread_idx_that_should_exit = -1
      BY <2>1 DEF NoPool
    <3> QED
      BY <3>1, NobodySleeps
  <2> QED
    BY <1>1, <1>2, <1>8, <2>1, PoolNewChanges
<1>9. CASE ThreadPoolDelete(c)
  <2>1. CASE Return(c, "HAS_TASKS") /\ UNCHANGED pool
    <3>1. TaskOnly(c)
      BY <1>1, <1>9, <2>1, OtherClients DEF TaskOnly, ThreadPoolDelete, MayUsePool
    <3> QED
      BY <1>2, <3>1
  <2> QED
    BY <1>4, <1>5, <1>9, <2>1 DEF ThreadPoolDelete
<1>10. ASSUME NEW t \in Tasks, ThreadPoolPushTask(c, t)
       PROVE  WakeInvariant'
  <2>1. client[c].pc = "idle"
    BY <1>10 DEF ThreadPoolPushTask, MayUsePool
  <2>2. CASE Return(c, "TOO_MANY_TASKS") /\ UNCHANGED <<pool, task, worker>>
    <3>1. TaskOnly(c)
      BY <1>1, <2>1, <2>2, OtherClients DEF TaskOnly
    <3> QED
      BY <1>2, <3>1
  <2>3. CASE Enqueue(c, t)
    BY <2>1, <2>3, EnqueueWakes
  <2>4. CASE SpawnWorker(c, t)
    <3>1. PICK w \in Workers :
            /\ worker[w].pc = "none"
            /\ worker' = [worker EXCEPT ![w].pc = "spawned", ![w].idx = pool.thread_count]
            /\ pool'.cv = pool.cv
            /\ pool'.pending_task_count = pool.pending_task_count
            /\ pool'.thread_idx_that_should_exit = pool.thread_idx_that_should_exit
            /\ Block(c, "spawn_wait", t, pool.thread_count + 1)
      BY <1>1, <2>4 DEF SpawnWorker, PoolInvariant, TypeOK, PoolRecords
    <3>2. StepsTo(w, "spawned")
      BY <1>1, <3>1 DEF PoolInvariant, TypeOK, WorkerRecords, StepsTo
    <3>3. Deleting => Deleting'
      BY <1>1, <2>1, <3>1, OtherClients, StillDeleting
    <3>4. SleepersWait' /\ ExitOnlyInDelete'
      BY <3>1, <3>2, <3>3 DEF WakeInvariant, SleepersWait, ExitOnlyInDelete, StepsTo,
         PoolInvariant, TypeOK, PoolRecords
    <3>5. AwakeWorkers \subseteq AwakeWorkers'
      BY <3>1, <3>2 DEF AwakeWorkers, StepsTo
    <3> QED
      BY <1>1, <3>1, <3>4, <3>5, MoreAwake DEF WakeInvariant
  <2> QED
    BY <1>10, <2>2, <2>3, <2>4 DEF ThreadPoolPushTask
<1> QED
  BY <1>1, <1>2, <1>3, <1>6, <1>7, <1>8, <1>9, <1>10, TaskFunctions DEF ClientStep, ClientCall

(* A spurious wakeup preserves the invariant of sleeping workers. *)
LEMMA SpuriousWakes ==
  ASSUME WakeInvariant, PoolInvariant', SpuriousWakeup
  PROVE  WakeInvariant'
<1>1. /\ worker' = worker /\ client' = client
      /\ pool'.cv \subseteq pool.cv
      /\ pool'.pending_task_count = pool.pending_task_count
      /\ pool'.thread_idx_that_should_exit = pool.thread_idx_that_should_exit
  BY DEF SpuriousWakeup, WakeInvariant, PoolInvariant, TypeOK, PoolRecords
<1> QED
  BY <1>1, QuietWakes DEF Deleting

(* Every step preserves it. *)
LEMMA NextWakes ==
  ASSUME WakeInvariant, [Next]_vars
  PROVE  WakeInvariant'
<1>1. PoolInvariant'
  BY NextInvariant DEF WakeInvariant
<1>2. CASE UNCHANGED vars
  BY <1>1, <1>2, QuietWakes DEF vars, Deleting
<1> QED
  BY <1>1, <1>2, WorkerWakes, ClientWakes, SpuriousWakes DEF Next

(* Initially nobody sleeps. *)
LEMMA InitWakes ==
  ASSUME Init
  PROVE  WakeInvariant
<1>1. pool.cv = {} /\ pool.thread_idx_that_should_exit = -1
  BY DEF Init, NoPool
<1> QED
  BY <1>1, InitInvariant DEF WakeInvariant, SleepersWait, ExitOnlyInDelete, NoSleepWhileWork

(* The sleepers of the pool are workers in the inner loop, and while one   *)
(* sleeps there are enough awake for the pending tasks.                    *)
THEOREM WakeInvariantHolds == Spec => []WakeInvariant
BY InitWakes, NextWakes, PTL DEF Spec

(* The one signal of a push (thread_pool.c:204) is never lost, however     *)
(* many clients push and however many workers the pool has.                *)
THEOREM NoWakeupLost == Spec => []NoSleepWhileWork
BY WakeInvariantHolds, PTL DEF WakeInvariant
-----------------------------------------------------------------------------
(* The counters.                                                           *)

(* Every set of workers is finite. *)
LEMMA WorkersFinite ==
  ASSUME NEW S, S \subseteq Workers
  PROVE  IsFiniteSet(S) /\ Cardinality(S) \in Nat
BY ConstantsAssumption, FS_Subset, FS_CardinalityType

(* The sets that are counted, and the types of what counts them. *)
LEMMA CountTypes ==
  ASSUME PoolInvariant
  PROVE  /\ IsFiniteSet(IdleWorkers) /\ Cardinality(IdleWorkers) \in Nat
         /\ IsFiniteSet(StartedWorkers) /\ Cardinality(StartedWorkers) \in Nat
         /\ pool.thread_count \in Nat /\ pool.idle_thread_count \in Int
         /\ pool.alive \in BOOLEAN
         /\ \A w \in Workers : worker[w].idx \in Nat /\ worker[w].pc \in WorkerPCs
         /\ \A c \in Clients : client[c].n \in Nat
<1>1. /\ IsFiniteSet(IdleWorkers) /\ Cardinality(IdleWorkers) \in Nat
      /\ IsFiniteSet(StartedWorkers) /\ Cardinality(StartedWorkers) \in Nat
  BY WorkersFinite DEF IdleWorkers, StartedWorkers
<1> QED
  BY <1>1 DEF PoolInvariant, TypeOK, PoolRecords, WorkerRecords, ClientRecords

(* A step that starts, stops or occupies no worker and begins or goes on   *)
(* with no deletion.                                                       *)
LEMMA QuietCounts ==
  ASSUME CountInvariant, WakeInvariant',
         pool'.alive = pool.alive,
         pool'.thread_count = pool.thread_count,
         pool'.idle_thread_count = pool.idle_thread_count,
         \A w \in Workers :
           \/ worker'[w].pc = worker[w].pc
           \/ worker'[w].pc \in {"none", "spawned"} /\ worker[w].pc \in {"none", "spawned"},
         \A c \in Clients :
           \/ client'[c] = client[c]
           \/ client'[c].pc # "pool_join" /\ client[c].pc # "pool_join"
  PROVE  CountInvariant'
<1>1. /\ IdleWorkers' = IdleWorkers /\ StartedWorkers' = StartedWorkers
      /\ Deleting' <=> Deleting
  BY DEF IdleWorkers, StartedWorkers, Deleting
<1>2. OneDeletes'
  BY DEF CountInvariant, OneDeletes
<1>3. CountedBefore'
  BY <1>1 DEF CountInvariant, CountedBefore
<1>4. CountedInDeletion'
  BY <1>1 DEF CountInvariant, CountedInDeletion
<1> QED
  BY <1>2, <1>3, <1>4 DEF CountInvariant

(* A step of a worker that has started: it only moves between being idle   *)
(* and having a task, and exits only in a deletion.                        *)
LEMMA StartedCounts ==
  ASSUME CountInvariant, WakeInvariant', NEW w \in Workers,
         WorkerStep(w), ~WorkerStart(w)
  PROVE  CountInvariant'
<1>1. PoolInvariant /\ PoolInvariant' /\ WakeInvariant
  BY DEF CountInvariant, WakeInvariant
<1>2. SameFrame /\ client' = client
  BY <1>1, WorkerSteps DEF WorkerStep
<1>3. OneDeletes' /\ (Deleting' <=> Deleting)
  BY <1>2 DEF CountInvariant, OneDeletes, Deleting
<1>4. Deleting =>
        /\ pool.alive /\ pool.idle_thread_count = pool.thread_count
        /\ \A v \in Workers : worker[v].pc \in {"none", "spawned", "check", "wait", "exited"}
        /\ pool.pending_task_count = 0
  BY <1>1 DEF CountInvariant, CountedInDeletion, PoolInvariant, NothingToRun, Deleting
<1>5. ~Deleting => /\ pool.idle_thread_count = Cardinality(IdleWorkers)
                   /\ pool.thread_count = Cardinality(StartedWorkers)
                   /\ \A v \in Workers : worker[v].pc # "exited"
  BY DEF CountInvariant, CountedBefore
<1>6. IsFiniteSet(IdleWorkers) /\ Cardinality(IdleWorkers) \in Nat
  BY <1>1, CountTypes
<1>7. ASSUME NEW pc \in WorkerPCs \ {"none", "spawned"}, StepsTo(w, pc),
             worker[w].pc \notin {"none", "spawned"},
             Deleting => /\ pc \in {"check", "wait", "exited"}
                         /\ pool'.idle_thread_count = pool.idle_thread_count,
             ~Deleting => /\ pc # "exited"
                          /\ pool'.idle_thread_count = Cardinality(IdleWorkers')
      PROVE  CountInvariant'
  <2>1. StartedWorkers' = StartedWorkers
    BY <1>7 DEF StartedWorkers, StepsTo
  <2>2. CountedBefore'
    BY <1>2, <1>3, <1>5, <1>7, <2>1 DEF CountedBefore, StepsTo, SameFrame
  <2>3. CountedInDeletion'
    <3>1. Deleting' => /\ pool'.alive /\ pool'.idle_thread_count = pool'.thread_count
                       /\ \A v \in Workers :
                            worker'[v].pc \in {"none", "spawned", "check", "wait", "exited"}
      BY <1>2, <1>3, <1>4, <1>7 DEF StepsTo, SameFrame
    <3>2. /\ \A c \in Clients : client'[c].pc = "pool_join" =>
               pool'.thread_count = Cardinality(StartedWorkers') + client'[c].n
          /\ ~pool'.alive => StartedWorkers' = {}
      BY <1>2, <2>1 DEF CountInvariant, CountedInDeletion, SameFrame
    <3> QED
      BY <3>1, <3>2 DEF CountedInDeletion
  <2> QED
    BY <1>3, <2>2, <2>3 DEF CountInvariant
<1>8. CASE WorkerWait(w) \/ WorkerWake(w)
  <2>1. PICK p \in {"check", "wait"} :
          /\ StepsTo(w, p) /\ worker[w].pc \in {"check", "wait"}
          /\ pool'.idle_thread_count = pool.idle_thread_count
    BY <1>1, <1>8, WorkerSteps
  <2>2. IdleWorkers' = IdleWorkers
    BY <2>1 DEF IdleWorkers, StepsTo
  <2> QED
    BY <1>5, <1>7, <2>1, <2>2 DEF WorkerPCs
<1>9. CASE WorkerExit(w)
  <2>1. /\ StepsTo(w, "exited") /\ worker[w].pc = "check"
        /\ pool.thread_idx_that_should_exit = worker[w].idx
        /\ pool'.idle_thread_count = pool.idle_thread_count
    BY <1>1, <1>9, WorkerSteps
  <2>2. Deleting
    BY <1>1, <2>1, CountTypes DEF WakeInvariant, ExitOnlyInDelete
  <2> QED
    BY <1>7, <2>1, <2>2 DEF WorkerPCs
<1>10. CASE WorkerTake(w)
  <2>1. /\ StepsTo(w, "taken") /\ worker[w].pc = "check"
        /\ pool'.pending_task_count = pool.pending_task_count - 1
        /\ pool'.idle_thread_count = pool.idle_thread_count - 1
    BY <1>1, <1>10, WorkerSteps
  <2>2. pool'.pending_task_count \in Nat
    BY <1>1 DEF PoolInvariant, TypeOK, PoolRecords
  <2>3. ~Deleting
    BY <1>4, <2>1, <2>2
  <2>4. IdleWorkers' = IdleWorkers \ {w} /\ w \in IdleWorkers
    BY <2>1 DEF IdleWorkers, StepsTo
  <2>5. Cardinality(IdleWorkers') = Cardinality(IdleWorkers) - 1
    BY <1>6, <2>4, FS_RemoveElement
  <2>6. pool'.idle_thread_count = Cardinality(IdleWorkers')
    BY <1>5, <2>1, <2>3, <2>5
  <2> QED
    BY <1>7, <2>1, <2>3, <2>6 DEF WorkerPCs
<1>11. CASE WorkerExecute(w) \/ WorkerLockPool(w) \/ WorkerFinish(w)
  <2>1. PICK p \in {"lock_pool", "lock_task", "unlock_task"} :
          /\ StepsTo(w, p) /\ worker[w].pc \in {"taken", "lock_pool", "lock_task"}
          /\ pool'.idle_thread_count = pool.idle_thread_count
    BY <1>1, <1>11, WorkerSteps
  <2>2. ~Deleting
    BY <1>4, <2>1
  <2>3. IdleWorkers' = IdleWorkers
    BY <2>1 DEF IdleWorkers, StepsTo
  <2> QED
    BY <1>5, <1>7, <2>1, <2>2, <2>3 DEF WorkerPCs
<1>12. CASE WorkerUnlockTask(w)
  <2>1. /\ StepsTo(w, "check") /\ worker[w].pc = "unlock_task"
        /\ pool'.idle_thread_count = pool.idle_thread_count + 1
    BY <1>1, <1>12, WorkerSteps
  <2>2. ~Deleting
    BY <1>4, <2>1
  <2>3. IdleWorkers' = IdleWorkers \cup {w} /\ w \notin IdleWorkers
    BY <2>1 DEF IdleWorkers, StepsTo
  <2>4. Cardinality(IdleWorkers') = Cardinality(IdleWorkers) + 1
    BY <1>6, <2>3, FS_AddElement
  <2>5. pool'.idle_thread_count = Cardinality(IdleWorkers')
    BY <1>5, <2>1, <2>2, <2>4
  <2> QED
    BY <1>7, <2>1, <2>2, <2>5 DEF WorkerPCs
<1> QED
  BY <1>8, <1>9, <1>10, <1>11, <1>12 DEF WorkerStep

(* What the start of a worker changes. *)
LEMMA StartChanges ==
  ASSUME PoolInvariant, NEW w \in Workers, WorkerStart(w)
  PROVE  /\ worker[w].pc = "spawned" /\ StepsTo(w, "check")
         /\ \A v \in Workers : worker'[v].idx = worker[v].idx
         /\ client' = client
         /\ pool.alive /\ pool'.alive
         /\ pool'.threads = pool.threads
         /\ pool'.max_thread_count = pool.max_thread_count
         /\ pool'.thread_count = pool.thread_count + 1
         /\ pool'.idle_thread_count = pool.idle_thread_count + 1
BY DEF WorkerStart, PoolUnlocked, PoolInvariant, TypeOK, PoolRecords, WorkerRecords, StepsTo

(* A worker that starts counts itself twice, even if a deletion has begun. *)
LEMMA StartCounts ==
  ASSUME CountInvariant, WakeInvariant', NEW w \in Workers, WorkerStart(w)
  PROVE  CountInvariant'
<1>1. PoolInvariant
  BY DEF CountInvariant, WakeInvariant
<1>2. /\ worker[w].pc = "spawned" /\ StepsTo(w, "check")
      /\ client' = client
      /\ pool.alive /\ pool'.alive
      /\ pool'.thread_count = pool.thread_count + 1
      /\ pool'.idle_thread_count = pool.idle_thread_count + 1
  BY <1>1, StartChanges
<1>3. OneDeletes' /\ (Deleting' <=> Deleting)
  BY <1>2 DEF CountInvariant, OneDeletes, Deleting
<1>4. /\ IdleWorkers' = IdleWorkers \cup {w} /\ w \notin IdleWorkers
      /\ StartedWorkers' = StartedWorkers \cup {w} /\ w \notin StartedWorkers
  BY <1>2 DEF IdleWorkers, StartedWorkers, StepsTo
<1>5. /\ Cardinality(IdleWorkers') = Cardinality(IdleWorkers) + 1
      /\ Cardinality(StartedWorkers') = Cardinality(StartedWorkers) + 1
  BY <1>1, <1>4, CountTypes, FS_AddElement
<1>6. CountedBefore'
  <2>1. ~Deleting' => /\ pool'.idle_thread_count = Cardinality(IdleWorkers')
                      /\ pool'.thread_count = Cardinality(StartedWorkers')
    BY <1>2, <1>3, <1>5 DEF CountInvariant, CountedBefore
  <2>2. ~Deleting' => \A v \in Workers : worker'[v].pc # "exited"
    BY <1>2, <1>3 DEF CountInvariant, CountedBefore, StepsTo
  <2> QED
    BY <2>1, <2>2 DEF CountedBefore
<1>7. CountedInDeletion'
  <2>1. Deleting' => /\ pool'.alive /\ pool'.idle_thread_count = pool'.thread_count
                     /\ \A v \in Workers :
                          worker'[v].pc \in {"none", "spawned", "check", "wait", "exited"}
    BY <1>2, <1>3 DEF CountInvariant, CountedInDeletion, StepsTo
  <2>2. \A c \in Clients : client'[c].pc = "pool_join" =>
          pool'.thread_count = Cardinality(StartedWorkers') + client'[c].n
    <3>1. SUFFICES ASSUME NEW c \in Clients, client'[c].pc = "pool_join"
                   PROVE  pool'.thread_count = Cardinality(StartedWorkers') + client'[c].n
      OBVIOUS
    <3>2. pool.thread_count = Cardinality(StartedWorkers) + client[c].n
      BY <1>2, <3>1 DEF CountInvariant, CountedInDeletion
    <3> QED
      BY <1>1, <1>2, <1>5, <3>2, CountTypes
  <2> QED
    BY <1>2, <2>1, <2>2 DEF CountedInDeletion
<1> QED
  BY <1>3, <1>6, <1>7 DEF CountInvariant

(* No pool, or a new one: nobody has started. *)
LEMMA NobodyCounts ==
  ASSUME WakeInvariant', StartedWorkers' = {},
         \A c \in Clients : client'[c].pc # "pool_join",
         pool'.thread_count = 0, pool'.idle_thread_count = 0
  PROVE  CountInvariant'
<1>1. Cardinality({}) = 0
  BY FS_EmptySet
<1>2. IdleWorkers' = {} /\ \A w \in Workers : worker'[w].pc # "exited"
  BY DEF IdleWorkers, StartedWorkers
<1>3. ~Deleting' /\ OneDeletes'
  BY DEF Deleting, OneDeletes
<1>4. CountedBefore'
  BY <1>1, <1>2 DEF CountedBefore
<1>5. CountedInDeletion'
  BY <1>3 DEF CountedInDeletion
<1> QED
  BY <1>3, <1>4, <1>5 DEF CountInvariant

(* The first worker is told to exit: all that have started are idle. *)
LEMMA DeletionCounts ==
  ASSUME CountInvariant, WakeInvariant', NEW c \in Clients,
         ~Deleting, pool.alive, ~PoolBusy, worker' = worker, TellToExit(c, 0)
  PROVE  CountInvariant'
<1>1. PoolInvariant
  BY DEF CountInvariant, WakeInvariant
<1>2. /\ pool'.alive = pool.alive
      /\ pool'.thread_count = pool.thread_count
      /\ pool'.idle_thread_count = pool.idle_thread_count
      /\ client'[c].pc = "pool_join" /\ client'[c].n = 0
      /\ \A d \in Clients : d # c => client'[d] = client[d]
  BY <1>1, TellingChanges
<1>3. /\ pool.idle_thread_count = pool.thread_count
      /\ pool.idle_thread_count = Cardinality(IdleWorkers)
      /\ pool.thread_count = Cardinality(StartedWorkers)
  BY DEF CountInvariant, CountedBefore, PoolBusy
<1>4. IdleWorkers \subseteq StartedWorkers
  BY DEF IdleWorkers, StartedWorkers
<1>5. IdleWorkers = StartedWorkers
  BY <1>1, <1>3, <1>4, CountTypes, FS_Subset
<1>6. \A w \in Workers : worker[w].pc \in {"none", "spawned", "check", "wait", "exited"}
  BY <1>5 DEF IdleWorkers, StartedWorkers
<1>7. StartedWorkers' = StartedWorkers /\ Deleting'
  BY <1>2 DEF StartedWorkers, Deleting
<1>8. \A d \in Clients : client'[d].pc = "pool_join" => d = c
  BY <1>2 DEF Deleting
<1>9. OneDeletes'
  BY <1>8 DEF OneDeletes
<1>10. \A d \in Clients : client'[d].pc = "pool_join" =>
         pool'.thread_count = Cardinality(StartedWorkers') + client'[d].n
  <2>1. pool'.thread_count = Cardinality(StartedWorkers') + 0
    <3>1. pool'.thread_count = Cardinality(StartedWorkers')
      BY <1>2, <1>3, <1>7, Zenon
    <3>2. pool'.thread_count \in Nat
      BY <1>1, <1>2, CountTypes
    <3> QED
      BY <3>1, <3>2
  <2> QED
    BY <1>2, <1>8, <2>1
<1>11. CountedInDeletion'
  BY <1>2, <1>3, <1>6, <1>10 DEF CountedInDeletion
<1>12. CountedBefore'
  BY <1>7 DEF CountedBefore
<1> QED
  BY <1>9, <1>11, <1>12 DEF CountInvariant

(* What joining a worker changes. *)
LEMMA JoinedWorker ==
  ASSUME PoolInvariant, NEW c \in Clients, PoolDeleteJoin(c)
  PROVE  /\ client[c].pc = "pool_join" /\ client[c].n \in Nat
         /\ \E x \in Workers :
              /\ client[c].n + 1 \in DOMAIN pool.threads
              /\ x = pool.threads[client[c].n + 1]
              /\ worker[x].pc = "exited" /\ worker'[x].pc = "none"
              /\ \A w \in Workers : w # x => worker'[w] = worker[w]
         /\ \/ client[c].n + 1 < pool.thread_count /\ TellToExit(c, client[c].n + 1)
            \/ ~(client[c].n + 1 < pool.thread_count) /\ Return(c, "OK") /\ pool' = NoPool
<1>1. PICK i \in Nat : i = client[c].n
  BY CountTypes
<1>2. /\ i + 1 \in DOMAIN pool.threads /\ pool.threads[i + 1] # NULL
      /\ worker' = [worker EXCEPT ![pool.threads[i + 1]] = NoWorker]
      /\ worker[pool.threads[i + 1]].pc = "exited"
  BY <1>1 DEF PoolDeleteJoin
<1>3. pool.threads[i + 1] \in Workers
  BY <1>2 DEF PoolInvariant, TypeOK, PoolRecords
<1>4. PICK x \in Workers : x = pool.threads[i + 1]
  BY <1>3
<1>5. worker'[x].pc = "none" /\ \A w \in Workers : w # x => worker'[w] = worker[w]
  BY <1>2, <1>4 DEF NoWorker, PoolInvariant, TypeOK
<1>6. \E y \in Workers :
        /\ client[c].n + 1 \in DOMAIN pool.threads
        /\ y = pool.threads[client[c].n + 1]
        /\ worker[y].pc = "exited" /\ worker'[y].pc = "none"
        /\ \A w \in Workers : w # y => worker'[w] = worker[w]
  BY <1>1, <1>2, <1>4, <1>5
<1> QED
  BY <1>1, <1>6 DEF PoolDeleteJoin

(* Joining one worker after the other.  When the last one is joined none   *)
(* that has started is left: each of the thread_count has been joined.     *)
LEMMA JoinCounts ==
  ASSUME CountInvariant, WakeInvariant', NEW c \in Clients, PoolDeleteJoin(c)
  PROVE  CountInvariant'
<1>1. PoolInvariant
  BY DEF CountInvariant, WakeInvariant
<1>2. PICK i \in Nat : i = client[c].n
  BY <1>1, CountTypes
<1>3. PICK x \in Workers :
        /\ worker[x].pc = "exited" /\ worker'[x].pc = "none"
        /\ \A w \in Workers : w # x => worker'[w] = worker[w]
  BY <1>1, JoinedWorker
<1>4. client[c].pc = "pool_join" /\ Deleting
  BY <1>1, JoinedWorker DEF Deleting
<1>5. x \in StartedWorkers /\ StartedWorkers' = StartedWorkers \ {x}
  BY <1>3 DEF StartedWorkers
<1>6. Cardinality(StartedWorkers') = Cardinality(StartedWorkers) - 1
  BY <1>1, <1>5, CountTypes, FS_RemoveElement
<1>7. pool.thread_count = Cardinality(StartedWorkers) + i
  BY <1>2, <1>4 DEF CountInvariant, CountedInDeletion
<1>8. IsFiniteSet(StartedWorkers') /\ Cardinality(StartedWorkers') \in Nat
  BY WorkersFinite DEF StartedWorkers
<1>9. \A d \in Clients : d # c => client[d].pc # "pool_join"
  BY <1>4 DEF CountInvariant, OneDeletes
<1>10. CASE TellToExit(c, i + 1)
  <2>1. /\ pool'.alive = pool.alive
        /\ pool'.thread_count = pool.thread_count
        /\ pool'.idle_thread_count = pool.idle_thread_count
        /\ client'[c].pc = "pool_join" /\ client'[c].n = i + 1
        /\ \A d \in Clients : d # c => client'[d] = client[d]
    BY <1>1, <1>10, TellingChanges
  <2>2. Deleting' /\ \A d \in Clients : client'[d].pc = "pool_join" => d = c
    BY <1>9, <2>1 DEF Deleting
  <2>3. OneDeletes' /\ CountedBefore'
    BY <2>2 DEF OneDeletes, CountedBefore
  <2>4. /\ pool'.alive /\ pool'.idle_thread_count = pool'.thread_count
        /\ \A v \in Workers : worker'[v].pc \in {"none", "spawned", "check", "wait", "exited"}
    BY <1>3, <1>4, <2>1 DEF CountInvariant, CountedInDeletion
  <2>5. pool'.thread_count = Cardinality(StartedWorkers') + (i + 1)
    BY <1>1, <1>6, <1>7, <1>8, <2>1, CountTypes
  <2>6. CountedInDeletion'
    BY <2>1, <2>2, <2>4, <2>5 DEF CountedInDeletion
  <2> QED
    BY <2>3, <2>6 DEF CountInvariant
<1>11. CASE ~(i + 1 < pool.thread_count) /\ Return(c, "OK") /\ pool' = NoPool
  <2>1. Cardinality(StartedWorkers') = 0
    BY <1>1, <1>6, <1>7, <1>8, <1>11, CountTypes
  <2>2. StartedWorkers' = {}
    BY <1>8, <2>1, FS_EmptySet
  <2>3. \A d \in Clients : client'[d].pc # "pool_join"
    BY <1>1, <1>9, <1>11, OtherClients
  <2>4. pool'.thread_count = 0 /\ pool'.idle_thread_count = 0
    BY <1>11 DEF NoPool
  <2> QED
    BY <2>2, <2>3, <2>4, NobodyCounts
<1> QED
  BY <1>1, <1>2, <1>10, <1>11, JoinedWorker

(* What a push changes that creates a worker. *)
LEMMA SpawnChanges ==
  ASSUME PoolInvariant, NEW c \in Clients, NEW t \in Tasks, SpawnWorker(c, t)
  PROVE  /\ client'[c].pc = "spawn_wait" /\ client'[c].n = pool.thread_count + 1
         /\ \A d \in Clients : d # c => client'[d] = client[d]
         /\ pool'.alive = pool.alive
         /\ pool'.max_thread_count = pool.max_thread_count
         /\ pool'.thread_count = pool.thread_count
         /\ pool'.idle_thread_count = pool.idle_thread_count
         /\ \E w \in Workers :
              /\ worker[w].pc = "none"
              /\ worker'[w].pc = "spawned" /\ worker'[w].idx = pool.thread_count
              /\ \A v \in Workers : v # w => worker'[v] = worker[v]
              /\ pool'.threads = [i \in 1..(pool.thread_count + 1) |->
                   IF i = pool.thread_count + 1 THEN w
                   ELSE IF i \in DOMAIN pool.threads THEN pool.threads[i] ELSE NULL]
<1>1. PICK w \in Workers :
        /\ worker[w].pc = "none"
        /\ worker' = [worker EXCEPT ![w].pc = "spawned", ![w].idx = pool.thread_count]
        /\ pool'.alive = pool.alive
        /\ pool'.max_thread_count = pool.max_thread_count
        /\ pool'.thread_count = pool.thread_count
        /\ pool'.idle_thread_count = pool.idle_thread_count
        /\ pool'.threads = [i \in 1..(pool.thread_count + 1) |->
                              IF i = pool.thread_count + 1 THEN w
                              ELSE IF i \in DOMAIN pool.threads THEN pool.threads[i] ELSE NULL]
        /\ Block(c, "spawn_wait", t, pool.thread_count + 1)
  BY DEF SpawnWorker, PoolInvariant, TypeOK, PoolRecords
<1>2. /\ client'[c].pc = "spawn_wait" /\ client'[c].n = pool.thread_count + 1
      /\ \A d \in Clients : d # c => client'[d] = client[d]
  BY <1>1, OtherClients
<1>3. /\ worker'[w].pc = "spawned" /\ worker'[w].idx = pool.thread_count
      /\ \A v \in Workers : v # w => worker'[v] = worker[v]
  BY <1>1 DEF PoolInvariant, TypeOK, WorkerRecords
<1> QED
  BY <1>1, <1>2, <1>3

(* What linking a task into the list leaves alone. *)
LEMMA EnqueueChanges ==
  ASSUME PoolInvariant, NEW c \in Clients, NEW t, Enqueue(c, t)
  PROVE  /\ pool'.alive = pool.alive
         /\ pool'.threads = pool.threads
         /\ pool'.max_thread_count = pool.max_thread_count
         /\ pool'.thread_count = pool.thread_count
         /\ pool'.idle_thread_count = pool.idle_thread_count
         /\ worker' = worker
         /\ client'[c].pc = "idle"
         /\ \A d \in Clients : d # c => client'[d] = client[d]
<1>1. /\ pool'.alive = pool.alive
      /\ pool'.threads = pool.threads
      /\ pool'.max_thread_count = pool.max_thread_count
      /\ pool'.thread_count = pool.thread_count
      /\ pool'.idle_thread_count = pool.idle_thread_count
      /\ worker' = worker
  BY DEF Enqueue, PoolInvariant, TypeOK, PoolRecords
<1> QED
  BY <1>1, OtherClients DEF Enqueue

(* A step of a client keeps the counters. *)
LEMMA ClientCounts ==
  ASSUME CountInvariant, WakeInvariant', NEW c \in Clients, ClientStep(c) \/ ClientCall(c)
  PROVE  CountInvariant'
<1>1. PoolInvariant
  BY DEF CountInvariant, WakeInvariant
<1>2. CASE TaskOnly(c)
  BY <1>2, QuietCounts DEF TaskOnly
<1>3. ASSUME NEW t, Enqueue(c, t), client[c].pc # "pool_join"
      PROVE  CountInvariant'
  <2>1. /\ pool'.alive = pool.alive
        /\ pool'.thread_count = pool.thread_count
        /\ pool'.idle_thread_count = pool.idle_thread_count
        /\ worker' = worker
        /\ client'[c].pc = "idle"
        /\ \A d \in Clients : d # c => client'[d] = client[d]
    BY <1>1, <1>3, EnqueueChanges
  <2> QED
    BY <1>3, <2>1, QuietCounts
<1>4. CASE PushTaskWake(c)
  <2>1. client[c].pc = "spawn_wait"
    BY <1>4 DEF PushTaskWake
  <2>2. CASE /\ pool' = [pool EXCEPT !.spawn_cv = pool.spawn_cv \cup {c}]
             /\ UNCHANGED <<task, worker, client>>
    <3>1. /\ pool'.alive = pool.alive
          /\ pool'.thread_count = pool.thread_count
          /\ pool'.idle_thread_count = pool.idle_thread_count
      BY <1>1, <2>2 DEF PoolInvariant, TypeOK, PoolRecords
    <3> QED
      BY <2>2, <3>1, QuietCounts
  <2> QED
    BY <1>3, <1>4, <2>1, <2>2 DEF PushTaskWake
<1>5. CASE TimedJoinSpin(c)
  BY <1>5, QuietCounts DEF TimedJoinSpin, vars
<1>6. ASSUME NEW n \in MaxThreadCounts, ThreadPoolNew(c, n)
      PROVE  CountInvariant'
  <2>1. CASE /\ ~pool.alive
             /\ pool' = [NoPool EXCEPT !.alive = TRUE, !.max_thread_count = n]
             /\ worker' = worker
             /\ client[c].pc = "idle" /\ client'[c].pc = "idle"
             /\ \A d \in Clients : d # c => client'[d] = client[d]
    <3>1. StartedWorkers' = {} /\ ~Deleting
      BY <2>1 DEF CountInvariant, CountedInDeletion, StartedWorkers
    <3>2. \A d \in Clients : client'[d].pc # "pool_join"
      BY <2>1, <3>1 DEF Deleting
    <3>3. pool'.thread_count = 0 /\ pool'.idle_thread_count = 0
      BY <2>1 DEF NoPool
    <3> QED
      BY <3>1, <3>2, <3>3, NobodyCounts
  <2> QED
    BY <1>1, <1>2, <1>6, <2>1, PoolNewChanges
<1>7. CASE ThreadPoolDelete(c)
  <2>1. client[c].pc = "idle" /\ pool.alive /\ worker' = worker /\ ~Deleting
    BY <1>7 DEF ThreadPoolDelete, MayUsePool, Deleting
  <2>2. CASE Return(c, "HAS_TASKS") /\ UNCHANGED pool
    <3>1. TaskOnly(c)
      BY <1>1, <2>1, <2>2, OtherClients DEF TaskOnly
    <3> QED
      BY <1>2, <3>1
  <2>3. CASE ~PoolBusy /\ pool.thread_count = 0 /\ Return(c, "OK") /\ pool' = NoPool
    <3>1. Cardinality(StartedWorkers) = 0
      BY <2>1, <2>3 DEF CountInvariant, CountedBefore
    <3>2. StartedWorkers = {}
      BY <1>1, <3>1, CountTypes, FS_EmptySet
    <3>3. StartedWorkers' = {}
      BY <2>1, <3>2 DEF StartedWorkers
    <3>4. \A d \in Clients : client'[d].pc # "pool_join"
      BY <1>1, <2>1, <2>3, OtherClients DEF Deleting
    <3>5. pool'.thread_count = 0 /\ pool'.idle_thread_count = 0
      BY <2>3 DEF NoPool
    <3> QED
      BY <3>3, <3>4, <3>5, NobodyCounts
  <2>4. CASE ~PoolBusy /\ TellToExit(c, 0)
    BY <2>1, <2>4, DeletionCounts
  <2> QED
    BY <1>7, <2>2, <2>3, <2>4 DEF ThreadPoolDelete
<1>8. ASSUME NEW t \in Tasks, ThreadPoolPushTask(c, t)
      PROVE  CountInvariant'
  <2>1. client[c].pc = "idle"
    BY <1>8 DEF ThreadPoolPushTask, MayUsePool
  <2>2. CASE Return(c, "TOO_MANY_TASKS") /\ UNCHANGED <<pool, task, worker>>
    <3>1. TaskOnly(c)
      BY <1>1, <2>1, <2>2, OtherClients DEF TaskOnly
    <3> QED
      BY <1>2, <3>1
  <2>3. CASE SpawnWorker(c, t)
    <3>1. /\ client'[c].pc = "spawn_wait"
          /\ \A d \in Clients : d # c => client'[d] = client[d]
          /\ pool'.alive = pool.alive
          /\ pool'.thread_count = pool.thread_count
          /\ pool'.idle_thread_count = pool.idle_thread_count
          /\ \E w \in Workers : /\ worker[w].pc = "none" /\ worker'[w].pc = "spawned"
                                /\ \A v \in Workers : v # w => worker'[v] = worker[v]
      BY <1>1, <2>3, SpawnChanges
    <3> QED
      BY <2>1, <3>1, QuietCounts
  <2> QED
    BY <1>3, <1>8, <2>1, <2>2, <2>3 DEF ThreadPoolPushTask
<1> QED
  BY <1>1, <1>2, <1>4, <1>5, <1>6, <1>7, <1>8, TaskFunctions, JoinCounts
     DEF ClientStep, ClientCall

(* What a spurious wakeup leaves alone. *)
LEMMA SpuriousChanges ==
  ASSUME PoolInvariant, SpuriousWakeup
  PROVE  /\ worker' = worker /\ client' = client
         /\ pool'.alive = pool.alive
         /\ pool'.threads = pool.threads
         /\ pool'.max_thread_count = pool.max_thread_count
         /\ pool'.thread_count = pool.thread_count
         /\ pool'.idle_thread_count = pool.idle_thread_count
BY DEF SpuriousWakeup, PoolInvariant, TypeOK, PoolRecords

(* Every step keeps the counters. *)
LEMMA NextCounts ==
  ASSUME CountInvariant, [Next]_vars
  PROVE  CountInvariant'
<1>1. PoolInvariant /\ WakeInvariant'
  BY NextWakes DEF CountInvariant, WakeInvariant
<1>2. CASE UNCHANGED vars
  BY <1>1, <1>2, QuietCounts DEF vars
<1>3. ASSUME NEW w \in Workers, WorkerStep(w)
      PROVE  CountInvariant'
  BY <1>1, <1>3, StartCounts, StartedCounts
<1>4. CASE SpuriousWakeup
  <2>1. /\ worker' = worker /\ client' = client
        /\ pool'.alive = pool.alive
        /\ pool'.thread_count = pool.thread_count
        /\ pool'.idle_thread_count = pool.idle_thread_count
    BY <1>1, <1>4, SpuriousChanges
  <2> QED
    BY <1>1, <2>1, QuietCounts
<1> QED
  BY <1>1, <1>2, <1>3, <1>4, ClientCounts DEF Next

(* The counters start with no threads. *)
LEMMA InitCounts ==
  ASSUME Init
  PROVE  CountInvariant
<1>1. /\ \A w \in Workers : worker[w].pc = "none"
      /\ \A c \in Clients : client[c].pc = "idle"
      /\ pool.thread_count = 0 /\ pool.idle_thread_count = 0
  BY DEF Init, NoPool, NoWorker, IdleClient
<1>2. Cardinality({}) = 0
  BY FS_EmptySet
<1>3. IdleWorkers = {} /\ StartedWorkers = {}
  BY <1>1 DEF IdleWorkers, StartedWorkers
<1>4. OneDeletes /\ CountedBefore /\ CountedInDeletion
  BY <1>1, <1>2, <1>3 DEF OneDeletes, CountedBefore, CountedInDeletion, Deleting
<1> QED
  BY <1>4, InitWakes DEF CountInvariant

(* With nothing unfinished nothing is pending and nobody runs a task. *)
LEMMA NothingUnfinished ==
  ASSUME PoolInvariant, \A t \in Tasks : ~Unfinished(t)
  PROVE  /\ pool.pending_task_count = 0 /\ pool.running_task_count = 0
         /\ \A w \in Workers : ~HasTask(w)
<1>1. pool.pending_task_list \in Seq(Tasks) /\ Len(pool.pending_task_list) \in Nat
  BY DEF PoolInvariant, TypeOK, PoolRecords
<1>2. \A t \in Tasks : t \notin Range(pool.pending_task_list) /\ ~Held(t)
  BY DEF PoolInvariant, TaskInOnePlace
<1>3. Len(pool.pending_task_list) = 0
  <2>1. SUFFICES ASSUME Len(pool.pending_task_list) # 0
                 PROVE  FALSE
    OBVIOUS
  <2>2. 1 \in DOMAIN pool.pending_task_list /\ pool.pending_task_list[1] \in Tasks
    BY <1>1, <2>1
  <2>3. pool.pending_task_list[1] \in Range(pool.pending_task_list)
    BY <2>2 DEF Range
  <2> QED
    BY <1>2, <2>2, <2>3
<1>4. \A w \in Workers : ~HasTask(w)
  BY <1>2 DEF Held, PoolInvariant, WorkersRefer
<1>5. BusyWorkers = {}
  BY <1>4 DEF BusyWorkers
<1> QED
  BY <1>3, <1>4, <1>5, FS_EmptySet DEF PoolInvariant, TaskCountersExact

(* Then, with the mutex free, every worker is idle. *)
LEMMA Deletable ==
  ASSUME CountInvariant
  PROVE  DeletableWhenDone
<1>1. SUFFICES ASSUME pool.mutex = NULL, \A t \in Tasks : ~Unfinished(t)
               PROVE  ~PoolBusy
  BY DEF DeletableWhenDone
<1>2. PoolInvariant
  BY DEF CountInvariant, WakeInvariant
<1>3. /\ pool.pending_task_count = 0 /\ pool.running_task_count = 0
      /\ \A w \in Workers : ~HasTask(w)
  BY <1>1, <1>2, NothingUnfinished
<1>4. CASE Deleting
  BY <1>3, <1>4 DEF CountInvariant, CountedInDeletion, PoolBusy
<1>5. CASE ~Deleting
  <2>1. \A w \in Workers : worker[w].pc # "exited"
    BY <1>5 DEF CountInvariant, CountedBefore
  <2>2. \A w \in Workers : worker[w].pc # "unlock_task"
    BY <1>1, <1>2, ConstantsAssumption DEF PoolInvariant, MutexHeld, HasPoolMutex
  <2>3. IdleWorkers = StartedWorkers
    BY <1>2, <1>3, <2>1, <2>2, CountTypes DEF IdleWorkers, StartedWorkers, HasTask, WorkerPCs
  <2> QED
    BY <1>3, <1>5, <2>3 DEF CountInvariant, CountedBefore, PoolBusy
<1> QED
  BY <1>4, <1>5

(* The counters of threads are those of the workers outside of a deletion, *)
(* and count the joined ones in it.                                        *)
THEOREM CountInvariantHolds == Spec => []CountInvariant
BY InitCounts, NextCounts, PTL DEF Spec

(* The counters on which push and delete decide agree with the threads,    *)
(* whoever holds the mutex (thread_pool.c:59-64, 80-83, 104-106).          *)
THEOREM CountersStayExact == Spec => []CountersExact
<1>1. CountInvariant => CountersExact
  BY DEF CountInvariant, CountedBefore, Deleting, CountersExact, IdleWorkers, StartedWorkers,
     WakeInvariant, PoolInvariant
<1> QED
  BY <1>1, CountInvariantHolds, PTL

(* After every task has finished a deletion does not report any            *)
(* (thread_pool.c:136).                                                    *)
THEOREM PoolDeletableWhenDone == Spec => []DeletableWhenDone
<1>1. CountInvariant => DeletableWhenDone
  BY Deletable
<1> QED
  BY <1>1, CountInvariantHolds, PTL

-----------------------------------------------------------------------------
(* One client: the array and the threads.                                  *)

(* What the invariant says of types. *)
LEMMA OneTypes ==
  ASSUME OneClientInvariant
  PROVE  /\ PoolInvariant
         /\ pool.threads \in Seq(Workers \cup {NULL}) /\ Len(pool.threads) \in Nat
         /\ pool.thread_count \in Nat /\ pool.max_thread_count \in Nat
         /\ \A w \in Workers : worker[w].idx \in Nat
         /\ \A c \in Clients : client[c].n \in Nat /\ \A d \in Clients : d = c
BY DEF OneClientInvariant, OneClient, CountInvariant, WakeInvariant, PoolInvariant, TypeOK,
   PoolRecords, WorkerRecords, ClientRecords

(* A step that leaves alone the array, the count of threads, who exists    *)
(* and has started, and what client waits for which thread.                *)
LEMMA SameThreads ==
  ASSUME OneClientInvariant, CountInvariant',
         pool'.alive = pool.alive,
         pool'.threads = pool.threads,
         pool'.max_thread_count = pool.max_thread_count,
         pool'.thread_count = pool.thread_count,
         \A w \in Workers : /\ worker'[w].idx = worker[w].idx
                            /\ (worker'[w].pc = "none") <=> (worker[w].pc = "none")
                            /\ (worker'[w].pc = "spawned") <=> (worker[w].pc = "spawned"),
         \A c \in Clients :
           \/ client'[c] = client[c]
           \/ /\ client'[c].pc \notin {"spawn_wait", "pool_join"}
              /\ client[c].pc \notin {"spawn_wait", "pool_join"}
  PROVE  OneClientInvariant'
<1>1. Recorded'
  BY DEF OneClientInvariant, Recorded
<1>2. SpawnAwaited'
  BY DEF OneClientInvariant, SpawnAwaited
<1>3. ThreadsLength'
  BY DEF OneClientInvariant, ThreadsLength
<1>4. {w \in Workers : worker'[w].pc # "none"} = {w \in Workers : worker[w].pc # "none"}
  OBVIOUS
<1>5. ThreadBound'
  BY <1>4 DEF OneClientInvariant, ThreadBound
<1>6. NoPoolUseAfterFree'
  BY DEF OneClientInvariant, NoPoolUseAfterFree
<1>7. OneClient' /\ (pool'.alive => pool'.max_thread_count >= 1)
  BY DEF OneClientInvariant, OneClient
<1> QED
  BY <1>1, <1>2, <1>3, <1>5, <1>6, <1>7 DEF OneClientInvariant

(* A step of a worker that has started. *)
LEMMA StartedSteps ==
  ASSUME OneClientInvariant, CountInvariant', NEW w \in Workers,
         WorkerStep(w), ~WorkerStart(w)
  PROVE  OneClientInvariant'
<1>1. PoolInvariant
  BY OneTypes
<1>2. /\ SameFrame /\ client' = client
      /\ \A v \in Workers : worker'[v].idx = worker[v].idx
  BY <1>1, WorkerSteps DEF WorkerStep
<1>3. \E pc : /\ StepsTo(w, pc) /\ pc \notin {"none", "spawned"}
              /\ worker[w].pc \notin {"none", "spawned"}
  <2>1. CASE WorkerWait(w)
    BY <1>1, <2>1, WorkerSteps
  <2>2. CASE WorkerWake(w)
    BY <1>1, <2>2, WorkerSteps
  <2>3. CASE WorkerExit(w)
    BY <1>1, <2>3, WorkerSteps
  <2>4. CASE WorkerTake(w)
    BY <1>1, <2>4, WorkerSteps
  <2>5. CASE WorkerExecute(w) \/ WorkerLockPool(w) \/ WorkerFinish(w)
    BY <1>1, <2>5, WorkerSteps
  <2>6. CASE WorkerUnlockTask(w)
    BY <1>1, <2>6, WorkerSteps
  <2> QED
    BY <2>1, <2>2, <2>3, <2>4, <2>5, <2>6 DEF WorkerStep
<1>4. \A v \in Workers : /\ (worker'[v].pc = "none") <=> (worker[v].pc = "none")
                         /\ (worker'[v].pc = "spawned") <=> (worker[v].pc = "spawned")
  BY <1>3 DEF StepsTo
<1> QED
  BY <1>2, <1>4, SameThreads DEF SameFrame

(* The start of a worker: it is the only one that has not started, and the *)
(* client waits for it.                                                    *)
LEMMA StartSteps ==
  ASSUME OneClientInvariant, CountInvariant', NEW w \in Workers, WorkerStart(w)
  PROVE  OneClientInvariant'
<1>1. /\ worker[w].pc = "spawned" /\ StepsTo(w, "check")
      /\ \A v \in Workers : worker'[v].idx = worker[v].idx
      /\ client' = client
      /\ pool.alive /\ pool'.alive
      /\ pool'.threads = pool.threads
      /\ pool'.max_thread_count = pool.max_thread_count
  BY OneTypes, StartChanges
<1>2. PICK c \in Clients : client[c].pc = "spawn_wait"
  BY <1>1 DEF OneClientInvariant, SpawnAwaited
<1>3. \A d \in Clients : d = c
  BY OneTypes
<1>4. \A v \in Workers : worker[v].pc = "spawned" => v = w
  <2>1. SUFFICES ASSUME NEW v \in Workers, worker[v].pc = "spawned"
                 PROVE  v = w
    OBVIOUS
  <2>2. worker[v].idx = worker[w].idx
    BY <1>1, <2>1 DEF OneClientInvariant, SpawnAwaited
  <2>3. pool.threads[worker[v].idx + 1] = v /\ pool.threads[worker[w].idx + 1] = w
    BY <1>1, <2>1 DEF OneClientInvariant, Recorded
  <2> QED
    BY <2>2, <2>3
<1>5. Recorded'
  BY <1>1 DEF OneClientInvariant, Recorded, StepsTo
<1>6. SpawnAwaited'
  BY <1>1, <1>4 DEF SpawnAwaited, StepsTo
<1>7. ThreadsLength'
  BY <1>1, <1>2, <1>3 DEF OneClientInvariant, ThreadsLength
<1>8. {v \in Workers : worker'[v].pc # "none"} = {v \in Workers : worker[v].pc # "none"}
  BY <1>1 DEF StepsTo
<1>9. ThreadBound'
  BY <1>1, <1>8 DEF OneClientInvariant, ThreadBound
<1>10. NoPoolUseAfterFree'
  BY <1>1 DEF NoPoolUseAfterFree
<1>11. OneClient' /\ (pool'.alive => pool'.max_thread_count >= 1)
  BY <1>1 DEF OneClientInvariant, OneClient
<1> QED
  BY <1>5, <1>6, <1>7, <1>9, <1>10, <1>11 DEF OneClientInvariant

(* A pool that is not there, and one that has just been created.           *)
LEMMA NoWorkers ==
  ASSUME OneClient, CountInvariant',
         \A w \in Workers : worker'[w].pc = "none",
         \A c \in Clients : client'[c].pc \notin {"spawn_wait", "pool_join"},
         pool'.threads = <<>>, pool'.thread_count = 0,
         pool'.max_thread_count \in Nat,
         pool'.alive => pool'.max_thread_count >= 1
  PROVE  OneClientInvariant'
<1>1. Recorded' /\ SpawnAwaited' /\ ThreadsLength' /\ NoPoolUseAfterFree'
  BY DEF Recorded, SpawnAwaited, ThreadsLength, NoPoolUseAfterFree
<1>2. {w \in Workers : worker'[w].pc # "none"} = {}
  OBVIOUS
<1>3. Cardinality({w \in Workers : worker'[w].pc # "none"}) = 0
  BY <1>2, FS_EmptySet, Zenon
<1>4. Cardinality({w \in Workers : worker'[w].pc # "none"}) <= pool'.max_thread_count
  BY <1>3
<1>5. ThreadBound'
  BY <1>4 DEF ThreadBound
<1>6. OneClient'
  BY DEF OneClient
<1> QED
  BY <1>1, <1>5, <1>6 DEF OneClientInvariant

(* Linking the task into the list.  A client that has waited for the       *)
(* thread it has created finds it started.                                 *)
LEMMA EnqueueSteps ==
  ASSUME OneClientInvariant, CountInvariant', NEW c \in Clients, NEW t,
         Enqueue(c, t),
         \/ client[c].pc = "idle"
         \/ client[c].pc = "spawn_wait" /\ pool.thread_count = client[c].n
  PROVE  OneClientInvariant'
<1>1. /\ pool'.alive = pool.alive
      /\ pool'.threads = pool.threads
      /\ pool'.max_thread_count = pool.max_thread_count
      /\ pool'.thread_count = pool.thread_count
      /\ worker' = worker
      /\ client'[c].pc = "idle"
  BY OneTypes, EnqueueChanges
<1>2. \A d \in Clients : d = c
  BY OneTypes
<1>3. CASE client[c].pc = "idle"
  BY <1>1, <1>2, <1>3, SameThreads
<1>4. CASE client[c].pc = "spawn_wait" /\ pool.thread_count = client[c].n
  <2>1. Len(pool.threads) = pool.thread_count
    BY <1>4 DEF OneClientInvariant, ThreadsLength
  <2>2. \A w \in Workers : worker[w].pc # "spawned"
    <3>1. SUFFICES ASSUME NEW w \in Workers, worker[w].pc = "spawned"
                   PROVE  FALSE
      OBVIOUS
    <3>2. worker[w].idx = pool.thread_count /\ worker[w].idx + 1 \in 1..Len(pool.threads)
      BY <3>1 DEF OneClientInvariant, SpawnAwaited, Recorded
    <3> QED
      BY <2>1, <3>2, OneTypes
  <2>3. Recorded'
    BY <1>1, <1>2 DEF OneClientInvariant, Recorded
  <2>4. SpawnAwaited'
    BY <1>1, <2>2 DEF SpawnAwaited
  <2>5. ThreadsLength'
    BY <1>1, <1>2, <2>1 DEF ThreadsLength
  <2>6. ThreadBound' /\ (pool'.alive => pool'.max_thread_count >= 1)
    BY <1>1 DEF OneClientInvariant, ThreadBound
  <2>7. NoPoolUseAfterFree' /\ OneClient'
    BY <1>1, <1>2 DEF OneClientInvariant, NoPoolUseAfterFree, OneClient
  <2> QED
    BY <2>3, <2>4, <2>5, <2>6, <2>7 DEF OneClientInvariant
<1> QED
  BY <1>3, <1>4

(* A push creates a worker only below the limit: all that exist have       *)
(* counted themselves.                                                     *)
LEMMA SpawnSteps ==
  ASSUME OneClientInvariant, CountInvariant', NEW c \in Clients, NEW t \in Tasks,
         client[c].pc = "idle", pool.alive, NeedsWorker, SpawnWorker(c, t)
  PROVE  OneClientInvariant'
<1>1. /\ PoolInvariant
      /\ pool.thread_count \in Nat /\ pool.max_thread_count \in Nat
      /\ pool.threads \in Seq(Workers \cup {NULL}) /\ Len(pool.threads) \in Nat
      /\ \A d \in Clients : d = c
  BY OneTypes
<1>2. /\ client'[c].pc = "spawn_wait" /\ client'[c].n = pool.thread_count + 1
      /\ pool'.alive = pool.alive
      /\ pool'.max_thread_count = pool.max_thread_count
      /\ pool'.thread_count = pool.thread_count
  BY <1>1, SpawnChanges
<1>3. PICK w \in Workers :
        /\ worker[w].pc = "none"
        /\ worker'[w].pc = "spawned" /\ worker'[w].idx = pool.thread_count
        /\ \A v \in Workers : v # w => worker'[v] = worker[v]
        /\ pool'.threads = [i \in 1..(pool.thread_count + 1) |->
             IF i = pool.thread_count + 1 THEN w
             ELSE IF i \in DOMAIN pool.threads THEN pool.threads[i] ELSE NULL]
  BY <1>1, SpawnChanges
<1>4. Len(pool.threads) = pool.thread_count
  BY <1>1 DEF OneClientInvariant, ThreadsLength
<1>5. /\ Len(pool'.threads) = pool.thread_count + 1
      /\ pool'.threads[pool.thread_count + 1] = w
      /\ \A i \in 1..pool.thread_count : pool'.threads[i] = pool.threads[i]
  BY <1>1, <1>3, <1>4
<1>6. \A v \in Workers : worker[v].pc # "spawned"
  BY <1>1 DEF OneClientInvariant, SpawnAwaited
<1>7. Recorded'
  <2>1. SUFFICES ASSUME NEW v \in Workers, worker'[v].pc # "none"
                 PROVE  /\ worker'[v].idx + 1 \in 1..Len(pool'.threads)
                        /\ pool'.threads[worker'[v].idx + 1] = v
    BY <1>1, <1>2 DEF Recorded
  <2>2. CASE v = w
    BY <1>1, <1>3, <1>5, <2>2
  <2>3. CASE v # w
    <3>1. worker'[v].idx = worker[v].idx /\ worker[v].pc # "none"
      BY <1>3, <2>1, <2>3
    <3>2. /\ worker[v].idx + 1 \in 1..pool.thread_count
          /\ pool.threads[worker[v].idx + 1] = v
      BY <1>4, <3>1 DEF OneClientInvariant, Recorded
    <3> QED
      BY <1>1, <1>5, <3>1, <3>2
  <2> QED
    BY <2>2, <2>3
<1>8. SpawnAwaited'
  BY <1>2, <1>3, <1>6 DEF SpawnAwaited
<1>9. ThreadsLength'
  BY <1>1, <1>2, <1>5 DEF ThreadsLength
<1>10. Cardinality(StartedWorkers) = pool.thread_count /\ IsFiniteSet(StartedWorkers)
  <2>1. ~Deleting
    BY <1>1 DEF Deleting
  <2> QED
    BY <1>1, <2>1, CountTypes DEF OneClientInvariant, CountInvariant, CountedBefore
<1>11. ThreadBound'
  <2>1. {v \in Workers : worker'[v].pc # "none"} = StartedWorkers \cup {w} /\ w \notin StartedWorkers
    BY <1>3, <1>6 DEF StartedWorkers
  <2>2. Cardinality({v \in Workers : worker'[v].pc # "none"}) = pool.thread_count + 1
    BY <1>10, <2>1, FS_AddElement
  <2>3. pool.thread_count < pool.max_thread_count
    <3>1. CASE pool.threads = <<>>
      BY <1>1, <1>4, <3>1 DEF OneClientInvariant
    <3> QED
      BY <3>1 DEF NeedsWorker
  <2>4. Cardinality({v \in Workers : worker'[v].pc # "none"}) <= pool'.max_thread_count
    BY <1>1, <1>2, <2>2, <2>3
  <2> QED
    BY <2>4 DEF ThreadBound
<1>12. NoPoolUseAfterFree' /\ OneClient' /\ (pool'.alive => pool'.max_thread_count >= 1)
  BY <1>2 DEF OneClientInvariant, OneClient, NoPoolUseAfterFree
<1> QED
  BY <1>7, <1>8, <1>9, <1>11, <1>12 DEF OneClientInvariant

(* The first worker is told to exit. *)
LEMMA FirstTold ==
  ASSUME OneClientInvariant, CountInvariant', NEW c \in Clients,
         client[c].pc = "idle", pool.alive, worker' = worker, TellToExit(c, 0)
  PROVE  OneClientInvariant'
<1>1. /\ pool'.alive = pool.alive
      /\ pool'.threads = pool.threads
      /\ pool'.max_thread_count = pool.max_thread_count
      /\ pool'.thread_count = pool.thread_count
      /\ client'[c].pc = "pool_join" /\ client'[c].n = 0
  BY OneTypes, TellingChanges
<1>2. \A d \in Clients : d = c
  BY OneTypes
<1>3. Recorded'
  BY <1>1, <1>2, OneTypes DEF OneClientInvariant, Recorded
<1>4. SpawnAwaited'
  BY <1>2 DEF OneClientInvariant, SpawnAwaited
<1>5. ThreadsLength'
  BY <1>1, <1>2 DEF OneClientInvariant, ThreadsLength
<1>6. ThreadBound' /\ (pool'.alive => pool'.max_thread_count >= 1)
  BY <1>1 DEF OneClientInvariant, ThreadBound
<1>7. NoPoolUseAfterFree' /\ OneClient'
  BY <1>1 DEF OneClientInvariant, NoPoolUseAfterFree, OneClient
<1> QED
  BY <1>3, <1>4, <1>5, <1>6, <1>7 DEF OneClientInvariant

(* The pool is freed: every worker has been joined, or there was none.     *)
LEMMA FreedSteps ==
  ASSUME OneClientInvariant, CountInvariant', NEW c \in Clients,
         Return(c, "OK"), pool' = NoPool,
         \A w \in Workers : worker'[w].pc = "none"
  PROVE  OneClientInvariant'
<1>1. \A d \in Clients : client'[d].pc = "idle"
  BY OneTypes, OtherClients
<1> QED
  BY <1>1, NoWorkers DEF NoPool, OneClientInvariant

(* thread_pool_delete *)
LEMMA ThreadPoolDeleteSteps ==
  ASSUME OneClientInvariant, CountInvariant', NEW c \in Clients, ThreadPoolDelete(c)
  PROVE  OneClientInvariant'
<1>1. client[c].pc = "idle" /\ pool.alive /\ worker' = worker
  BY DEF ThreadPoolDelete, MayUsePool
<1>2. \A d \in Clients : d = c
  BY OneTypes
<1>3. CASE Return(c, "HAS_TASKS") /\ UNCHANGED pool
  <2>1. client'[c].pc = "idle"
    BY <1>3, OneTypes, OtherClients
  <2> QED
    BY <1>1, <1>2, <1>3, <2>1, SameThreads
<1>4. CASE pool.thread_count = 0 /\ Return(c, "OK") /\ pool' = NoPool
  <2>1. Len(pool.threads) = 0
    BY <1>1, <1>4 DEF OneClientInvariant, ThreadsLength
  <2>2. \A w \in Workers : worker[w].pc = "none"
    BY <2>1, OneTypes DEF OneClientInvariant, Recorded
  <2> QED
    BY <1>1, <1>4, <2>2, FreedSteps
<1>5. CASE TellToExit(c, 0)
  BY <1>1, <1>5, FirstTold
<1> QED
  BY <1>3, <1>4, <1>5 DEF ThreadPoolDelete

(* The deletion joins the worker at its index and tells the next to exit,  *)
(* or frees the pool: the one joined was the last that existed.            *)
LEMMA PoolDeleteJoinSteps ==
  ASSUME OneClientInvariant, CountInvariant', NEW c \in Clients, PoolDeleteJoin(c)
  PROVE  OneClientInvariant'
<1>1. PoolInvariant /\ \A d \in Clients : d = c
  BY OneTypes
<1>2. PICK i \in Nat : i = client[c].n
  BY OneTypes
<1>3. PICK x \in Workers :
        /\ x = pool.threads[i + 1]
        /\ worker[x].pc = "exited" /\ worker'[x].pc = "none"
        /\ \A w \in Workers : w # x => worker'[w] = worker[w]
  BY <1>1, <1>2, JoinedWorker
<1>4. client[c].pc = "pool_join" /\ Len(pool.threads) = pool.thread_count
  BY <1>1, JoinedWorker DEF OneClientInvariant, ThreadsLength
<1>5. \A w \in Workers : worker'[w].pc # "none" =>
        /\ worker[w].idx + 1 \in 1..pool.thread_count
        /\ pool.threads[worker[w].idx + 1] = w
        /\ worker[w].idx >= i + 1
  <2>1. SUFFICES ASSUME NEW w \in Workers, worker'[w].pc # "none"
                 PROVE  /\ worker[w].idx + 1 \in 1..pool.thread_count
                        /\ pool.threads[worker[w].idx + 1] = w
                        /\ worker[w].idx >= i + 1
    OBVIOUS
  <2>2. w # x /\ worker[w].pc # "none"
    BY <1>3, <2>1
  <2>3. /\ worker[w].idx + 1 \in 1..pool.thread_count
        /\ pool.threads[worker[w].idx + 1] = w
        /\ worker[w].idx >= i
    BY <1>2, <1>4, <2>2 DEF OneClientInvariant, Recorded
  <2>4. worker[w].idx # i
    BY <1>3, <2>2, <2>3
  <2> QED
    BY <1>2, <2>3, <2>4, OneTypes
<1>6. CASE TellToExit(c, i + 1)
  <2>1. /\ pool'.alive = pool.alive
        /\ pool'.threads = pool.threads
        /\ pool'.max_thread_count = pool.max_thread_count
        /\ pool'.thread_count = pool.thread_count
        /\ client'[c].pc = "pool_join" /\ client'[c].n = i + 1
    BY <1>1, <1>6, TellingChanges
  <2>2. \A w \in Workers : worker'[w].pc # "none" =>
          worker'[w].pc = worker[w].pc /\ worker'[w].idx = worker[w].idx
    BY <1>3
  <2>3. Recorded'
    BY <1>1, <1>4, <1>5, <2>1, <2>2 DEF Recorded
  <2>4. SpawnAwaited'
    BY <1>1, <1>4, <2>2 DEF OneClientInvariant, SpawnAwaited
  <2>5. ThreadsLength'
    BY <1>1, <1>4, <2>1 DEF ThreadsLength
  <2>6. ThreadBound'
    <3> DEFINE A == {w \in Workers : worker[w].pc # "none"}
               B == {w \in Workers : worker'[w].pc # "none"}
    <3>1. B \subseteq A
      BY <2>2
    <3>2. IsFiniteSet(A) /\ Cardinality(A) \in Nat /\ Cardinality(B) \in Nat
      BY WorkersFinite
    <3>3. Cardinality(B) <= Cardinality(A)
      <4> HIDE DEF A, B
      <4> QED
        BY <3>1, <3>2, FS_Subset
    <3>4. Cardinality(A) <= pool.max_thread_count
      BY DEF OneClientInvariant, ThreadBound
    <3>5. Cardinality(B) <= pool'.max_thread_count
      <4> HIDE DEF A, B
      <4> QED
        BY <2>1, <3>2, <3>3, <3>4, OneTypes
    <3> QED
      BY <3>5 DEF ThreadBound
  <2>7. pool'.alive /\ pool'.max_thread_count >= 1
    BY <1>4, <2>1 DEF OneClientInvariant, NoPoolUseAfterFree
  <2>8. NoPoolUseAfterFree' /\ OneClient'
    BY <2>7 DEF OneClientInvariant, NoPoolUseAfterFree, OneClient
  <2> QED
    BY <2>3, <2>4, <2>5, <2>6, <2>7, <2>8 DEF OneClientInvariant
<1>7. CASE ~(i + 1 < pool.thread_count) /\ Return(c, "OK") /\ pool' = NoPool
  <2>1. \A w \in Workers : worker'[w].pc = "none"
    <3>1. SUFFICES ASSUME NEW w \in Workers, worker'[w].pc # "none"
                   PROVE  FALSE
      OBVIOUS
    <3>2. /\ worker[w].idx + 1 \in 1..pool.thread_count
          /\ worker[w].idx >= i + 1
      BY <1>5, <3>1
    <3> QED
      BY <1>2, <1>7, <3>2, OneTypes
  <2> QED
    BY <1>7, <2>1, FreedSteps
<1> QED
  BY <1>1, <1>2, <1>6, <1>7, JoinedWorker

(* A step of a client preserves the invariant of a pool with one client.   *)
LEMMA ClientSteps ==
  ASSUME OneClientInvariant, CountInvariant', NEW c \in Clients, ClientStep(c) \/ ClientCall(c)
  PROVE  OneClientInvariant'
<1>1. PoolInvariant /\ OneClient /\ \A d \in Clients : d = c
  BY OneTypes DEF OneClientInvariant
<1>2. CASE TaskOnly(c)
  BY <1>2, SameThreads DEF TaskOnly
<1>3. CASE PushTaskWake(c)
  <2>1. client[c].pc = "spawn_wait"
    BY <1>3 DEF PushTaskWake
  <2>2. CASE pool.thread_count = client[c].n /\ Enqueue(c, client[c].task)
    BY <2>1, <2>2, EnqueueSteps
  <2>3. CASE /\ pool' = [pool EXCEPT !.spawn_cv = pool.spawn_cv \cup {c}]
             /\ UNCHANGED <<task, worker, client>>
    <3>1. /\ pool'.alive = pool.alive
          /\ pool'.threads = pool.threads
          /\ pool'.max_thread_count = pool.max_thread_count
          /\ pool'.thread_count = pool.thread_count
      BY <1>1, <2>3 DEF PoolInvariant, TypeOK, PoolRecords
    <3> QED
      BY <2>3, <3>1, SameThreads
  <2> QED
    BY <1>3, <2>2, <2>3 DEF PushTaskWake
<1>4. CASE TimedJoinSpin(c)
  BY <1>4, SameThreads DEF TimedJoinSpin, vars
<1>5. ASSUME NEW n \in MaxThreadCounts, ThreadPoolNew(c, n)
      PROVE  OneClientInvariant'
  <2>1. CASE /\ ~pool.alive /\ n \in Nat /\ n >= 1
             /\ pool' = [NoPool EXCEPT !.alive = TRUE, !.max_thread_count = n]
             /\ worker' = worker
             /\ client[c].pc = "idle" /\ client'[c].pc = "idle"
    <3>1. \A w \in Workers : worker'[w].pc = "none"
      BY <2>1 DEF OneClientInvariant, NoPoolUseAfterFree
    <3>2. \A d \in Clients : client'[d].pc \notin {"spawn_wait", "pool_join"}
      BY <1>1, <2>1
    <3>3. pool'.threads = <<>> /\ pool'.thread_count = 0 /\ pool'.max_thread_count = n
      BY <2>1 DEF NoPool
    <3> QED
      BY <1>1, <2>1, <3>1, <3>2, <3>3, NoWorkers
  <2> QED
    BY <1>1, <1>2, <1>5, <2>1, PoolNewChanges
<1>6. ASSUME NEW t \in Tasks, ThreadPoolPushTask(c, t)
      PROVE  OneClientInvariant'
  <2>1. client[c].pc = "idle" /\ pool.alive
    BY <1>6 DEF ThreadPoolPushTask, MayUsePool
  <2>2. CASE Return(c, "TOO_MANY_TASKS") /\ UNCHANGED <<pool, task, worker>>
    <3>1. TaskOnly(c)
      BY <1>1, <2>1, <2>2, OtherClients DEF TaskOnly
    <3> QED
      BY <1>2, <3>1
  <2> QED
    BY <1>6, <2>1, <2>2, EnqueueSteps, SpawnSteps DEF ThreadPoolPushTask
<1> QED
  BY <1>1, <1>2, <1>3, <1>4, <1>5, <1>6, TaskFunctions, ThreadPoolDeleteSteps, PoolDeleteJoinSteps
     DEF ClientStep, ClientCall

(* Every step of a pool with one client preserves its invariant. *)
LEMMA NextSteps ==
  ASSUME OneClientInvariant, [Next]_vars
  PROVE  OneClientInvariant'
<1>1. CountInvariant'
  BY NextCounts DEF OneClientInvariant
<1>2. CASE UNCHANGED vars
  BY <1>1, <1>2, SameThreads DEF vars
<1>3. ASSUME NEW w \in Workers, WorkerStep(w)
      PROVE  OneClientInvariant'
  BY <1>1, <1>3, StartSteps, StartedSteps
<1>4. CASE SpuriousWakeup
  <2>1. /\ worker' = worker /\ client' = client
        /\ pool'.alive = pool.alive
        /\ pool'.threads = pool.threads
        /\ pool'.max_thread_count = pool.max_thread_count
        /\ pool'.thread_count = pool.thread_count
    BY <1>4, OneTypes, SpuriousChanges
  <2> QED
    BY <1>1, <2>1, SameThreads
<1> QED
  BY <1>1, <1>2, <1>3, <1>4, ClientSteps DEF Next

(* With one client the program starts in it. *)
LEMMA InitSteps ==
  ASSUME OneClient, Init
  PROVE  OneClientInvariant
<1>1. CountInvariant
  BY InitCounts
<1>2. /\ \A w \in Workers : worker[w].pc = "none"
      /\ \A c \in Clients : client[c].pc = "idle"
      /\ ~pool.alive /\ pool.threads = <<>>
      /\ pool.thread_count = 0 /\ pool.max_thread_count = 0
  BY DEF Init, NoPool, NoWorker, IdleClient
<1>3. Recorded /\ SpawnAwaited /\ ThreadsLength /\ NoPoolUseAfterFree
  BY <1>2 DEF Recorded, SpawnAwaited, ThreadsLength, NoPoolUseAfterFree
<1>4. {w \in Workers : worker[w].pc # "none"} = {}
  BY <1>2
<1>5. Cardinality({w \in Workers : worker[w].pc # "none"}) = 0
  BY <1>4, FS_EmptySet, Zenon
<1>6. ThreadBound
  BY <1>2, <1>5 DEF ThreadBound
<1> QED
  BY <1>1, <1>2, <1>3, <1>6 DEF OneClientInvariant

(* What holds of a pool that one client at most uses, in every state. *)
THEOREM OneClientInvariantHolds == OneClient /\ Spec => []OneClientInvariant
<1>1. OneClient /\ Init => OneClientInvariant
  BY InitSteps
<1>2. OneClientInvariant /\ [Next]_vars => OneClientInvariant'
  BY NextSteps
<1> QED
  BY <1>1, <1>2, PTL DEF Spec

(* The pool never has more threads than it was created for, although the   *)
(* first one is created without a look at the limit (thread_pool.c:170-    *)
(* 191).                                                                   *)
THEOREM ThreadsBounded == OneClient /\ Spec => []ThreadBound
BY OneClientInvariantHolds, PTL DEF OneClientInvariant

(* When thread_pool_delete has freed the pool no worker is left to use it  *)
(* (thread_pool.c:143-158).                                                *)
THEOREM NobodyInFreedPool == OneClient /\ Spec => []NoPoolUseAfterFree
BY OneClientInvariantHolds, PTL DEF OneClientInvariant
=============================================================================
