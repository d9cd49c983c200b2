-------------------------- MODULE ThreadPoolProofs --------------------------
(***************************************************************************)
(* Proofs about ThreadPool: PoolInvariant is inductive, TypeOK,            *)
(* TaskInOnePlace and JoinDelivers follow from it, and so does that the    *)
(* pool implements TaskLifecycle.                                          *)
(*                                                                         *)
(* Most steps move no task: they leave the list, the tasks in the hands of *)
(* workers and the history of tasks alone (SamePlaces, SameRuns), and only *)
(* their use of the mutex and of the calls has to be looked at.  The three *)
(* that move a task are WorkerTake (list to worker), WorkerFinish (worker  *)
(* to finished) and Enqueue (client to list).                              *)
(***************************************************************************)
EXTENDS ThreadPool, TLAPS, FiniteSetTheorems

(* The values the functions start from are of their types. *)
LEMMA IdleTypes ==
  /\ \A ret \in Codes : [IdleClient EXCEPT !.ret = ret] \in ClientRecords
  /\ \A r \in {NULL, 0, 1} : [IdleClient EXCEPT !.result = r] \in ClientRecords
  /\ NoWorker \in WorkerRecords
  /\ NoPool \in PoolRecords
  /\ FreeTask \in TaskRecords
  BY DEF IdleClient, ClientRecords, Codes, ClientPCs, NoWorker, WorkerRecords,
         WorkerPCs, NoPool, PoolRecords, FreeTask, TaskRecords

(* Linking a task at the head of a list that does not have it              *)
(* (thread_pool.c:198-200) adds it to the list, and nothing else.          *)
LEMMA PushFront ==
  ASSUME NEW s \in Seq(Tasks), NEW t \in Tasks, IsInjective(s), t \notin Range(s)
  PROVE /\ <<t>> \o s \in Seq(Tasks)
        /\ Len(<<t>> \o s) = Len(s) + 1
        /\ Range(<<t>> \o s) = Range(s) \cup {t}
        /\ IsInjective(<<t>> \o s)
<1>1. /\ <<t>> \o s \in Seq(Tasks)
      /\ Len(<<t>> \o s) = Len(s) + 1
      /\ DOMAIN (<<t>> \o s) = 1..(Len(s)+1)
      /\ \A i \in 1..(Len(s)+1) : (<<t>> \o s)[i] = IF i = 1 THEN t ELSE s[i - 1]
  OBVIOUS
<1> DEFINE u == <<t>> \o s
<1> HIDE DEF u
<1>a. DOMAIN s = 1..Len(s) /\ Len(s) \in Nat
  OBVIOUS
<1>2. Range(u) = Range(s) \cup {t}
  <2>1. ASSUME NEW x \in Range(s) PROVE x \in Range(u)
    <3>1. PICK i \in 1..Len(s) : s[i] = x
      BY <1>a DEF Range
    <3>2. u[i+1] = x /\ i+1 \in DOMAIN u
      BY <3>1, <1>1, <1>a DEF u
    <3> QED
      BY <3>2 DEF Range
  <2>2. t \in Range(u)
    <3>1. u[1] = t /\ 1 \in DOMAIN u
      BY <1>1, <1>a DEF u
    <3> QED
      BY <3>1 DEF Range
  <2>3. ASSUME NEW x \in Range(u) PROVE x \in Range(s) \cup {t}
    <3>1. PICK i \in DOMAIN u : u[i] = x
      BY DEF Range
    <3>2. CASE i = 1
      BY <3>1, <3>2, <1>1 DEF u
    <3>3. CASE i # 1
      <4>1. i - 1 \in DOMAIN s /\ s[i-1] = x
        BY <3>1, <3>3, <1>1, <1>a DEF u
      <4> QED
        BY <4>1 DEF Range
    <3> QED
      BY <3>2, <3>3
  <2> QED
    BY <2>1, <2>2, <2>3
<1>3. IsInjective(u)
  <2> SUFFICES ASSUME NEW i \in DOMAIN u, NEW j \in DOMAIN u, u[i] = u[j] PROVE i = j
    BY DEF IsInjective
  <2>1. \A k \in DOMAIN s : s[k] # t
    BY DEF Range
  <2> QED
    BY <1>1, <1>a, <2>1 DEF u, IsInjective
<1> QED
  BY <1>1, <1>2, <1>3 DEF u
(* Unlinking the head of the list (thread_pool.c:75-77) removes that task  *)
(* and nothing else.                                                       *)
LEMMA PopFront ==
  ASSUME NEW s \in Seq(Tasks), s # <<>>, IsInjective(s)
  PROVE /\ Head(s) \in Range(s) /\ Head(s) \in Tasks
        /\ Tail(s) \in Seq(Tasks)
        /\ Len(Tail(s)) = Len(s) - 1
        /\ Range(Tail(s)) = Range(s) \ {Head(s)}
        /\ IsInjective(Tail(s))
<1>1. /\ Tail(s) \in Seq(Tasks) /\ Len(Tail(s)) = Len(s) - 1
      /\ DOMAIN s = 1..Len(s) /\ Len(s) \in Nat /\ Len(s) > 0
      /\ DOMAIN Tail(s) = 1..(Len(s) - 1)
      /\ \A i \in 1..(Len(s) - 1) : Tail(s)[i] = s[i + 1]
      /\ Head(s) = s[1]
  OBVIOUS
<1> DEFINE u == Tail(s)
<1> HIDE DEF u
<1>2. Head(s) \in Range(s) /\ Head(s) \in Tasks
  <2>1. 1 \in DOMAIN s
    BY <1>1
  <2> QED
    BY <1>1, <2>1 DEF Range
<1>3. Range(u) = Range(s) \ {Head(s)}
  <2>1. ASSUME NEW x \in Range(s), x # Head(s) PROVE x \in Range(u)
    <3>1. PICK i \in DOMAIN s : s[i] = x
      BY DEF Range
    <3>2. i-1 \in DOMAIN u /\ u[i-1] = x
      BY <3>1, <2>1, <1>1 DEF u
    <3> QED
      BY <3>2 DEF Range
  <2>2. ASSUME NEW x \in Range(u) PROVE x \in Range(s) /\ x # Head(s)
    <3>1. PICK i \in DOMAIN u : u[i] = x
      BY DEF Range
    <3>2. i+1 \in DOMAIN s /\ s[i+1] = x /\ i + 1 # 1 /\ 1 \in DOMAIN s
      BY <3>1, <1>1 DEF u
    <3> QED
      BY <3>2, <1>1 DEF Range, IsInjective
  <2> QED
    BY <2>1, <2>2
<1>4. IsInjective(u)
  <2> SUFFICES ASSUME NEW i \in DOMAIN u, NEW j \in DOMAIN u, u[i] = u[j] PROVE i = j
    BY DEF IsInjective
  <2>1. i+1 \in DOMAIN s /\ j+1 \in DOMAIN s /\ s[i+1] = s[j+1] /\ i \in Int /\ j \in Int
    BY <1>1 DEF u
  <2> QED
    BY <2>1 DEF IsInjective
<1> QED
  BY <1>1, <1>2, <1>3, <1>4 DEF u

(* A worker that gets hold of a task adds 1 to the number of busy workers, *)
(* one that lets go of it subtracts 1.                                     *)
LEMMA BusyCount ==
  ASSUME TypeOK, NEW w \in Workers
  PROVE  /\ IsFiniteSet(BusyWorkers)
         /\ Cardinality(BusyWorkers) \in Nat
         /\ HasTask(w) => Cardinality(BusyWorkers) > 0
         /\ Cardinality(BusyWorkers \ {w}) =
              IF HasTask(w) THEN Cardinality(BusyWorkers) - 1
              ELSE Cardinality(BusyWorkers)
         /\ Cardinality(BusyWorkers \cup {w}) =
              IF HasTask(w) THEN Cardinality(BusyWorkers)
              ELSE Cardinality(BusyWorkers) + 1
<1>1. IsFiniteSet(BusyWorkers)
  BY ConstantsAssumption, FS_Subset DEF BusyWorkers
<1>2. w \in BusyWorkers <=> HasTask(w)
  BY DEF BusyWorkers
<1>3. Cardinality(BusyWorkers) \in Nat
  BY <1>1, FS_CardinalityType
<1>4. HasTask(w) => Cardinality(BusyWorkers) # 0
  BY <1>1, <1>2, FS_EmptySet
<1>5. Cardinality(BusyWorkers \ {w}) =
        IF w \in BusyWorkers THEN Cardinality(BusyWorkers) - 1
        ELSE Cardinality(BusyWorkers)
  BY <1>1, FS_RemoveElement
<1>6. Cardinality(BusyWorkers \cup {w}) =
        IF w \in BusyWorkers THEN Cardinality(BusyWorkers)
        ELSE Cardinality(BusyWorkers) + 1
  BY <1>1, FS_AddElement
<1>7. QED
  BY <1>1, <1>2, <1>3, <1>4, <1>5, <1>6


-----------------------------------------------------------------------------
(* What a step leaves alone.                                               *)

(* The list and the counters of tasks. *)
SamePending ==
  /\ pool'.pending_task_list = pool.pending_task_list
  /\ pool'.pending_task_count = pool.pending_task_count
  /\ pool'.running_task_count = pool.running_task_count

(* What worker v has in its hands. *)
SameHold(v) ==
  /\ HasTask(v)' <=> HasTask(v)
  /\ HasTask(v) => worker'[v].task = worker[v].task

(* The fields of a task that the invariant speaks of. *)
SameTask(t) ==
  /\ task'[t].alive = task[t].alive
  /\ task'[t].pool = task[t].pool
  /\ task'[t].is_detached = task[t].is_detached
  /\ task'[t].is_finished = task[t].is_finished
  /\ task'[t].result = task[t].result
  /\ task'[t].push = task[t].push
  /\ task'[t].exec = task[t].exec

(* No task moves. *)
SamePlaces ==
  /\ SamePending
  /\ \A v \in Workers : SameHold(v)
  /\ \A t \in Tasks : Unfinished(t)' <=> Unfinished(t)

(* The history of the pushed tasks. *)
SameRuns ==
  /\ \A v \in Workers : HasTask(v) => (worker'[v].pc = "taken" <=> worker[v].pc = "taken")
  /\ \A t \in Tasks :
       /\ Unfinished(t) => task'[t].exec = task[t].exec
       /\ task'[t].alive /\ task'[t].pool /\ task'[t].is_finished
            => /\ task[t].alive /\ task[t].pool /\ task[t].is_finished
               /\ task'[t].exec = task[t].exec
               /\ task'[t].result = task[t].result
               /\ task'[t].push = task[t].push

(* Worker w goes to pc, and keeps the task it has. *)
MovesTo(w, pc) ==
  \A v \in Workers : /\ worker'[v].pc = IF v = w THEN pc ELSE worker[v].pc
                     /\ worker'[v].task = worker[v].task

(* A worker that goes from one point of _thread_worker to another. *)
LEMMA WorkerMoved ==
  ASSUME PoolInvariant, NEW w \in Workers, NEW pc \in WorkerPCs,
         worker' = [worker EXCEPT ![w].pc = pc]
  PROVE  worker' \in [Workers -> WorkerRecords] /\ MovesTo(w, pc)
<1>1. worker[w] \in WorkerRecords /\ worker \in [Workers -> WorkerRecords]
  BY DEF PoolInvariant, TypeOK
<1>2. /\ [worker[w] EXCEPT !.pc = pc] \in WorkerRecords
      /\ [worker[w] EXCEPT !.pc = pc].pc = pc
      /\ [worker[w] EXCEPT !.pc = pc].task = worker[w].task
  BY <1>1 DEF WorkerRecords
<1>3. /\ worker' \in [Workers -> WorkerRecords]
      /\ worker'[w] = [worker[w] EXCEPT !.pc = pc]
      /\ \A v \in Workers : v # w => worker'[v] = worker[v]
  BY <1>1, <1>2
<1>4. QED
  BY <1>2, <1>3 DEF MovesTo

(* A step that moves no task preserves what the invariant says of the      *)
(* places of tasks and of the counters.                                    *)
LEMMA Places ==
  ASSUME PoolInvariant, SamePlaces
  PROVE  TaskCountersExact' /\ TaskInOnePlace'
<1>1. BusyWorkers' = BusyWorkers
  BY DEF BusyWorkers, SamePlaces, SameHold
<1>2. TaskCountersExact'
  BY <1>1 DEF PoolInvariant, TaskCountersExact, SamePlaces, SamePending
<1>3. \A t \in Tasks : Held(t)' <=> Held(t)
  BY DEF Held, SamePlaces, SameHold
<1>4. TaskInOnePlace'
  BY <1>3 DEF PoolInvariant, TaskInOnePlace, SamePlaces, SamePending, SameHold
<1>5. QED
  BY <1>2, <1>4

(* A task in the list or in the hands of a worker is one of the tasks,     *)
(* pushed and unfinished.                                                  *)
LEMMA HeldIsUnfinished ==
  ASSUME PoolInvariant
  PROVE  /\ \A v \in Workers : HasTask(v) => /\ worker[v].task \in Tasks
                                             /\ Unfinished(worker[v].task)
         /\ \A t \in Range(pool.pending_task_list) : t \in Tasks /\ Unfinished(t)
<1>1. \A v \in Workers : HasTask(v) => worker[v].task \in Tasks
  BY DEF PoolInvariant, WorkersRefer
<1>2. Range(pool.pending_task_list) \subseteq Tasks
  BY DEF PoolInvariant, TypeOK, PoolRecords, Range
<1>3. QED
  BY <1>1, <1>2 DEF PoolInvariant, TaskInOnePlace, Held

(* A step that moves no task and leaves the history of pushed tasks alone  *)
(* preserves RunOnce.                                                      *)
LEMMA Runs ==
  ASSUME PoolInvariant, SamePlaces, SameRuns
  PROVE  RunOnce'
<1>1. \A v \in Workers : HasTask(v)' =>
        task'[worker'[v].task].exec = IF worker'[v].pc = "taken" THEN 0 ELSE 1
  BY HeldIsUnfinished DEF PoolInvariant, RunOnce, SamePlaces, SameHold, SameRuns
<1>2. \A t \in Range(pool.pending_task_list') : task'[t].exec = 0
  BY HeldIsUnfinished DEF PoolInvariant, RunOnce, SamePlaces, SamePending, SameRuns
<1>3. QED
  BY <1>1, <1>2 DEF PoolInvariant, RunOnce, SameRuns

(* A step that changes only locks, condition variables and is_running of   *)
(* tasks moves none and leaves their history alone.                        *)
LEMMA SameTasks ==
  ASSUME \A t \in Tasks : SameTask(t), SamePending, \A v \in Workers : SameHold(v),
         \A v \in Workers : HasTask(v) => (worker'[v].pc = "taken" <=> worker[v].pc = "taken")
  PROVE  SamePlaces /\ SameRuns
BY DEF SamePlaces, SameRuns, SameTask, Unfinished, Pushed

(* A step of a worker that moves no task preserves the invariant if it     *)
(* uses the mutex as it should.                                            *)
LEMMA QuietWorker ==
  ASSUME PoolInvariant, TypeOK', MutexHeld', WorkersRefer',
         SamePlaces, SameRuns,
         pool'.alive = pool.alive, client' = client,
         \A t \in Tasks : SameTask(t)
  PROVE  PoolInvariant'
<1>1. CallsOnTasks'
  BY DEF PoolInvariant, TypeOK, ClientRecords, CallsOnTasks, SameTask
<1>2. NothingToRun'
  BY DEF PoolInvariant, NothingToRun, SamePlaces, SamePending, SameHold
<1>3. QED
  BY <1>1, <1>2, Places, Runs DEF PoolInvariant

(* The start of a worker preserves the invariant. *)
LEMMA WorkerStartStep ==
  ASSUME PoolInvariant, NEW w \in Workers, WorkerStart(w)
  PROVE  PoolInvariant'
<1>1. /\ worker[w].pc = "spawned" /\ worker' = [worker EXCEPT ![w].pc = "check"]
      /\ task' = task /\ client' = client
  BY DEF WorkerStart
<1>2. worker' \in [Workers -> WorkerRecords] /\ MovesTo(w, "check")
  BY <1>1, WorkerMoved DEF WorkerPCs
<1>3. /\ pool' \in PoolRecords
      /\ SamePending
      /\ pool'.alive = pool.alive
      /\ pool.alive /\ pool.mutex = NULL /\ pool'.mutex = w
  <2>1. pool \in PoolRecords /\ pool.alive /\ pool.mutex = NULL
    BY DEF PoolInvariant, TypeOK, WorkerStart, PoolUnlocked
  <2>2. PICK rest \in Signal(pool.spawn_cv) :
          pool' = [pool EXCEPT !.mutex = w,
                               !.thread_count = pool.thread_count + 1,
                               !.spawn_cv = rest,
                               !.idle_thread_count = pool.idle_thread_count + 1]
    BY <2>1 DEF WorkerStart, PoolRecords
  <2>3. /\ rest \in SUBSET Clients
        /\ pool.thread_count + 1 \in Nat
        /\ pool.idle_thread_count + 1 \in Int
    BY <2>1 DEF PoolRecords, Signal
  <2>4. pool' \in PoolRecords
    BY <2>1, <2>2, <2>3 DEF PoolRecords
  <2>5. QED
    BY <2>1, <2>2, <2>4 DEF PoolRecords, SamePending
<1>4. TypeOK'
  BY <1>1, <1>2, <1>3 DEF PoolInvariant, TypeOK
<1>5. \A t \in Tasks : SameTask(t)
  BY <1>1 DEF SameTask
<1>6. SamePlaces /\ SameRuns
  BY <1>1, <1>2, <1>3, <1>5, SameTasks DEF SameHold, HasTask, MovesTo
<1>7. MutexHeld'
  BY <1>1, <1>2, <1>3, ConstantsAssumption DEF PoolInvariant, MutexHeld, HasPoolMutex, MovesTo
<1>8. WorkersRefer'
  BY <1>1, <1>2 DEF PoolInvariant, WorkersRefer, HasTask, MovesTo
<1>9. QED
  BY <1>1, <1>3, <1>4, <1>5, <1>6, <1>7, <1>8, QuietWorker

(* Going to sleep on the pool's condition variable preserves the           *)
(* invariant.                                                              *)
LEMMA WorkerWaitStep ==
  ASSUME PoolInvariant, NEW w \in Workers, WorkerWait(w)
  PROVE  PoolInvariant'
<1>1. /\ worker[w].pc = "check" /\ worker' = [worker EXCEPT ![w].pc = "wait"]
      /\ task' = task /\ client' = client
  BY DEF WorkerWait
<1>2. worker' \in [Workers -> WorkerRecords] /\ MovesTo(w, "wait")
  BY <1>1, WorkerMoved DEF WorkerPCs
<1>3. /\ pool' \in PoolRecords
      /\ SamePending
      /\ pool'.alive = pool.alive
      /\ pool'.mutex = NULL
  <2>1. pool \in PoolRecords
    BY DEF PoolInvariant, TypeOK
  <2>2. pool' = [pool EXCEPT !.cv = pool.cv \cup {w}, !.mutex = NULL]
    BY DEF WorkerWait
  <2>3. pool' \in PoolRecords
    BY <2>1, <2>2 DEF PoolRecords
  <2>4. QED
    BY <2>1, <2>2, <2>3 DEF PoolRecords, SamePending
<1>4. TypeOK'
  BY <1>1, <1>2, <1>3 DEF PoolInvariant, TypeOK
<1>5. \A t \in Tasks : SameTask(t)
  BY <1>1 DEF SameTask
<1>6. SamePlaces /\ SameRuns
  BY <1>1, <1>2, <1>3, <1>5, SameTasks DEF SameHold, HasTask, MovesTo
<1>7. MutexHeld'
  BY <1>1, <1>2, <1>3, ConstantsAssumption DEF PoolInvariant, MutexHeld, HasPoolMutex, MovesTo
<1>8. WorkersRefer'
  BY <1>1, <1>2 DEF PoolInvariant, WorkersRefer, HasTask, MovesTo
<1>9. QED
  BY <1>1, <1>3, <1>4, <1>5, <1>6, <1>7, <1>8, QuietWorker

(* Waking up in the inner loop preserves the invariant. *)
LEMMA WorkerWakeStep ==
  ASSUME PoolInvariant, NEW w \in Workers, WorkerWake(w)
  PROVE  PoolInvariant'
<1>1. /\ worker[w].pc = "wait" /\ worker' = [worker EXCEPT ![w].pc = "check"]
      /\ task' = task /\ client' = client
  BY DEF WorkerWake
<1>2. worker' \in [Workers -> WorkerRecords] /\ MovesTo(w, "check")
  BY <1>1, WorkerMoved DEF WorkerPCs
<1>3. /\ pool' \in PoolRecords
      /\ SamePending
      /\ pool'.alive = pool.alive
      /\ pool.alive /\ pool.mutex = NULL /\ pool'.mutex = w
  <2>1. pool \in PoolRecords
    BY DEF PoolInvariant, TypeOK
  <2>2. pool' = [pool EXCEPT !.mutex = w] /\ pool.alive /\ pool.mutex = NULL
    BY DEF WorkerWake, PoolUnlocked
  <2>3. pool' \in PoolRecords
    BY <2>1, <2>2 DEF PoolRecords
  <2>4. QED
    BY <2>1, <2>2, <2>3 DEF PoolRecords, SamePending
<1>4. TypeOK'
  BY <1>1, <1>2, <1>3 DEF PoolInvariant, TypeOK
<1>5. \A t \in Tasks : SameTask(t)
  BY <1>1 DEF SameTask
<1>6. SamePlaces /\ SameRuns
  BY <1>1, <1>2, <1>3, <1>5, SameTasks DEF SameHold, HasTask, MovesTo
<1>7. MutexHeld'
  BY <1>1, <1>2, <1>3, ConstantsAssumption DEF PoolInvariant, MutexHeld, HasPoolMutex, MovesTo
<1>8. WorkersRefer'
  BY <1>1, <1>2 DEF PoolInvariant, WorkersRefer, HasTask, MovesTo
<1>9. QED
  BY <1>1, <1>3, <1>4, <1>5, <1>6, <1>7, <1>8, QuietWorker

(* The exit of a worker preserves the invariant. *)
LEMMA WorkerExitStep ==
  ASSUME PoolInvariant, NEW w \in Workers, WorkerExit(w)
  PROVE  PoolInvariant'
<1>1. /\ worker[w].pc = "check" /\ worker' = [worker EXCEPT ![w].pc = "exited"]
      /\ task' = task /\ client' = client
  BY DEF WorkerExit
<1>2. worker' \in [Workers -> WorkerRecords] /\ MovesTo(w, "exited")
  BY <1>1, WorkerMoved DEF WorkerPCs
<1>3. /\ pool' \in PoolRecords
      /\ SamePending
      /\ pool'.alive = pool.alive
      /\ pool'.mutex = NULL
  <2>1. pool \in PoolRecords
    BY DEF PoolInvariant, TypeOK
  <2>2. pool' = [pool EXCEPT !.mutex = NULL]
    BY DEF WorkerExit
  <2>3. pool' \in PoolRecords
    BY <2>1, <2>2 DEF PoolRecords
  <2>4. QED
    BY <2>1, <2>2, <2>3 DEF PoolRecords, SamePending
<1>4. TypeOK'
  BY <1>1, <1>2, <1>3 DEF PoolInvariant, TypeOK
<1>5. \A t \in Tasks : SameTask(t)
  BY <1>1 DEF SameTask
<1>6. SamePlaces /\ SameRuns
  BY <1>1, <1>2, <1>3, <1>5, SameTasks DEF SameHold, HasTask, MovesTo
<1>7. MutexHeld'
  BY <1>1, <1>2, <1>3, ConstantsAssumption DEF PoolInvariant, MutexHeld, HasPoolMutex, MovesTo
<1>8. WorkersRefer'
  BY <1>1, <1>2 DEF PoolInvariant, WorkersRefer, HasTask, MovesTo
<1>9. QED
  BY <1>1, <1>3, <1>4, <1>5, <1>6, <1>7, <1>8, QuietWorker

(* Taking the pool's mutex after the task's function preserves the         *)
(* invariant.                                                              *)
LEMMA WorkerLockPoolStep ==
  ASSUME PoolInvariant, NEW w \in Workers, WorkerLockPool(w)
  PROVE  PoolInvariant'
<1>1. /\ worker[w].pc = "lock_pool" /\ worker' = [worker EXCEPT ![w].pc = "lock_task"]
      /\ task' = task /\ client' = client
  BY DEF WorkerLockPool
<1>2. worker' \in [Workers -> WorkerRecords] /\ MovesTo(w, "lock_task")
  BY <1>1, WorkerMoved DEF WorkerPCs
<1>3. /\ pool' \in PoolRecords
      /\ SamePending
      /\ pool'.alive = pool.alive
      /\ pool.alive /\ pool.mutex = NULL /\ pool'.mutex = w
  <2>1. pool \in PoolRecords
    BY DEF PoolInvariant, TypeOK
  <2>2. pool' = [pool EXCEPT !.mutex = w] /\ pool.alive /\ pool.mutex = NULL
    BY DEF WorkerLockPool, PoolUnlocked
  <2>3. pool' \in PoolRecords
    BY <2>1, <2>2 DEF PoolRecords
  <2>4. QED
    BY <2>1, <2>2, <2>3 DEF PoolRecords, SamePending
<1>4. TypeOK'
  BY <1>1, <1>2, <1>3 DEF PoolInvariant, TypeOK
<1>5. \A t \in Tasks : SameTask(t)
  BY <1>1 DEF SameTask
<1>6. SamePlaces /\ SameRuns
  BY <1>1, <1>2, <1>3, <1>5, SameTasks DEF SameHold, HasTask, MovesTo
<1>7. MutexHeld'
  BY <1>1, <1>2, <1>3, ConstantsAssumption DEF PoolInvariant, MutexHeld, HasPoolMutex, MovesTo
<1>8. WorkersRefer'
  BY <1>1, <1>2 DEF PoolInvariant, WorkersRefer, HasTask, MovesTo
<1>9. QED
  BY <1>1, <1>3, <1>4, <1>5, <1>6, <1>7, <1>8, QuietWorker

(* Releasing the task's mutex preserves the invariant. *)
LEMMA WorkerUnlockTaskStep ==
  ASSUME PoolInvariant, NEW w \in Workers, WorkerUnlockTask(w)
  PROVE  PoolInvariant'
<1>1. worker[w].pc = "unlock_task" /\ client' = client
  BY DEF WorkerUnlockTask
<1>2. /\ worker' \in [Workers -> WorkerRecords]
      /\ \A v \in Workers :
           /\ worker'[v].pc = IF v = w THEN "check" ELSE worker[v].pc
           /\ v # w => worker'[v].task = worker[v].task
  <2>1. worker[w] \in WorkerRecords /\ worker \in [Workers -> WorkerRecords]
    BY DEF PoolInvariant, TypeOK
  <2>2. worker' = [worker EXCEPT ![w] = [worker[w] EXCEPT !.pc = "check", !.task = NULL]]
    BY <2>1 DEF WorkerUnlockTask
  <2>3. /\ [worker[w] EXCEPT !.pc = "check", !.task = NULL] \in WorkerRecords
        /\ [worker[w] EXCEPT !.pc = "check", !.task = NULL].pc = "check"
    BY <2>1 DEF WorkerRecords, WorkerPCs
  <2>4. QED
    BY <2>1, <2>2, <2>3
<1>3. /\ pool' \in PoolRecords
      /\ SamePending
      /\ pool'.alive = pool.alive
      /\ pool'.mutex = pool.mutex
  <2>1. pool \in PoolRecords
    BY DEF PoolInvariant, TypeOK
  <2>2. pool' = [pool EXCEPT !.idle_thread_count = pool.idle_thread_count + 1]
    BY DEF WorkerUnlockTask
  <2>3. pool.idle_thread_count + 1 \in Int
    BY <2>1 DEF PoolRecords
  <2>4. pool' \in PoolRecords
    BY <2>1, <2>2, <2>3 DEF PoolRecords
  <2>5. QED
    BY <2>1, <2>2, <2>4 DEF PoolRecords, SamePending
<1>4. task' \in [Tasks -> TaskRecords] /\ \A t \in Tasks : SameTask(t)
  <2>1. task' = [task EXCEPT ![worker[w].task].mutex = NULL]
    BY DEF WorkerUnlockTask
  <2>2. \A t \in Tasks : [task[t] EXCEPT !.mutex = NULL] \in TaskRecords
    BY DEF PoolInvariant, TypeOK, TaskRecords
  <2>3. task' \in [Tasks -> TaskRecords]
    BY <2>1, <2>2 DEF PoolInvariant, TypeOK
  <2>4. QED
    BY <2>1, <2>3 DEF PoolInvariant, TypeOK, TaskRecords, SameTask
<1>5. TypeOK'
  BY <1>1, <1>2, <1>3, <1>4 DEF PoolInvariant, TypeOK
<1>6. SamePlaces /\ SameRuns
  BY <1>1, <1>2, <1>3, <1>4, SameTasks DEF SameHold, HasTask
<1>7. MutexHeld'
  BY <1>1, <1>2, <1>3 DEF PoolInvariant, MutexHeld, HasPoolMutex
<1>8. WorkersRefer'
  BY <1>1, <1>2 DEF PoolInvariant, WorkersRefer, HasTask
<1>9. QED
  BY <1>1, <1>3, <1>4, <1>5, <1>6, <1>7, <1>8, QuietWorker

(* Taking the head of the list preserves the invariant: the task goes from *)
(* the list to the worker, and from one counter to the other.              *)
LEMMA WorkerTakeStep ==
  ASSUME PoolInvariant, NEW w \in Workers, WorkerTake(w)
  PROVE  PoolInvariant'
<1> DEFINE list == pool.pending_task_list
           t == Head(list)
<1>1. /\ list \in Seq(Tasks) /\ list # <<>> /\ IsInjective(list)
      /\ pool.pending_task_count = Len(list)
      /\ pool.pending_task_count \in Nat
      /\ pool.pending_task_count >= 1
  BY DEF PoolInvariant, TypeOK, PoolRecords, TaskCountersExact, TaskInOnePlace, WorkerTake
<1>2. /\ t \in Range(list) /\ t \in Tasks
      /\ Tail(list) \in Seq(Tasks)
      /\ Len(Tail(list)) = Len(list) - 1
      /\ Range(Tail(list)) = Range(list) \ {t}
      /\ IsInjective(Tail(list))
  BY <1>1, PopFront
<1>3. /\ worker[w].pc = "check"
      /\ \A v \in Workers :
           /\ worker'[v].pc = IF v = w THEN "taken" ELSE worker[v].pc
           /\ worker'[v].task = IF v = w THEN t ELSE worker[v].task
      /\ task' = task /\ client' = client
  BY DEF PoolInvariant, TypeOK, WorkerRecords, WorkerTake
<1>4. /\ pool'.pending_task_list = Tail(list)
      /\ pool'.pending_task_count = pool.pending_task_count - 1
      /\ pool'.running_task_count = pool.running_task_count + 1
      /\ pool'.mutex = NULL
      /\ pool'.alive = pool.alive
  BY DEF PoolInvariant, TypeOK, PoolRecords, WorkerTake
<1>5. TypeOK'
  <2>1. pool' \in PoolRecords
    <3>1. /\ pool.idle_thread_count - 1 \in Int
          /\ pool.pending_task_count - 1 \in Nat
          /\ pool.running_task_count + 1 \in Nat
      BY <1>1 DEF PoolInvariant, TypeOK, PoolRecords
    <3>2. QED
      BY <1>2, <3>1 DEF PoolInvariant, TypeOK, PoolRecords, WorkerTake
  <2>2. worker' \in [Workers -> WorkerRecords]
    <3>1. worker[w] \in WorkerRecords /\ worker \in [Workers -> WorkerRecords]
      BY DEF PoolInvariant, TypeOK
    <3>2. worker' = [worker EXCEPT ![w] = [worker[w] EXCEPT !.pc = "taken", !.task = t]]
      BY <3>1 DEF WorkerTake
    <3>3. [worker[w] EXCEPT !.pc = "taken", !.task = t] \in WorkerRecords
      BY <1>2, <3>1 DEF WorkerRecords, WorkerPCs
    <3>4. QED
      BY <3>1, <3>2, <3>3
  <2>3. QED
    BY <1>3, <2>1, <2>2 DEF PoolInvariant, TypeOK
<1>6. \A v \in Workers : /\ HasTask(v)' <=> (v = w \/ HasTask(v))
                         /\ HasTask(w) = FALSE
  BY <1>3 DEF HasTask
<1>7. MutexHeld'
  BY <1>3, <1>4, ConstantsAssumption DEF PoolInvariant, MutexHeld, HasPoolMutex
<1>8. WorkersRefer'
  BY <1>2, <1>3, <1>6 DEF PoolInvariant, WorkersRefer
<1>9. CallsOnTasks'
  BY <1>3 DEF PoolInvariant, CallsOnTasks
<1>10. TaskCountersExact'
  <2>1. BusyWorkers' = BusyWorkers \cup {w}
    BY <1>6 DEF BusyWorkers
  <2>2. Cardinality(BusyWorkers') = Cardinality(BusyWorkers) + 1
    BY <1>6, <2>1, BusyCount DEF PoolInvariant
  <2>3. QED
    BY <1>1, <1>2, <1>4, <2>2 DEF PoolInvariant, TaskCountersExact
<1> HIDE DEF list, t
<1>11. TaskInOnePlace'
  <2>1. \A v \in Workers : HasTask(v) => worker[v].task # t
    BY <1>2 DEF PoolInvariant, TaskInOnePlace, list
  <2>2. IsInjective(pool'.pending_task_list)
    BY <1>2, <1>4
  <2>3. \A v, u \in Workers :
          HasTask(v)' /\ HasTask(u)' /\ worker'[v].task = worker'[u].task => v = u
    BY <1>3, <1>6, <2>1 DEF PoolInvariant, TaskInOnePlace
  <2>4. \A v \in Workers : HasTask(v)' => worker'[v].task \notin Range(pool'.pending_task_list)
    BY <1>2, <1>3, <1>4, <1>6 DEF PoolInvariant, TaskInOnePlace, list
  <2>5. \A s \in Tasks : Held(s)' <=> (Held(s) \/ s = t)
    BY <1>3, <1>6, <1>2 DEF Held
  <2>6. \A s \in Tasks : Unfinished(s)' <=> Unfinished(s)
    BY <1>3 DEF Unfinished, Pushed
  <2>7. \A s \in Tasks : Unfinished(s)' <=> (s \in Range(pool'.pending_task_list) \/ Held(s)')
    BY <1>2, <1>4, <2>5, <2>6 DEF PoolInvariant, TaskInOnePlace, list
  <2>8. QED
    BY <2>2, <2>3, <2>4, <2>7 DEF TaskInOnePlace
<1>12. RunOnce'
  <2>1. \A v \in Workers : HasTask(v)' =>
          task'[worker'[v].task].exec = IF worker'[v].pc = "taken" THEN 0 ELSE 1
    BY <1>2, <1>3, <1>6 DEF PoolInvariant, RunOnce, list
  <2>2. \A s \in Range(pool'.pending_task_list) : task'[s].exec = 0
    BY <1>2, <1>3, <1>4 DEF PoolInvariant, RunOnce, list
  <2>3. QED
    BY <1>3, <2>1, <2>2 DEF PoolInvariant, RunOnce
<1>13. NothingToRun'
  BY <1>1, <1>3, <1>4 DEF PoolInvariant, NothingToRun
<1>14. QED
  BY <1>5, <1>7, <1>8, <1>9, <1>10, <1>11, <1>12, <1>13 DEF PoolInvariant

(* Running the task's function preserves the invariant: no other worker    *)
(* has the task.                                                           *)
LEMMA WorkerExecuteStep ==
  ASSUME PoolInvariant, NEW w \in Workers, WorkerExecute(w)
  PROVE  PoolInvariant'
<1>1. /\ worker[w].pc = "taken"
      /\ MovesTo(w, "lock_pool")
      /\ worker' \in [Workers -> WorkerRecords]
      /\ pool' = pool /\ client' = client
  <2>1. /\ worker[w].pc = "taken"
        /\ worker' = [worker EXCEPT ![w].pc = "lock_pool"]
        /\ pool' = pool /\ client' = client
    BY DEF WorkerExecute
  <2>2. QED
    BY <2>1, WorkerMoved DEF WorkerPCs
<1>2. PICK t \in Tasks : /\ worker[w].task = t
                         /\ HasTask(w)
                         /\ task[t].exec = 0
                         /\ Unfinished(t)
  BY <1>1, HeldIsUnfinished DEF PoolInvariant, RunOnce, HasTask
<1>3. task' = [task EXCEPT ![t] = [task[t] EXCEPT !.is_running = TRUE, !.exec = 1]]
  BY <1>2 DEF WorkerExecute
<1>4. \A s \in Tasks : s # t => SameTask(s)
  BY <1>2, <1>3 DEF PoolInvariant, TypeOK, SameTask
<1>5. /\ task'[t].alive = task[t].alive
      /\ task'[t].pool = task[t].pool
      /\ task'[t].is_detached = task[t].is_detached
      /\ task'[t].is_finished = task[t].is_finished
      /\ task'[t].exec = 1
  BY <1>2, <1>3 DEF PoolInvariant, TypeOK, TaskRecords
<1>6. TypeOK'
  <2>1. [task[t] EXCEPT !.is_running = TRUE, !.exec = 1] \in TaskRecords
    <3>1. task[t] \in TaskRecords
      BY DEF PoolInvariant, TypeOK
    <3>2. QED
      BY <3>1 DEF TaskRecords
  <2>2. QED
    BY <1>1, <1>3, <2>1 DEF PoolInvariant, TypeOK
<1>7. SamePlaces
  <2>1. \A s \in Tasks : Unfinished(s)' <=> Unfinished(s)
    BY <1>4, <1>5 DEF Unfinished, Pushed, SameTask
  <2>2. \A v \in Workers : SameHold(v)
    BY <1>1 DEF SameHold, HasTask, MovesTo
  <2>3. QED
    BY <1>1, <2>1, <2>2 DEF SamePlaces, SamePending
<1>8. MutexHeld'
  BY <1>1 DEF PoolInvariant, MutexHeld, HasPoolMutex, MovesTo
<1>9. WorkersRefer'
  BY <1>1 DEF PoolInvariant, WorkersRefer, HasTask, MovesTo
<1>10. CallsOnTasks'
  BY <1>1, <1>2, <1>4, <1>5 DEF PoolInvariant, TypeOK, ClientRecords, CallsOnTasks, SameTask
<1>11. RunOnce'
  <2>1. \A v \in Workers : HasTask(v)' =>
          task'[worker'[v].task].exec = IF worker'[v].pc = "taken" THEN 0 ELSE 1
    <3>1. task'[worker'[w].task].exec = 1 /\ worker'[w].pc = "lock_pool"
      BY <1>1, <1>2, <1>5 DEF MovesTo
    <3>2. ASSUME NEW v \in Workers, v # w, HasTask(v)'
          PROVE  task'[worker'[v].task].exec = IF worker'[v].pc = "taken" THEN 0 ELSE 1
      <4>1. HasTask(v) /\ worker'[v].task = worker[v].task /\ worker'[v].pc = worker[v].pc
        BY <1>1, <3>2 DEF HasTask, MovesTo
      <4>2. worker[v].task # t /\ worker[v].task \in Tasks
        BY <1>2, <3>2, <4>1, HeldIsUnfinished DEF PoolInvariant, TaskInOnePlace
      <4>3. QED
        BY <1>4, <4>1, <4>2 DEF PoolInvariant, RunOnce, SameTask
    <3>3. QED
      BY <3>1, <3>2
  <2>2. \A s \in Range(pool'.pending_task_list) : task'[s].exec = 0
    <3>1. t \notin Range(pool.pending_task_list)
      BY <1>2 DEF PoolInvariant, TaskInOnePlace
    <3>2. QED
      BY <1>1, <1>4, <3>1, HeldIsUnfinished DEF PoolInvariant, RunOnce, SameTask
  <2>3. \A s \in Tasks : task'[s].alive /\ task'[s].pool /\ task'[s].is_finished
          => task'[s].exec = 1 /\ task'[s].result = task'[s].push
    BY <1>2, <1>4, <1>5 DEF PoolInvariant, RunOnce, SameTask, Unfinished
  <2>4. QED
    BY <2>1, <2>2, <2>3 DEF RunOnce
<1>12. NothingToRun'
  BY <1>1, <1>7 DEF PoolInvariant, NothingToRun, SamePlaces, SameHold
<1>13. QED
  BY <1>6, <1>7, <1>8, <1>9, <1>10, <1>11, <1>12, Places DEF PoolInvariant

(* A task reported as finished by worker w, with rest still asleep on it. *)
Finished(r, rest, w) ==
  [r EXCEPT !.is_running = FALSE, !.is_finished = TRUE, !.result = r.push,
            !.cv = rest, !.mutex = w]

(* The fields of a task that has been reported as finished. *)
LEMMA FinishedFields ==
  ASSUME NEW r \in TaskRecords, NEW rest \in Signal(r.cv), NEW w \in Workers
  PROVE  LET f == Finished(r, rest, w) IN
         /\ f \in TaskRecords
         /\ f.alive = r.alive /\ f.pool = r.pool /\ f.is_detached = r.is_detached
         /\ f.push = r.push /\ f.exec = r.exec
         /\ f.is_finished
         /\ f.result = r.push
<1>1. rest \in SUBSET Clients
  BY DEF TaskRecords, Signal
<1>2. Finished(r, rest, w) \in TaskRecords
  BY <1>1 DEF TaskRecords, Finished
<1>3. QED
  BY <1>2 DEF TaskRecords, Finished

(* What the report of a finished task does to the task. *)
LEMMA FinishUpdates ==
  ASSUME NEW w \in Workers, WorkerFinish(w), NEW t \in Tasks, worker[w].task = t
  PROVE  \/ task[t].is_detached /\ task' = [task EXCEPT ![t] = FreeTask]
         \/ /\ ~task[t].is_detached
            /\ \E rest \in Signal(task[t].cv) :
                 task' = [task EXCEPT ![t] = Finished(task[t], rest, w)]
BY DEF WorkerFinish, Finished

(* Reporting a task as finished, or deleting a detached one, preserves the *)
(* invariant: it leaves the worker's hands and the count of running tasks. *)
LEMMA WorkerFinishStep ==
  ASSUME PoolInvariant, NEW w \in Workers, WorkerFinish(w)
  PROVE  PoolInvariant'
<1>1. /\ worker[w].pc = "lock_task"
      /\ MovesTo(w, "unlock_task")
      /\ worker' \in [Workers -> WorkerRecords]
      /\ client' = client
  <2>1. /\ worker[w].pc = "lock_task"
        /\ worker' = [worker EXCEPT ![w].pc = "unlock_task"]
        /\ client' = client
    BY DEF WorkerFinish
  <2>2. QED
    BY <2>1, WorkerMoved DEF WorkerPCs
<1>2. PICK t \in Tasks : /\ worker[w].task = t
                         /\ HasTask(w)
                         /\ task[t].exec = 1
                         /\ Unfinished(t)
  BY <1>1, HeldIsUnfinished DEF PoolInvariant, RunOnce, HasTask
<1>3. /\ pool' \in PoolRecords
      /\ pool'.pending_task_list = pool.pending_task_list
      /\ pool'.pending_task_count = pool.pending_task_count
      /\ pool'.running_task_count = pool.running_task_count - 1
      /\ pool'.mutex = pool.mutex
      /\ pool'.alive = pool.alive
  <2>1. pool \in PoolRecords
    BY DEF PoolInvariant, TypeOK
  <2>2. pool.running_task_count - 1 \in Nat
    <3>1. /\ Cardinality(BusyWorkers) \in Nat
          /\ Cardinality(BusyWorkers) > 0
      BY <1>2, BusyCount DEF PoolInvariant
    <3>2. QED
      BY <3>1 DEF PoolInvariant, TaskCountersExact
  <2>3. pool' = [pool EXCEPT !.running_task_count = pool.running_task_count - 1]
    BY DEF WorkerFinish
  <2>4. QED
    BY <2>1, <2>2, <2>3 DEF PoolRecords
<1>4. \/ task[t].is_detached /\ task' = [task EXCEPT ![t] = FreeTask]
      \/ /\ ~task[t].is_detached
         /\ \E rest \in Signal(task[t].cv) :
              task' = [task EXCEPT ![t] = Finished(task[t], rest, w)]
  BY <1>2, FinishUpdates
<1>5. task \in [Tasks -> TaskRecords] /\ task' \in [Tasks -> TaskRecords]
  BY <1>4, FinishedFields, IdleTypes DEF PoolInvariant, TypeOK
<1>6. \A s \in Tasks : s # t => SameTask(s)
  BY <1>4, <1>5 DEF SameTask
<1>7. /\ ~Unfinished(t)'
      /\ task'[t].alive => /\ task'[t].alive = task[t].alive
                           /\ task'[t].pool = task[t].pool
                           /\ task'[t].is_detached = task[t].is_detached
                           /\ task'[t].exec = 1
                           /\ task'[t].result = task'[t].push
      /\ task[t].is_detached \/ task'[t].alive
  <2>1. CASE task[t].is_detached
    <3>1. task'[t].alive = FALSE
      BY <1>4, <1>5, <2>1 DEF FreeTask
    <3>2. QED
      BY <2>1, <3>1 DEF Unfinished, Pushed
  <2>2. CASE ~task[t].is_detached
    <3>1. PICK rest \in Signal(task[t].cv) :
            task' = [task EXCEPT ![t] = Finished(task[t], rest, w)]
      BY <1>4, <2>2
    <3>2. task'[t] = Finished(task[t], rest, w) /\ task[t] \in TaskRecords
      BY <1>5, <3>1
    <3>3. /\ task'[t].alive = task[t].alive
          /\ task'[t].pool = task[t].pool
          /\ task'[t].is_detached = task[t].is_detached
          /\ task'[t].is_finished
          /\ task'[t].exec = task[t].exec
          /\ task'[t].push = task[t].push
          /\ task'[t].result = task[t].push
      BY <3>2, FinishedFields
    <3>4. QED
      BY <1>2, <3>3 DEF Unfinished, Pushed
  <2>3. QED
    BY <2>1, <2>2
<1>8. TypeOK'
  BY <1>1, <1>3, <1>5 DEF PoolInvariant, TypeOK
<1>9. \A v \in Workers : HasTask(v)' <=> (v # w /\ HasTask(v))
  BY <1>1 DEF HasTask, MovesTo
<1>10. MutexHeld'
  BY <1>1, <1>3 DEF PoolInvariant, MutexHeld, HasPoolMutex, MovesTo
<1>11. WorkersRefer'
  BY <1>1, <1>2, <1>9 DEF PoolInvariant, WorkersRefer, MovesTo
<1>12. CallsOnTasks'
  BY <1>1, <1>6, <1>7 DEF PoolInvariant, TypeOK, ClientRecords, CallsOnTasks, SameTask
<1>13. TaskCountersExact'
  <2>1. BusyWorkers' = BusyWorkers \ {w}
    BY <1>9 DEF BusyWorkers
  <2>2. Cardinality(BusyWorkers') = Cardinality(BusyWorkers) - 1
    BY <1>2, <2>1, BusyCount DEF PoolInvariant
  <2>3. QED
    BY <1>3, <2>2 DEF PoolInvariant, TaskCountersExact
<1>14. TaskInOnePlace'
  <2>1. \A v \in Workers : v # w /\ HasTask(v) => worker[v].task # t
    BY <1>2 DEF PoolInvariant, TaskInOnePlace
  <2>2. t \notin Range(pool.pending_task_list)
    BY <1>2 DEF PoolInvariant, TaskInOnePlace
  <2>3. \A s \in Tasks : Held(s)' <=> (Held(s) /\ s # t)
    BY <1>1, <1>2, <1>9, <2>1 DEF Held, MovesTo
  <2>4. \A s \in Tasks : Unfinished(s)' <=> (Unfinished(s) /\ s # t)
    <3>1. \A s \in Tasks : s # t => (Unfinished(s)' <=> Unfinished(s))
      BY <1>6 DEF Unfinished, Pushed, SameTask
    <3>2. QED
      BY <1>7, <3>1
  <2>5. \A s \in Tasks : Unfinished(s)' <=> (s \in Range(pool'.pending_task_list) \/ Held(s)')
    BY <1>3, <2>2, <2>3, <2>4 DEF PoolInvariant, TaskInOnePlace
  <2>6. QED
    BY <1>1, <1>3, <1>9, <2>5 DEF PoolInvariant, TaskInOnePlace, MovesTo
<1>15. RunOnce'
  <2>1. ASSUME NEW v \in Workers, HasTask(v)'
        PROVE  task'[worker'[v].task].exec = IF worker'[v].pc = "taken" THEN 0 ELSE 1
    <3>1. /\ HasTask(v) /\ worker'[v].task = worker[v].task
          /\ worker'[v].pc = worker[v].pc /\ v # w
      BY <1>1, <1>9, <2>1 DEF MovesTo
    <3>2. worker[v].task # t /\ worker[v].task \in Tasks
      BY <1>2, <3>1, HeldIsUnfinished DEF PoolInvariant, TaskInOnePlace
    <3>3. QED
      BY <1>6, <3>1, <3>2 DEF PoolInvariant, RunOnce, SameTask
  <2>2. \A s \in Range(pool'.pending_task_list) : task'[s].exec = 0
    <3>1. t \notin Range(pool.pending_task_list)
      BY <1>2 DEF PoolInvariant, TaskInOnePlace
    <3>2. QED
      BY <1>3, <1>6, <3>1, HeldIsUnfinished DEF PoolInvariant, RunOnce, SameTask
  <2>3. \A s \in Tasks : task'[s].alive /\ task'[s].pool /\ task'[s].is_finished
          => task'[s].exec = 1 /\ task'[s].result = task'[s].push
    BY <1>6, <1>7 DEF PoolInvariant, RunOnce, SameTask
  <2>4. QED
    BY <2>1, <2>2, <2>3 DEF RunOnce
<1>16. NothingToRun'
  BY <1>1, <1>3, <1>9 DEF PoolInvariant, NothingToRun
<1>17. QED
  BY <1>8, <1>10, <1>11, <1>12, <1>13, <1>14, <1>15, <1>16 DEF PoolInvariant

-----------------------------------------------------------------------------
(* Steps of clients.                                                       *)

(* Client c takes a step and is then at pc, in a call on task t. *)
Caller(c, pc, t) ==
  /\ client' \in [Clients -> ClientRecords]
  /\ \A d \in Clients : d # c => client'[d] = client[d]
  /\ client'[c].pc = pc
  /\ client'[c].task = t

(* A function that returns a code leaves its caller idle. *)
LEMMA Returned ==
  ASSUME PoolInvariant, NEW c \in Clients, NEW ret \in Codes, Return(c, ret)
  PROVE  Caller(c, "idle", NULL)
<1>1. [IdleClient EXCEPT !.ret = ret] \in ClientRecords
  BY IdleTypes
<1>2. /\ [IdleClient EXCEPT !.ret = ret].pc = "idle"
      /\ [IdleClient EXCEPT !.ret = ret].task = NULL
  BY DEF IdleClient
<1>3. QED
  BY <1>1, <1>2 DEF PoolInvariant, TypeOK, Return, Caller

(* A join that returns a result leaves its caller idle. *)
LEMMA ReturnedResult ==
  ASSUME PoolInvariant, NEW c \in Clients, NEW t \in Tasks, ReturnResult(c, t)
  PROVE  Caller(c, "idle", NULL)
<1> DEFINE r == task[t].result
<1>1. r \in {NULL, 0, 1}
  BY DEF PoolInvariant, TypeOK, TaskRecords
<1>2. [IdleClient EXCEPT !.result = r] \in ClientRecords
  BY <1>1, IdleTypes
<1>3. /\ [IdleClient EXCEPT !.result = r].pc = "idle"
      /\ [IdleClient EXCEPT !.result = r].task = NULL
  BY DEF IdleClient
<1>4. QED
  BY <1>2, <1>3 DEF PoolInvariant, TypeOK, ReturnResult, Caller

(* A function that blocks leaves its caller where it says. *)
LEMMA Blocked ==
  ASSUME PoolInvariant, NEW c \in Clients, NEW pc \in ClientPCs,
         NEW t \in Tasks \cup {NULL}, NEW n \in Nat, Block(c, pc, t, n)
  PROVE  Caller(c, pc, t)
<1>1. client[c] \in ClientRecords /\ client \in [Clients -> ClientRecords]
  BY DEF PoolInvariant, TypeOK
<1>2. [client[c] EXCEPT !.pc = pc, !.task = t, !.n = n] \in ClientRecords
  BY <1>1 DEF ClientRecords
<1>3. QED
  BY <1>1, <1>2 DEF ClientRecords, Block, Caller

(* A step of one client preserves CallsOnTasks if it leaves the tasks of   *)
(* the other calls alone.                                                  *)
LEMMA Calls ==
  ASSUME PoolInvariant, NEW c \in Clients, NEW pc, NEW t \in Tasks \cup {NULL},
         Caller(c, pc, t),
         \A d \in Clients \ {c} :
           client[d].task # NULL =>
             /\ task'[client[d].task].alive = task[client[d].task].alive
             /\ task'[client[d].task].is_detached = task[client[d].task].is_detached
             /\ task'[client[d].task].pool = task[client[d].task].pool,
         t = NULL <=> pc \in {"idle", "pool_join"},
         t # NULL => /\ task'[t].alive
                     /\ ~task'[t].is_detached
                     /\ task'[t].pool <=> pc # "spawn_wait"
                     /\ \A d \in Clients \ {c} : client[d].task # t
  PROVE  CallsOnTasks'
BY DEF PoolInvariant, CallsOnTasks, Caller

(* A step of a client that changes only tasks, and moves none, preserves   *)
(* the invariant.                                                          *)
LEMMA TaskCall ==
  ASSUME PoolInvariant, NEW c \in Clients, NEW pc, NEW t \in Tasks \cup {NULL},
         pool' = pool, worker' = worker, Caller(c, pc, t),
         pc \notin {"spawn_wait", "pool_join"},
         task' \in [Tasks -> TaskRecords],
         \A s \in Tasks : Unfinished(s)' <=> Unfinished(s),
         SameRuns,
         CallsOnTasks'
  PROVE  PoolInvariant'
<1>1. TypeOK'
  BY DEF PoolInvariant, TypeOK, Caller
<1>2. SamePlaces
  BY DEF SamePlaces, SamePending, SameHold, HasTask
<1>3. MutexHeld' /\ WorkersRefer'
  BY DEF PoolInvariant, MutexHeld, HasPoolMutex, WorkersRefer, HasTask
<1>4. NothingToRun'
  BY DEF PoolInvariant, NothingToRun, HasTask, Caller
<1>5. QED
  BY <1>1, <1>2, <1>3, <1>4, Places, Runs DEF PoolInvariant

(* A step of a client that changes nothing of a task but its lock and its  *)
(* condition variable preserves the invariant.                             *)
LEMMA CallOnSameTasks ==
  ASSUME PoolInvariant, NEW c \in Clients, NEW pc, NEW t \in Tasks \cup {NULL},
         pool' = pool, worker' = worker, Caller(c, pc, t),
         pc \notin {"spawn_wait", "pool_join"},
         task' \in [Tasks -> TaskRecords],
         \A s \in Tasks : SameTask(s),
         t = NULL <=> pc = "idle",
         t # NULL => /\ task[t].alive
                     /\ ~task[t].is_detached
                     /\ task[t].pool
                     /\ \A d \in Clients \ {c} : client[d].task # t
  PROVE  PoolInvariant'
<1>1. \A v \in Workers : SameHold(v) /\ worker'[v].pc = worker[v].pc
  BY DEF SameHold, HasTask
<1>2. SamePlaces /\ SameRuns
  BY <1>1, SameTasks DEF SamePending
<1>3. \A d \in Clients : client[d].task \in Tasks \cup {NULL}
  BY DEF PoolInvariant, TypeOK, ClientRecords
<1>4. CallsOnTasks'
  BY <1>3, Calls DEF SameTask
<1>5. QED
  BY <1>2, <1>4, TaskCall DEF SamePlaces

(* Freeing a task that is not waiting to run and that no call uses         *)
(* preserves the invariant.                                                *)
LEMMA TaskFreed ==
  ASSUME PoolInvariant, NEW c \in Clients, NEW t \in Tasks,
         pool' = pool, worker' = worker, Caller(c, "idle", NULL),
         task' = [task EXCEPT ![t] = FreeTask],
         ~Unfinished(t),
         \A d \in Clients : client[d].task # t
  PROVE  PoolInvariant'
<1>1. task' \in [Tasks -> TaskRecords]
  BY IdleTypes DEF PoolInvariant, TypeOK
<1>2. ~task'[t].alive
  BY DEF PoolInvariant, TypeOK, FreeTask
<1>3. \A s \in Tasks : s # t => task'[s] = task[s]
  BY DEF PoolInvariant, TypeOK
<1>4. \A s \in Tasks : Unfinished(s)' <=> Unfinished(s)
  BY <1>2, <1>3 DEF Unfinished, Pushed
<1>5. SameRuns
  BY <1>2, <1>3 DEF SameRuns
<1>6. \A d \in Clients : client[d].task \in Tasks \cup {NULL}
  BY DEF PoolInvariant, TypeOK, ClientRecords
<1>7. CallsOnTasks'
  BY <1>3, <1>6, Calls
<1>8. QED
  BY <1>1, <1>4, <1>5, <1>7, TaskCall

(* Taking a finished task out of the pool preserves the invariant. *)
LEMMA Joined ==
  ASSUME PoolInvariant, NEW c \in Clients, NEW t \in Tasks,
         pool' = pool, worker' = worker, TakeResult(c, t), task[t].pool,
         \A d \in Clients \ {c} : client[d].task # t
  PROVE  PoolInvariant'
<1>1. Caller(c, "idle", NULL)
  BY ReturnedResult DEF TakeResult
<1>2. task' = [task EXCEPT ![t].pool = FALSE] /\ task[t].is_finished
  BY DEF TakeResult
<1>3. task' \in [Tasks -> TaskRecords]
  <2>1. task[t] \in TaskRecords
    BY DEF PoolInvariant, TypeOK
  <2>2. [task[t] EXCEPT !.pool = FALSE] \in TaskRecords
    BY <2>1 DEF TaskRecords
  <2>3. QED
    BY <1>2, <2>2 DEF PoolInvariant, TypeOK
<1>4. ~task'[t].pool /\ task'[t].is_finished
  BY <1>2 DEF PoolInvariant, TypeOK, TaskRecords
<1>5. \A s \in Tasks : s # t => task'[s] = task[s]
  BY <1>2 DEF PoolInvariant, TypeOK
<1>6. \A s \in Tasks : Unfinished(s)' <=> Unfinished(s)
  BY <1>2, <1>4, <1>5 DEF Unfinished, Pushed
<1>7. SameRuns
  BY <1>2, <1>4, <1>5 DEF SameRuns, Unfinished
<1>8. \A d \in Clients : client[d].task \in Tasks \cup {NULL}
  BY DEF PoolInvariant, TypeOK, ClientRecords
<1>9. CallsOnTasks'
  BY <1>1, <1>5, <1>8, Calls
<1>10. QED
  BY <1>1, <1>3, <1>6, <1>7, <1>9, TaskCall

(* Going to sleep on a task in the pool preserves the invariant. *)
LEMMA Slept ==
  ASSUME PoolInvariant, NEW c \in Clients, NEW t \in Tasks,
         NEW pc \in {"join_wait", "timed_wait"},
         pool' = pool, worker' = worker, SleepOnTask(c, t, pc),
         task[t].alive, ~task[t].is_detached, task[t].pool,
         \A d \in Clients \ {c} : client[d].task # t
  PROVE  PoolInvariant'
<1>1. Caller(c, pc, t)
  BY Blocked DEF SleepOnTask, ClientPCs
<1>2. task' = [task EXCEPT ![t].cv = task[t].cv \cup {c}]
  BY DEF SleepOnTask
<1>3. task' \in [Tasks -> TaskRecords]
  <2>1. task[t] \in TaskRecords
    BY DEF PoolInvariant, TypeOK
  <2>2. [task[t] EXCEPT !.cv = task[t].cv \cup {c}] \in TaskRecords
    BY <2>1 DEF TaskRecords
  <2>3. QED
    BY <1>2, <2>2 DEF PoolInvariant, TypeOK
<1>4. \A s \in Tasks : SameTask(s)
  BY <1>2 DEF PoolInvariant, TypeOK, TaskRecords, SameTask
<1>5. t # NULL
  BY ConstantsAssumption
<1>6. QED
  BY <1>1, <1>3, <1>4, <1>5, CallOnSameTasks

(* A function that does nothing but return preserves the invariant. *)
LEMMA NothingDone ==
  ASSUME PoolInvariant, NEW c \in Clients, NEW ret \in Codes, Return(c, ret),
         pool' = pool, task' = task, worker' = worker
  PROVE  PoolInvariant'
<1>1. Caller(c, "idle", NULL)
  BY Returned
<1>2. task' \in [Tasks -> TaskRecords] /\ \A s \in Tasks : SameTask(s)
  BY DEF PoolInvariant, TypeOK, SameTask
<1>3. QED
  BY <1>1, <1>2, CallOnSameTasks

(* thread_task_new preserves the invariant. *)
LEMMA ThreadTaskNewStep ==
  ASSUME PoolInvariant, NEW c \in Clients, NEW t \in Tasks, ThreadTaskNew(c, t)
  PROVE  PoolInvariant'
<1>1. Caller(c, "idle", NULL) /\ pool' = pool /\ worker' = worker
  BY Returned DEF ThreadTaskNew, Codes
<1>2. task' = [task EXCEPT ![t] = [FreeTask EXCEPT !.alive = TRUE]] /\ ~task[t].alive
  BY DEF ThreadTaskNew
<1>3. [FreeTask EXCEPT !.alive = TRUE] \in TaskRecords
  BY DEF FreeTask, TaskRecords
<1>4. task' \in [Tasks -> TaskRecords] /\ task'[t] = [FreeTask EXCEPT !.alive = TRUE]
  BY <1>2, <1>3 DEF PoolInvariant, TypeOK
<1>5. ~task'[t].pool /\ ~task'[t].is_detached
  BY <1>4 DEF FreeTask
<1>6. \A s \in Tasks : s # t => task'[s] = task[s]
  BY <1>2 DEF PoolInvariant, TypeOK
<1>7. \A s \in Tasks : Unfinished(s)' <=> Unfinished(s)
  BY <1>2, <1>5, <1>6 DEF Unfinished, Pushed
<1>8. SameRuns
  BY <1>1, <1>2, <1>5, <1>6 DEF SameRuns, Unfinished, Pushed
<1>9. \A d \in Clients : client[d].task \in Tasks \cup {NULL} /\ client[d].task # t
  BY <1>2, ConstantsAssumption DEF PoolInvariant, TypeOK, ClientRecords, CallsOnTasks
<1>10. CallsOnTasks'
  BY <1>1, <1>6, <1>9, Calls
<1>11. QED
  BY <1>1, <1>4, <1>7, <1>8, <1>10, TaskCall

(* TPOOL_ERR_TASK_NOT_PUSHED preserves the invariant. *)
LEMMA NotPushedStep ==
  ASSUME PoolInvariant, NEW c \in Clients, NEW t \in Tasks, NotPushed(c, t),
         pool' = pool, worker' = worker
  PROVE  PoolInvariant'
BY NothingDone DEF NotPushed, Codes

(* thread_task_join preserves the invariant. *)
LEMMA ThreadTaskJoinStep ==
  ASSUME PoolInvariant, NEW c \in Clients, NEW t \in Tasks, ThreadTaskJoin(c, t)
  PROVE  PoolInvariant'
<1>1. /\ pool' = pool /\ worker' = worker
      /\ task[t].alive /\ ~task[t].is_detached
      /\ \A d \in Clients : client[d].task # t
  BY DEF ThreadTaskJoin, MayUseTask
<1>2. CASE NotPushed(c, t)
  BY <1>1, <1>2, NotPushedStep
<1>3. CASE task[t].pool /\ TakeResult(c, t)
  BY <1>1, <1>3, Joined
<1>4. CASE task[t].pool /\ SleepOnTask(c, t, "join_wait")
  BY <1>1, <1>4, Slept
<1>5. QED
  BY <1>2, <1>3, <1>4 DEF ThreadTaskJoin

(* thread_task_timed_join preserves the invariant. *)
LEMMA ThreadTaskTimedJoinStep ==
  ASSUME PoolInvariant, NEW c \in Clients, NEW t \in Tasks, NEW timeout \in Timeouts,
         ThreadTaskTimedJoin(c, t, timeout)
  PROVE  PoolInvariant'
<1>1. /\ pool' = pool /\ worker' = worker
      /\ task[t].alive /\ ~task[t].is_detached
      /\ \A d \in Clients : client[d].task # t
  BY DEF ThreadTaskTimedJoin, MayUseTask
<1>2. CASE NotPushed(c, t)
  BY <1>1, <1>2, NotPushedStep
<1>3. CASE task[t].pool /\ TakeResult(c, t)
  BY <1>1, <1>3, Joined
<1>4. CASE Return(c, "TIMEOUT") /\ UNCHANGED task
  BY <1>1, <1>4, NothingDone DEF Codes
<1>5. CASE task[t].pool /\ SleepOnTask(c, t, "timed_wait")
  BY <1>1, <1>5, Slept
<1>6. CASE task[t].pool /\ Block(c, "spin", t, 0) /\ task' = [task EXCEPT ![t].mutex = c]
  <2>1. Caller(c, "spin", t)
    BY <1>6, Blocked DEF ClientPCs
  <2>2. task' \in [Tasks -> TaskRecords]
    BY <1>6 DEF PoolInvariant, TypeOK, TaskRecords
  <2>3. \A s \in Tasks : SameTask(s)
    BY <1>6 DEF PoolInvariant, TypeOK, TaskRecords, SameTask
  <2>4. t # NULL
    BY ConstantsAssumption
  <2>5. QED
    BY <1>1, <1>6, <2>1, <2>2, <2>3, <2>4, CallOnSameTasks
<1>7. QED
  BY <1>2, <1>3, <1>4, <1>5, <1>6 DEF ThreadTaskTimedJoin

(* What a client in the middle of a call on a task can rely on. *)
LEMMA Calling ==
  ASSUME PoolInvariant, NEW c \in Clients,
         client[c].pc \notin {"idle", "pool_join"}
  PROVE  LET t == client[c].task IN
         /\ t \in Tasks
         /\ task[t].alive
         /\ ~task[t].is_detached
         /\ task[t].pool <=> client[c].pc # "spawn_wait"
         /\ \A d \in Clients \ {c} : client[d].task # t
BY DEF PoolInvariant, TypeOK, ClientRecords, CallsOnTasks

(* Waking up in a join preserves the invariant. *)
LEMMA JoinWakeStep ==
  ASSUME PoolInvariant, NEW c \in Clients, JoinWake(c)
  PROVE  PoolInvariant'
<1>1. PICK t \in Tasks : /\ client[c].task = t
                         /\ task[t].alive /\ ~task[t].is_detached /\ task[t].pool
                         /\ \A d \in Clients \ {c} : client[d].task # t
  BY Calling DEF JoinWake
<1>2. PICK pc \in {"join_wait", "timed_wait"} : client[c].pc = pc
  BY DEF JoinWake
<1>3. pool' = pool /\ worker' = worker
  BY DEF JoinWake
<1>4. CASE TakeResult(c, t)
  BY <1>1, <1>3, <1>4, Joined
<1>5. CASE SleepOnTask(c, t, pc)
  BY <1>1, <1>3, <1>5, Slept
<1>6. QED
  BY <1>1, <1>2, <1>4, <1>5 DEF JoinWake

(* The end of the time of a timed join preserves the invariant. *)
LEMMA TimedJoinExpireStep ==
  ASSUME PoolInvariant, NEW c \in Clients, TimedJoinExpire(c)
  PROVE  PoolInvariant'
<1>1. PICK t \in Tasks : /\ client[c].task = t
                         /\ task[t].alive /\ ~task[t].is_detached /\ task[t].pool
                         /\ \A d \in Clients \ {c} : client[d].task # t
  BY Calling DEF TimedJoinExpire
<1>2. /\ pool' = pool /\ worker' = worker
      /\ task' = [task EXCEPT ![t].cv = task[t].cv \ {c}]
      /\ client' = [client EXCEPT ![c].pc = "expired"]
  BY <1>1 DEF TimedJoinExpire
<1>3. Caller(c, "expired", t)
  BY <1>1, <1>2 DEF PoolInvariant, TypeOK, ClientRecords, ClientPCs, Caller
<1>4. task' \in [Tasks -> TaskRecords]
  BY <1>2 DEF PoolInvariant, TypeOK, TaskRecords
<1>5. \A s \in Tasks : SameTask(s)
  BY <1>2 DEF PoolInvariant, TypeOK, TaskRecords, SameTask
<1>6. t # NULL
  BY ConstantsAssumption
<1>7. QED
  BY <1>1, <1>2, <1>3, <1>4, <1>5, <1>6, CallOnSameTasks

(* Returning TPOOL_ERR_TIMEOUT preserves the invariant. *)
LEMMA TimedJoinTimeoutStep ==
  ASSUME PoolInvariant, NEW c \in Clients, TimedJoinTimeout(c)
  PROVE  PoolInvariant'
BY NothingDone DEF TimedJoinTimeout, Codes

(* thread_task_delete preserves the invariant. *)
LEMMA ThreadTaskDeleteStep ==
  ASSUME PoolInvariant, NEW c \in Clients, NEW t \in Tasks, ThreadTaskDelete(c, t)
  PROVE  PoolInvariant'
<1>1. /\ pool' = pool /\ worker' = worker
      /\ ~task[t].is_detached
      /\ \A d \in Clients : client[d].task # t
  BY DEF ThreadTaskDelete, MayUseTask
<1>2. CASE Return(c, "TASK_IN_POOL") /\ UNCHANGED task
  BY <1>1, <1>2, NothingDone DEF Codes
<1>3. CASE ~task[t].pool /\ Return(c, "OK") /\ task' = [task EXCEPT ![t] = FreeTask]
  <2>1. ~Unfinished(t)
    BY <1>1, <1>3 DEF Unfinished, Pushed
  <2>2. Caller(c, "idle", NULL)
    BY <1>3, Returned DEF Codes
  <2>3. QED
    BY <1>1, <1>3, <2>1, <2>2, TaskFreed
<1>4. QED
  BY <1>2, <1>3 DEF ThreadTaskDelete

(* thread_task_detach preserves the invariant: an unfinished task stays    *)
(* one that a worker has to run.                                           *)
LEMMA ThreadTaskDetachStep ==
  ASSUME PoolInvariant, NEW c \in Clients, NEW t \in Tasks, ThreadTaskDetach(c, t)
  PROVE  PoolInvariant'
<1>1. /\ pool' = pool /\ worker' = worker
      /\ task[t].alive
      /\ \A d \in Clients : client[d].task # t
  BY DEF ThreadTaskDetach, MayUseTask
<1>2. CASE NotPushed(c, t)
  BY <1>1, <1>2, NotPushedStep
<1>3. CASE /\ task[t].is_finished /\ Return(c, "OK")
           /\ task' = [task EXCEPT ![t] = FreeTask]
  <2>1. ~Unfinished(t)
    BY <1>3 DEF Unfinished
  <2>2. Caller(c, "idle", NULL)
    BY <1>3, Returned DEF Codes
  <2>3. QED
    BY <1>1, <1>3, <2>1, <2>2, TaskFreed
<1>4. CASE /\ task[t].pool /\ ~task[t].is_finished /\ Return(c, "OK")
           /\ task' = [task EXCEPT ![t] = [task[t] EXCEPT !.pool = FALSE, !.is_detached = TRUE]]
  <2>1. Caller(c, "idle", NULL)
    BY <1>4, Returned DEF Codes
  <2>2. task \in [Tasks -> TaskRecords] /\ task[t] \in TaskRecords
    BY DEF PoolInvariant, TypeOK
  <2>3. [task[t] EXCEPT !.pool = FALSE, !.is_detached = TRUE] \in TaskRecords
    BY <2>2 DEF TaskRecords
  <2>4. /\ task' \in [Tasks -> TaskRecords]
        /\ \A s \in Tasks : s # t => task'[s] = task[s]
        /\ task'[t] = [task[t] EXCEPT !.pool = FALSE, !.is_detached = TRUE]
    BY <1>4, <2>2, <2>3
  <2>5. /\ ~task'[t].pool
        /\ task'[t].is_detached
        /\ task'[t].alive = task[t].alive
        /\ task'[t].is_finished = task[t].is_finished
        /\ task'[t].exec = task[t].exec
    BY <2>2, <2>4 DEF TaskRecords
  <2>6. \A s \in Tasks : Unfinished(s)' <=> Unfinished(s)
    BY <1>1, <1>4, <2>4, <2>5 DEF Unfinished, Pushed
  <2>7. SameRuns
    BY <1>1, <2>4, <2>5 DEF SameRuns
  <2>8. \A d \in Clients : client[d].task \in Tasks \cup {NULL}
    BY DEF PoolInvariant, TypeOK, ClientRecords
  <2>9. CallsOnTasks'
    BY <1>1, <2>1, <2>4, <2>8, Calls
  <2>10. QED
    BY <1>1, <2>1, <2>4, <2>6, <2>7, <2>9, TaskCall
<1>5. QED
  BY <1>2, <1>3, <1>4 DEF ThreadTaskDetach

(* A spurious wakeup preserves the invariant. *)
LEMMA SpuriousWakeupStep ==
  ASSUME PoolInvariant, SpuriousWakeup
  PROVE  PoolInvariant'
<1>1. client' = client /\ worker' = worker
  BY DEF SpuriousWakeup
<1>2. /\ SamePending
      /\ pool'.alive = pool.alive
      /\ pool'.mutex = pool.mutex
      /\ pool' \in PoolRecords
  <2>1. pool \in PoolRecords
    BY DEF PoolInvariant, TypeOK
  <2>2. CASE \E x : pool' = [pool EXCEPT !.cv = pool.cv \ {x}]
    BY <2>1, <2>2 DEF PoolRecords, SamePending
  <2>3. CASE \E x : pool' = [pool EXCEPT !.spawn_cv = pool.spawn_cv \ {x}]
    BY <2>1, <2>3 DEF PoolRecords, SamePending
  <2>4. CASE pool' = pool
    BY <2>1, <2>4 DEF SamePending
  <2>5. QED
    BY <2>2, <2>3, <2>4 DEF SpuriousWakeup
<1>3. task' \in [Tasks -> TaskRecords] /\ \A t \in Tasks : SameTask(t)
  <2>1. CASE task' = task
    BY <2>1 DEF PoolInvariant, TypeOK, SameTask
  <2>2. CASE \E t \in Tasks : \E c \in task[t].cv :
               task' = [task EXCEPT ![t].cv = task[t].cv \ {c}]
    <3>1. PICK t \in Tasks : \E c \in task[t].cv :
             task' = [task EXCEPT ![t].cv = task[t].cv \ {c}]
      BY <2>2
    <3>2. task \in [Tasks -> TaskRecords] /\ task[t] \in TaskRecords
      BY DEF PoolInvariant, TypeOK
    <3>3. \A c : [task[t] EXCEPT !.cv = task[t].cv \ {c}] \in TaskRecords
      BY <3>2 DEF TaskRecords
    <3>4. QED
      BY <3>1, <3>2, <3>3 DEF TaskRecords, SameTask
  <2>3. QED
    BY <2>1, <2>2 DEF SpuriousWakeup
<1>4. TypeOK'
  BY <1>1, <1>2, <1>3 DEF PoolInvariant, TypeOK
<1>5. SamePlaces /\ SameRuns
  BY <1>1, <1>2, <1>3, SameTasks DEF SameHold, HasTask
<1>6. MutexHeld' /\ WorkersRefer'
  BY <1>1, <1>2 DEF PoolInvariant, MutexHeld, HasPoolMutex, WorkersRefer, HasTask
<1>7. QED
  BY <1>1, <1>2, <1>3, <1>4, <1>5, <1>6, QuietWorker

-----------------------------------------------------------------------------
(* Steps of clients that change the pool.                                  *)

(* With no pending task and no busy worker the list is empty and nothing   *)
(* is counted as running.                                                  *)
LEMMA EmptyPool ==
  ASSUME PoolInvariant, pool.pending_task_count = 0, \A w \in Workers : ~HasTask(w)
  PROVE  pool.pending_task_list = <<>> /\ pool.running_task_count = 0
<1>1. BusyWorkers = {}
  BY DEF BusyWorkers
<1>2. Cardinality(BusyWorkers) = 0
  BY <1>1, FS_EmptySet
<1>3. pool.pending_task_list \in Seq(Tasks) /\ Len(pool.pending_task_list) = 0
  BY DEF PoolInvariant, TypeOK, PoolRecords, TaskCountersExact
<1>4. QED
  BY <1>2, <1>3 DEF PoolInvariant, TaskCountersExact

(* Where thread_pool_delete finds nothing to do (thread_pool.c:136-147)    *)
(* there is no task in the list or in the hands of a worker.               *)
LEMMA NotRunning ==
  ASSUME PoolInvariant, ~PoolBusy
  PROVE  pool.pending_task_count = 0 /\ \A w \in Workers : ~HasTask(w)
<1>1. pool.pending_task_count \in Nat /\ pool.running_task_count \in Nat
  BY DEF PoolInvariant, TypeOK, PoolRecords
<1>2. pool.pending_task_count = 0 /\ pool.running_task_count = 0
  BY <1>1 DEF PoolBusy
<1>3. ASSUME NEW w \in Workers, HasTask(w) PROVE FALSE
  <2>1. Cardinality(BusyWorkers) \in Nat /\ Cardinality(BusyWorkers) > 0
    BY <1>3, BusyCount DEF PoolInvariant
  <2>2. QED
    BY <1>2, <2>1 DEF PoolInvariant, TaskCountersExact
<1>4. QED
  BY <1>2, <1>3

(* A step of a client that changes an idle pool preserves the invariant. *)
LEMMA QuietPool ==
  ASSUME PoolInvariant, TypeOK', NEW c \in Clients, NEW pc,
         NEW t \in Tasks \cup {NULL}, Caller(c, pc, t),
         SamePending, task' = task, \A v \in Workers : ~HasTask(v) /\ ~HasTask(v)',
         pool.pending_task_count = 0,
         MutexHeld', WorkersRefer',
         \A d \in Clients : client[d].pc # "spawn_wait",
         t = NULL, pc \in {"idle", "pool_join"}
  PROVE  PoolInvariant'
<1>1. SamePlaces /\ SameRuns
  BY SameTasks DEF SameTask, SameHold
<1>2. CallsOnTasks'
  BY Calls
<1>3. NothingToRun'
  BY DEF NothingToRun, SamePending, Caller
<1>4. QED
  BY <1>1, <1>2, <1>3, Places, Runs DEF PoolInvariant

(* thread_pool_new preserves the invariant. *)
LEMMA ThreadPoolNewStep ==
  ASSUME PoolInvariant, NEW c \in Clients, NEW n \in MaxThreadCounts, ThreadPoolNew(c, n)
  PROVE  PoolInvariant'
<1>1. task' = task /\ worker' = worker /\ ~pool.alive
  BY DEF ThreadPoolNew
<1>2. CASE Return(c, "INVALID_ARGUMENT") /\ UNCHANGED pool
  BY <1>1, <1>2, NothingDone DEF Codes
<1>3. CASE /\ ~(n < 1 \/ n > TPOOL_MAX_THREADS)
           /\ Return(c, "OK")
           /\ pool' = [NoPool EXCEPT !.alive = TRUE, !.max_thread_count = n]
  <2>1. Caller(c, "idle", NULL)
    BY <1>3, Returned DEF Codes
  <2>2. n \in Nat
    BY <1>3, ConstantsAssumption
  <2>3. pool' \in PoolRecords
    BY <1>3, <2>2, IdleTypes DEF PoolRecords
  <2>4. /\ pool'.pending_task_list = <<>>
        /\ pool'.pending_task_count = 0
        /\ pool'.running_task_count = 0
        /\ pool'.mutex = NULL
        /\ pool'.alive
    BY <1>3 DEF NoPool
  <2>5. /\ pool.pending_task_count = 0
        /\ \A d \in Clients : client[d].pc # "spawn_wait"
        /\ \A v \in Workers : ~HasTask(v) /\ ~HasTask(v)'
    BY <1>1 DEF PoolInvariant, NothingToRun, HasTask
  <2>6. SamePending
    BY <2>4, <2>5, EmptyPool DEF SamePending
  <2>7. TypeOK'
    BY <1>1, <2>1, <2>3 DEF PoolInvariant, TypeOK, Caller
  <2>8. MutexHeld' /\ WorkersRefer'
    BY <1>1, <2>4 DEF PoolInvariant, MutexHeld, HasPoolMutex, WorkersRefer, HasTask
  <2>9. QED
    BY <1>1, <2>1, <2>5, <2>6, <2>7, <2>8, QuietPool
<1>4. QED
  BY <1>2, <1>3 DEF ThreadPoolNew

(* What telling a worker to exit changes. *)
LEMMA ToldToExit ==
  ASSUME PoolInvariant, NEW c \in Clients, NEW i \in Nat, TellToExit(c, i)
  PROVE  /\ Caller(c, "pool_join", NULL)
         /\ pool' \in PoolRecords
         /\ SamePending
         /\ pool'.mutex = pool.mutex
         /\ pool'.alive = pool.alive
<1>1. pool' = [pool EXCEPT !.thread_idx_that_should_exit = i, !.cv = {}]
  BY DEF TellToExit
<1>2. Caller(c, "pool_join", NULL)
  BY Blocked DEF TellToExit, ClientPCs
<1>3. pool \in PoolRecords
  BY DEF PoolInvariant, TypeOK
<1>4. pool' \in PoolRecords
  <2>1. i \in Int /\ {} \in SUBSET Workers
    OBVIOUS
  <2>2. QED
    BY <1>1, <1>3, <2>1 DEF PoolRecords
<1>5. SamePending /\ pool'.mutex = pool.mutex /\ pool'.alive = pool.alive
  BY <1>1, <1>3 DEF PoolRecords, SamePending
<1>6. QED
  BY <1>2, <1>4, <1>5

(* What freeing an idle pool changes. *)
LEMMA PoolFreed ==
  ASSUME PoolInvariant, pool' = NoPool, pool.mutex = NULL,
         pool.pending_task_count = 0, \A w \in Workers : ~HasTask(w)
  PROVE  /\ pool' \in PoolRecords
         /\ SamePending
         /\ pool'.mutex = NULL
         /\ ~pool'.alive
<1>1. /\ NoPool.pending_task_list = <<>>
      /\ NoPool.pending_task_count = 0
      /\ NoPool.running_task_count = 0
      /\ NoPool.mutex = NULL
      /\ ~NoPool.alive
  BY DEF NoPool
<1>2. QED
  BY <1>1, EmptyPool, IdleTypes DEF SamePending

(* thread_pool_delete, up to its first pthread_join, preserves the         *)
(* invariant.                                                              *)
LEMMA ThreadPoolDeleteStep ==
  ASSUME PoolInvariant, NEW c \in Clients, ThreadPoolDelete(c)
  PROVE  PoolInvariant'
<1>1. /\ task' = task /\ worker' = worker
      /\ pool.mutex = NULL
      /\ \A d \in Clients : client[d].pc # "spawn_wait"
  BY DEF ThreadPoolDelete
<1>2. CASE Return(c, "HAS_TASKS") /\ UNCHANGED pool
  BY <1>1, <1>2, NothingDone DEF Codes
<1>3. CASE ~PoolBusy /\ Return(c, "OK") /\ pool' = NoPool
  <2>1. Caller(c, "idle", NULL)
    BY <1>3, Returned DEF Codes
  <2>2. /\ pool.pending_task_count = 0
        /\ \A v \in Workers : ~HasTask(v) /\ ~HasTask(v)'
    BY <1>1, <1>3, NotRunning DEF HasTask
  <2>3. /\ pool' \in PoolRecords /\ SamePending /\ pool'.mutex = NULL /\ ~pool'.alive
    BY <1>1, <1>3, <2>2, PoolFreed
  <2>4. TypeOK'
    BY <1>1, <2>1, <2>3 DEF PoolInvariant, TypeOK, Caller
  <2>5. MutexHeld' /\ WorkersRefer'
    BY <1>1, <2>3 DEF PoolInvariant, MutexHeld, HasPoolMutex, WorkersRefer, HasTask
  <2>6. QED
    BY <1>1, <2>1, <2>2, <2>3, <2>4, <2>5, QuietPool
<1>4. CASE ~PoolBusy /\ TellToExit(c, 0)
  <2>1. /\ Caller(c, "pool_join", NULL)
        /\ pool' \in PoolRecords
        /\ SamePending
        /\ pool'.mutex = pool.mutex
        /\ pool'.alive = pool.alive
    BY <1>4, ToldToExit
  <2>2. /\ pool.pending_task_count = 0
        /\ \A v \in Workers : ~HasTask(v) /\ ~HasTask(v)'
    BY <1>1, <1>4, NotRunning DEF HasTask
  <2>3. TypeOK'
    BY <1>1, <2>1 DEF PoolInvariant, TypeOK, Caller
  <2>4. MutexHeld' /\ WorkersRefer'
    BY <1>1, <2>1 DEF PoolInvariant, MutexHeld, HasPoolMutex, WorkersRefer, HasTask
  <2>5. QED
    BY <1>1, <2>1, <2>2, <2>3, <2>4, QuietPool
<1>5. QED
  BY <1>2, <1>3, <1>4 DEF ThreadPoolDelete

(* Joining a worker in thread_pool_delete preserves the invariant. *)
LEMMA PoolDeleteJoinStep ==
  ASSUME PoolInvariant, NEW c \in Clients, PoolDeleteJoin(c)
  PROVE  PoolInvariant'
<1>1. /\ client[c].pc = "pool_join" /\ client[c].n \in Nat
      /\ task' = task /\ pool.mutex = NULL
  BY DEF PoolDeleteJoin, PoolInvariant, TypeOK, ClientRecords
<1>2. PICK x \in Workers : worker[x].pc = "exited" /\ worker' = [worker EXCEPT ![x] = NoWorker]
  <2>1. /\ client[c].n + 1 \in DOMAIN pool.threads
        /\ pool.threads[client[c].n + 1] # NULL
        /\ worker[pool.threads[client[c].n + 1]].pc = "exited"
        /\ worker' = [worker EXCEPT ![pool.threads[client[c].n + 1]] = NoWorker]
    BY DEF PoolDeleteJoin
  <2>2. pool.threads \in Seq(Workers \cup {NULL})
    BY DEF PoolInvariant, TypeOK, PoolRecords
  <2>3. pool.threads[client[c].n + 1] \in Workers \cup {NULL}
    BY <2>1, <2>2
  <2>4. QED
    BY <2>1, <2>3
<1>3. /\ worker' \in [Workers -> WorkerRecords]
      /\ worker'[x].pc = "none"
      /\ \A v \in Workers : v # x => worker'[v] = worker[v]
  BY <1>2, IdleTypes DEF PoolInvariant, TypeOK, NoWorker
<1>4. /\ pool.pending_task_count = 0
      /\ \A d \in Clients : client[d].pc # "spawn_wait"
      /\ \A v \in Workers : ~HasTask(v)
  BY <1>1 DEF PoolInvariant, NothingToRun
<1>5. /\ \A v \in Workers : ~HasTask(v)'
      /\ \A v \in Workers : HasPoolMutex(v)' <=> HasPoolMutex(v)
      /\ WorkersRefer'
  BY <1>2, <1>3, <1>4 DEF HasTask, HasPoolMutex, PoolInvariant, WorkersRefer
<1>6. CASE TellToExit(c, client[c].n + 1)
  <2>1. /\ Caller(c, "pool_join", NULL)
        /\ pool' \in PoolRecords
        /\ SamePending
        /\ pool'.mutex = pool.mutex
        /\ pool'.alive = pool.alive
    BY <1>1, <1>6, ToldToExit
  <2>2. TypeOK'
    BY <1>1, <1>3, <2>1 DEF PoolInvariant, TypeOK, Caller
  <2>3. MutexHeld'
    BY <1>5, <2>1 DEF PoolInvariant, MutexHeld
  <2>4. QED
    BY <1>1, <1>4, <1>5, <2>1, <2>2, <2>3, QuietPool
<1>7. CASE Return(c, "OK") /\ pool' = NoPool
  <2>1. Caller(c, "idle", NULL)
    BY <1>7, Returned DEF Codes
  <2>2. pool' \in PoolRecords /\ SamePending /\ pool'.mutex = NULL /\ ~pool'.alive
    BY <1>1, <1>4, <1>7, PoolFreed
  <2>3. TypeOK'
    BY <1>1, <1>3, <2>1, <2>2 DEF PoolInvariant, TypeOK, Caller
  <2>4. MutexHeld'
    BY <1>1, <1>5, <2>2 DEF PoolInvariant, MutexHeld
  <2>5. QED
    BY <1>1, <1>4, <1>5, <2>1, <2>2, <2>3, <2>4, QuietPool
<1>8. QED
  BY <1>6, <1>7 DEF PoolDeleteJoin

(* Creating a worker and waiting for it preserves the invariant. *)
LEMMA Spawned ==
  ASSUME PoolInvariant, NEW c \in Clients, NEW t \in Tasks, SpawnWorker(c, t),
         pool.alive, pool.mutex = NULL,
         task[t].alive, ~task[t].is_detached, ~task[t].pool,
         \A d \in Clients : client[d].task # t,
         \A d \in Clients : client[d].pc # "pool_join"
  PROVE  PoolInvariant'
<1>1. PICK w \in Workers :
        /\ worker[w].pc = "none"
        /\ worker' = [worker EXCEPT ![w].pc = "spawned", ![w].idx = pool.thread_count]
        /\ pool' = [pool EXCEPT
             !.threads = [i \in 1..(pool.thread_count + 1) |->
                            IF i = pool.thread_count + 1 THEN w
                            ELSE IF i \in DOMAIN pool.threads THEN pool.threads[i] ELSE NULL],
             !.spawn_cv = pool.spawn_cv \cup {c}]
        /\ Block(c, "spawn_wait", t, pool.thread_count + 1)
        /\ task' = task
  BY DEF SpawnWorker
<1>2. /\ pool \in PoolRecords /\ pool.thread_count \in Nat
      /\ pool.threads \in Seq(Workers \cup {NULL})
      /\ pool.spawn_cv \in SUBSET Clients
  BY DEF PoolInvariant, TypeOK, PoolRecords
<1> DEFINE threads == [i \in 1..(pool.thread_count + 1) |->
                            IF i = pool.thread_count + 1 THEN w
                            ELSE IF i \in DOMAIN pool.threads THEN pool.threads[i] ELSE NULL]
<1>3. threads \in Seq(Workers \cup {NULL})
  <2>1. \A i \in DOMAIN pool.threads : pool.threads[i] \in Workers \cup {NULL}
    BY <1>2
  <2>2. \A i \in 1..(pool.thread_count + 1) :
          (IF i = pool.thread_count + 1 THEN w
           ELSE IF i \in DOMAIN pool.threads THEN pool.threads[i] ELSE NULL)
             \in Workers \cup {NULL}
    BY <2>1
  <2>3. threads \in [1..(pool.thread_count + 1) -> Workers \cup {NULL}]
    BY <2>2
  <2>4. QED
    BY <1>2, <2>3
<1>4. pool' = [pool EXCEPT !.threads = threads, !.spawn_cv = pool.spawn_cv \cup {c}]
  BY <1>1
<1> HIDE DEF threads
<1>5. pool' \in PoolRecords
  BY <1>2, <1>3, <1>4 DEF PoolRecords
<1>6. SamePending /\ pool'.mutex = pool.mutex /\ pool'.alive = pool.alive
  BY <1>2, <1>4 DEF PoolRecords, SamePending
<1>7. Caller(c, "spawn_wait", t)
  BY <1>1, <1>2, Blocked DEF ClientPCs
<1>8. /\ worker' \in [Workers -> WorkerRecords]
      /\ MovesTo(w, "spawned")
  <2>1. worker[w] \in WorkerRecords /\ worker \in [Workers -> WorkerRecords]
    BY DEF PoolInvariant, TypeOK
  <2>2. worker' = [worker EXCEPT ![w] = [worker[w] EXCEPT !.pc = "spawned",
                                                          !.idx = pool.thread_count]]
    BY <1>1, <2>1
  <2>3. LET spawned == [worker[w] EXCEPT !.pc = "spawned", !.idx = pool.thread_count]
        IN  /\ spawned \in WorkerRecords
            /\ spawned.pc = "spawned"
            /\ spawned.task = worker[w].task
    BY <1>2, <2>1 DEF WorkerRecords, WorkerPCs
  <2>4. QED
    BY <2>1, <2>2, <2>3 DEF MovesTo
<1>9. TypeOK'
  BY <1>1, <1>5, <1>7, <1>8 DEF PoolInvariant, TypeOK, Caller
<1>10. \A v \in Workers : SameHold(v)
  BY <1>1, <1>8 DEF SameHold, HasTask, MovesTo
<1>11. SamePlaces /\ SameRuns
  BY <1>1, <1>6, <1>8, <1>10, SameTasks DEF SameTask, MovesTo
<1>12. MutexHeld'
  BY <1>1, <1>6, <1>8, ConstantsAssumption DEF PoolInvariant, MutexHeld, HasPoolMutex, MovesTo
<1>13. WorkersRefer'
  BY <1>1, <1>8 DEF PoolInvariant, WorkersRefer, HasTask, MovesTo
<1>14. t # NULL
  BY ConstantsAssumption
<1>15. CallsOnTasks'
  BY <1>1, <1>7, <1>14, Calls
<1>16. NothingToRun'
  BY <1>6, <1>7 DEF NothingToRun, Caller
<1>17. QED
  BY <1>9, <1>11, <1>12, <1>13, <1>15, <1>16, Places, Runs DEF PoolInvariant

(* Putting a task into the list preserves the invariant: it was in no list *)
(* and no worker had it.                                                   *)
LEMMA Enqueued ==
  ASSUME PoolInvariant, NEW c \in Clients, NEW t \in Tasks, Enqueue(c, t),
         pool.alive,
         task[t].alive, ~task[t].is_detached, ~task[t].pool,
         \A d \in Clients \ {c} : client[d].task # t,
         \A d \in Clients : client[d].pc # "pool_join"
  PROVE  PoolInvariant'
<1> DEFINE list == pool.pending_task_list
<1>1. Caller(c, "idle", NULL) /\ worker' = worker
  BY Returned DEF Enqueue, Codes
<1>2. ~Unfinished(t) /\ t \notin Range(list) /\ ~Held(t)
  BY DEF PoolInvariant, TaskInOnePlace, Unfinished, Pushed
<1>3. pool \in PoolRecords /\ list \in Seq(Tasks) /\ IsInjective(list)
  BY DEF PoolInvariant, TypeOK, PoolRecords, TaskInOnePlace
<1>4. /\ <<t>> \o list \in Seq(Tasks)
      /\ Len(<<t>> \o list) = Len(list) + 1
      /\ Range(<<t>> \o list) = Range(list) \cup {t}
      /\ IsInjective(<<t>> \o list)
  BY <1>2, <1>3, PushFront
<1>5. /\ pool' \in PoolRecords
      /\ pool'.pending_task_list = <<t>> \o list
      /\ pool'.pending_task_count = pool.pending_task_count + 1
      /\ pool'.running_task_count = pool.running_task_count
      /\ pool'.mutex = pool.mutex
      /\ pool'.alive = pool.alive
  <2>1. PICK rest \in Signal(pool.cv) :
          pool' = [pool EXCEPT !.pending_task_list = <<t>> \o list,
                               !.pending_task_count = pool.pending_task_count + 1,
                               !.cv = rest]
    BY DEF Enqueue
  <2>2. rest \in SUBSET Workers /\ pool.pending_task_count + 1 \in Nat
    BY <1>3 DEF PoolRecords, Signal
  <2>3. pool' \in PoolRecords
    BY <1>3, <1>4, <2>1, <2>2 DEF PoolRecords
  <2>4. /\ pool'.pending_task_list = <<t>> \o list
        /\ pool'.pending_task_count = pool.pending_task_count + 1
        /\ pool'.running_task_count = pool.running_task_count
        /\ pool'.mutex = pool.mutex
        /\ pool'.alive = pool.alive
    BY <1>3, <2>1 DEF PoolRecords
  <2>5. QED
    BY <2>3, <2>4
<1> DEFINE pushed == [task[t] EXCEPT !.push = 1 - task[t].push, !.exec = 0, !.pool = TRUE,
                                     !.is_finished = FALSE, !.is_running = FALSE]
<1>6. task[t] \in TaskRecords /\ task \in [Tasks -> TaskRecords]
  BY DEF PoolInvariant, TypeOK
<1>7. /\ pushed \in TaskRecords
      /\ pushed.alive = task[t].alive
      /\ pushed.is_detached = task[t].is_detached
      /\ pushed.pool
      /\ ~pushed.is_finished
      /\ pushed.exec = 0
  <2>1. 1 - task[t].push \in {0, 1}
    BY <1>6 DEF TaskRecords
  <2>2. QED
    BY <1>6, <2>1 DEF TaskRecords
<1>8. task' = [task EXCEPT ![t] = pushed]
  BY DEF Enqueue
<1> HIDE DEF list, pushed
<1>9. /\ task' \in [Tasks -> TaskRecords]
      /\ task'[t] = pushed
      /\ \A s \in Tasks : s # t => task'[s] = task[s]
  BY <1>6, <1>7, <1>8
<1>10. TypeOK'
  BY <1>1, <1>5, <1>9 DEF PoolInvariant, TypeOK, Caller
<1>11. \A v \in Workers : /\ HasTask(v)' <=> HasTask(v)
                          /\ HasPoolMutex(v)' <=> HasPoolMutex(v)
                          /\ worker'[v] = worker[v]
  BY <1>1 DEF HasTask, HasPoolMutex
<1>12. MutexHeld' /\ WorkersRefer'
  BY <1>5, <1>11 DEF PoolInvariant, MutexHeld, WorkersRefer
<1>13. \A d \in Clients : client[d].task \in Tasks \cup {NULL}
  BY DEF PoolInvariant, TypeOK, ClientRecords
<1>14. CallsOnTasks'
  BY <1>1, <1>9, <1>13, Calls
<1>15. TaskCountersExact'
  <2>1. BusyWorkers' = BusyWorkers
    BY <1>11 DEF BusyWorkers
  <2>2. QED
    BY <1>4, <1>5, <2>1 DEF PoolInvariant, TaskCountersExact, list
<1>16. TaskInOnePlace'
  <2>1. \A s \in Tasks : Held(s)' <=> Held(s)
    BY <1>11 DEF Held
  <2>2. \A s \in Tasks : Unfinished(s)' <=> (Unfinished(s) \/ s = t)
    BY <1>7, <1>9 DEF Unfinished, Pushed
  <2>3. \A s \in Tasks : Unfinished(s)' <=> (s \in Range(pool'.pending_task_list) \/ Held(s)')
    BY <1>4, <1>5, <2>1, <2>2 DEF PoolInvariant, TaskInOnePlace, list
  <2>4. \A v \in Workers : HasTask(v) => worker[v].task # t
    BY <1>2 DEF Held
  <2>5. \A v \in Workers : HasTask(v)' => worker'[v].task \notin Range(pool'.pending_task_list)
    BY <1>4, <1>5, <1>11, <2>4 DEF PoolInvariant, TaskInOnePlace, list
  <2>6. \A v, w \in Workers :
          HasTask(v)' /\ HasTask(w)' /\ worker'[v].task = worker'[w].task => v = w
    BY <1>11 DEF PoolInvariant, TaskInOnePlace
  <2>7. QED
    BY <1>4, <1>5, <2>3, <2>5, <2>6 DEF TaskInOnePlace
<1>17. RunOnce'
  <2>1. \A v \in Workers : HasTask(v)' =>
          task'[worker'[v].task].exec = IF worker'[v].pc = "taken" THEN 0 ELSE 1
    <3>1. \A v \in Workers : HasTask(v) => worker[v].task # t /\ worker[v].task \in Tasks
      BY <1>2, HeldIsUnfinished DEF Held
    <3>2. QED
      BY <1>9, <1>11, <3>1 DEF PoolInvariant, RunOnce
  <2>2. \A s \in Range(pool'.pending_task_list) : task'[s].exec = 0
    BY <1>4, <1>5, <1>7, <1>9, HeldIsUnfinished DEF PoolInvariant, RunOnce, list
  <2>3. \A s \in Tasks : task'[s].alive /\ task'[s].pool /\ task'[s].is_finished
          => task'[s].exec = 1 /\ task'[s].result = task'[s].push
    BY <1>7, <1>9 DEF PoolInvariant, RunOnce
  <2>4. QED
    BY <2>1, <2>2, <2>3 DEF RunOnce
<1>18. NothingToRun'
  BY <1>1, <1>5 DEF NothingToRun, Caller
<1>19. QED
  BY <1>10, <1>12, <1>14, <1>15, <1>16, <1>17, <1>18 DEF PoolInvariant

(* thread_pool_push_task preserves the invariant. *)
LEMMA ThreadPoolPushTaskStep ==
  ASSUME PoolInvariant, NEW c \in Clients, NEW t \in Tasks, ThreadPoolPushTask(c, t)
  PROVE  PoolInvariant'
<1>1. /\ pool.alive /\ pool.mutex = NULL
      /\ task[t].alive /\ ~task[t].is_detached /\ ~task[t].pool
      /\ \A d \in Clients : client[d].task # t
      /\ \A d \in Clients : client[d].pc # "pool_join"
  BY DEF ThreadPoolPushTask, MayUseTask, MayUsePool
<1>2. CASE Return(c, "TOO_MANY_TASKS") /\ UNCHANGED <<pool, task, worker>>
  BY <1>2, NothingDone DEF Codes
<1>3. CASE SpawnWorker(c, t)
  BY <1>1, <1>3, Spawned
<1>4. CASE Enqueue(c, t)
  BY <1>1, <1>4, Enqueued
<1>5. QED
  BY <1>2, <1>3, <1>4 DEF ThreadPoolPushTask

(* Waking up in thread_pool_push_task preserves the invariant. *)
LEMMA PushTaskWakeStep ==
  ASSUME PoolInvariant, NEW c \in Clients, PushTaskWake(c)
  PROVE  PoolInvariant'
<1>1. client[c].pc = "spawn_wait"
  BY DEF PushTaskWake
<1>2. PICK t \in Tasks : /\ client[c].task = t
                         /\ task[t].alive /\ ~task[t].is_detached /\ ~task[t].pool
                         /\ \A d \in Clients \ {c} : client[d].task # t
  BY <1>1, Calling
<1>3. pool.alive /\ \A d \in Clients : client[d].pc # "pool_join"
  BY <1>1 DEF PoolInvariant, NothingToRun
<1>4. CASE /\ pool' = [pool EXCEPT !.spawn_cv = pool.spawn_cv \cup {c}]
           /\ UNCHANGED <<task, worker, client>>
  <2>1. pool \in PoolRecords
    BY DEF PoolInvariant, TypeOK
  <2>2. pool' \in PoolRecords
    BY <1>4, <2>1 DEF PoolRecords
  <2>3. SamePending /\ pool'.mutex = pool.mutex /\ pool'.alive = pool.alive
    BY <1>4, <2>1 DEF PoolRecords, SamePending
  <2>4. TypeOK'
    BY <1>4, <2>2 DEF PoolInvariant, TypeOK
  <2>5. SamePlaces /\ SameRuns /\ \A s \in Tasks : SameTask(s)
    BY <1>4, <2>3, SameTasks DEF SameTask, SameHold, HasTask
  <2>6. MutexHeld' /\ WorkersRefer'
    BY <1>4, <2>3 DEF PoolInvariant, MutexHeld, HasPoolMutex, WorkersRefer, HasTask
  <2>7. QED
    BY <1>4, <2>3, <2>4, <2>5, <2>6, QuietWorker
<1>5. CASE Enqueue(c, t)
  BY <1>2, <1>3, <1>5, Enqueued
<1>6. QED
  BY <1>2, <1>4, <1>5 DEF PushTaskWake

-----------------------------------------------------------------------------
(* The invariant holds initially. *)
LEMMA InitInvariant ==
  ASSUME Init
  PROVE  PoolInvariant
<1>1. TypeOK
  <2>1. IdleClient \in ClientRecords
    BY DEF IdleClient, ClientRecords, ClientPCs, Codes
  <2>2. QED
    BY <2>1, IdleTypes DEF Init, TypeOK
<1>2. \A w \in Workers : worker[w].pc = "none"
  BY DEF Init, NoWorker
<1>3. \A c \in Clients : client[c].pc = "idle" /\ client[c].task = NULL
  BY DEF Init, IdleClient
<1>4. \A t \in Tasks : ~task[t].alive
  BY DEF Init, FreeTask
<1>5. /\ pool.mutex = NULL /\ pool.pending_task_list = <<>>
      /\ pool.pending_task_count = 0 /\ pool.running_task_count = 0
  BY DEF Init, NoPool
<1>6. \A w \in Workers : ~HasTask(w) /\ ~HasPoolMutex(w)
  BY <1>2 DEF HasTask, HasPoolMutex
<1>7. Range(pool.pending_task_list) = {}
  BY <1>5 DEF Range
<1>8. MutexHeld
  BY <1>5, <1>6, ConstantsAssumption DEF MutexHeld
<1>9. WorkersRefer /\ CallsOnTasks
  BY <1>2, <1>3, <1>6 DEF WorkersRefer, CallsOnTasks
<1>10. TaskCountersExact
  <2>1. BusyWorkers = {}
    BY <1>6 DEF BusyWorkers
  <2>2. QED
    BY <1>5, <2>1, FS_EmptySet DEF TaskCountersExact
<1>11. TaskInOnePlace
  <2>1. IsInjective(pool.pending_task_list)
    BY <1>5 DEF IsInjective
  <2>2. QED
    BY <1>4, <1>6, <1>7, <2>1 DEF TaskInOnePlace, Unfinished, Pushed, Held
<1>12. RunOnce
  BY <1>4, <1>6, <1>7 DEF RunOnce
<1>13. NothingToRun
  BY <1>3, <1>5, <1>6 DEF NothingToRun
<1>14. QED
  BY <1>1, <1>8, <1>9, <1>10, <1>11, <1>12, <1>13 DEF PoolInvariant

(* A step that changes nothing preserves the invariant. *)
LEMMA StutterInvariant ==
  ASSUME PoolInvariant, UNCHANGED vars
  PROVE  PoolInvariant'
<1>1. pool' = pool /\ task' = task /\ worker' = worker /\ client' = client
  BY DEF vars
<1>2. SamePlaces /\ SameRuns /\ \A s \in Tasks : SameTask(s)
  BY <1>1, SameTasks DEF SamePending, SameTask, SameHold, HasTask
<1>3. TypeOK' /\ MutexHeld' /\ WorkersRefer'
  BY <1>1 DEF PoolInvariant, TypeOK, MutexHeld, HasPoolMutex, WorkersRefer, HasTask
<1>4. QED
  BY <1>1, <1>2, <1>3, QuietWorker

(* Every step preserves the invariant. *)
LEMMA NextInvariant ==
  ASSUME PoolInvariant, [Next]_vars
  PROVE  PoolInvariant'
<1>1. CASE UNCHANGED vars
  BY <1>1, StutterInvariant
<1>2. ASSUME NEW w \in Workers, WorkerStep(w)
      PROVE  PoolInvariant'
  BY <1>2, WorkerStartStep, WorkerWaitStep, WorkerWakeStep, WorkerExitStep,
     WorkerTakeStep, WorkerExecuteStep, WorkerLockPoolStep, WorkerFinishStep,
     WorkerUnlockTaskStep DEF WorkerStep
<1>3. ASSUME NEW c \in Clients, ClientStep(c)
      PROVE  PoolInvariant'
  BY <1>3, PushTaskWakeStep, PoolDeleteJoinStep, JoinWakeStep,
     TimedJoinExpireStep, TimedJoinTimeoutStep, StutterInvariant
     DEF ClientStep, TimedJoinSpin
<1>4. ASSUME NEW c \in Clients, ClientCall(c)
      PROVE  PoolInvariant'
  BY <1>4, ThreadPoolNewStep, ThreadPoolDeleteStep, ThreadTaskNewStep,
     ThreadPoolPushTaskStep, ThreadTaskJoinStep, ThreadTaskTimedJoinStep,
     ThreadTaskDeleteStep, ThreadTaskDetachStep DEF ClientCall
<1>5. CASE SpuriousWakeup
  BY <1>5, SpuriousWakeupStep
<1>6. QED
  BY <1>1, <1>2, <1>3, <1>4, <1>5 DEF Next

(* Whatever the numbers of clients, workers and tasks, and whatever the    *)
(* limits of the pool, PoolInvariant always holds: types, mutual           *)
(* exclusion, exact counters of tasks, one place for every task, one run   *)
(* for every push.                                                         *)
THEOREM PoolInvariantHolds == Spec => []PoolInvariant
BY InitInvariant, NextInvariant, PTL DEF Spec

(* Every field keeps its type; no counter of tasks or threads ever falls   *)
(* below 0 (thread_pool.c:79, 93).                                         *)
THEOREM TypeCorrect == Spec => []TypeOK
BY PoolInvariantHolds, PTL DEF PoolInvariant

(* A pushed task is never lost and never in the hands of two workers, and  *)
(* neither the list nor a worker refers to a freed task.                   *)
THEOREM TasksInOnePlace == Spec => []TaskInOnePlace
BY PoolInvariantHolds, PTL DEF PoolInvariant

-----------------------------------------------------------------------------
(* What a join returns.                                                    *)

(* t leaves the pool, and neither by its deletion nor by a detachment. *)
Leaves(t) ==
  /\ task[t].alive /\ task[t].pool
  /\ task'[t].alive /\ ~task'[t].pool /\ ~task'[t].is_detached

(* t has run once and a client gets the result. *)
Delivers(t) ==
  /\ task[t].exec = 1
  /\ \E c \in Clients : /\ client[c].task \in {t, NULL}
                        /\ client'[c] = [IdleClient EXCEPT !.result = task[t].push]

(* A task that leaves the pool by a join has run once, and its joiner gets *)
(* the result of that run.                                                 *)
LEMMA TakeResultDelivers ==
  ASSUME PoolInvariant, NEW c \in Clients, NEW s \in Tasks, TakeResult(c, s),
         client[c].task \in {s, NULL},
         NEW t \in Tasks, Leaves(t)
  PROVE  Delivers(t)
<1>1. t = s
  BY DEF TakeResult, Leaves, PoolInvariant, TypeOK
<1>2. task[s].exec = 1 /\ task[s].result = task[s].push
  BY <1>1 DEF TakeResult, Leaves, PoolInvariant, RunOnce
<1>3. client'[c] = [IdleClient EXCEPT !.result = task[s].push]
  BY <1>2 DEF TakeResult, ReturnResult, PoolInvariant, TypeOK
<1>4. QED
  BY <1>1, <1>2, <1>3 DEF Delivers

(* An update of one task that keeps its pool field, frees it or detaches   *)
(* it is not the end of a join.                                            *)
LEMMA TasksStay ==
  ASSUME PoolInvariant, NEW t \in Tasks, Leaves(t), NEW s \in Tasks, NEW r,
         task' = [task EXCEPT ![s] = r],
         r.pool = task[s].pool \/ ~r.alive \/ r.is_detached \/ ~task[s].pool
  PROVE  FALSE
BY DEF Leaves, PoolInvariant, TypeOK

(* A task leaves the pool only by a join that gets its result. *)
LEMMA NextDelivers ==
  ASSUME PoolInvariant, [Next]_vars, NEW t \in Tasks, Leaves(t)
  PROVE  Delivers(t)
<1>1. task' # task
  BY DEF Leaves
<1>2. ASSUME NEW w \in Workers, WorkerStep(w)
      PROVE  FALSE
  <2>1. CASE WorkerExecute(w)
    <3>1. PICK s \in Tasks : s = worker[w].task
      BY <2>1, HeldIsUnfinished DEF WorkerExecute, HasTask
    <3>2. task[s] \in TaskRecords
      BY DEF PoolInvariant, TypeOK
    <3>3. \A n : [task[s] EXCEPT !.is_running = TRUE, !.exec = n].pool = task[s].pool
      BY <3>2 DEF TaskRecords
    <3>4. \E n : task' = [task EXCEPT ![s] = [task[s] EXCEPT !.is_running = TRUE, !.exec = n]]
      BY <2>1, <3>1 DEF WorkerExecute
    <3>5. QED
      BY <3>3, <3>4, TasksStay
  <2>2. CASE WorkerFinish(w)
    <3>1. PICK s \in Tasks : s = worker[w].task
      BY <2>2, HeldIsUnfinished DEF WorkerFinish, HasTask
    <3>2. PICK r : /\ task' = [task EXCEPT ![s] = r]
                   /\ r.pool = task[s].pool \/ ~r.alive
      <4>1. CASE task[s].is_detached
        <5>1. task' = [task EXCEPT ![s] = FreeTask]
          BY <2>2, <3>1, <4>1, FinishUpdates
        <5>2. ~FreeTask.alive
          BY DEF FreeTask
        <5>3. QED
          BY <5>1, <5>2
      <4>2. CASE ~task[s].is_detached
        <5>1. PICK rest \in Signal(task[s].cv) :
                task' = [task EXCEPT ![s] = Finished(task[s], rest, w)]
          BY <2>2, <3>1, <4>2, FinishUpdates
        <5>2. Finished(task[s], rest, w).pool = task[s].pool
          BY FinishedFields DEF PoolInvariant, TypeOK
        <5>3. QED
          BY <5>1, <5>2
      <4>3. QED
        BY <4>1, <4>2
    <3>3. QED
      BY <3>2, TasksStay
  <2>3. CASE WorkerUnlockTask(w)
    <3>1. SameTask(t)
      BY <2>3 DEF WorkerUnlockTask, PoolInvariant, TypeOK, TaskRecords, SameTask
    <3>2. QED
      BY <3>1 DEF SameTask, Leaves
  <2>4. QED
    BY <1>1, <1>2, <2>1, <2>2, <2>3 DEF WorkerStep, WorkerStart, WorkerWait,
       WorkerWake, WorkerExit, WorkerTake, WorkerLockPool
<1>3. ASSUME NEW c \in Clients, NEW s \in Tasks, Enqueue(c, s), ~task[s].pool
      PROVE  FALSE
  BY <1>3, TasksStay DEF Enqueue
<1>4. ASSUME NEW c \in Clients, NEW s \in Tasks, NEW pc, SleepOnTask(c, s, pc)
      PROVE  FALSE
  <2>1. SameTask(t)
    BY <1>4 DEF SleepOnTask, PoolInvariant, TypeOK, TaskRecords, SameTask
  <2>2. QED
    BY <2>1 DEF SameTask, Leaves
<1>5. ASSUME NEW c \in Clients, ClientStep(c)
      PROVE  Delivers(t)
  <2>1. CASE PushTaskWake(c)
    <3>1. client[c].task \in Tasks /\ ~task[client[c].task].pool
      BY <2>1, Calling DEF PushTaskWake
    <3>2. QED
      BY <1>1, <1>3, <2>1, <3>1 DEF PushTaskWake
  <2>2. CASE JoinWake(c)
    <3>1. client[c].task \in Tasks
      BY <2>2, Calling DEF JoinWake
    <3>2. QED
      BY <1>4, <2>2, <3>1, TakeResultDelivers DEF JoinWake
  <2>3. CASE TimedJoinExpire(c)
    <3>1. SameTask(t)
      BY <2>3 DEF TimedJoinExpire, PoolInvariant, TypeOK, TaskRecords, SameTask
    <3>2. QED
      BY <3>1 DEF SameTask, Leaves
  <2>4. QED
    BY <1>1, <1>5, <2>1, <2>2, <2>3 DEF ClientStep, PoolDeleteJoin,
       TimedJoinTimeout, TimedJoinSpin, vars
<1>6. ASSUME NEW c \in Clients, ClientCall(c)
      PROVE  Delivers(t)
  <2>1. ASSUME NEW s \in Tasks, MayUseTask(c, s)
        PROVE  client[c].task = NULL
    BY <2>1 DEF MayUseTask, PoolInvariant, CallsOnTasks
  <2>2. ASSUME NEW s \in Tasks, ThreadTaskNew(c, s)
        PROVE  FALSE
    <3>1. ~task[s].alive /\ \E r : task' = [task EXCEPT ![s] = r]
      BY <2>2 DEF ThreadTaskNew
    <3>2. QED
      BY <3>1 DEF Leaves, PoolInvariant, TypeOK
  <2>3. ASSUME NEW s \in Tasks, ThreadPoolPushTask(c, s)
        PROVE  FALSE
    BY <1>1, <1>3, <2>3 DEF ThreadPoolPushTask, SpawnWorker
  <2>4. ASSUME NEW s \in Tasks, ThreadTaskJoin(c, s)
        PROVE  Delivers(t)
    BY <1>1, <1>4, <2>1, <2>4, TakeResultDelivers DEF ThreadTaskJoin, NotPushed
  <2>5. ASSUME NEW s \in Tasks, NEW d \in Timeouts, ThreadTaskTimedJoin(c, s, d)
        PROVE  Delivers(t)
    <3>1. CASE task' = [task EXCEPT ![s].mutex = c]
      <4>1. SameTask(t)
        BY <3>1 DEF PoolInvariant, TypeOK, TaskRecords, SameTask
      <4>2. QED
        BY <4>1 DEF SameTask, Leaves
    <3>2. QED
      BY <1>1, <1>4, <2>1, <2>5, <3>1, TakeResultDelivers DEF ThreadTaskTimedJoin, NotPushed
  <2>6. ASSUME NEW s \in Tasks, ThreadTaskDelete(c, s)
        PROVE  FALSE
    <3>1. ~FreeTask.alive
      BY DEF FreeTask
    <3>2. QED
      BY <1>1, <2>6, <3>1, TasksStay DEF ThreadTaskDelete
  <2>7. ASSUME NEW s \in Tasks, ThreadTaskDetach(c, s)
        PROVE  FALSE
    <3>1. task[s] \in TaskRecords
      BY DEF PoolInvariant, TypeOK
    <3>2. /\ ~FreeTask.alive
          /\ [task[s] EXCEPT !.pool = FALSE, !.is_detached = TRUE].is_detached
      BY <3>1 DEF FreeTask, TaskRecords
    <3>3. QED
      BY <1>1, <2>7, <3>2, TasksStay DEF ThreadTaskDetach, NotPushed
  <2>8. QED
    BY <1>1, <1>6, <2>2, <2>3, <2>4, <2>5, <2>6, <2>7 DEF ClientCall,
       ThreadPoolNew, ThreadPoolDelete
<1>7. CASE SpuriousWakeup
  <2>1. SameTask(t)
    BY <1>7 DEF SpuriousWakeup, PoolInvariant, TypeOK, TaskRecords, SameTask
  <2>2. QED
    BY <2>1 DEF SameTask, Leaves
<1>8. QED
  BY <1>1, <1>2, <1>5, <1>6, <1>7 DEF Next, vars

(* Every join that takes a task out of the pool hands out the result of    *)
(* the push being joined, whose function ran exactly once.                 *)
THEOREM JoinsDeliver == Spec => JoinDelivers
<1>1. PoolInvariant /\ [Next]_vars =>
        [\A t \in Tasks :
           /\ task[t].alive /\ task[t].pool
           /\ task'[t].alive /\ ~task'[t].pool /\ ~task'[t].is_detached
           => /\ task[t].exec = 1
              /\ \E c \in Clients : /\ client[c].task \in {t, NULL}
                                    /\ client'[c] = [IdleClient EXCEPT
                                                       !.result = task[t].push]]_vars
  BY NextDelivers DEF Leaves, Delivers
<1>2. QED
  BY <1>1, PoolInvariantHolds, PTL DEF Spec, JoinDelivers

-----------------------------------------------------------------------------
(* The pool implements the life cycle of tasks.                            *)

(* The stage of a task follows from where it is. *)
LEMMA StageOf ==
  ASSUME NEW t \in Tasks
  PROVE  /\ ~task[t].alive => stage[t] = "absent"
         /\ task[t].alive /\ ~Pushed(t) => stage[t] = "ready"
         /\ Pushed(t) /\ task[t].is_finished => stage[t] = "done"
         /\ Unfinished(t) /\ ~Held(t) /\ ~task[t].is_detached => stage[t] = "pending"
         /\ Unfinished(t) /\ ~Held(t) /\ task[t].is_detached => stage[t] = "detached pending"
         /\ Unfinished(t) /\ Held(t) /\ ~task[t].is_detached => stage[t] = "running"
         /\ Unfinished(t) /\ Held(t) /\ task[t].is_detached => stage[t] = "detached running"
<1> DEFINE p == Pushed(t)
           f == task[t].is_finished
           a == task[t].alive
           u == Unfinished(t)
<1>1. stage[t] = CASE ~a -> "absent"
                   [] a /\ ~p -> "ready"
                   [] p /\ f -> "done"
                   [] u -> IF Held(t)
                           THEN IF task[t].is_detached THEN "detached running" ELSE "running"
                           ELSE IF task[t].is_detached THEN "detached pending" ELSE "pending"
  BY DEF stage, Stage
<1>2. (p => a) /\ (u <=> p /\ ~f)
  BY DEF Pushed, Unfinished
<1> HIDE DEF p, f, a, u
<1>3. /\ ~a => stage[t] = "absent"
      /\ a /\ ~p => stage[t] = "ready"
      /\ p /\ f => stage[t] = "done"
      /\ u /\ ~Held(t) /\ ~task[t].is_detached => stage[t] = "pending"
      /\ u /\ ~Held(t) /\ task[t].is_detached => stage[t] = "detached pending"
      /\ u /\ Held(t) /\ ~task[t].is_detached => stage[t] = "running"
      /\ u /\ Held(t) /\ task[t].is_detached => stage[t] = "detached running"
  BY <1>1, <1>2
<1> QED
  BY <1>3 DEF p, f, a, u

(* The fields on which the stage of a task depends. *)
SameStatus(t) ==
  /\ task'[t].alive <=> task[t].alive
  /\ task'[t].pool <=> task[t].pool
  /\ task'[t].is_detached <=> task[t].is_detached
  /\ task'[t].is_finished <=> task[t].is_finished

(* A task whose fields stay, and which no worker takes or lets go of,      *)
(* stays at its stage.                                                     *)
LEMMA StageStays ==
  ASSUME NEW t \in Tasks, SameStatus(t), Held(t)' <=> Held(t)
  PROVE  stage'[t] = stage[t]
<1> DEFINE a == task[t].alive
           d == task[t].is_detached
           f == task[t].is_finished
           p == Pushed(t)
           u == Unfinished(t)
           h == Held(t)
           At(b, q, g, v, k, e) ==
             CASE ~b -> "absent"
               [] b /\ ~q -> "ready"
               [] q /\ g -> "done"
               [] v -> IF k THEN IF e THEN "detached running" ELSE "running"
                       ELSE IF e THEN "detached pending" ELSE "pending"
<1>1. (a' <=> a) /\ (d' <=> d) /\ (f' <=> f) /\ (h' <=> h)
  BY DEF SameStatus
<1>2. (p' <=> p) /\ (u' <=> u) /\ (p => a) /\ (u <=> p /\ ~f)
  BY DEF SameStatus, Pushed, Unfinished
<1>3. stage[t] = At(a, p, f, u, h, d) /\ stage'[t] = At(a', p', f', u', h', d')
  BY DEF stage, Stage
<1> HIDE DEF a, d, f, p, u, h
<1> QED
  BY <1>1, <1>2, <1>3

(* A step that leaves every task at its stage and the pool there or not    *)
(* there is none of the life cycle.                                        *)
LEMMA StageStutters ==
  ASSUME \A t \in Tasks : stage'[t] = stage[t], pool'.alive = pool.alive
  PROVE  UNCHANGED <<stage, pool.alive>>
<1>1. \A t \in Tasks : Stage(t)' = Stage(t)
  BY DEF stage
<1>2. stage' = stage
  BY <1>1, Zenon DEF stage
<1> QED
  BY <1>2

(* A step that moves one task from one stage to another. *)
LEMMA StageMoves ==
  ASSUME NEW t \in Tasks, \A s \in Tasks : s # t => stage'[s] = stage[s],
         NEW from, NEW to, stage[t] = from, stage'[t] = to,
         pool'.alive = pool.alive
  PROVE  Lifecycle!Move(t, from, to)
<1>1. stage \in [Tasks -> {Stage(s) : s \in Tasks}]
  BY DEF stage
<1>2. stage' \in [Tasks -> {Stage(s)' : s \in Tasks}]
  BY DEF stage
<1>3. stage' = [stage EXCEPT ![t] = to]
  BY <1>1, <1>2
<1> QED
  BY <1>3 DEF Lifecycle!Move

(* Initially there are no tasks and no pool. *)
LEMMA LifecycleStarts ==
  ASSUME Init
  PROVE  Lifecycle!LifecycleInit
<1>1. \A t \in Tasks : stage[t] = "absent"
  BY StageOf DEF Init, FreeTask
<1>2. stage \in [Tasks -> {Stage(s) : s \in Tasks}]
  BY DEF stage
<1>3. stage = [t \in Tasks |-> "absent"]
  BY <1>1, <1>2
<1>4. pool.alive = FALSE
  BY DEF Init, NoPool
<1> QED
  BY <1>3, <1>4 DEF Lifecycle!LifecycleInit

(* What every step has to be: one of the life cycle, or none. *)
LifecycleStep == [Lifecycle!LifecycleNext]_<<stage, pool.alive>>

(* A step that leaves the status of tasks and the hands of workers alone   *)
(* is none of the life cycle.                                              *)
LEMMA LifecycleRests ==
  ASSUME \A t \in Tasks : SameStatus(t), \A v \in Workers : SameHold(v),
         pool'.alive = pool.alive
  PROVE  LifecycleStep
<1>1. \A t \in Tasks : Held(t)' <=> Held(t)
  BY DEF Held, SameHold
<1>2. \A t \in Tasks : stage'[t] = stage[t]
  BY <1>1, StageStays
<1> QED
  BY <1>2, StageStutters DEF LifecycleStep

(* A step of one task. *)
LEMMA LifecycleMoves ==
  ASSUME NEW t \in Tasks,
         \/ Lifecycle!Create(t) \/ Lifecycle!Delete(t) \/ Lifecycle!Push(t)
         \/ Lifecycle!Start(t) \/ Lifecycle!Finish(t) \/ Lifecycle!Join(t)
         \/ Lifecycle!Detach(t)
  PROVE  LifecycleStep
BY DEF LifecycleStep, Lifecycle!LifecycleNext

(* A worker that neither takes nor reports a task takes no step of the     *)
(* life cycle.                                                             *)
LEMMA WorkerRests ==
  ASSUME PoolInvariant, NEW w \in Workers,
         \/ WorkerStart(w) \/ WorkerWait(w) \/ WorkerWake(w) \/ WorkerExit(w)
         \/ WorkerLockPool(w) \/ WorkerExecute(w) \/ WorkerUnlockTask(w)
  PROVE  LifecycleStep
<1>1. pool \in PoolRecords /\ task \in [Tasks -> TaskRecords] /\ worker \in [Workers -> WorkerRecords]
  BY DEF PoolInvariant, TypeOK
<1>2. pool'.alive = pool.alive
  BY <1>1 DEF WorkerStart, WorkerWait, WorkerWake, WorkerExit, WorkerLockPool,
     WorkerExecute, WorkerUnlockTask, PoolRecords
<1>3. \A v \in Workers : SameHold(v)
  <2>1. CASE WorkerUnlockTask(w)
    BY <1>1, <2>1 DEF WorkerUnlockTask, WorkerRecords, SameHold, HasTask
  <2>2. CASE ~WorkerUnlockTask(w)
    <3>1. PICK pc \in WorkerPCs :
            /\ worker' = [worker EXCEPT ![w].pc = pc]
            /\ pc \in {"taken", "lock_pool", "lock_task"} <=> HasTask(w)
      BY <2>2 DEF WorkerStart, WorkerWait, WorkerWake, WorkerExit, WorkerLockPool,
         WorkerExecute, HasTask, WorkerPCs
    <3>2. MovesTo(w, pc)
      BY <3>1, WorkerMoved
    <3> QED
      BY <3>1, <3>2 DEF MovesTo, SameHold, HasTask
  <2> QED
    BY <2>1, <2>2
<1>4. \A t \in Tasks : SameStatus(t)
  <2>1. CASE WorkerUnlockTask(w)
    BY <1>1, <2>1 DEF WorkerUnlockTask, TaskRecords, SameStatus
  <2>2. CASE WorkerExecute(w)
    BY <1>1, <2>2 DEF WorkerExecute, TaskRecords, SameStatus
  <2>3. CASE task' = task
    BY <2>3 DEF SameStatus
  <2> QED
    BY <2>1, <2>2, <2>3 DEF WorkerStart, WorkerWait, WorkerWake, WorkerExit, WorkerLockPool
<1> QED
  BY <1>2, <1>3, <1>4, LifecycleRests

(* What stage a step leaves a task at. *)
LEMMA StageBecomes ==
  ASSUME NEW t \in Tasks
  PROVE  /\ ~task'[t].alive => stage'[t] = "absent"
         /\ task'[t].alive /\ ~Pushed(t)' => stage'[t] = "ready"
         /\ Pushed(t)' /\ task'[t].is_finished => stage'[t] = "done"
         /\ Unfinished(t)' /\ ~Held(t)' /\ ~task'[t].is_detached => stage'[t] = "pending"
         /\ Unfinished(t)' /\ ~Held(t)' /\ task'[t].is_detached => stage'[t] = "detached pending"
         /\ Unfinished(t)' /\ Held(t)' /\ ~task'[t].is_detached => stage'[t] = "running"
         /\ Unfinished(t)' /\ Held(t)' /\ task'[t].is_detached => stage'[t] = "detached running"
<1> DEFINE p == Pushed(t)'
           f == task'[t].is_finished
           a == task'[t].alive
           u == Unfinished(t)'
           h == Held(t)'
           d == task'[t].is_detached
<1>1. stage'[t] = CASE ~a -> "absent"
                    [] a /\ ~p -> "ready"
                    [] p /\ f -> "done"
                    [] u -> IF h
                            THEN IF d THEN "detached running" ELSE "running"
                            ELSE IF d THEN "detached pending" ELSE "pending"
  BY DEF stage, Stage
<1>2. (p => a) /\ (u <=> p /\ ~f)
  BY DEF Pushed, Unfinished
<1> HIDE DEF p, f, a, u, h, d
<1>3. /\ ~a => stage'[t] = "absent"
      /\ a /\ ~p => stage'[t] = "ready"
      /\ p /\ f => stage'[t] = "done"
      /\ u /\ ~h /\ ~d => stage'[t] = "pending"
      /\ u /\ ~h /\ d => stage'[t] = "detached pending"
      /\ u /\ h /\ ~d => stage'[t] = "running"
      /\ u /\ h /\ d => stage'[t] = "detached running"
  BY <1>1, <1>2
<1> QED
  BY <1>3 DEF p, f, a, u, h, d

(* Taking a task from the list is its start. *)
LEMMA TakeStarts ==
  ASSUME PoolInvariant, NEW w \in Workers, WorkerTake(w)
  PROVE  LifecycleStep
<1>1. /\ pool.pending_task_list \in Seq(Tasks) /\ pool.pending_task_list # <<>>
      /\ IsInjective(pool.pending_task_list)
  BY DEF PoolInvariant, TypeOK, PoolRecords, TaskCountersExact, TaskInOnePlace, WorkerTake
<1>2. PICK t \in Tasks : t = Head(pool.pending_task_list) /\ t \in Range(pool.pending_task_list)
  BY <1>1, PopFront
<1>3. /\ worker[w].pc = "check"
      /\ \A v \in Workers :
           /\ worker'[v].pc = IF v = w THEN "taken" ELSE worker[v].pc
           /\ worker'[v].task = IF v = w THEN t ELSE worker[v].task
      /\ task' = task
      /\ pool'.alive = pool.alive
  BY <1>2 DEF PoolInvariant, TypeOK, WorkerRecords, PoolRecords, WorkerTake
<1>4. Unfinished(t) /\ ~Held(t)
  BY <1>2 DEF PoolInvariant, TaskInOnePlace, Held
<1>5. /\ ~HasTask(w)
      /\ \A v \in Workers : HasTask(v)' <=> (v = w \/ HasTask(v))
  BY <1>3 DEF HasTask
<1>6. \A s \in Tasks : Held(s)' <=> (Held(s) \/ s = t)
  BY <1>2, <1>3, <1>5 DEF Held
<1>7. \A s \in Tasks : SameStatus(s)
  BY <1>3 DEF SameStatus
<1>8. \A s \in Tasks : s # t => stage'[s] = stage[s]
  BY <1>6, <1>7, StageStays
<1>9. Unfinished(t)' /\ Held(t)' /\ task'[t] = task[t]
  BY <1>3, <1>4, <1>6 DEF Unfinished, Pushed
<1>10. CASE ~task[t].is_detached
  <2>1. stage[t] = "pending" /\ stage'[t] = "running"
    BY <1>4, <1>9, <1>10, StageOf, StageBecomes
  <2> QED
    BY <1>3, <1>8, <2>1, StageMoves, LifecycleMoves DEF Lifecycle!Start
<1>11. CASE task[t].is_detached
  <2>1. stage[t] = "detached pending" /\ stage'[t] = "detached running"
    BY <1>4, <1>9, <1>11, StageOf, StageBecomes
  <2> QED
    BY <1>3, <1>8, <2>1, StageMoves, LifecycleMoves DEF Lifecycle!Start
<1> QED
  BY <1>10, <1>11

(* The report of a task is its end. *)
LEMMA FinishEnds ==
  ASSUME PoolInvariant, NEW w \in Workers, WorkerFinish(w)
  PROVE  LifecycleStep
<1>1. /\ worker[w].pc = "lock_task"
      /\ MovesTo(w, "unlock_task")
      /\ pool'.alive = pool.alive
  <2>1. /\ worker[w].pc = "lock_task"
        /\ worker' = [worker EXCEPT ![w].pc = "unlock_task"]
        /\ pool'.alive = pool.alive
    BY DEF WorkerFinish, PoolInvariant, TypeOK, PoolRecords
  <2> QED
    BY <2>1, WorkerMoved DEF WorkerPCs
<1>2. PICK t \in Tasks : worker[w].task = t /\ HasTask(w) /\ Unfinished(t)
  BY <1>1, HeldIsUnfinished DEF HasTask
<1>3. \/ task[t].is_detached /\ task' = [task EXCEPT ![t] = FreeTask]
      \/ /\ ~task[t].is_detached
         /\ \E rest \in Signal(task[t].cv) :
              task' = [task EXCEPT ![t] = Finished(task[t], rest, w)]
  BY <1>2, FinishUpdates
<1>4. task \in [Tasks -> TaskRecords] /\ task[t] \in TaskRecords
  BY DEF PoolInvariant, TypeOK
<1>5. \A v \in Workers : HasTask(v)' <=> (v # w /\ HasTask(v))
  BY <1>1 DEF HasTask, MovesTo
<1>6. \A v \in Workers : v # w /\ HasTask(v) => worker[v].task # t
  BY <1>2 DEF PoolInvariant, TaskInOnePlace
<1>7. Held(t) /\ \A s \in Tasks : Held(s)' <=> (Held(s) /\ s # t)
  BY <1>1, <1>2, <1>5, <1>6 DEF Held, MovesTo
<1>8. \A s \in Tasks : s # t => SameStatus(s)
  BY <1>3, <1>4 DEF SameStatus
<1>9. \A s \in Tasks : s # t => stage'[s] = stage[s]
  BY <1>7, <1>8, StageStays
<1>10. CASE ~task[t].is_detached
  <2>1. PICK rest \in Signal(task[t].cv) :
          task' = [task EXCEPT ![t] = Finished(task[t], rest, w)]
    BY <1>3, <1>10
  <2>2. task'[t] = Finished(task[t], rest, w)
    BY <1>4, <2>1
  <2>3. /\ task'[t].alive = task[t].alive /\ task'[t].pool = task[t].pool
        /\ task'[t].is_detached = task[t].is_detached /\ task'[t].is_finished
    BY <1>4, <2>2, FinishedFields
  <2>4. Pushed(t)'
    BY <1>2, <2>3 DEF Unfinished, Pushed
  <2>5. stage[t] = "running" /\ stage'[t] = "done"
    BY <1>2, <1>7, <1>10, <2>3, <2>4, StageOf, StageBecomes
  <2> QED
    BY <1>1, <1>9, <2>5, StageMoves, LifecycleMoves DEF Lifecycle!Finish
<1>11. CASE task[t].is_detached
  <2>1. ~task'[t].alive
    BY <1>3, <1>4, <1>11 DEF FreeTask
  <2>2. stage[t] = "detached running" /\ stage'[t] = "absent"
    BY <1>2, <1>7, <1>11, <2>1, StageOf, StageBecomes
  <2> QED
    BY <1>1, <1>9, <2>2, StageMoves, LifecycleMoves DEF Lifecycle!Finish
<1> QED
  BY <1>10, <1>11

(* A step of a client that changes one task. *)
LEMMA OneTask ==
  ASSUME NEW t \in Tasks, worker' = worker, \A s \in Tasks : s # t => SameStatus(s)
  PROVE  /\ Held(t)' <=> Held(t)
         /\ \A s \in Tasks : s # t => stage'[s] = stage[s]
<1>1. \A s \in Tasks : Held(s)' <=> Held(s)
  BY DEF Held, HasTask
<1> QED
  BY <1>1, StageStays

(* A call that changes no status takes no step of the life cycle. *)
LEMMA CallRests ==
  ASSUME worker' = worker, pool'.alive = pool.alive, \A t \in Tasks : SameStatus(t)
  PROVE  LifecycleStep
<1>1. \A v \in Workers : SameHold(v)
  BY DEF SameHold, HasTask
<1> QED
  BY <1>1, LifecycleRests

(* So does one that changes nothing but the client. *)
LEMMA NothingRests ==
  ASSUME worker' = worker, pool' = pool, task' = task
  PROVE  LifecycleStep
BY CallRests DEF SameStatus

(* thread_task_new creates a task. *)
LEMMA NewCreates ==
  ASSUME PoolInvariant, NEW c \in Clients, NEW t \in Tasks, ThreadTaskNew(c, t)
  PROVE  LifecycleStep
<1>1. /\ pool' = pool /\ worker' = worker
      /\ task' = [task EXCEPT ![t] = [FreeTask EXCEPT !.alive = TRUE]] /\ ~task[t].alive
      /\ task \in [Tasks -> TaskRecords]
  BY DEF ThreadTaskNew, PoolInvariant, TypeOK
<1>2. \A s \in Tasks : s # t => SameStatus(s)
  BY <1>1 DEF SameStatus
<1>3. task'[t].alive /\ ~task'[t].pool /\ ~task'[t].is_detached
  BY <1>1 DEF FreeTask
<1>4. stage[t] = "absent" /\ stage'[t] = "ready"
  BY <1>1, <1>3, StageOf, StageBecomes DEF Pushed
<1> QED
  BY <1>1, <1>2, <1>4, OneTask, StageMoves, LifecycleMoves DEF Lifecycle!Create

(* Taking the result of a task out of the pool is its join. *)
LEMMA TakeResultJoins ==
  ASSUME PoolInvariant, NEW c \in Clients, NEW t \in Tasks, TakeResult(c, t),
         pool' = pool, worker' = worker,
         task[t].alive, ~task[t].is_detached, task[t].pool
  PROVE  LifecycleStep
<1>1. /\ task' = [task EXCEPT ![t].pool = FALSE] /\ task[t].is_finished
      /\ task \in [Tasks -> TaskRecords] /\ task[t] \in TaskRecords
  BY DEF TakeResult, PoolInvariant, TypeOK
<1>2. \A s \in Tasks : s # t => SameStatus(s)
  BY <1>1 DEF SameStatus
<1>3. task'[t].alive /\ ~task'[t].pool /\ ~task'[t].is_detached
  BY <1>1 DEF TaskRecords
<1>4. stage[t] = "done" /\ stage'[t] = "ready"
  BY <1>1, <1>3, StageOf, StageBecomes DEF Pushed
<1> QED
  BY <1>1, <1>2, <1>4, OneTask, StageMoves, LifecycleMoves DEF Lifecycle!Join

(* Going to sleep on a task is no step of its life. *)
LEMMA SleepRests ==
  ASSUME PoolInvariant, NEW c \in Clients, NEW t \in Tasks, NEW pc, SleepOnTask(c, t, pc),
         pool' = pool, worker' = worker
  PROVE  LifecycleStep
<1>1. \A s \in Tasks : SameStatus(s)
  BY DEF SleepOnTask, PoolInvariant, TypeOK, TaskRecords, SameStatus
<1> QED
  BY <1>1, CallRests

(* thread_task_join joins the task or takes no step of its life. *)
LEMMA JoinFollows ==
  ASSUME PoolInvariant, NEW c \in Clients, NEW t \in Tasks, ThreadTaskJoin(c, t)
  PROVE  LifecycleStep
<1>1. /\ pool' = pool /\ worker' = worker
      /\ task[t].alive /\ ~task[t].is_detached
  BY DEF ThreadTaskJoin, MayUseTask
<1> QED
  BY <1>1, NothingRests, TakeResultJoins, SleepRests DEF ThreadTaskJoin, NotPushed

(* So does thread_task_timed_join. *)
LEMMA TimedJoinFollows ==
  ASSUME PoolInvariant, NEW c \in Clients, NEW t \in Tasks, NEW timeout \in Timeouts,
         ThreadTaskTimedJoin(c, t, timeout)
  PROVE  LifecycleStep
<1>1. /\ pool' = pool /\ worker' = worker
      /\ task[t].alive /\ ~task[t].is_detached
  BY DEF ThreadTaskTimedJoin, MayUseTask
<1>2. CASE task' = [task EXCEPT ![t].mutex = c]
  <2>1. \A s \in Tasks : SameStatus(s)
    BY <1>2 DEF PoolInvariant, TypeOK, TaskRecords, SameStatus
  <2> QED
    BY <1>1, <2>1, CallRests
<1> QED
  BY <1>1, <1>2, NothingRests, TakeResultJoins, SleepRests DEF ThreadTaskTimedJoin, NotPushed

(* The rest of a join that slept does the same. *)
LEMMA JoinWakeFollows ==
  ASSUME PoolInvariant, NEW c \in Clients, JoinWake(c)
  PROVE  LifecycleStep
<1>1. PICK t \in Tasks : /\ client[c].task = t
                         /\ task[t].alive /\ ~task[t].is_detached /\ task[t].pool
  BY Calling DEF JoinWake
<1>2. pool' = pool /\ worker' = worker
  BY DEF JoinWake
<1> QED
  BY <1>1, <1>2, TakeResultJoins, SleepRests DEF JoinWake

(* A timed join that gives up is no step of the task's life. *)
LEMMA ExpireRests ==
  ASSUME PoolInvariant, NEW c \in Clients,
         TimedJoinExpire(c) \/ TimedJoinTimeout(c) \/ TimedJoinSpin(c)
  PROVE  LifecycleStep
<1>1. pool' = pool /\ worker' = worker
  BY DEF TimedJoinExpire, TimedJoinTimeout, TimedJoinSpin, vars
<1>2. \A s \in Tasks : SameStatus(s)
  BY DEF TimedJoinExpire, TimedJoinTimeout, TimedJoinSpin, vars,
     PoolInvariant, TypeOK, TaskRecords, SameStatus
<1> QED
  BY <1>1, <1>2, CallRests

(* thread_task_delete deletes a task that is not in the pool. *)
LEMMA DeleteFollows ==
  ASSUME PoolInvariant, NEW c \in Clients, NEW t \in Tasks, ThreadTaskDelete(c, t)
  PROVE  LifecycleStep
<1>1. /\ pool' = pool /\ worker' = worker
      /\ task[t].alive /\ ~task[t].is_detached
      /\ task \in [Tasks -> TaskRecords]
  BY DEF ThreadTaskDelete, MayUseTask, PoolInvariant, TypeOK
<1>2. CASE task' = task
  BY <1>1, <1>2, NothingRests
<1>3. CASE ~task[t].pool /\ task' = [task EXCEPT ![t] = FreeTask]
  <2>1. \A s \in Tasks : s # t => SameStatus(s)
    BY <1>1, <1>3 DEF SameStatus
  <2>2. ~task'[t].alive
    BY <1>1, <1>3 DEF FreeTask
  <2>3. stage[t] = "ready" /\ stage'[t] = "absent"
    BY <1>1, <1>3, <2>2, StageOf, StageBecomes DEF Pushed
  <2> QED
    BY <1>1, <2>1, <2>3, OneTask, StageMoves, LifecycleMoves DEF Lifecycle!Delete
<1> QED
  BY <1>2, <1>3 DEF ThreadTaskDelete

(* thread_task_detach detaches a task that runs or is to run, and deletes  *)
(* a finished one.                                                         *)
LEMMA DetachFollows ==
  ASSUME PoolInvariant, NEW c \in Clients, NEW t \in Tasks, ThreadTaskDetach(c, t)
  PROVE  LifecycleStep
<1>1. /\ pool' = pool /\ worker' = worker
      /\ task[t].alive /\ ~task[t].is_detached
      /\ task \in [Tasks -> TaskRecords] /\ task[t] \in TaskRecords
  BY DEF ThreadTaskDetach, MayUseTask, PoolInvariant, TypeOK
<1>2. CASE NotPushed(c, t)
  BY <1>1, <1>2, NothingRests DEF NotPushed
<1>3. CASE /\ task[t].pool /\ task[t].is_finished
           /\ task' = [task EXCEPT ![t] = FreeTask]
  <2>1. \A s \in Tasks : s # t => SameStatus(s)
    BY <1>1, <1>3 DEF SameStatus
  <2>2. ~task'[t].alive
    BY <1>1, <1>3 DEF FreeTask
  <2>3. stage[t] = "done" /\ stage'[t] = "absent"
    BY <1>1, <1>3, <2>2, StageOf, StageBecomes DEF Pushed
  <2> QED
    BY <1>1, <2>1, <2>3, OneTask, StageMoves, LifecycleMoves DEF Lifecycle!Detach
<1>4. CASE /\ task[t].pool /\ ~task[t].is_finished
           /\ task' = [task EXCEPT ![t] = [task[t] EXCEPT !.pool = FALSE, !.is_detached = TRUE]]
  <2>1. \A s \in Tasks : s # t => SameStatus(s)
    BY <1>1, <1>4 DEF SameStatus
  <2>2. task'[t].alive /\ task'[t].is_detached /\ ~task'[t].is_finished
    BY <1>1, <1>4 DEF TaskRecords
  <2>3. Unfinished(t) /\ Unfinished(t)'
    BY <1>1, <1>4, <2>2 DEF Unfinished, Pushed
  <2>4. Held(t)' <=> Held(t)
    BY <1>1, <2>1, OneTask
  <2>5. CASE Held(t)
    <3>1. stage[t] = "running" /\ stage'[t] = "detached running"
      BY <1>1, <2>2, <2>3, <2>4, <2>5, StageOf, StageBecomes
    <3> QED
      BY <1>1, <2>1, <3>1, OneTask, StageMoves, LifecycleMoves DEF Lifecycle!Detach
  <2>6. CASE ~Held(t)
    <3>1. stage[t] = "pending" /\ stage'[t] = "detached pending"
      BY <1>1, <2>2, <2>3, <2>4, <2>6, StageOf, StageBecomes
    <3> QED
      BY <1>1, <2>1, <3>1, OneTask, StageMoves, LifecycleMoves DEF Lifecycle!Detach
  <2> QED
    BY <2>5, <2>6
<1> QED
  BY <1>2, <1>3, <1>4 DEF ThreadTaskDetach

(* Linking a task into the list is its push. *)
LEMMA EnqueuePushes ==
  ASSUME PoolInvariant, NEW c \in Clients, NEW t \in Tasks, Enqueue(c, t),
         pool.alive, task[t].alive, ~task[t].is_detached, ~task[t].pool
  PROVE  LifecycleStep
<1>1. /\ worker' = worker
      /\ \E p \in {0, 1} :
           task' = [task EXCEPT ![t] =
                      [task[t] EXCEPT !.push = p, !.exec = 0, !.pool = TRUE,
                                      !.is_finished = FALSE, !.is_running = FALSE]]
      /\ task \in [Tasks -> TaskRecords] /\ task[t] \in TaskRecords
  <2>1. task \in [Tasks -> TaskRecords] /\ task[t] \in TaskRecords
    BY DEF PoolInvariant, TypeOK
  <2>2. 1 - task[t].push \in {0, 1}
    BY <2>1 DEF TaskRecords
  <2> QED
    BY <2>1, <2>2 DEF Enqueue
<1>2. pool'.alive = pool.alive
  BY DEF Enqueue, PoolInvariant, TypeOK, PoolRecords
<1>3. \A s \in Tasks : s # t => SameStatus(s)
  BY <1>1 DEF SameStatus
<1>4. /\ task'[t].alive /\ ~task'[t].is_detached
      /\ task'[t].pool /\ ~task'[t].is_finished
  BY <1>1 DEF TaskRecords
<1>5. ~Pushed(t) /\ Unfinished(t)'
  BY <1>4 DEF Unfinished, Pushed
<1>6. ~Held(t) /\ ~Held(t)'
  <2>1. ~Held(t)
    BY <1>5 DEF PoolInvariant, TaskInOnePlace, Unfinished
  <2> QED
    BY <1>1, <1>3, <2>1, OneTask
<1>7. stage[t] = "ready" /\ stage'[t] = "pending"
  BY <1>4, <1>5, <1>6, StageOf, StageBecomes
<1>8. Lifecycle!Move(t, "ready", "pending")
  BY <1>1, <1>2, <1>3, <1>7, OneTask, StageMoves
<1> QED
  BY <1>8, LifecycleMoves DEF Lifecycle!Push

(* Creating a worker is no step of the life of a task. *)
LEMMA SpawnRests ==
  ASSUME PoolInvariant, NEW c \in Clients, NEW t \in Tasks, SpawnWorker(c, t)
  PROVE  LifecycleStep
<1>1. PICK w \in Workers :
        /\ worker[w].pc = "none"
        /\ worker' = [worker EXCEPT ![w].pc = "spawned", ![w].idx = pool.thread_count]
        /\ pool'.alive = pool.alive
        /\ task' = task
  BY DEF SpawnWorker, PoolInvariant, TypeOK, PoolRecords
<1>2. \A v \in Workers : SameHold(v)
  BY <1>1 DEF PoolInvariant, TypeOK, WorkerRecords, SameHold, HasTask
<1>3. \A s \in Tasks : SameStatus(s)
  BY <1>1 DEF SameStatus
<1> QED
  BY <1>1, <1>2, <1>3, LifecycleRests

(* thread_pool_push_task pushes the task or creates a worker. *)
LEMMA PushFollows ==
  ASSUME PoolInvariant, NEW c \in Clients, NEW t \in Tasks, ThreadPoolPushTask(c, t)
  PROVE  LifecycleStep
<1>1. pool.alive /\ task[t].alive /\ ~task[t].is_detached /\ ~task[t].pool
  BY DEF ThreadPoolPushTask, MayUseTask, MayUsePool
<1> QED
  BY <1>1, NothingRests, SpawnRests, EnqueuePushes DEF ThreadPoolPushTask

(* The rest of a push that slept pushes the task or sleeps again. *)
LEMMA PushWakeFollows ==
  ASSUME PoolInvariant, NEW c \in Clients, PushTaskWake(c)
  PROVE  LifecycleStep
<1>1. client[c].pc = "spawn_wait"
  BY DEF PushTaskWake
<1>2. PICK t \in Tasks : /\ client[c].task = t
                         /\ task[t].alive /\ ~task[t].is_detached /\ ~task[t].pool
  BY <1>1, Calling
<1>3. pool.alive
  BY <1>1 DEF PoolInvariant, NothingToRun
<1>4. CASE /\ pool' = [pool EXCEPT !.spawn_cv = pool.spawn_cv \cup {c}]
           /\ UNCHANGED <<task, worker, client>>
  <2>1. pool'.alive = pool.alive
    BY <1>4 DEF PoolInvariant, TypeOK, PoolRecords
  <2> QED
    BY <1>4, <2>1, CallRests DEF SameStatus
<1> QED
  BY <1>2, <1>3, <1>4, EnqueuePushes DEF PushTaskWake

(* A call that changes the pool and no task or worker's hands, leaves      *)
(* every task at its stage.                                                *)
LEMMA PoolCallStages ==
  ASSUME task' = task, \A v \in Workers : SameHold(v)
  PROVE  stage' = stage
<1>1. \A t \in Tasks : Held(t)' <=> Held(t)
  BY DEF Held, SameHold
<1>2. \A t \in Tasks : stage'[t] = stage[t]
  BY <1>1, StageStays DEF SameStatus
<1>3. \A t \in Tasks : Stage(t)' = Stage(t)
  BY <1>2 DEF stage
<1> QED
  BY <1>3, Zenon DEF stage

(* thread_pool_new opens the pool. *)
LEMMA NewOpens ==
  ASSUME PoolInvariant, NEW c \in Clients, NEW n \in MaxThreadCounts, ThreadPoolNew(c, n)
  PROVE  LifecycleStep
<1>1. task' = task /\ worker' = worker /\ ~pool.alive
  BY DEF ThreadPoolNew
<1>2. CASE UNCHANGED pool
  BY <1>1, <1>2, NothingRests
<1>3. CASE pool' = [NoPool EXCEPT !.alive = TRUE, !.max_thread_count = n]
  <2>1. pool'.alive = TRUE
    BY <1>3 DEF NoPool
  <2>2. stage' = stage
    BY <1>1, PoolCallStages DEF SameHold, HasTask
  <2> QED
    BY <1>1, <2>1, <2>2 DEF LifecycleStep, Lifecycle!LifecycleNext, Lifecycle!Open
<1> QED
  BY <1>2, <1>3 DEF ThreadPoolNew

(* Freeing the pool closes it, when there is nothing to run. *)
LEMMA FreeCloses ==
  ASSUME PoolInvariant, pool' = NoPool, task' = task,
         pool.pending_task_count = 0, \A v \in Workers : ~HasTask(v) /\ ~HasTask(v)'
  PROVE  LifecycleStep
<1>1. stage' = stage
  BY PoolCallStages DEF SameHold
<1>2. \A t \in Tasks : ~Unfinished(t)
  <2>1. Range(pool.pending_task_list) = {}
    BY EmptyPool DEF Range
  <2> QED
    BY <2>1 DEF PoolInvariant, TaskInOnePlace, Held
<1>3. \A t \in Tasks : stage[t] \in {"absent", "ready", "done"}
  BY <1>2, StageOf DEF Unfinished, Pushed
<1>4. pool'.alive = FALSE /\ pool.alive \in BOOLEAN
  BY DEF NoPool, PoolInvariant, TypeOK, PoolRecords
<1>5. CASE pool.alive
  BY <1>1, <1>3, <1>4, <1>5 DEF LifecycleStep, Lifecycle!LifecycleNext, Lifecycle!Close
<1>6. CASE ~pool.alive
  BY <1>1, <1>4, <1>6 DEF LifecycleStep
<1> QED
  BY <1>5, <1>6

(* thread_pool_delete closes the pool or takes no step of the life cycle. *)
LEMMA PoolDeleteFollows ==
  ASSUME PoolInvariant, NEW c \in Clients, ThreadPoolDelete(c)
  PROVE  LifecycleStep
<1>1. task' = task /\ worker' = worker
  BY DEF ThreadPoolDelete
<1>2. CASE UNCHANGED pool
  BY <1>1, <1>2, NothingRests
<1>3. CASE ~PoolBusy /\ pool' = NoPool
  <2>1. /\ pool.pending_task_count = 0
        /\ \A v \in Workers : ~HasTask(v) /\ ~HasTask(v)'
    BY <1>1, <1>3, NotRunning DEF HasTask
  <2> QED
    BY <1>1, <1>3, <2>1, FreeCloses
<1>4. CASE TellToExit(c, 0)
  <2>1. pool'.alive = pool.alive
    BY <1>4, ToldToExit
  <2> QED
    BY <1>1, <2>1, CallRests DEF SameStatus
<1> QED
  BY <1>2, <1>3, <1>4 DEF ThreadPoolDelete

(* So does the rest of it. *)
LEMMA PoolDeleteJoinFollows ==
  ASSUME PoolInvariant, NEW c \in Clients, PoolDeleteJoin(c)
  PROVE  LifecycleStep
<1>1. /\ client[c].pc = "pool_join" /\ client[c].n \in Nat
      /\ task' = task
  BY DEF PoolDeleteJoin, PoolInvariant, TypeOK, ClientRecords
<1>2. PICK x : worker' = [worker EXCEPT ![x] = NoWorker]
  BY DEF PoolDeleteJoin
<1>3. /\ pool.pending_task_count = 0
      /\ \A v \in Workers : ~HasTask(v)
  BY <1>1 DEF PoolInvariant, NothingToRun
<1>4. \A v \in Workers : ~HasTask(v)'
  BY <1>2, <1>3 DEF HasTask, PoolInvariant, TypeOK, NoWorker
<1>5. CASE TellToExit(c, client[c].n + 1)
  <2>1. pool'.alive = pool.alive
    BY <1>1, <1>5, ToldToExit
  <2> QED
    BY <1>1, <1>3, <1>4, <2>1, LifecycleRests DEF SameStatus, SameHold
<1>6. CASE pool' = NoPool
  BY <1>1, <1>3, <1>4, <1>6, FreeCloses
<1> QED
  BY <1>5, <1>6 DEF PoolDeleteJoin

(* A spurious wakeup is no step of the life cycle. *)
LEMMA SpuriousRests ==
  ASSUME PoolInvariant, SpuriousWakeup
  PROVE  LifecycleStep
<1>1. worker' = worker /\ pool'.alive = pool.alive
  BY DEF SpuriousWakeup, PoolInvariant, TypeOK, PoolRecords
<1>2. \A s \in Tasks : SameStatus(s)
  BY DEF SpuriousWakeup, PoolInvariant, TypeOK, TaskRecords, SameStatus
<1> QED
  BY <1>1, <1>2, CallRests

(* Every step of the pool's threads is one of the life cycle, or none. *)
LEMMA NextFollows ==
  ASSUME PoolInvariant, [Next]_vars
  PROVE  LifecycleStep
<1>1. CASE UNCHANGED vars
  BY <1>1, NothingRests DEF vars
<1>2. ASSUME NEW w \in Workers, WorkerStep(w)
      PROVE  LifecycleStep
  BY <1>2, WorkerRests, TakeStarts, FinishEnds DEF WorkerStep
<1>3. ASSUME NEW c \in Clients, ClientStep(c)
      PROVE  LifecycleStep
  BY <1>3, PushWakeFollows, PoolDeleteJoinFollows, JoinWakeFollows, ExpireRests DEF ClientStep
<1>4. ASSUME NEW c \in Clients, ClientCall(c)
      PROVE  LifecycleStep
  BY <1>4, NewOpens, PoolDeleteFollows, NewCreates, PushFollows, JoinFollows,
     TimedJoinFollows, DeleteFollows, DetachFollows DEF ClientCall
<1>5. CASE SpuriousWakeup
  BY <1>5, SpuriousRests
<1> QED
  BY <1>1, <1>2, <1>3, <1>4, <1>5 DEF Next

(* Whatever the threads do, in whatever order, what becomes of a task is   *)
(* what thread_pool.h promises: one start for each push, a result only     *)
(* from a run that has ended, no task left to run in a pool that goes.     *)
THEOREM PoolImplementsLifecycle == Spec => ImplementsLifecycle
<1>1. Init => Lifecycle!LifecycleInit
  BY LifecycleStarts
<1>2. PoolInvariant /\ [Next]_vars => [Lifecycle!LifecycleNext]_<<stage, pool.alive>>
  BY NextFollows DEF LifecycleStep
<1> QED
  BY <1>1, <1>2, PoolInvariantHolds, PTL
     DEF Spec, ImplementsLifecycle, Lifecycle!LifecycleSpec, Lifecycle!lifecycleVars
=============================================================================
