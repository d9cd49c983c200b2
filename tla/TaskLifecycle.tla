--------------------------- MODULE TaskLifecycle ---------------------------
(***************************************************************************)
(* What src/homework-04/thread_pool.h promises of tasks and of the pool,   *)
(* with no threads, locks or counters: a task is created, pushed, started  *)
(* once for each push, finished, and then joined, or it is detached and    *)
(* disappears by itself; a pool is deleted only with no task left to run.  *)
(***************************************************************************)
CONSTANT Tasks

VARIABLES
  stage,   \* where every task is in its life
  open     \* whether there is a pool

lifecycleVars == <<stage, open>>

Stages == {"absent", "ready", "pending", "running", "done",
           "detached pending", "detached running"}

TypeInvariant == stage \in [Tasks -> Stages] /\ open \in BOOLEAN

LifecycleInit == stage = [t \in Tasks |-> "absent"] /\ open = FALSE

Move(t, from, to) ==
  /\ stage[t] = from
  /\ stage' = [stage EXCEPT ![t] = to]
  /\ UNCHANGED open

Create(t) == Move(t, "absent", "ready")

(* thread_task_delete: never while the task is in the pool. *)
Delete(t) == Move(t, "ready", "absent")

(* thread_pool_push_task: a new task, or a joined one again. *)
Push(t) == open /\ Move(t, "ready", "pending")

(* A worker takes the task. *)
Start(t) ==
  \/ Move(t, "pending", "running")
  \/ Move(t, "detached pending", "detached running")

(* Its function has returned; nobody joins a detached task. *)
Finish(t) ==
  \/ Move(t, "running", "done")
  \/ Move(t, "detached running", "absent")

Join(t) == Move(t, "done", "ready")

Detach(t) ==
  \/ Move(t, "pending", "detached pending")
  \/ Move(t, "running", "detached running")
  \/ Move(t, "done", "absent")

Open == ~open /\ open' = TRUE /\ UNCHANGED stage

(* thread_pool_delete: only when nothing is left to run. *)
Close ==
  /\ open
  /\ \A t \in Tasks : stage[t] \in {"absent", "ready", "done"}
  /\ open' = FALSE
  /\ UNCHANGED stage

LifecycleNext ==
  \/ Open
  \/ Close
  \/ \E t \in Tasks :
       \/ Create(t) \/ Delete(t) \/ Push(t) \/ Start(t)
       \/ Finish(t) \/ Join(t) \/ Detach(t)

LifecycleSpec == LifecycleInit /\ [][LifecycleNext]_lifecycleVars
=============================================================================
