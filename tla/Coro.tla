-------------------------------- MODULE Coro --------------------------------
(***************************************************************************)
(* The coroutine library of src/homework-01/libcoro.c.                     *)
(*                                                                         *)
(* One thread runs everything: the main program, which is the scheduler,   *)
(* and the coroutines.  A step is what the running one does up to a call   *)
(* of the library or up to the jump that gives control away.  How a stack  *)
(* is made for a coroutine (sigaltstack, the signal handler and its way    *)
(* back to the constructor) is left out: the library is entered and left   *)
(* there without another coroutine getting in.  So is switch_count, on     *)
(* which nothing depends.                                                  *)
(*                                                                         *)
(* libcoro.h does not keep a coroutine from calling coro_sched_wait, whose *)
(* flag is shared with the call of the main program: those of Waiters do.  *)
(***************************************************************************)
EXTENDS Integers, Sequences, Functions

CONSTANTS
  Coros,         \* the addresses that coroutines may be allocated at
  Waiters,       \* those of them that call coro_sched_wait themselves
  coro_sched,    \* the context of the scheduler
  NULL

ASSUME CoroAssumption ==
  /\ coro_sched \notin Coros
  /\ NULL \notin Coros \cup {coro_sched}
  /\ Waiters \subseteq Coros

VARIABLES
  coro_list,         \* the chain of next pointers from the head
  coro_this_ptr,     \* whose code runs
  is_sched_waiting,
  coro,              \* struct coro
  inside,            \* who has given control away inside coro_sched_wait
  exited,            \* the process has been ended in coro_body
  returned           \* what coro_sched_wait has returned and nobody deleted

vars == <<coro_list, coro_this_ptr, is_sched_waiting, coro, inside, exited, returned>>

(* life is history: the struct is not allocated yet, or allocated, or      *)
(* freed.                                                                  *)
NewCoro == [life |-> "none", is_finished |-> FALSE]

(* After coro_sched_init. *)
Init ==
  /\ coro_list = <<>>
  /\ coro_this_ptr = coro_sched
  /\ is_sched_waiting = FALSE
  /\ coro = [c \in Coros |-> NewCoro]
  /\ inside = {}
  /\ exited = FALSE
  /\ returned = {}

(* The one that has control is in code of its own, outside the library. *)
InOwnCode == ~exited /\ coro_this_ptr \notin inside

-----------------------------------------------------------------------------
(* The list.                                                               *)

(* coro_list_delete of the coroutine at place i *)
Unlinked(i) == SubSeq(coro_list, 1, i - 1) \o SubSeq(coro_list, i + 1, Len(coro_list))

(* The places of the list with a coroutine that has finished. *)
Finished == {i \in DOMAIN coro_list : coro[coro_list[i]].is_finished}

(* The next pointer of a coroutine in the list. *)
NextOf(c) ==
  LET i == CHOOSE i \in DOMAIN coro_list : coro_list[i] = c
  IN IF i = Len(coro_list) THEN NULL ELSE coro_list[i + 1]

-----------------------------------------------------------------------------
(* The scheduler.                                                          *)

(* Leaving coro_sched_wait.  The flag is reset behind the jump, so a call  *)
(* that has not given control away leaves it alone.                        *)
SchedLeaves ==
  /\ is_sched_waiting' = (is_sched_waiting /\ coro_this_ptr \notin inside)
  /\ inside' = inside \ {coro_this_ptr}
  /\ UNCHANGED <<coro_this_ptr, coro, exited>>

(* Variant: the coroutine that is returned stays in the list.              *)
SchedReturnsLinked(i) ==
  /\ returned' = returned \cup {coro_list[i]}
  /\ SchedLeaves
  /\ UNCHANGED coro_list

(* coro_sched_wait returns the coroutine at place i. *)
SchedReturns(i) ==
  /\ coro_list' = Unlinked(i)
  /\ returned' = returned \cup {coro_list[i]}
  /\ SchedLeaves

(* Variant: the flag is set before the loop and not again in it. *)
SchedYieldsFlagOnce ==
  /\ is_sched_waiting' = (coro_this_ptr \notin inside)
  /\ inside' = inside \cup {coro_this_ptr}
  /\ coro_this_ptr' = Head(coro_list)
  /\ UNCHANGED <<coro_list, coro, exited, returned>>

(* It gives control to the head of the list. *)
SchedYields ==
  /\ is_sched_waiting' = TRUE
  /\ inside' = inside \cup {coro_this_ptr}
  /\ coro_this_ptr' = Head(coro_list)
  /\ UNCHANGED <<coro_list, coro, exited, returned>>

(* Variant: only the head is looked at. *)
FoundInHead == {i \in Finished : i = 1}

(* The first coroutine of the list that has finished. *)
Found == {i \in Finished : \A j \in Finished : i <= j}

(* One turn of the loop of coro_sched_wait: when the main program or a     *)
(* coroutine calls it, and again whenever the caller gets control back.    *)
CoroSchedWait ==
  /\ ~exited
  /\ coro_this_ptr \in Waiters \cup {coro_sched}
  /\ \/ /\ coro_list = <<>>
        /\ SchedLeaves
        /\ UNCHANGED <<coro_list, returned>>
     \/ /\ coro_list # <<>>
        /\ \E i \in Found : SchedReturns(i)
     \/ /\ coro_list # <<>>
        /\ Found = {}
        /\ SchedYields

(* A coroutine that has been returned is deleted. *)
CoroDelete(c) ==
  /\ InOwnCode
  /\ c \in returned
  /\ coro' = [coro EXCEPT ![c].life = "freed"]
  /\ returned' = returned \ {c}
  /\ UNCHANGED <<coro_list, coro_this_ptr, is_sched_waiting, inside, exited>>

-----------------------------------------------------------------------------
(* Coroutines.                                                             *)

(* main or a coroutine creates one, where malloc finds memory: also where  *)
(* one has been freed.  It does not start.                                 *)
CoroNew(c) ==
  /\ InOwnCode
  /\ coro[c].life # "live"
  /\ coro' = [coro EXCEPT ![c] = [life |-> "live", is_finished |-> FALSE]]
  /\ coro_list' = <<c>> \o coro_list
  /\ UNCHANGED <<coro_this_ptr, is_sched_waiting, inside, exited, returned>>

(* Variants: control goes back to the scheduler at once; it goes beyond    *)
(* the end of the list.                                                    *)
YieldToScheduler(c) ==
  /\ InOwnCode
  /\ coro_this_ptr = c
  /\ coro_this_ptr' = coro_sched
  /\ UNCHANGED <<coro_list, is_sched_waiting, coro, inside, exited, returned>>

YieldBeyondEnd(c) ==
  /\ InOwnCode
  /\ coro_this_ptr = c
  /\ coro_this_ptr' = NextOf(c)
  /\ UNCHANGED <<coro_list, is_sched_waiting, coro, inside, exited, returned>>

(* Control goes to the next coroutine, or to the scheduler if there is     *)
(* none.                                                                   *)
CoroYield(c) ==
  /\ InOwnCode
  /\ coro_this_ptr = c
  /\ coro_this_ptr' = IF NextOf(c) = NULL THEN coro_sched ELSE NextOf(c)
  /\ UNCHANGED <<coro_list, is_sched_waiting, coro, inside, exited, returned>>

(* Variant: control goes on to the next coroutine. *)
FinishAndGoOn(c) ==
  /\ InOwnCode
  /\ coro_this_ptr = c
  /\ coro' = [coro EXCEPT ![c].is_finished = TRUE]
  /\ coro_this_ptr' = IF NextOf(c) = NULL THEN coro_sched ELSE NextOf(c)
  /\ UNCHANGED <<coro_list, is_sched_waiting, inside, exited, returned>>

(* The function of a coroutine returns: the end of coro_body. *)
CoroFinish(c) ==
  /\ InOwnCode
  /\ coro_this_ptr = c
  /\ coro' = [coro EXCEPT ![c].is_finished = TRUE]
  /\ IF is_sched_waiting
     THEN coro_this_ptr' = coro_sched /\ UNCHANGED exited
     ELSE exited' = TRUE /\ UNCHANGED coro_this_ptr
  /\ UNCHANGED <<coro_list, is_sched_waiting, inside, returned>>

Next ==
  \/ CoroSchedWait
  \/ \E c \in Coros :
       CoroDelete(c) \/ CoroNew(c) \/ CoroYield(c) \/ CoroFinish(c)

Spec == Init /\ [][Next]_vars

(* Coroutines do not run for ever without a yield, and main goes on        *)
(* calling coro_sched_wait (solution.c:287).                               *)
Fairness ==
  /\ WF_vars(CoroSchedWait)
  /\ \A c \in Coros : WF_vars(CoroYield(c) \/ CoroFinish(c))

FairSpec == Spec /\ Fairness

-----------------------------------------------------------------------------
(* Properties.                                                             *)

(* Every variable keeps the type of its declaration. *)
TypeOK ==
  /\ coro_list \in Seq(Coros)
  /\ coro_this_ptr \in Coros \cup {coro_sched}
  /\ is_sched_waiting \in BOOLEAN
  /\ coro \in [Coros -> [life : {"none", "live", "freed"}, is_finished : BOOLEAN]]
  /\ inside \subseteq Waiters \cup {coro_sched}
  /\ exited \in BOOLEAN
  /\ returned \subseteq Coros

(* The list holds every coroutine once from its creation until             *)
(* coro_sched_wait has returned it, and whatever is in the list or in the  *)
(* hands of the program has not been freed.                                *)
ListExact ==
  /\ IsInjective(coro_list)
  /\ Range(coro_list) \cap returned = {}
  /\ Range(coro_list) \cup returned = {c \in Coros : coro[c].life = "live"}

(* "Switch to another not finished coroutine" (libcoro.h:45): control      *)
(* never goes to a coroutine that has finished, whose frame is gone, nor   *)
(* to one that has left the list.                                          *)
UnfinishedRun ==
  coro_this_ptr # coro_sched =>
    /\ coro_this_ptr \in Range(coro_list)
    /\ ~exited => ~coro[coro_this_ptr].is_finished

(* A coroutine always has a place to return to (libcoro.c:179): whenever   *)
(* one has control, the main program has given it away inside              *)
(* coro_sched_wait, so that coro_sched.ctx is the frame of a call that is  *)
(* under way, and the flag says so, although coroutines that call          *)
(* coro_sched_wait themselves set and reset it as well (141-143); the      *)
(* process is never ended with "no place to return".                       *)
PlaceToReturn ==
  /\ ~exited
  /\ coro_this_ptr # coro_sched => is_sched_waiting /\ coro_sched \in inside

(* What coro_sched_wait returns has finished, and no finished coroutine is *)
(* kept back in the list when the program's own code runs.                 *)
FinishedReturned ==
  /\ \A c \in returned : coro[c].is_finished
  /\ InOwnCode => Finished = {}

(* A coroutine of the list that has not finished gets control, wherever it *)
(* is in the list and however the others yield and finish: a coroutine     *)
(* hands on to the next one in coro_yield (libcoro.c:116).  There are two  *)
(* exceptions.  A new coroutine is put before all others (56-60), and      *)
(* after every one that finishes the scheduler begins again at the head    *)
(* (141): coroutines that each create another and finish keep control      *)
(* among themselves.  So do those before a coroutine that is itself inside *)
(* coro_sched_wait, which sends control to the head whenever it gets it.   *)
GetsControl ==
  \/ []<><<\E d \in Coros : CoroNew(d)>>_vars
  \/ []<>(coro_this_ptr \in inside \ {coro_sched})
  \/ \A c \in Coros :
       c \in Range(coro_list) /\ ~coro[c].is_finished ~> coro_this_ptr = c
=============================================================================
