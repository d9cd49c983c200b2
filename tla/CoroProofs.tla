----------------------------- MODULE CoroProofs -----------------------------
(***************************************************************************)
(* Proofs about Coro: all its safety properties, for every set of          *)
(* coroutines, infinite ones included.  And proofs about MergeSort, which  *)
(* runs on it: that the sort is right for every pattern of yields.         *)
(*                                                                         *)
(* The properties of Coro rest on each other: control stays with live,     *)
(* unfinished coroutines because the one that finishes gives it to the     *)
(* scheduler, which returns that coroutine before it gives control away    *)
(* again.  Those of MergeSort rest on them: main goes on behind its loop   *)
(* when the list is empty, and then every coroutine has come to its end.   *)
(***************************************************************************)
EXTENDS MergeSort, DataTheorems, FiniteSetTheorems

(* coro_list_delete (libcoro.c:65-74) takes out one coroutine.             *)
LEMMA ListDelete ==
  ASSUME NEW S, coro_list \in Seq(S), IsInjective(coro_list), NEW i \in DOMAIN coro_list
  PROVE  /\ Unlinked(i) \in Seq(S)
         /\ Range(Unlinked(i)) = Range(coro_list) \ {coro_list[i]}
         /\ IsInjective(Unlinked(i))
<1>1. Unlinked(i) = RemoveAt(coro_list, i)
  BY DEF Unlinked, RemoveAt
<1>2. QED
  BY <1>1, RemoveFromList

(* The list holds what it is a list of. *)
LEMMA InList ==
  ASSUME NEW S, NEW s \in Seq(S)
  PROVE  Range(s) \subseteq S
<1>1. \A i \in DOMAIN s : s[i] \in S
  OBVIOUS
<1>2. QED
  BY <1>1 DEF Range

(* Places in the list are numbers, so that one can be the first. *)
LEMMA PlacesAreNumbers ==
  ASSUME NEW S, NEW s \in Seq(S)
  PROVE  DOMAIN s \subseteq Nat
<1>1. DOMAIN s = 1..Len(s) /\ Len(s) \in Nat
  OBVIOUS
<1>2. QED
  BY <1>1

(* If there is only one, it is the first. *)
LEMMA OneIsFirst ==
  ASSUME NEW T, T \subseteq Nat, \A i \in T : \A j \in T : i = j,
         {i \in T : \A j \in T : i <= j} = {}
  PROVE  T = {}
<1>1. \A i \in Nat : i <= i
  OBVIOUS
<1>2. \A i \in T : i <= i
  BY <1>1
<1>3. \A i \in T : \A j \in T : i <= j
  BY <1>2, Zenon
<1>4. QED
  BY <1>3, Zenon

(* Before coro_new nothing is in the list. *)
LEMMA NothingInEmpty == Range(<<>>) = {}
<1>1. DOMAIN <<>> = {}
  OBVIOUS
<1>2. QED
  BY <1>1 DEF Range

(* A sequence that is not empty has its head in it. *)
LEMMA HeadInList ==
  ASSUME NEW S, NEW s \in Seq(S), s # <<>>
  PROVE  Head(s) \in Range(s)
<1>1. 1 \in DOMAIN s /\ Head(s) = s[1]
  OBVIOUS
<1>2. QED
  BY <1>1 DEF Range

(* The next pointer leads to a coroutine of the list, or is NULL.          *)
LEMMA NextInList ==
  ASSUME coro_list \in Seq(Coros), NEW c \in Range(coro_list)
  PROVE  NextOf(c) \in Range(coro_list) \cup {NULL}
<1> DEFINE i == CHOOSE i \in DOMAIN coro_list : coro_list[i] = c
<1>1. i \in DOMAIN coro_list
  BY DEF Range
<1>2. CASE i = Len(coro_list)
  BY <1>2 DEF NextOf
<1>3. CASE i # Len(coro_list)
  <2>1. i + 1 \in DOMAIN coro_list
    BY <1>1, <1>3
  <2>2. NextOf(c) = coro_list[i + 1]
    BY <1>3 DEF NextOf
  <2>3. QED
    BY <2>1, <2>2 DEF Range
<1>4. QED
  BY <1>2, <1>3

-----------------------------------------------------------------------------
(* The inductive invariant.                                                *)

(* A coroutine that has control is in the list. *)
RunnerListed == coro_this_ptr # coro_sched => coro_this_ptr \in Range(coro_list)

(* There is at most one finished coroutine in the list, and it is there    *)
(* only until the scheduler, which has control, looks at the list.         *)
FinishedSoonReturned ==
  /\ \A c, d \in Range(coro_list) : coro[c].is_finished /\ coro[d].is_finished => c = d
  /\ (\E c \in Range(coro_list) : coro[c].is_finished) =>
       coro_this_ptr = coro_sched /\ coro_sched \in inside

(* A coroutine that was not created has not finished either. *)
NewUnfinished == \A c \in Coros : coro[c].life = "none" => ~coro[c].is_finished

CoroInvariant ==
  /\ TypeOK
  /\ ListExact
  /\ PlaceToReturn
  /\ RunnerListed
  /\ FinishedSoonReturned
  /\ NewUnfinished
  /\ \A c \in returned : coro[c].is_finished

(* After coro_sched_init. *)
LEMMA InitInvariant == Init => CoroInvariant
<1> SUFFICES ASSUME Init PROVE CoroInvariant
  OBVIOUS
<1>1. coro_list = <<>> /\ coro_list \in Seq(Coros) /\ Range(coro_list) = {}
  BY DEF Init, Range
<1>2. TypeOK
  BY <1>1 DEF Init, TypeOK, NewCoro
<1>3. ListExact
  BY <1>1 DEF Init, ListExact, IsInjective, NewCoro
<1>4. QED
  BY <1>1, <1>2, <1>3 DEF Init, CoroInvariant, PlaceToReturn, RunnerListed,
     FinishedSoonReturned, NewUnfinished, NewCoro

(* coro_sched_wait: there is at most one finished coroutine to return, and *)
(* only the scheduler finds it, so none is left when it goes to the        *)
(* program; with none the head runs, and the flag has been set for it.     *)
LEMMA SchedWaitStep ==
  ASSUME CoroInvariant, CoroSchedWait
  PROVE  CoroInvariant'
<1> USE DEF CoroInvariant, TypeOK
<1>1. CASE coro_list = <<>> /\ SchedLeaves /\ UNCHANGED <<coro_list, returned>>
  <2>1. Range(coro_list) = {}
    BY <1>1, NothingInEmpty
  <2>2. coro_this_ptr = coro_sched
    BY <2>1 DEF RunnerListed
  <2>3. QED
    BY <1>1, <2>1, <2>2 DEF SchedLeaves, ListExact, PlaceToReturn, RunnerListed,
       FinishedSoonReturned, NewUnfinished
<1>2. ASSUME NEW i \in Found, SchedReturns(i)
      PROVE  CoroInvariant'
  <2> DEFINE c == coro_list[i]
  <2>1. i \in DOMAIN coro_list /\ c \in Range(coro_list) /\ c \in Coros /\ coro[c].is_finished
    <3>1. i \in DOMAIN coro_list /\ coro[c].is_finished
      BY <1>2 DEF Found, Finished
    <3>2. c \in Range(coro_list)
      BY <3>1 DEF Range
    <3>3. QED
      BY <3>1, <3>2, InList
  <2>2. /\ coro_list' \in Seq(Coros)
        /\ Range(coro_list') = Range(coro_list) \ {c}
        /\ IsInjective(coro_list')
    BY <1>2, <2>1, ListDelete DEF SchedReturns, ListExact
  <2>3. TypeOK'
    BY <1>2, <2>1, <2>2 DEF SchedReturns, SchedLeaves
  <2> HIDE DEF c
  <2>4. returned' = returned \cup {c} /\ coro' = coro
    BY <1>2 DEF SchedReturns, SchedLeaves, c
  <2>8. coro_this_ptr = coro_sched
    BY <2>1 DEF FinishedSoonReturned
  <2>5. ListExact'
    BY <2>1, <2>2, <2>4 DEF ListExact
  <2>6. \A d \in Range(coro_list') : ~coro'[d].is_finished
    BY <2>1, <2>2, <2>4 DEF FinishedSoonReturned
  <2>7. QED
    BY <1>2, <2>1, <2>3, <2>4, <2>5, <2>6, <2>8 DEF SchedReturns, SchedLeaves,
       PlaceToReturn, RunnerListed, FinishedSoonReturned, NewUnfinished
<1>3. CASE coro_list # <<>> /\ Found = {} /\ SchedYields
  <2>1. \A c \in Range(coro_list) : ~coro[c].is_finished
    <3>1. ASSUME NEW i \in Finished, NEW j \in Finished
          PROVE  i = j
      <4>1. /\ i \in DOMAIN coro_list /\ j \in DOMAIN coro_list
            /\ coro_list[i] \in Range(coro_list) /\ coro_list[j] \in Range(coro_list)
            /\ coro[coro_list[i]].is_finished /\ coro[coro_list[j]].is_finished
        BY <3>1 DEF Finished, Range
      <4>2. QED
        BY <4>1 DEF FinishedSoonReturned, ListExact, IsInjective
    <3>2. Finished \subseteq Nat
      <4>1. coro_list \in Seq(Coros)
        OBVIOUS
      <4>2. DOMAIN coro_list \subseteq Nat
        BY <4>1, PlacesAreNumbers
      <4>3. QED
        BY <4>2 DEF Finished
    <3>3. Finished = {}
      BY <1>3, <3>1, <3>2, OneIsFirst DEF Found
    <3>4. QED
      BY <3>3 DEF Finished, Range
  <2>2. Head(coro_list) \in Range(coro_list) /\ Head(coro_list) \in Coros
    <3>1. coro_list \in Seq(Coros) /\ coro_list # <<>>
      BY <1>3
    <3>2. Head(coro_list) \in Range(coro_list)
      BY <3>1, HeadInList
    <3>3. QED
      BY <3>1, <3>2, InList
  <2>3. coro_sched \in inside'
    BY <1>3 DEF SchedYields, PlaceToReturn
  <2>4. TypeOK'
    BY <1>3, <2>2 DEF SchedYields, CoroSchedWait
  <2>5. ListExact'
    BY <1>3 DEF SchedYields, ListExact
  <2>6. QED
    BY <1>3, <2>1, <2>2, <2>3, <2>4, <2>5 DEF SchedYields, PlaceToReturn, RunnerListed,
       FinishedSoonReturned, NewUnfinished
<1>4. QED
  BY <1>1, <1>2, <1>3 DEF CoroSchedWait

(* coro_delete frees what is in the hands of the program. *)
LEMMA DeleteStep ==
  ASSUME CoroInvariant, NEW c \in Coros, CoroDelete(c)
  PROVE  CoroInvariant'
<1> USE DEF CoroInvariant, TypeOK, CoroDelete
<1>1. c \notin Range(coro_list)
  BY DEF ListExact
<1>2. /\ coro'[c].life = "freed" /\ coro'[c].is_finished = coro[c].is_finished
      /\ \A d \in Coros \ {c} : coro'[d] = coro[d]
  OBVIOUS
<1>3. TypeOK'
  OBVIOUS
<1>4. Range(coro_list) \subseteq Coros
  BY InList
<1>5. ListExact'
  BY <1>1, <1>2, <1>4 DEF ListExact
<1>6. QED
  BY <1>1, <1>2, <1>3, <1>4, <1>5 DEF PlaceToReturn, RunnerListed,
     FinishedSoonReturned, NewUnfinished

(* coro_new links an unfinished coroutine; whoever runs keeps control.     *)
LEMMA NewStep ==
  ASSUME CoroInvariant, NEW c \in Coros, CoroNew(c)
  PROVE  CoroInvariant'
<1> USE DEF CoroInvariant, TypeOK
<1>1. c \notin Range(coro_list) /\ c \notin returned
  BY DEF CoroNew, ListExact
<1>2. /\ coro_list' \in Seq(Coros)
      /\ Range(coro_list') = Range(coro_list) \cup {c}
      /\ IsInjective(coro_list')
  <2>1. coro_list' = <<c>> \o coro_list /\ coro_list \in Seq(Coros) /\ IsInjective(coro_list)
    BY DEF CoroNew, ListExact
  <2>2. /\ <<c>> \o coro_list \in Seq(Coros)
        /\ Range(<<c>> \o coro_list) = Range(coro_list) \cup {c}
        /\ IsInjective(<<c>> \o coro_list)
    BY <1>1, <2>1, PutFirst
  <2>3. QED
    BY <2>1, <2>2
<1>3. /\ coro'[c].life = "live" /\ ~coro'[c].is_finished
      /\ \A d \in Coros \ {c} : coro'[d] = coro[d]
  BY DEF CoroNew
<1>4. TypeOK'
  BY <1>2 DEF CoroNew
<1>5. Range(coro_list) \subseteq Coros
  BY InList
<1>6. ListExact'
  <2>1. /\ Range(coro_list) \cap returned = {} /\ returned' = returned
        /\ Range(coro_list) \cup returned = {d \in Coros : coro[d].life = "live"}
    BY DEF ListExact, CoroNew
  <2>2. {d \in Coros : coro'[d].life = "live"} = {d \in Coros : coro[d].life = "live"} \cup {c}
    BY <1>3
  <2>3. QED
    BY <1>1, <1>2, <2>1, <2>2 DEF ListExact
<1>7. \A d \in Range(coro_list') : coro'[d].is_finished <=>
                                   d \in Range(coro_list) /\ coro[d].is_finished
  BY <1>1, <1>2, <1>3, <1>5
<1>8. QED
  BY <1>1, <1>2, <1>3, <1>4, <1>6, <1>7 DEF CoroNew, PlaceToReturn, RunnerListed,
     FinishedSoonReturned, NewUnfinished

(* coro_yield gives control to a coroutine of the list or the scheduler.   *)
LEMMA YieldStep ==
  ASSUME CoroInvariant, NEW c \in Coros, CoroYield(c)
  PROVE  CoroInvariant'
<1> USE DEF CoroInvariant, TypeOK, CoroYield
<1>1. c \in Range(coro_list) /\ is_sched_waiting /\ coro_sched \in inside
  BY CoroAssumption DEF RunnerListed, PlaceToReturn
<1>2. coro_this_ptr' = coro_sched \/ coro_this_ptr' \in Range(coro_list)
  BY <1>1, NextInList
<1>3. Range(coro_list) \subseteq Coros
  BY InList
<1>4. \A d \in Range(coro_list) : ~coro[d].is_finished
  BY CoroAssumption DEF FinishedSoonReturned
<1>5. QED
  BY <1>1, <1>2, <1>3, <1>4 DEF ListExact, PlaceToReturn, RunnerListed,
     FinishedSoonReturned, NewUnfinished

(* The end of coro_body: the scheduler waits, and no other coroutine of    *)
(* the list has finished.                                                  *)
LEMMA FinishStep ==
  ASSUME CoroInvariant, NEW c \in Coros, CoroFinish(c)
  PROVE  CoroInvariant'
<1> USE DEF CoroInvariant, TypeOK
<1>1. c \in Range(coro_list) /\ is_sched_waiting /\ coro_sched \in inside
  BY CoroAssumption DEF CoroFinish, RunnerListed, PlaceToReturn
<1>2. /\ coro'[c].is_finished /\ coro'[c].life = coro[c].life
      /\ \A d \in Coros \ {c} : coro'[d] = coro[d]
  BY DEF CoroFinish
<1>3. coro_this_ptr' = coro_sched /\ exited' = exited /\ inside' = inside
  BY <1>1 DEF CoroFinish
<1>4. Range(coro_list) \subseteq Coros
  BY InList
<1>5. TypeOK'
  BY <1>3 DEF CoroFinish
<1>6. ListExact'
  BY <1>2, <1>4 DEF ListExact, CoroFinish
<1>7. \A d \in Range(coro_list) : ~coro[d].is_finished
  BY CoroAssumption DEF CoroFinish, FinishedSoonReturned
<1>8. coro[c].life = "live"
  BY <1>1 DEF ListExact
<1>9. QED
  BY <1>1, <1>2, <1>3, <1>4, <1>5, <1>6, <1>7, <1>8 DEF CoroFinish,
     PlaceToReturn, RunnerListed, FinishedSoonReturned, NewUnfinished

(* Every step of the scheduler and of the coroutines preserves it. *)
LEMMA StepInvariant == CoroInvariant /\ [Next]_vars => CoroInvariant'
<1> SUFFICES ASSUME CoroInvariant, [Next]_vars PROVE CoroInvariant'
  OBVIOUS
<1>1. CASE UNCHANGED vars
  BY <1>1 DEF vars, CoroInvariant, TypeOK, ListExact, PlaceToReturn, RunnerListed,
     FinishedSoonReturned, NewUnfinished
<1>2. QED
  BY <1>1, SchedWaitStep, DeleteStep, NewStep, YieldStep, FinishStep DEF Next

(* All that the runs check of the coroutines' safety follows.              *)
LEMMA CoroSafety == Spec => []CoroInvariant
<1>1. QED
  BY InitInvariant, StepInvariant, PTL DEF Spec

-----------------------------------------------------------------------------
(* Every variable keeps the type of its declaration. *)
THEOREM CoroTypeCorrect == Spec => []TypeOK
<1>1. CoroInvariant => TypeOK
  BY DEF CoroInvariant
<1>2. QED
  BY <1>1, CoroSafety, PTL

(* A coroutine is in the list once from coro_new until coro_sched_wait has *)
(* returned it, and is not freed before.                                   *)
THEOREM ListIsExact == Spec => []ListExact
<1>1. CoroInvariant => ListExact
  BY DEF CoroInvariant
<1>2. QED
  BY <1>1, CoroSafety, PTL

(* Control never goes to a finished or unlinked coroutine.                 *)
THEOREM OnlyUnfinishedRun == Spec => []UnfinishedRun
<1>1. CoroInvariant => UnfinishedRun
  BY DEF CoroInvariant, RunnerListed, FinishedSoonReturned, UnfinishedRun
<1>2. QED
  BY <1>1, CoroSafety, PTL

(* coro_sched.ctx is the frame of a call that is under way when a          *)
(* coroutine jumps to it, and the process is never ended for lack of one,  *)
(* whichever coroutines call coro_sched_wait as well.                      *)
THEOREM AlwaysPlaceToReturn == Spec => []PlaceToReturn
<1>1. CoroInvariant => PlaceToReturn
  BY DEF CoroInvariant
<1>2. QED
  BY <1>1, CoroSafety, PTL

(* coro_sched_wait returns finished coroutines, and keeps none back.       *)
THEOREM FinishedAreReturned == Spec => []FinishedReturned
<1>1. CoroInvariant => FinishedReturned
  <2> SUFFICES ASSUME CoroInvariant PROVE FinishedReturned
    OBVIOUS
  <2>1. ASSUME InOwnCode PROVE Finished = {}
    BY <2>1 DEF InOwnCode, CoroInvariant, FinishedSoonReturned, Finished, Range
  <2>2. QED
    BY <2>1 DEF CoroInvariant, FinishedReturned
<1>2. QED
  BY <1>1, CoroSafety, PTL

-----------------------------------------------------------------------------
(* MergeSort: arrays and heaps.                                            *)

Array == Seq(Int)

(* The elements of an array as the code numbers them. *)
LEMMA ElemType ==
  ASSUME NEW a \in Array
  PROVE  /\ Len(a) \in Nat /\ DOMAIN a = 1..Len(a)
         /\ \A k \in 0..(Len(a) - 1) : Elem(a, k) \in Int
<1>1. Len(a) \in Nat /\ DOMAIN a = 1..Len(a) /\ \A k \in 1..Len(a) : a[k] \in Int
  BY DEF Array
<1>2. \A k \in 0..(Len(a) - 1) : k + 1 \in 1..Len(a)
  BY <1>1
<1>3. QED
  BY <1>1, <1>2 DEF Elem

(* Swapping two elements leaves the others. *)
LEMMA SwapElements ==
  ASSUME NEW a \in Array, NEW k \in 0..(Len(a) - 1), NEW l \in 0..(Len(a) - 1)
  PROVE  /\ Swap(a, k, l) \in Array /\ Len(Swap(a, k, l)) = Len(a)
         /\ DOMAIN Swap(a, k, l) = 1..Len(a)
         /\ \A m \in 0..(Len(a) - 1) :
              Elem(Swap(a, k, l), m) =
                IF m = l THEN Elem(a, k) ELSE IF m = k THEN Elem(a, l) ELSE Elem(a, m)
<1> DEFINE n == Len(a)
<1>1. n \in Nat /\ DOMAIN a = 1..n /\ a \in [1..n -> Int]
  BY DEF Array
<1>2. k + 1 \in 1..n /\ l + 1 \in 1..n
  BY <1>1
<1> HIDE DEF n
<1>3. Swap(a, k, l) \in [1..n -> Int]
  BY <1>1, <1>2 DEF Swap
<1>4. Swap(a, k, l) \in Array /\ Len(Swap(a, k, l)) = n /\ DOMAIN Swap(a, k, l) = 1..n
  BY <1>1, <1>3 DEF Array
<1>5. ASSUME NEW m \in 0..(n - 1)
      PROVE  Elem(Swap(a, k, l), m) =
               IF m = l THEN Elem(a, k) ELSE IF m = k THEN Elem(a, l) ELSE Elem(a, m)
  <2>1. m + 1 \in 1..n
    BY <1>1
  <2>2. (m + 1 = k + 1 <=> m = k) /\ (m + 1 = l + 1 <=> m = l)
    BY <1>1
  <2>3. QED
    BY <1>1, <1>2, <2>1, <2>2 DEF Swap, Elem
<1>6. QED
  BY <1>4, <1>5 DEF n

(* The places of a value in a sequence of numbers. *)
Occurs(s, x) == {i \in DOMAIN s : s[i] = x}

(* A permutation of an array holds the same numbers equally often.        *)
LEMMA SwapBag ==
  ASSUME NEW a \in Array, NEW k \in 0..(Len(a) - 1), NEW l \in 0..(Len(a) - 1)
  PROVE  ToBag(Swap(a, k, l)) = ToBag(a)
<1> DEFINE b == Swap(a, k, l)
           n == Len(a)
           p == [i \in 1..n |-> IF i = k + 1 THEN l + 1 ELSE IF i = l + 1 THEN k + 1 ELSE i]
<1>1. n \in Nat /\ DOMAIN a = 1..n /\ DOMAIN b = 1..n /\ k + 1 \in 1..n /\ l + 1 \in 1..n
  BY SwapElements, ElemType
<1>2. \A i \in 1..n : p[i] \in 1..n /\ p[p[i]] = i /\ b[p[i]] = a[i] /\ a[p[i]] = b[i]
  BY <1>1 DEF Swap
<1> HIDE DEF p, b, n
<1>3. Range(b) = Range(a)
  BY <1>1, <1>2 DEF Range
<1>4. ASSUME NEW x PROVE Cardinality(Occurs(b, x)) = Cardinality(Occurs(a, x))
  <2> DEFINE f == [i \in Occurs(a, x) |-> p[i]]
  <2>1. f \in [Occurs(a, x) -> Occurs(b, x)]
    BY <1>1, <1>2 DEF Occurs
  <2>2. \A i, j \in Occurs(a, x) : f[i] = f[j] => i = j
    BY <1>1, <1>2 DEF Occurs
  <2>3. \A i \in Occurs(b, x) : \E j \in Occurs(a, x) : f[j] = i
    <3> TAKE i \in Occurs(b, x)
    <3>1. i \in 1..n /\ p[i] \in Occurs(a, x) /\ p[p[i]] = i
      BY <1>1, <1>2 DEF Occurs
    <3>2. QED
      BY <3>1
  <2>4. f \in Bijection(Occurs(a, x), Occurs(b, x))
    BY <2>1, <2>2, <2>3 DEF Bijection, Injection, Surjection, IsInjective
  <2>5. ExistsBijection(Occurs(a, x), Occurs(b, x))
    BY <2>4 DEF ExistsBijection
  <2>6. IsFiniteSet(Occurs(a, x))
    <3>1. Occurs(a, x) \in SUBSET (1..n)
      BY <1>1 DEF Occurs
    <3>2. IsFiniteSet(1..n)
      BY <1>1, FS_Interval
    <3>3. QED
      BY <3>1, <3>2, FS_Subset
  <2>7. QED
    BY <2>5, <2>6, FS_Bijection
<1>5. QED
  BY <1>3, <1>4 DEF ToBag, Occurs, b

(* Reading fills the array with the numbers of the file first.             *)
LEMMA FilledBag ==
  ASSUME NEW s \in Array, NEW r \in Array
  PROVE  ToBag(s) \sqsubseteq ToBag(s \o r)
<1> DEFINE u == s \o r
<1>1. /\ DOMAIN s \subseteq DOMAIN u /\ \A i \in DOMAIN s : u[i] = s[i]
      /\ DOMAIN u = 1..Len(u) /\ Len(u) \in Nat
  BY DEF Array
<1> HIDE DEF u
<1>2. Range(s) \subseteq Range(u)
  BY <1>1 DEF Range
<1>3. ASSUME NEW x PROVE Cardinality(Occurs(s, x)) <= Cardinality(Occurs(u, x))
  <2>1. Occurs(u, x) \in SUBSET (1..Len(u))
    BY <1>1 DEF Occurs
  <2>2. IsFiniteSet(1..Len(u))
    BY <1>1, FS_Interval
  <2>3. IsFiniteSet(Occurs(u, x))
    BY <2>1, <2>2, FS_Subset
  <2>4. Occurs(s, x) \in SUBSET Occurs(u, x)
    BY <1>1 DEF Occurs
  <2>5. QED
    BY <2>3, <2>4, FS_Subset
<1>4. QED
  BY <1>2, <1>3 DEF ToBag, Occurs, \sqsubseteq, u
IsChild(p, k) == k = 2 * p + 1 \/ k = 2 * p + 2

(* Every element but the first is a child of one other in front of it.     *)
LEMMA OneParent ==
  ASSUME NEW k \in Nat \ {0}
  PROVE  /\ (k - 1) \div 2 \in Nat
         /\ \A p \in Nat : IsChild(p, k) <=> p = (k - 1) \div 2
         /\ \A p \in Nat : IsChild(p, k) => p < k
<1>1. (k - 1) \div 2 \in Nat
  OBVIOUS
<1>2. \A p \in Nat : k = 2 * p + 1 \/ k = 2 * p + 2 <=> p = (k - 1) \div 2
  OBVIOUS
<1>3. QED
  BY <1>1, <1>2 DEF IsChild

(* HeapFrom in these words. *)
LEMMA HeapFromDef ==
  ASSUME NEW a, NEW lo \in Nat, NEW j \in Nat, NEW n \in Nat
  PROVE  HeapFrom(a, lo, j, n) <=>
           /\ \A p \in Nat, k \in 1..(n - 1) :
                IsChild(p, k) /\ p >= lo /\ p # j => Elem(a, p) >= Elem(a, k)
           /\ \A g \in Nat, k \in 1..(n - 1) :
                IsChild(g, j) /\ IsChild(j, k) /\ g >= lo => Elem(a, g) >= Elem(a, k)
<1> DEFINE Parent(k) == (k - 1) \div 2
           Falling(p, k) == Elem(a, p) >= Elem(a, k)
<1>1. HeapFrom(a, lo, j, n) <=>
        \A k \in 1..(n - 1) :
          /\ Parent(k) >= lo /\ Parent(k) # j => Falling(Parent(k), k)
          /\ Parent(k) = j /\ j > 0 /\ Parent(Parent(k)) >= lo => Falling(Parent(Parent(k)), k)
  BY DEF HeapFrom
<1>2. \A k \in Nat \ {0} : Parent(k) \in Nat /\ \A p \in Nat : IsChild(p, k) <=> p = Parent(k)
  BY OneParent
<1>3. ~ \E p \in Nat : IsChild(p, 0)
  BY DEF IsChild
<1>4. \A k \in 1..(n - 1) : k \in Nat \ {0}
  OBVIOUS
<1>5. j > 0 <=> j # 0
  OBVIOUS
<1> HIDE DEF Parent, Falling
<1>6. HeapFrom(a, lo, j, n) <=>
        /\ \A p \in Nat, k \in 1..(n - 1) : IsChild(p, k) /\ p >= lo /\ p # j => Falling(p, k)
        /\ \A g \in Nat, k \in 1..(n - 1) :
             IsChild(g, j) /\ IsChild(j, k) /\ g >= lo => Falling(g, k)
  <2>1. ASSUME HeapFrom(a, lo, j, n), NEW p \in Nat, NEW k \in 1..(n - 1),
               IsChild(p, k), p >= lo, p # j
        PROVE  Falling(p, k)
    BY <1>1, <1>2, <1>4, <2>1
  <2>2. ASSUME HeapFrom(a, lo, j, n), NEW g \in Nat, NEW k \in 1..(n - 1),
               IsChild(g, j), IsChild(j, k), g >= lo
        PROVE  Falling(g, k)
    <3>1. j # 0
      BY <1>3, <2>2
    <3>2. Parent(k) = j /\ Parent(j) = g
      BY <1>2, <1>4, <2>2, <3>1
    <3>3. QED
      BY <1>1, <1>5, <2>2, <3>1, <3>2
  <2>3. ASSUME \A p \in Nat, k \in 1..(n - 1) : IsChild(p, k) /\ p >= lo /\ p # j => Falling(p, k),
               \A g \in Nat, k \in 1..(n - 1) :
                 IsChild(g, j) /\ IsChild(j, k) /\ g >= lo => Falling(g, k),
               NEW k \in 1..(n - 1)
        PROVE  /\ Parent(k) >= lo /\ Parent(k) # j => Falling(Parent(k), k)
               /\ Parent(k) = j /\ j > 0 /\ Parent(Parent(k)) >= lo => Falling(Parent(Parent(k)), k)
    <3>1. Parent(k) \in Nat /\ IsChild(Parent(k), k)
      BY <1>2, <1>4
    <3>2. j # 0 => Parent(j) \in Nat /\ IsChild(Parent(j), j)
      BY <1>2
    <3>3. QED
      BY <1>5, <2>3, <3>1, <3>2
  <2>4. QED
    BY <1>1, <2>1, <2>2, <2>3
<1>7. QED
  BY <1>6 DEF Falling

(* A heap without an element that is being moved. *)
Heap(a, lo, n) ==
  \A p \in Nat, k \in 1..(n - 1) : IsChild(p, k) /\ p >= lo => Elem(a, p) >= Elem(a, k)

(* Largest is an element or a child of it that is not below the others.    *)
LEMMA LargestOfThree ==
  ASSUME NEW a \in Array, NEW n \in Nat, n <= Len(a), NEW j \in 0..(n - 1)
  PROVE  LET l == Largest(a, j, n) IN
         /\ l \in 0..(n - 1)
         /\ l # j => IsChild(j, l) /\ Elem(a, l) > Elem(a, j)
         /\ \A k \in 1..(n - 1) : IsChild(j, k) => Elem(a, l) >= Elem(a, k)
<1> DEFINE left == 2 * j + 1
           right == 2 * j + 2
           s == IF left < n /\ Elem(a, left) > Elem(a, j) THEN left ELSE j
           l == IF right < n /\ Elem(a, right) > Elem(a, s) THEN right ELSE s
<1>1. Largest(a, j, n) = l
  BY DEF Largest
<1>2. \A k \in 0..(n - 1) : Elem(a, k) \in Int
  BY ElemType
<1>3. /\ left \in Nat /\ right \in Nat /\ j \in Nat /\ left # j /\ right # j /\ left # right
      /\ left < n => left \in 0..(n - 1)
      /\ right < n => right \in 0..(n - 1) /\ left < n
      /\ \A k \in 1..(n - 1) : IsChild(j, k) <=> k \in {left, right}
      /\ IsChild(j, left) /\ IsChild(j, right)
  BY DEF IsChild
<1> HIDE DEF left, right
<1>4. /\ s \in 0..(n - 1) /\ s \in {j, left}
      /\ s = left => left < n /\ Elem(a, left) > Elem(a, j)
      /\ left < n => Elem(a, s) >= Elem(a, left)
      /\ Elem(a, s) >= Elem(a, j)
  BY <1>2, <1>3
<1> HIDE DEF s
<1>5. /\ l \in 0..(n - 1) /\ l \in {s, right}
      /\ l = right => right < n /\ Elem(a, right) > Elem(a, s)
      /\ right < n => Elem(a, l) >= Elem(a, right)
      /\ Elem(a, l) >= Elem(a, s)
  <2>1. right # s /\ Elem(a, s) \in Int /\ (right < n => Elem(a, right) \in Int)
    BY <1>2, <1>3, <1>4
  <2>2. CASE right < n /\ Elem(a, right) > Elem(a, s)
    BY <1>3, <2>1, <2>2
  <2>3. CASE ~(right < n /\ Elem(a, right) > Elem(a, s))
    BY <1>4, <2>1, <2>3
  <2>4. QED
    BY <2>2, <2>3
<1> HIDE DEF l
<1>6. l # j => IsChild(j, l) /\ Elem(a, l) > Elem(a, j)
  BY <1>2, <1>3, <1>4, <1>5
<1>7. ASSUME NEW k \in 1..(n - 1), IsChild(j, k) PROVE Elem(a, l) >= Elem(a, k)
  <2>1. k \in {left, right} /\ k < n /\ k \in 0..(n - 1)
    BY <1>3, <1>7
  <2>2. Elem(a, l) \in Int /\ Elem(a, s) \in Int /\ Elem(a, k) \in Int
    BY <1>2, <1>4, <1>5, <2>1
  <2>3. QED
    BY <1>4, <1>5, <2>1, <2>2
<1>8. QED
  BY <1>1, <1>5, <1>6, <1>7

(* If it is the element itself the sift is over: nothing is out of place.  *)
LEMMA SiftOver ==
  ASSUME NEW a \in Array, NEW n \in Nat, n <= Len(a), NEW lo \in Nat, NEW j \in 0..(n - 1),
         HeapFrom(a, lo, j, n), Largest(a, j, n) = j
  PROVE  Heap(a, lo, n)
<1>1. \A p \in Nat, k \in 1..(n - 1) :
        IsChild(p, k) /\ p >= lo /\ p # j => Elem(a, p) >= Elem(a, k)
  BY HeapFromDef
<1>2. \A k \in 1..(n - 1) : IsChild(j, k) => Elem(a, j) >= Elem(a, k)
  BY LargestOfThree
<1>3. QED
  BY <1>1, <1>2 DEF Heap

(* One swap of the sift moves the hole to the child. *)
LEMMA SiftStep ==
  ASSUME NEW a \in Array, NEW n \in Nat, n <= Len(a), NEW lo \in Nat, NEW j \in 0..(n - 1),
         lo <= j, HeapFrom(a, lo, j, n), NEW l, l = Largest(a, j, n), l # j
  PROVE  /\ HeapFrom(Swap(a, j, l), lo, l, n)
         /\ l \in 0..(n - 1) /\ lo <= l
<1> DEFINE b == Swap(a, j, l)
<1>1. /\ l \in 0..(n - 1) /\ IsChild(j, l) /\ Elem(a, l) > Elem(a, j)
      /\ \A k \in 1..(n - 1) : IsChild(j, k) => Elem(a, l) >= Elem(a, k)
  BY LargestOfThree
<1>2. l \in Nat \ {0} /\ lo <= l /\ l \in 1..(n - 1) /\ j < l
  BY <1>1 DEF IsChild
<1>3. \A m \in 0..(n - 1) : Elem(a, m) \in Int
  BY ElemType
<1>4. \A m \in 0..(n - 1) :
        Elem(b, m) = IF m = l THEN Elem(a, j) ELSE IF m = j THEN Elem(a, l) ELSE Elem(a, m)
  <2>1. j \in 0..(Len(a) - 1) /\ l \in 0..(Len(a) - 1) /\ \A m \in 0..(n - 1) : m \in 0..(Len(a) - 1)
    BY <1>1, ElemType
  <2>2. QED
    BY <2>1, SwapElements
<1> HIDE DEF b
<1>5. /\ \A p \in Nat, k \in 1..(n - 1) :
           IsChild(p, k) /\ p >= lo /\ p # j => Elem(a, p) >= Elem(a, k)
      /\ \A g \in Nat, k \in 1..(n - 1) :
           IsChild(g, j) /\ IsChild(j, k) /\ g >= lo => Elem(a, g) >= Elem(a, k)
  BY HeapFromDef
<1>6. \A p, q \in Nat, k \in 1..(n - 1) : IsChild(p, k) /\ IsChild(q, k) => p = q
  BY DEF IsChild
<1>7. \A p \in Nat, k \in 1..(n - 1) : IsChild(p, k) => p \in 0..(n - 1) /\ p < k
  BY DEF IsChild
<1>8. \A k \in 1..(n - 1) : k \in 0..(n - 1)
  OBVIOUS
<1>9. ASSUME NEW p \in Nat, NEW k \in 1..(n - 1), IsChild(p, k), p >= lo, p # l
      PROVE  Elem(b, p) >= Elem(b, k)
  <2>1. p \in 0..(n - 1) /\ k \in 0..(n - 1) /\ p # k
    BY <1>7, <1>8, <1>9
  <2>2. CASE p = j
    <3>1. Elem(b, p) = Elem(a, l) /\ Elem(a, l) >= Elem(a, k) /\ k # j
      BY <1>1, <1>4, <1>9, <2>1, <2>2
    <3>2. Elem(b, k) \in {Elem(a, j), Elem(a, k)}
      BY <1>4, <2>1, <3>1
    <3>3. Elem(a, l) >= Elem(a, j)
      BY <1>1, <1>3
    <3>4. QED
      BY <3>1, <3>2, <3>3
  <2>3. CASE p # j
    <3>1. Elem(b, p) = Elem(a, p) /\ Elem(a, p) >= Elem(a, k)
      BY <1>4, <1>5, <1>9, <2>1, <2>3
    <3>2. k # l
      BY <1>1, <1>2, <1>6, <1>9, <2>3
    <3>3. CASE k = j
      <4>1. Elem(b, k) = Elem(a, l)
        BY <1>4, <2>1, <3>2, <3>3
      <4>2. Elem(a, p) >= Elem(a, l)
        BY <1>1, <1>2, <1>5, <1>9, <3>3
      <4>3. QED
        BY <3>1, <4>1, <4>2
    <3>4. CASE k # j
      BY <1>4, <2>1, <3>1, <3>2, <3>4
    <3>5. QED
      BY <3>3, <3>4
  <2>4. QED
    BY <2>2, <2>3
<1>10. ASSUME NEW g \in Nat, NEW k \in 1..(n - 1), IsChild(g, l), IsChild(l, k), g >= lo
       PROVE  Elem(b, g) >= Elem(b, k)
  <2>1. g = j
    BY <1>1, <1>2, <1>6, <1>10
  <2>2. k # l /\ k # j /\ k \in 0..(n - 1)
    BY <1>2, <1>7, <1>8, <1>10
  <2>3. Elem(b, g) = Elem(a, l) /\ Elem(b, k) = Elem(a, k)
    BY <1>1, <1>4, <2>1, <2>2
  <2>4. Elem(a, l) >= Elem(a, k)
    BY <1>2, <1>5, <1>10
  <2>5. QED
    BY <2>3, <2>4
<1>11. HeapFrom(b, lo, l, n)
  BY <1>2, <1>9, <1>10, HeapFromDef
<1>12. QED
  BY <1>1, <1>2, <1>11 DEF b

(* The first element of a heap is the largest. *)
LEMMA RootLargest ==
  ASSUME NEW a \in Array, NEW n \in Nat, n <= Len(a), Heap(a, 0, n)
  PROVE  \A k \in 0..(n - 1) : Elem(a, 0) >= Elem(a, k)
<1> DEFINE T == {k \in 0..(n - 1) : ~(Elem(a, 0) >= Elem(a, k))}
<1> SUFFICES ASSUME T # {} PROVE FALSE
  OBVIOUS
<1>1. \A k \in 0..(n - 1) : Elem(a, k) \in Int
  BY ElemType
<1>2. T \subseteq Nat
  OBVIOUS
<1>3. PICK k \in T : \A m \in T : k <= m
  <2> HIDE DEF T
  <2>1. QED
    BY <1>2, LeastNumber
<1>4. k \in 1..(n - 1) /\ k \in Nat \ {0}
  BY <1>1
<1> DEFINE p == (k - 1) \div 2
<1>5. p \in Nat /\ IsChild(p, k) /\ p < k
  BY <1>4, OneParent
<1> HIDE DEF p
<1>6. Elem(a, p) >= Elem(a, k)
  BY <1>4, <1>5 DEF Heap
<1>7. p \in 0..(n - 1) /\ p \notin T
  BY <1>3, <1>4, <1>5
<1>8. Elem(a, 0) >= Elem(a, p)
  BY <1>7
<1>9. Elem(a, 0) \in Int /\ Elem(a, p) \in Int /\ Elem(a, k) \in Int
  BY <1>1, <1>4, <1>7
<1>10. QED
  BY <1>6, <1>8, <1>9

-----------------------------------------------------------------------------
(* What heap_sort does to an array.                                        *)

Holds(file, a) ==
  /\ a \in Array
  /\ ToBag(file.numbers) \sqsubseteq ToBag(a)
  /\ Len(a) = NumbersCount(file)

(* From element i on the array is in order. *)
RisesFrom(a, i) == \A k \in i..(Len(a) - 2) : Elem(a, k) <= Elem(a, k + 1)

(* The invariants of the two loops of heap_sort. *)
Building(a, i, j) ==
  \/ i \in Nat /\ j \in i..(Len(a) - 1) /\ HeapFrom(a, i, j, Len(a))
  \/ i < 0 /\ Len(a) = 1

Extracting(a, i, j) ==
  /\ i \in 1..(Len(a) - 1) /\ j \in 0..(i - 1)
  /\ HeapFrom(a, 0, j, i)
  /\ RisesFrom(a, i)
  /\ \A k \in 0..(i - 1) : Elem(a, k) <= Elem(a, i)

(* A file has room for at least one number. *)
LEMMA CountPositive ==
  ASSUME NEW file \in Contents
  PROVE  /\ NumbersCount(file) \in Nat \ {0}
         /\ NumbersCount(file) - Len(file.numbers) \in Nat
         /\ file.numbers \in Array
<1>1. file.numbers \in Seq(Int) /\ file.trailing \in BOOLEAN
  BY MergeSortAssumption
<1>2. Len(file.numbers) \in Nat /\ (file.numbers # <<>> => Len(file.numbers) # 0)
  BY <1>1
<1> DEFINE more == IF file.trailing \/ file.numbers = <<>> THEN 1 ELSE 0
<1>3. more \in Nat /\ (Len(file.numbers) = 0 => more = 1)
  BY <1>2
<1>4. NumbersCount(file) = Len(file.numbers) + more
  BY DEF NumbersCount
<1> HIDE DEF more
<1>5. NumbersCount(file) \in Nat \ {0} /\ NumbersCount(file) - Len(file.numbers) \in Nat
  BY <1>2, <1>3, <1>4
<1>6. QED
  BY <1>1, <1>5 DEF Array

(* The order of a part of an array.                                       *)
LEMMA RisesPart ==
  ASSUME NEW a \in Array, NEW i \in 0..(Len(a) - 1)
  PROVE  /\ Ascending(SubSeq(a, i + 1, Len(a))) <=> RisesFrom(a, i)
         /\ Ascending(a) <=> RisesFrom(a, 0)
<1> DEFINE n == Len(a)
           s == SubSeq(a, i + 1, n)
<1>1. n \in Nat /\ DOMAIN a = 1..n /\ \A k \in 1..n : a[k] \in Int
  BY DEF Array
<1>2. /\ Len(s) = n - i
      /\ \A k \in 1..(n - i) : s[k] = a[i + k]
  <2>1. i + 1 \in Int /\ n \in Int /\ \A k \in (i + 1)..n : a[k] \in Int
    BY <1>1
  <2>2. /\ Len(s) = IF i + 1 <= n THEN n - (i + 1) + 1 ELSE 0
        /\ \A k \in 1..(n - (i + 1) + 1) : s[k] = a[(i + 1) + k - 1]
    <3> HIDE DEF n
    <3>1. QED
      BY <2>1, SubSeqProperties
  <2> HIDE DEF s, n
  <2>3. n - (i + 1) + 1 = n - i /\ \A k \in 1..(n - i) : (i + 1) + k - 1 = i + k
    BY <1>1
  <2>4. QED
    BY <1>1, <2>2, <2>3
<1> HIDE DEF s, n
<1>3. ASSUME Ascending(s), NEW k \in i..(n - 2) PROVE Elem(a, k) <= Elem(a, k + 1)
  <2>1. k - i + 1 \in 1..(Len(s) - 1) /\ k - i + 1 \in 1..(n - i) /\ k - i + 1 + 1 \in 1..(n - i)
    BY <1>1, <1>2
  <2>2. s[k - i + 1] <= s[k - i + 1 + 1]
    BY <1>3, <2>1 DEF Ascending
  <2>3. i + (k - i + 1) = k + 1 /\ i + (k - i + 1 + 1) = k + 1 + 1
    BY <1>1
  <2>4. s[k - i + 1] = a[k + 1] /\ s[k - i + 1 + 1] = a[k + 1 + 1]
    BY <1>2, <2>1, <2>3
  <2>5. QED
    BY <2>2, <2>4 DEF Elem
<1>4. ASSUME RisesFrom(a, i), NEW k \in 1..(Len(s) - 1) PROVE s[k] <= s[k + 1]
  <2>1. i + k - 1 \in i..(n - 2) /\ k \in 1..(n - i) /\ k + 1 \in 1..(n - i)
    BY <1>1, <1>2
  <2>2. Elem(a, i + k - 1) <= Elem(a, i + k - 1 + 1)
    BY <1>4, <2>1 DEF RisesFrom, n
  <2>3. i + k - 1 + 1 = i + k /\ i + k - 1 + 1 + 1 = i + (k + 1)
    BY <1>1
  <2>4. QED
    BY <1>2, <2>1, <2>2, <2>3 DEF Elem
<1>5. ASSUME Ascending(a), NEW k \in 0..(n - 2) PROVE Elem(a, k) <= Elem(a, k + 1)
  <2>1. k + 1 \in 1..(n - 1)
    BY <1>1
  <2>2. QED
    BY <1>5, <2>1 DEF Ascending, Elem, n
<1>6. ASSUME RisesFrom(a, 0), NEW k \in 1..(n - 1) PROVE a[k] <= a[k + 1]
  <2>1. k - 1 \in 0..(n - 2) /\ k - 1 + 1 = k
    BY <1>1
  <2>2. Elem(a, k - 1) <= Elem(a, k - 1 + 1)
    BY <1>6, <2>1 DEF RisesFrom, n
  <2>3. QED
    BY <2>1, <2>2 DEF Elem
<1>7. QED
  BY <1>3, <1>4, <1>5, <1>6 DEF Ascending, RisesFrom, s, n

(* A swap leaves the file in the array. *)
LEMMA SwapHolds ==
  ASSUME NEW file, NEW a, Holds(file, a), NEW k \in 0..(Len(a) - 1), NEW l \in 0..(Len(a) - 1)
  PROVE  Holds(file, Swap(a, k, l))
BY SwapElements, SwapBag DEF Holds

(* What has been read is no heap yet but behind the middle.               *)
LEMMA ReadArray ==
  ASSUME NEW file \in Contents, NEW a \in Readings(file),
         NEW i, i = NumbersCount(file) \div 2 - 1
  PROVE  Holds(file, a) /\ Building(a, i, i) /\ i \in Int
<1> DEFINE m == NumbersCount(file) - Len(file.numbers)
           n == NumbersCount(file)
<1>1. PICK rest \in [1..m -> Junk] : a = file.numbers \o rest
  BY DEF Readings
<1>2. n \in Nat \ {0} /\ m \in Nat /\ file.numbers \in Array
  BY CountPositive
<1>3. Len(file.numbers) \in Nat /\ Len(file.numbers) + m = n
  BY <1>2, ElemType
<1> HIDE DEF m, n
<1>4. rest \in Array /\ Len(rest) = m
  <2>1. rest \in [1..m -> Int]
    BY <1>1, MergeSortAssumption
  <2>2. QED
    BY <1>2, <2>1 DEF Array
<1>5. a \in Array /\ Len(a) = Len(file.numbers) + Len(rest)
  BY <1>1, <1>2, <1>4, ConcatProperties DEF Array
<1>6. Len(a) = n
  BY <1>3, <1>4, <1>5
<1>7. Holds(file, a)
  BY <1>1, <1>2, <1>4, <1>5, <1>6, FilledBag DEF Holds, n
<1>8. i \in Int /\ i >= -1 /\ (i < 0 => n = 1) /\ i <= n - 1 /\ 2 * (i + 1) + 1 >= n
  <2>1. i = n \div 2 - 1
    BY DEF n
  <2>2. \A q \in Nat \ {0} :
          LET h == q \div 2 - 1 IN
          h \in Int /\ h >= -1 /\ (h < 0 => q = 1) /\ h <= q - 1 /\ 2 * (h + 1) + 1 >= q
    OBVIOUS
  <2>3. QED
    BY <1>2, <2>1, <2>2
<1>9. CASE i >= 0
  <2>1. i \in Nat /\ n \in Nat
    BY <1>2, <1>8, <1>9
  <2>2. ASSUME NEW p \in Nat, NEW k \in 1..(n - 1), IsChild(p, k), p >= i, p # i
        PROVE  FALSE
    BY <1>2, <1>8, <2>1, <2>2 DEF IsChild
  <2>3. ASSUME NEW g \in Nat, IsChild(g, i), g >= i
        PROVE  FALSE
    BY <2>1, <2>3 DEF IsChild
  <2>4. HeapFrom(a, i, i, n)
    BY <2>1, <2>2, <2>3, HeapFromDef
  <2>5. i \in i..(n - 1)
    BY <1>2, <1>8, <2>1
  <2>6. QED
    BY <1>6, <1>7, <2>1, <2>4, <2>5 DEF Building
<1>10. CASE i < 0
  BY <1>6, <1>7, <1>8, <1>10 DEF Building
<1>11. QED
  BY <1>8, <1>9, <1>10

(* The first loop: one swap, and one element further to the front.         *)
LEMMA BuildStep ==
  ASSUME NEW file, NEW a, Holds(file, a), NEW i, NEW j, Building(a, i, j), i \in Nat
  PROVE  LET l == Largest(a, j, Len(a)) IN
         /\ l # j => Holds(file, Swap(a, j, l)) /\ Building(Swap(a, j, l), i, l) /\ l \in Int
         /\ l = j => Heap(a, i, Len(a))
         /\ l = j /\ i > 0 => Building(a, i - 1, i - 1)
<1> DEFINE l == Largest(a, j, Len(a))
           n == Len(a)
<1>1. /\ a \in Array /\ n \in Nat /\ j \in i..(n - 1) /\ j \in 0..(n - 1)
      /\ HeapFrom(a, i, j, n) /\ i <= j /\ n <= Len(a)
  BY ElemType DEF Holds, Building
<1> HIDE DEF l
<1>2. ASSUME l # j PROVE Holds(file, Swap(a, j, l)) /\ Building(Swap(a, j, l), i, l) /\ l \in Int
  <2>1. /\ HeapFrom(Swap(a, j, l), i, l, n) /\ l \in 0..(n - 1) /\ i <= l
    BY <1>1, <1>2, SiftStep DEF l
  <2>2. Holds(file, Swap(a, j, l)) /\ Len(Swap(a, j, l)) = n
    BY <1>1, <2>1, SwapHolds, SwapElements
  <2>3. l \in i..(n - 1)
    BY <1>1, <2>1
  <2>4. QED
    BY <2>1, <2>2, <2>3 DEF Building
<1>3. ASSUME l = j PROVE Heap(a, i, n)
  BY <1>1, <1>3, SiftOver DEF l
<1>4. ASSUME l = j, i > 0 PROVE Building(a, i - 1, i - 1)
  <2>1. Heap(a, i, n) /\ i - 1 \in Nat
    BY <1>3, <1>4
  <2>2. ASSUME NEW p \in Nat, NEW k \in 1..(n - 1), IsChild(p, k), p >= i - 1, p # i - 1
        PROVE  Elem(a, p) >= Elem(a, k)
    <3>1. p >= i
      BY <2>2
    <3>2. QED
      BY <2>1, <2>2, <3>1 DEF Heap
  <2>3. ASSUME NEW g \in Nat, IsChild(g, i - 1), g >= i - 1
        PROVE  FALSE
    BY <2>1, <2>3 DEF IsChild
  <2>4. HeapFrom(a, i - 1, i - 1, n)
    BY <1>1, <2>1, <2>2, <2>3, HeapFromDef
  <2>5. i - 1 \in (i - 1)..(n - 1)
    BY <1>1, <2>1
  <2>6. QED
    BY <2>1, <2>4, <2>5 DEF Building
<1>5. QED
  BY <1>2, <1>3, <1>4 DEF l

(* The first m + 1 elements are a heap and not above the others, which are *)
(* in order: the largest goes to place m.                                  *)
LEMMA ExtractLargest ==
  ASSUME NEW file, NEW a, Holds(file, a), NEW m \in 0..(Len(a) - 1), Heap(a, 0, m + 1),
         RisesFrom(a, m + 1),
         m + 1 < Len(a) => \A k \in 0..m : Elem(a, k) <= Elem(a, m + 1)
  PROVE  /\ m > 0 => Holds(file, Swap(a, 0, m)) /\ Extracting(Swap(a, 0, m), m, 0)
         /\ m = 0 => Ascending(a)
<1> DEFINE n == Len(a)
           b == Swap(a, 0, m)
<1>1. /\ a \in Array /\ n \in Nat /\ m \in Nat /\ m + 1 \in Nat /\ m + 1 <= n
      /\ 0 \in 0..(n - 1)
      /\ \A k \in 0..(n - 1) : Elem(a, k) \in Int
  BY ElemType DEF Holds
<1>2. /\ b \in Array /\ Len(b) = n /\ Holds(file, b)
      /\ \A k \in 0..(n - 1) :
           Elem(b, k) = IF k = m THEN Elem(a, 0) ELSE IF k = 0 THEN Elem(a, m) ELSE Elem(a, k)
  BY <1>1, SwapElements, SwapHolds
<1>3. \A k \in 0..(n - 2) : k >= m + 1 => Elem(a, k) <= Elem(a, k + 1)
  BY <1>1 DEF RisesFrom
<1> HIDE DEF b, n
<1>4. ASSUME m = 0 PROVE Ascending(a)
  <2>1. ASSUME NEW k \in 0..(n - 2) PROVE Elem(a, k) <= Elem(a, k + 1)
    <3>1. CASE k = 0
      BY <1>1, <1>4, <3>1 DEF n
    <3>2. CASE k # 0
      BY <1>1, <1>3, <1>4, <3>2
    <3>3. QED
      BY <3>1, <3>2
  <2>2. RisesFrom(a, 0)
    BY <2>1 DEF RisesFrom, n
  <2>3. QED
    BY <1>1, <2>2, RisesPart DEF n
<1>5. ASSUME m > 0 PROVE Extracting(b, m, 0)
  <2>1. \A k \in 0..m : Elem(a, 0) >= Elem(a, k)
    <3>1. \A k \in 0..((m + 1) - 1) : Elem(a, 0) >= Elem(a, k)
      BY <1>1, RootLargest DEF n
    <3>2. (m + 1) - 1 = m
      BY <1>1
    <3>3. QED
      BY <3>1, <3>2
  <2>2. ASSUME NEW p \in Nat, NEW k \in 1..(m - 1), IsChild(p, k), p >= 0, p # 0
        PROVE  Elem(b, p) >= Elem(b, k)
    <3>1. p < k
      BY <2>2 DEF IsChild
    <3>2. p \in 0..(n - 1) /\ k \in 0..(n - 1) /\ p # m /\ k # m /\ k # 0 /\ k \in 1..((m + 1) - 1)
      BY <1>1, <2>2, <3>1
    <3>3. Elem(b, p) = Elem(a, p) /\ Elem(b, k) = Elem(a, k)
      BY <1>2, <2>2, <3>2
    <3>4. QED
      BY <2>2, <3>2, <3>3 DEF Heap
  <2>3. ~ \E g \in Nat : IsChild(g, 0)
    BY DEF IsChild
  <2>4. HeapFrom(b, 0, 0, m)
    BY <1>1, <2>2, <2>3, HeapFromDef
  <2>5. ASSUME NEW k \in m..(n - 2) PROVE Elem(b, k) <= Elem(b, k + 1)
    <3>1. k \in 0..(n - 1) /\ k + 1 \in 0..(n - 1) /\ k + 1 # m /\ k + 1 # 0 /\ k # 0 /\ k \in 0..(n - 2)
      BY <1>1, <1>5, <2>5
    <3>2. Elem(b, k + 1) = Elem(a, k + 1)
      BY <1>2, <3>1
    <3>3. CASE k = m
      <4>1. Elem(b, k) = Elem(a, 0)
        BY <1>2, <3>1, <3>3
      <4>2. Elem(a, 0) <= Elem(a, m + 1)
        <5>1. m + 1 < Len(a) /\ 0 \in 0..m
          BY <1>1, <2>5, <3>3 DEF n
        <5>2. QED
          BY <5>1
      <4>3. QED
        BY <3>2, <3>3, <4>1, <4>2
    <3>4. CASE k # m
      <4>1. Elem(b, k) = Elem(a, k) /\ k >= m + 1
        BY <1>1, <1>2, <2>5, <3>1, <3>4
      <4>2. QED
        BY <1>3, <3>1, <3>2, <4>1
    <3>5. QED
      BY <3>3, <3>4
  <2>6. ASSUME NEW k \in 0..(m - 1) PROVE Elem(b, k) <= Elem(b, m)
    <3>1. k \in 0..(n - 1) /\ m \in 0..(n - 1) /\ k # m /\ k \in 0..m /\ m \in 0..m
      BY <1>1, <2>6
    <3>2. Elem(b, m) = Elem(a, 0) /\ Elem(b, k) \in {Elem(a, m), Elem(a, k)}
      BY <1>2, <3>1
    <3>3. Elem(a, 0) \in Int /\ Elem(a, m) \in Int /\ Elem(a, k) \in Int
      BY <1>1, <3>1
    <3>4. QED
      BY <2>1, <3>1, <3>2, <3>3
  <2>7. m \in 1..(n - 1) /\ 0 \in 0..(m - 1)
    BY <1>1, <1>5
  <2>8. RisesFrom(b, m)
    BY <1>2, <2>5 DEF RisesFrom
  <2>9. QED
    BY <1>2, <2>4, <2>6, <2>7, <2>8 DEF Extracting
<1>6. QED
  BY <1>2, <1>4, <1>5 DEF b

(* The first loop is over: the whole array is a heap. *)
LEMMA BuildEnds ==
  ASSUME NEW file, NEW a, Holds(file, a), NEW i, NEW j, Building(a, i, j),
         i < 0 \/ (i = 0 /\ Largest(a, j, Len(a)) = j)
  PROVE  LET m == Len(a) - 1 IN
         /\ m > 0 => Holds(file, Swap(a, 0, m)) /\ Extracting(Swap(a, 0, m), m, 0)
         /\ ~(m > 0) => Ascending(a)
<1> DEFINE m == Len(a) - 1
<1>1. Len(a) \in Nat
  BY ElemType DEF Holds
<1>2. Heap(a, 0, Len(a)) /\ m \in 0..(Len(a) - 1)
  <2>1. CASE i \in Nat
    <3>1. i = 0
      BY <2>1
    <3>2. j \in 0..(Len(a) - 1)
      BY <3>1 DEF Building
    <3>3. QED
      BY <1>1, <2>1, <3>1, <3>2, BuildStep
  <2>2. CASE Len(a) = 1
    BY <2>2 DEF Heap
  <2>3. QED
    BY <2>1, <2>2 DEF Building
<1>3. m + 1 = Len(a)
  BY <1>1
<1>4. RisesFrom(a, m + 1)
  BY <1>1, <1>3 DEF RisesFrom
<1> HIDE DEF m
<1>5. Heap(a, 0, m + 1) /\ ~(m + 1 < Len(a))
  BY <1>1, <1>2, <1>3
<1>6. m > 0 \/ m = 0
  BY <1>1, <1>2
<1>7. QED
  BY <1>2, <1>4, <1>5, <1>6, ExtractLargest DEF m

(* The second loop: one swap, and the largest of the rest goes to its end. *)
LEMMA ExtractStep ==
  ASSUME NEW file, NEW a, Holds(file, a), NEW i, NEW j, Extracting(a, i, j)
  PROVE  LET l == Largest(a, j, i)
             m == i - 1
         IN /\ l # j => Holds(file, Swap(a, j, l)) /\ Extracting(Swap(a, j, l), i, l) /\ l \in Int
            /\ l = j /\ m > 0 => Holds(file, Swap(a, 0, m)) /\ Extracting(Swap(a, 0, m), m, 0)
            /\ l = j /\ ~(m > 0) => Ascending(a)
<1> DEFINE l == Largest(a, j, i)
           m == i - 1
           n == Len(a)
           b == Swap(a, j, l)
<1>1. /\ a \in Array /\ n \in Nat /\ i \in 1..(n - 1) /\ j \in 0..(i - 1)
      /\ HeapFrom(a, 0, j, i) /\ RisesFrom(a, i)
      /\ \A k \in 0..(i - 1) : Elem(a, k) <= Elem(a, i)
  BY ElemType DEF Holds, Extracting
<1>2. i \in Nat /\ i <= n /\ 0 <= j /\ m \in 0..(n - 1) /\ m + 1 = i /\ (m > 0 \/ m = 0)
  BY <1>1
<1> HIDE DEF m
<1>3. ASSUME l # j PROVE Holds(file, b) /\ Extracting(b, i, l) /\ l \in Int
  <2>1. HeapFrom(b, 0, l, i) /\ l \in 0..(i - 1)
    <3>1. QED
      BY <1>1, <1>2, <1>3, SiftStep
  <2> HIDE DEF l
  <2>2. j \in 0..(n - 1) /\ l \in 0..(n - 1)
    BY <1>1, <2>1
  <2>3. /\ Len(b) = n /\ Holds(file, b)
        /\ \A k \in 0..(n - 1) :
             Elem(b, k) = IF k = l THEN Elem(a, j) ELSE IF k = j THEN Elem(a, l) ELSE Elem(a, k)
    BY <1>1, <2>2, SwapElements, SwapHolds
  <2> HIDE DEF b
  <2>4. \A k \in i..(n - 1) : k \in 0..(n - 1) /\ k # l /\ k # j
    BY <1>1, <2>1
  <2>5. \A k \in i..(n - 1) : Elem(b, k) = Elem(a, k)
    BY <2>3, <2>4
  <2>6. RisesFrom(b, i)
    <3>1. \A k \in i..(n - 2) : k \in i..(n - 1) /\ k + 1 \in i..(n - 1)
      BY <1>1
    <3>2. QED
      BY <1>1, <2>3, <2>5, <3>1 DEF RisesFrom, n
  <2>7. ASSUME NEW k \in 0..(i - 1) PROVE Elem(b, k) <= Elem(b, i)
    <3>1. Elem(b, i) = Elem(a, i)
      BY <1>1, <2>5
    <3>2. k \in 0..(n - 1)
      BY <1>1
    <3>3. Elem(b, k) = Elem(a, j) \/ Elem(b, k) = Elem(a, l) \/ Elem(b, k) = Elem(a, k)
      BY <2>3, <3>2
    <3>4. QED
      BY <1>1, <2>1, <3>1, <3>3
  <2>8. QED
    BY <1>1, <2>1, <2>3, <2>6, <2>7 DEF Extracting
<1>4. ASSUME l = j
      PROVE  /\ m > 0 => Holds(file, Swap(a, 0, m)) /\ Extracting(Swap(a, 0, m), m, 0)
             /\ ~(m > 0) => Ascending(a)
  <2>1. Heap(a, 0, m + 1)
    <3>1. Heap(a, 0, i)
      BY <1>1, <1>2, <1>4, SiftOver
    <3>2. QED
      BY <1>2, <3>1
  <2>2. RisesFrom(a, m + 1) /\ \A k \in 0..m : Elem(a, k) <= Elem(a, m + 1)
    <3>1. i - 1 = m
      BY <1>2
    <3>2. QED
      BY <1>1, <1>2, <3>1
  <2>3. QED
    BY <1>2, <2>1, <2>2, ExtractLargest
<1>5. QED
  BY <1>3, <1>4 DEF l, m, b

(* Any element of an array in order is at most any behind it. *)
LEMMA AscendingAll ==
  ASSUME NEW a \in Array, Ascending(a), NEW i \in 0..(Len(a) - 1), NEW k \in i..(Len(a) - 1)
  PROVE  Elem(a, i) <= Elem(a, k)
<1> DEFINE T == {m \in Nat : i + m <= Len(a) - 1 => Elem(a, i) <= Elem(a, i + m)}
<1>1. /\ Len(a) \in Nat /\ i \in Nat
      /\ \A m \in 0..(Len(a) - 1) : Elem(a, m) \in Int
  BY ElemType
<1>2. 0 \in T
  BY <1>1
<1>3. ASSUME NEW m \in Nat, m \in T PROVE m + 1 \in T
  <2> SUFFICES ASSUME i + (m + 1) <= Len(a) - 1 PROVE Elem(a, i) <= Elem(a, i + (m + 1))
    OBVIOUS
  <2>1. /\ i + m \in 0..(Len(a) - 1) /\ i + (m + 1) \in 0..(Len(a) - 1)
        /\ (i + m) + 1 \in 1..(Len(a) - 1) /\ i + m + 1 = i + (m + 1)
    BY <1>1
  <2>2. Elem(a, i + m) <= Elem(a, i + (m + 1))
    BY <2>1 DEF Ascending, Elem
  <2>3. Elem(a, i) <= Elem(a, i + m)
    BY <1>3, <2>1
  <2>4. QED
    BY <1>1, <2>1, <2>2, <2>3
<1>4. Nat \subseteq T
  <2> HIDE DEF T
  <2>1. QED
    BY <1>2, <1>3, AllNumbers
<1>5. k - i \in Nat /\ i + (k - i) = k
  BY <1>1
<1>6. k - i \in T
  BY <1>4, <1>5
<1>7. QED
  BY <1>5, <1>6

-----------------------------------------------------------------------------
(* The inductive invariant of MergeSort.                                   *)

FileOf(f) == disk[Filename(f)]

(* The command line is parsed before anything else happens.                *)
SetUp ==
  /\ argv \in CommandLines /\ disk \in [Files -> Contents]
  /\ phase \in {"start", "create", "wait", "open", "merge"} \/ Ended
  /\ sorted_arrays \in Seq(Array)
  /\ phase \in {"start", "usage"} => Len(sorted_arrays) = 0
  /\ phase \notin {"start", "usage"} =>
       /\ files_count \in Nat \ {0} /\ files_count <= Len(argv)
       /\ Len(sorted_arrays) = files_count
  /\ file_to_sort_idx \in 0..Len(sorted_arrays)

(* When main is behind its loop of coro_sched_wait. *)
LastPhases == {"open", "merge", "done", "no output"}

(* Coroutines run only while main waits for them, and they return when     *)
(* they have no file and none is left.                                     *)
Control ==
  /\ coro_this_ptr # coro_sched => phase \in {"wait", "no file"}
  /\ \A c \in Coros :
       /\ coro[c].life = "none" => work[c] = Idle
       /\ coro[c].is_finished => work[c] = Idle /\ file_to_sort_idx = Len(sorted_arrays)
       /\ coro[c].life = "freed" => coro[c].is_finished
  /\ phase = "start" => \A c \in Coros : coro[c].life = "none"
  /\ phase \in {"wait"} \cup LastPhases => \E c \in Coros : coro[c].life # "none"
  /\ phase \in LastPhases => coro_list = <<>>

(* A coroutine with local state w works on the array a of a file.          *)
GoodWork(w, file, a) ==
  /\ w.pc \in {"read", "build", "extract"}
  /\ w.pc \in {"build", "extract"} => Holds(file, a)
  /\ w.pc = "build" => Building(a, w.i, w.j)
  /\ w.pc = "extract" => Extracting(a, w.i, w.j)

WorkType ==
  work \in [Coros -> [pc : {"pick", "read", "build", "extract"}, file : Nat, i : Int, j : Int]]

AtWork(c) ==
  LET f == work[c].file IN
  /\ f \in 1..file_to_sort_idx /\ Filename(f) \in Files
  /\ GoodWork(work[c], FileOf(f), sorted_arrays[f])

Untaken(f) == \A c \in Coros : work[c].file # f

(* Every file belongs to one coroutine, or is not sorted yet, or is.       *)
FilesOwned ==
  /\ WorkType
  /\ \A c \in Coros : work[c] = Idle \/ AtWork(c)
  /\ \A c, d \in Coros : work[c].file = work[d].file /\ work[c].file # 0 => c = d
  /\ \A f \in 1..Len(sorted_arrays) : f > file_to_sort_idx => sorted_arrays[f] = <<>>
  /\ phase # "no file" =>
       \A f \in 1..file_to_sort_idx :
         /\ Filename(f) \in Files
         /\ Untaken(f) => Holds(FileOf(f), sorted_arrays[f]) /\ Ascending(sorted_arrays[f])

(* No number that is left is below what was written. *)
Merged ==
  /\ phase \notin {"merge", "done", "no output"} => current_indices = <<>> /\ output = <<>>
  /\ phase \in {"merge", "done", "no output"} =>
       /\ current_indices \in [1..Len(sorted_arrays) -> Nat]
       /\ \A f \in 1..Len(sorted_arrays) : current_indices[f] <= Len(sorted_arrays[f])
  /\ output \in Array /\ Ascending(output)
  /\ output # <<>> =>
       \A f \in 1..Len(sorted_arrays) :
         \A k \in current_indices[f]..(Len(sorted_arrays[f]) - 1) :
           output[Len(output)] <= Elem(sorted_arrays[f], k)

SortInvariant == CoroInvariant /\ SetUp /\ Control /\ FilesOwned /\ Merged

(* The program runs the coroutine library as its rules say. *)
LEMMA RunsCoro == [SortNext]_allVars => [Next]_vars
<1> SUFFICES ASSUME [SortNext]_allVars PROVE [Next]_vars
  OBVIOUS
<1>1. CASE MainStart
  BY <1>1 DEF MainStart
<1>2. CASE MainCreate
  BY <1>2 DEF MainCreate, Next
<1>3. CASE MainWait
  BY <1>3 DEF MainWait, Next
<1>4. CASE MainDelete
  BY <1>4 DEF MainDelete, Next
<1>5. CASE MainOpen
  BY <1>5 DEF MainOpen
<1>6. CASE MainMerge
  BY <1>6 DEF MainMerge
<1>7. ASSUME NEW c \in Coros, CoroutineStep(c) PROVE [Next]_vars
  <2>1. CASE PickFile(c)
    BY <2>1 DEF PickFile, YieldIfNecessary, Next
  <2>2. CASE ReadNumbers(c)
    BY <2>2 DEF ReadNumbers, YieldIfNecessary, Next
  <2>3. CASE BuildHeap(c)
    BY <2>3 DEF BuildHeap, SiftDown, ExtractFrom, YieldIfNecessary, Next
  <2>4. CASE ExtractMax(c)
    BY <2>4 DEF ExtractMax, SiftDown, ExtractFrom, YieldIfNecessary, Next
  <2>5. CASE CoroutineReturns(c)
    BY <2>5 DEF CoroutineReturns, Next
  <2>6. QED
    BY <1>7, <2>1, <2>2, <2>3, <2>4, <2>5 DEF CoroutineStep
<1>8. CASE Terminated \/ UNCHANGED allVars
  BY <1>8 DEF Terminated, allVars
<1>9. QED
  BY <1>1, <1>2, <1>3, <1>4, <1>5, <1>6, <1>7, <1>8 DEF SortNext

(* The names of the files stay what they are. *)
LEMMA SameInput ==
  ASSUME argv' = argv, disk' = disk
  PROVE  /\ files_count' = files_count
         /\ \A f : Filename(f)' = Filename(f)
         /\ \A f : FileOf(f)' = FileOf(f)
BY DEF files_count, Options, Filename, FileOf

(* Behind the loop of coro_sched_wait all work has been done. *)
LEMMA AllDone ==
  ASSUME SortInvariant, phase \in LastPhases
  PROVE  /\ file_to_sort_idx = Len(sorted_arrays)
         /\ \A c \in Coros : work[c] = Idle
<1>1. \A c \in Coros : coro[c].life = "live" => c \in returned
  <2>1. coro_list = <<>>
    BY DEF SortInvariant, Control
  <2>2. Range(coro_list) = {}
    BY <2>1, NothingInEmpty
  <2>3. QED
    BY <2>2 DEF SortInvariant, CoroInvariant, ListExact
<1>2. \A c \in Coros : coro[c].life # "none" => coro[c].is_finished
  BY <1>1 DEF SortInvariant, CoroInvariant, TypeOK, Control
<1>3. \A c \in Coros : work[c] = Idle
  BY <1>2 DEF SortInvariant, Control
<1>4. QED
  BY <1>2, <1>3 DEF SortInvariant, Control

(* Before main has looked at its arguments.                                *)
LEMMA SortInitInvariant == SortInit => SortInvariant
<1> SUFFICES ASSUME SortInit PROVE SortInvariant
  OBVIOUS
<1>1. CoroInvariant
  BY InitInvariant DEF SortInit
<1>2. sorted_arrays \in Seq(Array) /\ Len(sorted_arrays) = 0 /\ output \in Array /\ Len(output) = 0
  BY DEF SortInit, Array
<1>3. SetUp
  BY <1>2 DEF SortInit, SetUp
<1>4. Control
  BY <1>2 DEF SortInit, Control, Init, NewCoro, LastPhases
<1>5. FilesOwned
  <2>1. \A c \in Coros : work[c] = Idle /\ work[c].file = 0
    BY DEF SortInit, Idle
  <2>2. WorkType
    BY DEF SortInit, WorkType, Idle
  <2>3. file_to_sort_idx = 0
    BY DEF SortInit
  <2>4. QED
    BY <1>2, <2>1, <2>2, <2>3 DEF FilesOwned
<1>6. Merged
  BY <1>2 DEF SortInit, Merged, Ascending
<1>7. QED
  BY <1>1, <1>3, <1>4, <1>5, <1>6 DEF SortInvariant

(* main: the command line, and the coroutines.                             *)
LEMMA MainStartStep ==
  ASSUME SortInvariant, MainStart
  PROVE  SetUp' /\ Control' /\ FilesOwned' /\ Merged'
<1> DEFINE n == IF ArgsParsed THEN files_count ELSE 0
<1>1. /\ phase = "start" /\ phase' = IF ArgsParsed THEN "create" ELSE "usage"
      /\ sorted_arrays' = [f \in 1..n |-> <<>>]
      /\ UNCHANGED <<vars, argv, disk, file_to_sort_idx, work, current_indices, output>>
  BY DEF MainStart
<1>2. files_count \in Int /\ files_count <= Len(argv)
  <2>1. Len(argv) \in Nat /\ DOMAIN argv = 1..Len(argv)
    BY MergeSortAssumption DEF SortInvariant, SetUp
  <2> DEFINE options == Options("-n") \cup Options("-t")
  <2>2. options \subseteq 1..Len(argv)
    BY <2>1 DEF Options
  <2>3. Cardinality(options) \in Nat
    <3>1. IsFiniteSet(1..Len(argv))
      BY <2>1, FS_Interval
    <3> HIDE DEF options
    <3>2. QED
      BY <2>2, <3>1, FS_Subset, FS_CardinalityType
  <2>4. QED
    BY <2>1, <2>3 DEF files_count
<1>3. n \in Nat /\ (ArgsParsed => n = files_count /\ n # 0)
  BY <1>2 DEF ArgsParsed
<1>4. ~ArgsParsed => n = 0
  OBVIOUS
<1> HIDE DEF n
<1>5. <<>> \in Array
  BY DEF Array
<1>6. /\ sorted_arrays' \in Seq(Array) /\ Len(sorted_arrays') = n
      /\ \A f \in 1..n : sorted_arrays'[f] = <<>>
  BY <1>1, <1>3, <1>5
<1>7. file_to_sort_idx = 0
  BY <1>1 DEF SortInvariant, SetUp
<1>8. files_count' = files_count
  BY <1>1, SameInput
<1>9. SetUp'
  BY <1>1, <1>2, <1>3, <1>4, <1>6, <1>7, <1>8 DEF SortInvariant, SetUp, Ended
<1>10. \A c \in Coros : work[c] = Idle /\ coro[c].life = "none" /\ ~coro[c].is_finished
  BY <1>1 DEF SortInvariant, Control, CoroInvariant, NewUnfinished
<1>11. coro' = coro /\ work' = work /\ coro_this_ptr' = coro_this_ptr /\ phase' \in {"create", "usage"}
  BY <1>1 DEF vars
<1>12. Control'
  BY <1>1, <1>10, <1>11 DEF SortInvariant, Control, LastPhases
<1>13. FilesOwned'
  <2>1. \A c \in Coros : work[c].file = 0
    BY <1>10 DEF Idle
  <2>2. WorkType'
    BY <1>11 DEF SortInvariant, FilesOwned, WorkType
  <2>3. file_to_sort_idx' = 0
    BY <1>1, <1>7
  <2>4. QED
    BY <1>6, <1>10, <1>11, <2>1, <2>2, <2>3 DEF FilesOwned
<1>14. Merged'
  BY <1>1, <1>11 DEF SortInvariant, Merged
<1>15. QED
  BY <1>9, <1>12, <1>13, <1>14

(* What a step leaves alone stays owned.                                   *)
LEMMA FilesKept ==
  ASSUME SortInvariant, UNCHANGED <<argv, disk, file_to_sort_idx, sorted_arrays, work>>,
         phase = "no file" => phase' = "no file"
  PROVE  FilesOwned'
<1>1. ASSUME NEW c PROVE AtWork(c) => AtWork(c)'
  <2> DEFINE f == work[c].file
  <2>1. Filename(f)' = Filename(f) /\ FileOf(f)' = FileOf(f)
    BY SameInput
  <2>2. work[c]' = work[c] /\ sorted_arrays[f]' = sorted_arrays[f]
    OBVIOUS
  <2>3. QED
    BY <2>1, <2>2 DEF AtWork
<1>2. \A f : /\ Filename(f)' = Filename(f) /\ FileOf(f)' = FileOf(f)
             /\ Untaken(f)' = Untaken(f)
  BY SameInput DEF Untaken
<1>3. WorkType'
  BY DEF SortInvariant, FilesOwned, WorkType
<1>4. QED
  BY <1>1, <1>2, <1>3 DEF SortInvariant, FilesOwned

(* A coroutine is created; it has no file yet.                             *)
LEMMA MainCreateStep ==
  ASSUME SortInvariant, MainCreate
  PROVE  SetUp' /\ Control' /\ FilesOwned' /\ Merged'
<1>1. /\ phase = "create" /\ phase' \in {"create", "wait"}
      /\ UNCHANGED <<argv, disk, file_to_sort_idx, sorted_arrays, work, current_indices, output>>
  BY DEF MainCreate
<1>2. PICK c \in Coros : coro[c].life = "none" /\ CoroNew(c)
  BY DEF MainCreate
<1>3. /\ coro_this_ptr' = coro_this_ptr
      /\ coro'[c].life = "live" /\ ~coro'[c].is_finished /\ coro[c].life = "none"
      /\ \A d \in Coros : d # c => coro'[d] = coro[d]
  BY <1>2 DEF CoroNew, SortInvariant, CoroInvariant, TypeOK
<1>4. SetUp'
  BY <1>1, SameInput DEF SortInvariant, SetUp, Ended
<1>5. Control'
  BY <1>1, <1>3 DEF SortInvariant, Control, LastPhases
<1>6. FilesOwned'
  BY <1>1, FilesKept
<1>7. Merged'
  BY <1>1 DEF SortInvariant, Merged
<1>8. QED
  BY <1>4, <1>5, <1>6, <1>7

(* main: its loop of coro_sched_wait.                                      *)
LEMMA MainWaitStep ==
  ASSUME SortInvariant, MainWait
  PROVE  SetUp' /\ Control' /\ FilesOwned' /\ Merged'
<1>1. /\ phase = "wait" /\ phase' = IF coro_list = <<>> THEN "open" ELSE "wait"
      /\ CoroSchedWait /\ coro_this_ptr = coro_sched
      /\ UNCHANGED <<argv, disk, file_to_sort_idx, sorted_arrays, work, current_indices, output>>
  BY DEF MainWait
<1>2. /\ coro' = coro
      /\ coro_list = <<>> => coro_this_ptr' = coro_this_ptr /\ coro_list' = coro_list
      /\ coro_this_ptr = coro_sched
  BY <1>1 DEF CoroSchedWait, SchedReturns, SchedLeaves, SchedYields
<1>3. SetUp'
  BY <1>1, SameInput DEF SortInvariant, SetUp, Ended
<1>4. Control'
  BY <1>1, <1>2 DEF SortInvariant, Control, LastPhases
<1>5. FilesOwned'
  BY <1>1, FilesKept
<1>6. Merged'
  BY <1>1 DEF SortInvariant, Merged
<1>7. QED
  BY <1>3, <1>4, <1>5, <1>6

(* main deletes only coroutines that have returned.                        *)
LEMMA MainDeleteStep ==
  ASSUME SortInvariant, MainDelete
  PROVE  SetUp' /\ Control' /\ FilesOwned' /\ Merged'
<1>1. phase = "wait" /\ UNCHANGED sortVars
  BY DEF MainDelete
<1>2. PICK c \in Coros : CoroDelete(c)
  BY DEF MainDelete
<1>3. /\ coro_this_ptr' = coro_this_ptr
      /\ coro'[c].life = "freed" /\ coro'[c].is_finished = coro[c].is_finished
      /\ coro[c].is_finished
      /\ \A d \in Coros : d # c => coro'[d] = coro[d]
  BY <1>2 DEF CoroDelete, SortInvariant, CoroInvariant, TypeOK
<1>4. SetUp'
  BY <1>1, SameInput DEF SortInvariant, SetUp, Ended, sortVars
<1>5. Control'
  BY <1>1, <1>3 DEF SortInvariant, Control, LastPhases, sortVars
<1>6. FilesOwned'
  BY <1>1, FilesKept DEF sortVars
<1>7. Merged'
  BY <1>1 DEF SortInvariant, Merged, sortVars
<1>8. QED
  BY <1>4, <1>5, <1>6, <1>7

(* main: the merge.                                                        *)
LEMMA MainOpenStep ==
  ASSUME SortInvariant, MainOpen
  PROVE  SetUp' /\ Control' /\ FilesOwned' /\ Merged'
<1>1. /\ phase = "open" /\ phase' \in {"merge", "no output"}
      /\ current_indices' = [f \in 1..files_count |-> 0]
      /\ UNCHANGED <<argv, disk, file_to_sort_idx, sorted_arrays, work, output>>
      /\ UNCHANGED <<coro_list, coro_this_ptr, coro>>
  BY DEF MainOpen, vars
<1>2. SetUp'
  BY <1>1, SameInput DEF SortInvariant, SetUp, Ended
<1>3. Control'
  BY <1>1 DEF SortInvariant, Control, LastPhases
<1>4. FilesOwned'
  BY <1>1, FilesKept
<1>5. Merged'
  <2>1. files_count = Len(sorted_arrays) /\ Len(sorted_arrays) \in Nat /\ sorted_arrays \in Seq(Array)
    BY <1>1 DEF SortInvariant, SetUp
  <2>2. \A f \in 1..Len(sorted_arrays) : Len(sorted_arrays[f]) \in Nat
    BY <2>1, ElemType
  <2>3. output = <<>> /\ output' = <<>>
    BY <1>1 DEF SortInvariant, Merged
  <2>4. /\ current_indices' \in [1..Len(sorted_arrays) -> Nat]
        /\ \A f \in 1..Len(sorted_arrays) : current_indices'[f] = 0
    BY <1>1, <2>1
  <2>5. sorted_arrays' = sorted_arrays /\ phase' \in {"merge", "no output"}
    BY <1>1
  <2>6. output' \in Array /\ Ascending(output')
    BY <1>1 DEF SortInvariant, Merged
  <2>7. \A f \in 1..Len(sorted_arrays) : current_indices'[f] <= Len(sorted_arrays[f])
    BY <2>2, <2>4
  <2>8. QED
    BY <2>3, <2>4, <2>5, <2>6, <2>7 DEF Merged
<1>6. QED
  BY <1>2, <1>3, <1>4, <1>5

(* The number written is at most every number left, and it is written at   *)
(* the end of an array in order.                                           *)
LEMMA AppendAscending ==
  ASSUME NEW s \in Array, Ascending(s), NEW v \in Int, s # <<>> => s[Len(s)] <= v
  PROVE  /\ Append(s, v) \in Array /\ Ascending(Append(s, v))
         /\ Append(s, v)[Len(Append(s, v))] = v
<1> DEFINE t == Append(s, v)
           n == Len(s)
<1>1. n \in Nat /\ (n # 0 => s # <<>>)
  BY DEF Array
<1>2. /\ t \in Array /\ Len(t) = n + 1 /\ t[n + 1] = v
      /\ \A k \in 1..n : t[k] = s[k]
  BY DEF Array
<1>3. \A k \in 1..(n - 1) : s[k] <= s[k + 1]
  BY DEF Ascending
<1>4. n # 0 => s[n] <= v
  BY <1>1
<1> HIDE DEF t, n
<1>5. ASSUME NEW k \in 1..(Len(t) - 1) PROVE t[k] <= t[k + 1]
  <2>1. CASE k = n
    <3>1. k \in 1..n /\ k + 1 = n + 1 /\ n # 0
      BY <1>1, <1>2, <2>1
    <3>2. t[k] = s[n] /\ t[k + 1] = v
      BY <1>2, <2>1, <3>1
    <3>3. QED
      BY <1>4, <3>1, <3>2
  <2>2. CASE k # n
    <3>1. k \in 1..(n - 1) /\ k \in 1..n /\ k + 1 \in 1..n
      BY <1>1, <1>2, <2>2
    <3>2. QED
      BY <1>2, <1>3, <3>1
  <2>3. QED
    BY <2>1, <2>2
<1>6. Ascending(t)
  BY <1>5 DEF Ascending
<1>7. QED
  BY <1>2, <1>6 DEF t

(* The smallest head is at most every number that is left.                 *)
LEMMA MainMergeStep ==
  ASSUME SortInvariant, MainMerge
  PROVE  SetUp' /\ Control' /\ FilesOwned' /\ Merged'
<1> DEFINE n == Len(sorted_arrays)
           Value(f) == Elem(sorted_arrays[f], current_indices[f])
<1>1. /\ phase = "merge" /\ phase' \in {"merge", "done"}
      /\ UNCHANGED <<argv, disk, file_to_sort_idx, sorted_arrays, work>>
      /\ UNCHANGED <<coro_list, coro_this_ptr, coro>>
  BY DEF MainMerge, vars
<1>2. SetUp'
  BY <1>1, SameInput DEF SortInvariant, SetUp, Ended
<1>3. Control'
  BY <1>1 DEF SortInvariant, Control, LastPhases
<1>4. FilesOwned'
  BY <1>1, FilesKept
<1>5. /\ files_count = n /\ n \in Nat
      /\ \A f \in 1..n : sorted_arrays[f] \in Array
      /\ current_indices \in [1..n -> Nat]
      /\ \A f \in 1..n : current_indices[f] \in Nat /\ current_indices[f] <= Len(sorted_arrays[f])
      /\ output \in Array /\ Ascending(output)
      /\ output # <<>> =>
           \A f \in 1..n : \A k \in current_indices[f]..(Len(sorted_arrays[f]) - 1) :
             output[Len(output)] <= Elem(sorted_arrays[f], k)
  BY <1>1 DEF SortInvariant, SetUp, Merged
<1>6. \A f \in 1..n : Len(sorted_arrays[f]) \in Nat
                      /\ \A k \in 0..(Len(sorted_arrays[f]) - 1) : Elem(sorted_arrays[f], k) \in Int
  BY <1>5, ElemType
<1>7. \A f \in 1..n : Ascending(sorted_arrays[f])
  <2>1. file_to_sort_idx = n /\ \A f \in 1..n : Untaken(f)
    BY <1>1, AllDone DEF LastPhases, Untaken, Idle
  <2>2. QED
    BY <1>1, <2>1 DEF SortInvariant, FilesOwned
<1> HIDE DEF n
<1>8. CASE Heads = {}
  <2>1. UNCHANGED <<current_indices, output>>
    BY <1>8 DEF MainMerge
  <2>2. Merged'
    BY <1>1, <2>1 DEF SortInvariant, Merged
  <2>3. QED
    BY <1>2, <1>3, <1>4, <2>2
<1>9. CASE Heads # {}
  <2>1. PICK f \in Heads :
          /\ \A g \in Heads : Value(f) < Value(g) \/ (Value(f) = Value(g) /\ f <= g)
          /\ output' = Append(output, Value(f))
          /\ current_indices' = [current_indices EXCEPT ![f] = @ + 1]
          /\ phase' = phase
    BY <1>9 DEF MainMerge
  <2> HIDE DEF Value
  <2>2. \A g \in Heads : /\ g \in 1..n /\ current_indices[g] < Len(sorted_arrays[g])
                         /\ Value(g) < INT_MAX
    BY <1>5 DEF Heads, Value
  <2>3. \A g \in 1..n : current_indices[g] < Len(sorted_arrays[g]) =>
          /\ current_indices[g] \in 0..(Len(sorted_arrays[g]) - 1) /\ Value(g) \in Int
          /\ current_indices[g] \in current_indices[g]..(Len(sorted_arrays[g]) - 1)
    BY <1>5, <1>6 DEF Value
  <2>4. Value(f) \in Int /\ f \in 1..n
    BY <2>2, <2>3
  <2>5. ASSUME NEW g \in 1..n, NEW k \in current_indices[g]..(Len(sorted_arrays[g]) - 1)
        PROVE  Value(f) <= Elem(sorted_arrays[g], k)
    <3>1. /\ current_indices[g] < Len(sorted_arrays[g])
          /\ k \in 0..(Len(sorted_arrays[g]) - 1)
          /\ current_indices[g] \in 0..(Len(sorted_arrays[g]) - 1)
      BY <1>5, <1>6
    <3>2. Value(g) <= Elem(sorted_arrays[g], k)
      BY <1>5, <1>7, <3>1, AscendingAll DEF Value
    <3>3. Value(f) <= Value(g)
      <4>1. CASE g \in Heads
        BY <2>1, <2>3, <2>4, <3>1, <4>1
      <4>2. CASE g \notin Heads
        <5>1. ~(Value(g) < INT_MAX)
          BY <1>5, <3>1, <4>2 DEF Heads, Value
        <5>2. QED
          BY <2>2, <2>3, <2>4, <3>1, <5>1, MergeSortAssumption
      <4>3. QED
        BY <4>1, <4>2
    <3>4. QED
      BY <1>6, <2>3, <2>4, <3>1, <3>2, <3>3
  <2>6. output # <<>> => output[Len(output)] <= Value(f)
    BY <1>5, <2>2, <2>3, <2>4 DEF Value
  <2>7. output' \in Array /\ Ascending(output') /\ output'[Len(output')] = Value(f)
    BY <1>5, <2>1, <2>4, <2>6, AppendAscending
  <2>8. /\ current_indices' \in [1..n -> Nat]
        /\ \A g \in 1..n : current_indices'[g] \in Nat /\ current_indices'[g] >= current_indices[g]
        /\ \A g \in 1..n : current_indices'[g] <= Len(sorted_arrays[g])
    <3>1. /\ current_indices' \in [1..n -> Nat]
          /\ current_indices'[f] = current_indices[f] + 1
          /\ \A g \in 1..n : g # f => current_indices'[g] = current_indices[g]
      BY <1>5, <2>1, <2>4
    <3>2. current_indices[f] + 1 <= Len(sorted_arrays[f])
      BY <1>5, <1>6, <2>2, <2>4
    <3>3. ASSUME NEW g \in 1..n
          PROVE  /\ current_indices'[g] \in Nat /\ current_indices'[g] >= current_indices[g]
                 /\ current_indices'[g] <= Len(sorted_arrays[g])
      <4>1. CASE g = f
        BY <1>5, <3>1, <3>2, <4>1
      <4>2. CASE g # f
        BY <1>5, <3>1, <4>2
      <4>3. QED
        BY <4>1, <4>2
    <3>4. QED
      BY <3>1, <3>3
  <2>9. ASSUME NEW g \in 1..n, NEW k \in current_indices'[g]..(Len(sorted_arrays[g]) - 1)
        PROVE  output'[Len(output')] <= Elem(sorted_arrays[g], k)
    <3>1. k \in current_indices[g]..(Len(sorted_arrays[g]) - 1)
      BY <1>5, <1>6, <2>8
    <3>2. QED
      BY <2>5, <2>7, <3>1
  <2>10. Merged'
    BY <1>1, <2>1, <2>7, <2>8, <2>9 DEF Merged, n
  <2>11. QED
    BY <1>2, <1>3, <1>4, <2>10
<1>10. QED
  BY <1>8, <1>9

-----------------------------------------------------------------------------
(* The coroutines of MergeSort.                                            *)

Works == [pc : {"pick", "read", "build", "extract"}, file : Nat, i : Int, j : Int]

(* A coroutine runs: main waits, and that coroutine has not returned.      *)
LEMMA Runner ==
  ASSUME SortInvariant, NEW c \in Coros, coro_this_ptr = c, ~Ended
  PROVE  phase = "wait" /\ coro[c].life = "live" /\ ~coro[c].is_finished
<1>1. c # coro_sched
  BY CoroAssumption
<1>2. phase = "wait"
  BY <1>1 DEF SortInvariant, Control, Ended
<1>3. c \in Range(coro_list)
  BY <1>1 DEF SortInvariant, CoroInvariant, RunnerListed
<1>4. coro[c].life = "live"
  BY <1>3 DEF SortInvariant, CoroInvariant, ListExact
<1>5. ~coro[c].is_finished
  BY <1>1, <1>3 DEF SortInvariant, CoroInvariant, FinishedSoonReturned
<1>6. QED
  BY <1>2, <1>4, <1>5

(* One of the coroutines works on its file, or is done with it.            *)
LEMMA WorkStep ==
  ASSUME SortInvariant, NEW c \in Coros, coro_this_ptr = c, ~Ended, AtWork(c),
         coro' = coro, UNCHANGED <<mainVars, file_to_sort_idx>>,
         NEW w \in Works, NEW a \in Array, NEW f, f = work[c].file,
         work' \in [Coros -> Works], work'[c] = w,
         \A d \in Coros : d # c => work'[d] = work[d],
         sorted_arrays' \in Seq(Array), Len(sorted_arrays') = Len(sorted_arrays),
         sorted_arrays'[f] = a,
         \A g \in 1..Len(sorted_arrays) : g # f => sorted_arrays'[g] = sorted_arrays[g],
         \/ w.file = f /\ GoodWork(w, FileOf(f), a)
         \/ w = Idle /\ Holds(FileOf(f), a) /\ Ascending(a)
  PROVE  SetUp' /\ Control' /\ FilesOwned' /\ Merged'
<1> DEFINE n == Len(sorted_arrays)
<1>1. phase = "wait" /\ coro[c].life = "live" /\ ~coro[c].is_finished
  BY Runner
<1>2. UNCHANGED <<argv, disk, phase, current_indices, output, file_to_sort_idx>>
  BY DEF mainVars
<1>3. SetUp'
  BY <1>1, <1>2, SameInput DEF SortInvariant, SetUp, Ended
<1>4. Control'
  BY <1>1, <1>2 DEF SortInvariant, Control, LastPhases
<1>5. Merged'
  <2>1. output = <<>> /\ current_indices = <<>> /\ output \in Array /\ Ascending(output)
    BY <1>1 DEF SortInvariant, Merged
  <2>2. output' = <<>> /\ current_indices' = <<>> /\ phase' = "wait" /\ output' \in Array
    BY <1>1, <1>2, <2>1
  <2>3. QED
    BY <2>1, <2>2 DEF Merged
<1>6. /\ file_to_sort_idx \in 0..n /\ n \in Nat /\ f \in 1..file_to_sort_idx /\ f # 0 /\ f \in 1..n
      /\ Filename(f) \in Files
  BY DEF SortInvariant, SetUp, AtWork
<1>7. \A g : Filename(g)' = Filename(g) /\ FileOf(g)' = FileOf(g)
  BY <1>2, SameInput
<1>8. \A d \in Coros : d # c => work[d].file # f
  BY <1>6 DEF SortInvariant, FilesOwned
<1>9. ASSUME NEW d \in Coros, d # c, work[d] # Idle PROVE AtWork(d)'
  <2>1. AtWork(d)
    BY <1>9 DEF SortInvariant, FilesOwned
  <2>2. PICK g : g = work[d].file
    OBVIOUS
  <2>3. g # f /\ g \in 1..n
    BY <1>6, <1>8, <1>9, <2>1, <2>2 DEF AtWork
  <2>4. work[d]' = work[d] /\ sorted_arrays[g]' = sorted_arrays[g] /\ file_to_sort_idx' = file_to_sort_idx
    BY <1>2, <1>9, <2>3
  <2>5. Filename(g)' = Filename(g) /\ FileOf(g)' = FileOf(g)
    BY <1>7
  <2>6. QED
    BY <2>1, <2>2, <2>4, <2>5 DEF AtWork
<1>10. work[c]' = Idle \/ AtWork(c)'
  <2>1. CASE w.file = f /\ GoodWork(w, FileOf(f), a)
    <3>1. work[c]' = w /\ sorted_arrays[f]' = a /\ Filename(f)' = Filename(f) /\ FileOf(f)' = FileOf(f)
      BY <1>7
    <3>2. QED
      BY <1>2, <1>6, <2>1, <3>1 DEF AtWork
  <2>2. QED
    BY <2>1
<1>11. \A d \in Coros : work'[d].file = work[d].file \/ (d = c /\ work'[d].file = 0)
  BY DEF Idle
<1>12. \A d, e \in Coros : work'[d].file = work'[e].file /\ work'[d].file # 0 => d = e
  BY <1>11 DEF SortInvariant, FilesOwned
<1>13. \A g \in 1..n : g > file_to_sort_idx => sorted_arrays'[g] = <<>>
  <2>1. \A g \in 1..n : g > file_to_sort_idx => g # f
    BY <1>6
  <2>2. QED
    BY <2>1 DEF SortInvariant, FilesOwned
<1>14. ASSUME NEW g \in 1..file_to_sort_idx
       PROVE  /\ Filename(g) \in Files
              /\ Untaken(g)' => Holds(FileOf(g), sorted_arrays'[g]) /\ Ascending(sorted_arrays'[g])
  <2>1. /\ Filename(g) \in Files
        /\ Untaken(g) => Holds(FileOf(g), sorted_arrays[g]) /\ Ascending(sorted_arrays[g])
    BY <1>1, <1>14 DEF SortInvariant, FilesOwned
  <2>2. CASE g = f
    <3>1. Untaken(g)' => Holds(FileOf(f), a) /\ Ascending(a)
      BY <2>2 DEF Untaken
    <3>2. QED
      BY <2>1, <2>2, <3>1
  <2>3. CASE g # f
    <3>1. g \in 1..n
      BY <1>6
    <3>2. Untaken(g)' => Untaken(g)
      BY <2>3, <1>11 DEF Untaken
    <3>3. QED
      BY <2>1, <2>3, <3>1, <3>2
  <2>4. QED
    BY <2>2, <2>3
<1>15. FilesOwned'
  <2>1. WorkType'
    BY DEF WorkType, Works
  <2>2. \A d \in Coros : work'[d] = Idle \/ AtWork(d)'
    BY <1>9, <1>10
  <2>3. QED
    BY <1>2, <1>7, <1>12, <1>13, <1>14, <2>1, <2>2 DEF FilesOwned
<1>16. QED
  BY <1>3, <1>4, <1>5, <1>15

(* Putting one array in the place of another. *)
LEMMA Stored ==
  ASSUME NEW s \in Seq(Array), NEW f \in 1..Len(s), NEW a \in Array
  PROVE  LET t == [s EXCEPT ![f] = a] IN
         /\ t \in Seq(Array) /\ Len(t) = Len(s) /\ t[f] = a
         /\ \A g \in 1..Len(s) : g # f => t[g] = s[g]
OBVIOUS

(* A coroutine that has a file is not looking for one. *)
LEMMA HasFile ==
  ASSUME SortInvariant, NEW c \in Coros, work[c].pc # "pick"
  PROVE  /\ AtWork(c)
         /\ work[c] \in Works /\ work \in [Coros -> Works]
         /\ work[c].file \in 1..Len(sorted_arrays)
         /\ sorted_arrays \in Seq(Array) /\ sorted_arrays[work[c].file] \in Array
         /\ FileOf(work[c].file) \in Contents
<1>1. AtWork(c)
  <2>1. work[c] # Idle
    BY DEF Idle
  <2>2. QED
    BY <2>1 DEF SortInvariant, FilesOwned
<1>2. work[c].file \in 1..Len(sorted_arrays) /\ sorted_arrays \in Seq(Array)
  BY <1>1 DEF SortInvariant, SetUp, AtWork
<1>3. sorted_arrays[work[c].file] \in Array
  BY <1>2
<1>4. work \in [Coros -> Works]
  BY DEF SortInvariant, FilesOwned, WorkType, Works
<1>5. FileOf(work[c].file) \in Contents
  BY <1>1 DEF SortInvariant, SetUp, AtWork, FileOf
<1>6. QED
  BY <1>1, <1>2, <1>3, <1>4, <1>5

(* The numbers of the file are read into the array.                        *)
LEMMA ReadStep ==
  ASSUME SortInvariant, NEW c \in Coros, ~Ended, ReadNumbers(c)
  PROVE  SetUp' /\ Control' /\ FilesOwned' /\ Merged'
<1> DEFINE i == NumbersCount(FileOf(work[c].file)) \div 2 - 1
           w == [work[c] EXCEPT !.pc = "build", !.i = i, !.j = i]
<1>1. PICK f : f = work[c].file
  OBVIOUS
<1>2. /\ coro_this_ptr = c /\ work[c].pc = "read"
      /\ work' = [work EXCEPT ![c].pc = "build", ![c].i = i, ![c].j = i]
      /\ UNCHANGED <<mainVars, file_to_sort_idx>>
      /\ coro' = coro
  BY DEF ReadNumbers, Running, YieldIfNecessary, CoroYield, FileOf, vars
<1>3. PICK a \in Readings(FileOf(f)) : sorted_arrays' = [sorted_arrays EXCEPT ![f] = a]
  BY <1>1 DEF ReadNumbers, FileOf
<1>4. /\ AtWork(c) /\ work[c] \in Works /\ work \in [Coros -> Works]
      /\ f \in 1..Len(sorted_arrays) /\ sorted_arrays \in Seq(Array) /\ FileOf(f) \in Contents
  BY <1>1, <1>2, HasFile
<1>5. Holds(FileOf(f), a) /\ Building(a, i, i) /\ i \in Int
  BY <1>1, <1>3, <1>4, ReadArray
<1> HIDE DEF i
<1>6. /\ w \in Works /\ w.pc = "build" /\ w.i = i /\ w.j = i /\ w.file = f
      /\ work' \in [Coros -> Works] /\ work'[c] = w /\ \A d \in Coros : d # c => work'[d] = work[d]
  BY <1>1, <1>2, <1>4, <1>5 DEF Works
<1> HIDE DEF w
<1>7. a \in Array
  BY <1>5 DEF Holds
<1>8. /\ sorted_arrays' \in Seq(Array) /\ Len(sorted_arrays') = Len(sorted_arrays)
      /\ sorted_arrays'[f] = a
      /\ \A g \in 1..Len(sorted_arrays) : g # f => sorted_arrays'[g] = sorted_arrays[g]
  BY <1>3, <1>4, <1>7, Stored
<1>9. GoodWork(w, FileOf(f), a)
  BY <1>5, <1>6 DEF GoodWork
<1>10. QED
  BY <1>1, <1>2, <1>4, <1>6, <1>7, <1>8, <1>9, WorkStep

(* One swap of either loop of heap_sort. *)
LEMMA SiftWork ==
  ASSUME SortInvariant, NEW c \in Coros, ~Ended, coro_this_ptr = c, work[c].pc # "pick",
         NEW size, SiftDown(c, size),
         NEW f, f = work[c].file, NEW l, l = Largest(sorted_arrays[f], work[c].j, size), l \in Int,
         NEW a, a = Swap(sorted_arrays[f], work[c].j, l),
         GoodWork([work[c] EXCEPT !.j = l], FileOf(f), a), Holds(FileOf(f), a)
  PROVE  SetUp' /\ Control' /\ FilesOwned' /\ Merged'
<1> DEFINE w == [work[c] EXCEPT !.j = l]
<1>1. /\ work' = [work EXCEPT ![c].j = l]
      /\ sorted_arrays' = [sorted_arrays EXCEPT ![f] = a]
      /\ UNCHANGED <<mainVars, file_to_sort_idx>>
      /\ coro' = coro
  BY DEF SiftDown, YieldIfNecessary, CoroYield, vars
<1>2. /\ AtWork(c) /\ work[c] \in Works /\ work \in [Coros -> Works]
      /\ f \in 1..Len(sorted_arrays) /\ sorted_arrays \in Seq(Array)
  BY HasFile
<1>3. /\ w \in Works /\ w.file = f
      /\ work' \in [Coros -> Works] /\ work'[c] = w /\ \A d \in Coros : d # c => work'[d] = work[d]
  BY <1>1, <1>2 DEF Works
<1>4. GoodWork(w, FileOf(f), a)
  OBVIOUS
<1> HIDE DEF w
<1>5. a \in Array
  BY DEF Holds
<1>6. /\ sorted_arrays' \in Seq(Array) /\ Len(sorted_arrays') = Len(sorted_arrays)
      /\ sorted_arrays'[f] = a
      /\ \A g \in 1..Len(sorted_arrays) : g # f => sorted_arrays'[g] = sorted_arrays[g]
  BY <1>1, <1>2, <1>5, Stored
<1>7. QED
  BY <1>1, <1>2, <1>3, <1>4, <1>5, <1>6, WorkStep

(* The second loop reaches m, or ends. *)
LEMMA ExtractWork ==
  ASSUME SortInvariant, NEW c \in Coros, ~Ended, coro_this_ptr = c, work[c].pc # "pick",
         NEW m \in Int, ExtractFrom(c, m),
         NEW f, f = work[c].file, NEW a, a = sorted_arrays[f], Holds(FileOf(f), a),
         m > 0 => Holds(FileOf(f), Swap(a, 0, m)) /\ Extracting(Swap(a, 0, m), m, 0),
         ~(m > 0) => Ascending(a)
  PROVE  SetUp' /\ Control' /\ FilesOwned' /\ Merged'
<1>1. /\ UNCHANGED <<mainVars, file_to_sort_idx>>
      /\ coro' = coro
  BY DEF ExtractFrom, vars
<1>2. /\ AtWork(c) /\ work[c] \in Works /\ work \in [Coros -> Works]
      /\ f \in 1..Len(sorted_arrays) /\ sorted_arrays \in Seq(Array) /\ a \in Array
  BY HasFile
<1>3. CASE m > 0
  <2> DEFINE w == [work[c] EXCEPT !.pc = "extract", !.i = m, !.j = 0]
             b == Swap(a, 0, m)
  <2>1. /\ work' = [work EXCEPT ![c].pc = "extract", ![c].i = m, ![c].j = 0]
        /\ sorted_arrays' = [sorted_arrays EXCEPT ![f] = b]
    BY <1>3 DEF ExtractFrom
  <2>2. /\ w \in Works /\ w.file = f /\ w.pc = "extract" /\ w.i = m /\ w.j = 0
        /\ work' \in [Coros -> Works] /\ work'[c] = w /\ \A d \in Coros : d # c => work'[d] = work[d]
    <3>1. w \in Works /\ w.file = f /\ w.pc = "extract" /\ w.i = m /\ w.j = 0
      <4>1. PICK v \in Works : v = work[c]
        BY <1>2
      <4>2. PICK h \in Int : h = 0
        OBVIOUS
      <4>3. w = [v EXCEPT !.pc = "extract", !.i = m, !.j = h]
        BY <4>1, <4>2
      <4> HIDE DEF w
      <4>4. w \in Works /\ w.file = v.file /\ w.pc = "extract" /\ w.i = m /\ w.j = h
        BY <4>3 DEF Works
      <4>5. QED
        BY <4>1, <4>2, <4>4
    <3>2. work' = [work EXCEPT ![c] = w]
      BY <2>1
    <3> HIDE DEF w
    <3>3. QED
      BY <1>2, <3>1, <3>2
  <2> HIDE DEF w
  <2>3. GoodWork(w, FileOf(f), b)
    BY <1>3, <2>2 DEF GoodWork
  <2>4. b \in Array
    BY <1>3 DEF Holds
  <2> HIDE DEF b
  <2>5. /\ sorted_arrays' \in Seq(Array) /\ Len(sorted_arrays') = Len(sorted_arrays)
        /\ sorted_arrays'[f] = b
        /\ \A g \in 1..Len(sorted_arrays) : g # f => sorted_arrays'[g] = sorted_arrays[g]
    BY <1>2, <2>1, <2>4, Stored
  <2>6. QED
    BY <1>1, <1>2, <2>2, <2>3, <2>4, <2>5, WorkStep
<1>4. CASE ~(m > 0)
  <2>1. work' = [work EXCEPT ![c] = Idle] /\ sorted_arrays' = sorted_arrays
    BY <1>4 DEF ExtractFrom
  <2>2. Idle \in Works
    BY DEF Idle, Works
  <2>3. work' \in [Coros -> Works] /\ work'[c] = Idle /\ \A d \in Coros : d # c => work'[d] = work[d]
    BY <1>2, <2>1, <2>2
  <2>4. QED
    BY <1>1, <1>2, <1>4, <2>1, <2>2, <2>3, WorkStep
<1>5. QED
  BY <1>3, <1>4

(* The first loop of heap_sort, and its end.                               *)
LEMMA BuildHeapStep ==
  ASSUME SortInvariant, NEW c \in Coros, ~Ended, BuildHeap(c)
  PROVE  SetUp' /\ Control' /\ FilesOwned' /\ Merged'
<1>1. PICK f, i, j, a : f = work[c].file /\ i = work[c].i /\ j = work[c].j /\ a = sorted_arrays[f]
  OBVIOUS
<1> DEFINE size == Len(a)
           l == Largest(a, j, size)
<1>2. /\ coro_this_ptr = c /\ work[c].pc = "build" /\ work[c].pc # "pick"
      /\ \/ i >= 0 /\ SiftDown(c, size)
         \/ /\ i > 0 /\ l = j
            /\ work' = [work EXCEPT ![c].i = i - 1, ![c].j = i - 1]
            /\ UNCHANGED <<vars, mainVars, file_to_sort_idx, sorted_arrays>>
         \/ /\ i < 0 \/ (i = 0 /\ l = j)
            /\ ExtractFrom(c, size - 1)
  BY <1>1 DEF BuildHeap, Running, Sifted
<1>3. /\ AtWork(c) /\ work[c] \in Works /\ work \in [Coros -> Works]
      /\ f \in 1..Len(sorted_arrays) /\ sorted_arrays \in Seq(Array) /\ a \in Array
      /\ i \in Int
  BY <1>1, <1>2, HasFile DEF Works
<1>4. Holds(FileOf(f), a) /\ Building(a, i, j) /\ size \in Nat
  BY <1>1, <1>2, <1>3, ElemType DEF AtWork, GoodWork
<1> HIDE DEF l, size
<1>5. CASE i >= 0 /\ SiftDown(c, size)
  <2>1. i \in Nat /\ l # j
    BY <1>1, <1>3, <1>5 DEF SiftDown, l
  <2>2. Holds(FileOf(f), Swap(a, j, l)) /\ Building(Swap(a, j, l), i, l) /\ l \in Int
    BY <1>4, <2>1, BuildStep DEF l, size
  <2>3. PICK b : b = Swap(a, j, l)
    OBVIOUS
  <2>4. PICK w : w = [work[c] EXCEPT !.j = l]
    OBVIOUS
  <2>5. w.pc = "build" /\ w.i = i /\ w.j = l
    BY <1>1, <1>2, <1>3, <2>4 DEF Works
  <2>6. GoodWork(w, FileOf(f), b)
    BY <2>2, <2>3, <2>5 DEF GoodWork
  <2>7. l = Largest(sorted_arrays[f], work[c].j, size) /\ b = Swap(sorted_arrays[f], work[c].j, l)
    BY <1>1, <2>3 DEF l
  <2>8. QED
    BY <1>1, <1>2, <1>5, <2>2, <2>3, <2>4, <2>6, <2>7, SiftWork
<1>6. CASE /\ i > 0 /\ l = j
           /\ work' = [work EXCEPT ![c].i = i - 1, ![c].j = i - 1]
           /\ UNCHANGED <<vars, mainVars, file_to_sort_idx, sorted_arrays>>
  <2>1. i \in Nat /\ i - 1 \in Int
    BY <1>3, <1>6
  <2>2. Building(a, i - 1, i - 1)
    BY <1>4, <1>6, <2>1, BuildStep DEF l, size
  <2>3. PICK h \in Int : h = i - 1
    BY <2>1
  <2>4. PICK v \in Works : v = work[c]
    BY <1>3
  <2>5. PICK w : w = [v EXCEPT !.i = h, !.j = h]
    OBVIOUS
  <2>6. w \in Works /\ w.pc = v.pc /\ w.file = v.file /\ w.i = h /\ w.j = h
    BY <2>5 DEF Works
  <2>7. work' = [work EXCEPT ![c] = w]
    BY <1>6, <2>3, <2>4, <2>5
  <2>8. work' \in [Coros -> Works] /\ work'[c] = w /\ \A d \in Coros : d # c => work'[d] = work[d]
    BY <1>3, <2>6, <2>7
  <2>9. GoodWork(w, FileOf(f), a)
    BY <1>2, <1>4, <2>2, <2>3, <2>4, <2>6 DEF GoodWork
  <2>10. w.file = f /\ sorted_arrays' = sorted_arrays /\ coro' = coro
         /\ UNCHANGED <<mainVars, file_to_sort_idx>>
    BY <1>1, <1>6, <2>4, <2>6 DEF vars
  <2>11. QED
    BY <1>1, <1>2, <1>3, <2>6, <2>8, <2>9, <2>10, WorkStep
<1>7. CASE /\ i < 0 \/ (i = 0 /\ l = j)
           /\ ExtractFrom(c, size - 1)
  <2>1. PICK m \in Int : m = size - 1
    BY <1>4
  <2>2. /\ m > 0 => Holds(FileOf(f), Swap(a, 0, m)) /\ Extracting(Swap(a, 0, m), m, 0)
        /\ ~(m > 0) => Ascending(a)
    BY <1>4, <1>7, <2>1, BuildEnds DEF l, size
  <2>3. ExtractFrom(c, m)
    BY <1>7, <2>1
  <2>4. QED
    BY <1>1, <1>2, <1>4, <2>2, <2>3, ExtractWork
<1>8. QED
  BY <1>2, <1>5, <1>6, <1>7

(* The second loop of heap_sort, and its end.                              *)
LEMMA ExtractMaxStep ==
  ASSUME SortInvariant, NEW c \in Coros, ~Ended, ExtractMax(c)
  PROVE  SetUp' /\ Control' /\ FilesOwned' /\ Merged'
<1>1. PICK f, i, j, a : f = work[c].file /\ i = work[c].i /\ j = work[c].j /\ a = sorted_arrays[f]
  OBVIOUS
<1> DEFINE l == Largest(a, j, i)
<1>2. /\ coro_this_ptr = c /\ work[c].pc = "extract" /\ work[c].pc # "pick"
      /\ \/ SiftDown(c, i)
         \/ l = j /\ ExtractFrom(c, i - 1)
  BY <1>1 DEF ExtractMax, Running, Sifted
<1>3. /\ AtWork(c) /\ work[c] \in Works /\ work \in [Coros -> Works]
      /\ f \in 1..Len(sorted_arrays) /\ sorted_arrays \in Seq(Array) /\ a \in Array
      /\ i \in Int
  BY <1>1, <1>2, HasFile DEF Works
<1>4. Holds(FileOf(f), a) /\ Extracting(a, i, j)
  BY <1>1, <1>2, <1>3 DEF AtWork, GoodWork
<1> HIDE DEF l
<1>5. CASE SiftDown(c, i)
  <2>1. l # j
    BY <1>1, <1>5 DEF SiftDown, l
  <2>2. Holds(FileOf(f), Swap(a, j, l)) /\ Extracting(Swap(a, j, l), i, l) /\ l \in Int
    BY <1>4, <2>1, ExtractStep DEF l
  <2>3. PICK b : b = Swap(a, j, l)
    OBVIOUS
  <2>4. PICK w : w = [work[c] EXCEPT !.j = l]
    OBVIOUS
  <2>5. w.pc = "extract" /\ w.i = i /\ w.j = l
    BY <1>1, <1>2, <1>3, <2>4 DEF Works
  <2>6. GoodWork(w, FileOf(f), b)
    BY <2>2, <2>3, <2>5 DEF GoodWork
  <2>7. l = Largest(sorted_arrays[f], work[c].j, i) /\ b = Swap(sorted_arrays[f], work[c].j, l)
    BY <1>1, <2>3 DEF l
  <2>8. QED
    BY <1>1, <1>2, <1>5, <2>2, <2>3, <2>4, <2>6, <2>7, SiftWork
<1>6. CASE l = j /\ ExtractFrom(c, i - 1)
  <2>1. PICK m \in Int : m = i - 1
    BY <1>3
  <2>2. /\ m > 0 => Holds(FileOf(f), Swap(a, 0, m)) /\ Extracting(Swap(a, 0, m), m, 0)
        /\ ~(m > 0) => Ascending(a)
    BY <1>4, <1>6, <2>1, ExtractStep DEF l
  <2>3. ExtractFrom(c, m)
    BY <1>6, <2>1
  <2>4. QED
    BY <1>1, <1>2, <1>4, <2>2, <2>3, ExtractWork
<1>7. QED
  BY <1>2, <1>5, <1>6

(* A coroutine takes the next file, which nobody has had. *)
LEMMA PickFileStep ==
  ASSUME SortInvariant, NEW c \in Coros, ~Ended, PickFile(c)
  PROVE  SetUp' /\ Control' /\ FilesOwned' /\ Merged'
<1> DEFINE n == Len(sorted_arrays)
           g == file_to_sort_idx + 1
<1>2. /\ coro_this_ptr = c /\ work[c].pc = "pick"
      /\ file_to_sort_idx < files_count /\ file_to_sort_idx' = g
      /\ UNCHANGED <<argv, disk, sorted_arrays, current_indices, output>>
      /\ \/ /\ Filename(g) \in Files
            /\ work' = [work EXCEPT ![c].pc = "read", ![c].file = g]
            /\ coro' = coro /\ phase' = phase
         \/ phase' = "no file" /\ UNCHANGED <<coro, work>>
  BY DEF PickFile, Running, YieldIfNecessary, CoroYield, vars
<1>3. phase = "wait" /\ coro[c].life = "live" /\ ~coro[c].is_finished
  BY <1>2, Runner
<1>4. /\ n \in Nat /\ file_to_sort_idx \in 0..n /\ files_count = n
      /\ file_to_sort_idx \in Nat /\ file_to_sort_idx < n /\ g \in 1..n /\ g \in Nat /\ g # 0
      /\ \A k \in 0..file_to_sort_idx : k # g
      /\ \A k \in 1..file_to_sort_idx : k \in 1..g
      /\ \A k \in 1..g : k # g => k \in 1..file_to_sort_idx
      /\ \A k \in 1..n : k > g => k > file_to_sort_idx
      /\ 0..g \subseteq 0..n
  <2>1. n \in Nat /\ file_to_sort_idx \in 0..n /\ files_count = n
    BY <1>3 DEF SortInvariant, SetUp
  <2>2. file_to_sort_idx < n
    BY <1>2, <2>1
  <2> HIDE DEF n
  <2>3. QED
    BY <2>1, <2>2
<1> HIDE DEF g
<1>5. SetUp'
  <2>1. g \in 0..n
    BY <1>4
  <2>2. files_count' = files_count
    BY <1>2, SameInput
  <2>3. QED
    BY <1>2, <1>3, <2>1, <2>2 DEF SortInvariant, SetUp, Ended
<1>6. work[c] = Idle
  BY <1>2 DEF SortInvariant, FilesOwned, AtWork, GoodWork
<1>7. \A d \in Coros : ~coro[d].is_finished /\ coro[d].life # "freed"
  <2>1. file_to_sort_idx # n
    BY <1>4
  <2>2. QED
    BY <2>1 DEF SortInvariant, Control
<1>8. \A d \in Coros : d # c => work'[d] = work[d]
  BY <1>2 DEF SortInvariant, FilesOwned, WorkType
<1>9. coro' = coro /\ phase' \in {"wait", "no file"}
  BY <1>2, <1>3
<1>10. Control'
  <2>1. \A d \in Coros : coro[d].life = "none" => work'[d] = Idle
    BY <1>3, <1>8 DEF SortInvariant, Control
  <2>2. QED
    BY <1>3, <1>7, <1>9, <2>1 DEF SortInvariant, Control, LastPhases
<1>11. Merged'
  <2>1. output = <<>> /\ current_indices = <<>> /\ output \in Array /\ Ascending(output)
    BY <1>3 DEF SortInvariant, Merged
  <2>2. output' = <<>> /\ current_indices' = <<>> /\ output' \in Array
    BY <1>2, <2>1
  <2>3. QED
    BY <1>9, <2>1, <2>2 DEF Merged
<1>12. \A f : Filename(f)' = Filename(f) /\ FileOf(f)' = FileOf(f)
  BY <1>2, SameInput
<1>13. \A d \in Coros : work[d].file \in 0..file_to_sort_idx /\ work[d].file # g
  <2>1. \A d \in Coros : work[d].file = 0 \/ work[d].file \in 1..file_to_sort_idx
    <3>1. Idle.file = 0
      BY DEF Idle
    <3>2. \A d \in Coros : AtWork(d) => work[d].file \in 1..file_to_sort_idx
      BY DEF AtWork
    <3>3. QED
      BY <3>1, <3>2 DEF SortInvariant, FilesOwned
  <2>2. 0 \in 0..file_to_sort_idx /\ 1..file_to_sort_idx \subseteq 0..file_to_sort_idx
    BY <1>4
  <2>3. QED
    BY <1>4, <2>1, <2>2
<1>14. /\ work' \in [Coros -> Works]
       /\ work'[c] = Idle \/ (work'[c].pc = "read" /\ work'[c].file = g /\ Filename(g) \in Files)
       /\ phase' # "no file" => work'[c].file = g /\ Filename(g) \in Files
  <2>1. work \in [Coros -> Works]
    BY DEF SortInvariant, FilesOwned, WorkType, Works
  <2>2. CASE UNCHANGED work /\ phase' = "no file"
    BY <1>6, <2>1, <2>2
  <2>3. CASE /\ work' = [work EXCEPT ![c].pc = "read", ![c].file = g] /\ Filename(g) \in Files
    <3>1. PICK v \in Works : v = work[c]
      BY <2>1
    <3>2. PICK w : w = [v EXCEPT !.pc = "read", !.file = g]
      OBVIOUS
    <3>3. w \in Works /\ w.pc = "read" /\ w.file = g
      BY <1>4, <3>2 DEF Works
    <3>4. work' = [work EXCEPT ![c] = w]
      BY <2>3, <3>1, <3>2
    <3>5. QED
      BY <2>1, <2>3, <3>3, <3>4
  <2>4. QED
    BY <1>2, <2>2, <2>3
<1>15. ASSUME NEW d \in Coros PROVE work'[d] = Idle \/ AtWork(d)'
  <2>1. CASE d = c
    <3>1. CASE work'[c].pc = "read" /\ work'[c].file = g /\ Filename(g) \in Files
      <4>1. PICK f \in 1..n : f = g
        BY <1>4
      <4>2. f \in 1..f
        OBVIOUS
      <4>3. work'[c].file = f /\ Filename(f)' \in Files /\ file_to_sort_idx' = f
        BY <1>2, <1>12, <3>1, <4>1
      <4>4. GoodWork(work'[c], FileOf(f)', sorted_arrays'[f])
        BY <3>1 DEF GoodWork
      <4>5. QED
        BY <2>1, <4>2, <4>3, <4>4 DEF AtWork
    <3>2. QED
      BY <1>14, <2>1, <3>1
  <2>2. CASE d # c /\ work[d] # Idle
    <3>1. AtWork(d)
      BY <2>2 DEF SortInvariant, FilesOwned
    <3>2. PICK f : f = work[d].file
      OBVIOUS
    <3>3. /\ work[d]' = work[d] /\ sorted_arrays[f]' = sorted_arrays[f]
          /\ Filename(f)' = Filename(f) /\ FileOf(f)' = FileOf(f)
      BY <1>2, <1>8, <1>12, <2>2
    <3>4. f \in 1..(file_to_sort_idx')
      BY <1>2, <1>4, <3>1, <3>2 DEF AtWork
    <3>5. QED
      BY <3>1, <3>2, <3>3, <3>4 DEF AtWork
  <2>3. QED
    BY <1>8, <2>1, <2>2
<1>16. ASSUME NEW d \in Coros, NEW e \in Coros, work'[d].file = work'[e].file, work'[d].file # 0
       PROVE  d = e
  <2>1. work'[c].file \in {0, g}
    <3>1. Idle.file = 0
      BY DEF Idle
    <3>2. QED
      BY <1>14, <3>1
  <2>2. QED
    BY <1>8, <1>13, <1>16, <2>1 DEF SortInvariant, FilesOwned
<1>17. \A f \in 1..n : f > g => sorted_arrays[f] = <<>>
  <2>1. \A f \in 1..n : f > file_to_sort_idx => sorted_arrays[f] = <<>>
    BY DEF SortInvariant, FilesOwned
  <2>2. QED
    BY <1>4, <2>1
<1>18. ASSUME phase' # "no file", NEW f \in 1..g
       PROVE  /\ Filename(f) \in Files
              /\ Untaken(f)' => Holds(FileOf(f), sorted_arrays[f]) /\ Ascending(sorted_arrays[f])
  <2>1. work'[c].file = g /\ Filename(g) \in Files
    BY <1>14, <1>18
  <2>2. CASE f = g
    BY <2>1, <2>2 DEF Untaken
  <2>3. CASE f # g
    <3>1. f \in 1..file_to_sort_idx
      BY <1>4, <2>3
    <3>2. Untaken(f)' => Untaken(f)
      <4>1. work[c].file = 0 /\ f # 0
        BY <1>4, <1>6 DEF Idle
      <4>2. QED
        BY <1>8, <4>1 DEF Untaken
    <3>3. QED
      BY <1>3, <3>1, <3>2 DEF SortInvariant, FilesOwned
  <2>4. QED
    BY <2>2, <2>3
<1>19. FilesOwned'
  <2>1. WorkType'
    BY <1>14 DEF WorkType, Works
  <2>2. file_to_sort_idx' = g /\ sorted_arrays' = sorted_arrays
    BY <1>2
  <2>3. QED
    BY <1>12, <1>15, <1>16, <1>17, <1>18, <2>1, <2>2 DEF FilesOwned
<1>20. QED
  BY <1>5, <1>10, <1>11, <1>19

(* A coroutine returns when no file is left. *)
LEMMA ReturnStep ==
  ASSUME SortInvariant, NEW c \in Coros, ~Ended, CoroutineReturns(c)
  PROVE  SetUp' /\ Control' /\ FilesOwned' /\ Merged'
<1>1. /\ coro_this_ptr = c /\ work[c].pc = "pick" /\ file_to_sort_idx >= files_count
      /\ coro' = [coro EXCEPT ![c].is_finished = TRUE]
      /\ UNCHANGED <<argv, disk, phase, file_to_sort_idx, sorted_arrays, work,
                     current_indices, output>>
  BY DEF CoroutineReturns, Running, CoroFinish, sortVars
<1>2. phase = "wait" /\ coro[c].life = "live"
  BY <1>1, Runner
<1>3. file_to_sort_idx = Len(sorted_arrays)
  BY <1>1, <1>2 DEF SortInvariant, SetUp
<1>4. work[c] = Idle
  BY <1>1 DEF SortInvariant, FilesOwned, AtWork, GoodWork
<1>5. /\ coro'[c].life = "live"
      /\ \A d \in Coros : d # c => coro'[d] = coro[d]
  BY <1>1, <1>2 DEF SortInvariant, CoroInvariant, TypeOK
<1>6. SetUp'
  BY <1>1, SameInput DEF SortInvariant, SetUp, Ended
<1>7. Control'
  BY <1>1, <1>2, <1>3, <1>4, <1>5 DEF SortInvariant, Control, LastPhases
<1>8. FilesOwned'
  BY <1>1, FilesKept
<1>9. Merged'
  BY <1>1 DEF SortInvariant, Merged
<1>10. QED
  BY <1>6, <1>7, <1>8, <1>9

-----------------------------------------------------------------------------
(* Every step of the program keeps the invariant.                          *)
LEMMA SortStepInvariant == SortInvariant /\ [SortNext]_allVars => SortInvariant'
<1> SUFFICES ASSUME SortInvariant, [SortNext]_allVars PROVE SortInvariant'
  OBVIOUS
<1>1. CoroInvariant'
  BY RunsCoro, StepInvariant DEF SortInvariant
<1>2. CASE MainStart
  BY <1>1, <1>2, MainStartStep DEF SortInvariant
<1>3. CASE MainCreate
  BY <1>1, <1>3, MainCreateStep DEF SortInvariant
<1>4. CASE MainWait
  BY <1>1, <1>4, MainWaitStep DEF SortInvariant
<1>5. CASE MainDelete
  BY <1>1, <1>5, MainDeleteStep DEF SortInvariant
<1>6. CASE MainOpen
  BY <1>1, <1>6, MainOpenStep DEF SortInvariant
<1>7. CASE MainMerge
  BY <1>1, <1>7, MainMergeStep DEF SortInvariant
<1>8. ASSUME NEW c \in Coros, CoroutineStep(c) PROVE SortInvariant'
  <2>1. CASE PickFile(c)
    BY <1>1, <1>8, <2>1, PickFileStep DEF SortInvariant, CoroutineStep
  <2>2. CASE ReadNumbers(c)
    BY <1>1, <1>8, <2>2, ReadStep DEF SortInvariant, CoroutineStep
  <2>3. CASE BuildHeap(c)
    BY <1>1, <1>8, <2>3, BuildHeapStep DEF SortInvariant, CoroutineStep
  <2>4. CASE ExtractMax(c)
    BY <1>1, <1>8, <2>4, ExtractMaxStep DEF SortInvariant, CoroutineStep
  <2>5. CASE CoroutineReturns(c)
    BY <1>1, <1>8, <2>5, ReturnStep DEF SortInvariant, CoroutineStep
  <2>6. QED
    BY <1>8, <2>1, <2>2, <2>3, <2>4, <2>5 DEF CoroutineStep
<1>9. CASE UNCHANGED allVars
  <2>1. UNCHANGED <<argv, disk, phase, file_to_sort_idx, sorted_arrays, work,
                    current_indices, output, coro_list, coro_this_ptr, coro>>
    BY <1>9 DEF allVars, vars, sortVars
  <2>2. SetUp'
    BY <2>1, SameInput DEF SortInvariant, SetUp, Ended
  <2>3. Control'
    BY <2>1 DEF SortInvariant, Control, LastPhases
  <2>4. FilesOwned'
    BY <2>1, FilesKept
  <2>5. Merged'
    BY <2>1 DEF SortInvariant, Merged
  <2>6. QED
    BY <1>1, <2>2, <2>3, <2>4, <2>5 DEF SortInvariant
<1>10. QED
  BY <1>2, <1>3, <1>4, <1>5, <1>6, <1>7, <1>8, <1>9 DEF SortNext, Terminated

(* So it always holds.                                                     *)
LEMMA SortSafety == SortSpec => []SortInvariant
BY SortInitInvariant, SortStepInvariant, PTL DEF SortSpec

(* Every variable of the sorter keeps its type, no index of the merge      *)
(* passes the end of its array, and the loops of heap_sort keep i and j    *)
(* inside theirs (solution.c, heap_sort and main).                         *)
THEOREM SortTypeCorrect == SortSpec => []SortTypeOK
<1>1. SortInvariant => SortTypeOK
  <2> SUFFICES ASSUME SortInvariant PROVE SortTypeOK
    OBVIOUS
  <2> DEFINE n == Len(sorted_arrays)
  <2>1. /\ phase \in {"start", "create", "wait", "open", "merge"} \/ Ended
        /\ sorted_arrays \in Seq(Array) /\ n \in Nat /\ file_to_sort_idx \in 0..n
    BY DEF SortInvariant, SetUp
  <2>2. Len(argv) \in Nat /\ n <= Len(argv)
    <3>1. Len(argv) \in Nat
      BY MergeSortAssumption DEF SortInvariant, SetUp
    <3>2. QED
      BY <3>1 DEF SortInvariant, SetUp
  <2> HIDE DEF n
  <2>3. file_to_sort_idx \in 0..Len(argv)
    BY <2>1, <2>2
  <2>4. ASSUME NEW f \in DOMAIN current_indices
        PROVE  current_indices[f] \in 0..Len(sorted_arrays[f])
    <3>1. CASE phase \in {"merge", "done", "no output"}
      <4>1. f \in 1..n /\ current_indices[f] \in Nat /\ current_indices[f] <= Len(sorted_arrays[f])
        BY <2>4, <3>1 DEF SortInvariant, Merged, n
      <4>2. Len(sorted_arrays[f]) \in Nat
        BY <2>1, <4>1, ElemType DEF n
      <4>3. QED
        BY <4>1, <4>2
    <3>2. CASE phase \notin {"merge", "done", "no output"}
      <4>1. current_indices = <<>>
        BY <3>2 DEF SortInvariant, Merged
      <4>2. DOMAIN <<>> = {}
        OBVIOUS
      <4>3. QED
        BY <2>4, <4>1, <4>2
    <3>3. QED
      BY <3>1, <3>2
  <2>5. ASSUME NEW c \in Coros, work[c] # Idle
        PROVE  LET size == Len(sorted_arrays[work[c].file]) IN
               \/ work[c].pc = "read" /\ work[c].file \in DOMAIN sorted_arrays
               \/ /\ work[c].pc \in {"build", "extract"}
                  /\ \/ work[c].i \in 0..(size - 1) /\ work[c].j \in 0..(size - 1)
                     \/ work[c].pc = "build" /\ size = 1
    <3>1. PICK f, i, j, a : f = work[c].file /\ i = work[c].i /\ j = work[c].j /\ a = sorted_arrays[f]
      OBVIOUS
    <3>2. AtWork(c)
      BY <2>5 DEF SortInvariant, FilesOwned
    <3>3. f \in 1..n /\ DOMAIN sorted_arrays = 1..n
      BY <2>1, <3>1, <3>2 DEF AtWork, n
    <3>4. /\ work[c].pc \in {"read", "build", "extract"}
          /\ work[c].pc = "build" => Building(a, i, j)
          /\ work[c].pc = "extract" => Extracting(a, i, j)
      BY <3>1, <3>2 DEF AtWork, GoodWork
    <3>5. Len(a) \in Nat
      BY <2>1, <3>1, <3>3, ElemType DEF n
    <3>6. Building(a, i, j) => (i \in 0..(Len(a) - 1) /\ j \in 0..(Len(a) - 1)) \/ Len(a) = 1
      BY <3>5 DEF Building
    <3>7. Extracting(a, i, j) => i \in 0..(Len(a) - 1) /\ j \in 0..(Len(a) - 1)
      BY <3>5 DEF Extracting
    <3>8. QED
      BY <3>1, <3>3, <3>4, <3>6, <3>7
  <2>6. output \in Seq(Int) /\ sorted_arrays \in Seq(Seq(Int))
    BY <2>1 DEF SortInvariant, Merged, Array
  <2>7. QED
    BY <2>1, <2>3, <2>4, <2>5, <2>6 DEF SortTypeOK
<1>2. QED
  BY <1>1, SortSafety, PTL

(* No file is taken by two coroutines, none is left out, and one that is   *)
(* in nobody's hands has been sorted (solution.c:138-141).                 *)
THEOREM FilesAreSorted == SortSpec => []EachFileSorted
<1>1. SortInvariant => EachFileSorted
  <2> SUFFICES ASSUME SortInvariant, NEW f \in DOMAIN sorted_arrays
               PROVE  LET takers == {c \in Coros : work[c].file = f} IN
                      /\ Cardinality(takers) <= 1
                      /\ f > file_to_sort_idx => takers = {} /\ sorted_arrays[f] = <<>>
                      /\ f <= file_to_sort_idx /\ takers = {} /\ phase # "no file" =>
                           HoldsFile(f) /\ Ascending(sorted_arrays[f])
                      /\ phase \in {"open", "merge", "done"} =>
                           f <= file_to_sort_idx /\ takers = {}
    BY DEF EachFileSorted
  <2> DEFINE takers == {c \in Coros : work[c].file = f}
             n == Len(sorted_arrays)
  <2>1. n \in Nat /\ file_to_sort_idx \in 0..n /\ DOMAIN sorted_arrays = 1..n
    BY DEF SortInvariant, SetUp
  <2>2. /\ f \in 1..n /\ f \in Nat /\ f # 0
        /\ f <= file_to_sort_idx => f \in 1..file_to_sort_idx
    BY <2>1
  <2> HIDE DEF n
  <2>3. Cardinality(takers) <= 1
    <3>1. CASE takers = {}
      BY <3>1, FS_EmptySet
    <3>2. CASE takers # {}
      <4>1. PICK c \in Coros : work[c].file = f
        BY <3>2
      <4>2. takers = {c}
        BY <2>2, <4>1 DEF SortInvariant, FilesOwned
      <4>3. Cardinality({c}) = 1
        BY FS_Singleton
      <4> HIDE DEF takers
      <4>4. QED
        BY <4>2, <4>3
    <3>3. QED
      BY <3>1, <3>2
  <2>4. f > file_to_sort_idx => takers = {} /\ sorted_arrays[f] = <<>>
    <3>1. \A c \in Coros : work[c].file = 0 \/ work[c].file \in 1..file_to_sort_idx
      <4>1. Idle.file = 0
        BY DEF Idle
      <4>2. \A c \in Coros : AtWork(c) => work[c].file \in 1..file_to_sort_idx
        BY DEF AtWork
      <4>3. QED
        BY <4>1, <4>2 DEF SortInvariant, FilesOwned
    <3>2. f > file_to_sort_idx => \A c \in Coros : work[c].file # f
      BY <2>1, <2>2, <3>1
    <3>3. f > file_to_sort_idx => sorted_arrays[f] = <<>>
      BY <2>2 DEF SortInvariant, FilesOwned, n
    <3>4. QED
      BY <3>2, <3>3
  <2>5. f <= file_to_sort_idx /\ takers = {} /\ phase # "no file" =>
          HoldsFile(f) /\ Ascending(sorted_arrays[f])
    <3> SUFFICES ASSUME f <= file_to_sort_idx, takers = {}, phase # "no file"
                 PROVE  HoldsFile(f) /\ Ascending(sorted_arrays[f])
      OBVIOUS
    <3>1. f \in 1..file_to_sort_idx
      BY <2>2
    <3>2. Untaken(f)
      BY DEF Untaken
    <3>3. Holds(FileOf(f), sorted_arrays[f]) /\ Ascending(sorted_arrays[f])
      BY <3>1, <3>2 DEF SortInvariant, FilesOwned
    <3>4. QED
      BY <3>3 DEF Holds, HoldsFile, FileOf
  <2>6. phase \in {"open", "merge", "done"} => f <= file_to_sort_idx /\ takers = {}
    <3> SUFFICES ASSUME phase \in {"open", "merge", "done"}
                 PROVE  f <= file_to_sort_idx /\ takers = {}
      OBVIOUS
    <3>1. file_to_sort_idx = n /\ \A c \in Coros : work[c] = Idle
      BY AllDone DEF LastPhases, n
    <3>2. QED
      BY <2>2, <3>1 DEF Idle
  <2>7. QED
    BY <2>3, <2>4, <2>5, <2>6
<1>2. QED
  BY <1>1, SortSafety, PTL

(* The loop invariants of heap_sort hold wherever a coroutine is taken off *)
(* in the middle of a sift, for every size of the array.                   *)
THEOREM HeapsAreKept == SortSpec => []HeapKept
<1>1. SortInvariant => HeapKept
  <2> SUFFICES ASSUME SortInvariant, NEW c \in Coros, work[c].pc \in {"build", "extract"}
               PROVE  LET a == sorted_arrays[work[c].file]
                          i == work[c].i
                          j == work[c].j
                      IN /\ work[c].pc = "build" /\ i >= 0 =>
                              HeapFrom(a, i, j, Len(a)) /\ HoldsFile(work[c].file)
                         /\ work[c].pc = "extract" =>
                              /\ HeapFrom(a, 0, j, i)
                              /\ HoldsFile(work[c].file)
                              /\ Ascending(SubSeq(a, i + 1, Len(a)))
                              /\ \A k \in 0..(i - 1) : Elem(a, k) <= Elem(a, i)
    BY DEF HeapKept
  <2>1. PICK f, i, j, a : f = work[c].file /\ i = work[c].i /\ j = work[c].j /\ a = sorted_arrays[f]
    OBVIOUS
  <2>2. AtWork(c) /\ a \in Array /\ i \in Int
    BY <2>1, HasFile DEF Works
  <2>3. /\ Holds(FileOf(f), a)
        /\ work[c].pc = "build" => Building(a, i, j)
        /\ work[c].pc = "extract" => Extracting(a, i, j)
    BY <2>1, <2>2 DEF AtWork, GoodWork
  <2>4. HoldsFile(f)
    BY <2>1, <2>3 DEF Holds, HoldsFile, FileOf
  <2>5. work[c].pc = "build" /\ i >= 0 => HeapFrom(a, i, j, Len(a))
    BY <2>2, <2>3 DEF Building
  <2>6. work[c].pc = "extract" =>
          /\ HeapFrom(a, 0, j, i)
          /\ Ascending(SubSeq(a, i + 1, Len(a)))
          /\ \A k \in 0..(i - 1) : Elem(a, k) <= Elem(a, i)
    <3> SUFFICES ASSUME work[c].pc = "extract"
                 PROVE  /\ HeapFrom(a, 0, j, i)
                        /\ Ascending(SubSeq(a, i + 1, Len(a)))
                        /\ \A k \in 0..(i - 1) : Elem(a, k) <= Elem(a, i)
      OBVIOUS
    <3>1. /\ i \in 1..(Len(a) - 1) /\ HeapFrom(a, 0, j, i) /\ RisesFrom(a, i)
          /\ \A k \in 0..(i - 1) : Elem(a, k) <= Elem(a, i)
      BY <2>3 DEF Extracting
    <3>2. i \in 0..(Len(a) - 1)
      BY <3>1
    <3>3. QED
      BY <2>2, <3>1, <3>2, RisesPart
  <2>7. QED
    BY <2>1, <2>4, <2>5, <2>6
<1>2. QED
  BY <1>1, SortSafety, PTL

(* What main writes is in order at any moment, for any number of files and *)
(* coroutines: "results should be merged into a new file" (README.md:14).  *)
THEOREM OutputAscending == SortSpec => []Ascending(output)
<1>1. SortInvariant => Ascending(output)
  BY DEF SortInvariant, Merged
<1>2. QED
  BY <1>1, SortSafety, PTL

(* The coroutines are right under this program too: it calls the library   *)
(* as its rules say, so that what holds of the library holds here.         *)
THEOREM LibraryUnderSort == SortSpec => Spec /\ [](ListExact /\ UnfinishedRun /\ PlaceToReturn)
<1>1. SortInit => Init
  BY DEF SortInit
<1>2. SortSpec => Spec
  BY <1>1, RunsCoro, PTL DEF SortSpec, Spec
<1>3. QED
  BY <1>2, ListIsExact, OnlyUnfinishedRun, AlwaysPlaceToReturn, PTL

-----------------------------------------------------------------------------
(* What has been written: a place of the output for every element that the *)
(* merge has passed, and an element for every place.                       *)

Places == (1..Len(sorted_arrays)) \X Nat

Value(p) == Elem(sorted_arrays[p[1]], p[2])

Passed == {p \in Places : p[2] < current_indices[p[1]]}

Copies(s, T) ==
  \E g \in Bijection(1..Len(s), T) : \A m \in 1..Len(s) : s[m] = Value(g[m])

Copied ==
  phase \in {"merge", "done", "no output"} =>
    /\ Copies(output, Passed)
    /\ \A p \in Passed : Value(p) < INT_MAX
    /\ phase = "done" => Heads = {}

(* The elements that the output is made of. *)
BelowMax == {p \in Places : p[2] < Len(sorted_arrays[p[1]]) /\ Value(p) < INT_MAX}

(* One more place for one more element. *)
LEMMA OneMoreCopy ==
  ASSUME NEW s \in Array, NEW T, Copies(s, T), NEW p, p \notin T, NEW v \in Int, v = Value(p)
  PROVE  Copies(Append(s, v), T \cup {p})
<1> DEFINE n == Len(s)
           t == Append(s, v)
<1>1. n \in Nat
  BY DEF Array
<1>2. Len(t) = n + 1 /\ t[n + 1] = v /\ \A m \in 1..n : t[m] = s[m]
  BY DEF Array
<1>3. PICK g \in Bijection(1..n, T) : \A m \in 1..n : s[m] = Value(g[m])
  BY DEF Copies
<1> HIDE DEF n, t
<1>4. /\ g \in [1..n -> T] /\ \A a, b \in 1..n : g[a] = g[b] => a = b
      /\ \A q \in T : \E m \in 1..n : g[m] = q
  <2>1. g \in [1..n -> T] /\ IsInjective(g) /\ \A q \in T : \E m \in 1..n : g[m] = q
    BY <1>3 DEF Bijection, Injection, Surjection
  <2>2. DOMAIN g = 1..n
    BY <2>1
  <2>3. QED
    BY <2>1, <2>2 DEF IsInjective
<1>5. PICK N : N = n + 1
  OBVIOUS
<1>6. /\ 1..N = 1..n \cup {N} /\ N \notin 1..n /\ N \in 1..N
      /\ \A m \in 1..N : m # N => m \in 1..n
  BY <1>1, <1>5
<1> DEFINE h == [m \in 1..N |-> IF m = N THEN p ELSE g[m]]
<1>7. h \in [1..N -> T \cup {p}] /\ h[N] = p /\ \A m \in 1..n : h[m] = g[m]
  BY <1>4, <1>6
<1> HIDE DEF h
<1>8. \A a, b \in 1..N : h[a] = h[b] => a = b
  <2>1. \A m \in 1..n : h[m] # p
    BY <1>4, <1>7
  <2>2. QED
    BY <1>4, <1>6, <1>7, <2>1
<1>9. \A q \in T \cup {p} : \E m \in 1..N : h[m] = q
  BY <1>4, <1>6, <1>7
<1>10. h \in Bijection(1..N, T \cup {p})
  <2>1. DOMAIN h = 1..N
    BY <1>7
  <2>2. IsInjective(h)
    BY <1>8, <2>1 DEF IsInjective
  <2>3. QED
    BY <1>7, <1>9, <2>2 DEF Bijection, Injection, Surjection
<1>11. \A m \in 1..N : t[m] = Value(h[m])
  <2>1. t[N] = Value(h[N])
    BY <1>2, <1>5, <1>7
  <2>2. ASSUME NEW m \in 1..n PROVE t[m] = Value(h[m])
    BY <1>2, <1>3, <1>7
  <2>3. QED
    BY <1>6, <2>1, <2>2
<1>12. QED
  BY <1>2, <1>5, <1>10, <1>11 DEF Copies, t

(* Before the merge nothing is written and no element is passed.           *)
LEMMA NothingCopied ==
  ASSUME NEW s, Len(s) = 0
  PROVE  Copies(s, {})
<1> DEFINE g == [m \in 1..0 |-> m]
<1>1. 1..Len(s) = {} /\ 1..0 = {}
  OBVIOUS
<1>2. g \in [{} -> {}] /\ DOMAIN g = {}
  BY <1>1
<1> HIDE DEF g
<1>3. g \in Bijection({}, {})
  BY <1>2 DEF Bijection, Injection, Surjection, IsInjective
<1>4. QED
  BY <1>1, <1>3 DEF Copies

(* Opening the output writes nothing.                                      *)
LEMMA OpenCopies ==
  ASSUME SortInvariant, Copied, MainOpen
  PROVE  Copied'
<1>1. /\ phase = "open" /\ phase' # "done"
      /\ current_indices' = [f \in 1..files_count |-> 0]
      /\ UNCHANGED <<sorted_arrays, output>>
  BY DEF MainOpen
<1>2. output = <<>> /\ files_count = Len(sorted_arrays)
  BY <1>1 DEF SortInvariant, SetUp, Merged
<1>3. Passed' = {}
  <2>1. \A p \in Places : p[1] \in 1..files_count /\ p[2] \in Nat
    BY <1>2 DEF Places
  <2>2. ASSUME NEW p \in Places PROVE ~(p[2] < current_indices'[p[1]])
    <3>1. current_indices'[p[1]] = 0
      BY <1>1, <2>1
    <3>2. PICK k \in Nat : k = p[2]
      BY <2>1
    <3>3. ~(k < 0)
      OBVIOUS
    <3>4. QED
      BY <3>1, <3>2, <3>3
  <2>3. Places' = Places
    BY <1>1 DEF Places
  <2>4. QED
    BY <2>2, <2>3 DEF Passed
<1>4. Copies(output', {})
  BY <1>1, <1>2, NothingCopied
<1>5. Copies(output, Passed)'
  BY <1>1, <1>3, <1>4 DEF Copies, Value
<1>6. QED
  BY <1>1, <1>3, <1>5 DEF Copied

(* A step of the merge writes the element that it passes.                  *)
LEMMA MergeCopies ==
  ASSUME SortInvariant, Copied, MainMerge, Heads # {}
  PROVE  Copied'
<1> DEFINE n == Len(sorted_arrays)
<1>1. /\ phase = "merge" /\ phase' = "merge" /\ UNCHANGED sorted_arrays
      /\ \E f \in Heads :
           /\ output' = Append(output, Elem(sorted_arrays[f], current_indices[f]))
           /\ current_indices' = [current_indices EXCEPT ![f] = @ + 1]
  BY DEF MainMerge
<1>2. PICK f \in Heads :
           /\ output' = Append(output, Elem(sorted_arrays[f], current_indices[f]))
           /\ current_indices' = [current_indices EXCEPT ![f] = @ + 1]
  BY <1>1
<1>3. /\ files_count = n /\ n \in Nat
      /\ current_indices \in [1..n -> Nat] /\ output \in Array
      /\ \A e \in 1..n : sorted_arrays[e] \in Array
  BY <1>1 DEF SortInvariant, SetUp, Merged
<1> HIDE DEF n
<1>4. PICK k \in Nat : k = current_indices[f]
  BY <1>3 DEF Heads
<1>5. PICK p : p = <<f, k>>
  OBVIOUS
<1>6. /\ f \in 1..n /\ k < Len(sorted_arrays[f]) /\ Value(p) < INT_MAX
      /\ p[1] = f /\ p[2] = k
  BY <1>3, <1>4, <1>5 DEF Heads, Value
<1>7. Value(p) \in Int /\ p \in Places /\ p \notin Passed
  <2>1. k \in 0..(Len(sorted_arrays[f]) - 1)
    <3>1. PICK m \in Nat : m = Len(sorted_arrays[f])
      BY <1>3, <1>6, ElemType
    <3>2. k < m
      BY <1>6, <3>1
    <3>3. k \in 0..(m - 1)
      BY <3>2
    <3>4. QED
      BY <3>1, <3>3
  <2>2. Value(p) \in Int
    BY <1>3, <1>6, <2>1, ElemType DEF Value
  <2>3. p \in Places
    BY <1>5, <1>6 DEF Places, n
  <2>4. p \notin Passed
    <3>1. p[2] = k /\ current_indices[p[1]] = k
      BY <1>4, <1>6
    <3>2. ~(k < k)
      OBVIOUS
    <3>3. QED
      BY <3>1, <3>2 DEF Passed
  <2>5. QED
    BY <2>2, <2>3, <2>4
<1>8. Copies(output', Passed \cup {p})
  <2>1. Copies(output, Passed)
    BY <1>1 DEF Copied
  <2>2. output' = Append(output, Value(p))
    BY <1>2, <1>4, <1>6 DEF Value
  <2>3. QED
    BY <1>3, <1>7, <2>1, <2>2, OneMoreCopy
<1>9. Places' = Places /\ \A q : Value(q)' = Value(q)
  BY <1>1 DEF Places, Value
<1>10. Passed' = Passed \cup {p}
  <2>1. ASSUME NEW q \in Places PROVE q \in Passed' <=> q \in Passed \cup {p}
    <3>1. q[1] \in 1..n /\ q[2] \in Nat /\ q = <<q[1], q[2]>>
      <4>1. q \in (1..n) \X Nat
        BY DEF Places, n
      <4>2. ASSUME NEW S, NEW x \in S \X Nat PROVE x[1] \in S /\ x[2] \in Nat /\ x = <<x[1], x[2]>>
        OBVIOUS
      <4>3. QED
        BY <4>1, <4>2
    <3>2. q \in Passed' <=> q[2] < current_indices'[q[1]]
      BY <1>9 DEF Passed
    <3>3. CASE q[1] = f
      <4>1. current_indices'[f] = k + 1
        BY <1>2, <1>3, <1>4, <1>6
      <4>2. q \in Passed <=> q[2] < k
        BY <1>4, <3>3 DEF Passed
      <4>3. q = p <=> q[2] = k
        BY <1>5, <1>6, <3>1, <3>3
      <4>4. q[2] < k + 1 <=> q[2] < k \/ q[2] = k
        <5>1. PICK b \in Nat : b = q[2]
          BY <3>1
        <5>2. b < k + 1 <=> b < k \/ b = k
          OBVIOUS
        <5>3. QED
          BY <5>1, <5>2
      <4>5. QED
        BY <3>2, <3>3, <4>1, <4>2, <4>3, <4>4
    <3>4. CASE q[1] # f
      <4>1. current_indices'[q[1]] = current_indices[q[1]]
        BY <1>2, <1>3, <3>1, <3>4
      <4>2. q # p
        BY <1>6, <3>4
      <4>3. QED
        BY <3>2, <4>1, <4>2 DEF Passed
    <3>5. QED
      BY <3>3, <3>4
  <2>2. Passed \subseteq Places /\ Passed' \subseteq Places
    BY <1>9 DEF Passed
  <2>3. QED
    BY <1>7, <2>1, <2>2
<1>11. Copies(output, Passed)'
  BY <1>8, <1>9, <1>10 DEF Copies
<1>12. \A q \in Passed' : Value(q)' < INT_MAX
  BY <1>1, <1>6, <1>9, <1>10 DEF Copied
<1>13. QED
  BY <1>1, <1>11, <1>12 DEF Copied

(* The merge keeps to what it has copied, and only the merge writes.       *)
LEMMA CopiedStep == SortInvariant /\ Copied /\ [SortNext]_allVars => Copied'
<1> SUFFICES ASSUME SortInvariant, Copied, [SortNext]_allVars,
                    phase' \in {"merge", "done", "no output"}
             PROVE  Copied'
  BY DEF Copied
<1>1. CASE MainOpen
  BY <1>1, OpenCopies
<1>2. CASE MainMerge /\ Heads = {}
  <2>1. /\ phase = "merge"
        /\ UNCHANGED <<argv, sorted_arrays, current_indices, output>>
    BY <1>2 DEF MainMerge
  <2>2. Heads' = Heads
    BY <2>1 DEF Heads, files_count, Options
  <2>3. /\ Copies(output, Passed)' <=> Copies(output, Passed)
        /\ Passed' = Passed /\ \A p : Value(p)' = Value(p)
    BY <2>1 DEF Copies, Passed, Places, Value
  <2>4. QED
    BY <1>2, <2>1, <2>2, <2>3 DEF Copied
<1>3. CASE MainMerge /\ Heads # {}
  BY <1>3, MergeCopies
<1>4. CASE UNCHANGED allVars
  <2>1. UNCHANGED <<phase, argv, sorted_arrays, current_indices, output>>
    BY <1>4 DEF allVars, sortVars
  <2>2. Heads' = Heads
    BY <2>1 DEF Heads, files_count, Options
  <2>3. /\ Copies(output, Passed)' <=> Copies(output, Passed)
        /\ Passed' = Passed /\ \A p : Value(p)' = Value(p)
    BY <2>1 DEF Copies, Passed, Places, Value
  <2>4. QED
    BY <1>4, <2>1, <2>2, <2>3 DEF Copied
<1>5. ASSUME MainStart \/ MainCreate \/ MainWait \/ MainDelete \/ \E c \in Coros : CoroutineStep(c)
      PROVE  FALSE
  <2>1. CASE MainStart \/ MainCreate \/ MainWait \/ MainDelete
    BY <2>1 DEF MainStart, MainCreate, MainWait, MainDelete, sortVars
  <2>2. ASSUME NEW c \in Coros, CoroutineStep(c) PROVE FALSE
    <3>1. coro_this_ptr = c /\ ~Ended /\ phase' \in {phase, "no file"}
      BY <2>2 DEF CoroutineStep, PickFile, ReadNumbers, BuildHeap, SiftDown, ExtractMax,
                  ExtractFrom, CoroutineReturns, Running, mainVars, sortVars
    <3>2. QED
      BY <3>1, Runner
  <2>3. QED
    BY <1>5, <2>1, <2>2
<1>6. QED
  BY <1>1, <1>2, <1>3, <1>4, <1>5 DEF SortNext, Terminated

(* "Each file should be sorted, and then results should be merged into a   *)
(* new file" (README.md:14-15): when the program is done the output has    *)
(* one number for every element below INT_MAX of every array, and no       *)
(* other, and it is in order.                                              *)
THEOREM OutputIsMerge ==
  SortSpec => [](phase = "done" => Ascending(output) /\ Copies(output, BelowMax))
<1>1. SortInit => Copied
  BY DEF SortInit, Copied
<1>2. SortInvariant /\ Copied /\ phase = "done" => Passed = BelowMax
  <2> SUFFICES ASSUME SortInvariant, Copied, phase = "done", NEW p \in Places
               PROVE  p \in Passed <=> p \in BelowMax
    BY DEF Passed, BelowMax
  <2>1. PICK f, k, i, a : /\ f = p[1] /\ k = p[2]
                          /\ i = current_indices[f] /\ a = sorted_arrays[f]
    OBVIOUS
  <2>2. /\ f \in 1..Len(sorted_arrays) /\ k \in Nat
        /\ files_count = Len(sorted_arrays)
    BY <2>1 DEF Places, SortInvariant, SetUp
  <2>3. a \in Array /\ i \in Nat /\ i <= Len(a)
    BY <2>1, <2>2 DEF SortInvariant, SetUp, Merged
  <2>4. Len(a) \in Nat /\ \A m \in 0..(Len(a) - 1) : Elem(a, m) \in Int
    BY <2>3, ElemType
  <2>5. Value(p) = Elem(a, k)
    BY <2>1 DEF Value
  <2>6. ASSUME p \in Passed PROVE p \in BelowMax
    <3>1. k < i /\ Value(p) < INT_MAX
      BY <2>1, <2>6 DEF Passed, Copied
    <3>2. k < Len(a)
      BY <2>2, <2>3, <2>4, <3>1
    <3>3. QED
      BY <2>1, <3>1, <3>2 DEF BelowMax
  <2>7. ASSUME p \in BelowMax, p \notin Passed PROVE FALSE
    <3>1. k < Len(a) /\ Elem(a, k) < INT_MAX
      BY <2>1, <2>5, <2>7 DEF BelowMax
    <3>2. ~(k < i)
      BY <2>1, <2>7 DEF Passed
    <3>3. i \in 0..(Len(a) - 1) /\ k \in i..(Len(a) - 1) /\ k \in 0..(Len(a) - 1) /\ i < Len(a)
      BY <2>2, <2>3, <2>4, <3>1, <3>2
    <3>4. Ascending(a)
      <4>1. file_to_sort_idx = Len(sorted_arrays) /\ \A c \in Coros : work[c] = Idle
        BY AllDone DEF LastPhases
      <4>2. f # 0 /\ Idle.file = 0
        BY <2>2 DEF Idle
      <4>3. Untaken(f)
        BY <4>1, <4>2 DEF Untaken
      <4>4. QED
        BY <2>1, <2>2, <4>1, <4>3 DEF SortInvariant, FilesOwned
    <3>5. Elem(a, i) <= Elem(a, k)
      BY <2>3, <3>3, <3>4, AscendingAll
    <3>6. f \notin Heads
      BY DEF Copied
    <3>7. ~(Elem(a, i) < INT_MAX)
      BY <2>1, <2>2, <3>3, <3>6 DEF Heads
    <3>8. QED
      BY <2>4, <3>1, <3>3, <3>5, <3>7, MergeSortAssumption
  <2>8. QED
    BY <2>6, <2>7
<1>3. SortInvariant /\ Copied /\ phase = "done" => Ascending(output) /\ Copies(output, BelowMax)
  BY <1>2 DEF SortInvariant, Merged, Copied
<1>4. SortSpec => []Copied
  BY <1>1, CopiedStep, SortSafety, PTL DEF SortSpec
<1>5. QED
  BY <1>3, <1>4, SortSafety, PTL
=============================================================================
