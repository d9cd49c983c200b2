------------------------------ MODULE MergeSort ------------------------------
(***************************************************************************)
(* The sorter of src/homework-01/solution.c, on top of the coroutines of   *)
(* Coro: main starts the coroutines and waits for them, each of them takes *)
(* files one after the other, reads and sorts them and yields on its way,  *)
(* and main merges the arrays.  A step of the sorter is conjoined with the *)
(* step of the library that it calls.                                      *)
(*                                                                         *)
(* Whether the quantum of a coroutine is over when it asks is left open,   *)
(* and so are the times and counts of switches that are printed.  Indices  *)
(* into arrays begin with 0 as in the code: Elem(a, k) is a[k].            *)
(***************************************************************************)
EXTENDS Coro, FiniteSets, SequencesExt

CONSTANTS
  CommandLines,      \* what the program may be called with
  Files,             \* names of the files that exist
  Contents,          \* what a file may hold: its numbers, and whether
                     \* whitespace follows the last one
  Junk,              \* what malloc may leave in an int
  INT_MAX,
  DEFAULT_COROUTINES,
  DEFAULT_TARGET_LATENCY

ASSUME MergeSortAssumption ==
  /\ Contents \subseteq [numbers : Seq(Int), trailing : BOOLEAN]
  /\ Junk \subseteq Int /\ Junk # {}
  /\ INT_MAX \in Int
  /\ \A args \in CommandLines :
       /\ Len(args) \in Nat /\ DOMAIN args = 1..Len(args)
       /\ \A k \in DOMAIN args : args[k].word \in {"-n", "-t", "number", "name"}

VARIABLES
  argv,               \* the arguments, without the name of the program
  disk,               \* contents of the files
  phase,              \* where main is
  file_to_sort_idx,
  sorted_arrays,      \* by number of the file, from 1; its size is that of
                      \* the array, and <<>> means that there is none yet
  work,               \* local state of the coroutines
  current_indices,
  output

sortVars == <<argv, disk, phase, file_to_sort_idx, sorted_arrays, work,
              current_indices, output>>
mainVars == <<argv, disk, phase, current_indices, output>>
allVars == <<vars, sortVars>>

-----------------------------------------------------------------------------
(* The command line.                                                       *)

Options(word) == {k \in DOMAIN argv : argv[k].word = word}

strtol(arg) == IF arg.word = "number" THEN arg.value ELSE 0

(* The last occurrence of an option counts. *)
Setting(word, default) ==
  IF Options(word) = {} THEN default ELSE strtol(argv[Max(Options(word)) + 1])

files_count == Len(argv) - 2 * Cardinality(Options("-n") \cup Options("-t"))

coroutines_count == Setting("-n", DEFAULT_COROUTINES)

ArgsParsed ==
  /\ Len(argv) \notin Options("-n") \cup Options("-t")
  /\ coroutines_count >= 1
  /\ Setting("-t", DEFAULT_TARGET_LATENCY) >= coroutines_count
  /\ files_count >= 1

(* The name of file f: the last files_count arguments are names. *)
Filename(f) == argv[Len(argv) - files_count + f].value

-----------------------------------------------------------------------------
(* Arrays.                                                                 *)

Elem(a, k) == a[k + 1]

Swap(a, k, l) == [a EXCEPT ![k + 1] = a[l + 1], ![l + 1] = a[k + 1]]

(* Variant: the right child is compared with the parent only. *)
LargestOfTwo(a, j, size) ==
  LET left == 2 * j + 1
      right == 2 * j + 2
  IN IF right < size /\ Elem(a, right) > Elem(a, j) THEN right
     ELSE IF left < size /\ Elem(a, left) > Elem(a, j) THEN left
     ELSE j

(* The largest of an element and its children among the first size. *)
Largest(a, j, size) ==
  LET left == 2 * j + 1
      right == 2 * j + 2
      l == IF left < size /\ Elem(a, left) > Elem(a, j) THEN left ELSE j
  IN IF right < size /\ Elem(a, right) > Elem(a, l) THEN right ELSE l

(* How often fscanf is called until feof: it meets the end of the file     *)
(* with the last number only if nothing follows it.                        *)
NumbersCount(file) ==
  Len(file.numbers) + (IF file.trailing \/ file.numbers = <<>> THEN 1 ELSE 0)

(* The array after reading that many numbers: what is not there is not     *)
(* assigned.                                                               *)
Readings(file) ==
  {file.numbers \o rest : rest \in [1..(NumbersCount(file) - Len(file.numbers)) -> Junk]}

-----------------------------------------------------------------------------
(* The coroutines.                                                         *)

Idle == [pc |-> "pick", file |-> 0, i |-> 0, j |-> 0]

Running(c, pc) == coro_this_ptr = c /\ work[c].pc = pc

(* yield_if_necessary_record_work_time *)
YieldIfNecessary(c) == CoroYield(c) \/ UNCHANGED vars

(* Variants: the file is taken only after the yield; it is never taken.    *)
PickLate(c) ==
  /\ Running(c, "pick")
  /\ file_to_sort_idx < files_count
  /\ IF Filename(file_to_sort_idx + 1) \in Files
     THEN /\ work' = [work EXCEPT ![c].pc = "read", ![c].file = file_to_sort_idx + 1]
          /\ \/ file_to_sort_idx' = file_to_sort_idx + 1 /\ UNCHANGED vars
             \/ UNCHANGED file_to_sort_idx /\ CoroYield(c)
          /\ UNCHANGED phase
     ELSE /\ phase' = "no file"
          /\ UNCHANGED <<vars, work, file_to_sort_idx>>
  /\ UNCHANGED <<argv, disk, sorted_arrays, current_indices, output>>

PickForEver(c) ==
  /\ Running(c, "pick")
  /\ file_to_sort_idx < files_count
  /\ Filename(file_to_sort_idx + 1) \in Files
  /\ work' = [work EXCEPT ![c].pc = "read", ![c].file = file_to_sort_idx + 1]
  /\ YieldIfNecessary(c)
  /\ UNCHANGED <<mainVars, file_to_sort_idx, sorted_arrays>>

(* A coroutine takes the next file, opens it and counts its numbers. *)
PickFile(c) ==
  /\ Running(c, "pick")
  /\ file_to_sort_idx < files_count
  /\ file_to_sort_idx' = file_to_sort_idx + 1
  /\ IF Filename(file_to_sort_idx + 1) \in Files
     THEN /\ work' = [work EXCEPT ![c].pc = "read", ![c].file = file_to_sort_idx + 1]
          /\ YieldIfNecessary(c)
          /\ UNCHANGED phase
     ELSE /\ phase' = "no file"
          /\ UNCHANGED <<vars, work>>
  /\ UNCHANGED <<argv, disk, sorted_arrays, current_indices, output>>

(* It allocates the array and reads the numbers; the first loop of         *)
(* heap_sort is next, from the last element that has a child.              *)
ReadNumbers(c) ==
  LET f == work[c].file
      file == disk[Filename(f)]
      i == NumbersCount(file) \div 2 - 1
  IN /\ Running(c, "read")
     /\ \E a \in Readings(file) : sorted_arrays' = [sorted_arrays EXCEPT ![f] = a]
     /\ work' = [work EXCEPT ![c].pc = "build", ![c].i = i, ![c].j = i]
     /\ YieldIfNecessary(c)
     /\ UNCHANGED <<mainVars, file_to_sort_idx>>

(* The sift of both loops of heap_sort among the first size elements: one  *)
(* swap.                                                                   *)
SiftDown(c, size) ==
  LET f == work[c].file
      j == work[c].j
      largest == Largest(sorted_arrays[f], j, size)
  IN /\ largest # j
     /\ sorted_arrays' = [sorted_arrays EXCEPT ![f] = Swap(@, j, largest)]
     /\ work' = [work EXCEPT ![c].j = largest]
     /\ YieldIfNecessary(c)
     /\ UNCHANGED <<mainVars, file_to_sort_idx>>

(* The sift is over. *)
Sifted(c, size) ==
  Largest(sorted_arrays[work[c].file], work[c].j, size) = work[c].j

(* The second loop reaches i: the largest element goes there.  With i = 0  *)
(* the array is sorted and the coroutine looks for another file.           *)
ExtractFrom(c, i) ==
  LET f == work[c].file IN
  /\ IF i > 0
     THEN /\ sorted_arrays' = [sorted_arrays EXCEPT ![f] = Swap(@, 0, i)]
          /\ work' = [work EXCEPT ![c].pc = "extract", ![c].i = i, ![c].j = 0]
     ELSE /\ work' = [work EXCEPT ![c] = Idle]
          /\ UNCHANGED sorted_arrays
  /\ UNCHANGED <<vars, mainVars, file_to_sort_idx>>

(* The first loop of heap_sort.  For an array of one element it has no     *)
(* turn.                                                                   *)
BuildHeap(c) ==
  LET i == work[c].i
      size == Len(sorted_arrays[work[c].file])
  IN /\ Running(c, "build")
     /\ \/ i >= 0 /\ SiftDown(c, size)
        \/ /\ i > 0 /\ Sifted(c, size)
           /\ work' = [work EXCEPT ![c].i = i - 1, ![c].j = i - 1]
           /\ UNCHANGED <<vars, mainVars, file_to_sort_idx, sorted_arrays>>
        \/ /\ i < 0 \/ (i = 0 /\ Sifted(c, size))
           /\ ExtractFrom(c, size - 1)

(* The second loop. *)
ExtractMax(c) ==
  LET i == work[c].i IN
  /\ Running(c, "extract")
  /\ \/ SiftDown(c, i)
     \/ Sifted(c, i) /\ ExtractFrom(c, i - 1)

(* No file is left. *)
CoroutineReturns(c) ==
  /\ Running(c, "pick")
  /\ file_to_sort_idx >= files_count
  /\ CoroFinish(c)
  /\ UNCHANGED sortVars

-----------------------------------------------------------------------------
(* main                                                                    *)

MainStart ==
  /\ phase = "start"
  /\ phase' = IF ArgsParsed THEN "create" ELSE "usage"
  /\ sorted_arrays' = [f \in 1..(IF ArgsParsed THEN files_count ELSE 0) |-> <<>>]
  /\ UNCHANGED <<vars, argv, disk, file_to_sort_idx, work, current_indices, output>>

(* The address of a new coroutine does not matter: some unused one. *)
MainCreate ==
  /\ phase = "create"
  /\ coro_this_ptr = coro_sched
  /\ \E c \in Coros :
       /\ coro[c].life = "none"
       /\ c = CHOOSE d \in Coros : coro[d].life = "none"
       /\ CoroNew(c)
  /\ phase' = IF Len(coro_list) + 1 = coroutines_count THEN "wait" ELSE "create"
  /\ UNCHANGED <<argv, disk, file_to_sort_idx, sorted_arrays, work, current_indices, output>>

MainWait ==
  /\ phase = "wait"
  /\ coro_this_ptr = coro_sched
  /\ returned = {}
  /\ CoroSchedWait
  /\ phase' = IF coro_list = <<>> THEN "open" ELSE "wait"
  /\ UNCHANGED <<argv, disk, file_to_sort_idx, sorted_arrays, work, current_indices, output>>

MainDelete ==
  /\ phase = "wait"
  /\ coro_this_ptr = coro_sched
  /\ \E c \in Coros : CoroDelete(c)
  /\ UNCHANGED sortVars

(* fopen of the output file fails or not. *)
MainOpen ==
  /\ phase = "open"
  /\ phase' \in {"merge", "no output"}
  /\ current_indices' = [f \in 1..files_count |-> 0]
  /\ UNCHANGED <<vars, argv, disk, file_to_sort_idx, sorted_arrays, work, output>>

(* Variant: the last element of an array is not looked at. *)
HeadsButLast ==
  {f \in 1..files_count : current_indices[f] + 1 < Len(sorted_arrays[f])}

(* The files with a number left that the merge can see. *)
Heads ==
  {f \in 1..files_count :
     /\ current_indices[f] < Len(sorted_arrays[f])
     /\ Elem(sorted_arrays[f], current_indices[f]) < INT_MAX}

(* Variant: the index advances for every file. *)
MergeAdvancesAll ==
  LET Value(f) == Elem(sorted_arrays[f], current_indices[f]) IN
  /\ phase = "merge"
  /\ IF Heads = {}
     THEN phase' = "done" /\ UNCHANGED <<current_indices, output>>
     ELSE /\ output' = Append(output, Min({Value(f) : f \in Heads}))
          /\ current_indices' = [f \in DOMAIN current_indices |-> current_indices[f] + 1]
          /\ UNCHANGED phase
  /\ UNCHANGED <<vars, argv, disk, file_to_sort_idx, sorted_arrays, work>>

(* The first of the smallest numbers is written. *)
MainMerge ==
  LET Value(f) == Elem(sorted_arrays[f], current_indices[f])
      Least(f) == \A g \in Heads : Value(f) < Value(g) \/ (Value(f) = Value(g) /\ f <= g)
  IN /\ phase = "merge"
     /\ IF Heads = {}
        THEN phase' = "done" /\ UNCHANGED <<current_indices, output>>
        ELSE /\ \E f \in Heads :
                  /\ Least(f)
                  /\ output' = Append(output, Value(f))
                  /\ current_indices' = [current_indices EXCEPT ![f] = @ + 1]
             /\ UNCHANGED phase
     /\ UNCHANGED <<vars, argv, disk, file_to_sort_idx, sorted_arrays, work>>

Ended == phase \in {"done", "usage", "no file", "no output"}

(* The process has ended. *)
Terminated == Ended /\ UNCHANGED allVars

SortInit ==
  /\ Init
  /\ argv \in CommandLines
  /\ disk \in [Files -> Contents]
  /\ phase = "start"
  /\ file_to_sort_idx = 0
  /\ sorted_arrays = <<>>
  /\ work = [c \in Coros |-> Idle]
  /\ current_indices = <<>>
  /\ output = <<>>

CoroutineStep(c) ==
  /\ ~Ended
  /\ \/ PickFile(c) \/ ReadNumbers(c) \/ BuildHeap(c) \/ ExtractMax(c)
     \/ CoroutineReturns(c)

SortNext ==
  \/ MainStart \/ MainCreate \/ MainWait \/ MainDelete \/ MainOpen \/ MainMerge
  \/ \E c \in Coros : CoroutineStep(c)
  \/ Terminated

SortSpec == SortInit /\ [][SortNext]_allVars

(* There is one thread, and the operating system runs it. *)
SortFairSpec == SortSpec /\ WF_allVars(SortNext)

-----------------------------------------------------------------------------
(* Properties.                                                             *)

Ascending(a) == \A k \in 1..(Len(a) - 1) : a[k] <= a[k + 1]

(* Every variable keeps its type, no index of the merge passes the end of  *)
(* its array, and the loops of heap_sort keep i and j inside theirs, which *)
(* for a single element they never enter.                                  *)
SortTypeOK ==
  /\ phase \in {"start", "create", "wait", "open", "merge"} \/ Ended
  /\ file_to_sort_idx \in 0..Len(argv)
  /\ sorted_arrays \in Seq(Seq(Int))
  /\ output \in Seq(Int)
  /\ \A f \in DOMAIN current_indices : current_indices[f] \in 0..Len(sorted_arrays[f])
  /\ \A c \in Coros :
       LET size == Len(sorted_arrays[work[c].file]) IN
       \/ work[c] = Idle
       \/ work[c].pc = "read" /\ work[c].file \in DOMAIN sorted_arrays
       \/ /\ work[c].pc \in {"build", "extract"}
          /\ \/ work[c].i \in 0..(size - 1) /\ work[c].j \in 0..(size - 1)
             \/ work[c].pc = "build" /\ size = 1

(* The array of file f holds the numbers of the file, and one more element *)
(* if the count was one too many.                                          *)
HoldsFile(f) ==
  LET file == disk[Filename(f)] IN
  /\ ToBag(file.numbers) \sqsubseteq ToBag(sorted_arrays[f])
  /\ Len(sorted_arrays[f]) = NumbersCount(file)

(* A file is in the hands of one coroutine or of none, no coroutine works  *)
(* on the array of another, and a file that has been taken and is in       *)
(* nobody's hands has been sorted; once main goes on behind its loop of    *)
(* coro_sched_wait that is so for every file.  The index of the next file  *)
(* is shared (solution.c:138-141), and so are the arrays.                  *)
EachFileSorted ==
  \A f \in DOMAIN sorted_arrays :
    LET takers == {c \in Coros : work[c].file = f} IN
    /\ Cardinality(takers) <= 1
    /\ f > file_to_sort_idx => takers = {} /\ sorted_arrays[f] = <<>>
    /\ f <= file_to_sort_idx /\ takers = {} /\ phase # "no file" =>
         HoldsFile(f) /\ Ascending(sorted_arrays[f])
    /\ phase \in {"open", "merge", "done"} => f <= file_to_sort_idx /\ takers = {}

(* Among the first n elements, from lo on, every child is at most its      *)
(* parent, except that j may be smaller than its children; these are then  *)
(* at most the parent of j.                                                *)
HeapFrom(a, lo, j, n) ==
  \A k \in 1..(n - 1) :
    LET parent == (k - 1) \div 2
        grand == (parent - 1) \div 2
    IN /\ parent >= lo /\ parent # j => Elem(a, parent) >= Elem(a, k)
       /\ parent = j /\ j > 0 /\ grand >= lo => Elem(a, grand) >= Elem(a, k)

(* The loop invariant of heap_sort, at every place where the coroutine can *)
(* be taken off in the middle of a sift: what has been built is a heap     *)
(* but for the element being moved, and what has been extracted is sorted  *)
(* and not below the rest.                                                 *)
HeapKept ==
  \A c \in Coros :
    LET a == sorted_arrays[work[c].file]
        i == work[c].i
        j == work[c].j
    IN /\ work[c].pc = "build" /\ i >= 0 =>
            HeapFrom(a, i, j, Len(a)) /\ HoldsFile(work[c].file)
       /\ work[c].pc = "extract" =>
            /\ HeapFrom(a, 0, j, i)
            /\ HoldsFile(work[c].file)
            /\ Ascending(SubSeq(a, i + 1, Len(a)))
            /\ \A k \in 0..(i - 1) : Elem(a, k) <= Elem(a, i)

(* The files that are named on the command line. *)
Given == SelectSeq(argv, LAMBDA arg : arg.word = "name")

(* Their numbers. *)
GivenNumbers == FlattenSeq([k \in DOMAIN Given |-> disk[Given[k].value].numbers])

(* "Each file should be sorted, and then results should be merged into a   *)
(* new file" (README.md:12-13): in the end every number of every file that *)
(* was named has been written as often as it was there.                    *)
MergesAll == phase = "done" => ToBag(output) = ToBag(GivenNumbers)

(* The counts of the given files are right, and none of their numbers is   *)
(* what the search for the smallest one begins with (solution.c:328).      *)
OrdinaryFiles ==
  /\ \A k \in DOMAIN Given :
       LET file == disk[Given[k].value] IN NumbersCount(file) = Len(file.numbers)
  /\ \A v \in Range(GivenNumbers) : v < INT_MAX

(* What is written is in order at any moment, and for ordinary files it is *)
(* in the end all that was given and nothing else, for any number of       *)
(* coroutines and any pattern of yields.                                   *)
OutputExact ==
  /\ Ascending(output)
  /\ phase = "done" /\ OrdinaryFiles => MergesAll

(* The program ends: every sift, every loop over files and every wait of   *)
(* main comes to its end although the coroutines keep handing control      *)
(* around.                                                                 *)
Ends == <>Ended
=============================================================================
