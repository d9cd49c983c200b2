----------------------------- MODULE MCMergeSort -----------------------------
(* Model checking of MergeSort: command lines, files and symmetry.         *)
EXTENDS MergeSort

Opt(word) == [word |-> word, value |-> 0]
Number(n) == [word |-> "number", value |-> n]
Name(n) == [word |-> "name", value |-> n]

(* One to three coroutines, one to three files, one of them twice, a file  *)
(* that does not exist, and arguments that are refused.                    *)
Calls ==
  {<<Opt("-n"), Number(2), Name(1), Name(2)>>,
   <<Name(2), Name(1), Name(2)>>,
   <<Opt("-t"), Number(5), Opt("-n"), Number(1), Name(1), Name(2)>>,
   <<Opt("-n"), Number(2), Name(1), Name(3)>>,
   <<Opt("-n")>>,
   <<Opt("-n"), Number(2)>>,
   <<Opt("-n"), Number(0), Name(1)>>,
   <<Opt("-n"), Number(2), Opt("-t"), Number(1), Name(1)>>}

File(numbers, trailing) == [numbers |-> numbers, trailing |-> trailing]

(* All short files of two numbers, all orders of three, longer ones with   *)
(* sifts of several swaps, INT_MAX (4), and files for which the count is   *)
(* one too many.                                                           *)
SomeContents ==
  {File(numbers, FALSE) :
     numbers \in UNION {[1..n -> {1, 2}] : n \in 1..2}
       \cup {f \in [1..3 -> 1..3] : Range(f) = 1..3}
       \cup {<<4>>, <<4, 1>>, <<2, 1, 3, 4, 1>>, <<1, 2, 3, 3, 2, 4, 1>>}}
    \cup {File(<<>>, FALSE), File(<<2, 1>>, TRUE), File(<<>>, TRUE)}

(* For the run about files that are not ordinary: one has INT_MAX, and     *)
(* ends with whitespace.                                                   *)
OneCoroutine == {<<Opt("-n"), Number(1), Name(1), Name(2)>>}

LargestAndTrailing == {File(<<1>>, FALSE), File(<<4, 1>>, TRUE)}
=============================================================================
