----------------------------- MODULE MCHeapHelp -----------------------------
(* HeapHelp for TLC: the addresses of the C library are interchangeable.   *)
EXTENDS HeapHelp

Symmetry == Permutations(Addrs)
=============================================================================
