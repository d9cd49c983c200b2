---------------------------- MODULE MCThreadPool ----------------------------
(* Model checking of ThreadPool: symmetry of the model values.             *)
EXTENDS ThreadPool, TLC

Symmetry == Permutations(Clients) \cup Permutations(Workers) \cup Permutations(Tasks)
=============================================================================
