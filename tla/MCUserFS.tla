------------------------------ MODULE MCUserFS ------------------------------
(* Model checking of UserFS: arguments of the calls, and symmetry.         *)
EXTENDS UserFS, TLC

(* Open flags with different rights, with and without creation. *)
ReadOnlyFlags == {{"CREATE"}, {"READ_ONLY"}}
WriteOnlyFlags == {{"CREATE"}, {"WRITE_ONLY"}}
CreateFlags == {{"CREATE"}}

OneByte == {<<1>>}

(* Within a block, and across blocks of two bytes. *)
MixedBuffers == {<<1>>, <<1, 2, 1>>}

Symmetry == Permutations(Files) \cup Permutations(Names)
=============================================================================
