----------------------------- MODULE MCCoercions -----------------------------
(* Instance of Coercions for TLC: two files of up to three sorts, three         *)
(* coercions in the first file and one in the second.  The sorts of the same *)
(* kind are interchangeable.                                                *)
EXTENDS Coercions, TLC
PerFile == <<3, 1>>
Symmetry == {p \in Permutations(Names) : {p[s] : s \in Provable} = Provable}
=============================================================================
