--------------------------- MODULE MCSubtreeEngine ---------------------------
(* Instances of the diff engine for TLC. *)
EXTENDS SubtreeEngine, TLC

OneOfEach == [s \in Steps |-> 1]

Symmetry == Permutations(Callers) \cup Permutations(Dirs)
==============================================================================
