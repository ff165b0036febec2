----------------------------- MODULE MCEraser -----------------------------
(* Instances of Eraser for TLC. *)
EXTENDS Eraser, TLC

Symmetry == Permutations(Threads)
=============================================================================
