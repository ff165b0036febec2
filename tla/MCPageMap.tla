----------------------------- MODULE MCPageMap -----------------------------
(* Instances of PageMap for TLC: a table of two entries per page, so that   *)
(* keys 0 and 1 share a leaf, 2 shares only their middle page, and 4 only   *)
(* the root.                                                                *)
EXTENDS PageMap, TLC

Symmetry == Permutations(Threads) \cup Permutations(Pages \ {Root})
=============================================================================
