----------------------------- MODULE MCThreadId -----------------------------
(* The instance of ThreadId for TLC: more threads than slots, so that some    *)
(* newcomers find the table full.  Liveness is checked, hence no symmetry.    *)
EXTENDS ThreadId, TLC
=============================================================================
