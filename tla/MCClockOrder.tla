---------------------------- MODULE MCClockOrder ----------------------------
(* The instance of ClockOrder for TLC.  Thread ids are numbers the         *)
(* analysis compares and thread 1 is special: only locks are symmetric.    *)
EXTENDS ClockOrder, TLC

Symmetry == Permutations(Mutexes) \cup Permutations(Addrs)
=============================================================================
