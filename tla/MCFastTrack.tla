---------------------------- MODULE MCFastTrack ----------------------------
(* Instances of FastTrack for TLC.  Thread ids are numbers the analysis    *)
(* compares and thread 1 is special, so that only locks are symmetric.     *)
EXTENDS FastTrack, TLC

Symmetry == Permutations(Mutexes) \cup Permutations(Addrs)

(* The programs that wait on no condition, in which Wait and Wake cannot   *)
(* happen: those ClockExact and OrderKept are about.                       *)
PlainNext ==
  \E t \in Threads :
    \/ LoadRow(t) \/ StoreRow(t) \/ LoadTick(t) \/ StoreTick(t)
    \/ Acquire(t) \/ OnUnlock(t) \/ Release(t)
    \/ Create(t) \/ Exit(t) \/ JoinThread(t)
    \/ OnLoad(t) \/ OnStore(t)

PlainSpec == Init /\ [][PlainNext]_vars
=============================================================================
