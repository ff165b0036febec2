------------------------------- MODULE Eraser -------------------------------
(***************************************************************************)
(* The eraser analysis (G-parser/algorithm/ffmpeg/eraser.txt, the same in  *)
(* memcached, sort and splash): the handlers it declares, the instructions *)
(* and calls the pass inserts them at, and a program of several threads    *)
(* that locks, waits, accesses memory and reuses a heap block.             *)
(*                                                                         *)
(* What a thread does and the handler for it are two steps, in the order   *)
(* the insert statements give: a lock is recorded after it was acquired,   *)
(* forgotten before it is released, an access is reported after it was     *)
(* made.  A handler on an address holds the pool lock of that address from *)
(* its first look at the cell to its end (map_lookup_elimination), and the *)
(* lock sets it reads are those of the running thread: it is one action.   *)
(***************************************************************************)
EXTENDS Naturals, Sequences

CONSTANTS
  Threads, Mutexes, RWLocks,
  Addrs,       \* the addresses the threads share
  Block,       \* the one of them, if any, that is a heap block
  NewSet,      \* the lock set of a cell that was never written
  None,        \* no pending step
  MaxLog       \* bound: no access to an address begins once this many are logged

LockIds == Mutexes \cup RWLocks

ASSUME EraserAssumption ==
  /\ Mutexes \cap RWLocks = {}
  /\ Block \subseteq Addrs /\ \A a, b \in Block : a = b
  /\ NewSet \subseteq LockIds
  /\ MaxLog \in Nat

VARIABLES
  pending,       \* the second step of what each thread is doing
  mode,          \* how it holds each lock
  alive,         \* the block is allocated
  thread2WLock, thread2Lock,            \* the maps of the analysis by tid
  addr2Lock, addr2Thread, addr2type,    \* and by address, fused into one cell
  addr2size,     \* whether the block has its entry
  log            \* history: the accesses reported for each cell since it was erased

held == <<mode, alive>>
records == <<thread2WLock, thread2Lock>>
cells == <<addr2Lock, addr2Thread, addr2type, addr2size, log>>
vars == <<pending, held, records, cells>>

Steps ==
  [what : {"onLock", "onRLock", "unlock", "wake"}, lock : LockIds]
    \cup [what : {"onLoad", "onStore"}, addr : Addrs]
    \cup [what : {"onMalloc", "onFree"}]

ASSUME NoneAssumption == None \notin Steps

Idle(t) == pending[t] = None
Runs(t, what) == pending[t] # None /\ pending[t].what = what
Then(t, step) == pending' = [pending EXCEPT ![t] = step]

Init ==
  /\ pending = [t \in Threads |-> None]
  /\ mode = [t \in Threads |-> [l \in LockIds |-> "none"]]
  /\ alive = FALSE
  /\ thread2WLock = [t \in Threads |-> {}]
  /\ thread2Lock = [t \in Threads |-> {}]
  /\ addr2Lock = [a \in Addrs |-> NewSet]
  /\ addr2Thread = [a \in Addrs |-> {}]
  /\ addr2type = [a \in Addrs |-> 0]
  /\ addr2size = FALSE
  /\ log = [a \in Addrs |-> <<>>]

Available(l, m) ==
  \A u \in Threads : mode[u][l] # "write" /\ (m = "write" => mode[u][l] # "read")

(* pthread_mutex_lock, pthread_rwlock_wrlock, pthread_rwlock_rdlock *)
Acquire(t) ==
  /\ Idle(t)
  /\ \E l \in LockIds, m \in {"read", "write"} :
       /\ l \in Mutexes => m = "write"
       /\ mode[t][l] = "none" /\ Available(l, m)
       /\ mode' = [mode EXCEPT ![t][l] = m]
       /\ Then(t, [what |-> IF m = "write" THEN "onLock" ELSE "onRLock", lock |-> l])
  /\ UNCHANGED <<alive, records, cells>>

OnLock(t) ==
  /\ Runs(t, "onLock")
  /\ thread2WLock' = [thread2WLock EXCEPT ![t] = @ \cup {pending[t].lock}]
  /\ thread2Lock' = [thread2Lock EXCEPT ![t] = @ \cup {pending[t].lock}]
  /\ Then(t, None)
  /\ UNCHANGED <<held, cells>>

OnRLock(t) ==
  /\ Runs(t, "onRLock")
  /\ thread2Lock' = [thread2Lock EXCEPT ![t] = @ \cup {pending[t].lock}]
  /\ Then(t, None)
  /\ UNCHANGED <<held, thread2WLock, cells>>

(* Definitions named ...Bug are slips the checks must catch: each stands in *)
(* for the definition after it when the properties are tested.             *)
OnUnlockBug(t) ==            \* the lock stays in the write set
  /\ Idle(t)
  /\ \E l \in LockIds :
       /\ mode[t][l] # "none"
       /\ thread2Lock' = [thread2Lock EXCEPT ![t] = @ \ {l}]
       /\ Then(t, [what |-> "unlock", lock |-> l])
  /\ UNCHANGED <<held, thread2WLock, cells>>

(* onUnlock, before pthread_mutex_unlock or pthread_rwlock_unlock *)
OnUnlock(t) ==
  /\ Idle(t)
  /\ \E l \in LockIds :
       /\ mode[t][l] # "none"
       /\ thread2WLock' = [thread2WLock EXCEPT ![t] = @ \ {l}]
       /\ thread2Lock' = [thread2Lock EXCEPT ![t] = @ \ {l}]
       /\ Then(t, [what |-> "unlock", lock |-> l])
  /\ UNCHANGED <<held, cells>>

Release(t) ==
  /\ Runs(t, "unlock")
  /\ mode' = [mode EXCEPT ![t][pending[t].lock] = "none"]
  /\ Then(t, None)
  /\ UNCHANGED <<alive, records, cells>>

(* pthread_cond_wait gives the mutex up and takes it again: no handler runs. *)
Wait(t) ==
  /\ Idle(t)
  /\ \E l \in Mutexes :
       /\ mode[t][l] = "write"
       /\ mode' = [mode EXCEPT ![t][l] = "none"]
       /\ Then(t, [what |-> "wake", lock |-> l])
  /\ UNCHANGED <<alive, records, cells>>

Wake(t) ==
  /\ Runs(t, "wake")
  /\ Available(pending[t].lock, "write")
  /\ mode' = [mode EXCEPT ![t][pending[t].lock] = "write"]
  /\ Then(t, None)
  /\ UNCHANGED <<alive, records, cells>>

(* A LoadInst or a StoreInst; the program does not touch the block while it is free. *)
Access(t) ==
  /\ Idle(t)
  /\ \E a \in Addrs, what \in {"onLoad", "onStore"} :
       /\ a \in Block => alive
       /\ Len(log[a]) < MaxLog
       /\ Then(t, [what |-> what, addr |-> a])
  /\ UNCHANGED <<held, records, cells>>

Reporting(t) == Runs(t, "onLoad") \/ Runs(t, "onStore")

(* The locks that guard an access: any kind for a load, write locks for a store *)
Guarding(t, kind) ==
  {l \in LockIds : IF kind = "store" THEN mode[t][l] = "write" ELSE mode[t][l] # "none"}

Report(t, a, kind) ==
  log' = [log EXCEPT ![a] = Append(@, [thread |-> t, kind |-> kind, locks |-> Guarding(t, kind)])]

OnLoadBug(t) ==              \* a load of a virgin address counts
  /\ Runs(t, "onLoad")
  /\ LET a == pending[t].addr
         new == t \notin addr2Thread[a]
     IN  /\ addr2Thread' = IF new THEN [addr2Thread EXCEPT ![a] = @ \cup {t}] ELSE addr2Thread
         /\ addr2type' = IF new /\ addr2type[a] = 1 THEN [addr2type EXCEPT ![a] = 2] ELSE addr2type
         /\ addr2Lock' = IF addr2type'[a] > 1
                           THEN [addr2Lock EXCEPT ![a] = @ \cap thread2Lock[t]] ELSE addr2Lock
         /\ Report(t, a, "load")
  /\ Then(t, None)
  /\ UNCHANGED <<held, records, addr2size>>

OnLoad(t) ==
  /\ Runs(t, "onLoad")
  /\ LET a == pending[t].addr
         new == t \notin addr2Thread[a] /\ addr2type[a] # 0
     IN  /\ addr2Thread' = IF new THEN [addr2Thread EXCEPT ![a] = @ \cup {t}] ELSE addr2Thread
         /\ addr2type' = IF new /\ addr2type[a] = 1 THEN [addr2type EXCEPT ![a] = 2] ELSE addr2type
         /\ addr2Lock' = IF addr2type'[a] > 1
                           THEN [addr2Lock EXCEPT ![a] = @ \cap thread2Lock[t]] ELSE addr2Lock
         /\ Report(t, a, "load")
  /\ Then(t, None)
  /\ UNCHANGED <<held, records, addr2size>>

StoredBug(type, new) == IF new \/ type > 1 THEN type + 1 ELSE type   \* no last state

(* Virgin to exclusive; exclusive to shared-modified for a second thread; *)
(* shared to shared-modified for any.                                     *)
Stored(type, new) ==
  IF type = 2 \/ (type = 1 /\ new) THEN 3
  ELSE IF type = 0 /\ new THEN 1
  ELSE type

OnStoreLateBug(t) ==         \* the store that makes an address shared is not checked
  /\ Runs(t, "onStore")
  /\ LET a == pending[t].addr
     IN  /\ addr2Thread' = [addr2Thread EXCEPT ![a] = @ \cup {t}]
         /\ addr2type' = [addr2type EXCEPT ![a] = Stored(@, t \notin addr2Thread[a])]
         /\ addr2Lock' = IF addr2type[a] > 1
                           THEN [addr2Lock EXCEPT ![a] = @ \cap thread2WLock[t]] ELSE addr2Lock
         /\ Report(t, a, "store")
  /\ Then(t, None)
  /\ UNCHANGED <<held, records, addr2size>>

OnStoreReadBug(t) ==         \* read locks guard a store
  /\ Runs(t, "onStore")
  /\ LET a == pending[t].addr
     IN  /\ addr2Thread' = [addr2Thread EXCEPT ![a] = @ \cup {t}]
         /\ addr2type' = [addr2type EXCEPT ![a] = Stored(@, t \notin addr2Thread[a])]
         /\ addr2Lock' = IF addr2type'[a] > 1
                           THEN [addr2Lock EXCEPT ![a] = @ \cap thread2Lock[t]] ELSE addr2Lock
         /\ Report(t, a, "store")
  /\ Then(t, None)
  /\ UNCHANGED <<held, records, addr2size>>

OnStore(t) ==
  /\ Runs(t, "onStore")
  /\ LET a == pending[t].addr
     IN  /\ addr2Thread' = [addr2Thread EXCEPT ![a] = @ \cup {t}]
         /\ addr2type' = [addr2type EXCEPT ![a] = Stored(@, t \notin addr2Thread[a])]
         /\ addr2Lock' = IF addr2type'[a] > 1
                           THEN [addr2Lock EXCEPT ![a] = @ \cap thread2WLock[t]] ELSE addr2Lock
         /\ Report(t, a, "store")
  /\ Then(t, None)
  /\ UNCHANGED <<held, records, addr2size>>

(* malloc and free of the block, each followed by its handler; between free *)
(* and onFree another thread may already have been given the block again.   *)
Malloc(t) ==
  /\ Idle(t) /\ ~alive /\ Block # {}
  /\ alive' = TRUE
  /\ Then(t, [what |-> "onMalloc"])
  /\ UNCHANGED <<mode, records, cells>>

OnMalloc(t) ==
  /\ Runs(t, "onMalloc")
  /\ addr2size' = TRUE
  /\ Then(t, None)
  /\ UNCHANGED <<held, records, addr2Lock, addr2Thread, addr2type, log>>

UsesBlock(u) ==
  \/ Runs(u, "onMalloc")
  \/ Reporting(u) /\ pending[u].addr \in Block

Free(t) ==
  /\ Idle(t) /\ alive
  /\ \A u \in Threads : ~UsesBlock(u)
  /\ alive' = FALSE
  /\ Then(t, [what |-> "onFree"])
  /\ UNCHANGED <<mode, records, cells>>

OnFreeBug(t) ==              \* the type of the cells is not erased
  /\ Runs(t, "onFree")
  /\ LET Erase(f, v) == [a \in Addrs |-> IF a \in Block /\ addr2size THEN v ELSE f[a]]
     IN  /\ addr2Lock' = Erase(addr2Lock, {})
         /\ addr2Thread' = Erase(addr2Thread, {})
         /\ log' = Erase(log, <<>>)
  /\ addr2size' = FALSE
  /\ Then(t, None)
  /\ UNCHANGED <<held, records, addr2type>>

(* remove_range() zeroes the fields of the cells; a zeroed lock set is empty. *)
OnFree(t) ==
  /\ Runs(t, "onFree")
  /\ LET Erase(f, v) == [a \in Addrs |-> IF a \in Block /\ addr2size THEN v ELSE f[a]]
     IN  /\ addr2Lock' = Erase(addr2Lock, {})
         /\ addr2Thread' = Erase(addr2Thread, {})
         /\ addr2type' = Erase(addr2type, 0)
         /\ log' = Erase(log, <<>>)
  /\ addr2size' = FALSE
  /\ Then(t, None)
  /\ UNCHANGED <<held, records>>

Next ==
  \E t \in Threads :
    \/ Acquire(t) \/ OnLock(t) \/ OnRLock(t) \/ OnUnlock(t) \/ Release(t)
    \/ Wait(t) \/ Wake(t)
    \/ Access(t) \/ OnLoad(t) \/ OnStore(t)
    \/ Malloc(t) \/ OnMalloc(t) \/ Free(t) \/ OnFree(t)

Spec == Init /\ [][Next]_vars

----------------------------------------------------------------------------
(* Type invariant of the maps of eraser.txt, lines 6-11, and of the program *)
Entries == [thread : Threads, kind : {"load", "store"}, locks : SUBSET LockIds]

TypeOK ==
  /\ pending \in [Threads -> Steps \cup {None}]
  /\ mode \in [Threads -> [LockIds -> {"none", "read", "write"}]]
  /\ alive \in BOOLEAN
  /\ thread2WLock \in [Threads -> SUBSET LockIds]
  /\ thread2Lock \in [Threads -> SUBSET LockIds]
  /\ addr2Lock \in [Addrs -> SUBSET LockIds]
  /\ addr2Thread \in [Addrs -> SUBSET Threads]
  /\ addr2type \in [Addrs -> 0 .. 3]
  /\ addr2size \in BOOLEAN
  /\ log \in [Addrs -> Seq(Entries)]

(* The accesses that count, from the first store on, and those since a     *)
(* second thread took part                                                 *)
Counted(s) == {n \in 1 .. Len(s) : \E m \in 1 .. n : s[m].kind = "store"}
Users(s) == {s[n].thread : n \in Counted(s)}
Shared(s) ==
  {n \in Counted(s) : \E m1, m2 \in Counted(s) : m1 <= n /\ m2 <= n /\ s[m1].thread # s[m2].thread}

(* What a thread has recorded when it reports an access is what it holds:  *)
(* the handlers sit on the right side of the lock and unlock calls, and a  *)
(* wait on a condition gives back what it took (lines 70-74).              *)
RecordsHeld ==
  \A t \in Threads : Idle(t) \/ Reporting(t) =>
    /\ thread2Lock[t] = {l \in LockIds : mode[t][l] # "none"}
    /\ thread2WLock[t] = {l \in LockIds : mode[t][l] = "write"}

(* The cell knows who shares the address and how: virgin before the first  *)
(* store, exclusive while one thread uses it, shared after a second one    *)
(* has read it, shared-modified once it was written while shared, whatever *)
(* the order the handlers of several threads run in (lines 24-60).         *)
CellFollowsAccesses ==
  \A a \in Addrs :
    /\ addr2Thread[a] = Users(log[a])
    /\ addr2type[a] = 0 <=> Counted(log[a]) = {}
    /\ addr2type[a] > 1 <=> Shared(log[a]) # {}
    /\ addr2type[a] = 3 <=> \E n \in Shared(log[a]) : log[a][n].kind = "store"

(* The locks that guarded every access since an address became shared *)
Common(a) == {l \in LockIds : \A n \in Shared(log[a]) : l \in log[a][n].locks}

(* What the declaration of eraser.txt:8 is for: the lock set of a shared   *)
(* address is the set of the locks that guarded every access since it      *)
(* became shared, and empty just when no lock protects the address.        *)
LockSetExact ==
  \A a \in Addrs : Shared(log[a]) # {} => addr2Lock[a] = Common(a)

(* What the handlers make of the set a cell starts with, full as declared  *)
(* or empty as generated: it loses exactly the locks that some access went *)
(* without, a read lock for loads and not for stores (lines 24-60), in     *)
(* whatever order the handlers of several threads run.  The cell of a heap *)
(* block may instead be empty, as onFree leaves it for good (line 65).     *)
LockSetFrom ==
  \A a \in Addrs :
    \/ addr2Lock[a] = NewSet \cap Common(a)
    \/ a \in Block /\ addr2Lock[a] = {}

(* No lock is credited to an address that was once accessed without it,    *)
(* also when its block was freed, given away again and erased late.        *)
LockSetSound ==
  \A a \in Addrs : \A l \in addr2Lock[a], n \in Shared(log[a]) : l \in log[a][n].locks

(* The inductive invariant: what each thread has recorded at every step of *)
(* a lock operation, and the cells.                                        *)
Recorded(t) ==
  LET p == pending[t]
      off == IF p # None /\ p.what \in {"onLock", "onRLock", "unlock"} THEN {p.lock} ELSE {}
      on == IF p # None /\ p.what = "wake" THEN {p.lock} ELSE {}
  IN  /\ thread2Lock[t] = ({l \in LockIds : mode[t][l] # "none"} \ off) \cup on
      /\ thread2WLock[t] = ({l \in LockIds : mode[t][l] = "write"} \ off) \cup on
      /\ p # None =>
           /\ p.what = "onLock" => mode[t][p.lock] = "write"
           /\ p.what = "onRLock" => mode[t][p.lock] = "read"
           /\ p.what = "wake" => mode[t][p.lock] = "none"

IInv ==
  /\ TypeOK
  /\ \A t \in Threads : Recorded(t)
  /\ CellFollowsAccesses
  /\ LockSetSound
=============================================================================
