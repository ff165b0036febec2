------------------------------ MODULE Handlers ------------------------------
(***************************************************************************)
(* What the generator wraps around a handler of an analysis whose address  *)
(* type is declared sync (G-parser/generator.h, template/generate_cpp.py): *)
(* the handler takes the pool lock of its address, works, and releases it. *)
(* The shadow cells have no lock of their own; the bottom map addr2size    *)
(* (rtLib/rtLib.cpp, lines 471-554) has one that it takes for each call,   *)
(* and hands out references that outlive it.                               *)
(*                                                                         *)
(* The handlers are those the heap analyses declare: an access updates the *)
(* cell of its address, onMalloc() records the size of a block, onFree()   *)
(* clears the cells of the block one by one, holding the pool lock of its  *)
(* first address only, and drops the size.  The program keeps its accesses *)
(* and its frees apart; onFree() is inserted before or after free().       *)
(***************************************************************************)
EXTENDS Integers

CONSTANTS
  Threads,      \* application threads
  Bases,        \* where malloc() places blocks
  BlockSizes,   \* the sizes it is asked for
  PoolSize,     \* __NUM_OF_LOCKS
  GranuleSize,  \* 2^shift
  Wrap,         \* bound: cells count updates modulo this
  Hooks,        \* where onFree() may be inserted: "before", "after"
  Nobody        \* no thread

ASSUME HandlersAssumption ==
  /\ Bases \subseteq Nat /\ BlockSizes \subseteq Nat \ {0}
  /\ PoolSize \in Nat \ {0} /\ GranuleSize \in Nat \ {0} /\ Wrap \in Nat \ {0}
  /\ Hooks \subseteq {"before", "after"}
  /\ Nobody \notin Threads

BlockOf(b, m) == {b + i : i \in 0 .. m - 1}
Cells == UNION {BlockOf(b, m) : b \in Bases, m \in BlockSizes}
NoRequest == [op |-> "none", at |-> 0, size |-> 0]
Requests ==
  {NoRequest} \cup [op : {"access"}, at : Cells, size : {0}]
    \cup [op : {"malloc", "free"}, at : Bases, size : BlockSizes \cup {0}]

VARIABLES
  pc,        \* the next step of each thread
  req,       \* the handler it runs, its address, and the size of the block
  saved,     \* the value of the cell it has read
  ref,       \* its reference into addr2size: "none", "good", or "stale"
  left,      \* how many cells of the block it still has to clear
  pool,      \* the holder of each pool lock
  mapLock,   \* the holder of addr2size's own lock
  cell,      \* the shadow cells
  sizes,     \* addr2size: the size of each block it has, -1 for no entry
  block,     \* the program's heap: the size of the block at each base, or 0
  freeing,   \* blocks whose free() has yet to follow its handler
  hook,      \* where this program calls onFree()
  updates,   \* history: accesses handled since each cell was last cleared
  torn       \* history: cells cleared between the read and the write of an access

vars == <<pc, req, saved, ref, left, pool, mapLock, cell, sizes, block, freeing, hook, updates, torn>>
shadow == <<cell, updates, torn>>
heap == <<block, freeing, hook>>
own == <<req, saved, ref, left>>

----------------------------------------------------------------------------
PoolLocks == 0 .. PoolSize - 1
GetAddr(a) == (a \div GranuleSize) % PoolSize                          \* get_addr

Allocated == UNION {BlockOf(b, block[b]) : b \in Bases}
Busy(ops, at) == \E t \in Threads : pc[t] # "idle" /\ req[t].op \in ops /\ req[t].at \in at

Goto(t, label) == pc' = [pc EXCEPT ![t] = label]

Init ==
  /\ pc = [t \in Threads |-> "idle"]
  /\ req = [t \in Threads |-> NoRequest]
  /\ saved = [t \in Threads |-> 0]
  /\ ref = [t \in Threads |-> "none"]
  /\ left = [t \in Threads |-> 0]
  /\ pool = [i \in PoolLocks |-> Nobody]
  /\ mapLock = Nobody
  /\ cell = [a \in Cells |-> 0]
  /\ sizes = [b \in Bases |-> -1]
  /\ block = [b \in Bases |-> 0]
  /\ freeing = {}
  /\ hook \in Hooks
  /\ updates = [a \in Cells |-> 0]
  /\ torn = {}

Call(t, r) ==
  /\ req' = [req EXCEPT ![t] = r]
  /\ Goto(t, "lock")
  /\ UNCHANGED <<saved, ref, left, pool, mapLock, sizes, shadow, hook>>

(* The program loads from or stores to a block it has not begun to free. *)
Access(t) ==
  /\ pc[t] = "idle"
  /\ \E a \in Allocated :
       /\ \A b \in freeing : a \notin BlockOf(b, block[b])
       /\ Call(t, [op |-> "access", at |-> a, size |-> 0])
  /\ UNCHANGED <<block, freeing>>

Malloc(t) ==
  /\ pc[t] = "idle"
  /\ \E b \in Bases, m \in BlockSizes :
       /\ BlockOf(b, m) \cap Allocated = {}
       /\ block' = [block EXCEPT ![b] = m]
       /\ Call(t, [op |-> "malloc", at |-> b, size |-> m])
  /\ UNCHANGED freeing

(* The program frees a block when the handlers of what it did to it have   *)
(* returned.                                                               *)
Free(t) ==
  /\ pc[t] = "idle"
  /\ \E b \in Bases \ freeing :
       /\ block[b] # 0
       /\ ~Busy({"access", "malloc"}, BlockOf(b, block[b]))
       /\ IF hook = "before"
            THEN freeing' = freeing \cup {b} /\ UNCHANGED block
            ELSE block' = [block EXCEPT ![b] = 0] /\ UNCHANGED freeing
       /\ Call(t, [op |-> "free", at |-> b, size |-> 0])

----------------------------------------------------------------------------
LockPoolBug(t) ==            \* the lock does not wait
  /\ pc[t] = "lock"
  /\ pool' = [pool EXCEPT ![GetAddr(req[t].at)] = t]
  /\ Goto(t, IF req[t].op = "access" THEN "read" ELSE "maplock")
  /\ UNCHANGED <<own, mapLock, sizes, shadow, heap>>

(* PTHREAD_LOCK, before the first use of a bottom map or of a cell *)
LockPool(t) ==
  /\ pc[t] = "lock"
  /\ pool[GetAddr(req[t].at)] = Nobody
  /\ pool' = [pool EXCEPT ![GetAddr(req[t].at)] = t]
  /\ Goto(t, IF req[t].op = "access" THEN "read" ELSE "maplock")
  /\ UNCHANGED <<own, mapLock, sizes, shadow, heap>>

(* The handler of an access, in short: a read and a write of the cell *)
Read(t) ==
  /\ pc[t] = "read"
  /\ saved' = [saved EXCEPT ![t] = cell[req[t].at]]
  /\ Goto(t, "write")
  /\ UNCHANGED <<req, ref, left, pool, mapLock, sizes, shadow, heap>>

Write(t) ==
  /\ pc[t] = "write"
  /\ cell' = [cell EXCEPT ![req[t].at] = (saved[t] + 1) % Wrap]
  /\ updates' = [updates EXCEPT ![req[t].at] = (@ + 1) % Wrap]
  /\ Goto(t, "unlock")
  /\ UNCHANGED <<own, pool, mapLock, sizes, torn, heap>>

(* A call of bottom::map takes the map's lock, works, and releases it. *)
LockMap(t) ==
  /\ pc[t] \in {"maplock", "relock"}
  /\ mapLock = Nobody
  /\ mapLock' = t
  /\ Goto(t, IF pc[t] = "maplock" THEN "get" ELSE "remove")
  /\ UNCHANGED <<own, pool, sizes, shadow, heap>>

(* get(): a missing entry is made, with size 0 *)
Get(t) ==
  /\ pc[t] = "get"
  /\ sizes' = [sizes EXCEPT ![req[t].at] = IF @ = -1 THEN 0 ELSE @]
  /\ ref' = [ref EXCEPT ![t] = "good"]
  /\ Goto(t, "unmap")
  /\ UNCHANGED <<req, saved, left, pool, mapLock, shadow, heap>>

UnlockMap(t) ==
  /\ pc[t] \in {"unmap", "unremove"}
  /\ mapLock' = Nobody
  /\ Goto(t, IF pc[t] = "unremove" THEN "unlock" ELSE IF req[t].op = "malloc" THEN "assign" ELSE "load")
  /\ UNCHANGED <<own, pool, sizes, shadow, heap>>

(* onMalloc(): addr2size[addr] = m, through the reference *)
AssignSize(t) ==
  /\ pc[t] = "assign"
  /\ sizes' = [sizes EXCEPT ![req[t].at] = req[t].size]
  /\ ref' = [ref EXCEPT ![t] = "none"]
  /\ Goto(t, "unlock")
  /\ UNCHANGED <<req, saved, left, pool, mapLock, shadow, heap>>

(* onFree(): the size is loaded through the reference and passed to        *)
(* remove_range().                                                         *)
LoadSize(t) ==
  /\ pc[t] = "load"
  /\ req' = [req EXCEPT ![t].size = sizes[req[t].at]]
  /\ left' = [left EXCEPT ![t] = sizes[req[t].at]]
  /\ ref' = [ref EXCEPT ![t] = "none"]
  /\ Goto(t, "clear")
  /\ UNCHANGED <<saved, pool, mapLock, sizes, shadow, heap>>

NextCell(t) == req[t].at + req[t].size - left[t]

ClearCellBug(t) ==           \* the loop does not count
  /\ pc[t] = "clear"
  /\ left[t] > 0
  /\ LET a == NextCell(t) IN
       /\ cell' = [cell EXCEPT ![a] = 0]
       /\ updates' = [updates EXCEPT ![a] = 0]
       /\ torn' = torn \ {a}
  /\ UNCHANGED <<pc, req, saved, ref, left, pool, mapLock, sizes, heap>>

(* remove_range() clears one cell after the other. *)
ClearCell(t) ==
  /\ pc[t] = "clear"
  /\ left[t] > 0
  /\ LET a == NextCell(t) IN
       /\ cell' = [cell EXCEPT ![a] = 0]
       /\ updates' = [updates EXCEPT ![a] = 0]
       /\ torn' = IF \E u \in Threads : pc[u] = "write" /\ req[u].at = a
                    THEN torn \cup {a} ELSE torn \ {a}
  /\ left' = [left EXCEPT ![t] = @ - 1]
  /\ UNCHANGED <<pc, req, saved, ref, pool, mapLock, sizes, heap>>

Cleared(t) ==
  /\ pc[t] = "clear"
  /\ left[t] = 0
  /\ Goto(t, "relock")
  /\ UNCHANGED <<own, pool, mapLock, sizes, shadow, heap>>

RemoveEntryBug(t) ==         \* the entry stays
  /\ pc[t] = "remove"
  /\ Goto(t, "unremove")
  /\ UNCHANGED <<own, pool, mapLock, sizes, shadow, heap>>

(* remove(): references to the entry go stale *)
RemoveEntry(t) ==
  /\ pc[t] = "remove"
  /\ sizes' = [sizes EXCEPT ![req[t].at] = -1]
  /\ ref' = [u \in Threads |-> IF req[u].at = req[t].at /\ ref[u] = "good" THEN "stale" ELSE ref[u]]
  /\ Goto(t, "unremove")
  /\ UNCHANGED <<req, saved, left, pool, mapLock, shadow, heap>>

(* PTHREAD_UNLOCK; after onFree() the program's free() may follow *)
UnlockPool(t) ==
  /\ pc[t] = "unlock"
  /\ pool' = [pool EXCEPT ![GetAddr(req[t].at)] = Nobody]
  /\ IF req[t].op = "free" /\ hook = "before"
       THEN block' = [block EXCEPT ![req[t].at] = 0] /\ freeing' = freeing \ {req[t].at}
       ELSE UNCHANGED <<block, freeing>>
  /\ req' = [req EXCEPT ![t] = NoRequest]
  /\ saved' = [saved EXCEPT ![t] = 0]
  /\ Goto(t, "idle")
  /\ UNCHANGED <<ref, left, mapLock, sizes, shadow, hook>>

Step(t) ==
  \/ LockPool(t) \/ Read(t) \/ Write(t)
  \/ LockMap(t) \/ Get(t) \/ UnlockMap(t) \/ AssignSize(t)
  \/ LoadSize(t) \/ ClearCell(t) \/ Cleared(t) \/ RemoveEntry(t) \/ UnlockPool(t)

Next == \E t \in Threads : Access(t) \/ Malloc(t) \/ Free(t) \/ Step(t)

Spec == Init /\ [][Next]_vars

(* A thread in a handler keeps running; none of the spin locks is fair. *)
FairSpec == Spec /\ \A t \in Threads : WF_vars(Step(t))

----------------------------------------------------------------------------
Steps ==
  {"idle", "lock", "read", "write", "maplock", "get", "unmap", "assign", "load", "clear",
   "relock", "remove", "unremove", "unlock"}

TypeOK ==
  /\ pc \in [Threads -> Steps] /\ req \in [Threads -> Requests]
  /\ saved \in [Threads -> 0 .. Wrap - 1]
  /\ ref \in [Threads -> {"none", "good", "stale"}]
  /\ left \in [Threads -> Nat]
  /\ pool \in [PoolLocks -> Threads \cup {Nobody}] /\ mapLock \in Threads \cup {Nobody}
  /\ cell \in [Cells -> 0 .. Wrap - 1] /\ updates \in [Cells -> 0 .. Wrap - 1]
  /\ sizes \in [Bases -> BlockSizes \cup {0, -1}] /\ block \in [Bases -> BlockSizes \cup {0}]
  /\ freeing \subseteq Bases /\ hook \in Hooks /\ torn \subseteq Cells

(* No update of a cell is lost, although the cells have no lock and pool   *)
(* locks are shared by many addresses: a cell holds as many updates as     *)
(* handlers ran on it since it was cleared.  What can break it is onFree() *)
(* alone, whose loop clears cells under other pool locks than its own      *)
(* (generate_cpp.py, lines 171-212; rtLib.cpp, lines 305-313).             *)
NoLostUpdate == \A a \in Cells \ torn : cell[a] = updates[a]

(* A handler uses its reference into addr2size before another removes the  *)
(* entry: looking it up after the pool lock is what makes the map's short  *)
(* lock enough (generator.h, lines 1138-1158; rtLib.cpp, lines 498-526).   *)
NoStaleReference == \A t \in Threads : ref[t] # "stale"

(* Where onFree() is called before free(), no cell is ever torn and        *)
(* addr2size tells the truth about every block nobody is handling: called  *)
(* after it, the block may have been given away again.                     *)
Quiet(b) == ~Busy({"malloc", "free"}, {b})
FreedInOrder ==
  hook = "before" =>
    /\ torn = {}
    /\ \A b \in Bases : Quiet(b) => sizes[b] = IF block[b] = 0 THEN -1 ELSE block[b]

(* The inductive invariant of the first two: who holds which lock where,   *)
(* and what a thread has read or looked up is still so.                    *)
InStep(t) ==
  /\ pc[t] = "idle" <=> req[t].op = "none"
  /\ pc[t] \in {"read", "write"} => req[t].op = "access"
  /\ pc[t] \in {"maplock", "get", "unmap"} => req[t].op \in {"malloc", "free"}
  /\ pc[t] = "assign" => req[t].op = "malloc"
  /\ pc[t] \in {"load", "clear", "relock", "remove", "unremove"} => req[t].op = "free"
  /\ pc[t] \notin {"idle", "lock"} => pool[GetAddr(req[t].at)] = t
  /\ pc[t] \in {"get", "unmap", "remove", "unremove"} => mapLock = t
  /\ ref[t] = IF pc[t] \in {"unmap", "assign", "load"} THEN "good" ELSE "none"
  /\ ref[t] = "good" => sizes[req[t].at] # -1
  /\ pc[t] = "write" /\ req[t].at \notin torn => saved[t] = cell[req[t].at]

Core == TypeOK /\ NoLostUpdate /\ \A t \in Threads : InStep(t)

(* That of the third: blocks lie apart, each is in one thread's hands while *)
(* it is made or freed, and accesses keep to blocks nobody frees.          *)
Holds(b) == BlockOf(b, block[b])

InTurn(t) ==
  /\ req[t].op = "access" => \E b \in Bases \ freeing : req[t].at \in Holds(b)
  /\ req[t].op = "malloc" =>
       /\ req[t].at \notin freeing /\ block[req[t].at] # 0 /\ block[req[t].at] = req[t].size
       /\ pc[t] = "unlock" => sizes[req[t].at] = block[req[t].at]
  /\ req[t].op = "free" =>
       /\ req[t].at \in freeing
       /\ sizes[req[t].at] = IF pc[t] \in {"unremove", "unlock"} THEN -1 ELSE block[req[t].at]
       /\ pc[t] = "clear" => req[t].size = block[req[t].at] /\ left[t] <= req[t].size

OneHandler ==
  \A t, u \in Threads :
    {req[t].op, req[u].op} \subseteq {"malloc", "free"} /\ req[t].at = req[u].at => t = u

BlocksApart ==
  /\ \A b, c \in Bases : b # c => Holds(b) \cap Holds(c) = {}
  /\ \A b \in freeing : block[b] # 0

Order == hook = "before" => FreedInOrder /\ OneHandler /\ BlocksApart /\ \A t \in Threads : InTurn(t)

(* The locks nest in one order, the pool's first and the map's inside it,  *)
(* and every path releases both: no lock is fair, but a handler waits for  *)
(* ever only if the program calls other handlers for ever                  *)
(* (generate_cpp.py, lines 195-218).                                       *)
NewCall == \E u \in Threads : pc[u] = "idle" /\ pc'[u] = "lock"
HandlersReturn == \A t \in Threads : []<>(pc[t] = "idle") \/ []<><<NewCall>>_vars
=============================================================================
