------------------------------ MODULE PageMap ------------------------------
(***************************************************************************)
(* sync_p::PageMap (rtLib/PageMap.h), the three-level table that holds the *)
(* shadow state of an analysis whose types are declared sync.  Handlers on *)
(* several application threads walk and grow it at the same time: an inner *)
(* page is read without its lock, and a missing child is installed under   *)
(* the page's spin lock after a second look.                               *)
(*                                                                         *)
(* One action is one atomic access of the code: a load or store of a slot, *)
(* a lock operation, the allocation of a page, or the access of the client *)
(* to the cell it was given.  The clients are the one-key operations of    *)
(* universe::map (rtLib/rtLib.cpp): get(), which creates pages, and        *)
(* getOrDefault() and a step of a remove_range() of a fused map, which     *)
(* test().  (That step walks a second time, with get(), to the cell it has *)
(* found: slots are written once, and one walk stands for both.)           *)
(***************************************************************************)
EXTENDS Naturals, FiniteSets

CONSTANTS
  Threads, Keys, Values, Zero, NoRequest,   \* as in ShadowMap
  Kinds,                         \* the operations the handlers of the analysis use
  Pages,                         \* every page the allocator could return
  Root,                          \* the page embedded in the PageMap object
  Null,                          \* nullptr
  Wild,                          \* an uninitialised, non-null slot
  RootSize, MidSize, LeafSize,   \* entries per page: PageSizes<20, 16, 12>
  DirtyHeap                      \* may malloc return memory that is not zeroed?

ASSUME PageAssumption ==
  /\ Zero \in Values
  /\ Kinds \subseteq {"read", "peek", "erase", "write"}
  /\ Keys \subseteq Nat
  /\ Root \in Pages
  /\ Null \notin Pages /\ Wild \notin Pages /\ Null # Wild
  /\ Null \notin Threads
  /\ RootSize \in Nat \ {0} /\ MidSize \in Nat \ {0} /\ LeafSize \in Nat \ {0}
  /\ DirtyHeap \in BOOLEAN

Requests ==
  [kind : {"read", "peek", "erase"}, key : Keys] \cup [kind : {"write"}, key : Keys, val : Values]
ASSUME NoRequestAssumption == NoRequest \notin Requests

VARIABLES
  pc,        \* the next access of each thread
  request,   \* what each thread is doing to the map
  result,    \* the value its last read or peek returned
  page,      \* the page its walk has reached, Root while it is idle
  fresh,     \* the page it has allocated and not yet installed
  lock,      \* the holder of each inner page's spin lock, or Null
  level,     \* 0: not allocated, 1: the root, 2: a middle page, 3: a leaf
  slot,      \* the children of each inner page
  cell       \* the entries of each leaf

vars == <<pc, request, result, page, fresh, lock, level, slot, cell>>

----------------------------------------------------------------------------
(* Definitions named ...Bug are slips the checks must catch: each stands in *)
(* for the definition after it when the properties are tested.             *)
IxShiftBug(k, l) ==          \* the root's index keeps the bits of the middle level
  IF l = 1 THEN (k \div LeafSize) % RootSize
  ELSE IF l = 2 THEN (k \div LeafSize) % MidSize
  ELSE k % LeafSize

(* keyMask() at each level: the level's own bits of the key *)
Ix(k, l) ==
  IF l = 1 THEN (k \div (MidSize * LeafSize)) % RootSize
  ELSE IF l = 2 THEN (k \div LeafSize) % MidSize
  ELSE k % LeafSize

InnerIx == 0 .. (IF RootSize > MidSize THEN RootSize ELSE MidSize) - 1
LeafIx == 0 .. LeafSize - 1

Probing(r) == r.kind \in {"peek", "erase"}

(* the slot or cell a thread's walk is at *)
Here(t) == Ix(request[t].key, level[page[t]])
Child(t) == slot[page[t]][Here(t)]

Goto(t, label) == pc' = [pc EXCEPT ![t] = label]

Init ==
  /\ pc = [t \in Threads |-> "idle"]
  /\ request = [t \in Threads |-> NoRequest]
  /\ result = [t \in Threads |-> Zero]
  /\ page = [t \in Threads |-> Root]
  /\ fresh = [t \in Threads |-> Null]
  /\ lock = [p \in Pages |-> Null]
  /\ level = [p \in Pages |-> IF p = Root THEN 1 ELSE 0]
  /\ slot = [p \in Pages |-> [i \in InnerIx |-> Null]]
  /\ cell = [p \in Pages |-> [i \in LeafIx |-> Zero]]

(* A handler calls get(), getOrDefault() or remove_range() on a key. *)
Begin(t) ==
  /\ pc[t] = "idle"
  /\ \E r \in Requests : r.kind \in Kinds /\ request' = [request EXCEPT ![t] = r]
  /\ Goto(t, "test")
  /\ UNCHANGED <<result, page, fresh, lock, level, slot, cell>>

Return(t) ==
  /\ request' = [request EXCEPT ![t] = NoRequest]
  /\ page' = [page EXCEPT ![t] = Root]
  /\ Goto(t, "idle")

LookPresentBug(t) ==         \* the lock is taken for slots seen filled, too
  /\ pc[t] = "test"
  /\ Child(t) # Null
  /\ Goto(t, "lock")
  /\ UNCHANGED <<request, result, page, fresh, lock, level, slot, cell>>

(* The unlocked look at the slot: test() gives up on null, get() goes for the lock. *)
LookPresent(t) ==
  /\ pc[t] = "test"
  /\ Child(t) # Null
  /\ Goto(t, "load")
  /\ UNCHANGED <<request, result, page, fresh, lock, level, slot, cell>>

LookAbsentBug(t) ==          \* a missing child is allocated without the lock
  /\ pc[t] = "test"
  /\ Child(t) = Null
  /\ ~Probing(request[t])
  /\ Goto(t, "alloc")
  /\ UNCHANGED <<request, result, page, fresh, lock, level, slot, cell>>

LookAbsent(t) ==
  /\ pc[t] = "test"
  /\ Child(t) = Null
  /\ ~Probing(request[t])
  /\ Goto(t, "lock")
  /\ UNCHANGED <<request, result, page, fresh, lock, level, slot, cell>>

(* remove_range() skips the key; getOrDefault() returns a reference to its *)
(* by-value argument, and what the caller reads there is anything.         *)
ProbeAbsent(t) ==
  /\ pc[t] = "test"
  /\ Child(t) = Null
  /\ Probing(request[t])
  /\ IF request[t].kind = "peek"
       THEN \E v \in Values : result' = [result EXCEPT ![t] = v]
       ELSE UNCHANGED result
  /\ Return(t)
  /\ UNCHANGED <<fresh, lock, level, slot, cell>>

LockBug(t) ==                \* the lock does not wait
  /\ pc[t] = "lock"
  /\ lock' = [lock EXCEPT ![page[t]] = t]
  /\ Goto(t, "retest")
  /\ UNCHANGED <<request, result, page, fresh, level, slot, cell>>

Lock(t) ==
  /\ pc[t] = "lock"
  /\ lock[page[t]] = Null
  /\ lock' = [lock EXCEPT ![page[t]] = t]
  /\ Goto(t, "retest")
  /\ UNCHANGED <<request, result, page, fresh, level, slot, cell>>

RetestBug(t) ==              \* no second look: what the first one saw is trusted
  /\ pc[t] = "retest"
  /\ Goto(t, "alloc")
  /\ UNCHANGED <<request, result, page, fresh, lock, level, slot, cell>>

(* The second look, under the lock *)
Retest(t) ==
  /\ pc[t] = "retest"
  /\ Goto(t, IF Child(t) = Null THEN "alloc" ELSE "unlock")
  /\ UNCHANGED <<request, result, page, fresh, lock, level, slot, cell>>

(* What a new page of a level holds in its slots *)
Unset(l) == IF DirtyHeap /\ l = 2 THEN {Null, Wild} ELSE {Null}

(* allocate_page(): a leaf is value-initialised; the constructor of a middle *)
(* page does not touch map_, whose slots are what malloc left in them.       *)
Allocate(t) ==
  /\ pc[t] = "alloc"
  /\ \E p \in {q \in Pages : level[q] = 0} :
       LET l == level[page[t]] + 1 IN
       /\ fresh' = [fresh EXCEPT ![t] = p]
       /\ level' = [level EXCEPT ![p] = l]
       /\ \E garbage \in [InnerIx -> Unset(l)] : slot' = [slot EXCEPT ![p] = garbage]
       /\ cell' = [cell EXCEPT ![p] = [i \in LeafIx |-> Zero]]
  /\ Goto(t, "store")
  /\ UNCHANGED <<request, result, page, lock>>

(* The allocator throws bad_alloc: nothing on the way out releases the lock. *)
AllocateThrows(t) ==
  /\ pc[t] = "alloc"
  /\ \A p \in Pages : level[p] # 0
  /\ Goto(t, "threw")
  /\ UNCHANGED <<request, result, page, fresh, lock, level, slot, cell>>

Store(t) ==
  /\ pc[t] = "store"
  /\ slot' = [slot EXCEPT ![page[t]][Here(t)] = fresh[t]]
  /\ fresh' = [fresh EXCEPT ![t] = Null]
  /\ Goto(t, "unlock")
  /\ UNCHANGED <<request, result, page, lock, level, cell>>

Unlock(t) ==
  /\ pc[t] = "unlock"
  /\ lock' = [lock EXCEPT ![page[t]] = Null]
  /\ Goto(t, "load")
  /\ UNCHANGED <<request, result, page, fresh, level, slot, cell>>

DescendBug(t) ==             \* a middle page is entered without moving to it
  /\ pc[t] = "load"
  /\ Child(t) \in Pages
  /\ page' = IF level[Child(t)] = 3 THEN [page EXCEPT ![t] = Child(t)] ELSE page
  /\ Goto(t, IF level[Child(t)] = 3 THEN "cell" ELSE "test")
  /\ UNCHANGED <<request, result, fresh, lock, level, slot, cell>>

(* The last load of the slot, and the call on the child it names *)
Descend(t) ==
  /\ pc[t] = "load"
  /\ Child(t) \in Pages
  /\ page' = [page EXCEPT ![t] = Child(t)]
  /\ Goto(t, IF level[Child(t)] = 3 THEN "cell" ELSE "test")
  /\ UNCHANGED <<request, result, fresh, lock, level, slot, cell>>

(* The slot names no page: the walk leaves the table through a wild pointer. *)
Fault(t) ==
  /\ pc[t] = "load"
  /\ Child(t) \notin Pages
  /\ Goto(t, "fault")
  /\ UNCHANGED <<request, result, page, fresh, lock, level, slot, cell>>

Assigned(r) == IF r.kind = "write" THEN r.val ELSE Zero

(* The client reads or assigns through the reference. *)
Use(t) ==
  /\ pc[t] = "cell"
  /\ LET r == request[t] IN
       /\ cell' = IF r.kind \in {"write", "erase"}
                    THEN [cell EXCEPT ![page[t]][Here(t)] = Assigned(r)] ELSE cell
       /\ result' = IF r.kind \in {"read", "peek"}
                      THEN [result EXCEPT ![t] = cell[page[t]][Here(t)]] ELSE result
  /\ Return(t)
  /\ UNCHANGED <<fresh, lock, level, slot>>

Walk(t) ==
  \/ LookPresent(t) \/ LookAbsent(t) \/ ProbeAbsent(t)
  \/ Lock(t) \/ Retest(t) \/ Allocate(t) \/ AllocateThrows(t) \/ Store(t) \/ Unlock(t)
  \/ Descend(t) \/ Fault(t) \/ Use(t)

Next == \E t \in Threads : Begin(t) \/ Walk(t)

Spec == Init /\ [][Next]_vars

(* A thread inside a map operation keeps running; the spin locks are not fair. *)
FairSpec == Spec /\ \A t \in Threads : WF_vars(Walk(t))

----------------------------------------------------------------------------
(* Type invariant of the map and of the walks through it, rtLib/PageMap.h  *)
Labels == {"idle", "test", "lock", "retest", "alloc", "store", "unlock",
           "load", "cell", "threw", "fault"}

TypeOK ==
  /\ pc \in [Threads -> Labels]
  /\ request \in [Threads -> Requests \cup {NoRequest}]
  /\ result \in [Threads -> Values]
  /\ page \in [Threads -> Pages]
  /\ fresh \in [Threads -> Pages \cup {Null}]
  /\ lock \in [Pages -> Threads \cup {Null}]
  /\ level \in [Pages -> 0 .. 3]
  /\ slot \in [Pages -> [InnerIx -> Pages \cup {Null, Wild}]]
  /\ cell \in [Pages -> [LeafIx -> Values]]
  /\ \A t \in Threads : request[t] = NoRequest <=> pc[t] = "idle"

(* The leaf that holds key k, or Null when no walk has created it yet *)
Leaf(k) ==
  LET mid == slot[Root][Ix(k, 1)]
  IN  IF mid \in Pages THEN slot[mid][Ix(k, 2)] ELSE Null

(* Every reference get() hands out for a key is to that key's entry of the *)
(* one leaf the table holds for it, whoever created the leaf and whenever  *)
(* (lines 92-108): two handlers on one address never update two shadows.   *)
OneCellPerKey ==
  \A t \in Threads : pc[t] = "cell" => page[t] = Leaf(request[t].key)

(* Keys below the capacity of the table never share an entry: the masks of *)
(* lines 59-61 and 127-129 lose no bit, and no two slots name one page.    *)
NoAliasing ==
  \A k1, k2 \in {k \in Keys : k < RootSize * MidSize * LeafSize /\ Leaf(k) \in Pages} :
    k1 # k2 => <<Leaf(k1), Ix(k1, 3)>> # <<Leaf(k2), Ix(k2, 3)>>

(* No page is lost: an allocated page is in the hands of the thread that   *)
(* is about to install it, or in exactly one slot, one level up.           *)
Parents(p) == {q \in Pages : \E i \in InnerIx : slot[q][i] = p}
NoPageLost ==
  \A p \in Pages \ {Root} : level[p] # 0 =>
    \/ \E t \in Threads : fresh[t] = p /\ pc[t] = "store" /\ Parents(p) = {}
    \/ /\ \E q \in Pages : Parents(p) = {q} /\ level[q] + 1 = level[p]
       /\ \A q \in Pages : \A i, j \in InnerIx : slot[q][i] = p /\ slot[q][j] = p => i = j

(* No walk follows a slot that names no page (lines 63-68 and 107).        *)
NoWildWalk == \A t \in Threads : pc[t] # "fault"

(* A page, once installed, stays: nobody may still hold a reference into a *)
(* page that was replaced (line 99 stores only what line 97 saw missing).  *)
SlotsWriteOnce ==
  [][\A p \in Pages, i \in InnerIx : slot[p][i] # Null => slot'[p][i] = slot[p][i]]_vars

(* Every operation ends although the spin locks are unfair: a lock is only *)
(* taken for a slot seen empty, and each slot is filled once (lines 95-102).*)
(* It takes an allocator that never throws and hands out clean memory.     *)
NobodyFailed == \A t \in Threads : pc[t] \notin {"threw", "fault"}
WalkEnds ==
  []NobodyFailed => \A t \in Threads : (pc[t] # "idle") ~> (pc[t] = "idle")

(* When the allocator has thrown with a page locked (lines 96-98), a walk  *)
(* that starts on a key whose leaf exists still ends: it takes no lock.    *)
InstalledKeysServed ==
  \A t \in Threads :
    (pc[t] = "test" /\ Leaf(request[t].key) \in Pages) ~> (pc[t] = "idle")

(* The inductive invariant, in parts.  The table is a tree of three levels *)
(* under Root; a page in flight belongs to one thread; the lock of the page *)
(* a thread is filling is its own; and a walk stands on the path of its key.*)
TreeShape ==
  /\ level[Root] = 1
  /\ \A p \in Pages : level[p] = 1 => p = Root
  /\ \A p \in Pages, i \in InnerIx : slot[p][i] # Null =>
       /\ level[p] \in {1, 2}
       /\ slot[p][i] \in Pages => level[slot[p][i]] = level[p] + 1
       /\ slot[p][i] = Wild => DirtyHeap
  /\ \A p, q \in Pages, i, j \in InnerIx :
       slot[p][i] = slot[q][j] /\ slot[p][i] \in Pages => p = q /\ i = j

PagesOwned ==
  /\ \A t \in Threads : pc[t] = "store" <=> fresh[t] # Null
  /\ \A t \in Threads : fresh[t] \in Pages =>
       /\ level[fresh[t]] = level[page[t]] + 1
       /\ \A p \in Pages, i \in InnerIx : slot[p][i] # fresh[t]
       /\ \A u \in Threads : fresh[u] = fresh[t] => u = t
  /\ \A p \in Pages \ {Root} : level[p] # 0 =>
       \/ \E t \in Threads : fresh[t] = p
       \/ \E q \in Pages, i \in InnerIx : slot[q][i] = p

LocksHeld ==
  \A t \in Threads : pc[t] \in {"retest", "alloc", "store", "unlock", "threw"} => lock[page[t]] = t

OnPath(t) ==
  /\ level[page[t]] # 0
  /\ pc[t] = "idle" => page[t] = Root
  /\ pc[t] = "cell" <=> level[page[t]] = 3
  /\ level[page[t]] = 2 => page[t] = slot[Root][Ix(request[t].key, 1)]
  /\ level[page[t]] = 3 => page[t] = Leaf(request[t].key)
  /\ pc[t] \in {"alloc", "store"} => Child(t) = Null
  /\ pc[t] \in {"unlock", "load"} => Child(t) # Null

IInv ==
  /\ TypeOK /\ TreeShape /\ PagesOwned /\ LocksHeld
  /\ \A t \in Threads : OnPath(t)

(* A page in flight names no page and holds no value yet: installing it    *)
(* adds keys to the table without changing what any key reads.             *)
FreshBlank ==
  \A t \in Threads : fresh[t] \in Pages =>
    /\ \A i \in InnerIx : slot[fresh[t]][i] \notin Pages
    /\ \A i \in LeafIx : cell[fresh[t]][i] = Zero

FullInv == IInv /\ FreshBlank

(* The cell of a key: its entry in its leaf, Zero before the leaf exists.  *)
ShadowCell ==
  [k \in Keys |-> IF Leaf(k) \in Pages THEN cell[Leaf(k)][Ix(k, 3)] ELSE Zero]

Shadow == INSTANCE ShadowMap WITH mem <- ShadowCell

(* Growing the table is invisible: every operation of universe::map is one *)
(* atomic access to the key's own cell.                                    *)
ImplementsShadowMapSafely == Shadow!Spec
=============================================================================
