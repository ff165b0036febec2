---------------------------- MODULE PageMapUnsync ----------------------------
(***************************************************************************)
(* unsync::PageMap (rtLib/PageMapUnsync.h), the same table without locks.  *)
(* The analyses whose types are not declared sync use it, and nothing      *)
(* keeps them from programs with several threads.  A missing child is made *)
(* and stored after one look, so that two walks that meet may install two  *)
(* pages.  The steps of a walk are those of PageMap, but for what follows  *)
(* the look and the store; this table clears the slots of a new page.      *)
(***************************************************************************)
EXTENDS PageMap

ASSUME UnsyncAssumption == ~DirtyHeap

LookUnsyncBug(t) ==          \* the slot is not looked at
  /\ pc[t] = "test"
  /\ ~Probing(request[t])
  /\ Goto(t, "alloc")
  /\ UNCHANGED <<request, result, page, fresh, lock, level, slot, cell>>

LookAbsentUnsync(t) ==
  /\ pc[t] = "test"
  /\ Child(t) = Null
  /\ ~Probing(request[t])
  /\ Goto(t, "alloc")
  /\ UNCHANGED <<request, result, page, fresh, lock, level, slot, cell>>

(* The slot is loaded again after the store. *)
StoreUnsync(t) ==
  /\ pc[t] = "store"
  /\ slot' = [slot EXCEPT ![page[t]][Here(t)] = fresh[t]]
  /\ fresh' = [fresh EXCEPT ![t] = Null]
  /\ Goto(t, "load")
  /\ UNCHANGED <<request, result, page, lock, level, cell>>

WalkUnsync(t) ==
  \/ LookPresent(t) \/ LookAbsentUnsync(t) \/ ProbeAbsent(t)
  \/ Allocate(t) \/ AllocateThrows(t) \/ StoreUnsync(t)
  \/ Descend(t) \/ Use(t)

UnsyncNext == \E t \in Threads : Begin(t) \/ WalkUnsync(t)

UnsyncSpec == Init /\ [][UnsyncNext]_vars

----------------------------------------------------------------------------
(* The slots of the walk to key k that may still be replaced: a thread has *)
(* seen one of them empty and will store its own page there.               *)
Racing(k) ==
  \E t \in Threads :
    /\ pc[t] \in {"alloc", "store"}
    /\ \/ page[t] = Root /\ Here(t) = Ix(k, 1)
       \/ page[t] = slot[Root][Ix(k, 1)] /\ Here(t) = Ix(k, 2)

Settled(k) == Leaf(k) \in Pages /\ ~Racing(k)

(* The cell of a key is lost only to a walk that looked before the key's   *)
(* leaf was there: once it is, and nobody is between the look and the      *)
(* store of line 94-96 on its path, the key keeps that leaf for ever.      *)
SettledStays ==
  [][\A k \in Keys : Settled(k) => Settled(k)' /\ Leaf(k)' = Leaf(k)]_vars

(* What races lose, they never mix up: however many pages were installed   *)
(* over each other (lines 90-100), a walk that ends in a leaf is there     *)
(* with a key of that leaf, whether the table still finds the leaf or not. *)
SameLeaf(k1, k2) == k1 \div LeafSize = k2 \div LeafSize
LeavesNotMixed ==
  \A t \in Threads : pc[t] = "cell" =>
    /\ \A k \in Keys : Leaf(k) = page[t] => SameLeaf(k, request[t].key)
    /\ \A u \in Threads : page[u] = page[t] => SameLeaf(request[u].key, request[t].key)

(* The inductive invariant of both.  The table is a tree as in PageMap; a  *)
(* page in flight is empty, in no slot, and nobody is in it.               *)
InFlight ==
  \A t \in Threads :
    /\ pc[t] = "store" <=> fresh[t] # Null
    /\ fresh[t] \in Pages =>
         /\ level[fresh[t]] = level[page[t]] + 1
         /\ \A i \in InnerIx : slot[fresh[t]][i] = Null
         /\ \A p \in Pages, i \in InnerIx : slot[p][i] # fresh[t]
         /\ \A u \in Threads : page[u] # fresh[t] /\ (fresh[u] = fresh[t] => u = t)

(* A page is reached on one way only, also by walks that are in it when    *)
(* another page has taken its slot: all threads in it agree on the indices *)
(* that led there, with each other and with the slots that still lead.     *)
AtLevel(t, l) == level[page[t]] = l
Turned(t, l) == Ix(request[t].key, l)
OneWay(t) ==
  /\ level[page[t]] # 0
  /\ pc[t] = "idle" => page[t] = Root
  /\ pc[t] = "cell" <=> AtLevel(t, 3)
  /\ \A u \in Threads : page[u] = page[t] =>
       /\ AtLevel(t, 2) \/ AtLevel(t, 3) => Turned(u, 1) = Turned(t, 1)
       /\ AtLevel(t, 3) => Turned(u, 2) = Turned(t, 2)
  /\ AtLevel(t, 2) => \A i \in InnerIx : slot[Root][i] = page[t] => Turned(t, 1) = i
  /\ AtLevel(t, 3) => \A m \in Pages, j \in InnerIx : slot[m][j] = page[t] =>
       /\ Turned(t, 2) = j
       /\ \A i \in InnerIx : slot[Root][i] = m => Turned(t, 1) = i
       /\ \A u \in Threads : page[u] = m => Turned(u, 1) = Turned(t, 1)

UnsyncInv == TypeOK /\ TreeShape /\ InFlight /\ \A t \in Threads : OneWay(t)
=============================================================================
