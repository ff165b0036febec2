--------------------------- MODULE PageMapProofs ---------------------------
(***************************************************************************)
(* Theorems about PageMap: its safety properties hold for every number of  *)
(* threads, keys and pages and for every page size, and the map implements *)
(* ShadowMap.  The argument is the inductive invariant IInv.               *)
(***************************************************************************)
EXTENDS PageMapUnsync, TLAPS

(* Each keyMask() yields an index of its page. *)
LEMMA IxRange ==
  ASSUME NEW k \in Keys
  PROVE  /\ Ix(k, 1) \in InnerIx
         /\ Ix(k, 2) \in InnerIx
         /\ Ix(k, 3) \in LeafIx
<1>1. k \in Nat /\ MidSize * LeafSize \in Nat /\ MidSize * LeafSize > 0 /\ LeafSize > 0
  BY PageAssumption
<1>2. k \div (MidSize * LeafSize) \in Nat /\ k \div LeafSize \in Nat
  BY <1>1, PageAssumption
<1>3. /\ (k \div (MidSize * LeafSize)) % RootSize \in 0 .. RootSize - 1
      /\ (k \div LeafSize) % MidSize \in 0 .. MidSize - 1
      /\ k % LeafSize \in 0 .. LeafSize - 1
  BY <1>1, <1>2, PageAssumption
<1>4. QED
  BY <1>3, PageAssumption DEF Ix, InnerIx, LeafIx

(* A walk indexes the page it is at within bounds, whatever level that is. *)
LEMMA HereOnPath ==
  ASSUME TypeOK, NEW t \in Threads, OnPath(t), pc[t] # "idle"
  PROVE  /\ request[t] \in Requests
         /\ request[t].key \in Keys
         /\ page[t] \in Pages
         /\ level[page[t]] \in {1, 2, 3}
         /\ pc[t] # "cell" => level[page[t]] \in {1, 2} /\ Here(t) \in InnerIx
         /\ pc[t] = "cell" => level[page[t]] = 3 /\ Here(t) \in LeafIx
<1>1. request[t] \in Requests /\ page[t] \in Pages
  BY DEF TypeOK
<1>2. request[t].key \in Keys
  BY <1>1 DEF Requests
<1>3. level[page[t]] \in {1, 2, 3} /\ (pc[t] = "cell" <=> level[page[t]] = 3)
  BY <1>1 DEF TypeOK, OnPath
<1>4. QED
  BY <1>1, <1>2, <1>3, IxRange DEF Here

LEMMA HereRange ==
  ASSUME IInv, NEW t \in Threads, pc[t] # "idle"
  PROVE  /\ request[t] \in Requests
         /\ request[t].key \in Keys
         /\ page[t] \in Pages
         /\ level[page[t]] \in {1, 2, 3}
         /\ pc[t] # "cell" => level[page[t]] \in {1, 2} /\ Here(t) \in InnerIx
         /\ pc[t] = "cell" => level[page[t]] = 3 /\ Here(t) \in LeafIx
  BY HereOnPath DEF IInv

LEMMA TypeInit == Init => TypeOK
<1> SUFFICES ASSUME Init PROVE TypeOK
  OBVIOUS
<1>1. slot \in [Pages -> [InnerIx -> Pages \cup {Null, Wild}]]
  BY DEF Init
<1>2. cell \in [Pages -> [LeafIx -> Values]] /\ level \in [Pages -> 0 .. 3]
  BY PageAssumption DEF Init
<1>3. QED
  BY <1>1, <1>2, PageAssumption DEF Init, TypeOK, Labels

(* Every action keeps the variables in their types. *)
LEMMA TypeStep ==
  ASSUME IInv, NEW t \in Threads, Begin(t) \/ Walk(t)
  PROVE  TypeOK'
<1> USE DEF Labels, Goto
<1>t. TypeOK
  BY DEF IInv
<1>1. CASE Begin(t)
  BY <1>1, <1>t, NoRequestAssumption DEF Begin, TypeOK
<1>2. CASE LookPresent(t)
  BY <1>2, <1>t DEF LookPresent, TypeOK
<1>3. CASE LookAbsent(t)
  BY <1>3, <1>t DEF LookAbsent, TypeOK
<1>4. CASE ProbeAbsent(t)
  <2>1. result' \in [Threads -> Values]
    BY <1>4, <1>t DEF ProbeAbsent, TypeOK
  <2>2. QED
    BY <1>4, <1>t, <2>1, PageAssumption DEF ProbeAbsent, Return, TypeOK
<1>5. CASE Lock(t)
  BY <1>5, <1>t DEF Lock, TypeOK
<1>6. CASE Retest(t)
  BY <1>6, <1>t DEF Retest, TypeOK
<1>7. CASE Allocate(t)
  <2>1. level[page[t]] \in {1, 2}
    BY <1>7, HereRange DEF Allocate
  <2>2. slot' \in [Pages -> [InnerIx -> Pages \cup {Null, Wild}]]
    BY <1>7, <1>t DEF Allocate, Unset, TypeOK
  <2>3. /\ level' \in [Pages -> 0 .. 3]
        /\ cell' \in [Pages -> [LeafIx -> Values]]
        /\ fresh' \in [Threads -> Pages \cup {Null}]
    BY <1>7, <1>t, <2>1, PageAssumption DEF Allocate, TypeOK
  <2>4. QED
    BY <1>7, <1>t, <2>2, <2>3 DEF Allocate, TypeOK
<1>8. CASE AllocateThrows(t)
  BY <1>8, <1>t DEF AllocateThrows, TypeOK
<1>9. CASE Store(t)
  BY <1>9, <1>t, HereRange DEF Store, TypeOK
<1>10. CASE Unlock(t)
  BY <1>10, <1>t DEF Unlock, TypeOK
<1>11. CASE Descend(t)
  BY <1>11, <1>t DEF Descend, TypeOK
<1>12. CASE Fault(t)
  BY <1>12, <1>t DEF Fault, TypeOK
<1>13. CASE Use(t)
  <2>1. /\ request[t] \in Requests /\ Here(t) \in LeafIx /\ page[t] \in Pages
    BY <1>13, HereRange DEF Use
  <2>2. Assigned(request[t]) \in Values
    BY <2>1, PageAssumption DEF Assigned, Requests
  <2>3. cell' \in [Pages -> [LeafIx -> Values]]
    BY <1>13, <1>t, <2>1, <2>2 DEF Use, TypeOK
  <2>4. result' \in [Threads -> Values]
    BY <1>13, <1>t, <2>1 DEF Use, TypeOK
  <2>5. QED
    BY <1>13, <1>t, <2>3, <2>4, PageAssumption DEF Use, Return, TypeOK
<1>14. QED
  BY <1>1, <1>2, <1>3, <1>4, <1>5, <1>6, <1>7, <1>8, <1>9, <1>10, <1>11, <1>12, <1>13 DEF Walk

----------------------------------------------------------------------------
(* Steps that leave the table alone keep every thread that does not move on *)
(* its path.                                                                *)
LEMMA PathFrame ==
  ASSUME NEW u \in Threads, OnPath(u), UNCHANGED <<level, slot>>,
         pc'[u] = pc[u], page'[u] = page[u], request'[u] = request[u]
  PROVE  OnPath(u)'
BY DEF OnPath, Leaf, Child, Here

LEMMA InitInv == Init => IInv
<1> SUFFICES ASSUME Init PROVE IInv
  OBVIOUS
<1>1. TypeOK
  BY TypeInit
<1>2. \A p \in Pages, i \in InnerIx : slot[p][i] = Null
  BY DEF Init
<1>3. \A p \in Pages : level[p] = IF p = Root THEN 1 ELSE 0
  BY DEF Init
<1>4. TreeShape
  BY <1>2, <1>3, PageAssumption DEF TreeShape
<1>5. PagesOwned
  BY <1>2, <1>3, PageAssumption DEF Init, PagesOwned
<1>6. LocksHeld
  BY DEF Init, LocksHeld
<1>7. \A t \in Threads : OnPath(t)
  BY <1>3, PageAssumption DEF Init, OnPath
<1>8. QED
  BY <1>1, <1>4, <1>5, <1>6, <1>7 DEF IInv

(* The steps that change neither the table nor who owns a page in flight *)
LEMMA ReadStep ==
  ASSUME IInv, NEW t \in Threads,
         Begin(t) \/ LookPresent(t) \/ LookAbsent(t) \/ ProbeAbsent(t)
         \/ Lock(t) \/ Retest(t) \/ AllocateThrows(t) \/ Unlock(t)
         \/ Descend(t) \/ Fault(t) \/ Use(t)
  PROVE  IInv'
<1> USE DEF Goto
<1>t. TypeOK /\ TreeShape /\ PagesOwned /\ LocksHeld /\ \A u \in Threads : OnPath(u)
  BY DEF IInv
<1>1. TypeOK'
  BY TypeStep DEF Walk
<1>2. UNCHANGED <<level, slot, fresh>>
  BY DEF Begin, LookPresent, LookAbsent, ProbeAbsent, Lock, Retest, AllocateThrows,
         Unlock, Descend, Fault, Use
<1>3. TreeShape'
  BY <1>t, <1>2 DEF TreeShape
<1>4. /\ pc[t] # "store" /\ pc'[t] # "store"
      /\ \A u \in Threads \ {t} : /\ pc'[u] = pc[u] /\ page'[u] = page[u]
                                  /\ request'[u] = request[u]
  BY <1>t DEF Begin, LookPresent, LookAbsent, ProbeAbsent, Lock, Retest, AllocateThrows,
         Unlock, Descend, Fault, Use, Return, TypeOK, Labels
<1>5. PagesOwned'
  <2>1. fresh[t] = Null
    BY <1>t, <1>4 DEF PagesOwned, TypeOK
  <2>2. \A u \in Threads : pc'[u] = "store" <=> fresh'[u] # Null
    BY <1>t, <1>2, <1>4 DEF PagesOwned
  <2>3. ASSUME NEW u \in Threads, fresh'[u] \in Pages
        PROVE  /\ level'[fresh'[u]] = level'[page'[u]] + 1
               /\ \A p \in Pages, i \in InnerIx : slot'[p][i] # fresh'[u]
               /\ \A v \in Threads : fresh'[v] = fresh'[u] => v = u
    <3>1. u # t
      BY <2>1, <2>3, <1>2, PageAssumption
    <3>2. QED
      BY <1>t, <1>2, <1>4, <2>3, <3>1 DEF PagesOwned
  <2>4. QED
    BY <1>t, <1>2, <2>2, <2>3 DEF PagesOwned
<1>6. LocksHeld'
  <2>1. CASE Lock(t)
    BY <2>1, <1>t, PageAssumption DEF Lock, LocksHeld, TypeOK, Labels
  <2>2. CASE Unlock(t)
    <3>1. lock[page[t]] = t
      BY <2>2, <1>t DEF Unlock, LocksHeld
    <3>2. QED
      BY <2>2, <3>1, <1>t DEF Unlock, LocksHeld, TypeOK, Labels
  <2>3. CASE ~Lock(t) /\ ~Unlock(t)
    <3>1. UNCHANGED lock
      BY <2>3 DEF Begin, LookPresent, LookAbsent, ProbeAbsent, Retest, AllocateThrows,
                  Descend, Fault, Use
    <3>2. pc'[t] \in {"retest", "alloc", "store", "unlock", "threw"}
            => pc[t] \in {"retest", "alloc", "store", "unlock", "threw"} /\ page'[t] = page[t]
      BY <2>3, <1>t DEF Begin, LookPresent, LookAbsent, ProbeAbsent, Retest, AllocateThrows,
                  Descend, Fault, Use, Return, TypeOK, Labels
    <3>3. QED
      BY <3>1, <3>2, <1>4, <1>t DEF LocksHeld
  <2>4. QED
    BY <2>1, <2>2, <2>3
<1>7. OnPath(t)'
  <2> USE DEF OnPath, Child, Here, Leaf
  <2>1. CASE Descend(t)
    <3> DEFINE k == request[t].key
               c == Child(t)
    <3>1. /\ page[t] \in Pages /\ Here(t) \in InnerIx /\ c \in Pages /\ level[page[t]] \in {1, 2}
      BY <2>1, HereRange DEF Descend
    <3>2. level[c] = level[page[t]] + 1
      BY <3>1, <1>t, PageAssumption DEF TreeShape
    <3>3. page'[t] = c /\ request'[t] = request[t]
      BY <2>1, <1>t DEF Descend, TypeOK
    <3>4. pc'[t] = IF level[c] = 3 THEN "cell" ELSE "test"
      BY <2>1, <1>t DEF Descend, TypeOK
    <3>5. CASE level[page[t]] = 1
      <4>1. page[t] = Root
        BY <3>1, <3>5, <1>t DEF TreeShape
      <4>2. QED
        BY <4>1, <3>1, <3>2, <3>3, <3>4, <3>5, <1>2
    <3>6. CASE level[page[t]] = 2
      <4>1. page[t] = slot[Root][Ix(k, 1)]
        BY <3>6, <1>t
      <4>2. c = Leaf(k)
        BY <4>1, <3>1, <3>6
      <4>3. level[c] = 3 /\ Leaf(k)' = Leaf(k)
        BY <3>1, <3>2, <3>3, <3>6, <1>2
      <4>4. page'[t] = c /\ pc'[t] = "cell" /\ level'[c] = 3
        BY <4>3, <3>3, <3>4, <1>2
      <4>5. Leaf(request[t].key)' = c
        BY <4>2, <4>3, <3>3
      <4> HIDE DEF Child, Here, Leaf, k, c
      <4>6. QED
        BY <4>4, <4>5
    <3>7. QED
      BY <3>1, <3>5, <3>6
  <2>2. CASE Begin(t)
    BY <2>2, <1>2, <1>t, PageAssumption DEF Begin, TypeOK, Labels, TreeShape
  <2>3. CASE ProbeAbsent(t) \/ Use(t)
    BY <2>3, <1>2, <1>t, PageAssumption DEF ProbeAbsent, Use, Return, TypeOK, Labels, TreeShape
  <2>4. CASE LookPresent(t) \/ LookAbsent(t)
    BY <2>4, <1>2, <1>t DEF LookPresent, LookAbsent, TypeOK, Labels
  <2>5. CASE Lock(t) \/ Retest(t) \/ AllocateThrows(t)
    BY <2>5, <1>2, <1>t DEF Lock, Retest, AllocateThrows, TypeOK, Labels
  <2>6. CASE Unlock(t) \/ Fault(t)
    BY <2>6, <1>2, <1>t DEF Unlock, Fault, TypeOK, Labels
  <2>7. QED
    BY <2>1, <2>2, <2>3, <2>4, <2>5, <2>6
<1>8. \A u \in Threads : OnPath(u)'
  BY <1>7, <1>t, <1>2, <1>4, PathFrame
<1>9. QED
  BY <1>1, <1>3, <1>5, <1>6, <1>8 DEF IInv

(* allocate_page() takes a page that nobody can see yet. *)
LEMMA AllocateStep ==
  ASSUME IInv, NEW t \in Threads, Allocate(t)
  PROVE  IInv'
<1> USE DEF Goto
<1>t. TypeOK /\ TreeShape /\ PagesOwned /\ LocksHeld /\ \A u \in Threads : OnPath(u)
  BY DEF IInv
<1>1. PICK p \in Pages :
        /\ level[p] = 0
        /\ fresh' = [fresh EXCEPT ![t] = p]
        /\ level' = [level EXCEPT ![p] = level[page[t]] + 1]
        /\ \A q \in Pages \ {p} : slot'[q] = slot[q]
        /\ \A i \in InnerIx : slot'[p][i] \in Unset(level[page[t]] + 1)
  <2>1. PICK p \in Pages, garbage \in [InnerIx -> Unset(level[page[t]] + 1)] :
          /\ level[p] = 0
          /\ fresh' = [fresh EXCEPT ![t] = p]
          /\ level' = [level EXCEPT ![p] = level[page[t]] + 1]
          /\ slot' = [slot EXCEPT ![p] = garbage]
    BY DEF Allocate
  <2>2. slot'[p] = garbage /\ \A q \in Pages \ {p} : slot'[q] = slot[q]
    BY <2>1, <1>t DEF TypeOK
  <2>3. QED
    BY <2>1, <2>2
<1>2. /\ pc[t] = "alloc" /\ pc' = [pc EXCEPT ![t] = "store"]
      /\ UNCHANGED <<request, page, lock>>
  BY DEF Allocate
<1>3. /\ page[t] \in Pages /\ level[page[t]] \in {1, 2} /\ Here(t) \in InnerIx
  BY <1>2, HereRange
<1>4. /\ \A q \in Pages \ {p} : slot'[q] = slot[q] /\ level'[q] = level[q]
      /\ \A i \in InnerIx : slot'[p][i] \in {Null, Wild}
      /\ \A i \in InnerIx : slot'[p][i] # Null => DirtyHeap /\ level'[p] = 2
      /\ level'[p] = level[page[t]] + 1
  <2>1. level'[p] = level[page[t]] + 1 /\ \A q \in Pages \ {p} : level'[q] = level[q]
    BY <1>1, <1>t DEF TypeOK
  <2>2. ASSUME NEW i \in InnerIx
        PROVE  slot'[p][i] \in {Null, Wild} /\ (slot'[p][i] # Null => DirtyHeap /\ level'[p] = 2)
    <3>1. slot'[p][i] \in Unset(level[page[t]] + 1)
      BY <1>1
    <3>2. CASE DirtyHeap /\ level[page[t]] + 1 = 2
      BY <3>1, <3>2, <2>1 DEF Unset
    <3>3. CASE ~(DirtyHeap /\ level[page[t]] + 1 = 2)
      BY <3>1, <3>3 DEF Unset
    <3>4. QED
      BY <3>2, <3>3
  <2>3. QED
    BY <1>1, <2>1, <2>2
<1>5. \A q \in Pages, i \in InnerIx : slot[q][i] # p
  <2>1. ASSUME NEW q \in Pages, NEW i \in InnerIx, slot[q][i] = p PROVE FALSE
    <3>1. level[q] \in {1, 2} /\ level[p] = level[q] + 1
      BY <2>1, <1>t, PageAssumption DEF TreeShape
    <3>2. QED
      BY <3>1, <1>1
  <2>2. QED
    BY <2>1
<1>6. \A u \in Threads : fresh[u] # p
  <2>1. ASSUME NEW u \in Threads, fresh[u] = p PROVE FALSE
    <3>1. level[p] = level[page[u]] + 1
      BY <2>1, <1>t DEF PagesOwned
    <3>2. level[page[u]] \in 0 .. 3
      BY <1>t DEF TypeOK
    <3>3. QED
      BY <3>1, <3>2, <1>1
  <2>2. QED
    BY <2>1
<1>7. \A q \in Pages, i \in InnerIx : slot'[q][i] \in Pages => q # p /\ slot'[q][i] = slot[q][i]
  BY <1>4, PageAssumption
<1>8. p # Root /\ \A u \in Threads : page[u] # p
  BY <1>1, <1>t DEF TreeShape, OnPath
<1>9. TypeOK'
  BY TypeStep DEF Walk
<1>10. TreeShape'
  <2>1. level'[Root] = 1
    BY <1>4, <1>8, <1>t, PageAssumption DEF TreeShape
  <2>2. \A q \in Pages : level'[q] = 1 => q = Root
    BY <1>3, <1>4, <1>t DEF TreeShape
  <2>3. \A q \in Pages, i \in InnerIx : slot'[q][i] # Null =>
          /\ level'[q] \in {1, 2}
          /\ slot'[q][i] \in Pages => level'[slot'[q][i]] = level'[q] + 1
          /\ slot'[q][i] = Wild => DirtyHeap
    BY <1>3, <1>4, <1>5, <1>7, <1>t, PageAssumption DEF TreeShape
  <2>4. \A q, r \in Pages, i, j \in InnerIx :
          slot'[q][i] = slot'[r][j] /\ slot'[q][i] \in Pages => q = r /\ i = j
    BY <1>7, <1>t DEF TreeShape
  <2>5. QED
    BY <2>1, <2>2, <2>3, <2>4 DEF TreeShape
<1>11. PagesOwned'
  <2>1. \A u \in Threads : fresh'[u] = IF u = t THEN p ELSE fresh[u]
    BY <1>1, <1>t DEF TypeOK
  <2>2. \A u \in Threads : pc'[u] = "store" <=> fresh'[u] # Null
    BY <1>2, <2>1, <1>t, PageAssumption DEF PagesOwned, TypeOK
  <2>3. ASSUME NEW u \in Threads, fresh'[u] \in Pages
        PROVE  /\ level'[fresh'[u]] = level'[page'[u]] + 1
               /\ \A q \in Pages, i \in InnerIx : slot'[q][i] # fresh'[u]
               /\ \A v \in Threads : fresh'[v] = fresh'[u] => v = u
    <3>1. page'[u] = page[u] /\ page[u] \in Pages \ {p}
      BY <1>2, <1>8, <1>t DEF TypeOK
    <3>2. CASE u = t
      BY <3>1, <3>2, <2>1, <1>3, <1>4, <1>5, <1>6, <1>7
    <3>3. CASE u # t
      BY <3>1, <3>3, <2>1, <2>3, <1>4, <1>6, <1>7, <1>t DEF PagesOwned
    <3>4. QED
      BY <3>2, <3>3
  <2>4. ASSUME NEW q \in Pages \ {Root}, level'[q] # 0
        PROVE  \/ \E u \in Threads : fresh'[u] = q
               \/ \E r \in Pages, i \in InnerIx : slot'[r][i] = q
    <3>1. CASE q = p
      BY <3>1, <2>1
    <3>2. CASE q # p /\ \E u \in Threads : fresh[u] = q
      <4>1. fresh[t] = Null
        BY <1>2, <1>t DEF PagesOwned
      <4>2. QED
        BY <3>2, <4>1, <2>1, PageAssumption
    <3>3. CASE q # p /\ \E r \in Pages, i \in InnerIx : slot[r][i] = q
      <4>1. PICK r \in Pages, i \in InnerIx : slot[r][i] = q
        BY <3>3
      <4>2. level[r] \in {1, 2}
        BY <4>1, <1>t, PageAssumption DEF TreeShape
      <4>3. slot'[r][i] = q
        BY <4>1, <4>2, <1>1, <1>4
      <4>4. QED
        BY <4>3
    <3>4. level[q] # 0 \/ q = p
      BY <2>4, <1>4
    <3>5. QED
      BY <3>1, <3>2, <3>3, <3>4, <1>t DEF PagesOwned
  <2>5. QED
    BY <2>2, <2>3, <2>4 DEF PagesOwned
<1>12. LocksHeld'
  BY <1>2, <1>t DEF LocksHeld, TypeOK
<1>13. ASSUME NEW u \in Threads PROVE OnPath(u)'
  <2>1. /\ page'[u] = page[u] /\ request'[u] = request[u] /\ page[u] \in Pages \ {p}
        /\ slot'[page[u]] = slot[page[u]] /\ level'[page[u]] = level[page[u]]
    BY <1>2, <1>4, <1>8, <1>t DEF TypeOK
  <2>2. Here(u)' = Here(u) /\ Child(u)' = Child(u)
    BY <2>1 DEF Here, Child
  <2>3. slot'[Root] = slot[Root]
    BY <1>4, <1>8, PageAssumption
  <2>4. pc'[u] = IF u = t THEN "store" ELSE pc[u]
    BY <1>2, <1>t DEF TypeOK
  <2>5. ASSUME level[page[u]] = 3 PROVE page[u] = Leaf(request[u].key)'
    <3> DEFINE mid == slot[Root][Ix(request[u].key, 1)]
    <3>1. pc[u] = "cell"
      BY <2>5, <1>t DEF OnPath
    <3>2. request[u].key \in Keys /\ Ix(request[u].key, 1) \in InnerIx
      BY <3>1, HereRange, IxRange
    <3>3. page[u] = Leaf(request[u].key)
      BY <2>5, <1>t DEF OnPath
    <3>4. mid \in Pages
      BY <3>3, <2>1, PageAssumption DEF Leaf
    <3>5. mid # p
      BY <3>2, <1>5, PageAssumption
    <3>6. QED
      BY <3>3, <3>4, <3>5, <2>1, <2>3, <1>4 DEF Leaf
  <2>6. QED
    BY <2>1, <2>2, <2>3, <2>4, <2>5, <1>2, <1>t DEF OnPath
<1>14. QED
  BY <1>9, <1>10, <1>11, <1>12, <1>13 DEF IInv

(* Installing a page fills one empty slot and changes nothing else. *)
LEMMA StoreEffect ==
  ASSUME IInv, NEW t \in Threads, Store(t)
  PROVE  /\ page[t] \in Pages /\ Here(t) \in InnerIx /\ level[page[t]] \in {1, 2}
         /\ fresh[t] \in Pages /\ level[fresh[t]] = level[page[t]] + 1
         /\ slot[page[t]][Here(t)] = Null
         /\ \A p \in Pages, i \in InnerIx :
              slot'[p][i] = IF p = page[t] /\ i = Here(t) THEN fresh[t] ELSE slot[p][i]
         /\ \A p \in Pages, i \in InnerIx : slot[p][i] # Null => slot'[p][i] = slot[p][i]
         /\ UNCHANGED <<level, page, request, lock>>
<1>1. /\ page[t] \in Pages /\ Here(t) \in InnerIx /\ level[page[t]] \in {1, 2}
  BY HereRange DEF Store
<1>2. /\ fresh[t] \in Pages /\ level[fresh[t]] = level[page[t]] + 1
  BY DEF Store, IInv, PagesOwned, TypeOK
<1>3. slot[page[t]][Here(t)] = Null
  BY DEF Store, IInv, OnPath, Child
<1>4. \A p \in Pages, i \in InnerIx :
        slot'[p][i] = IF p = page[t] /\ i = Here(t) THEN fresh[t] ELSE slot[p][i]
  BY <1>1 DEF Store, IInv, TypeOK
<1>5. UNCHANGED <<level, page, request, lock>>
  BY DEF Store
<1>6. QED
  BY <1>1, <1>2, <1>3, <1>4, <1>5

LEMMA StoreStep ==
  ASSUME IInv, NEW t \in Threads, Store(t)
  PROVE  IInv'
<1> USE DEF Goto
<1>t. TypeOK /\ TreeShape /\ PagesOwned /\ LocksHeld /\ \A u \in Threads : OnPath(u)
  BY DEF IInv
<1> DEFINE f == fresh[t]
<1>1. /\ pc[t] = "store" /\ pc' = [pc EXCEPT ![t] = "unlock"]
      /\ fresh' = [fresh EXCEPT ![t] = Null]
  BY DEF Store
<1>2. /\ page[t] \in Pages /\ Here(t) \in InnerIx /\ level[page[t]] \in {1, 2}
      /\ f \in Pages /\ level[f] = level[page[t]] + 1
      /\ slot[page[t]][Here(t)] = Null
      /\ UNCHANGED <<level, page, request, lock>>
  BY StoreEffect
<1>3. \A p \in Pages, i \in InnerIx :
        slot'[p][i] = IF p = page[t] /\ i = Here(t) THEN f ELSE slot[p][i]
  BY StoreEffect
<1>4. \A p \in Pages, i \in InnerIx : slot[p][i] # Null => slot'[p][i] = slot[p][i]
  BY StoreEffect
<1>5. \A p \in Pages, i \in InnerIx : slot[p][i] # f
  BY <1>2, <1>t DEF PagesOwned
<1>6. TypeOK'
  BY TypeStep DEF Walk
<1>7. TreeShape'
  <2>1. \A p \in Pages, i \in InnerIx : slot'[p][i] # Null =>
          /\ level[p] \in {1, 2}
          /\ slot'[p][i] \in Pages => level[slot'[p][i]] = level[p] + 1
          /\ slot'[p][i] = Wild => DirtyHeap
    BY <1>2, <1>3, <1>t, PageAssumption DEF TreeShape
  <2>2. \A p, q \in Pages, i, j \in InnerIx :
          slot'[p][i] = slot'[q][j] /\ slot'[p][i] \in Pages => p = q /\ i = j
    BY <1>3, <1>5, <1>t DEF TreeShape
  <2>3. QED
    BY <2>1, <2>2, <1>2, <1>t DEF TreeShape
<1>8. PagesOwned'
  <2>1. \A u \in Threads : fresh'[u] = IF u = t THEN Null ELSE fresh[u]
    BY <1>1, <1>t DEF TypeOK
  <2>2. \A u \in Threads : pc'[u] = "store" <=> fresh'[u] # Null
    BY <1>1, <2>1, <1>t DEF PagesOwned, TypeOK
  <2>3. ASSUME NEW u \in Threads, fresh'[u] \in Pages
        PROVE  /\ level'[fresh'[u]] = level'[page'[u]] + 1
               /\ \A p \in Pages, i \in InnerIx : slot'[p][i] # fresh'[u]
               /\ \A v \in Threads : fresh'[v] = fresh'[u] => v = u
    <3>1. u # t /\ fresh'[u] = fresh[u]
      BY <2>1, <2>3, PageAssumption
    <3>2. fresh[u] # f
      BY <3>1, <1>2, <1>t DEF PagesOwned
    <3>3. QED
      BY <3>1, <3>2, <2>1, <2>3, <1>2, <1>3, <1>t, PageAssumption DEF PagesOwned
  <2>4. ASSUME NEW p \in Pages \ {Root}, level'[p] # 0
        PROVE  \/ \E u \in Threads : fresh'[u] = p
               \/ \E q \in Pages, i \in InnerIx : slot'[q][i] = p
    <3>1. CASE p = f
      BY <3>1, <1>2, <1>3
    <3>2. CASE p # f /\ \E u \in Threads : fresh[u] = p
      BY <3>2, <2>1
    <3>3. CASE \E q \in Pages, i \in InnerIx : slot[q][i] = p
      BY <3>3, <1>4, PageAssumption
    <3>4. level[p] # 0
      BY <2>4, <1>2
    <3>5. QED
      BY <3>1, <3>2, <3>3, <3>4, <1>t DEF PagesOwned
  <2>5. QED
    BY <2>2, <2>3, <2>4 DEF PagesOwned
<1>9. LocksHeld'
  BY <1>1, <1>2, <1>t DEF LocksHeld, TypeOK
<1>10. ASSUME NEW u \in Threads PROVE OnPath(u)'
  <2>1. pc'[u] = IF u = t THEN "unlock" ELSE pc[u]
    BY <1>1, <1>t DEF TypeOK
  <2>2. Here(u)' = Here(u)
    BY <1>2 DEF Here
  <2>3. pc'[u] \in {"alloc", "store"} => Child(u)' = Null
    <3>1. ASSUME pc'[u] \in {"alloc", "store"} PROVE Child(u)' = Null
      <4>1. u # t /\ pc[u] \in {"alloc", "store"}
        BY <2>1, <3>1
      <4>2. page[u] # page[t]
        BY <4>1, <1>1, <1>t DEF LocksHeld
      <4>3. page[u] \in Pages /\ Here(u) \in InnerIx
        BY <4>1, HereRange
      <4>4. Child(u) = Null
        BY <4>1, <1>t DEF OnPath
      <4>5. QED
        BY <4>2, <4>3, <4>4, <2>2, <1>2, <1>3 DEF Child
    <3>2. QED
      BY <3>1
  <2>4. pc'[u] \in {"unlock", "load"} => Child(u)' # Null
    <3>1. ASSUME pc'[u] \in {"unlock", "load"} PROVE Child(u)' # Null
      <4>1. page[u] \in Pages /\ Here(u) \in InnerIx
        BY <3>1, <2>1, <1>1, HereRange
      <4>2. CASE u = t
        BY <4>2, <2>2, <1>2, <1>3, PageAssumption DEF Child
      <4>3. CASE u # t
        BY <4>1, <4>3, <3>1, <2>1, <2>2, <1>2, <1>4, <1>t DEF Child, OnPath
      <4>4. QED
        BY <4>2, <4>3
    <3>2. QED
      BY <3>1
  <2>5. level[page[u]] = 2 => page[u] = slot'[Root][Ix(request[u].key, 1)]
    <3>1. ASSUME level[page[u]] = 2 PROVE page[u] = slot'[Root][Ix(request[u].key, 1)]
      <4>1. pc[u] # "idle"
        BY <3>1, <1>t DEF OnPath, TreeShape
      <4>2. Ix(request[u].key, 1) \in InnerIx /\ page[u] \in Pages
        BY <4>1, HereRange, IxRange
      <4>3. page[u] = slot[Root][Ix(request[u].key, 1)]
        BY <3>1, <1>t DEF OnPath
      <4>4. QED
        BY <4>2, <4>3, <1>4, PageAssumption
    <3>2. QED
      BY <3>1
  <2>6. level[page[u]] = 3 => page[u] = Leaf(request[u].key)'
    <3>1. ASSUME level[page[u]] = 3 PROVE page[u] = Leaf(request[u].key)'
      <4> DEFINE k == request[u].key
                 mid == slot[Root][Ix(k, 1)]
      <4>1. pc[u] = "cell"
        BY <3>1, <1>t DEF OnPath
      <4>2. k \in Keys /\ Ix(k, 1) \in InnerIx /\ Ix(k, 2) \in InnerIx /\ page[u] \in Pages
        BY <4>1, HereRange, IxRange
      <4>3. page[u] = Leaf(k)
        BY <3>1, <1>t DEF OnPath
      <4>4. mid \in Pages /\ page[u] = slot[mid][Ix(k, 2)]
        BY <4>2, <4>3, PageAssumption DEF Leaf
      <4>5. slot'[Root][Ix(k, 1)] = mid /\ slot'[mid][Ix(k, 2)] = page[u]
        BY <4>2, <4>4, <1>4, PageAssumption
      <4>6. QED
        BY <4>4, <4>5, <1>2 DEF Leaf
    <3>2. QED
      BY <3>1
  <2>7. QED
    BY <2>1, <2>3, <2>4, <2>5, <2>6, <1>1, <1>2, <1>t DEF OnPath
<1>11. QED
  BY <1>6, <1>7, <1>8, <1>9, <1>10 DEF IInv

----------------------------------------------------------------------------
LEMMA StutterInv == IInv /\ UNCHANGED vars => IInv'
BY DEF IInv, vars, TypeOK, TreeShape, PagesOwned, LocksHeld, OnPath, Leaf, Child, Here

(* The inductive invariant holds in every reachable state. *)
THEOREM InvariantHolds == Spec => []IInv
<1>1. Init => IInv
  BY InitInv
<1>2. IInv /\ [Next]_vars => IInv'
  <2> SUFFICES ASSUME IInv, [Next]_vars PROVE IInv'
    OBVIOUS
  <2>1. ASSUME NEW t \in Threads, Begin(t) \/ Walk(t) PROVE IInv'
    BY <2>1, ReadStep, AllocateStep, StoreStep DEF Walk
  <2>2. CASE UNCHANGED vars
    BY <2>2, StutterInv
  <2>3. QED
    BY <2>1, <2>2 DEF Next
<1>3. QED
  BY <1>1, <1>2, PTL DEF Spec

(* The variables of the map stay in their types (rtLib/PageMap.h). *)
THEOREM TypeCorrect == Spec => []TypeOK
<1>1. IInv => TypeOK
  BY DEF IInv
<1>2. QED
  BY <1>1, InvariantHolds, PTL

(* All references to one key are to one entry of one leaf (get, lines 92-108). *)
THEOREM OneCell == Spec => []OneCellPerKey
<1>1. IInv => OneCellPerKey
  BY DEF IInv, OneCellPerKey, OnPath
<1>2. QED
  BY <1>1, InvariantHolds, PTL

(* A slot, once filled, never changes (line 99 under lines 96-97). *)
LEMMA SlotKept ==
  ASSUME IInv, [Next]_vars, NEW p \in Pages, NEW i \in InnerIx, slot[p][i] # Null
  PROVE  slot'[p][i] = slot[p][i]
<1>1. ASSUME NEW t \in Threads, Allocate(t) PROVE slot'[p][i] = slot[p][i]
  <2>1. PICK q \in Pages, garbage \in [InnerIx -> Unset(level[page[t]] + 1)] :
          level[q] = 0 /\ slot' = [slot EXCEPT ![q] = garbage]
    BY <1>1 DEF Allocate
  <2>2. p # q
    BY <2>1 DEF IInv, TreeShape
  <2>3. QED
    BY <2>1, <2>2 DEF IInv, TypeOK
<1>2. ASSUME NEW t \in Threads, Store(t) PROVE slot'[p][i] = slot[p][i]
  BY <1>2, StoreEffect
<1>3. CASE UNCHANGED slot
  BY <1>3
<1>4. QED
  BY <1>1, <1>2, <1>3 DEF Next, Walk, vars, Begin, LookPresent, LookAbsent, ProbeAbsent,
     Lock, Retest, AllocateThrows, Unlock, Descend, Fault, Use

THEOREM SlotsStay == Spec => SlotsWriteOnce
<1> DEFINE Kept == \A p \in Pages, i \in InnerIx : slot[p][i] # Null => slot'[p][i] = slot[p][i]
<1>1. IInv /\ [Next]_vars => [Kept]_vars
  BY SlotKept
<1>2. QED
  BY <1>1, InvariantHolds, PTL DEF Spec, SlotsWriteOnce

(* No page leaks and no page is installed twice. *)
THEOREM NoneLost == Spec => []NoPageLost
<1>1. ASSUME IInv PROVE NoPageLost
  <2> SUFFICES ASSUME NEW p \in Pages \ {Root}, level[p] # 0
               PROVE  \/ \E t \in Threads : fresh[t] = p /\ pc[t] = "store" /\ Parents(p) = {}
                      \/ /\ \E q \in Pages : Parents(p) = {q} /\ level[q] + 1 = level[p]
                         /\ \A q \in Pages : \A i, j \in InnerIx :
                              slot[q][i] = p /\ slot[q][j] = p => i = j
    BY DEF NoPageLost
  <2>1. CASE \E t \in Threads : fresh[t] = p
    <3>1. PICK t \in Threads : fresh[t] = p
      BY <2>1
    <3>2. pc[t] = "store" /\ Parents(p) = {}
      BY <1>1, <3>1, PageAssumption DEF IInv, PagesOwned, Parents
    <3>3. QED
      BY <3>1, <3>2
  <2>2. CASE \E q \in Pages, i \in InnerIx : slot[q][i] = p
    <3>1. PICK q \in Pages, i \in InnerIx : slot[q][i] = p
      BY <2>2
    <3>2. \A r \in Pages, j \in InnerIx : slot[r][j] = p => r = q /\ j = i
      BY <1>1, <3>1 DEF IInv, TreeShape
    <3>3. Parents(p) = {q}
      BY <3>1, <3>2 DEF Parents
    <3>4. level[q] + 1 = level[p]
      BY <1>1, <3>1, PageAssumption DEF IInv, TreeShape
    <3>5. QED
      BY <3>2, <3>3, <3>4
  <2>3. QED
    BY <1>1, <2>1, <2>2 DEF IInv, PagesOwned
<1>2. QED
  BY <1>1, InvariantHolds, PTL

----------------------------------------------------------------------------
(* The split of a key into a path loses nothing below the table's capacity. *)
LEMMA DivUnique ==
  ASSUME NEW b \in Nat \ {0}, NEW x \in Nat, NEW y \in 0 .. b - 1,
         NEW u \in Nat, NEW v \in 0 .. b - 1, b * x + y = b * u + v
  PROVE  x = u /\ y = v
<1>1. CASE x < u
  <2>1. b * u >= b * (x + 1)
    BY <1>1
  <2>2. b * (x + 1) = b * x + b
    OBVIOUS
  <2>3. QED
    BY <2>1, <2>2
<1>2. CASE u < x
  <2>1. b * x >= b * (u + 1)
    BY <1>2
  <2>2. b * (u + 1) = b * u + b
    OBVIOUS
  <2>3. QED
    BY <2>1, <2>2
<1>3. CASE x = u
  BY <1>3
<1>4. QED
  BY <1>1, <1>2, <1>3

LEMMA DivMod ==
  ASSUME NEW a \in Nat, NEW b \in Nat \ {0}
  PROVE  /\ a \div b \in Nat
         /\ a % b \in 0 .. b - 1
         /\ a = b * (a \div b) + (a % b)
OBVIOUS

(* The masks of a key below the capacity are the digits of its division by *)
(* the sizes of the pages.                                                 *)
LEMMA KeySplit ==
  ASSUME NEW k \in Nat, k < RootSize * MidSize * LeafSize
  PROVE  /\ k \div LeafSize \in Nat
         /\ k = LeafSize * (k \div LeafSize) + Ix(k, 3)
         /\ k \div LeafSize = MidSize * Ix(k, 1) + Ix(k, 2)
<1> DEFINE S == MidSize * LeafSize
           q == k \div LeafSize
<1>0. /\ RootSize \in Nat \ {0} /\ MidSize \in Nat \ {0} /\ LeafSize \in Nat \ {0}
      /\ S \in Nat \ {0}
  BY PageAssumption
<1>1. /\ q \in Nat /\ k % LeafSize \in 0 .. LeafSize - 1
      /\ k = LeafSize * q + (k % LeafSize)
  BY <1>0, DivMod
<1>2. /\ k \div S \in Nat /\ k % S \in 0 .. S - 1 /\ k = S * (k \div S) + (k % S)
  BY <1>0, DivMod
<1>3. /\ q \div MidSize \in Nat /\ q % MidSize \in 0 .. MidSize - 1
      /\ q = MidSize * (q \div MidSize) + (q % MidSize)
  BY <1>1, <1>0, DivMod
<1> DEFINE p == q \div MidSize
           m == q % MidSize
           r == k % LeafSize
<1>4. k = S * p + (LeafSize * m + r)
  <2> HIDE DEF p, m, r, q
  <2>1. k = LeafSize * (MidSize * p + m) + r
    BY <1>1, <1>3 DEF p, m, r
  <2>2. LeafSize * (MidSize * p + m) = S * p + LeafSize * m
    BY <1>3, <1>0 DEF p, m
  <2>3. p \in Nat /\ m \in Nat /\ r \in Nat /\ S * p \in Nat /\ LeafSize * m \in Nat
    BY <1>1, <1>3, <1>0 DEF p, m, r
  <2>4. QED
    BY <2>1, <2>2, <2>3
<1>5. LeafSize * m + r \in 0 .. S - 1
  <2> HIDE DEF p, m, r, q
  <2>1. m \in 0 .. MidSize - 1 /\ r \in 0 .. LeafSize - 1
    BY <1>1, <1>3 DEF m, r
  <2>2. LeafSize * m <= LeafSize * (MidSize - 1)
    BY <2>1, <1>0
  <2>3. LeafSize * (MidSize - 1) = S - LeafSize
    BY <1>0
  <2>4. LeafSize * m \in Nat
    BY <2>1, <1>0
  <2>5. QED
    BY <2>1, <2>2, <2>3, <2>4, <1>0
<1>6. k \div S = p
  <2> HIDE DEF p, m, r, q, S
  <2>1. S * (k \div S) + (k % S) = S * p + (LeafSize * m + r)
    BY <1>2, <1>4
  <2>2. p \in Nat
    BY <1>3 DEF p
  <2>3. QED
    BY <2>1, <2>2, <1>2, <1>5, <1>0, DivUnique
<1>7. p < RootSize
  <2> HIDE DEF p, m, r, q
  <2>1. S * p <= k
    BY <1>2, <1>6, <1>0
  <2>2. RootSize * MidSize * LeafSize = S * RootSize
    BY <1>0
  <2>3. S * p < S * RootSize
    BY <2>1, <2>2, <1>2, <1>6, <1>0
  <2>4. p \in Nat
    BY <1>3 DEF p
  <2>5. ASSUME p >= RootSize PROVE FALSE
    <3>1. S * p >= S * RootSize
      BY <2>4, <2>5, <1>0
    <3>2. QED
      BY <3>1, <2>3, <2>4, <1>0
  <2>6. QED
    BY <2>4, <2>5, <1>0
<1>8. p % RootSize = p
  <2> HIDE DEF p
  <2>1. p \in Nat
    BY <1>3 DEF p
  <2>2. QED
    BY <2>1, <1>7, <1>0
<1>9. /\ Ix(k, 1) = p /\ Ix(k, 2) = m /\ Ix(k, 3) = r
  BY <1>6, <1>8 DEF Ix
<1>10. QED
  BY <1>1, <1>3, <1>9

(* The three masks of a key below the capacity determine the key. *)
LEMMA PathInjective ==
  ASSUME NEW k1 \in Nat, NEW k2 \in Nat,
         k1 < RootSize * MidSize * LeafSize, k2 < RootSize * MidSize * LeafSize,
         Ix(k1, 1) = Ix(k2, 1), Ix(k1, 2) = Ix(k2, 2), Ix(k1, 3) = Ix(k2, 3)
  PROVE  k1 = k2
<1>1. k1 \div LeafSize = k2 \div LeafSize
  BY KeySplit
<1>2. QED
  BY <1>1, KeySplit

LEMMA LeafApart ==
  ASSUME TreeShape, NEW k1 \in Keys, NEW k2 \in Keys,
         k1 < RootSize * MidSize * LeafSize, k2 < RootSize * MidSize * LeafSize,
         Leaf(k1) \in Pages, Leaf(k2) = Leaf(k1), Ix(k1, 3) = Ix(k2, 3)
  PROVE  k1 = k2
<1> DEFINE m1 == slot[Root][Ix(k1, 1)]
           m2 == slot[Root][Ix(k2, 1)]
<1>1. /\ Ix(k1, 1) \in InnerIx /\ Ix(k1, 2) \in InnerIx
      /\ Ix(k2, 1) \in InnerIx /\ Ix(k2, 2) \in InnerIx
  BY IxRange
<1>2. /\ m1 \in Pages /\ m2 \in Pages
      /\ slot[m1][Ix(k1, 2)] = Leaf(k1) /\ slot[m2][Ix(k2, 2)] = Leaf(k1)
  BY PageAssumption DEF Leaf
<1>3. m1 = m2 /\ Ix(k1, 2) = Ix(k2, 2)
  BY <1>1, <1>2 DEF TreeShape
<1>4. Ix(k1, 1) = Ix(k2, 1)
  BY <1>1, <1>2, <1>3, PageAssumption DEF TreeShape
<1>5. k1 \in Nat /\ k2 \in Nat
  BY PageAssumption
<1>6. QED
  BY <1>3, <1>4, <1>5, PathInjective

(* Two keys below the capacity never share an entry (keyMask, lines 127-129). *)
THEOREM KeysApart == Spec => []NoAliasing
<1>1. IInv => NoAliasing
  BY LeafApart DEF NoAliasing, IInv
<1>2. QED
  BY <1>1, InvariantHolds, PTL

----------------------------------------------------------------------------
(* The map implements ShadowMap. *)
LEMMA LeafShape ==
  ASSUME TreeShape, NEW k \in Keys, Leaf(k) \in Pages
  PROVE  /\ slot[Root][Ix(k, 1)] \in Pages /\ level[slot[Root][Ix(k, 1)]] = 2
         /\ Leaf(k) = slot[slot[Root][Ix(k, 1)]][Ix(k, 2)] /\ level[Leaf(k)] = 3
<1>1. Ix(k, 1) \in InnerIx /\ Ix(k, 2) \in InnerIx
  BY IxRange
<1>2. /\ slot[Root][Ix(k, 1)] \in Pages
      /\ Leaf(k) = slot[slot[Root][Ix(k, 1)]][Ix(k, 2)]
  BY PageAssumption DEF Leaf
<1>3. level[slot[Root][Ix(k, 1)]] = 2
  BY <1>1, <1>2, PageAssumption DEF TreeShape
<1>4. level[Leaf(k)] = 3
  BY <1>1, <1>2, <1>3, PageAssumption DEF TreeShape
<1>5. QED
  BY <1>2, <1>3, <1>4

LEMMA LeafKnown ==
  ASSUME IInv, NEW k \in Keys, Leaf(k) \in Pages
  PROVE  /\ slot[Root][Ix(k, 1)] \in Pages
         /\ Leaf(k) = slot[slot[Root][Ix(k, 1)]][Ix(k, 2)]
         /\ level[Leaf(k)] = 3
         /\ \A t \in Threads : fresh[t] # Leaf(k)
  BY LeafShape, IxRange DEF IInv, PagesOwned

LEMMA BlankStep ==
  ASSUME IInv, FreshBlank, [Next]_vars
  PROVE  FreshBlank'
<1> SUFFICES ASSUME NEW u \in Threads, fresh'[u] \in Pages
             PROVE  /\ \A i \in InnerIx : slot'[fresh'[u]][i] \notin Pages
                    /\ \A i \in LeafIx : cell'[fresh'[u]][i] = Zero
  BY DEF FreshBlank
<1>t. TypeOK /\ TreeShape /\ PagesOwned
  BY DEF IInv
<1>1. ASSUME NEW t \in Threads, Allocate(t)
      PROVE  /\ \A i \in InnerIx : slot'[fresh'[u]][i] \notin Pages
             /\ \A i \in LeafIx : cell'[fresh'[u]][i] = Zero
  <2>1. PICK p \in Pages, garbage \in [InnerIx -> Unset(level[page[t]] + 1)] :
          /\ level[p] = 0
          /\ fresh' = [fresh EXCEPT ![t] = p]
          /\ slot' = [slot EXCEPT ![p] = garbage]
          /\ cell' = [cell EXCEPT ![p] = [i \in LeafIx |-> Zero]]
    BY <1>1 DEF Allocate
  <2>2. /\ \A i \in InnerIx : slot'[p][i] \in {Null, Wild}
        /\ \A i \in LeafIx : cell'[p][i] = Zero
    BY <2>1, <1>t DEF TypeOK, Unset
  <2>3. CASE u = t
    BY <2>1, <2>2, <2>3, <1>t, PageAssumption DEF TypeOK
  <2>4. CASE u # t
    <3>1. fresh'[u] = fresh[u]
      BY <2>1, <2>4, <1>t DEF TypeOK
    <3>2. CASE fresh[u] = p
      BY <2>2, <3>1, <3>2, PageAssumption
    <3>3. CASE fresh[u] # p
      <4>1. fresh[u] \in Pages
        BY <3>1
      <4>2. slot'[fresh[u]] = slot[fresh[u]] /\ cell'[fresh[u]] = cell[fresh[u]]
        BY <2>1, <3>3, <4>1, <1>t DEF TypeOK
      <4>3. QED
        BY <3>1, <4>1, <4>2 DEF FreshBlank
    <3>4. QED
      BY <3>2, <3>3
  <2>5. QED
    BY <2>3, <2>4
<1>2. ASSUME NEW t \in Threads, Store(t)
      PROVE  /\ \A i \in InnerIx : slot'[fresh'[u]][i] \notin Pages
             /\ \A i \in LeafIx : cell'[fresh'[u]][i] = Zero
  <2>1. u # t /\ fresh'[u] = fresh[u] /\ UNCHANGED cell
    BY <1>2, <1>t, PageAssumption DEF Store, TypeOK
  <2>2. fresh[u] # page[t]
    <3>1. level[fresh[t]] = level[page[t]] + 1 /\ fresh[t] \in Pages
      BY <1>2, StoreEffect
    <3>2. pc[t] = "store" /\ pc[u] = "store"
      BY <1>2, <2>1, <1>t, PageAssumption DEF Store, PagesOwned
    <3>3. /\ page[t] = Root \/ page[t] = slot[Root][Ix(request[t].key, 1)]
          /\ page[t] \in Pages
      <4>1. level[page[t]] \in {1, 2} /\ page[t] \in Pages
        BY <1>2, StoreEffect
      <4>2. QED
        BY <4>1, <1>t DEF TreeShape, IInv, OnPath
    <3>4. Ix(request[t].key, 1) \in InnerIx
      BY <3>2, HereRange, IxRange
    <3>5. fresh[u] # Root
      <4>1. level[fresh[u]] = level[page[u]] + 1 /\ level[page[u]] \in {1, 2}
        BY <2>1, <3>2, <1>t, HereRange DEF PagesOwned
      <4>2. QED
        BY <4>1, <1>t DEF TreeShape
    <3>6. QED
      BY <2>1, <3>3, <3>4, <3>5, <1>t, PageAssumption DEF PagesOwned
  <2>3. \A i \in InnerIx : slot'[fresh[u]][i] = slot[fresh[u]][i]
    BY <1>2, <2>1, <2>2, StoreEffect
  <2>4. QED
    BY <2>1, <2>3 DEF FreshBlank
<1>3. ASSUME NEW t \in Threads, Use(t)
      PROVE  /\ \A i \in InnerIx : slot'[fresh'[u]][i] \notin Pages
             /\ \A i \in LeafIx : cell'[fresh'[u]][i] = Zero
  <2>1. UNCHANGED <<fresh, slot>> /\ pc[t] = "cell"
    BY <1>3 DEF Use
  <2>2. page[t] \in Pages /\ page[t] = Leaf(request[t].key) /\ request[t].key \in Keys
    BY <2>1, HereRange DEF IInv, OnPath
  <2>3. fresh[u] # page[t]
    BY <2>2, LeafKnown
  <2>4. cell'[fresh[u]] = cell[fresh[u]]
    BY <1>3, <2>1, <2>2, <2>3, <1>t DEF Use, TypeOK
  <2>5. QED
    BY <2>1, <2>4 DEF FreshBlank
<1>4. CASE UNCHANGED <<fresh, slot, cell>>
  BY <1>4 DEF FreshBlank
<1>5. QED
  BY <1>1, <1>2, <1>3, <1>4 DEF Next, Walk, vars, Begin, LookPresent, LookAbsent, ProbeAbsent,
     Lock, Retest, AllocateThrows, Unlock, Descend, Fault

THEOREM FullInvariant == Spec => []FullInv
<1>1. Init => FreshBlank
  BY PageAssumption DEF Init, FreshBlank
<1>2. IInv /\ FreshBlank /\ [Next]_vars => FreshBlank'
  BY BlankStep
<1>3. QED
  BY <1>1, <1>2, InvariantHolds, PTL DEF Spec, FullInv

(* A new page is in nobody's way: no slot names it. *)
LEMMA AllocateInvisible ==
  ASSUME TypeOK, TreeShape, NEW t \in Threads, Allocate(t), NEW k \in Keys
  PROVE  ShadowCell'[k] = ShadowCell[k]
<1>x. Ix(k, 1) \in InnerIx /\ Ix(k, 2) \in InnerIx
  BY IxRange
<1>k. /\ ShadowCell[k] = IF Leaf(k) \in Pages THEN cell[Leaf(k)][Ix(k, 3)] ELSE Zero
      /\ ShadowCell'[k] = IF Leaf(k)' \in Pages THEN cell'[Leaf(k)'][Ix(k, 3)] ELSE Zero
  BY DEF ShadowCell
<1>1. PICK p \in Pages, garbage \in [InnerIx -> Unset(level[page[t]] + 1)] :
        /\ level[p] = 0
        /\ slot' = [slot EXCEPT ![p] = garbage]
        /\ cell' = [cell EXCEPT ![p] = [i \in LeafIx |-> Zero]]
  BY DEF Allocate
<1>2. \A q \in Pages \ {p} : slot'[q] = slot[q] /\ cell'[q] = cell[q]
  BY <1>1 DEF TypeOK
<1>3. p # Root
  BY <1>1 DEF TreeShape
<1>4. slot[Root][Ix(k, 1)] # p
  <2>1. SUFFICES ASSUME slot[Root][Ix(k, 1)] = p PROVE FALSE
    OBVIOUS
  <2>2. level[p] = level[Root] + 1 /\ level[Root] = 1
    BY <2>1, <1>x, PageAssumption DEF TreeShape
  <2>3. QED
    BY <2>2, <1>1
<1>5. Leaf(k)' = Leaf(k)
  BY <1>2, <1>3, <1>4, PageAssumption DEF Leaf
<1>6. Leaf(k) \in Pages => Leaf(k) # p
  BY <1>1, LeafShape
<1>7. QED
  BY <1>k, <1>2, <1>5, <1>6

(* Putting a blank page into an empty slot changes no key's value. *)
LEMMA InstallInvisible ==
  ASSUME TreeShape, NEW q \in Pages, NEW h \in InnerIx, NEW f \in Pages, f # q,
         slot[q][h] = Null,
         \A p \in Pages, i \in InnerIx :
           slot'[p][i] = IF p = q /\ i = h THEN f ELSE slot[p][i],
         \A i \in InnerIx : slot[f][i] \notin Pages,
         \A i \in LeafIx : cell[f][i] = Zero,
         UNCHANGED cell,
         NEW k \in Keys
  PROVE  ShadowCell'[k] = ShadowCell[k]
<1>x. Ix(k, 1) \in InnerIx /\ Ix(k, 2) \in InnerIx /\ Ix(k, 3) \in LeafIx /\ Root \in Pages
  BY IxRange, PageAssumption
<1>k. /\ ShadowCell[k] = IF Leaf(k) \in Pages THEN cell[Leaf(k)][Ix(k, 3)] ELSE Zero
      /\ ShadowCell'[k] = IF Leaf(k)' \in Pages THEN cell'[Leaf(k)'][Ix(k, 3)] ELSE Zero
  BY DEF ShadowCell
<1>1. \A p \in Pages, i \in InnerIx : slot[p][i] # Null => slot'[p][i] = slot[p][i]
  OBVIOUS
<1>2. CASE Leaf(k) \in Pages
  <2>1. Leaf(k)' = Leaf(k)
    BY <1>1, <1>2, <1>x, LeafShape, PageAssumption DEF Leaf
  <2>2. QED
    BY <2>1, <1>k, <1>2
<1>3. CASE Leaf(k) \notin Pages
  <2> SUFFICES ASSUME Leaf(k)' \in Pages PROVE cell[Leaf(k)'][Ix(k, 3)] = Zero
    BY <1>k, <1>3
  <2> DEFINE mid == slot'[Root][Ix(k, 1)]
  <2>1. mid \in Pages /\ Leaf(k)' = slot'[mid][Ix(k, 2)]
    BY PageAssumption DEF Leaf
  <2>2. CASE slot[Root][Ix(k, 1)] = mid
    <3>1. Leaf(k) = slot[mid][Ix(k, 2)]
      BY <2>1, <2>2 DEF Leaf
    <3>2. Leaf(k)' = f
      BY <3>1, <1>3, <2>1, <1>x
    <3>3. QED
      BY <3>2, <1>x
  <2>3. CASE slot[Root][Ix(k, 1)] # mid
    <3>1. mid = f
      BY <2>3, <1>x
    <3>2. slot'[mid][Ix(k, 2)] = slot[f][Ix(k, 2)]
      BY <3>1, <1>x
    <3>3. QED
      BY <3>2, <2>1, <1>x
  <2>4. QED
    BY <2>2, <2>3
<1>4. QED
  BY <1>2, <1>3

(* Growing the table changes no key's value. *)
LEMMA GrowthInvisible ==
  ASSUME FullInv, NEW t \in Threads, Allocate(t) \/ Store(t), NEW k \in Keys
  PROVE  ShadowCell'[k] = ShadowCell[k]
<1>i. IInv /\ FreshBlank /\ TypeOK /\ TreeShape
  BY DEF FullInv, IInv
<1>1. CASE Allocate(t)
  BY <1>1, <1>i, AllocateInvisible
<1>2. CASE Store(t)
  <2>1. UNCHANGED cell
    BY <1>2 DEF Store
  <2>2. /\ page[t] \in Pages /\ Here(t) \in InnerIx /\ fresh[t] \in Pages /\ fresh[t] # page[t]
        /\ slot[page[t]][Here(t)] = Null
    <3>1. level[fresh[t]] = level[page[t]] + 1 /\ level[page[t]] \in {1, 2} /\ pc[t] = "store"
      BY <1>2, <1>i, StoreEffect DEF Store
    <3>2. page[t] \in Pages /\ Here(t) \in InnerIx /\ Child(t) = Null
      BY <3>1, <1>i, HereRange DEF IInv, OnPath
    <3>3. QED
      BY <3>1, <3>2, <1>2, <1>i, StoreEffect DEF Child
  <2>3. \A p \in Pages, i \in InnerIx :
          slot'[p][i] = IF p = page[t] /\ i = Here(t) THEN fresh[t] ELSE slot[p][i]
    BY <1>2, <1>i, StoreEffect
  <2>4. /\ \A i \in InnerIx : slot[fresh[t]][i] \notin Pages
        /\ \A i \in LeafIx : cell[fresh[t]][i] = Zero
    BY <2>2, <1>i DEF FreshBlank
  <2>5. QED
    BY <2>1, <2>2, <2>3, <2>4, <1>i, InstallInvisible
<1>3. QED
  BY <1>1, <1>2

(* The access through a reference is the abstract access to the key's cell. *)
LEMMA UseIsFinish ==
  ASSUME TypeOK, TreeShape, NEW t \in Threads, OnPath(t), Use(t),
         \A k \in Keys : k < RootSize * MidSize * LeafSize
  PROVE  Shadow!Finish(t)
<1> DEFINE r == request[t]
<1>1. /\ pc[t] = "cell" /\ r \in Requests /\ r.key \in Keys /\ r # NoRequest
      /\ page[t] = Leaf(r.key) /\ Here(t) = Ix(r.key, 3) /\ Leaf(r.key) \in Pages
  <2>1. pc[t] = "cell"
    BY DEF Use
  <2>2. r \in Requests /\ r.key \in Keys /\ page[t] \in Pages /\ level[page[t]] = 3
    BY <2>1, HereOnPath
  <2>3. QED
    BY <2>1, <2>2, NoRequestAssumption DEF OnPath, Here
<1>2. /\ request' = [request EXCEPT ![t] = NoRequest]
      /\ UNCHANGED slot
  BY DEF Use, Return
<1>3. ShadowCell[r.key] = cell[page[t]][Here(t)]
  BY <1>1 DEF ShadowCell
<1>4. /\ r.kind \in {"read", "peek"} => result' = [result EXCEPT ![t] = ShadowCell[r.key]]
      /\ r.kind \notin {"read", "peek"} => UNCHANGED result
  BY <1>3 DEF Use
<1>5. \A k \in Keys : Leaf(k)' = Leaf(k)
  BY <1>2 DEF Leaf
<1>6. ShadowCell' = IF r.kind \in {"write", "erase"}
                      THEN [ShadowCell EXCEPT ![r.key] = Assigned(r)] ELSE ShadowCell
  <2>1. CASE r.kind \notin {"write", "erase"}
    <3>1. UNCHANGED cell
      BY <2>1 DEF Use
    <3>2. QED
      BY <2>1, <3>1, <1>5 DEF ShadowCell
  <2>2. CASE r.kind \in {"write", "erase"}
    <3>1. cell' = [cell EXCEPT ![page[t]][Here(t)] = Assigned(r)]
      BY <2>2 DEF Use
    <3>2. \A k \in Keys : Ix(k, 3) \in LeafIx
      BY IxRange
    <3>3. ASSUME NEW k \in Keys
          PROVE  ShadowCell'[k] = IF k = r.key THEN Assigned(r) ELSE ShadowCell[k]
      <4>1. ShadowCell'[k] = IF Leaf(k) \in Pages THEN cell'[Leaf(k)][Ix(k, 3)] ELSE Zero
        BY <1>5 DEF ShadowCell
      <4>2. CASE k = r.key
        BY <4>1, <4>2, <3>1, <3>2, <1>1 DEF TypeOK
      <4>3. CASE k # r.key /\ Leaf(k) \notin Pages
        BY <4>1, <4>3 DEF ShadowCell
      <4>4. CASE k # r.key /\ Leaf(k) \in Pages
        <5>1. Leaf(k) # Leaf(r.key) \/ Ix(k, 3) # Ix(r.key, 3)
          BY <4>4, <1>1, LeafApart
        <5>2. cell'[Leaf(k)][Ix(k, 3)] = cell[Leaf(k)][Ix(k, 3)]
          BY <5>1, <4>4, <3>1, <3>2, <1>1 DEF TypeOK
        <5>3. QED
          BY <4>1, <4>4, <5>2 DEF ShadowCell
      <4>5. QED
        BY <4>2, <4>3, <4>4
    <3>4. ShadowCell' = [ShadowCell EXCEPT ![r.key] = Assigned(r)]
      BY <3>3, <1>1 DEF ShadowCell
    <3>5. QED
      BY <2>2, <3>4
  <2>3. QED
    BY <2>1, <2>2
<1>7. ShadowCell[r.key] \in Values
  BY <1>1, <1>3, IxRange DEF TypeOK
<1>8. ShadowCell[r.key] \in Shadow!Answers(r)
  BY <1>7 DEF Shadow!Answers
<1>9. QED
  BY <1>1, <1>2, <1>4, <1>6, <1>8 DEF Shadow!Finish, Shadow!Assigned, Assigned

(* A probe that finds no page is of a key whose cell holds Zero. *)
LEMMA ProbeIsFinish ==
  ASSUME TypeOK, TreeShape, NEW t \in Threads, OnPath(t), ProbeAbsent(t)
  PROVE  Shadow!Finish(t)
<1> DEFINE r == request[t]
<1>1. /\ pc[t] = "test" /\ r \in Requests /\ r.key \in Keys /\ r # NoRequest
      /\ r.kind \in {"peek", "erase"} /\ Child(t) = Null
      /\ page[t] \in Pages /\ level[page[t]] \in {1, 2}
  BY HereOnPath, NoRequestAssumption DEF ProbeAbsent, Probing
<1>2. Leaf(r.key) \notin Pages
  <2>1. CASE level[page[t]] = 1
    <3>1. page[t] = Root
      BY <1>1, <2>1 DEF TreeShape
    <3>2. slot[Root][Ix(r.key, 1)] = Null
      BY <3>1, <1>1, <2>1 DEF Child, Here
    <3>3. QED
      BY <3>2, PageAssumption DEF Leaf
  <2>2. CASE level[page[t]] = 2
    <3>1. page[t] = slot[Root][Ix(r.key, 1)]
      BY <2>2 DEF OnPath
    <3>2. slot[page[t]][Ix(r.key, 2)] = Null
      BY <1>1, <2>2 DEF Child, Here
    <3>3. QED
      BY <3>1, <3>2, PageAssumption DEF Leaf
  <2>3. QED
    BY <1>1, <2>1, <2>2
<1>3. ShadowCell[r.key] = Zero
  BY <1>1, <1>2 DEF ShadowCell
<1>4. UNCHANGED ShadowCell
  BY DEF ProbeAbsent, ShadowCell, Leaf
<1>5. CASE r.kind = "peek"
  BY <1>1, <1>3, <1>4, <1>5 DEF ProbeAbsent, Return, Shadow!Finish, Shadow!Answers
<1>6. CASE r.kind = "erase"
  <2>1. [ShadowCell EXCEPT ![r.key] = Zero] = ShadowCell
    BY <1>1, <1>3 DEF ShadowCell
  <2>2. QED
    BY <1>1, <1>4, <1>6, <2>1 DEF ProbeAbsent, Return, Shadow!Finish, Shadow!Assigned
<1>7. QED
  BY <1>1, <1>5, <1>6

(* Every one-key operation of universe::map on a sync page map is one atomic *)
(* access to the key's own cell, provided the keys fit the table.            *)
THEOREM Refinement ==
  ASSUME \A k \in Keys : k < RootSize * MidSize * LeafSize
  PROVE  Spec => ImplementsShadowMapSafely
<1>1. Init => Shadow!Init
  <2> SUFFICES ASSUME Init PROVE Shadow!Init
    OBVIOUS
  <2>1. \A k \in Keys : Leaf(k) = Null
    BY IxRange, PageAssumption DEF Init, Leaf
  <2>2. ShadowCell = [k \in Keys |-> Zero]
    BY <2>1, PageAssumption DEF ShadowCell
  <2>3. QED
    BY <2>2 DEF Init, Shadow!Init
<1>2. FullInv /\ [Next]_vars => [Shadow!Next]_(Shadow!vars)
  <2> SUFFICES ASSUME FullInv, [Next]_vars
               PROVE  Shadow!Next \/ UNCHANGED Shadow!vars
    OBVIOUS
  <2>1. ASSUME NEW t \in Threads, Begin(t) PROVE Shadow!Begin(t)
    <3>1. request[t] = NoRequest
      BY <2>1 DEF Begin, FullInv, IInv, TypeOK
    <3>2. UNCHANGED ShadowCell
      BY <2>1 DEF Begin, ShadowCell, Leaf
    <3>3. QED
      BY <2>1, <3>1, <3>2 DEF Begin, Shadow!Begin, Requests, Shadow!Requests
  <2>2. ASSUME NEW t \in Threads, Use(t) \/ ProbeAbsent(t) PROVE Shadow!Finish(t)
    BY <2>2, UseIsFinish, ProbeIsFinish DEF FullInv, IInv
  <2>3. ASSUME NEW t \in Threads, Allocate(t) \/ Store(t) PROVE UNCHANGED Shadow!vars
    <3>1. \A k \in Keys : ShadowCell'[k] = ShadowCell[k]
      BY <2>3, GrowthInvisible
    <3>2. ShadowCell' = ShadowCell
      BY <3>1 DEF ShadowCell
    <3>3. QED
      BY <2>3, <3>2 DEF Allocate, Store, Shadow!vars
  <2>4. ASSUME NEW t \in Threads,
               LookPresent(t) \/ LookAbsent(t) \/ Lock(t) \/ Retest(t)
               \/ AllocateThrows(t) \/ Unlock(t) \/ Descend(t) \/ Fault(t)
        PROVE  UNCHANGED Shadow!vars
    BY <2>4 DEF LookPresent, LookAbsent, Lock, Retest, AllocateThrows, Unlock, Descend, Fault,
                Shadow!vars, ShadowCell, Leaf
  <2>5. CASE UNCHANGED vars
    BY <2>5 DEF vars, Shadow!vars, ShadowCell, Leaf
  <2>6. QED
    BY <2>1, <2>2, <2>3, <2>4, <2>5 DEF Next, Walk, Shadow!Next
<1>3. QED
  BY <1>1, <1>2, FullInvariant, PTL DEF Spec, ImplementsShadowMapSafely, Shadow!Spec
----------------------------------------------------------------------------
(* The safety half of WalkEnds and InstalledKeysServed: what is left of    *)
(* them is that a thread which can go on does.                             *)

(* The accesses left at one slot, and in the whole walk                    *)
AtSlot ==
  [l \in {"test", "lock", "retest", "alloc", "store", "unlock", "load"} |->
    CASE l = "test" -> 7 [] l = "lock" -> 6 [] l = "retest" -> 5 [] l = "alloc" -> 4
      [] l = "store" -> 3 [] l = "unlock" -> 2 [] l = "load" -> 1]
StepsLeft(t) ==
  IF pc[t] \in {"idle", "threw", "fault"} THEN 0
  ELSE IF pc[t] = "cell" THEN 1
  ELSE AtSlot[pc[t]] + IF level[page[t]] = 1 THEN 8 ELSE 1

(* A get() or a probe is over after at most 15 accesses of its own, and no *)
(* step of another thread sends it back: there is no retry (lines 92-108). *)
WalksShorten ==
  [][\A t \in Threads :
       /\ StepsLeft(t) \in 0 .. 15
       /\ Walk(t) => /\ StepsLeft(t)' < StepsLeft(t)
                     /\ \A u \in Threads \ {t} : StepsLeft(u)' = StepsLeft(u)]_vars

LEMMA StepsRange ==
  ASSUME TypeOK, NEW t \in Threads
  PROVE  StepsLeft(t) \in 0 .. 15
BY DEF StepsLeft, AtSlot, TypeOK, Labels

LEMMA WalkShortens ==
  ASSUME IInv, IInv', NEW t \in Threads, Walk(t)
  PROVE  /\ StepsLeft(t)' < StepsLeft(t)
         /\ \A u \in Threads \ {t} : StepsLeft(u)' = StepsLeft(u)
<1> USE DEF Goto
<1>t. TypeOK /\ TreeShape /\ OnPath(t)
  BY DEF IInv
<1>1. \A u \in Threads \ {t} : pc'[u] = pc[u] /\ page'[u] = page[u]
  BY <1>t DEF Walk, LookPresent, LookAbsent, ProbeAbsent, Lock, Retest, Allocate,
     AllocateThrows, Store, Unlock, Descend, Fault, Use, Return, TypeOK
<1>2. \A u \in Threads : level'[page[u]] = level[page[u]]
  <2>1. CASE Allocate(t)
    <3>1. \A u \in Threads : page[u] \in Pages /\ level[page[u]] # 0
      BY DEF IInv, TypeOK, OnPath
    <3>2. QED
      BY <2>1, <3>1, <1>t DEF Allocate, TypeOK
  <2>2. CASE ~Allocate(t)
    BY <2>2 DEF Walk, LookPresent, LookAbsent, ProbeAbsent, Lock, Retest,
       AllocateThrows, Store, Unlock, Descend, Fault, Use
  <2>3. QED
    BY <2>1, <2>2
<1>3. \A u \in Threads \ {t} : StepsLeft(u)' = StepsLeft(u)
  BY <1>1, <1>2 DEF StepsLeft
<1>4. ASSUME ~Descend(t) PROVE StepsLeft(t)' < StepsLeft(t)
  <2>1. CASE page'[t] = page[t]
    <3>1. level'[page'[t]] = level[page[t]]
      BY <2>1, <1>2
    <3>2. LET after == pc'[t] IN
          \/ pc[t] = "test" /\ after \in {"load", "lock", "idle"}
          \/ pc[t] = "lock" /\ after = "retest"
          \/ pc[t] = "retest" /\ after \in {"alloc", "unlock"}
          \/ pc[t] = "alloc" /\ after \in {"store", "threw"}
          \/ pc[t] = "store" /\ after = "unlock"
          \/ pc[t] = "unlock" /\ after = "load"
          \/ pc[t] = "load" /\ after = "fault"
          \/ pc[t] = "cell" /\ after = "idle"
      BY <1>4, <1>t DEF Walk, LookPresent, LookAbsent, ProbeAbsent, Lock, Retest, Allocate,
         AllocateThrows, Store, Unlock, Fault, Use, Return, TypeOK
    <3>3. QED
      BY <3>1, <3>2 DEF StepsLeft, AtSlot
  <2>2. CASE page'[t] # page[t]
    <3>1. pc[t] \in {"test", "cell"} /\ pc'[t] = "idle"
      BY <2>2, <1>4, <1>t DEF Walk, LookPresent, LookAbsent, ProbeAbsent, Lock, Retest, Allocate,
         AllocateThrows, Store, Unlock, Fault, Use, Return, TypeOK
    <3>2. QED
      BY <3>1 DEF StepsLeft, AtSlot
  <2>3. QED
    BY <2>1, <2>2
<1>5. ASSUME Descend(t) PROVE StepsLeft(t)' < StepsLeft(t)
  <2>1. /\ pc[t] = "load" /\ Child(t) \in Pages /\ page[t] \in Pages
        /\ level[page[t]] \in {1, 2} /\ Here(t) \in InnerIx
    BY <1>5, HereRange DEF Descend
  <2>2. level[Child(t)] = level[page[t]] + 1
    BY <2>1, <1>t, PageAssumption DEF TreeShape, Child
  <2>3. /\ page'[t] = Child(t) /\ level' = level
        /\ pc'[t] = IF level[Child(t)] = 3 THEN "cell" ELSE "test"
    BY <1>5, <1>t DEF Descend, TypeOK
  <2>4. level'[page'[t]] = level[page[t]] + 1
    BY <2>2, <2>3
  <2>5. CASE level[page[t]] = 1
    <3>1. pc'[t] = "test" /\ level'[page'[t]] = 2
      BY <2>2, <2>3, <2>4, <2>5
    <3>2. QED
      BY <2>1, <2>5, <3>1 DEF StepsLeft, AtSlot
  <2>6. CASE level[page[t]] = 2
    <3>1. pc'[t] = "cell"
      BY <2>2, <2>3, <2>6
    <3>2. QED
      BY <2>1, <2>6, <3>1 DEF StepsLeft, AtSlot
  <2>7. QED
    BY <2>1, <2>5, <2>6
<1>6. QED
  BY <1>3, <1>4, <1>5

THEOREM NoRetries == Spec => WalksShorten
<1>1. IInv /\ IInv' /\ [Next]_vars =>
        [\A t \in Threads :
           /\ StepsLeft(t) \in 0 .. 15
           /\ Walk(t) => /\ StepsLeft(t)' < StepsLeft(t)
                         /\ \A u \in Threads \ {t} : StepsLeft(u)' = StepsLeft(u)]_vars
  BY StepsRange, WalkShortens DEF IInv
<1>2. QED
  BY <1>1, InvariantHolds, PTL DEF Spec, WalksShorten

(* A locked page is locked by a thread that is filling one of its slots,   *)
(* or that threw while it did.                                             *)
HoldersInside ==
  \A p \in Pages : lock[p] # Null =>
    /\ lock[p] \in Threads /\ page[lock[p]] = p
    /\ pc[lock[p]] \in {"retest", "alloc", "store", "unlock", "threw"}

LEMMA HoldersStep ==
  ASSUME IInv, HoldersInside, [Next]_vars
  PROVE  HoldersInside'
<1> USE DEF Goto
<1>t. TypeOK /\ LocksHeld
  BY DEF IInv
<1>1. ASSUME NEW t \in Threads, Begin(t) \/ Walk(t) PROVE HoldersInside'
  <2>1. CASE Lock(t)
    BY <2>1, <1>t, PageAssumption DEF Lock, HoldersInside, TypeOK
  <2>2. CASE Unlock(t)
    <3>1. lock[page[t]] = t
      BY <2>2, <1>t DEF Unlock, LocksHeld
    <3>2. QED
      BY <2>2, <3>1, <1>t, PageAssumption DEF Unlock, HoldersInside, TypeOK
  <2>3. CASE ~Lock(t) /\ ~Unlock(t)
    <3>1. UNCHANGED lock
      BY <1>1, <2>3 DEF Walk, Begin, LookPresent, LookAbsent, ProbeAbsent, Retest, Allocate,
         AllocateThrows, Store, Descend, Fault, Use
    <3>2. /\ \A u \in Threads \ {t} : pc'[u] = pc[u] /\ page'[u] = page[u]
          /\ pc[t] \in {"retest", "alloc", "store", "unlock", "threw"} =>
               /\ pc'[t] \in {"retest", "alloc", "store", "unlock", "threw"}
               /\ page'[t] = page[t]
      BY <1>1, <2>3, <1>t DEF Walk, Begin, LookPresent, LookAbsent, ProbeAbsent, Retest, Allocate,
         AllocateThrows, Store, Descend, Fault, Use, Return, TypeOK
    <3>3. QED
      BY <3>1, <3>2 DEF HoldersInside
  <2>4. QED
    BY <2>1, <2>2, <2>3
<1>2. CASE UNCHANGED vars
  BY <1>2 DEF vars, HoldersInside
<1>3. QED
  BY <1>1, <1>2 DEF Next

(* Whoever waits for a page lock waits for a thread that is running and    *)
(* waits for nobody itself, unless that thread threw (lines 95-102): spin  *)
(* locks held while a page is made never form a chain, still less a cycle. *)
WaitsForRunner ==
  \A t \in Threads : pc[t] = "lock" /\ lock[page[t]] # Null =>
    /\ lock[page[t]] \in Threads \ {t}
    /\ pc[lock[page[t]]] \in {"retest", "alloc", "store", "unlock", "threw"}

THEOREM NoLockChain == Spec => []WaitsForRunner
<1>1. Init => HoldersInside
  BY DEF Init, HoldersInside
<1>2. IInv /\ HoldersInside /\ [Next]_vars => HoldersInside'
  BY HoldersStep
<1>3. IInv /\ HoldersInside => WaitsForRunner
  BY DEF IInv, TypeOK, HoldersInside, WaitsForRunner
<1>4. QED
  BY <1>1, <1>2, <1>3, InvariantHolds, PTL DEF Spec

(* A walk that needs no lock any more *)
Served(t) ==
  \/ pc[t] = "cell"
  \/ pc[t] \in {"test", "load"} /\ Leaf(request[t].key) \in Pages

(* A walk on a key whose leaf exists goes from load to load down to its    *)
(* cell: it takes no lock and cannot fault, whatever the others do and     *)
(* whoever has thrown with a page locked (lines 92-94, 103-107).           *)
StaysServed ==
  [][\A t \in Threads : Served(t) => Served(t)' \/ pc'[t] = "idle"]_vars

LEMMA LeafStays ==
  ASSUME IInv, [Next]_vars, NEW k \in Keys, Leaf(k) \in Pages
  PROVE  Leaf(k)' = Leaf(k)
<1>1. Ix(k, 1) \in InnerIx /\ Ix(k, 2) \in InnerIx
  BY IxRange
<1>2. \A p \in Pages, j \in InnerIx : slot[p][j] # Null => slot'[p][j] = slot[p][j]
  BY SlotKept
<1>3. slot[Root][Ix(k, 1)] \in Pages /\ Leaf(k) = slot[slot[Root][Ix(k, 1)]][Ix(k, 2)]
  BY LeafKnown
<1>4. QED
  BY <1>1, <1>2, <1>3, PageAssumption DEF Leaf

LEMMA ServedStep ==
  ASSUME IInv, IInv', NEW t \in Threads, Served(t), [Next]_vars
  PROVE  Served(t)' \/ pc'[t] = "idle"
<1> USE DEF Goto
<1>t. TypeOK /\ TreeShape /\ OnPath(t)
  BY DEF IInv
<1>k. request[t].key \in Keys /\ pc[t] # "idle" /\ page[t] \in Pages
  BY HereRange DEF Served
<1> DEFINE k == request[t].key
<1>1. /\ Leaf(k) \in Pages
      /\ pc[t] # "cell" => Child(t) \in Pages
  <2>1. CASE pc[t] = "cell"
    BY <2>1, <1>k, <1>t DEF OnPath
  <2>2. CASE pc[t] # "cell"
    <3>1. Leaf(k) \in Pages /\ level[page[t]] \in {1, 2}
      BY <2>2, HereRange DEF Served
    <3>2. /\ slot[Root][Ix(k, 1)] \in Pages
          /\ Leaf(k) = slot[slot[Root][Ix(k, 1)]][Ix(k, 2)]
      BY <3>1, <1>k, LeafKnown
    <3>3. CASE level[page[t]] = 1
      BY <3>1, <3>2, <3>3, <1>k, <1>t DEF TreeShape, Child, Here
    <3>4. CASE level[page[t]] = 2
      BY <3>1, <3>2, <3>4, <1>t DEF OnPath, Child, Here
    <3>5. QED
      BY <3>1, <3>3, <3>4
  <2>3. QED
    BY <2>1, <2>2
<1>2. ASSUME pc'[t] # "idle", request'[t] = request[t]
      PROVE  Leaf(request[t].key)' \in Pages
  BY <1>1, <1>2, <1>k, LeafStays
<1>3. CASE UNCHANGED vars
  BY <1>3 DEF vars, Served, Leaf
<1>4. ASSUME NEW u \in Threads \ {t}, Begin(u) \/ Walk(u)
      PROVE  Served(t)'
  <2>1. pc'[t] = pc[t] /\ request'[t] = request[t]
    BY <1>4, <1>t DEF Begin, Walk, LookPresent, LookAbsent, ProbeAbsent, Lock, Retest, Allocate,
       AllocateThrows, Store, Unlock, Descend, Fault, Use, Return, TypeOK
  <2>2. QED
    BY <2>1, <1>k, <1>2 DEF Served
<1>5. ASSUME Walk(t) PROVE Served(t)' \/ pc'[t] = "idle"
  <2>1. LookPresent(t) \/ Descend(t) \/ Use(t)
    BY <1>5, <1>1, PageAssumption DEF Served, Walk, LookPresent, LookAbsent, ProbeAbsent, Lock,
       Retest, Allocate, AllocateThrows, Store, Unlock, Descend, Fault, Use
  <2>2. pc'[t] \in {"load", "cell", "test", "idle"}
        /\ (pc'[t] # "idle" => request'[t] = request[t])
    BY <2>1, <1>t DEF LookPresent, Descend, Use, Return, TypeOK
  <2>3. QED
    BY <2>2, <1>2 DEF Served
<1>6. ~Begin(t)
  BY <1>k DEF Begin
<1>7. QED
  BY <1>3, <1>4, <1>5, <1>6 DEF Next

THEOREM InstalledNeedNoLock == Spec => StaysServed
<1>1. IInv /\ IInv' /\ [Next]_vars =>
        [\A t \in Threads : Served(t) => Served(t)' \/ pc'[t] = "idle"]_vars
  BY ServedStep
<1>2. QED
  BY <1>1, InvariantHolds, PTL DEF Spec, StaysServed

----------------------------------------------------------------------------
(***************************************************************************)
(* The table without locks: what its races lose they never mix up, and     *)
(* what has settled stays, for any number of threads, keys and pages.  The *)
(* argument is the inductive invariant UnsyncInv.                          *)
(***************************************************************************)

(* A walk indexes the page it is at within bounds. *)
LEMMA TurnRange ==
  ASSUME UnsyncInv, NEW t \in Threads, pc[t] # "idle"
  PROVE  /\ request[t] \in Requests /\ request[t].key \in Keys /\ page[t] \in Pages
         /\ Turned(t, 1) \in InnerIx /\ Turned(t, 2) \in InnerIx /\ Turned(t, 3) \in LeafIx
         /\ pc[t] # "cell" => level[page[t]] \in {1, 2} /\ Here(t) \in InnerIx
         /\ pc[t] = "cell" => level[page[t]] = 3 /\ Here(t) \in LeafIx
<1>1. request[t] \in Requests /\ page[t] \in Pages
  BY DEF UnsyncInv, TypeOK
<1>2. request[t].key \in Keys
  BY <1>1 DEF Requests
<1>3. level[page[t]] \in {1, 2, 3} /\ (pc[t] = "cell" <=> level[page[t]] = 3)
  BY <1>1 DEF UnsyncInv, TypeOK, OneWay, AtLevel
<1>4. QED
  BY <1>1, <1>2, <1>3, IxRange DEF Here, Turned

LEMMA UnsyncStart == Init => UnsyncInv
<1> SUFFICES ASSUME Init PROVE UnsyncInv
  OBVIOUS
<1>1. TypeOK /\ TreeShape
  BY InitInv DEF IInv
<1>2. InFlight
  BY PageAssumption DEF Init, InFlight
<1>3. \A t \in Threads : OneWay(t)
  BY PageAssumption DEF Init, OneWay, AtLevel
<1>4. QED
  BY <1>1, <1>2, <1>3 DEF UnsyncInv

(* Every action keeps the variables in their types. *)
LEMMA UnsyncType ==
  ASSUME UnsyncInv, NEW t \in Threads, Begin(t) \/ WalkUnsync(t)
  PROVE  TypeOK'
<1> USE DEF Labels, Goto
<1>t. TypeOK
  BY DEF UnsyncInv
<1>1. CASE Begin(t)
  BY <1>1, <1>t, NoRequestAssumption DEF Begin, TypeOK
<1>2. CASE LookPresent(t) \/ LookAbsentUnsync(t) \/ AllocateThrows(t)
  BY <1>2, <1>t DEF LookPresent, LookAbsentUnsync, AllocateThrows, TypeOK
<1>3. CASE ProbeAbsent(t)
  <2>1. result' \in [Threads -> Values]
    BY <1>3, <1>t DEF ProbeAbsent, TypeOK
  <2>2. QED
    BY <1>3, <1>t, <2>1, PageAssumption DEF ProbeAbsent, Return, TypeOK
<1>4. CASE Allocate(t)
  <2>1. level[page[t]] \in {1, 2}
    BY <1>4, TurnRange DEF Allocate
  <2>2. slot' \in [Pages -> [InnerIx -> Pages \cup {Null, Wild}]]
    BY <1>4, <1>t DEF Allocate, Unset, TypeOK
  <2>3. /\ level' \in [Pages -> 0 .. 3]
        /\ cell' \in [Pages -> [LeafIx -> Values]]
        /\ fresh' \in [Threads -> Pages \cup {Null}]
    BY <1>4, <1>t, <2>1, PageAssumption DEF Allocate, TypeOK
  <2>4. QED
    BY <1>4, <1>t, <2>2, <2>3 DEF Allocate, TypeOK
<1>5. CASE StoreUnsync(t)
  BY <1>5, <1>t, TurnRange DEF StoreUnsync, TypeOK
<1>6. CASE Descend(t)
  BY <1>6, <1>t DEF Descend, TypeOK
<1>7. CASE Use(t)
  <2>1. request[t] \in Requests /\ Here(t) \in LeafIx /\ page[t] \in Pages
    BY <1>7, TurnRange DEF Use
  <2>2. Assigned(request[t]) \in Values
    BY <2>1, PageAssumption DEF Assigned, Requests
  <2>3. cell' \in [Pages -> [LeafIx -> Values]] /\ result' \in [Threads -> Values]
    BY <1>7, <1>t, <2>1, <2>2 DEF Use, TypeOK
  <2>4. QED
    BY <1>7, <1>t, <2>3, PageAssumption DEF Use, Return, TypeOK
<1>8. QED
  BY <1>1, <1>2, <1>3, <1>4, <1>5, <1>6, <1>7 DEF WalkUnsync

(* Steps that neither change the table nor enter a page *)
LEMMA UnsyncQuiet ==
  ASSUME UnsyncInv, NEW t \in Threads,
         Begin(t) \/ LookPresent(t) \/ LookAbsentUnsync(t) \/ ProbeAbsent(t)
           \/ AllocateThrows(t) \/ Use(t)
  PROVE  UnsyncInv'
<1> USE DEF Goto
<1>t. TypeOK /\ TreeShape /\ InFlight /\ \A u \in Threads : OneWay(u)
  BY DEF UnsyncInv
<1>1. TypeOK'
  BY UnsyncType DEF WalkUnsync
<1>2. UNCHANGED <<level, slot, fresh>>
  BY DEF Begin, LookPresent, LookAbsentUnsync, ProbeAbsent, AllocateThrows, Use
<1>3. TreeShape'
  BY <1>t, <1>2 DEF TreeShape
<1>4. \A u \in Threads \ {t} : pc'[u] = pc[u] /\ page'[u] = page[u] /\ request'[u] = request[u]
  BY <1>t DEF Begin, LookPresent, LookAbsentUnsync, ProbeAbsent, AllocateThrows, Use, Return, TypeOK
<1>5. /\ pc[t] # "store" /\ pc'[t] # "store"
      /\ \/ page'[t] = Root /\ pc'[t] # "cell"
         \/ page'[t] = page[t] /\ request'[t] = request[t] /\ pc[t] # "idle"
              /\ pc'[t] \notin {"idle", "cell"} /\ pc[t] # "cell"
  BY <1>t DEF Begin, LookPresent, LookAbsentUnsync, ProbeAbsent, AllocateThrows, Use, Return, TypeOK, Labels,
              OneWay
<1>6. level[Root] = 1 /\ Root \in Pages
  BY <1>t, PageAssumption DEF TreeShape
<1>7. InFlight'
  <2>1. fresh[t] = Null
    BY <1>t, <1>5 DEF InFlight
  <2>2. \A u \in Threads : fresh[u] \in Pages => u # t /\ level[fresh[u]] # 1
    <3>1. \A u \in Threads : fresh[u] \in Pages => level[fresh[u]] = level[page[u]] + 1
      BY <1>t DEF InFlight
    <3>2. \A u \in Threads : level[page[u]] \in 0 .. 3 /\ level[page[u]] # 0
      BY <1>t DEF TypeOK, OneWay
    <3>3. QED
      BY <2>1, <3>1, <3>2, PageAssumption
  <2>3. ASSUME NEW u \in Threads, fresh[u] \in Pages
        PROVE  \A v \in Threads : page'[v] # fresh[u]
    BY <2>2, <2>3, <1>t, <1>4, <1>5, <1>6 DEF InFlight
  <2>4. ASSUME NEW u \in Threads
        PROVE  pc'[u] = "store" <=> fresh[u] # Null
    BY <2>1, <1>t, <1>4, <1>5 DEF InFlight
  <2>5. QED
    BY <2>2, <2>3, <2>4, <1>t, <1>2, <1>4 DEF InFlight
<1>8. ASSUME NEW u \in Threads PROVE OneWay(u)'
  <2>1. \A v \in Threads : \/ page'[v] = Root
                           \/ page'[v] = page[v] /\ request'[v] = request[v]
    BY <1>4, <1>5
  <2>2. CASE page'[u] = Root
    BY <2>2, <1>2, <1>4, <1>5, <1>6, <1>t DEF OneWay, AtLevel
  <2>3. CASE page'[u] # Root
    <3>1. page'[u] = page[u] /\ request'[u] = request[u]
      BY <2>1, <2>3
    <3>2. level[page[u]] # 0 /\ (pc'[u] = "idle" => FALSE) /\ (pc'[u] = "cell" <=> AtLevel(u, 3))
      BY <2>3, <3>1, <1>4, <1>5, <1>t DEF OneWay, AtLevel
    <3>3. \A v \in Threads : page'[v] = page[u] => page[v] = page[u] /\ request'[v] = request[v]
      BY <2>1, <2>3, <3>1
    <3>4. \A m \in Pages, j \in InnerIx : slot[m][j] = page[u] /\ AtLevel(u, 3) => m # Root
      <4>1. page[u] \in Pages
        BY <1>t DEF TypeOK
      <4>2. \A m \in Pages, j \in InnerIx : slot[m][j] = page[u] => level[page[u]] = level[m] + 1
        BY <4>1, <1>t, PageAssumption DEF TreeShape
      <4>3. QED
        BY <4>2, <1>6 DEF AtLevel
    <3>5. \A m \in Pages \ {Root}, v \in Threads : page'[v] = m => page[v] = m /\ request'[v] = request[v]
      BY <2>1
    <3>6. QED
      BY <3>1, <3>2, <3>3, <3>4, <3>5, <1>2, <1>t DEF OneWay, AtLevel, Turned
  <2>4. QED
    BY <2>2, <2>3
<1>9. QED
  BY <1>1, <1>3, <1>7, <1>8 DEF UnsyncInv

(* A walk enters the child of the page it is in. *)
LEMMA UnsyncDescend ==
  ASSUME UnsyncInv, NEW t \in Threads, Descend(t)
  PROVE  UnsyncInv'
<1> USE DEF Goto
<1>t. TypeOK /\ TreeShape /\ InFlight /\ \A u \in Threads : OneWay(u)
  BY DEF UnsyncInv
<1> DEFINE q == page[t]
           c == Child(t)
<1>1. TypeOK'
  BY UnsyncType DEF WalkUnsync
<1>2. /\ pc[t] = "load" /\ c \in Pages /\ q \in Pages /\ Here(t) \in InnerIx
      /\ level[q] \in {1, 2} /\ c = slot[q][Here(t)]
  BY TurnRange DEF Descend, Child
<1>3. /\ page' = [page EXCEPT ![t] = c]
      /\ pc' = [pc EXCEPT ![t] = IF level[c] = 3 THEN "cell" ELSE "test"]
      /\ UNCHANGED <<level, slot, fresh, request>>
  BY DEF Descend
<1>4. level[c] = level[q] + 1
  BY <1>2, <1>t, PageAssumption DEF TreeShape
<1>5. /\ page'[t] = c /\ \A u \in Threads \ {t} : page'[u] = page[u] /\ pc'[u] = pc[u]
      /\ pc'[t] = IF level[c] = 3 THEN "cell" ELSE "test"
  BY <1>3, <1>t DEF TypeOK
<1>6. \A m \in Pages, j \in InnerIx : slot[m][j] = c => m = q /\ j = Here(t)
  BY <1>2, <1>t DEF TreeShape
<1>7. TreeShape'
  BY <1>3, <1>t DEF TreeShape
<1>8. fresh[t] = Null /\ \A u \in Threads : fresh[u] # c
  BY <1>2, <1>t DEF InFlight
<1>9. InFlight'
  BY <1>2, <1>3, <1>5, <1>8, <1>t, PageAssumption DEF InFlight
<1>10. CASE level[q] = 1
  <2>1. q = Root /\ level[c] = 2 /\ Here(t) = Turned(t, 1)
    BY <1>2, <1>4, <1>10, <1>t DEF TreeShape, Here, Turned
  <2>2. \A u \in Threads : page[u] = c => Turned(u, 1) = Turned(t, 1)
    BY <2>1, <1>2, <1>t DEF OneWay, AtLevel
  <2>3. ASSUME NEW u \in Threads, page[u] \in Pages, level[page[u]] = 3,
               NEW j \in InnerIx, slot[c][j] = page[u]
        PROVE  Turned(u, 1) = Turned(t, 1)
    BY <2>1, <2>3, <1>2, <1>t DEF OneWay, AtLevel
  <2>4. OneWay(t)'
    BY <2>1, <2>2, <1>2, <1>3, <1>5, <1>6 DEF OneWay, AtLevel, Turned
  <2>5. ASSUME NEW u \in Threads, u # t PROVE OneWay(u)'
    <3>1. page[u] \in Pages /\ OneWay(u)
      BY <1>t DEF TypeOK
    <3>2. page'[u] = page[u] /\ pc'[u] = pc[u]
      BY <2>5, <1>5
    <3>3. \A v \in Threads : page'[v] = page[u] =>
            /\ AtLevel(u, 2) \/ AtLevel(u, 3) => Turned(v, 1) = Turned(u, 1)
            /\ AtLevel(u, 3) => Turned(v, 2) = Turned(u, 2)
      BY <3>1, <2>1, <2>2, <1>5 DEF OneWay, AtLevel
    <3>4. AtLevel(u, 3) => \A m \in Pages, j \in InnerIx : slot[m][j] = page[u] =>
            \A v \in Threads : page'[v] = m => Turned(v, 1) = Turned(u, 1)
      BY <3>1, <2>3, <1>5 DEF OneWay, AtLevel
    <3>5. QED
      BY <3>1, <3>2, <3>3, <3>4, <1>3 DEF OneWay, AtLevel, Turned
  <2>6. QED
    BY <2>4, <2>5, <1>1, <1>7, <1>9 DEF UnsyncInv
<1>11. CASE level[q] = 2
  <2>1. level[c] = 3 /\ Here(t) = Turned(t, 2)
    BY <1>2, <1>4, <1>11 DEF Here, Turned
  <2>2. \A u \in Threads : page[u] = c =>
          Turned(u, 1) = Turned(t, 1) /\ Turned(u, 2) = Turned(t, 2)
    BY <2>1, <1>2, <1>t DEF OneWay, AtLevel
  <2>3. /\ \A i \in InnerIx : slot[Root][i] = q => Turned(t, 1) = i
        /\ \A u \in Threads : page[u] = q => Turned(u, 1) = Turned(t, 1)
    BY <1>11, <1>t DEF OneWay, AtLevel
  <2>4. c # q
    BY <2>1, <1>11
  <2>5. OneWay(t)'
    <3>1. \A u \in Threads : page'[u] = c => Turned(u, 1) = Turned(t, 1) /\ Turned(u, 2) = Turned(t, 2)
      BY <2>2, <1>5
    <3>2. \A u \in Threads : page'[u] = q => Turned(u, 1) = Turned(t, 1)
      BY <2>3, <2>4, <1>5
    <3>3. QED
      BY <3>1, <3>2, <2>1, <2>3, <1>3, <1>5, <1>6 DEF OneWay, AtLevel, Turned
  <2>6. ASSUME NEW u \in Threads, u # t PROVE OneWay(u)'
    <3>1. page[u] \in Pages /\ OneWay(u)
      BY <1>t DEF TypeOK
    <3>2. page'[u] = page[u] /\ pc'[u] = pc[u]
      BY <2>6, <1>5
    <3>3. \A v \in Threads : page'[v] = page[u] =>
            /\ AtLevel(u, 2) \/ AtLevel(u, 3) => Turned(v, 1) = Turned(u, 1)
            /\ AtLevel(u, 3) => Turned(v, 2) = Turned(u, 2)
      BY <3>1, <2>1, <2>2, <1>5 DEF OneWay, AtLevel
    <3>4. AtLevel(u, 3) => \A m \in Pages, j \in InnerIx : slot[m][j] = page[u] =>
            \A v \in Threads : page'[v] = m => Turned(v, 1) = Turned(u, 1)
      <4>1. ASSUME AtLevel(u, 3), NEW m \in Pages, NEW j \in InnerIx, slot[m][j] = page[u] PROVE m # c
        BY <4>1, <3>1, <2>1, <1>t, PageAssumption DEF TreeShape, AtLevel
      <4>2. QED
        BY <4>1, <3>1, <1>5 DEF OneWay, AtLevel
    <3>5. QED
      BY <3>1, <3>2, <3>3, <3>4, <1>3 DEF OneWay, AtLevel, Turned
  <2>7. QED
    BY <2>5, <2>6, <1>1, <1>7, <1>9 DEF UnsyncInv
<1>12. QED
  BY <1>2, <1>10, <1>11

(* A new page is one nobody can see. *)
LEMMA UnsyncAllocate ==
  ASSUME UnsyncInv, NEW t \in Threads, Allocate(t)
  PROVE  UnsyncInv'
<1> USE DEF Goto
<1>t. TypeOK /\ TreeShape /\ InFlight /\ \A u \in Threads : OneWay(u)
  BY DEF UnsyncInv
<1>1. PICK p \in Pages :
        /\ level[p] = 0
        /\ fresh' = [fresh EXCEPT ![t] = p]
        /\ level' = [level EXCEPT ![p] = level[page[t]] + 1]
        /\ slot' = [slot EXCEPT ![p] = [i \in InnerIx |-> Null]]
  <2>1. PICK p \in Pages, garbage \in [InnerIx -> Unset(level[page[t]] + 1)] :
          /\ level[p] = 0
          /\ fresh' = [fresh EXCEPT ![t] = p]
          /\ level' = [level EXCEPT ![p] = level[page[t]] + 1]
          /\ slot' = [slot EXCEPT ![p] = garbage]
    BY DEF Allocate
  <2>2. garbage = [i \in InnerIx |-> Null]
    BY UnsyncAssumption DEF Unset
  <2>3. QED
    BY <2>1, <2>2
<1>2. /\ pc[t] = "alloc" /\ pc' = [pc EXCEPT ![t] = "store"]
      /\ UNCHANGED <<request, page>>
  BY DEF Allocate
<1>3. page[t] \in Pages /\ level[page[t]] \in {1, 2}
  BY <1>2, TurnRange
<1>4. /\ level'[p] = level[page[t]] + 1 /\ \A r \in Pages \ {p} : level'[r] = level[r] /\ slot'[r] = slot[r]
      /\ \A i \in InnerIx : slot'[p][i] = Null
      /\ fresh'[t] = p /\ \A u \in Threads \ {t} : fresh'[u] = fresh[u]
      /\ pc'[t] = "store" /\ \A u \in Threads \ {t} : pc'[u] = pc[u]
  BY <1>1, <1>2, <1>t DEF TypeOK
<1>5. \A r \in Pages, i \in InnerIx : slot[r][i] # p
  <2>1. ASSUME NEW r \in Pages, NEW i \in InnerIx, slot[r][i] = p PROVE FALSE
    <3>1. level[r] \in {1, 2} /\ level[p] = level[r] + 1
      BY <2>1, <1>t, PageAssumption DEF TreeShape
    <3>2. QED
      BY <3>1, <1>1
  <2>2. QED
    BY <2>1
<1>6. \A u \in Threads : fresh[u] # p /\ page[u] # p /\ page[u] \in Pages
  <2>1. \A u \in Threads : page[u] \in Pages /\ page[u] # p
    BY <1>1, <1>t DEF OneWay, TypeOK
  <2>2. ASSUME NEW u \in Threads, fresh[u] = p PROVE FALSE
    <3>1. level[p] = level[page[u]] + 1 /\ level[page[u]] \in 0 .. 3
      BY <2>1, <2>2, <1>t DEF InFlight, TypeOK
    <3>2. QED
      BY <3>1, <1>1
  <2>3. QED
    BY <2>1, <2>2
<1>7. p # Root
  BY <1>1, <1>t DEF TreeShape
<1>8. TypeOK'
  BY UnsyncType DEF WalkUnsync
<1>9. \A r \in Pages, i \in InnerIx : slot'[r][i] # Null => r # p /\ slot'[r][i] = slot[r][i] /\ slot[r][i] # p
  BY <1>4, <1>5
<1>10. TreeShape'
  <2>1. level'[Root] = 1 /\ \A r \in Pages : level'[r] = 1 => r = Root
    BY <1>3, <1>4, <1>7, <1>t, PageAssumption DEF TreeShape
  <2>2. \A r \in Pages, i \in InnerIx : slot'[r][i] # Null =>
          /\ level'[r] \in {1, 2}
          /\ slot'[r][i] \in Pages => level'[slot'[r][i]] = level'[r] + 1
          /\ slot'[r][i] = Wild => DirtyHeap
    BY <1>4, <1>9, <1>t DEF TreeShape
  <2>3. \A r, s \in Pages, i, j \in InnerIx :
          slot'[r][i] = slot'[s][j] /\ slot'[r][i] \in Pages => r = s /\ i = j
    BY <1>9, <1>t, PageAssumption DEF TreeShape
  <2>4. QED
    BY <2>1, <2>2, <2>3 DEF TreeShape
<1>11. InFlight'
  <2>1. \A u \in Threads : pc'[u] = "store" <=> fresh'[u] # Null
    BY <1>1, <1>4, <1>t, PageAssumption DEF InFlight
  <2>2. ASSUME NEW u \in Threads, fresh'[u] \in Pages
        PROVE  /\ level'[fresh'[u]] = level'[page'[u]] + 1
               /\ \A i \in InnerIx : slot'[fresh'[u]][i] = Null
               /\ \A r \in Pages, i \in InnerIx : slot'[r][i] # fresh'[u]
               /\ \A v \in Threads : page'[v] # fresh'[u] /\ (fresh'[v] = fresh'[u] => v = u)
    <3>1. CASE u = t
      BY <3>1, <1>2, <1>3, <1>4, <1>5, <1>6, <1>9, PageAssumption
    <3>2. CASE u # t
      BY <3>2, <2>2, <1>2, <1>4, <1>6, <1>9, <1>t, PageAssumption DEF InFlight
    <3>3. QED
      BY <3>1, <3>2
  <2>3. QED
    BY <2>1, <2>2 DEF InFlight
<1>12. ASSUME NEW u \in Threads PROVE OneWay(u)'
  <2>1. page[u] \in Pages /\ level'[page[u]] = level[page[u]]
    BY <1>4, <1>6
  <2>2. \A r \in Pages, i \in InnerIx : slot'[r][i] \in Pages => slot[r][i] = slot'[r][i]
    BY <1>9, PageAssumption
  <2>3. /\ pc'[u] = "idle" => page[u] = Root
        /\ pc'[u] = "cell" <=> AtLevel(u, 3)
    BY <1>2, <1>4, <1>t, <1>3 DEF OneWay, AtLevel
  <2>4. QED
    BY <2>1, <2>2, <2>3, <1>2, <1>t, PageAssumption DEF OneWay, AtLevel, Turned
<1>13. QED
  BY <1>8, <1>10, <1>11, <1>12 DEF UnsyncInv

(* A page that is stored over another leaves the walks below the old one   *)
(* where they are.                                                         *)
LEMMA UnsyncStore ==
  ASSUME UnsyncInv, NEW t \in Threads, StoreUnsync(t)
  PROVE  UnsyncInv'
<1> USE DEF Goto
<1>t. TypeOK /\ TreeShape /\ InFlight /\ \A u \in Threads : OneWay(u)
  BY DEF UnsyncInv
<1> DEFINE p == page[t]
           h == Here(t)
           f == fresh[t]
<1>1. /\ pc[t] = "store" /\ pc' = [pc EXCEPT ![t] = "load"]
      /\ slot' = [slot EXCEPT ![p][h] = f]
      /\ fresh' = [fresh EXCEPT ![t] = Null]
      /\ UNCHANGED <<request, page, level>>
  BY DEF StoreUnsync
<1>2. p \in Pages /\ level[p] \in {1, 2} /\ h \in InnerIx
  BY <1>1, TurnRange
<1>3. /\ f \in Pages /\ level[f] = level[p] + 1
      /\ \A i \in InnerIx : slot[f][i] = Null
      /\ \A r \in Pages, i \in InnerIx : slot[r][i] # f
      /\ \A u \in Threads : page[u] # f /\ (fresh[u] = f => u = t)
  <2>1. f \in Pages
    BY <1>1, <1>t DEF InFlight, TypeOK
  <2>2. QED
    BY <2>1, <1>t DEF InFlight
<1>4. /\ slot'[p][h] = f
      /\ \A r \in Pages, i \in InnerIx : r # p \/ i # h => slot'[r][i] = slot[r][i]
      /\ fresh'[t] = Null /\ \A u \in Threads \ {t} : fresh'[u] = fresh[u]
      /\ pc'[t] = "load" /\ \A u \in Threads \ {t} : pc'[u] = pc[u]
  BY <1>1, <1>2, <1>t DEF TypeOK
<1>5. f # p
  BY <1>3
<1>6. \A r \in Pages, i \in InnerIx :
        \/ slot'[r][i] = f /\ r = p /\ i = h
        \/ slot'[r][i] = slot[r][i] /\ slot'[r][i] # f
  BY <1>3, <1>4
<1>7. TypeOK'
  BY UnsyncType DEF WalkUnsync
<1>8. TreeShape'
  <2>1. \A r \in Pages, i \in InnerIx : slot'[r][i] # Null =>
          /\ level[r] \in {1, 2}
          /\ slot'[r][i] \in Pages => level[slot'[r][i]] = level[r] + 1
          /\ slot'[r][i] = Wild => DirtyHeap
    BY <1>2, <1>3, <1>6, <1>t, PageAssumption DEF TreeShape
  <2>2. \A r, s \in Pages, i, j \in InnerIx :
          slot'[r][i] = slot'[s][j] /\ slot'[r][i] \in Pages => r = s /\ i = j
    BY <1>6, <1>t DEF TreeShape
  <2>3. QED
    BY <2>1, <2>2, <1>1, <1>t DEF TreeShape
<1>9. InFlight'
  <2>1. \A u \in Threads : pc'[u] = "store" <=> fresh'[u] # Null
    BY <1>4, <1>t DEF InFlight
  <2>2. ASSUME NEW u \in Threads, fresh'[u] \in Pages
        PROVE  /\ level[fresh'[u]] = level[page[u]] + 1
               /\ \A i \in InnerIx : slot'[fresh'[u]][i] = Null
               /\ \A r \in Pages, i \in InnerIx : slot'[r][i] # fresh'[u]
               /\ \A v \in Threads : page[v] # fresh'[u] /\ (fresh'[v] = fresh'[u] => v = u)
    <3>1. u # t /\ fresh'[u] = fresh[u] /\ fresh[u] # f
      BY <2>2, <1>3, <1>4, PageAssumption
    <3>2. fresh[u] # p
      BY <2>2, <3>1, <1>t DEF InFlight
    <3>3. \A v \in Threads : fresh'[v] = fresh[u] => fresh[v] = fresh[u]
      BY <2>2, <3>1, <1>4, PageAssumption
    <3>4. QED
      BY <2>2, <3>1, <3>2, <3>3, <1>4, <1>6, <1>t DEF InFlight
  <2>3. QED
    BY <2>1, <2>2, <1>1 DEF InFlight
<1>10. ASSUME NEW u \in Threads PROVE OneWay(u)'
  <2>1. page[u] \in Pages /\ OneWay(u) /\ page[u] # f
    BY <1>3, <1>t DEF TypeOK
  <2>2. \A m \in Pages, j \in InnerIx : slot'[m][j] = page[u] => slot[m][j] = page[u] /\ m # f
    BY <2>1, <1>3, <1>6, PageAssumption
  <2>3. \A m \in Pages \ {f}, i \in InnerIx : slot'[Root][i] = m => slot[Root][i] = m
    BY <1>6, PageAssumption
  <2>4. (pc'[u] = "idle" => pc[u] = "idle") /\ (pc'[u] = "cell" <=> pc[u] = "cell")
    BY <1>1, <1>4
  <2>5. QED
    BY <2>1, <2>2, <2>3, <2>4, <1>1, PageAssumption DEF OneWay, AtLevel, Turned
<1>11. QED
  BY <1>7, <1>8, <1>9, <1>10 DEF UnsyncInv

----------------------------------------------------------------------------
(* Every step keeps the invariant. *)
LEMMA UnsyncStep == UnsyncInv /\ [UnsyncNext]_vars => UnsyncInv'
<1> SUFFICES ASSUME UnsyncInv, [UnsyncNext]_vars PROVE UnsyncInv'
  OBVIOUS
<1>1. CASE UNCHANGED vars
  BY <1>1 DEF vars, UnsyncInv, TypeOK, TreeShape, InFlight, OneWay, AtLevel, Turned
<1>2. ASSUME NEW t \in Threads, Begin(t) \/ WalkUnsync(t) PROVE UnsyncInv'
  BY <1>2, UnsyncQuiet, UnsyncDescend, UnsyncAllocate, UnsyncStore DEF WalkUnsync
<1>3. QED
  BY <1>1, <1>2 DEF UnsyncNext

(* Whatever threads race on the slots, the table stays a tree, a page in   *)
(* flight stays empty and unseen, and every page keeps the one way that    *)
(* led to it (PageMapUnsync.h, lines 90-100), also after another page has  *)
(* taken its slot.                                                         *)
THEOREM UnsyncHolds == UnsyncSpec => []UnsyncInv
  BY UnsyncStart, UnsyncStep, PTL DEF UnsyncSpec

(* Keys that take the same turns to a leaf are of that leaf. *)
LEMMA SameTurns ==
  ASSUME NEW k1 \in Keys, NEW k2 \in Keys,
         k1 < RootSize * MidSize * LeafSize, k2 < RootSize * MidSize * LeafSize,
         Ix(k1, 1) = Ix(k2, 1), Ix(k1, 2) = Ix(k2, 2)
  PROVE  SameLeaf(k1, k2)
<1>1. k1 \in Nat /\ k2 \in Nat
  BY PageAssumption
<1>2. QED
  BY <1>1, KeySplit DEF SameLeaf

LEMMA LeavesApart ==
  ASSUME UnsyncInv, \A k \in Keys : k < RootSize * MidSize * LeafSize
  PROVE  LeavesNotMixed
<1>1. ASSUME NEW t \in Threads, pc[t] = "cell"
      PROVE  AtLevel(t, 3) /\ OneWay(t) /\ request[t].key \in Keys /\ page[t] \in Pages
  BY <1>1, TurnRange DEF UnsyncInv, AtLevel
<1>2. ASSUME NEW t \in Threads, pc[t] = "cell", NEW k \in Keys, Leaf(k) = page[t]
      PROVE  SameLeaf(k, request[t].key)
  <2> DEFINE m == slot[Root][Ix(k, 1)]
  <2>1. Ix(k, 1) \in InnerIx /\ Ix(k, 2) \in InnerIx
    BY IxRange
  <2>2. m \in Pages /\ slot[m][Ix(k, 2)] = page[t]
    BY <1>1, <1>2, PageAssumption DEF Leaf
  <2>3. Turned(t, 2) = Ix(k, 2) /\ Turned(t, 1) = Ix(k, 1)
    BY <2>1, <2>2, <1>1, <1>2 DEF OneWay
  <2>4. QED
    BY <2>3, <1>1, <1>2, SameTurns DEF Turned
<1>3. ASSUME NEW t \in Threads, pc[t] = "cell", NEW u \in Threads, page[u] = page[t]
      PROVE  SameLeaf(request[u].key, request[t].key)
  <2>1. pc[u] = "cell" /\ Turned(u, 1) = Turned(t, 1) /\ Turned(u, 2) = Turned(t, 2)
    BY <1>1, <1>3 DEF OneWay, AtLevel, UnsyncInv
  <2>2. QED
    BY <2>1, <1>1, <1>3, SameTurns DEF Turned
<1>4. QED
  BY <1>2, <1>3 DEF LeavesNotMixed

(* However many pages were installed over each other, a walk ends in a     *)
(* leaf of its own key (PageMapUnsync.h, lines 90-100), as long as keys    *)
(* are below the capacity of the table.                                    *)
THEOREM NeverMixed ==
  ASSUME \A k \in Keys : k < RootSize * MidSize * LeafSize
  PROVE  UnsyncSpec => []LeavesNotMixed
<1>1. UnsyncInv => LeavesNotMixed
  BY LeavesApart
<1>2. QED
  BY <1>1, UnsyncHolds, PTL

(* A step keeps the leaf of a settled key, and keeps the key settled. *)
LEMMA SettledStep ==
  ASSUME UnsyncInv, NEW t \in Threads, Begin(t) \/ WalkUnsync(t), NEW k \in Keys, Settled(k)
  PROVE  Settled(k)' /\ Leaf(k)' = Leaf(k)
<1> USE DEF Goto
<1>t. TypeOK /\ TreeShape /\ InFlight /\ \A u \in Threads : OneWay(u)
  BY DEF UnsyncInv
<1> DEFINE m == slot[Root][Ix(k, 1)]
<1>1. /\ Ix(k, 1) \in InnerIx /\ Ix(k, 2) \in InnerIx /\ Root \in Pages
      /\ m \in Pages /\ slot[m][Ix(k, 2)] \in Pages /\ Leaf(k) = slot[m][Ix(k, 2)]
  BY IxRange, PageAssumption DEF Settled, Leaf
<1>2. level[Root] = 1 /\ level[m] = 2
  BY <1>1, <1>t, PageAssumption DEF TreeShape
<1>3. /\ slot'[Root][Ix(k, 1)] = m /\ slot'[m][Ix(k, 2)] = slot[m][Ix(k, 2)]
      /\ level'[Root] = 1 /\ level'[m] = 2
  <2>1. CASE Allocate(t)
    <3>1. PICK p \in Pages : level[p] = 0
                            /\ level' = [level EXCEPT ![p] = level[page[t]] + 1]
                            /\ \A r \in Pages \ {p} : slot'[r] = slot[r]
      BY <2>1, <1>t DEF Allocate, TypeOK
    <3>2. QED
      BY <3>1, <1>1, <1>2, <1>t DEF TypeOK
  <2>2. CASE StoreUnsync(t)
    <3>1. /\ pc[t] = "store" /\ page[t] \in Pages /\ Here(t) \in InnerIx
          /\ slot' = [slot EXCEPT ![page[t]][Here(t)] = fresh[t]] /\ level' = level
      BY <2>2, TurnRange DEF StoreUnsync
    <3>2. /\ ~(page[t] = Root /\ Here(t) = Ix(k, 1))
          /\ ~(page[t] = m /\ Here(t) = Ix(k, 2))
      BY <3>1 DEF Settled, Racing
    <3>3. QED
      BY <3>1, <3>2, <1>1, <1>2, <1>t DEF TypeOK
  <2>3. CASE ~Allocate(t) /\ ~StoreUnsync(t)
    BY <2>3, <1>2 DEF WalkUnsync, Begin, LookPresent, LookAbsentUnsync, ProbeAbsent, AllocateThrows, Descend, Use
  <2>4. QED
    BY <2>1, <2>2, <2>3
<1>4. Leaf(k)' = Leaf(k)
  BY <1>1, <1>3 DEF Leaf
<1>5. ~Racing(k)'
  <2> SUFFICES ASSUME NEW u \in Threads, pc'[u] \in {"alloc", "store"},
                      \/ page'[u] = Root /\ Here(u)' = Ix(k, 1)
                      \/ page'[u] = m /\ Here(u)' = Ix(k, 2)
               PROVE  FALSE
    BY <1>3 DEF Racing
  <2>1. page'[u] = page[u] /\ request'[u] = request[u]
    BY <1>t DEF WalkUnsync, Begin, LookPresent, LookAbsentUnsync, ProbeAbsent, Allocate, AllocateThrows,
                StoreUnsync, Descend, Use, Return, TypeOK
  <2>2. Here(u)' = Here(u)
    BY <2>1, <1>2, <1>3 DEF Here
  <2>3. pc[u] \notin {"alloc", "store"}
    BY <2>1, <2>2 DEF Settled, Racing
  <2>4. u = t /\ LookAbsentUnsync(t)
    BY <2>3, <1>t DEF WalkUnsync, Begin, LookPresent, LookAbsentUnsync, ProbeAbsent, Allocate, AllocateThrows,
                StoreUnsync, Descend, Use, Return, TypeOK
  <2>5. Child(u) = Null
    BY <2>4 DEF LookAbsentUnsync
  <2>6. QED
    BY <2>1, <2>2, <2>5, <1>1, PageAssumption DEF Child
<1>6. QED
  BY <1>1, <1>4, <1>5 DEF Settled

(* A settled key keeps its leaf: only a thread that has seen one of the    *)
(* slots on its path empty could replace it, and those slots are not empty *)
(* any more (PageMapUnsync.h, lines 93-96).                                *)
THEOREM WhatSettledStays == UnsyncSpec => SettledStays
<1>1. ASSUME UnsyncInv, [UnsyncNext]_vars
      PROVE  [\A k \in Keys : Settled(k) => Settled(k)' /\ Leaf(k)' = Leaf(k)]_vars
  BY <1>1, SettledStep DEF UnsyncNext
<1>2. QED
  BY <1>1, UnsyncHolds, PTL DEF UnsyncSpec, SettledStays

----------------------------------------------------------------------------
(* What a program must do to be safe without the locks: no two handlers    *)
(* run at the same time.                                                   *)
OneAtATime == \A t, u \in Threads : pc[t] # "idle" /\ pc[u] # "idle" => t = u

(* The inductive invariant while it does: a walk stands on the path of its *)
(* key, and a slot it has seen empty is empty still.                       *)
SerialInv == UnsyncInv /\ FreshBlank /\ \A t \in Threads : OnPath(t)

LEMMA SerialStart == Init => SerialInv
<1> SUFFICES ASSUME Init PROVE SerialInv
  OBVIOUS
<1>1. FreshBlank
  BY PageAssumption DEF Init, FreshBlank
<1>2. \A t \in Threads : OnPath(t)
  BY InitInv DEF IInv
<1>3. QED
  BY <1>1, <1>2, UnsyncStart DEF SerialInv

(* What storing its page does for a walk that is alone *)
LEMMA SerialStore ==
  ASSUME SerialInv, NEW t \in Threads, StoreUnsync(t)
  PROVE  /\ page[t] \in Pages /\ Here(t) \in InnerIx /\ fresh[t] \in Pages /\ fresh[t] # page[t]
         /\ slot[page[t]][Here(t)] = Null
         /\ \A p \in Pages, i \in InnerIx :
              slot'[p][i] = IF p = page[t] /\ i = Here(t) THEN fresh[t] ELSE slot[p][i]
         /\ \A i \in InnerIx : slot[fresh[t]][i] \notin Pages
         /\ \A i \in LeafIx : cell[fresh[t]][i] = Zero
         /\ UNCHANGED <<cell, level, request, page>>
<1>t. TypeOK /\ InFlight /\ FreshBlank /\ OnPath(t)
  BY DEF SerialInv, UnsyncInv
<1>1. pc[t] = "store" /\ slot' = [slot EXCEPT ![page[t]][Here(t)] = fresh[t]]
  BY DEF StoreUnsync
<1>2. page[t] \in Pages /\ Here(t) \in InnerIx /\ Child(t) = Null
  BY <1>1, <1>t, HereOnPath DEF OnPath
<1>3. fresh[t] \in Pages
  BY <1>1, <1>t DEF InFlight, TypeOK
<1>4. fresh[t] # page[t]
  BY <1>3, <1>t DEF InFlight
<1>5. QED
  BY <1>1, <1>2, <1>3, <1>4, <1>t DEF FreshBlank, Child, TypeOK, StoreUnsync

(* The walk that takes a step stays on its path. *)
LEMMA SerialPath ==
  ASSUME SerialInv, NEW t \in Threads, Begin(t) \/ WalkUnsync(t)
  PROVE  OnPath(t)'
<1> USE DEF Goto
<1>t. TypeOK /\ TreeShape /\ InFlight /\ OnPath(t)
  BY DEF SerialInv, UnsyncInv
<1>r. level[Root] = 1 /\ Root \in Pages
  BY <1>t, PageAssumption DEF TreeShape
<1>1. CASE Begin(t) \/ ProbeAbsent(t) \/ Use(t)
  BY <1>1, <1>t, <1>r DEF Begin, ProbeAbsent, Use, Return, OnPath, TypeOK
<1>2. CASE LookPresent(t) \/ LookAbsentUnsync(t) \/ AllocateThrows(t)
  BY <1>2, <1>t DEF LookPresent, LookAbsentUnsync, AllocateThrows, OnPath, TypeOK, Leaf, Child, Here
<1>3. CASE Allocate(t)
  <2>1. PICK p \in Pages :
          /\ level[p] = 0 /\ level' = [level EXCEPT ![p] = level[page[t]] + 1]
          /\ \A r \in Pages \ {p} : slot'[r] = slot[r]
          /\ pc[t] = "alloc" /\ pc'[t] = "store" /\ UNCHANGED <<page, request>>
    BY <1>3, <1>t DEF Allocate, TypeOK
  <2>2. page[t] \in Pages /\ level[page[t]] \in {1, 2}
    BY <2>1, <1>t, HereOnPath
  <2>3. level'[page[t]] = level[page[t]] /\ slot'[page[t]] = slot[page[t]] /\ slot'[Root] = slot[Root]
    BY <2>1, <2>2, <1>r, <1>t DEF TypeOK
  <2>4. QED
    BY <2>1, <2>2, <2>3, <1>t DEF OnPath, Child, Here
<1>4. CASE StoreUnsync(t)
  <2>1. /\ pc[t] = "store" /\ pc'[t] = "load" /\ UNCHANGED <<page, request, level>>
        /\ page[t] \in Pages /\ level[page[t]] \in {1, 2} /\ Here(t) \in InnerIx
    BY <1>4, <1>t, HereOnPath DEF StoreUnsync, TypeOK
  <2>2. Child(t)' # Null
    BY <1>4, <2>1, SerialStore, PageAssumption DEF Child, Here
  <2>3. level[page[t]] = 2 => page[t] = slot'[Root][Ix(request[t].key, 1)]
    <3>1. request[t].key \in Keys
      BY <2>1, <1>t, HereOnPath
    <3>2. QED
      BY <1>4, <2>1, <3>1, <1>r, <1>t, SerialStore, IxRange DEF OnPath
  <2>4. QED
    BY <2>1, <2>2, <2>3 DEF OnPath
<1>5. CASE Descend(t)
  <2> DEFINE q == page[t]
             c == Child(t)
  <2>1. /\ pc[t] = "load" /\ c \in Pages /\ page'[t] = c
        /\ pc'[t] = IF level[c] = 3 THEN "cell" ELSE "test"
        /\ UNCHANGED <<level, slot, request>>
    BY <1>5, <1>t DEF Descend, TypeOK
  <2>2. q \in Pages /\ level[q] \in {1, 2} /\ Here(t) \in InnerIx /\ c = slot[q][Here(t)]
    BY <2>1, <1>t, HereOnPath DEF Child
  <2>3. level[c] = level[q] + 1
    BY <2>1, <2>2, <1>t, PageAssumption DEF TreeShape
  <2>4. CASE level[q] = 1
    <3>1. q = Root /\ c = slot[Root][Ix(request[t].key, 1)] /\ level[c] = 2
      BY <2>2, <2>3, <2>4, <1>t DEF TreeShape, Here
    <3>2. QED
      BY <2>1, <3>1 DEF OnPath
  <2>5. CASE level[q] = 2
    <3>1. c = Leaf(request[t].key) /\ level[c] = 3
      BY <2>2, <2>3, <2>5, <1>t DEF OnPath, Here, Leaf
    <3>2. QED
      BY <2>1, <3>1 DEF OnPath, Leaf
  <2>6. QED
    BY <2>2, <2>4, <2>5
<1>6. QED
  BY <1>1, <1>2, <1>3, <1>4, <1>5 DEF WalkUnsync

LEMMA SerialStep ==
  ASSUME SerialInv, OneAtATime, [UnsyncNext]_vars
  PROVE  SerialInv'
<1>t. TypeOK /\ TreeShape /\ InFlight /\ FreshBlank /\ \A u \in Threads : OnPath(u)
  BY DEF SerialInv, UnsyncInv
<1>u. UnsyncInv' /\ InFlight' /\ TypeOK' /\ TreeShape'
  BY UnsyncStep DEF SerialInv, UnsyncInv
<1>1. CASE UNCHANGED vars
  BY <1>1, <1>t, <1>u DEF vars, SerialInv, FreshBlank, OnPath, Leaf, Child, Here
<1>2. ASSUME NEW t \in Threads, Begin(t) \/ WalkUnsync(t) PROVE SerialInv'
  <2>1. /\ pc' = [pc EXCEPT ![t] = pc'[t]] /\ \A u \in Threads \ {t} : page'[u] = page[u]
    BY <1>2, <1>t DEF WalkUnsync, Begin, LookPresent, LookAbsentUnsync, ProbeAbsent, Allocate,
         AllocateThrows, StoreUnsync, Descend, Use, Return, Goto, TypeOK
  <2>2. CASE Begin(t)
    <3>1. UNCHANGED <<fresh, slot, cell, level, page>> /\ pc'[t] = "test"
          /\ \A u \in Threads \ {t} : request'[u] = request[u] /\ pc'[u] = pc[u]
      BY <2>2, <1>t DEF Begin, Goto, TypeOK
    <3>2. FreshBlank'
      BY <3>1, <1>t DEF FreshBlank
    <3>3. \A u \in Threads : OnPath(u)'
      BY <2>2, <3>1, <1>t, SerialPath DEF OnPath, Leaf, Child, Here
    <3>4. QED
      BY <3>2, <3>3, <1>u DEF SerialInv
  <2>3. CASE WalkUnsync(t)
    <3>1. \A u \in Threads \ {t} : pc[u] = "idle" /\ pc'[u] = "idle" /\ page'[u] = Root
      <4>1. pc[t] # "idle"
        BY <2>3 DEF WalkUnsync, LookPresent, LookAbsentUnsync, ProbeAbsent, Allocate,
             AllocateThrows, StoreUnsync, Descend, Use
      <4>2. QED
        BY <4>1, <2>1, <1>t DEF OneAtATime, OnPath, TypeOK
    <3>2. ASSUME NEW u \in Threads, u # t PROVE OnPath(u)'
      BY <3>1, <3>2, <1>u, PageAssumption DEF OnPath, TreeShape
    <3>3. ASSUME NEW u \in Threads, fresh'[u] \in Pages
          PROVE  /\ \A i \in InnerIx : slot'[fresh'[u]][i] \notin Pages
                 /\ \A i \in LeafIx : cell'[fresh'[u]][i] = Zero
      <4>1. pc'[u] = "store"
        BY <3>3, <1>u, PageAssumption DEF InFlight
      <4>2. u = t /\ Allocate(t)
        BY <4>1, <3>1, <2>3, <1>t DEF WalkUnsync, LookPresent, LookAbsentUnsync, ProbeAbsent,
             AllocateThrows, StoreUnsync, Descend, Use, Return, Goto, TypeOK
      <4>3. \A i \in LeafIx : cell'[fresh'[t]][i] = Zero
        BY <4>2, <1>t DEF Allocate, TypeOK
      <4>4. QED
        BY <4>2, <4>3, <3>3, <1>u, PageAssumption DEF InFlight
    <3>4. QED
      BY <3>2, <3>3, <2>3, <1>u, SerialPath DEF SerialInv, FreshBlank
  <2>4. QED
    BY <1>2, <2>2, <2>3
<1>3. QED
  BY <1>1, <1>2 DEF UnsyncNext

(* Where no two handlers overlap, the table without locks keeps what       *)
(* universe::map promises: every operation is one atomic access to its     *)
(* key's own cell, whichever threads take turns (PageMapUnsync.h, lines    *)
(* 69-100).  What the missing locks put at risk is overlap and nothing     *)
(* else.                                                                   *)
THEOREM SerialRefinement ==
  ASSUME \A k \in Keys : k < RootSize * MidSize * LeafSize
  PROVE  UnsyncSpec /\ []OneAtATime => ImplementsShadowMapSafely
<1>1. Init => Shadow!Init
  <2> SUFFICES ASSUME Init PROVE Shadow!Init
    OBVIOUS
  <2>1. \A k \in Keys : Leaf(k) = Null
    BY IxRange, PageAssumption DEF Init, Leaf
  <2>2. ShadowCell = [k \in Keys |-> Zero]
    BY <2>1, PageAssumption DEF ShadowCell
  <2>3. QED
    BY <2>2 DEF Init, Shadow!Init
<1>2. SerialInv /\ [UnsyncNext]_vars => [Shadow!Next]_(Shadow!vars)
  <2> SUFFICES ASSUME SerialInv, [UnsyncNext]_vars
               PROVE  Shadow!Next \/ UNCHANGED Shadow!vars
    OBVIOUS
  <2>t. TypeOK /\ TreeShape /\ \A t \in Threads : OnPath(t)
    BY DEF SerialInv, UnsyncInv
  <2>1. ASSUME NEW t \in Threads, Begin(t) PROVE Shadow!Begin(t)
    <3>1. request[t] = NoRequest
      BY <2>1, <2>t DEF Begin, TypeOK
    <3>2. UNCHANGED ShadowCell
      BY <2>1 DEF Begin, ShadowCell, Leaf
    <3>3. QED
      BY <2>1, <3>1, <3>2 DEF Begin, Shadow!Begin, Requests, Shadow!Requests
  <2>2. ASSUME NEW t \in Threads, Use(t) \/ ProbeAbsent(t) PROVE Shadow!Finish(t)
    BY <2>2, <2>t, UseIsFinish, ProbeIsFinish
  <2>3. ASSUME NEW t \in Threads, Allocate(t) \/ StoreUnsync(t) PROVE UNCHANGED Shadow!vars
    <3>1. ASSUME NEW k \in Keys PROVE ShadowCell'[k] = ShadowCell[k]
      <4>1. CASE Allocate(t)
        BY <4>1, <2>t, AllocateInvisible
      <4>2. CASE StoreUnsync(t)
        BY <4>2, <2>t, SerialStore, InstallInvisible
      <4>3. QED
        BY <2>3, <4>1, <4>2
    <3>2. ShadowCell' = ShadowCell
      BY <3>1 DEF ShadowCell
    <3>3. QED
      BY <2>3, <3>2 DEF Allocate, StoreUnsync, Shadow!vars
  <2>4. ASSUME NEW t \in Threads,
               LookPresent(t) \/ LookAbsentUnsync(t) \/ AllocateThrows(t) \/ Descend(t)
        PROVE  UNCHANGED Shadow!vars
    BY <2>4 DEF LookPresent, LookAbsentUnsync, AllocateThrows, Descend, Shadow!vars, ShadowCell, Leaf
  <2>5. CASE UNCHANGED vars
    BY <2>5 DEF vars, Shadow!vars, ShadowCell, Leaf
  <2>6. QED
    BY <2>1, <2>2, <2>3, <2>4, <2>5 DEF UnsyncNext, WalkUnsync, Shadow!Next
<1>3. SerialInv /\ OneAtATime /\ [UnsyncNext]_vars => SerialInv'
  BY SerialStep
<1>4. QED
  BY <1>1, <1>2, <1>3, SerialStart, PTL DEF UnsyncSpec, ImplementsShadowMapSafely, Shadow!Spec
=============================================================================
