---------------------------- MODULE RtSetsProofs ----------------------------
(***************************************************************************)
(* Theorems about rt_lib::set (RtSets) and the lists of nodes behind it    *)
(* (SparseSets), for sets of any members, nodes of any width and calls in  *)
(* any order.                                                              *)
(*                                                                         *)
(* The loops over the lists are recursive functions.  The provers do not   *)
(* take induction from the library's theorems, whose hypothesis is a       *)
(* predicate; Upwards states it for a set of numbers, Rounds what it says  *)
(* of a loop.                                                              *)
(***************************************************************************)
EXTENDS RtSets, WellFoundedInduction, FiniteSetTheorems, TLAPS

(* Induction up to n: a set that has 0 and with each number the next has   *)
(* all of them.                                                            *)
LEMMA Upwards ==
  ASSUME NEW n \in Nat, NEW T, 0 \in T,
         \A k \in 0 .. n - 1 : k \in T => k + 1 \in T
  PROVE  0 .. n \subseteq T
<1>1. SUFFICES ASSUME (0 .. n) \ T # {} PROVE FALSE
  OBVIOUS
<1> DEFINE U == (0 .. n) \ T
           R == {p \in Nat \X Nat : p[1] < p[2]}
<1>2. U \subseteq Nat /\ U # {}
  BY <1>1
<1>3. IsWellFoundedOn(R, Nat)
  BY NatLessThanWellFounded DEF OpToRel
<1>4. \A x, y \in Nat : y < x => <<y, x>> \in R
  OBVIOUS
<1> HIDE DEF R
<1>5. \E x \in U : \A y \in U : ~(<<y, x>> \in R)
  <2> HIDE DEF U
  <2> QED
    BY <1>2, <1>3, WFMin
<1>6. PICK x \in U : \A y \in U : ~(<<y, x>> \in R)
  BY <1>5
<1>7. x \in 1 .. n
  BY <1>6
<1>8. <<x - 1, x>> \in R
  BY <1>4, <1>7
<1>9. x - 1 \in T /\ x - 1 \in 0 .. n - 1
  BY <1>6, <1>7, <1>8
<1>10. QED
  BY <1>6, <1>7, <1>9

IsRun(g, n, start, F) == g[0] = start /\ \A k \in 1 .. n : g[k] = F[k][g[k - 1]]

(* The rounds of a loop over a set the round does not leave are there,     *)
(* whatever function a round is.                                           *)
LEMMA Rounds ==
  ASSUME NEW n \in Nat, NEW S, NEW start \in S, NEW F \in [1 .. n -> [S -> S]]
  PROVE  \E g \in [0 .. n -> S] : IsRun(g, n, start, F)
<1> DEFINE Good(k, g) == IsRun(g, k, start, F)
           T == {k \in 0 .. n : \E g \in [0 .. k -> S] : Good(k, g)}
<1>1. 0 \in T
  <2>1. [j \in 0 .. 0 |-> start] \in [0 .. 0 -> S] /\ Good(0, [j \in 0 .. 0 |-> start])
    BY DEF IsRun
  <2> HIDE DEF Good
  <2> QED
    BY <2>1
<1>2. ASSUME NEW k \in 0 .. n - 1, k \in T PROVE k + 1 \in T
  <2>1. PICK g \in [0 .. k -> S] : Good(k, g)
    BY <1>2
  <2> DEFINE h == [j \in 0 .. k + 1 |-> IF j = k + 1 THEN F[k + 1][g[k]] ELSE g[j]]
  <2>2. h \in [0 .. k + 1 -> S]
    OBVIOUS
  <2>3. h[0] = start
    BY <2>1 DEF IsRun
  <2>4. ASSUME NEW j \in 1 .. k + 1 PROVE h[j] = F[j][h[j - 1]]
    <3>1. CASE j = k + 1
      BY <3>1
    <3>2. CASE j # k + 1
      <4>1. j \in 1 .. k /\ j - 1 \in 0 .. k /\ j - 1 # k + 1
        BY <3>2
      <4> QED
        BY <2>1, <3>2, <4>1 DEF IsRun
    <3> QED
      BY <3>1, <3>2
  <2> HIDE DEF h
  <2>5. Good(k + 1, h) /\ k + 1 \in 0 .. n
    BY <2>3, <2>4 DEF IsRun
  <2> HIDE DEF Good
  <2> QED
    BY <2>2, <2>5
<1>3. n \in T
  <2> HIDE DEF T
  <2>1. \A k \in 0 .. n - 1 : k \in T => k + 1 \in T
    BY <1>2
  <2>2. 0 .. n \subseteq T
    BY <1>1, <2>1, Upwards
  <2> QED
    BY <2>2
<1>4. QED
  BY <1>3

----------------------------------------------------------------------------
(* Lists of nodes, and a place in one *)
Walks == {st \in [elms : Seq(Nodes), at : Nat \ {0}] : st.at <= Len(st.elms) + 1}

(* Where FirstFrom stops *)
LEMMA FirstPlace ==
  ASSUME NEW s \in Seq(Nodes), NEW from \in 1 .. Len(s) + 1, NEW idx \in Nat
  PROVE  LET k == FirstFrom(s, from, idx) IN
         /\ k \in from .. Len(s) + 1
         /\ k > Len(s) \/ s[k].index >= idx
         /\ \A j \in from .. k - 1 : s[j].index < idx
<1> DEFINE Ok(k) == /\ k > Len(s) \/ s[k].index >= idx
                    /\ \A j \in from .. k - 1 : s[j].index < idx
           n == Len(s) + 1 - from
           T == {d \in 0 .. n : \A j \in from .. from + d - 1 : s[j].index < idx}
<1>1. \E k \in from .. Len(s) + 1 : Ok(k)
  <2>1. SUFFICES ASSUME \A k \in from .. Len(s) + 1 : ~Ok(k) PROVE FALSE
    OBVIOUS
  <2>2. 0 \in T /\ n \in Nat
    OBVIOUS
  <2>3. ASSUME NEW d \in 0 .. n - 1, d \in T PROVE d + 1 \in T
    <3>1. from + d \in from .. Len(s) + 1 /\ ~Ok(from + d)
      BY <2>1
    <3>2. s[from + d].index < idx
      <4>1. s[from + d] \in Nodes
        BY <3>1
      <4> QED
        BY <2>3, <3>1, <4>1 DEF Nodes
    <3> QED
      BY <2>3, <3>2
  <2>4. n \in T
    <3>1. \A d \in 0 .. n - 1 : d \in T => d + 1 \in T
      BY <2>3
    <3> HIDE DEF T, n
    <3>2. 0 .. n \subseteq T
      BY <2>2, <3>1, Upwards
    <3> QED
      BY <2>2, <3>2
  <2>5. Ok(Len(s) + 1)
    BY <2>4
  <2> QED
    BY <2>1, <2>5
<1>2. QED
  BY <1>1 DEF FirstFrom

LEMMA NodeOps ==
  ASSUME NEW n \in Nodes, NEW m \in Nodes
  PROVE  NodeOr(n, m) \in Nodes /\ NodeAnd(n, m) \in Nodes
  BY DEF Nodes, NodeOr, NodeAnd

LEMMA InsertedType ==
  ASSUME NEW s \in Seq(Nodes), NEW k \in 1 .. Len(s) + 1, NEW n \in Nodes
  PROVE  Inserted(s, k, n) \in Seq(Nodes) /\ Len(Inserted(s, k, n)) = Len(s) + 1
<1>1. Inserted(s, k, n) \in [1 .. Len(s) + 1 -> Nodes]
  BY DEF Inserted
<1>2. QED
  BY <1>1 DEF Inserted

LEMMA OrNodeType ==
  ASSUME NEW st \in Walks, NEW n \in Nodes, NEW full \in BOOLEAN
  PROVE  OrNode(st, n, full) \in Walks
<1> DEFINE k == FirstFrom(st.elms, st.at, n.index)
<1>0. st.elms \in Seq(Nodes) /\ st.at \in 1 .. Len(st.elms) + 1 /\ n.index \in Nat
  BY DEF Walks, Nodes
<1>1. k \in st.at .. Len(st.elms) + 1
  BY <1>0, FirstPlace
<1> HIDE DEF k
<1>2. (IF full THEN Node(n.index, TRUE) ELSE n) \in Nodes
  BY DEF Nodes, Node
<1>3. CASE IsAt(st.elms, k, n.index)
  <2>1. [st.elms EXCEPT ![k] = NodeOr(@, n)] \in Seq(Nodes)
        /\ Len([st.elms EXCEPT ![k] = NodeOr(@, n)]) = Len(st.elms) /\ k <= Len(st.elms)
    BY <1>0, <1>1, <1>3, NodeOps DEF IsAt
  <2> QED
    BY <1>0, <1>1, <1>3, <2>1 DEF OrNode, k, Walks
<1>4. CASE ~IsAt(st.elms, k, n.index)
  <2> DEFINE m == IF full THEN Node(n.index, TRUE) ELSE n
             t == Inserted(st.elms, k, m)
  <2>1. t \in Seq(Nodes) /\ Len(t) = Len(st.elms) + 1
    <3>1. k \in 1 .. Len(st.elms) + 1
      BY <1>0, <1>1
    <3> HIDE DEF m
    <3> QED
      BY <1>0, <1>2, <3>1, InsertedType DEF m
  <2>2. OrNode(st, n, full) = [elms |-> t, at |-> k + 1]
    BY <1>4 DEF OrNode, k
  <2> HIDE DEF t
  <2> QED
    BY <1>0, <1>1, <2>1, <2>2 DEF Walks
<1>5. QED
  BY <1>3, <1>4

(* What a list holds, and what it does up to a place *)
HasBit(s, i, o) == \E k \in DOMAIN s : s[k].index = i /\ o \in s[k].bits
HasBitTo(s, j, i, o) == \E k \in 1 .. j : s[k].index = i /\ o \in s[k].bits
Canonical(s) == s \in Seq(Nodes) /\ Sorted(s) /\ NoneEmpty(s)

LEMMA ListFacts ==
  ASSUME NEW s \in Seq(Nodes)
  PROVE  /\ Len(s) \in Nat /\ DOMAIN s = 1 .. Len(s)
         /\ \A k \in 1 .. Len(s) : s[k] \in Nodes /\ s[k].index \in Nat /\ s[k].bits \in SUBSET AllBits
<1>1. \A k \in 1 .. Len(s) : s[k] \in Nodes
  OBVIOUS
<1>2. QED
  BY <1>1 DEF Nodes

LEMMA CanonicalFacts ==
  ASSUME NEW s, Canonical(s)
  PROVE  /\ s \in Seq(Nodes) /\ Len(s) \in Nat /\ DOMAIN s = 1 .. Len(s)
         /\ \A k \in 1 .. Len(s) : s[k] \in Nodes /\ s[k].index \in Nat /\ s[k].bits \in SUBSET AllBits
         /\ \A k \in 1 .. Len(s) : s[k].bits # {}
         /\ \A j, k \in 1 .. Len(s) : j < k => s[j].index < s[k].index
<1>1. s \in Seq(Nodes)
  BY DEF Canonical
<1>2. Len(s) \in Nat /\ DOMAIN s = 1 .. Len(s)
      /\ \A k \in 1 .. Len(s) : s[k] \in Nodes /\ s[k].index \in Nat /\ s[k].bits \in SUBSET AllBits
  BY <1>1, ListFacts
<1>3. QED
  BY <1>1, <1>2 DEF Canonical, Sorted, NoneEmpty

(* A node that lies behind those the walk has passed *)
LEMMA OrNodeKeeps ==
  ASSUME NEW st \in Walks, Canonical(st.elms), NEW n \in Nodes, n.bits # {},
         \A k \in 1 .. st.at - 1 : st.elms[k].index < n.index
  PROVE  LET new == OrNode(st, n, FALSE) IN
         /\ new \in Walks /\ Canonical(new.elms)
         /\ \A i, o : HasBit(new.elms, i, o) <=> HasBit(st.elms, i, o) \/ (i = n.index /\ o \in n.bits)
         /\ \A k \in 1 .. new.at - 1 : new.elms[k].index <= n.index
<1> DEFINE new == OrNode(st, n, FALSE)
           s == st.elms
           k == FirstFrom(s, st.at, n.index)
           t == new.elms
<1>0. /\ s \in Seq(Nodes) /\ Len(s) \in Nat /\ DOMAIN s = 1 .. Len(s)
      /\ st.at \in 1 .. Len(s) + 1 /\ n.index \in Nat
      /\ \A j \in 1 .. Len(s) : s[j] \in Nodes /\ s[j].index \in Nat /\ s[j].bits # {}
      /\ \A i, j \in 1 .. Len(s) : i < j => s[i].index < s[j].index
  <2>1. st.at \in 1 .. Len(s) + 1 /\ n.index \in Nat
    BY DEF Walks, Nodes
  <2> HIDE DEF s
  <2> QED
    BY <2>1, CanonicalFacts DEF s
<1>1. new \in Walks
  BY OrNodeType
<1>2. /\ k \in st.at .. Len(s) + 1
      /\ k > Len(s) \/ s[k].index >= n.index
      /\ \A j \in 1 .. k - 1 : s[j].index < n.index
  <2>1. /\ k \in st.at .. Len(s) + 1
        /\ k > Len(s) \/ s[k].index >= n.index
        /\ \A j \in st.at .. k - 1 : s[j].index < n.index
    BY <1>0, FirstPlace
  <2> HIDE DEF k, s
  <2> QED
    BY <1>0, <2>1 DEF s
<1>3. t = (IF IsAt(s, k, n.index) THEN [s EXCEPT ![k] = NodeOr(@, n)] ELSE Inserted(s, k, n))
      /\ new.at = k + 1
  BY DEF OrNode
<1> HIDE DEF new, k, s, t
<1>4. CASE IsAt(s, k, n.index)
  <2>1. k \in 1 .. Len(s) /\ s[k].index = n.index
    BY <1>0, <1>2, <1>4 DEF IsAt
  <2>2. /\ DOMAIN t = 1 .. Len(s)
        /\ \A j \in 1 .. Len(s) : j # k => t[j] = s[j]
        /\ t[k].index = s[k].index /\ t[k].bits = s[k].bits \cup n.bits
    BY <1>0, <1>3, <1>4, <2>1 DEF NodeOr, Nodes
  <2>3. Sorted(t) /\ NoneEmpty(t)
    BY <1>0, <2>1, <2>2 DEF Sorted, NoneEmpty
  <2>4. \A i, o : HasBit(t, i, o) <=> HasBit(s, i, o) \/ (i = n.index /\ o \in n.bits)
    BY <1>0, <2>1, <2>2 DEF HasBit
  <2>5. \A j \in 1 .. new.at - 1 : t[j].index <= n.index
    BY <1>0, <1>2, <1>3, <2>1, <2>2
  <2> QED
    BY <1>1, <2>3, <2>4, <2>5 DEF Canonical, Walks, new, s, t
<1>5. CASE ~IsAt(s, k, n.index)
  <2>1. k \in 1 .. Len(s) + 1 /\ (k <= Len(s) => s[k].index > n.index)
    BY <1>0, <1>2, <1>5 DEF IsAt
  <2>2. /\ DOMAIN t = 1 .. Len(s) + 1
        /\ \A j \in 1 .. k - 1 : t[j] = s[j]
        /\ t[k] = n
        /\ \A j \in k + 1 .. Len(s) + 1 : t[j] = s[j - 1]
    BY <1>0, <1>3, <1>5, <2>1 DEF Inserted
  <2>3. ASSUME NEW j \in k .. Len(s) PROVE s[j].index > n.index /\ t[j + 1] = s[j]
    <3>1. j + 1 \in k + 1 .. Len(s) + 1 /\ (j + 1) - 1 = j /\ j \in 1 .. Len(s) /\ k \in 1 .. Len(s)
      BY <1>0, <2>1
    <3>2. t[j + 1] = s[j]
      BY <2>2, <3>1
    <3>3. s[j].index > n.index
      BY <1>0, <2>1, <3>1
    <3> QED
      BY <3>2, <3>3
  <2>4. Sorted(t)
    <3>1. ASSUME NEW i \in 1 .. Len(s) + 1, NEW j \in 1 .. Len(s) + 1, i < j
          PROVE  t[i].index < t[j].index
      <4>1. CASE j < k
        BY <1>0, <2>1, <2>2, <3>1, <4>1 DEF Sorted
      <4>2. CASE j = k
        BY <1>2, <2>1, <2>2, <3>1, <4>2
      <4>3. CASE j > k /\ i < k
        <5>1. j - 1 \in k .. Len(s) /\ t[j] = s[j - 1] /\ t[i] = s[i] /\ i \in 1 .. k - 1
          BY <1>0, <2>1, <2>2, <4>3
        <5> QED
          BY <1>0, <1>2, <2>3, <5>1, <2>1
      <4>4. CASE j > k /\ i = k
        BY <1>0, <2>1, <2>2, <2>3, <4>4
      <4>5. CASE i > k
        <5>1. t[j] = s[j - 1] /\ t[i] = s[i - 1] /\ i - 1 \in 1 .. Len(s) /\ j - 1 \in 1 .. Len(s)
          BY <1>0, <2>1, <2>2, <3>1, <4>5
        <5> QED
          BY <1>0, <3>1, <5>1 DEF Sorted
      <4> QED
        BY <2>1, <3>1, <4>1, <4>2, <4>3, <4>4, <4>5
    <3> QED
      BY <2>2, <3>1 DEF Sorted
  <2>5. NoneEmpty(t)
    <3>1. ASSUME NEW j \in 1 .. Len(s) + 1 PROVE t[j].bits # {}
      <4>1. CASE j > k
        <5>1. j - 1 \in 1 .. Len(s) /\ t[j] = s[j - 1]
          BY <1>0, <2>1, <2>2, <4>1
        <5> QED
          BY <1>0, <5>1
      <4>2. CASE j < k
        <5>1. j \in 1 .. Len(s) /\ t[j] = s[j]
          BY <1>0, <2>1, <2>2, <4>2
        <5> QED
          BY <1>0, <5>1
      <4> QED
        BY <2>1, <2>2, <4>1, <4>2
    <3> QED
      BY <2>2, <3>1 DEF NoneEmpty
  <2>6. ASSUME NEW i, NEW o
        PROVE  HasBit(t, i, o) <=> HasBit(s, i, o) \/ (i = n.index /\ o \in n.bits)
    <3>1. ASSUME HasBit(t, i, o) PROVE HasBit(s, i, o) \/ (i = n.index /\ o \in n.bits)
      <4>1. PICK j \in 1 .. Len(s) + 1 : t[j].index = i /\ o \in t[j].bits
        BY <2>2, <3>1 DEF HasBit
      <4>2. CASE j < k
        <5>1. j \in 1 .. Len(s) /\ t[j] = s[j]
          BY <1>0, <2>1, <2>2, <4>2
        <5> QED
          BY <1>0, <4>1, <5>1 DEF HasBit
      <4>3. CASE j > k
        <5>1. j - 1 \in 1 .. Len(s) /\ t[j] = s[j - 1]
          BY <1>0, <2>1, <2>2, <4>3
        <5> QED
          BY <1>0, <4>1, <5>1 DEF HasBit
      <4> QED
        BY <2>1, <2>2, <4>1, <4>2, <4>3
    <3>2. ASSUME HasBit(s, i, o) \/ (i = n.index /\ o \in n.bits) PROVE HasBit(t, i, o)
      <4>1. CASE i = n.index /\ o \in n.bits
        BY <2>1, <2>2, <4>1 DEF HasBit
      <4>2. CASE HasBit(s, i, o)
        <5>1. PICK j \in 1 .. Len(s) : s[j].index = i /\ o \in s[j].bits
          BY <1>0, <4>2 DEF HasBit
        <5>2. CASE j < k
          BY <2>1, <2>2, <5>1, <5>2 DEF HasBit
        <5>3. CASE j >= k
          <6>1. j + 1 \in DOMAIN t /\ t[j + 1] = s[j]
            BY <2>1, <2>2, <2>3, <5>1, <5>3
          <6> QED
            BY <5>1, <6>1 DEF HasBit
        <5> QED
          BY <2>1, <5>2, <5>3
      <4> QED
        BY <3>2, <4>1, <4>2
    <3> QED
      BY <3>1, <3>2
  <2>7. \A j \in 1 .. new.at - 1 : t[j].index <= n.index
    <3>1. ASSUME NEW j \in 1 .. k PROVE t[j].index <= n.index
      BY <1>0, <1>2, <2>1, <2>2
    <3> QED
      BY <1>3, <2>1, <3>1
  <2> QED
    BY <1>1, <2>4, <2>5, <2>6, <2>7 DEF Canonical, Walks, new, s, t
<1>6. QED
  BY <1>4, <1>5

LEMMA OrRounds ==
  ASSUME NEW s \in Seq(Nodes), NEW r \in Seq(Nodes), NEW full \in BOOLEAN
  PROVE  \E after :
           /\ OrMerge(s, r, full) = after[Len(r)].elms
           /\ after[0] = [elms |-> s, at |-> 1]
           /\ \A j \in 1 .. Len(r) : after[j] = OrNode(after[j - 1], r[j], full)
<1> DEFINE start == [elms |-> s, at |-> 1]
           n == Len(r)
           Is(f) == f = [k \in 0 .. n |-> IF k = 0 THEN start ELSE OrNode(f[k - 1], r[k], full)]
           F == [k \in 1 .. n |-> [st \in Walks |-> OrNode(st, r[k], full)]]
<1>1. start \in Walks /\ n \in Nat
  BY DEF Walks
<1>2. F \in [1 .. n -> [Walks -> Walks]]
  BY OrNodeType
<1>3. PICK g \in [0 .. n -> Walks] : IsRun(g, n, start, F)
  <2> HIDE DEF start, n, F
  <2> QED
    BY <1>1, <1>2, Rounds
<1>4. Is(g)
  <2>1. ASSUME NEW k \in 0 .. n
        PROVE  g[k] = IF k = 0 THEN start ELSE OrNode(g[k - 1], r[k], full)
    <3>1. CASE k # 0
      <4>1. k \in 1 .. n /\ g[k - 1] \in Walks
        BY <3>1
      <4> HIDE DEF n, start
      <4> QED
        BY <1>3, <3>1, <4>1 DEF IsRun
    <3> QED
      BY <1>3, <3>1 DEF IsRun
  <2> HIDE DEF n, start
  <2> QED
    BY <2>1
<1> DEFINE after == CHOOSE f : Is(f)
<1>5. Is(after)
  <2> HIDE DEF Is
  <2> QED
    BY <1>4
<1>6. OrMerge(s, r, full) = after[n].elms
  BY DEF OrMerge, Loop
<1>7. after[0] = start /\ \A j \in 1 .. n : after[j] = OrNode(after[j - 1], r[j], full)
  <2> HIDE DEF after, n, start
  <2> QED
    BY <1>1, <1>5
<1>8. QED
  BY <1>6, <1>7

LEMMA OrMergeType ==
  ASSUME NEW s \in Seq(Nodes), NEW r \in Seq(Nodes), NEW full \in BOOLEAN
  PROVE  OrMerge(s, r, full) \in Seq(Nodes)
<1>1. PICK after :
        /\ OrMerge(s, r, full) = after[Len(r)].elms
        /\ after[0] = [elms |-> s, at |-> 1]
        /\ \A j \in 1 .. Len(r) : after[j] = OrNode(after[j - 1], r[j], full)
  BY OrRounds
<1> DEFINE T == {j \in 0 .. Len(r) : after[j] \in Walks}
<1>0. Len(r) \in Nat
  OBVIOUS
<1>2. 0 \in T
  BY <1>1 DEF Walks
<1>3. ASSUME NEW j \in 0 .. Len(r) - 1, j \in T PROVE j + 1 \in T
  <2>1. j + 1 \in 1 .. Len(r) /\ (j + 1) - 1 = j /\ r[j + 1] \in Nodes
    OBVIOUS
  <2>2. after[j + 1] = OrNode(after[j], r[j + 1], full)
    BY <1>1, <2>1
  <2> QED
    BY <1>3, <2>1, <2>2, OrNodeType
<1>4. Len(r) \in T
  <2>1. \A j \in 0 .. Len(r) - 1 : j \in T => j + 1 \in T
    BY <1>3
  <2> HIDE DEF T
  <2>2. 0 .. Len(r) \subseteq T
    BY <1>0, <1>2, <2>1, Upwards
  <2> QED
    BY <2>2
<1>5. QED
  BY <1>1, <1>4 DEF Walks

(* The union of two lists in order is in order and holds what both hold. *)
LEMMA OrMergeMeaning ==
  ASSUME NEW s, NEW r, Canonical(s), Canonical(r)
  PROVE  /\ Canonical(OrMerge(s, r, FALSE))
         /\ \A i, o : HasBit(OrMerge(s, r, FALSE), i, o) <=> HasBit(s, i, o) \/ HasBit(r, i, o)
<1>0. /\ s \in Seq(Nodes) /\ r \in Seq(Nodes) /\ Len(r) \in Nat /\ DOMAIN r = 1 .. Len(r)
      /\ \A k \in 1 .. Len(r) : r[k] \in Nodes /\ r[k].index \in Nat /\ r[k].bits # {}
      /\ \A j, k \in 1 .. Len(r) : j < k => r[j].index < r[k].index
  BY CanonicalFacts
<1>1. PICK after :
        /\ OrMerge(s, r, FALSE) = after[Len(r)].elms
        /\ after[0] = [elms |-> s, at |-> 1]
        /\ \A j \in 1 .. Len(r) : after[j] = OrNode(after[j - 1], r[j], FALSE)
  BY <1>0, OrRounds
<1> DEFINE Behind(st, j) == \A m \in j + 1 .. Len(r) : \A k \in 1 .. st.at - 1 : st.elms[k].index < r[m].index
           Both(st, j) == \A i, o : HasBit(st.elms, i, o) <=> HasBit(s, i, o) \/ HasBitTo(r, j, i, o)
           T == {j \in 0 .. Len(r) : /\ after[j] \in Walks /\ Canonical(after[j].elms)
                                     /\ Behind(after[j], j) /\ Both(after[j], j)}
<1>2. 0 \in T
  <2>1. after[0] \in Walks
    BY <1>0, <1>1 DEF Walks
  <2>2. Both(after[0], 0) /\ Behind(after[0], 0)
    BY <1>1 DEF HasBitTo
  <2> QED
    BY <1>0, <1>1, <2>1, <2>2
<1>3. ASSUME NEW j \in 0 .. Len(r) - 1, j \in T PROVE j + 1 \in T
  <2> DEFINE st == after[j]
             new == after[j + 1]
             n == r[j + 1]
  <2>1. j + 1 \in 1 .. Len(r) /\ (j + 1) - 1 = j /\ n \in Nodes /\ n.bits # {} /\ n.index \in Nat
    BY <1>0
  <2>2. new = OrNode(st, n, FALSE)
    BY <1>1, <2>1
  <2>3. st \in Walks /\ Canonical(st.elms) /\ \A k \in 1 .. st.at - 1 : st.elms[k].index < n.index
    BY <1>3, <2>1
  <2>4. Both(st, j)
    BY <1>3
  <2> HIDE DEF st, new, n
  <2>5. /\ new \in Walks /\ Canonical(new.elms)
        /\ \A i, o : HasBit(new.elms, i, o) <=> HasBit(st.elms, i, o) \/ (i = n.index /\ o \in n.bits)
        /\ \A k \in 1 .. new.at - 1 : new.elms[k].index <= n.index
    BY <2>1, <2>2, <2>3, OrNodeKeeps
  <2>6. \A i, o : HasBitTo(r, j + 1, i, o) <=> HasBitTo(r, j, i, o) \/ (i = n.index /\ o \in n.bits)
    <3>1. \A k \in 1 .. j + 1 : k \in 1 .. j \/ k = j + 1
      OBVIOUS
    <3> QED
      BY <2>1, <3>1 DEF HasBitTo, n
  <2>7. Both(new, j + 1)
    BY <2>4, <2>5, <2>6
  <2>8. Behind(new, j + 1)
    <3> SUFFICES ASSUME NEW m \in j + 2 .. Len(r), NEW k \in 1 .. new.at - 1
                 PROVE  new.elms[k].index < r[m].index
      OBVIOUS
    <3>1. n.index < r[m].index /\ r[m].index \in Nat
      BY <1>0, <2>1 DEF n
    <3>2. new.elms[k].index <= n.index /\ new.elms[k].index \in Nat
      <4>1. new.elms \in Seq(Nodes) /\ k \in 1 .. Len(new.elms)
        BY <2>5 DEF Walks
      <4> QED
        BY <2>5, <4>1, ListFacts
    <3> QED
      BY <2>1, <3>1, <3>2
  <2> QED
    BY <2>1, <2>5, <2>7, <2>8 DEF new
<1>4. Len(r) \in T
  <2>1. \A j \in 0 .. Len(r) - 1 : j \in T => j + 1 \in T
    BY <1>3
  <2> HIDE DEF T
  <2>2. 0 .. Len(r) \subseteq T
    BY <1>0, <1>2, <2>1, Upwards
  <2> QED
    BY <1>0, <2>2
<1>5. \A i, o : HasBitTo(r, Len(r), i, o) <=> HasBit(r, i, o)
  BY <1>0 DEF HasBit, HasBitTo
<1>6. QED
  BY <1>1, <1>4, <1>5

----------------------------------------------------------------------------
(* The meet takes the left list node by node; r is the right one. *)
MeetWalks(r) == [elms : Seq(Nodes), at : 1 .. Len(r) + 1]

LEMMA AndNodeIs ==
  ASSUME NEW r \in Seq(Nodes), NEW st \in MeetWalks(r), NEW n \in Nodes
  PROVE  LET k == FirstFrom(r, st.at, n.index)
             new == AndNode(st, n, r) IN
         /\ k \in st.at .. Len(r) + 1
         /\ k > Len(r) \/ r[k].index >= n.index
         /\ \A j \in st.at .. k - 1 : r[j].index < n.index
         /\ new.at \in {k, k + 1} /\ new.at \in 1 .. Len(r) + 1
         /\ new.at = k + 1 => r[k].index = n.index
         /\ k > Len(r) => new.elms = st.elms \o <<n>>
         /\ k <= Len(r) /\ r[k].index # n.index => new.elms = st.elms
         /\ k <= Len(r) /\ r[k].index = n.index =>
              new.elms = IF n.bits \cap r[k].bits = {} THEN st.elms ELSE st.elms \o <<NodeAnd(n, r[k])>>
<1> DEFINE k == FirstFrom(r, st.at, n.index)
<1>0. st.elms \in Seq(Nodes) /\ st.at \in 1 .. Len(r) + 1 /\ n.index \in Nat /\ Len(r) \in Nat
  BY DEF MeetWalks, Nodes
<1>1. /\ k \in st.at .. Len(r) + 1
      /\ k > Len(r) \/ r[k].index >= n.index
      /\ \A j \in st.at .. k - 1 : r[j].index < n.index
  BY <1>0, FirstPlace
<1> DEFINE new == AndNode(st, n, r)
<1> DEFINE piece == IF k > Len(r) THEN <<n>>
                    ELSE IF IsAt(r, k, n.index) THEN KeepUnlessNone(NodeAnd(n, r[k])) ELSE <<>>
<1>2. /\ new.elms = st.elms \o piece
      /\ new.at = IF IsAt(r, k, n.index) THEN k + 1 ELSE k
  BY DEF AndNode
<1>3. st.elms \o <<>> = st.elms
  BY <1>0
<1>4. NodeAnd(n, r[k]).bits = n.bits \cap r[k].bits
  BY DEF NodeAnd, Nodes
<1> HIDE DEF k, new
<1>5. /\ new.at \in {k, k + 1} /\ new.at \in 1 .. Len(r) + 1
      /\ new.at = k + 1 => r[k].index = n.index
  BY <1>0, <1>1, <1>2 DEF IsAt
<1>6. k > Len(r) => new.elms = st.elms \o <<n>>
  BY <1>2
<1>7. ASSUME k <= Len(r), r[k].index # n.index PROVE new.elms = st.elms
  <2>1. piece = <<>>
    BY <1>0, <1>1, <1>7 DEF IsAt
  <2> HIDE DEF piece
  <2> QED
    BY <1>2, <1>3, <2>1
<1>8. ASSUME k <= Len(r), r[k].index = n.index
      PROVE  new.elms = IF n.bits \cap r[k].bits = {} THEN st.elms ELSE st.elms \o <<NodeAnd(n, r[k])>>
  <2>1. piece = IF n.bits \cap r[k].bits = {} THEN <<>> ELSE <<NodeAnd(n, r[k])>>
    BY <1>0, <1>1, <1>4, <1>8 DEF IsAt, KeepUnlessNone
  <2> HIDE DEF piece
  <2> QED
    BY <1>2, <1>3, <2>1
<1>9. QED
  BY <1>1, <1>5, <1>6, <1>7, <1>8 DEF k, new

LEMMA AndNodeType ==
  ASSUME NEW r \in Seq(Nodes), NEW st \in MeetWalks(r), NEW n \in Nodes
  PROVE  AndNode(st, n, r) \in MeetWalks(r)
<1> DEFINE new == AndNode(st, n, r)
           m == FirstFrom(r, st.at, n.index)
<1>1. /\ m \in st.at .. Len(r) + 1 /\ new.at \in 1 .. Len(r) + 1
      /\ m > Len(r) => new.elms = st.elms \o <<n>>
      /\ m <= Len(r) /\ r[m].index # n.index => new.elms = st.elms
      /\ m <= Len(r) /\ r[m].index = n.index =>
           new.elms = st.elms \/ new.elms = st.elms \o <<NodeAnd(n, r[m])>>
  BY AndNodeIs
<1>2. st.elms \in Seq(Nodes) /\ st.at \in 1 .. Len(r) + 1 /\ Len(r) \in Nat
  BY DEF MeetWalks
<1>3. new = [elms |-> new.elms, at |-> new.at]
  BY DEF AndNode
<1> HIDE DEF new, m
<1>4. m \in 1 .. Len(r) \/ m > Len(r)
  BY <1>1, <1>2
<1>5. m \in 1 .. Len(r) => NodeAnd(n, r[m]) \in Nodes
  BY NodeOps, ListFacts
<1>6. \A p \in Nodes : st.elms \o <<p>> \in Seq(Nodes)
  BY <1>2
<1>7. new.elms \in Seq(Nodes)
  <2>1. CASE m > Len(r)
    BY <1>1, <1>6, <2>1
  <2>2. CASE m \in 1 .. Len(r) /\ r[m].index # n.index
    BY <1>1, <1>2, <2>2
  <2>3. CASE m \in 1 .. Len(r) /\ r[m].index = n.index
    <3>1. new.elms = st.elms \/ new.elms = st.elms \o <<NodeAnd(n, r[m])>>
      BY <1>1, <1>2, <2>3
    <3> QED
      BY <1>2, <1>5, <1>6, <2>3, <3>1
  <2> QED
    BY <1>4, <2>1, <2>2, <2>3
<1>8. QED
  BY <1>1, <1>3, <1>7 DEF MeetWalks, new

(* A node put behind a list *)
LEMMA AppendKeeps ==
  ASSUME NEW s, Canonical(s), NEW n \in Nodes, n.bits # {},
         \A k \in 1 .. Len(s) : s[k].index < n.index
  PROVE  LET t == s \o <<n>> IN
         /\ Canonical(t)
         /\ \A i, o : HasBit(t, i, o) <=> HasBit(s, i, o) \/ (i = n.index /\ o \in n.bits)
         /\ \A k \in 1 .. Len(t) : t[k].index <= n.index
<1> DEFINE t == s \o <<n>>
<1>0. /\ s \in Seq(Nodes) /\ Len(s) \in Nat /\ DOMAIN s = 1 .. Len(s)
      /\ \A k \in 1 .. Len(s) : s[k] \in Nodes /\ s[k].index \in Nat /\ s[k].bits # {}
      /\ \A j, k \in 1 .. Len(s) : j < k => s[j].index < s[k].index
  BY CanonicalFacts
<1>1. /\ t \in Seq(Nodes) /\ Len(t) = Len(s) + 1 /\ DOMAIN t = 1 .. Len(s) + 1
      /\ \A k \in 1 .. Len(s) : t[k] = s[k]
      /\ t[Len(s) + 1] = n
  BY <1>0
<1>2. n.index \in Nat
  BY DEF Nodes
<1> HIDE DEF t
<1>3. \A k \in 1 .. Len(s) + 1 : k \in 1 .. Len(s) \/ k = Len(s) + 1
  BY <1>0
<1>4. Sorted(t)
  BY <1>0, <1>1, <1>2, <1>3 DEF Sorted
<1>5. NoneEmpty(t)
  BY <1>0, <1>1, <1>3 DEF NoneEmpty
<1>6. \A i, o : HasBit(t, i, o) <=> HasBit(s, i, o) \/ (i = n.index /\ o \in n.bits)
  BY <1>0, <1>1, <1>3 DEF HasBit
<1>7. \A k \in 1 .. Len(t) : t[k].index <= n.index
  BY <1>0, <1>1, <1>2, <1>3
<1>8. QED
  BY <1>1, <1>4, <1>5, <1>6, <1>7 DEF Canonical, t

LEMMA AndNodeKeeps ==
  ASSUME NEW r \in Seq(Nodes), NEW st \in MeetWalks(r), Canonical(st.elms),
         NEW n \in Nodes, n.bits # {},
         \A k \in 1 .. Len(st.elms) : st.elms[k].index < n.index
  PROVE  LET new == AndNode(st, n, r) IN
         /\ new \in MeetWalks(r) /\ Canonical(new.elms)
         /\ \A k \in 1 .. Len(new.elms) : new.elms[k].index <= n.index
         /\ \A i, o : HasBit(st.elms, i, o) => HasBit(new.elms, i, o)
         /\ \A i, o : HasBit(new.elms, i, o) =>
              \/ HasBit(st.elms, i, o)
              \/ /\ i = n.index /\ o \in n.bits
                 /\ HasBit(r, i, o) \/ \A k \in st.at .. Len(r) : r[k].index < n.index
         /\ st.at > Len(r) => new.at > Len(r) /\ \A o \in n.bits : HasBit(new.elms, n.index, o)
<1> DEFINE k == FirstFrom(r, st.at, n.index)
           new == AndNode(st, n, r)
           s == st.elms
<1>0. /\ s \in Seq(Nodes) /\ Len(s) \in Nat /\ st.at \in 1 .. Len(r) + 1 /\ n.index \in Nat /\ Len(r) \in Nat
      /\ DOMAIN r = 1 .. Len(r)
  BY DEF MeetWalks, Nodes
<1>1. /\ k \in st.at .. Len(r) + 1
      /\ k > Len(r) \/ r[k].index >= n.index
      /\ \A j \in st.at .. k - 1 : r[j].index < n.index
      /\ new.at \in {k, k + 1} /\ new.at \in 1 .. Len(r) + 1
      /\ k > Len(r) => new.elms = s \o <<n>>
      /\ k <= Len(r) /\ r[k].index # n.index => new.elms = s
      /\ k <= Len(r) /\ r[k].index = n.index =>
           new.elms = IF n.bits \cap r[k].bits = {} THEN s ELSE s \o <<NodeAnd(n, r[k])>>
  BY AndNodeIs
<1>2. new = [elms |-> new.elms, at |-> new.at]
  BY DEF AndNode
<1> HIDE DEF k, new
<1>3. new.elms \in Seq(Nodes) => new \in MeetWalks(r)
  BY <1>1, <1>2 DEF MeetWalks
<1>4. CASE new.elms = s
  <2>1. k <= Len(r)
    <3>1. s # s \o <<n>>
      <4>1. Len(s \o <<n>>) = Len(s) + 1
        BY <1>0
      <4> QED
        BY <1>0, <4>1
    <3> QED
      BY <1>0, <1>1, <1>4, <3>1
  <2>2. \A j \in 1 .. Len(s) : s[j].index <= n.index
    BY <1>0, ListFacts
  <2> QED
    BY <1>0, <1>1, <1>3, <1>4, <2>1, <2>2 DEF new
<1>5. CASE k > Len(r)
  <2>0. new.elms = s \o <<n>>
    BY <1>1, <1>5
  <2>1. /\ Canonical(new.elms)
        /\ \A i, o : HasBit(new.elms, i, o) <=> HasBit(s, i, o) \/ (i = n.index /\ o \in n.bits)
        /\ \A j \in 1 .. Len(new.elms) : new.elms[j].index <= n.index
    BY <2>0, AppendKeeps
  <2>2. new.elms \in Seq(Nodes)
    BY <2>1 DEF Canonical
  <2>3. new.at > Len(r) /\ \A j \in st.at .. Len(r) : r[j].index < n.index
    BY <1>0, <1>1, <1>5
  <2> QED
    BY <1>3, <2>1, <2>2, <2>3 DEF new
<1>6. CASE k <= Len(r) /\ r[k].index = n.index /\ n.bits \cap r[k].bits # {}
  <2> DEFINE m == NodeAnd(n, r[k])
  <2>1. r[k] \in Nodes /\ k \in 1 .. Len(r)
    BY <1>0, <1>1, <1>6, ListFacts
  <2>2. m \in Nodes /\ m.index = n.index /\ m.bits = n.bits \cap r[k].bits
    BY <2>1 DEF NodeAnd, Nodes
  <2>3. new.elms = s \o <<m>>
    BY <1>1, <1>6
  <2> HIDE DEF m
  <2>4. /\ Canonical(new.elms)
        /\ \A i, o : HasBit(new.elms, i, o) <=> HasBit(s, i, o) \/ (i = m.index /\ o \in m.bits)
        /\ \A j \in 1 .. Len(new.elms) : new.elms[j].index <= m.index
    BY SMTT(20), <1>6, <2>2, <2>3, AppendKeeps
  <2>5. \A o \in m.bits : HasBit(r, n.index, o)
    BY <1>0, <1>6, <2>1, <2>2 DEF HasBit
  <2>6. new.elms \in Seq(Nodes)
    BY <2>4 DEF Canonical
  <2>7. ~(st.at > Len(r))
    BY <1>0, <1>1, <1>6
  <2>8. \A i, o : HasBit(new.elms, i, o) => HasBit(s, i, o) \/ (i = n.index /\ o \in n.bits /\ HasBit(r, i, o))
    BY <2>2, <2>4, <2>5
  <2>9. \A j \in 1 .. Len(new.elms) : new.elms[j].index <= n.index
    BY <2>2, <2>4
  <2> QED
    BY <1>3, <2>4, <2>6, <2>7, <2>8, <2>9 DEF new
<1>7. QED
  BY <1>0, <1>1, <1>4, <1>5, <1>6

(* Where the right side is in order too, nothing both have is lost. *)
LEMMA AndNodeMeets ==
  ASSUME NEW r, Canonical(r), NEW st \in MeetWalks(r), Canonical(st.elms),
         NEW n \in Nodes,
         \A k \in 1 .. Len(st.elms) : st.elms[k].index < n.index,
         \A k \in 1 .. st.at - 1 : r[k].index < n.index
  PROVE  LET new == AndNode(st, n, r) IN
         /\ \A o \in n.bits : HasBit(r, n.index, o) => HasBit(new.elms, n.index, o)
         /\ \A k \in 1 .. new.at - 1 : r[k].index <= n.index
<1> DEFINE k == FirstFrom(r, st.at, n.index)
           new == AndNode(st, n, r)
           s == st.elms
<1>0. /\ r \in Seq(Nodes) /\ Len(r) \in Nat /\ DOMAIN r = 1 .. Len(r)
      /\ \A j \in 1 .. Len(r) : r[j] \in Nodes /\ r[j].index \in Nat
      /\ \A i, j \in 1 .. Len(r) : i < j => r[i].index < r[j].index
      /\ st.at \in 1 .. Len(r) + 1 /\ n.index \in Nat
  BY CanonicalFacts DEF MeetWalks, Nodes
<1>1. /\ k \in st.at .. Len(r) + 1
      /\ k > Len(r) \/ r[k].index >= n.index
      /\ \A j \in st.at .. k - 1 : r[j].index < n.index
      /\ new.at \in {k, k + 1} /\ new.at \in 1 .. Len(r) + 1
      /\ new.at = k + 1 => r[k].index = n.index
      /\ k <= Len(r) /\ r[k].index = n.index =>
           new.elms = IF n.bits \cap r[k].bits = {} THEN s ELSE s \o <<NodeAnd(n, r[k])>>
  BY <1>0, AndNodeIs
<1> HIDE DEF k, new
<1>2. \A j \in 1 .. k - 1 : r[j].index < n.index
  BY <1>0, <1>1
<1>3. ASSUME NEW o \in n.bits, HasBit(r, n.index, o) PROVE HasBit(new.elms, n.index, o)
  <2>1. PICK m \in 1 .. Len(r) : r[m].index = n.index /\ o \in r[m].bits
    BY <1>0, <1>3 DEF HasBit
  <2>2. k = m
    <3>1. ~(m < k)
      BY <1>0, <1>1, <1>2, <2>1
    <3>2. ~(k < m)
      <4>1. SUFFICES ASSUME k < m PROVE FALSE
        OBVIOUS
      <4>2. k \in 1 .. Len(r) /\ r[k].index < r[m].index /\ r[k].index \in Nat
        BY <1>0, <1>1, <2>1, <4>1
      <4> QED
        BY <1>0, <1>1, <2>1, <4>2
    <3> QED
      BY <1>0, <1>1, <2>1, <3>1, <3>2
  <2> DEFINE p == NodeAnd(n, r[k])
  <2>3. p \in Nodes /\ p.index = n.index /\ o \in p.bits /\ p.bits # {}
    BY <1>0, <2>1, <2>2 DEF NodeAnd, Nodes
  <2>4. new.elms = s \o <<p>>
    <3>1. k <= Len(r) /\ r[k].index = n.index /\ n.bits \cap r[k].bits # {}
      BY <1>0, <2>1, <2>2
    <3> QED
      BY <1>1, <3>1
  <2>5. \A j \in 1 .. Len(s) : s[j].index < p.index
    BY <2>3
  <2> HIDE DEF p
  <2>6. HasBit(s \o <<p>>, n.index, o)
    BY <2>3, <2>5, AppendKeeps
  <2> QED
    BY <2>4, <2>6
<1>4. \A j \in 1 .. new.at - 1 : r[j].index <= n.index
  BY <1>0, <1>1, <1>2
<1>5. QED
  BY <1>3, <1>4 DEF new

LEMMA AndRounds ==
  ASSUME NEW s, Canonical(s), NEW r \in Seq(Nodes)
  PROVE  \E after :
           /\ AndMerge(s, r) = after[Len(s)].elms
           /\ after[0] = [elms |-> <<>>, at |-> 1]
           /\ \A j \in 1 .. Len(s) : after[j] = AndNode(after[j - 1], s[j], r)
<1> DEFINE start == [elms |-> <<>>, at |-> 1]
           n == Len(s)
           S == MeetWalks(r)
           Is(f) == f = [k \in 0 .. n |-> IF k = 0 THEN start ELSE AndNode(f[k - 1], s[k], r)]
           F == [k \in 1 .. n |-> [st \in S |-> AndNode(st, s[k], r)]]
<1>0. n \in Nat /\ \A k \in 1 .. n : s[k] \in Nodes
  BY CanonicalFacts
<1>1. start \in S
  BY DEF MeetWalks
<1>2. F \in [1 .. n -> [S -> S]]
  <2> SUFFICES ASSUME NEW k \in 1 .. n, NEW st \in S PROVE AndNode(st, s[k], r) \in S
    OBVIOUS
  <2> QED
    BY <1>0, AndNodeType
<1>3. PICK g \in [0 .. n -> S] : IsRun(g, n, start, F)
  <2> HIDE DEF start, n, F, S
  <2> QED
    BY <1>0, <1>1, <1>2, Rounds
<1>4. Is(g)
  <2>1. ASSUME NEW k \in 0 .. n
        PROVE  g[k] = IF k = 0 THEN start ELSE AndNode(g[k - 1], s[k], r)
    <3>1. CASE k # 0
      <4>1. k \in 1 .. n /\ g[k - 1] \in S
        BY <1>0, <3>1
      <4> HIDE DEF n, start, S
      <4> QED
        BY <1>3, <3>1, <4>1 DEF IsRun
    <3> QED
      BY <1>3, <3>1 DEF IsRun
  <2> HIDE DEF n, start
  <2> QED
    BY <2>1
<1> DEFINE after == CHOOSE f : Is(f)
<1>5. Is(after)
  <2> HIDE DEF Is
  <2> QED
    BY <1>4
<1>6. AndMerge(s, r) = after[n].elms
  BY DEF AndMerge, Loop
<1>7. after[0] = start /\ \A j \in 1 .. n : after[j] = AndNode(after[j - 1], s[j], r)
  <2> HIDE DEF after, n, start
  <2> QED
    BY <1>0, <1>5
<1>8. QED
  BY <1>6, <1>7

(* The meet of a list in order is in order and holds nothing new; against  *)
(* an empty list it loses nothing, against one in order nothing both have; *)
(* and it drops all the other lacks where the other reaches as far.        *)
LEMMA AndMergeMeaning ==
  ASSUME NEW s, Canonical(s), NEW r \in Seq(Nodes)
  PROVE  LET m == AndMerge(s, r) IN
         /\ Canonical(m)
         /\ \A i, o : HasBit(m, i, o) => HasBit(s, i, o)
         /\ Len(r) = 0 => \A i, o : HasBit(s, i, o) => HasBit(m, i, o)
         /\ Canonical(r) => \A i, o : HasBit(s, i, o) /\ HasBit(r, i, o) => HasBit(m, i, o)
         /\ Canonical(r) /\ (Len(s) > 0 => Len(r) > 0 /\ s[Len(s)].index <= r[Len(r)].index) =>
              \A i, o : HasBit(m, i, o) => HasBit(r, i, o)
<1>0. /\ s \in Seq(Nodes) /\ Len(s) \in Nat /\ DOMAIN s = 1 .. Len(s)
      /\ \A k \in 1 .. Len(s) : s[k] \in Nodes /\ s[k].index \in Nat /\ s[k].bits # {}
      /\ \A j, k \in 1 .. Len(s) : j < k => s[j].index < s[k].index
      /\ Len(r) \in Nat /\ DOMAIN r = 1 .. Len(r) /\ \A k \in 1 .. Len(r) : r[k].index \in Nat
  BY CanonicalFacts, ListFacts
<1>1. PICK after :
        /\ AndMerge(s, r) = after[Len(s)].elms
        /\ after[0] = [elms |-> <<>>, at |-> 1]
        /\ \A j \in 1 .. Len(s) : after[j] = AndNode(after[j - 1], s[j], r)
  BY AndRounds
<1> DEFINE Reaches == Canonical(r) /\ (Len(s) > 0 => Len(r) > 0 /\ s[Len(s)].index <= r[Len(r)].index)
           Before(st, j) == \A m \in j + 1 .. Len(s) : \A k \in 1 .. Len(st.elms) : st.elms[k].index < s[m].index
           Within(st, j) == \A i, o : HasBit(st.elms, i, o) => HasBitTo(s, j, i, o)
           Whole(st, j) == Len(r) = 0 => \A i, o : HasBitTo(s, j, i, o) => HasBit(st.elms, i, o)
           Both(st, j) == \A i, o : HasBitTo(s, j, i, o) /\ HasBit(r, i, o) => HasBit(st.elms, i, o)
           Passed(st, j) == \A m \in j + 1 .. Len(s) : \A k \in 1 .. st.at - 1 : r[k].index < s[m].index
           Only(st) == Reaches => \A i, o : HasBit(st.elms, i, o) => HasBit(r, i, o)
           T == {j \in 0 .. Len(s) : /\ after[j] \in MeetWalks(r) /\ Canonical(after[j].elms)
                                     /\ Before(after[j], j) /\ Within(after[j], j) /\ Whole(after[j], j)
                                     /\ (Canonical(r) => Both(after[j], j) /\ Passed(after[j], j))
                                     /\ Only(after[j])}
<1>2. 0 \in T
  <2>1. after[0] \in MeetWalks(r)
    BY <1>0, <1>1 DEF MeetWalks
  <2>2. Canonical(<<>>) /\ \A i, o : ~HasBit(<<>>, i, o)
    BY DEF Canonical, Sorted, NoneEmpty, HasBit
  <2>3. after[0].elms = <<>> /\ after[0].at = 1
    BY <1>1
  <2>4. \A i, o : ~HasBitTo(s, 0, i, o)
    BY DEF HasBitTo
  <2> QED
    BY <1>0, <2>1, <2>2, <2>3, <2>4
<1>3. ASSUME NEW j \in 0 .. Len(s) - 1, j \in T PROVE j + 1 \in T
  <2> DEFINE st == after[j]
             new == after[j + 1]
             n == s[j + 1]
  <2>1. j + 1 \in 1 .. Len(s) /\ (j + 1) - 1 = j /\ n \in Nodes /\ n.bits # {} /\ n.index \in Nat
    BY <1>0
  <2>2. new = AndNode(st, n, r)
    BY <1>1, <2>1
  <2>3. /\ st \in MeetWalks(r) /\ Canonical(st.elms)
        /\ \A k \in 1 .. Len(st.elms) : st.elms[k].index < n.index
        /\ Canonical(r) => \A k \in 1 .. st.at - 1 : r[k].index < n.index
    BY <1>3, <2>1
  <2>4. Within(st, j) /\ Whole(st, j) /\ (Canonical(r) => Both(st, j)) /\ Only(st)
    BY <1>3
  <2>5. \A m \in j + 2 .. Len(s) : n.index < s[m].index /\ s[m].index \in Nat
    BY <1>0, <2>1
  <2>6. \A i, o : HasBitTo(s, j + 1, i, o) <=> HasBitTo(s, j, i, o) \/ (i = n.index /\ o \in n.bits)
    <3>1. \A k \in 1 .. j + 1 : k \in 1 .. j \/ k = j + 1
      OBVIOUS
    <3> QED
      BY <2>1, <3>1 DEF HasBitTo
  <2>7. n.index <= s[Len(s)].index
    BY <1>0, <2>1
  <2> HIDE DEF st, new, n
  <2>8. /\ new \in MeetWalks(r) /\ Canonical(new.elms)
        /\ \A k \in 1 .. Len(new.elms) : new.elms[k].index <= n.index
        /\ \A i, o : HasBit(st.elms, i, o) => HasBit(new.elms, i, o)
        /\ \A i, o : HasBit(new.elms, i, o) =>
             \/ HasBit(st.elms, i, o)
             \/ /\ i = n.index /\ o \in n.bits
                /\ HasBit(r, i, o) \/ \A k \in st.at .. Len(r) : r[k].index < n.index
        /\ st.at > Len(r) => new.at > Len(r) /\ \A o \in n.bits : HasBit(new.elms, n.index, o)
    BY <2>1, <2>2, <2>3, AndNodeKeeps
  <2>9. new.at \in 1 .. Len(r) + 1 /\ st.at \in 1 .. Len(r) + 1 /\ new.elms \in Seq(Nodes)
    BY <2>3, <2>8 DEF MeetWalks
  <2>10. Canonical(r) =>
           /\ \A o \in n.bits : HasBit(r, n.index, o) => HasBit(new.elms, n.index, o)
           /\ \A k \in 1 .. new.at - 1 : r[k].index <= n.index
    BY <2>1, <2>2, <2>3, AndNodeMeets
  <2>11. Before(new, j + 1)
    <3> SUFFICES ASSUME NEW m \in j + 2 .. Len(s), NEW k \in 1 .. Len(new.elms)
                 PROVE  new.elms[k].index < s[m].index
      OBVIOUS
    <3>1. new.elms[k].index <= n.index /\ new.elms[k].index \in Nat
      BY <2>8, <2>9, ListFacts
    <3> QED
      BY <2>1, <2>5, <3>1
  <2>12. Within(new, j + 1)
    BY <2>4, <2>6, <2>8
  <2>13. Whole(new, j + 1)
    BY <1>0, <2>4, <2>6, <2>8, <2>9
  <2>14. ASSUME Canonical(r) PROVE Both(new, j + 1) /\ Passed(new, j + 1)
    <3>1. Both(new, j + 1)
      BY <2>4, <2>6, <2>8, <2>10, <2>14
    <3>2. Passed(new, j + 1)
      <4> SUFFICES ASSUME NEW m \in j + 2 .. Len(s), NEW k \in 1 .. new.at - 1
                   PROVE  r[k].index < s[m].index
        OBVIOUS
      <4>1. k \in 1 .. Len(r) /\ r[k].index <= n.index /\ r[k].index \in Nat
        BY <1>0, <2>9, <2>10, <2>14
      <4> QED
        BY <2>1, <2>5, <4>1
    <3> QED
      BY <3>1, <3>2
  <2>15. Only(new)
    <3> SUFFICES ASSUME Reaches, NEW i, NEW o, HasBit(new.elms, i, o), ~HasBit(r, i, o) PROVE FALSE
      OBVIOUS
    <3>1. ~HasBit(st.elms, i, o)
      BY <2>4
    <3>2. \A k \in st.at .. Len(r) : r[k].index < n.index
      BY <2>8, <3>1
    <3>3. Len(r) \in 1 .. Len(r) /\ s[Len(s)].index <= r[Len(r)].index /\ r[Len(r)].index \in Nat
          /\ s[Len(s)].index \in Nat
      BY <1>0, <2>1
    <3>4. \A k \in 1 .. st.at - 1 : r[k].index < n.index
      BY <2>3
    <3>5. r[Len(r)].index < n.index
      BY <1>0, <2>9, <3>2, <3>3, <3>4
    <3> QED
      BY SMTT(20), <2>1, <2>7, <3>3, <3>5
  <2> QED
    BY <2>1, <2>8, <2>11, <2>12, <2>13, <2>14, <2>15 DEF new
<1>4. Len(s) \in T
  <2>1. \A j \in 0 .. Len(s) - 1 : j \in T => j + 1 \in T
    BY <1>3
  <2> HIDE DEF T
  <2>2. 0 .. Len(s) \subseteq T
    BY <1>0, <1>2, <2>1, Upwards
  <2> QED
    BY <1>0, <2>2
<1>5. \A i, o : HasBitTo(s, Len(s), i, o) <=> HasBit(s, i, o)
  BY <1>0 DEF HasBit, HasBitTo
<1>6. QED
  BY <1>1, <1>4, <1>5

LEMMA AndFullNodeType ==
  ASSUME NEW st \in Walks, NEW n \in Nodes
  PROVE  AndFullNode(st, n) \in Walks
<1> DEFINE k == FirstFrom(st.elms, st.at, n.index)
           new == AndFullNode(st, n)
<1>0. st.elms \in Seq(Nodes) /\ st.at \in 1 .. Len(st.elms) + 1 /\ n.index \in Nat /\ Len(st.elms) \in Nat
  BY DEF Walks, Nodes
<1>1. k \in st.at .. Len(st.elms) + 1
  BY <1>0, FirstPlace
<1>2. new = [elms |-> IF IsAt(st.elms, k, n.index) THEN [st.elms EXCEPT ![k] = NodeAnd(@, n)] ELSE Append(st.elms, n),
             at |-> IF IsAt(st.elms, k, n.index) \/ k > Len(st.elms) THEN k + 1 ELSE k]
  BY DEF AndFullNode
<1> HIDE DEF k, new
<1>3. CASE IsAt(st.elms, k, n.index)
  <2>1. [st.elms EXCEPT ![k] = NodeAnd(@, n)] \in Seq(Nodes)
        /\ Len([st.elms EXCEPT ![k] = NodeAnd(@, n)]) = Len(st.elms) /\ k <= Len(st.elms)
    BY <1>0, <1>1, <1>3, NodeOps DEF IsAt
  <2> QED
    BY <1>0, <1>1, <1>2, <1>3, <2>1 DEF new, Walks
<1>4. CASE ~IsAt(st.elms, k, n.index)
  <2>1. Append(st.elms, n) \in Seq(Nodes) /\ Len(Append(st.elms, n)) = Len(st.elms) + 1
    BY <1>0
  <2> QED
    BY <1>0, <1>1, <1>2, <1>4, <2>1 DEF new, Walks
<1>5. QED
  BY <1>3, <1>4

LEMMA AndFullType ==
  ASSUME NEW s \in Seq(Nodes), NEW r \in Seq(Nodes)
  PROVE  AndMergeFull(s, r) \in Seq(Nodes)
<1> DEFINE start == [elms |-> s, at |-> 1]
           n == Len(r)
           Is(f) == f = [k \in 0 .. n |-> IF k = 0 THEN start ELSE AndFullNode(f[k - 1], r[k])]
           F == [k \in 1 .. n |-> [st \in Walks |-> AndFullNode(st, r[k])]]
<1>1. start \in Walks /\ n \in Nat
  BY DEF Walks
<1>2. F \in [1 .. n -> [Walks -> Walks]]
  BY AndFullNodeType
<1>3. PICK g \in [0 .. n -> Walks] : IsRun(g, n, start, F)
  <2> HIDE DEF start, n, F
  <2> QED
    BY <1>1, <1>2, Rounds
<1>4. Is(g)
  <2>1. ASSUME NEW k \in 0 .. n
        PROVE  g[k] = IF k = 0 THEN start ELSE AndFullNode(g[k - 1], r[k])
    <3>1. CASE k # 0
      <4>1. k \in 1 .. n /\ g[k - 1] \in Walks
        BY <3>1
      <4> HIDE DEF n, start
      <4> QED
        BY <1>3, <3>1, <4>1 DEF IsRun
    <3> QED
      BY <1>3, <3>1 DEF IsRun
  <2> HIDE DEF n, start
  <2> QED
    BY <2>1
<1> DEFINE after == CHOOSE f : Is(f)
           T == {j \in 0 .. n : after[j] \in Walks}
<1>5. Is(after)
  <2> HIDE DEF Is
  <2> QED
    BY <1>4
<1>6. AndMergeFull(s, r) = after[n].elms
  BY DEF AndMergeFull, Loop
<1>7. after[0] = start /\ \A j \in 1 .. n : after[j] = AndFullNode(after[j - 1], r[j])
  <2> HIDE DEF after, n, start
  <2> QED
    BY <1>1, <1>5
<1> HIDE DEF after
<1>8. 0 \in T
  BY <1>1, <1>7
<1>9. ASSUME NEW j \in 0 .. n - 1, j \in T PROVE j + 1 \in T
  <2>1. j + 1 \in 1 .. n /\ (j + 1) - 1 = j /\ r[j + 1] \in Nodes
    OBVIOUS
  <2>2. after[j + 1] = AndFullNode(after[j], r[j + 1])
    BY <1>7, <2>1
  <2> QED
    BY <1>9, <2>1, <2>2, AndFullNodeType
<1>10. n \in T
  <2>1. \A j \in 0 .. n - 1 : j \in T => j + 1 \in T
    BY <1>9
  <2> HIDE DEF T, n
  <2>2. 0 .. n \subseteq T
    BY <1>1, <1>8, <2>1, Upwards
  <2> QED
    BY <1>1, <2>2
<1>11. QED
  BY <1>6, <1>10 DEF Walks

----------------------------------------------------------------------------
(* A member is an index and an offset. *)
LEMMA MemberParts ==
  ASSUME NEW e \in Members
  PROVE  IdxOf(e) \in Nat /\ OffsOf(e) \in AllBits /\ e = IdxOf(e) * Width + OffsOf(e)
  BY SparseSetsAssumption DEF IdxOf, OffsOf, AllBits

LEMMA PartsMember ==
  ASSUME NEW i \in Nat, NEW o \in AllBits
  PROVE  i * Width + o \in Nat /\ IdxOf(i * Width + o) = i /\ OffsOf(i * Width + o) = o
<1> DEFINE e == i * Width + o
           q == e \div Width
           m == e % Width
<1>1. Width \in Nat \ {0} /\ o \in 0 .. Width - 1
  BY SparseSetsAssumption DEF AllBits
<1>2. e \in Nat
  BY <1>1
<1>3. q \in Nat /\ m \in 0 .. Width - 1 /\ e = Width * q + m
  BY <1>1, <1>2
<1>4. i * Width = Width * i
  BY <1>1
<1> HIDE DEF q, m
<1>5. Width * (i - q) = m - o
  BY <1>1, <1>3, <1>4
<1>6. i = q
  <2>1. CASE i - q >= 1
    BY <1>1, <1>3, <1>5, <2>1
  <2>2. CASE q - i >= 1
    BY <1>1, <1>3, <1>5, <2>2
  <2> QED
    BY <1>3, <2>1, <2>2
<1>7. m = o
  BY <1>1, <1>3, <1>5, <1>6
<1>8. QED
  BY <1>2, <1>6, <1>7 DEF IdxOf, OffsOf, q, m

LEMMA ClosestPlace ==
  ASSUME NEW s \in Seq(Nodes), NEW idx \in Nat
  PROVE  LET k == FindClosest(s, idx) IN
         /\ k \in 1 .. Len(s) + 1
         /\ k > Len(s) \/ s[k].index >= idx
         /\ \A j \in 1 .. k - 1 : s[j].index < idx
<1>1. 1 \in 1 .. Len(s) + 1
  OBVIOUS
<1>2. QED
  BY <1>1, FirstPlace DEF FindClosest

(* Whether a member is in a list in order *)
LEMMA TestHas ==
  ASSUME NEW b, Canonical(b.elms), NEW e \in Members
  PROVE  Test(b, e) <=> HasBit(b.elms, IdxOf(e), OffsOf(e))
<1> DEFINE s == b.elms
           k == FindClosest(s, IdxOf(e))
           i == IdxOf(e)
<1>0. /\ s \in Seq(Nodes) /\ Len(s) \in Nat /\ DOMAIN s = 1 .. Len(s)
      /\ \A j \in 1 .. Len(s) : s[j].index \in Nat
      /\ \A j, m \in 1 .. Len(s) : j < m => s[j].index < s[m].index
      /\ i \in Nat
  BY CanonicalFacts, MemberParts
<1>1. /\ k \in 1 .. Len(s) + 1
      /\ k > Len(s) \/ s[k].index >= i
      /\ \A j \in 1 .. k - 1 : s[j].index < i
  BY <1>0, ClosestPlace
<1>2. Test(b, e) <=> k <= Len(s) /\ s[k].index = i /\ OffsOf(e) \in s[k].bits
  BY DEF Test, HasNode, IsAt
<1> HIDE DEF k, s, i
<1>3. Test(b, e) => HasBit(s, i, OffsOf(e))
  BY <1>0, <1>1, <1>2 DEF HasBit
<1>4. ASSUME HasBit(s, i, OffsOf(e)) PROVE Test(b, e)
  <2>1. PICK m \in 1 .. Len(s) : s[m].index = i /\ OffsOf(e) \in s[m].bits
    BY <1>0, <1>4 DEF HasBit
  <2>2. ~(m < k)
    BY <1>0, <1>1, <2>1
  <2>3. k \in 1 .. Len(s)
    BY <1>0, <1>1, <2>2
  <2>4. ~(k < m)
    BY <1>0, <1>1, <2>1, <2>3
  <2> QED
    BY <1>1, <1>2, <2>1, <2>2, <2>3, <2>4
<1>5. QED
  BY <1>3, <1>4 DEF s, i

LEMMA ContentIs ==
  ASSUME NEW b, Canonical(b.elms)
  PROVE  Content(b) = {e \in Members : HasBit(b.elms, IdxOf(e), OffsOf(e))}
  BY TestHas DEF Content

Bitmaps(full) == [full : {full}, elms : Seq(Nodes)]

(* set() of any list *)
LEMMA SetBitType ==
  ASSUME NEW full \in BOOLEAN, NEW b \in Bitmaps(full), NEW e \in Members
  PROVE  SetBit(b, e) \in Bitmaps(full)
<1> DEFINE k == FindClosest(b.elms, IdxOf(e))
           s == IF HasNode(b.elms, IdxOf(e)) THEN b.elms ELSE Inserted(b.elms, k, Node(IdxOf(e), b.full))
           u == [s EXCEPT ![k].bits = @ \cup {OffsOf(e)}]
<1>0. b.elms \in Seq(Nodes) /\ b.full = full /\ IdxOf(e) \in Nat /\ OffsOf(e) \in AllBits
  BY MemberParts DEF Bitmaps
<1>1. k \in 1 .. Len(b.elms) + 1
  BY <1>0, ClosestPlace
<1>2. Node(IdxOf(e), b.full) \in Nodes
  BY <1>0 DEF Node, Nodes
<1>3. s \in Seq(Nodes) /\ k \in 1 .. Len(s)
  <2>1. HasNode(b.elms, IdxOf(e)) => k <= Len(b.elms)
    BY DEF HasNode, IsAt
  <2> HIDE DEF k
  <2>2. ~HasNode(b.elms, IdxOf(e)) =>
          Inserted(b.elms, k, Node(IdxOf(e), b.full)) \in Seq(Nodes)
          /\ Len(Inserted(b.elms, k, Node(IdxOf(e), b.full))) = Len(b.elms) + 1
    BY <1>0, <1>1, <1>2, InsertedType
  <2> QED
    BY <1>0, <1>1, <2>1, <2>2
<1>4. SetBit(b, e) = [b EXCEPT !.elms = u]
  BY DEF SetBit
<1> HIDE DEF k, s
<1>5. u \in Seq(Nodes)
  <2>1. s[k] \in Nodes
    BY <1>3
  <2>2. [s[k] EXCEPT !.bits = @ \cup {OffsOf(e)}] \in Nodes
    BY <1>0, <2>1 DEF Nodes
  <2> QED
    BY <1>3, <2>2
<1> HIDE DEF u
<1>6. QED
  BY <1>4, <1>5 DEF Bitmaps

(* set() of a list in order is what |= makes of one node. *)
LEMMA SetBitMeaning ==
  ASSUME NEW b \in Bitmaps(FALSE), Canonical(b.elms), NEW e \in Members
  PROVE  LET t == SetBit(b, e).elms IN
         /\ Canonical(t)
         /\ \A i, o : HasBit(t, i, o) <=> HasBit(b.elms, i, o) \/ (i = IdxOf(e) /\ o = OffsOf(e))
<1> DEFINE s == b.elms
           n == [index |-> IdxOf(e), bits |-> {OffsOf(e)}]
           st == [elms |-> s, at |-> 1]
           k == FindClosest(s, IdxOf(e))
<1>0. s \in Seq(Nodes) /\ b.full = FALSE /\ IdxOf(e) \in Nat /\ OffsOf(e) \in AllBits /\ Len(s) \in Nat
  <2>1. s \in Seq(Nodes) /\ b.full = FALSE
    BY DEF Bitmaps
  <2>2. IdxOf(e) \in Nat /\ OffsOf(e) \in AllBits
    BY MemberParts
  <2> HIDE DEF s
  <2>3. Len(s) \in Nat
    BY <2>1
  <2> QED
    BY <2>1, <2>2, <2>3
<1>1. n \in Nodes /\ n.bits # {} /\ st \in Walks
  BY <1>0 DEF Nodes, Walks
<1>2. k \in 1 .. Len(s) + 1 /\ k = FirstFrom(st.elms, st.at, n.index)
  BY <1>0, ClosestPlace DEF FindClosest
<1>3. OrNode(st, n, FALSE).elms = SetBit(b, e).elms
  <2>1. SetBit(b, e).elms =
          [(IF HasNode(s, IdxOf(e)) THEN s ELSE Inserted(s, k, Node(IdxOf(e), FALSE)))
             EXCEPT ![k].bits = @ \cup {OffsOf(e)}]
    BY <1>0 DEF SetBit, Bitmaps
  <2>2. OrNode(st, n, FALSE).elms =
          IF IsAt(s, k, IdxOf(e)) THEN [s EXCEPT ![k] = NodeOr(@, n)] ELSE Inserted(s, k, n)
    BY <1>2 DEF OrNode
  <2>3. HasNode(s, IdxOf(e)) <=> IsAt(s, k, IdxOf(e))
    BY DEF HasNode
  <2> HIDE DEF k, s
  <2>4. CASE IsAt(s, k, IdxOf(e))
    <3>1. NodeOr(s[k], n) = [s[k] EXCEPT !.bits = @ \cup {OffsOf(e)}]
      BY DEF NodeOr
    <3> QED
      BY <2>1, <2>2, <2>3, <2>4, <3>1
  <2>5. CASE ~IsAt(s, k, IdxOf(e))
    <3> DEFINE empty == Node(IdxOf(e), FALSE)
               t == Inserted(s, k, empty)
               v == Inserted(s, k, n)
    <3>1. [empty EXCEPT !.bits = @ \cup {OffsOf(e)}] = n
      BY DEF Node
    <3>2. t = [j \in 1 .. Len(s) + 1 |-> IF j < k THEN s[j] ELSE IF j = k THEN empty ELSE s[j - 1]]
      BY DEF Inserted
    <3>3. v = [j \in 1 .. Len(s) + 1 |-> IF j < k THEN s[j] ELSE IF j = k THEN n ELSE s[j - 1]]
      BY DEF Inserted
    <3>a. k \in 1 .. Len(s) + 1 /\ Len(s) \in Nat
      BY <1>0, <1>2
    <3> HIDE DEF empty, n, t, v
    <3>4. t[k] = empty /\ DOMAIN t = 1 .. Len(s) + 1
      BY <3>2, <3>a
    <3>5. [t EXCEPT ![k].bits = @ \cup {OffsOf(e)}] = [t EXCEPT ![k] = n]
      BY <3>1, <3>4
    <3>6. \A j \in 1 .. Len(s) + 1 : [t EXCEPT ![k] = n][j] = v[j]
      BY <3>2, <3>3, <3>a
    <3>7. [t EXCEPT ![k] = n] = v
      <4> DEFINE x == [t EXCEPT ![k] = n]
      <4>1. x = [j \in 1 .. Len(s) + 1 |-> x[j]]
        BY <3>4
      <4>2. v = [j \in 1 .. Len(s) + 1 |-> v[j]]
        BY <3>3
      <4> QED
        BY <3>6, <4>1, <4>2
    <3> QED
      BY <2>1, <2>2, <2>3, <2>5, <3>5, <3>7 DEF t, v, empty
  <2> QED
    BY <2>4, <2>5
<1>4. \A j \in 1 .. st.at - 1 : st.elms[j].index < n.index
  OBVIOUS
<1>5. /\ Canonical(OrNode(st, n, FALSE).elms)
      /\ \A i, o : HasBit(OrNode(st, n, FALSE).elms, i, o) <=> HasBit(s, i, o) \/ (i = n.index /\ o \in n.bits)
  <2>1. st.elms = s
    OBVIOUS
  <2> HIDE DEF st, n, s
  <2> QED
    BY <1>1, <1>4, <2>1, OrNodeKeeps DEF s
<1>6. QED
  BY <1>3, <1>5

LEMMA ErasedType ==
  ASSUME NEW s \in Seq(Nodes), NEW k \in 1 .. Len(s)
  PROVE  Erased(s, k) \in Seq(Nodes) /\ Len(Erased(s, k)) = Len(s) - 1
<1>1. Erased(s, k) = [j \in 1 .. Len(s) - 1 |-> IF j < k THEN s[j] ELSE s[j + 1]]
  BY DEF Erased
<1>2. \A j \in 1 .. Len(s) - 1 : (IF j < k THEN s[j] ELSE s[j + 1]) \in Nodes
  OBVIOUS
<1>3. Len(s) - 1 \in Nat
  OBVIOUS
<1>4. QED
  BY <1>1, <1>2, <1>3

(* reset() of any list: what it puts in the node, and what becomes of the  *)
(* node                                                                    *)
LEMMA ResetBitIs ==
  ASSUME NEW full \in BOOLEAN, NEW b \in Bitmaps(full), NEW e \in Members
  PROVE  LET s == b.elms
             k == FindClosest(s, IdxOf(e))
             n == [s[k] EXCEPT !.bits = @ \ {OffsOf(e)}]
             u == [s EXCEPT ![k] = n]
             t == ResetBit(b, e)
         IN
         /\ t = [full |-> full, elms |-> t.elms]
         /\ ~HasNode(s, IdxOf(e)) => t = b
         /\ HasNode(s, IdxOf(e)) =>
              /\ k \in 1 .. Len(s) /\ s[k].index = IdxOf(e) /\ n \in Nodes
              /\ u \in Seq(Nodes) /\ Len(u) = Len(s) /\ u[k] = n
              /\ t.elms = IF n.bits = {} THEN Erased(u, k) ELSE u
<1> DEFINE s == b.elms
           k == FindClosest(s, IdxOf(e))
           n == [s[k] EXCEPT !.bits = @ \ {OffsOf(e)}]
           u == [s EXCEPT ![k] = n]
           w == [s EXCEPT ![k].bits = @ \ {OffsOf(e)}]
           t == ResetBit(b, e)
<1>1. s \in Seq(Nodes) /\ IdxOf(e) \in Nat /\ OffsOf(e) \in AllBits
  BY MemberParts DEF Bitmaps
<1>2. k \in 1 .. Len(s) + 1
  BY <1>1, ClosestPlace
<1>3. b = [full |-> full, elms |-> s]
  BY DEF Bitmaps
<1>4. t = IF ~HasNode(s, IdxOf(e)) THEN b ELSE [b EXCEPT !.elms = IF w[k].bits = {} THEN Erased(w, k) ELSE w]
  BY DEF ResetBit
<1>5. ~HasNode(s, IdxOf(e)) => t = b
  BY <1>4
<1>6. ASSUME HasNode(s, IdxOf(e))
      PROVE  /\ k \in 1 .. Len(s) /\ s[k].index = IdxOf(e) /\ n \in Nodes
             /\ u \in Seq(Nodes) /\ Len(u) = Len(s) /\ u[k] = n
             /\ t = [full |-> full, elms |-> IF n.bits = {} THEN Erased(u, k) ELSE u]
  <2>1. k <= Len(s) /\ s[k].index = IdxOf(e)
    BY <1>6 DEF HasNode, IsAt
  <2> HIDE DEF k, s
  <2>2. k \in 1 .. Len(s)
    BY <1>1, <1>2, <2>1
  <2>3. s[k] \in Nodes
    BY <1>1, <2>2
  <2>4. n \in Nodes
    BY <2>3 DEF Nodes
  <2>5. w = u
    OBVIOUS
  <2> HIDE DEF n
  <2>6. u \in Seq(Nodes) /\ Len(u) = Len(s) /\ u[k] = n
    BY <1>1, <2>2, <2>4
  <2> HIDE DEF u, w, t
  <2>7. t = [full |-> full, elms |-> IF n.bits = {} THEN Erased(u, k) ELSE u]
    BY <1>3, <1>4, <1>6, <2>5, <2>6
  <2> QED
    BY <2>1, <2>2, <2>4, <2>6, <2>7
<1>7. /\ t = [full |-> full, elms |-> t.elms]
      /\ ~HasNode(s, IdxOf(e)) => t = b
      /\ HasNode(s, IdxOf(e)) =>
           /\ k \in 1 .. Len(s) /\ s[k].index = IdxOf(e) /\ n \in Nodes
           /\ u \in Seq(Nodes) /\ Len(u) = Len(s) /\ u[k] = n
           /\ t.elms = IF n.bits = {} THEN Erased(u, k) ELSE u
  <2> HIDE DEF s, k, n, u, t
  <2> QED
    BY <1>3, <1>5, <1>6
<1>8. QED
  BY <1>7

LEMMA ResetBitType ==
  ASSUME NEW full \in BOOLEAN, NEW b \in Bitmaps(full), NEW e \in Members
  PROVE  ResetBit(b, e) \in Bitmaps(full)
<1> DEFINE s == b.elms
           k == FindClosest(s, IdxOf(e))
           n == [s[k] EXCEPT !.bits = @ \ {OffsOf(e)}]
           u == [s EXCEPT ![k] = n]
           t == ResetBit(b, e)
<1>1. /\ t = [full |-> full, elms |-> t.elms]
      /\ ~HasNode(s, IdxOf(e)) => t = b
      /\ HasNode(s, IdxOf(e)) =>
           /\ k \in 1 .. Len(s) /\ n \in Nodes
           /\ u \in Seq(Nodes) /\ Len(u) = Len(s)
           /\ t.elms = IF n.bits = {} THEN Erased(u, k) ELSE u
  BY ResetBitIs
<1> HIDE DEF t, u, n, k
<1>2. HasNode(s, IdxOf(e)) => t.elms \in Seq(Nodes)
  BY <1>1, ErasedType
<1>3. QED
  BY <1>1, <1>2 DEF Bitmaps, t

(* A list without one of its nodes *)
LEMMA ErasedMeaning ==
  ASSUME NEW u \in Seq(Nodes), Sorted(u), NEW k \in 1 .. Len(u), u[k].bits = {},
         \A j \in 1 .. Len(u) : j # k => u[j].bits # {}
  PROVE  LET t == Erased(u, k) IN
         /\ Canonical(t)
         /\ \A i, o : HasBit(t, i, o) <=> HasBit(u, i, o)
<1> DEFINE t == Erased(u, k)
<1>1. /\ Len(u) \in Nat /\ DOMAIN u = 1 .. Len(u)
      /\ \A j \in 1 .. Len(u) : u[j].index \in Nat
      /\ \A j, m \in 1 .. Len(u) : j < m => u[j].index < u[m].index
  BY ListFacts DEF Sorted
<1>2. t = [j \in 1 .. Len(u) - 1 |-> IF j < k THEN u[j] ELSE u[j + 1]]
  BY DEF Erased
<1>3. t \in Seq(Nodes) /\ Len(t) = Len(u) - 1
  BY ErasedType
<1>4. DOMAIN t = 1 .. Len(u) - 1
  BY <1>2
<1> HIDE DEF t
<1>5. \A j \in 1 .. Len(u) - 1 : t[j] = u[IF j < k THEN j ELSE j + 1]
  BY <1>2
<1>6. Sorted(t)
  <2>1. ASSUME NEW j \in 1 .. Len(u) - 1, NEW m \in 1 .. Len(u) - 1, j < m
        PROVE  t[j].index < t[m].index
    <3> DEFINE x == IF j < k THEN j ELSE j + 1
               y == IF m < k THEN m ELSE m + 1
    <3>1. x \in 1 .. Len(u) /\ y \in 1 .. Len(u) /\ x < y
      BY <1>1, <2>1
    <3>2. t[j] = u[x] /\ t[m] = u[y]
      BY <1>5
    <3> HIDE DEF x, y
    <3> QED
      BY <1>1, <3>1, <3>2
  <2> QED
    BY <1>4, <2>1 DEF Sorted
<1>7. NoneEmpty(t)
  <2>1. ASSUME NEW j \in 1 .. Len(u) - 1 PROVE t[j].bits # {}
    <3> DEFINE x == IF j < k THEN j ELSE j + 1
    <3>1. x \in 1 .. Len(u) /\ x # k
      BY <1>1
    <3>2. t[j] = u[x]
      BY <1>5
    <3> HIDE DEF x
    <3> QED
      BY <3>1, <3>2
  <2> QED
    BY <1>4, <2>1 DEF NoneEmpty
<1>8. ASSUME NEW i, NEW o PROVE HasBit(t, i, o) <=> HasBit(u, i, o)
  <2>1. ASSUME HasBit(t, i, o) PROVE HasBit(u, i, o)
    <3>1. PICK j \in 1 .. Len(u) - 1 : t[j].index = i /\ o \in t[j].bits
      BY <1>4, <2>1 DEF HasBit
    <3>2. (IF j < k THEN j ELSE j + 1) \in 1 .. Len(u)
      BY <1>1
    <3> QED
      BY <1>1, <1>5, <3>1, <3>2 DEF HasBit
  <2>2. ASSUME HasBit(u, i, o) PROVE HasBit(t, i, o)
    <3>1. PICK m \in 1 .. Len(u) : u[m].index = i /\ o \in u[m].bits
      BY <1>1, <2>2 DEF HasBit
    <3>2. m # k
      BY <3>1
    <3> DEFINE j == IF m < k THEN m ELSE m - 1
    <3>3. j \in 1 .. Len(u) - 1 /\ (IF j < k THEN j ELSE j + 1) = m
      BY <1>1, <3>2
    <3> HIDE DEF j
    <3>4. t[j] = u[m]
      BY <1>5, <3>3
    <3> QED
      BY <1>4, <3>1, <3>3, <3>4 DEF HasBit
  <2> QED
    BY <2>1, <2>2
<1>9. Canonical(t) /\ \A i, o : HasBit(t, i, o) <=> HasBit(u, i, o)
  BY <1>3, <1>6, <1>7, <1>8 DEF Canonical
<1>10. QED
  BY <1>9 DEF t

(* reset() of a list in order takes one bit away and nothing else. *)
LEMMA ResetBitMeaning ==
  ASSUME NEW b \in Bitmaps(FALSE), Canonical(b.elms), NEW e \in Members
  PROVE  LET t == ResetBit(b, e).elms IN
         /\ Canonical(t)
         /\ \A i, o : HasBit(t, i, o) <=> HasBit(b.elms, i, o) /\ ~(i = IdxOf(e) /\ o = OffsOf(e))
<1> DEFINE s == b.elms
           k == FindClosest(s, IdxOf(e))
           n == [s[k] EXCEPT !.bits = @ \ {OffsOf(e)}]
           u == [s EXCEPT ![k] = n]
           t == ResetBit(b, e).elms
           Goal == /\ Canonical(t)
                   /\ \A i, o : HasBit(t, i, o) <=> HasBit(s, i, o) /\ ~(i = IdxOf(e) /\ o = OffsOf(e))
<1> SUFFICES Goal
  OBVIOUS
<1>1. /\ ~HasNode(s, IdxOf(e)) => ResetBit(b, e) = b
      /\ HasNode(s, IdxOf(e)) =>
           /\ k \in 1 .. Len(s) /\ s[k].index = IdxOf(e) /\ n \in Nodes
           /\ u \in Seq(Nodes) /\ Len(u) = Len(s) /\ u[k] = n
           /\ t = IF n.bits = {} THEN Erased(u, k) ELSE u
  BY ResetBitIs
<1>2. CASE ~HasNode(s, IdxOf(e))
  <2>1. ~HasBit(s, IdxOf(e), OffsOf(e))
    <3>1. ~Test(b, e)
      BY <1>2 DEF Test
    <3> QED
      BY <3>1, TestHas
  <2>2. t = s
    BY <1>1, <1>2
  <2> HIDE DEF t
  <2> QED
    BY <2>1, <2>2
<1>3. CASE HasNode(s, IdxOf(e))
  <2>1. /\ k \in 1 .. Len(s) /\ s[k].index = IdxOf(e) /\ n \in Nodes
        /\ u \in Seq(Nodes) /\ Len(u) = Len(s) /\ u[k] = n
        /\ t = IF n.bits = {} THEN Erased(u, k) ELSE u
    BY <1>1, <1>3
  <2>2. n.index = IdxOf(e) /\ n.bits = s[k].bits \ {OffsOf(e)}
    <3>1. s[k] \in Nodes
      BY <2>1, CanonicalFacts
    <3> HIDE DEF k, s
    <3> QED
      BY <2>1, <3>1 DEF Nodes
  <2>3. Canonical(s)
    OBVIOUS
  <2> HIDE DEF k, n, t, s
  <2>4. \A j \in 1 .. Len(s) : u[j] = IF j = k THEN n ELSE s[j]
    BY <2>1, <2>3, CanonicalFacts
  <2>5. DOMAIN u = 1 .. Len(s)
    BY <2>1
  <2> HIDE DEF u
  <2>6. /\ Len(s) \in Nat /\ DOMAIN s = 1 .. Len(s)
        /\ \A j \in 1 .. Len(s) : s[j].index \in Nat /\ s[j].bits # {}
        /\ \A j, m \in 1 .. Len(s) : j < m => s[j].index < s[m].index
    BY <2>3, CanonicalFacts
  <2>7. \A j \in 1 .. Len(s) : u[j].index = s[j].index
    BY <2>1, <2>2, <2>4
  <2>8. Sorted(u)
    BY <2>5, <2>6, <2>7 DEF Sorted
  <2>9. \A j \in 1 .. Len(s) : j # k => u[j].bits # {}
    BY <2>4, <2>6
  <2>10. ASSUME NEW i, NEW o
         PROVE  HasBit(u, i, o) <=> HasBit(s, i, o) /\ ~(i = IdxOf(e) /\ o = OffsOf(e))
    <3>1. \A j \in 1 .. Len(s) : j # k => s[j].index # IdxOf(e)
      BY <2>1, <2>6
    <3>2. ASSUME HasBit(u, i, o) PROVE HasBit(s, i, o) /\ ~(i = IdxOf(e) /\ o = OffsOf(e))
      <4>1. PICK j \in 1 .. Len(s) : u[j].index = i /\ o \in u[j].bits
        BY <2>5, <3>2 DEF HasBit
      <4>2. s[j].index = i /\ o \in s[j].bits /\ ~(i = IdxOf(e) /\ o = OffsOf(e))
        BY <2>1, <2>2, <2>4, <2>7, <3>1, <4>1
      <4> QED
        BY <2>6, <4>2 DEF HasBit
    <3>3. ASSUME HasBit(s, i, o), ~(i = IdxOf(e) /\ o = OffsOf(e)) PROVE HasBit(u, i, o)
      <4>1. PICK j \in 1 .. Len(s) : s[j].index = i /\ o \in s[j].bits
        BY <2>6, <3>3 DEF HasBit
      <4>2. u[j].index = i /\ o \in u[j].bits
        BY <2>1, <2>2, <2>4, <2>7, <3>3, <4>1
      <4> QED
        BY <2>5, <4>2 DEF HasBit
    <3> QED
      BY <3>2, <3>3
  <2>11. CASE n.bits # {}
    <3>1. NoneEmpty(u)
      BY <2>1, <2>5, <2>9, <2>11 DEF NoneEmpty
    <3>2. t = u
      BY <2>1, <2>11
    <3> QED
      BY <2>1, <2>8, <2>10, <3>1, <3>2 DEF Canonical
  <2>12. CASE n.bits = {}
    <3>1. Canonical(Erased(u, k)) /\ \A i, o : HasBit(Erased(u, k), i, o) <=> HasBit(u, i, o)
      BY <2>1, <2>8, <2>9, <2>12, ErasedMeaning
    <3>2. t = Erased(u, k)
      BY <2>1, <2>12
    <3> QED
      BY <2>10, <3>1, <3>2
  <2> QED
    BY <2>11, <2>12
<1>4. QED
  BY <1>2, <1>3

----------------------------------------------------------------------------
(* The code's sets: a list of a bottom set in use or waiting is in order,  *)
(* and holds members.                                                      *)
Within(l) == \A i, o : HasBit(l, i, o) => i * Width + o \in Members
SetType == [universe : BOOLEAN, bottom : Bitmaps(FALSE), all : Bitmaps(TRUE)]
GoodSets == {s \in SetType : Canonical(s.bottom.elms) /\ Within(s.bottom.elms)}

LEMMA PutType ==
  ASSUME NEW s \in SetType
  PROVE  /\ s.universe \in BOOLEAN /\ s.bottom \in Bitmaps(FALSE) /\ s.all \in Bitmaps(TRUE)
         /\ s = [universe |-> s.universe, bottom |-> s.bottom, all |-> s.all]
         /\ \A b : s.universe => PutPart(s, b) = [universe |-> TRUE, bottom |-> s.bottom, all |-> b]
         /\ \A b : ~s.universe => PutPart(s, b) = [universe |-> FALSE, bottom |-> b, all |-> s.all]
<1>1. s \in [universe : BOOLEAN, bottom : Bitmaps(FALSE), all : Bitmaps(TRUE)]
  BY DEF SetType
<1>2. QED
  BY <1>1 DEF PutPart

LEMMA RecordGood ==
  ASSUME NEW u \in BOOLEAN, NEW x \in Bitmaps(FALSE), NEW y \in Bitmaps(TRUE),
         Canonical(x.elms), Within(x.elms)
  PROVE  [universe |-> u, bottom |-> x, all |-> y] \in GoodSets
<1> DEFINE t == [universe |-> u, bottom |-> x, all |-> y]
<1>1. t \in SetType /\ t.bottom = x
  BY DEF SetType
<1> HIDE DEF t
<1>2. t \in GoodSets
  BY <1>1 DEF GoodSets
<1>3. QED
  BY <1>2 DEF t

(* A set whose bitmap in use is replaced by another *)
LEMMA PutGood ==
  ASSUME NEW s \in GoodSets, NEW b \in Bitmaps(s.universe),
         ~s.universe => Canonical(b.elms) /\ Within(b.elms)
  PROVE  LET t == PutPart(s, b) IN
         /\ t \in GoodSets /\ t.universe = s.universe
         /\ ~s.universe => t.bottom = b
<1>0. s \in SetType /\ Canonical(s.bottom.elms) /\ Within(s.bottom.elms)
  BY DEF GoodSets
<1>1. CASE s.universe
  <2>1. PutPart(s, b) = [universe |-> TRUE, bottom |-> s.bottom, all |-> b]
    BY <1>0, <1>1, PutType
  <2>2. b \in Bitmaps(TRUE) /\ s.bottom \in Bitmaps(FALSE) /\ s.universe = TRUE
    BY <1>0, <1>1, PutType
  <2>3. [universe |-> TRUE, bottom |-> s.bottom, all |-> b] \in GoodSets
    BY <1>0, <2>2, RecordGood
  <2> QED
    BY <1>1, <2>1, <2>2, <2>3
<1>2. CASE ~s.universe
  <2>1. PutPart(s, b) = [universe |-> FALSE, bottom |-> b, all |-> s.all]
    BY <1>0, <1>2, PutType
  <2>2. b \in Bitmaps(FALSE) /\ s.all \in Bitmaps(TRUE) /\ s.universe = FALSE
    BY <1>0, <1>2, PutType
  <2>3. [universe |-> FALSE, bottom |-> b, all |-> s.all] \in GoodSets
    BY <1>2, <2>2, RecordGood
  <2> DEFINE t == PutPart(s, b)
  <2>4. t \in GoodSets /\ t.universe = FALSE /\ t.bottom = b
    BY <2>1, <2>3
  <2> HIDE DEF t
  <2>5. t.universe = s.universe
    BY <2>2, <2>4
  <2> QED
    BY <2>4, <2>5 DEF t
<1>3. QED
  BY <1>0, <1>1, <1>2, PutType

LEMMA SameParts ==
  ASSUME NEW x \in Members, NEW e \in Members
  PROVE  IdxOf(x) = IdxOf(e) /\ OffsOf(x) = OffsOf(e) <=> x = e
<1>1. x = IdxOf(x) * Width + OffsOf(x) /\ e = IdxOf(e) * Width + OffsOf(e)
  BY MemberParts
<1>2. QED
  BY <1>1

LEMMA AddedGood ==
  ASSUME NEW s \in GoodSets, NEW e \in Members
  PROVE  LET t == Added(s, e) IN
         /\ t \in GoodSets /\ t.universe = s.universe
         /\ ~s.universe => Content(t.bottom) = Content(s.bottom) \cup {e}
<1> DEFINE b == Part(s)
           c == SetBit(b, e)
<1>0. s \in SetType /\ Canonical(s.bottom.elms) /\ Within(s.bottom.elms)
  BY DEF GoodSets
<1>1. s.universe \in BOOLEAN /\ b \in Bitmaps(s.universe)
  BY <1>0, PutType DEF Part
<1>2. c \in Bitmaps(s.universe)
  <2> HIDE DEF b
  <2> QED
    BY <1>1, SetBitType
<1>3. ASSUME ~s.universe
      PROVE  /\ Canonical(c.elms) /\ Within(c.elms)
             /\ Content(c) = Content(s.bottom) \cup {e}
  <2>1. b = s.bottom /\ b \in Bitmaps(FALSE)
    BY <1>0, <1>3, PutType DEF Part
  <2> HIDE DEF b
  <2>2. /\ Canonical(c.elms)
        /\ \A i, o : HasBit(c.elms, i, o) <=> HasBit(b.elms, i, o) \/ (i = IdxOf(e) /\ o = OffsOf(e))
    BY <1>0, <2>1, SetBitMeaning
  <2> HIDE DEF c
  <2>3. Within(c.elms)
    BY <1>0, <2>1, <2>2, MemberParts DEF Within
  <2>4. Content(c) = {x \in Members : HasBit(c.elms, IdxOf(x), OffsOf(x))}
    BY <2>2, ContentIs
  <2>5. Content(b) = {x \in Members : HasBit(b.elms, IdxOf(x), OffsOf(x))}
    BY <1>0, <2>1, ContentIs
  <2>6. Content(c) = Content(b) \cup {e}
    BY <2>2, <2>4, <2>5, SameParts
  <2> QED
    BY <2>1, <2>2, <2>3, <2>6
<1>4. Added(s, e) = PutPart(s, c)
  BY DEF Added
<1> HIDE DEF c
<1>5. QED
  BY <1>2, <1>3, <1>4, PutGood

LEMMA RemovedGood ==
  ASSUME NEW s \in GoodSets, NEW e \in Members
  PROVE  LET t == Removed(s, e) IN
         /\ t \in GoodSets /\ t.universe = s.universe
         /\ ~s.universe => Content(t.bottom) = Content(s.bottom) \ {e}
<1> DEFINE b == Part(s)
           c == ResetBit(b, e)
<1>0. s \in SetType /\ Canonical(s.bottom.elms) /\ Within(s.bottom.elms)
  BY DEF GoodSets
<1>1. s.universe \in BOOLEAN /\ b \in Bitmaps(s.universe)
  BY <1>0, PutType DEF Part
<1>2. c \in Bitmaps(s.universe)
  <2> HIDE DEF b
  <2> QED
    BY <1>1, ResetBitType
<1>3. ASSUME ~s.universe
      PROVE  /\ Canonical(c.elms) /\ Within(c.elms)
             /\ Content(c) = Content(s.bottom) \ {e}
  <2>1. b = s.bottom /\ b \in Bitmaps(FALSE)
    BY <1>0, <1>3, PutType DEF Part
  <2> HIDE DEF b
  <2>2. /\ Canonical(c.elms)
        /\ \A i, o : HasBit(c.elms, i, o) <=> HasBit(b.elms, i, o) /\ ~(i = IdxOf(e) /\ o = OffsOf(e))
    BY <1>0, <2>1, ResetBitMeaning
  <2> HIDE DEF c
  <2>3. Within(c.elms)
    BY <1>0, <2>1, <2>2 DEF Within
  <2>4. Content(c) = {x \in Members : HasBit(c.elms, IdxOf(x), OffsOf(x))}
    BY <2>2, ContentIs
  <2>5. Content(b) = {x \in Members : HasBit(b.elms, IdxOf(x), OffsOf(x))}
    BY <1>0, <2>1, ContentIs
  <2>6. Content(c) = Content(b) \ {e}
    BY <2>2, <2>4, <2>5, SameParts
  <2> QED
    BY <2>1, <2>2, <2>3, <2>6
<1>4. Removed(s, e) = PutPart(s, c)
  BY DEF Removed
<1> HIDE DEF c
<1>5. QED
  BY <1>2, <1>3, <1>4, PutGood

(* add_range() puts the members of the range in one after the other. *)
LEMMA EachAdded ==
  ASSUME NEW s \in GoodSets, NEW e \in Members, NEW n \in Nat, Span(e, n) \subseteq Members
  PROVE  LET t == Each(Added, s, e, n) IN
         /\ t \in GoodSets /\ t.universe = s.universe
         /\ ~s.universe => Content(t.bottom) = Content(s.bottom) \cup Span(e, n)
<1> DEFINE Is(f) == f = [k \in 0 .. n |-> IF k = 0 THEN s ELSE Added(f[k - 1], e + k - 1)]
           F == [k \in 1 .. n |-> [t \in GoodSets |-> Added(t, e + k - 1)]]
           In(j) == {e + i : i \in 0 .. j - 1}
           Holds(t, j) == /\ t \in GoodSets /\ t.universe = s.universe
                          /\ ~s.universe => Content(t.bottom) = Content(s.bottom) \cup In(j)
<1>0. e \in Nat
  BY SparseSetsAssumption
<1>1. \A k \in 1 .. n : e + k - 1 \in Members
  <2>1. ASSUME NEW k \in 1 .. n PROVE e + k - 1 \in Span(e, n)
    <3>1. k - 1 \in 0 .. n - 1 /\ e + k - 1 = e + (k - 1)
      BY <1>0
    <3> QED
      BY <3>1 DEF Span
  <2> QED
    BY <2>1
<1>2. F \in [1 .. n -> [GoodSets -> GoodSets]]
  BY <1>1, AddedGood
<1>3. PICK g \in [0 .. n -> GoodSets] : IsRun(g, n, s, F)
  <2> HIDE DEF F
  <2> QED
    BY <1>2, Rounds
<1>4. Is(g)
  <2>1. ASSUME NEW k \in 0 .. n
        PROVE  g[k] = IF k = 0 THEN s ELSE Added(g[k - 1], e + k - 1)
    <3>1. CASE k # 0
      <4>1. k \in 1 .. n /\ g[k - 1] \in GoodSets
        BY <3>1
      <4> QED
        BY <1>3, <3>1, <4>1 DEF IsRun
    <3> QED
      BY <1>3, <3>1 DEF IsRun
  <2> QED
    BY <2>1
<1> DEFINE after == CHOOSE f : Is(f)
           T == {j \in 0 .. n : Holds(after[j], j)}
<1>5. Is(after)
  <2> HIDE DEF Is
  <2> QED
    BY <1>4
<1>6. Each(Added, s, e, n) = after[n]
  BY DEF Each, Loop
<1>7. after[0] = s /\ \A j \in 1 .. n : after[j] = Added(after[j - 1], e + j - 1)
  <2> HIDE DEF after
  <2> QED
    BY <1>5
<1> HIDE DEF after
<1>8. 0 \in T
  <2>1. In(0) = {}
    OBVIOUS
  <2> HIDE DEF In
  <2> QED
    BY <1>7, <2>1
<1>9. ASSUME NEW j \in 0 .. n - 1, j \in T PROVE j + 1 \in T
  <2>1. j + 1 \in 1 .. n /\ (j + 1) - 1 = j /\ e + (j + 1) - 1 = e + j
    BY <1>0
  <2>2. after[j + 1] = Added(after[j], e + j) /\ e + j \in Members
    BY <1>1, <1>7, <2>1
  <2>3. In(j + 1) = In(j) \cup {e + j}
    OBVIOUS
  <2> HIDE DEF In
  <2>4. Holds(after[j], j)
    BY <1>9
  <2>5. LET t == Added(after[j], e + j) IN
        /\ t \in GoodSets /\ t.universe = after[j].universe
        /\ ~after[j].universe => Content(t.bottom) = Content(after[j].bottom) \cup {e + j}
    BY <2>2, <2>4, AddedGood
  <2>6. Holds(after[j + 1], j + 1)
    BY <2>2, <2>3, <2>4, <2>5
  <2> HIDE DEF Holds
  <2> QED
    BY <2>1, <2>6
<1>10. n \in T
  <2>1. \A j \in 0 .. n - 1 : j \in T => j + 1 \in T
    BY <1>9
  <2> HIDE DEF T
  <2>2. 0 .. n \subseteq T
    BY <1>8, <2>1, Upwards
  <2> QED
    BY <2>2
<1>11. In(n) = Span(e, n)
  BY DEF Span
<1>12. QED
  <2> HIDE DEF In
  <2> QED
    BY <1>6, <1>10, <1>11

(* remove_range() takes the members of the range out one after the other. *)
LEMMA EachRemoved ==
  ASSUME NEW s \in GoodSets, NEW e \in Members, NEW n \in Nat, Span(e, n) \subseteq Members
  PROVE  LET t == Each(Removed, s, e, n) IN
         /\ t \in GoodSets /\ t.universe = s.universe
         /\ ~s.universe => Content(t.bottom) = Content(s.bottom) \ Span(e, n)
<1> DEFINE Is(f) == f = [k \in 0 .. n |-> IF k = 0 THEN s ELSE Removed(f[k - 1], e + k - 1)]
           F == [k \in 1 .. n |-> [t \in GoodSets |-> Removed(t, e + k - 1)]]
           In(j) == {e + i : i \in 0 .. j - 1}
           Holds(t, j) == /\ t \in GoodSets /\ t.universe = s.universe
                          /\ ~s.universe => Content(t.bottom) = Content(s.bottom) \ In(j)
<1>0. e \in Nat
  BY SparseSetsAssumption
<1>1. \A k \in 1 .. n : e + k - 1 \in Members
  <2>1. ASSUME NEW k \in 1 .. n PROVE e + k - 1 \in Span(e, n)
    <3>1. k - 1 \in 0 .. n - 1 /\ e + k - 1 = e + (k - 1)
      BY <1>0
    <3> QED
      BY <3>1 DEF Span
  <2> QED
    BY <2>1
<1>2. F \in [1 .. n -> [GoodSets -> GoodSets]]
  BY <1>1, RemovedGood
<1>3. PICK g \in [0 .. n -> GoodSets] : IsRun(g, n, s, F)
  <2> HIDE DEF F
  <2> QED
    BY <1>2, Rounds
<1>4. Is(g)
  <2>1. ASSUME NEW k \in 0 .. n
        PROVE  g[k] = IF k = 0 THEN s ELSE Removed(g[k - 1], e + k - 1)
    <3>1. CASE k # 0
      <4>1. k \in 1 .. n /\ g[k - 1] \in GoodSets
        BY <3>1
      <4> QED
        BY <1>3, <3>1, <4>1 DEF IsRun
    <3> QED
      BY <1>3, <3>1 DEF IsRun
  <2> QED
    BY <2>1
<1> DEFINE after == CHOOSE f : Is(f)
           T == {j \in 0 .. n : Holds(after[j], j)}
<1>5. Is(after)
  <2> HIDE DEF Is
  <2> QED
    BY <1>4
<1>6. Each(Removed, s, e, n) = after[n]
  BY DEF Each, Loop
<1>7. after[0] = s /\ \A j \in 1 .. n : after[j] = Removed(after[j - 1], e + j - 1)
  <2> HIDE DEF after
  <2> QED
    BY <1>5
<1> HIDE DEF after
<1>8. 0 \in T
  <2>1. In(0) = {}
    OBVIOUS
  <2> HIDE DEF In
  <2> QED
    BY <1>7, <2>1
<1>9. ASSUME NEW j \in 0 .. n - 1, j \in T PROVE j + 1 \in T
  <2>1. j + 1 \in 1 .. n /\ (j + 1) - 1 = j /\ e + (j + 1) - 1 = e + j
    BY <1>0
  <2>2. after[j + 1] = Removed(after[j], e + j) /\ e + j \in Members
    BY <1>1, <1>7, <2>1
  <2>3. In(j + 1) = In(j) \cup {e + j}
    OBVIOUS
  <2> HIDE DEF In
  <2>4. Holds(after[j], j)
    BY <1>9
  <2>5. LET t == Removed(after[j], e + j) IN
        /\ t \in GoodSets /\ t.universe = after[j].universe
        /\ ~after[j].universe => Content(t.bottom) = Content(after[j].bottom) \ {e + j}
    BY <2>2, <2>4, RemovedGood
  <2>6. Holds(after[j + 1], j + 1)
    BY <2>2, <2>3, <2>4, <2>5
  <2> HIDE DEF Holds
  <2> QED
    BY <2>1, <2>6
<1>10. n \in T
  <2>1. \A j \in 0 .. n - 1 : j \in T => j + 1 \in T
    BY <1>9
  <2> HIDE DEF T
  <2>2. 0 .. n \subseteq T
    BY <1>8, <2>1, Upwards
  <2> QED
    BY <2>2
<1>11. In(n) = Span(e, n)
  BY DEF Span
<1>12. QED
  <2> HIDE DEF In
  <2> QED
    BY <1>6, <1>10, <1>11

----------------------------------------------------------------------------
(* The rounds of count() *)
LEMMA CountRounds ==
  ASSUME NEW b, NEW full, b \in Bitmaps(full)
  PROVE  \E after :
           /\ Count(b) = after[Len(b.elms)] /\ after[0] = 0
           /\ \A j \in 1 .. Len(b.elms) : after[j] = after[j - 1] + Cardinality(b.elms[j].bits)
<1> DEFINE s == b.elms
           n == Len(s)
           Is(f) == f = [k \in 0 .. n |-> IF k = 0 THEN 0 ELSE f[k - 1] + Cardinality(s[k].bits)]
           F == [k \in 1 .. n |-> [c \in Nat |-> c + Cardinality(s[k].bits)]]
<1>1. s \in Seq(Nodes)
  BY DEF Bitmaps
<1>2. n \in Nat /\ \A k \in 1 .. n : Cardinality(s[k].bits) \in Nat
  <2> HIDE DEF s
  <2>1. IsFiniteSet(AllBits)
    <3>1. 0 \in Int /\ Width - 1 \in Int
      BY SparseSetsAssumption
    <3> QED
      BY <3>1, FS_Interval DEF AllBits
  <2>2. ASSUME NEW k \in 1 .. n PROVE Cardinality(s[k].bits) \in Nat
    <3>1. s[k].bits \in SUBSET AllBits
      BY <1>1, ListFacts
    <3>2. IsFiniteSet(s[k].bits)
      BY <2>1, <3>1, FS_Subset
    <3> QED
      BY <3>2, FS_CardinalityType
  <2> QED
    BY <1>1, <2>2
<1>3. F \in [1 .. n -> [Nat -> Nat]]
  BY <1>2
<1>4. PICK g \in [0 .. n -> Nat] : IsRun(g, n, 0, F)
  <2> HIDE DEF n, F
  <2> QED
    BY <1>2, <1>3, Rounds
<1>5. Is(g)
  <2>1. ASSUME NEW k \in 0 .. n
        PROVE  g[k] = IF k = 0 THEN 0 ELSE g[k - 1] + Cardinality(s[k].bits)
    <3>1. CASE k # 0
      <4>1. k \in 1 .. n /\ g[k - 1] \in Nat
        BY <1>2, <3>1
      <4> HIDE DEF n, s
      <4> QED
        BY <1>4, <3>1, <4>1 DEF IsRun
    <3> QED
      BY <1>4, <3>1 DEF IsRun
  <2> HIDE DEF n, s
  <2> QED
    BY <2>1
<1> DEFINE after == CHOOSE f : Is(f)
<1>6. Is(after)
  <2> HIDE DEF Is
  <2> QED
    BY <1>5
<1>7. Count(b) = after[n]
  BY DEF Count, Loop
<1>8. after[0] = 0 /\ \A j \in 1 .. n : after[j] = after[j - 1] + Cardinality(s[j].bits)
  <2> HIDE DEF after, n, s
  <2> QED
    BY <1>2, <1>6
<1>9. QED
  BY <1>7, <1>8

(* count() of a list in order is the number of its members. *)
LEMMA CountMeaning ==
  ASSUME NEW b \in Bitmaps(FALSE), Canonical(b.elms), Within(b.elms)
  PROVE  IsFiniteSet(Content(b)) /\ Count(b) = Cardinality(Content(b))
<1> DEFINE s == b.elms
           Held(j) == {x \in Members : \E k \in 1 .. j : s[k].index = IdxOf(x) /\ OffsOf(x) \in s[k].bits}
           Of(j) == {x \in Members : s[j].index = IdxOf(x) /\ OffsOf(x) \in s[j].bits}
<1>1. PICK after :
        /\ Count(b) = after[Len(s)] /\ after[0] = 0
        /\ \A j \in 1 .. Len(s) : after[j] = after[j - 1] + Cardinality(s[j].bits)
  BY CountRounds
<1> DEFINE Good(j) == IsFiniteSet(Held(j)) /\ after[j] = Cardinality(Held(j))
           T == {j \in 0 .. Len(s) : Good(j)}
<1>2. /\ s \in Seq(Nodes) /\ Len(s) \in Nat /\ DOMAIN s = 1 .. Len(s)
      /\ \A k \in 1 .. Len(s) : s[k].index \in Nat /\ s[k].bits \in SUBSET AllBits
      /\ \A j, k \in 1 .. Len(s) : j < k => s[j].index < s[k].index
  BY CanonicalFacts
<1>w. Within(s)
  OBVIOUS
<1>3. 0 \in T
  <2>1. Held(0) = {}
    OBVIOUS
  <2> HIDE DEF Held, s
  <2>2. Good(0)
    BY <1>1, <2>1, FS_EmptySet
  <2> QED
    BY <1>2, <2>2
<1>4. ASSUME NEW j \in 0 .. Len(s) - 1, j \in T PROVE j + 1 \in T
  <2> DEFINE i == s[j + 1].index
             B == s[j + 1].bits
             F == [o \in B |-> i * Width + o]
  <2> HIDE DEF s
  <2>1. j + 1 \in 1 .. Len(s) /\ (j + 1) - 1 = j
    BY <1>2
  <2>2. i \in Nat /\ B \in SUBSET AllBits
    BY <1>2, <2>1
  <2>3. IsFiniteSet(B)
    <3>1. 0 \in Int /\ Width - 1 \in Int
      BY SparseSetsAssumption
    <3>2. IsFiniteSet(AllBits)
      BY <3>1, FS_Interval DEF AllBits
    <3> HIDE DEF B
    <3> QED
      BY <2>2, <3>2, FS_Subset
  <2>4. \A o \in B : /\ i * Width + o \in Members
                     /\ IdxOf(i * Width + o) = i /\ OffsOf(i * Width + o) = o
    <3>1. \A o \in B : HasBit(s, i, o)
      BY <1>2, <2>1 DEF HasBit
    <3>2. \A o \in B : i * Width + o \in Members
      BY <1>w, <3>1 DEF Within
    <3> HIDE DEF i, B
    <3> QED
      BY <2>2, <3>2, PartsMember
  <2>5. F \in Bijection(B, Of(j + 1))
    <3>1. Of(j + 1) = {x \in Members : i = IdxOf(x) /\ OffsOf(x) \in B}
      OBVIOUS
    <3> HIDE DEF i, B
    <3>2. \A x \in Of(j + 1) : x = F[OffsOf(x)] /\ OffsOf(x) \in B
      BY <3>1, MemberParts
    <3> HIDE DEF Of
    <3>3. F \in [B -> Of(j + 1)]
      BY <2>4, <3>1
    <3>4. \A o, p \in B : F[o] = F[p] => o = p
      BY <2>4
    <3>5. \A x \in Of(j + 1) : \E o \in B : F[o] = x
      BY <3>2
    <3> HIDE DEF F
    <3> QED
      BY <3>3, <3>4, <3>5 DEF Bijection, Injection, Surjection, IsInjective
  <2>6. IsFiniteSet(Of(j + 1)) /\ Cardinality(Of(j + 1)) = Cardinality(B)
    <3> HIDE DEF F, B, Of
    <3>1. ExistsBijection(B, Of(j + 1))
      BY <2>5 DEF ExistsBijection
    <3> QED
      BY <2>3, <3>1, FS_Bijection
  <2>7. Held(j + 1) = Held(j) \cup Of(j + 1)
    BY <1>2, <2>1
  <2>8. Held(j) \cap Of(j + 1) = {}
    <3>1. \A k \in 1 .. j : s[k].index # s[j + 1].index
      <4>1. ASSUME NEW k \in 1 .. j PROVE s[k].index # s[j + 1].index
        <5>1. k \in 1 .. Len(s) /\ k < j + 1
          BY <1>2, <2>1
        <5> QED
          BY <1>2, <2>1, <5>1
      <4> QED
        BY <4>1
    <3> QED
      BY <3>1
  <2>9. after[j + 1] = after[j] + Cardinality(B)
    BY <1>1, <2>1
  <2>10. IsFiniteSet(Held(j)) /\ after[j] = Cardinality(Held(j))
    BY <1>4
  <2> HIDE DEF Held, Of, B
  <2>11. IsFiniteSet(Held(j + 1))
         /\ Cardinality(Held(j + 1)) = Cardinality(Held(j)) + Cardinality(Of(j + 1)) - Cardinality({})
    BY <2>6, <2>7, <2>8, <2>10, FS_Union
  <2>12. Cardinality(Held(j)) \in Nat /\ Cardinality(Of(j + 1)) \in Nat /\ Cardinality({}) = 0
    BY <2>6, <2>10, FS_CardinalityType, FS_EmptySet
  <2> QED
    BY <1>2, <2>1, <2>6, <2>9, <2>10, <2>11, <2>12
<1>5. Len(s) \in T
  <2>1. \A j \in 0 .. Len(s) - 1 : j \in T => j + 1 \in T
    BY <1>4
  <2> HIDE DEF T, s
  <2>2. 0 .. Len(s) \subseteq T
    BY <1>2, <1>3, <2>1, Upwards
  <2> QED
    BY <1>2, <2>2
<1>6. Content(b) = Held(Len(s))
  <2>1. Content(b) = {x \in Members : HasBit(s, IdxOf(x), OffsOf(x))}
    BY ContentIs
  <2> HIDE DEF s
  <2> QED
    BY <1>2, <2>1 DEF HasBit
<1>7. QED
  <2> HIDE DEF Held, s
  <2> QED
    BY <1>1, <1>5, <1>6 DEF s

LEMMA EmptyMeaning ==
  ASSUME NEW b \in Bitmaps(FALSE), Canonical(b.elms), Within(b.elms)
  PROVE  IsEmpty(b) <=> Content(b) = {}
<1>1. IsFiniteSet(Content(b)) /\ Count(b) = Cardinality(Content(b))
  BY CountMeaning
<1>2. QED
  BY <1>1, FS_EmptySet DEF IsEmpty

----------------------------------------------------------------------------
(* The operators of two bitmaps *)
LEMMA WithElms ==
  ASSUME NEW full \in BOOLEAN, NEW b \in Bitmaps(full), NEW l \in Seq(Nodes)
  PROVE  LET t == [b EXCEPT !.elms = l] IN
         /\ t \in Bitmaps(full) /\ t.elms = l
<1>1. b \in [full : {full}, elms : Seq(Nodes)]
  BY DEF Bitmaps
<1>2. QED
  BY <1>1 DEF Bitmaps

LEMMA OrIntoType ==
  ASSUME NEW full \in BOOLEAN, NEW b \in Bitmaps(full), NEW g \in BOOLEAN, NEW c \in Bitmaps(g)
  PROVE  OrInto(b, c) \in Bitmaps(full)
<1> DEFINE l == OrMerge(b.elms, c.elms, b.full)
<1>1. b.elms \in Seq(Nodes) /\ b.full \in BOOLEAN /\ c.elms \in Seq(Nodes)
  BY DEF Bitmaps
<1>2. l \in Seq(Nodes)
  BY <1>1, OrMergeType
<1>3. OrInto(b, c) = IF IsEmpty(c) THEN b ELSE [b EXCEPT !.elms = l]
  BY DEF OrInto
<1> HIDE DEF l
<1>4. QED
  BY <1>2, <1>3, WithElms

LEMMA OrIntoMeaning ==
  ASSUME NEW b \in Bitmaps(FALSE), Canonical(b.elms), Within(b.elms),
         NEW c \in Bitmaps(FALSE), Canonical(c.elms), Within(c.elms)
  PROVE  LET t == OrInto(b, c) IN
         /\ Canonical(t.elms) /\ Within(t.elms)
         /\ Content(t) = Content(b) \cup Content(c)
<1> DEFINE l == OrMerge(b.elms, c.elms, FALSE)
           t == OrInto(b, c)
<1>1. CASE IsEmpty(c)
  <2>1. t = b /\ Content(c) = {}
    BY <1>1, EmptyMeaning DEF OrInto
  <2> HIDE DEF t
  <2>2. Canonical(t.elms) /\ Within(t.elms) /\ Content(t) = Content(b) \cup Content(c)
    BY <2>1
  <2> QED
    BY <2>2 DEF t
<1>2. CASE ~IsEmpty(c)
  <2>1. /\ Canonical(l)
        /\ \A i, o : HasBit(l, i, o) <=> HasBit(b.elms, i, o) \/ HasBit(c.elms, i, o)
    BY OrMergeMeaning
  <2>2. b.full = FALSE
    BY DEF Bitmaps
  <2>3. t = [b EXCEPT !.elms = l]
    BY <1>2, <2>2 DEF OrInto
  <2> HIDE DEF l, t
  <2>4. t.elms = l
    BY <2>1, <2>3, WithElms DEF Canonical
  <2>5. Canonical(t.elms) /\ Within(t.elms)
    BY <2>1, <2>4 DEF Within
  <2>6. Content(t) = {x \in Members : HasBit(t.elms, IdxOf(x), OffsOf(x))}
    BY <2>5, ContentIs
  <2>7. /\ Content(b) = {x \in Members : HasBit(b.elms, IdxOf(x), OffsOf(x))}
        /\ Content(c) = {x \in Members : HasBit(c.elms, IdxOf(x), OffsOf(x))}
    BY ContentIs
  <2>8. Content(t) = Content(b) \cup Content(c)
    BY <2>1, <2>4, <2>6, <2>7
  <2> QED
    BY <2>5, <2>8 DEF t
<1>3. QED
  BY <1>1, <1>2

LEMMA AndIntoType ==
  ASSUME NEW full \in BOOLEAN, NEW b \in Bitmaps(full), NEW g \in BOOLEAN, NEW c \in Bitmaps(g),
         ~full => Canonical(b.elms)
  PROVE  AndInto(b, c) \in Bitmaps(full)
<1> DEFINE l == IF full THEN AndMergeFull(b.elms, c.elms) ELSE AndMerge(b.elms, c.elms)
<1>1. b.elms \in Seq(Nodes) /\ b.full = full /\ c.elms \in Seq(Nodes)
  BY DEF Bitmaps
<1>2. full => AndMergeFull(b.elms, c.elms) \in Seq(Nodes)
  BY <1>1, AndFullType
<1>3. ~full => AndMerge(b.elms, c.elms) \in Seq(Nodes)
  <2>1. ASSUME ~full PROVE Canonical(AndMerge(b.elms, c.elms))
    BY <1>1, <2>1, AndMergeMeaning
  <2> QED
    BY <2>1 DEF Canonical
<1>4. l \in Seq(Nodes)
  BY <1>2, <1>3
<1>5. AndInto(b, c) = [b EXCEPT !.elms = l]
  BY <1>1 DEF AndInto
<1> HIDE DEF l
<1>6. QED
  BY <1>4, <1>5, WithElms

(* Where the last node of a list is *)
LEMMA LastPlace ==
  ASSUME NEW b \in Bitmaps(FALSE), NEW c \in Bitmaps(FALSE), LastIdx(b) <= LastIdx(c)
  PROVE  Len(b.elms) > 0 => /\ Len(c.elms) > 0
                            /\ b.elms[Len(b.elms)].index <= c.elms[Len(c.elms)].index
<1> DEFINE s == b.elms
           r == c.elms
<1>1. s \in Seq(Nodes) /\ r \in Seq(Nodes)
  BY DEF Bitmaps
<1>2. /\ LastIdx(b) = IF s = <<>> THEN -1 ELSE s[Len(s)].index
      /\ LastIdx(c) = IF r = <<>> THEN -1 ELSE r[Len(r)].index
  BY DEF LastIdx
<1> HIDE DEF s, r
<1>3. ASSUME Len(s) > 0 PROVE Len(r) > 0 /\ s[Len(s)].index <= r[Len(r)].index
  <2>1. s # <<>> /\ s[Len(s)].index \in Nat
    BY <1>1, <1>3, ListFacts
  <2>2. r # <<>>
    BY <1>2, <2>1
  <2>3. Len(r) > 0
    BY <1>1, <2>2
  <2> QED
    BY <1>2, <2>1, <2>2, <2>3
<1>4. QED
  BY <1>3 DEF s, r

LEMMA AndIntoMeaning ==
  ASSUME NEW b \in Bitmaps(FALSE), Canonical(b.elms), Within(b.elms),
         NEW g \in BOOLEAN, NEW c \in Bitmaps(g)
  PROVE  LET t == AndInto(b, c) IN
         /\ Canonical(t.elms) /\ Within(t.elms)
         /\ Content(t) \subseteq Content(b)
         /\ Len(c.elms) = 0 => Content(t) = Content(b)
         /\ Canonical(c.elms) => Content(b) \cap Content(c) \subseteq Content(t)
         /\ Canonical(c.elms) /\ ~g /\ LastIdx(b) <= LastIdx(c) => Content(t) \subseteq Content(c)
<1> DEFINE l == AndMerge(b.elms, c.elms)
           t == AndInto(b, c)
<1>1. b.elms \in Seq(Nodes) /\ b.full = FALSE /\ c.elms \in Seq(Nodes)
  BY DEF Bitmaps
<1>2. /\ Canonical(l)
      /\ \A i, o : HasBit(l, i, o) => HasBit(b.elms, i, o)
      /\ Len(c.elms) = 0 => \A i, o : HasBit(b.elms, i, o) => HasBit(l, i, o)
      /\ Canonical(c.elms) => \A i, o : HasBit(b.elms, i, o) /\ HasBit(c.elms, i, o) => HasBit(l, i, o)
      /\ Canonical(c.elms) /\ (Len(b.elms) > 0 => /\ Len(c.elms) > 0
                                                  /\ b.elms[Len(b.elms)].index <= c.elms[Len(c.elms)].index) =>
           \A i, o : HasBit(l, i, o) => HasBit(c.elms, i, o)
  BY <1>1, AndMergeMeaning
<1>3. t = [b EXCEPT !.elms = l]
  BY <1>1 DEF AndInto
<1> HIDE DEF l, t
<1>4. t.elms = l
  BY <1>2, <1>3, WithElms DEF Canonical
<1>5. Canonical(t.elms) /\ Within(t.elms)
  BY <1>2, <1>4 DEF Within
<1>6. /\ Content(t) = {x \in Members : HasBit(l, IdxOf(x), OffsOf(x))}
      /\ Content(b) = {x \in Members : HasBit(b.elms, IdxOf(x), OffsOf(x))}
  BY <1>4, <1>5, ContentIs
<1>7. Content(t) \subseteq Content(b) /\ (Len(c.elms) = 0 => Content(t) = Content(b))
  BY <1>2, <1>6
<1>8. ASSUME Canonical(c.elms)
      PROVE  /\ Content(b) \cap Content(c) \subseteq Content(t)
             /\ ~g /\ LastIdx(b) <= LastIdx(c) => Content(t) \subseteq Content(c)
  <2>1. Content(c) = {x \in Members : HasBit(c.elms, IdxOf(x), OffsOf(x))}
    BY <1>8, ContentIs
  <2>2. Content(b) \cap Content(c) \subseteq Content(t)
    BY <1>2, <1>6, <1>8, <2>1
  <2>3. ASSUME ~g, LastIdx(b) <= LastIdx(c) PROVE Content(t) \subseteq Content(c)
    <3>1. Len(b.elms) > 0 => Len(c.elms) > 0 /\ b.elms[Len(b.elms)].index <= c.elms[Len(c.elms)].index
      BY <2>3, LastPlace
    <3>2. \A i, o : HasBit(l, i, o) => HasBit(c.elms, i, o)
      BY <1>2, <1>8, <3>1
    <3> QED
      BY <1>6, <2>1, <3>2
  <2> QED
    BY <2>2, <2>3
<1>9. QED
  BY <1>5, <1>7, <1>8 DEF t

LEMMA MinusIntoType ==
  ASSUME NEW full \in BOOLEAN, NEW b \in Bitmaps(full), NEW g \in BOOLEAN, NEW c \in Bitmaps(g)
  PROVE  /\ MinusInto(b, c) \in Bitmaps(full)
         /\ ~full => MinusInto(b, c) = b
<1> DEFINE r == c.elms
           l == IF full THEN b.elms \o Complements(r) ELSE b.elms
<1>1. b.elms \in Seq(Nodes) /\ b.full = full /\ r \in Seq(Nodes)
  BY DEF Bitmaps
<1>2. Complements(r) \in Seq(Nodes)
  <2> HIDE DEF r
  <2>1. Complements(r) = [k \in 1 .. Len(r) |-> NodeMinus(Node(r[k].index, TRUE), r[k])] /\ Len(r) \in Nat
    BY <1>1, ListFacts DEF Complements
  <2>2. ASSUME NEW k \in 1 .. Len(r) PROVE NodeMinus(Node(r[k].index, TRUE), r[k]) \in Nodes
    <3>1. r[k].index \in Nat
      BY <1>1, ListFacts
    <3> QED
      BY <3>1 DEF NodeMinus, Node, Nodes
  <2> DEFINE N(k) == NodeMinus(Node(r[k].index, TRUE), r[k])
  <2>3. \A k \in 1 .. Len(r) : N(k) \in Nodes
    BY <2>2
  <2>4. Complements(r) = [k \in 1 .. Len(r) |-> N(k)]
    BY <2>1
  <2>5. Len(r) \in Nat
    BY <2>1
  <2> HIDE DEF N
  <2> DEFINE m == Len(r)
  <2>6. m \in Nat /\ \A k \in 1 .. m : N(k) \in Nodes
    BY <2>3, <2>5
  <2> HIDE DEF m
  <2>8. [k \in 1 .. m |-> N(k)] \in Seq(Nodes)
    BY <2>6
  <2> QED
    BY <2>4, <2>8 DEF m
<1>3. l \in Seq(Nodes)
  <2> HIDE DEF r
  <2> QED
    BY <1>1, <1>2
<1>4. MinusInto(b, c) = IF IsEmpty(c) THEN b ELSE [b EXCEPT !.elms = l]
  BY <1>1 DEF MinusInto
<1>5. ~full => [b EXCEPT !.elms = l] = b
  <2>1. b \in [full : {full}, elms : Seq(Nodes)]
    BY DEF Bitmaps
  <2> QED
    BY <2>1
<1> HIDE DEF l
<1>6. QED
  BY <1>3, <1>4, <1>5, WithElms

(* What a good set is made of *)
LEMMA GoodFacts ==
  ASSUME NEW s \in GoodSets
  PROVE  /\ s \in SetType /\ s.universe \in BOOLEAN
         /\ s.bottom \in Bitmaps(FALSE) /\ Canonical(s.bottom.elms) /\ Within(s.bottom.elms)
         /\ s.all \in Bitmaps(TRUE)
         /\ Part(s) \in Bitmaps(s.universe)
         /\ s.universe => Part(s) = s.all
         /\ ~s.universe => Part(s) = s.bottom
<1>1. s \in SetType /\ Canonical(s.bottom.elms) /\ Within(s.bottom.elms)
  BY DEF GoodSets
<1>2. s.universe \in BOOLEAN /\ s.bottom \in Bitmaps(FALSE) /\ s.all \in Bitmaps(TRUE)
  BY <1>1, PutType
<1>3. Part(s) = IF s.universe THEN s.all ELSE s.bottom
  BY DEF Part
<1>4. QED
  BY <1>1, <1>2, <1>3

(* A set with its universe flag, its bottom or its other bitmap replaced *)
LEMMA WithAll ==
  ASSUME NEW s \in GoodSets, NEW y \in Bitmaps(TRUE),
         NEW t, t = [s EXCEPT !.all = y]
  PROVE  t \in GoodSets /\ t.universe = s.universe
<1>1. /\ s.universe \in BOOLEAN /\ s.all \in Bitmaps(TRUE) /\ s.bottom \in Bitmaps(FALSE)
      /\ Canonical(s.bottom.elms) /\ Within(s.bottom.elms)
      /\ s \in [universe : BOOLEAN, bottom : Bitmaps(FALSE), all : Bitmaps(TRUE)]
  BY GoodFacts DEF SetType
<1>2. t = [universe |-> s.universe, bottom |-> s.bottom, all |-> y]
  BY <1>1
<1>3. [universe |-> s.universe, bottom |-> s.bottom, all |-> y] \in GoodSets
  BY <1>1, RecordGood
<1>4. QED
  BY <1>2, <1>3

LEMMA WithUniverse ==
  ASSUME NEW s \in GoodSets, NEW y \in Bitmaps(TRUE),
         NEW t, t = [s EXCEPT !.universe = TRUE, !.all = y]
  PROVE  t \in GoodSets /\ t.universe = TRUE
<1>1. /\ s.universe \in BOOLEAN /\ s.all \in Bitmaps(TRUE) /\ s.bottom \in Bitmaps(FALSE)
      /\ Canonical(s.bottom.elms) /\ Within(s.bottom.elms)
      /\ s \in [universe : BOOLEAN, bottom : Bitmaps(FALSE), all : Bitmaps(TRUE)]
  BY GoodFacts DEF SetType
<1>2. t = [universe |-> TRUE, bottom |-> s.bottom, all |-> y]
  BY <1>1
<1>3. [universe |-> TRUE, bottom |-> s.bottom, all |-> y] \in GoodSets
  BY <1>1, RecordGood
<1>4. QED
  BY <1>2, <1>3

LEMMA WithBottom ==
  ASSUME NEW s \in GoodSets, NEW x \in Bitmaps(FALSE),
         Canonical(x.elms), Within(x.elms),
         NEW t, t = [s EXCEPT !.bottom = x]
  PROVE  t \in GoodSets /\ (t.universe <=> s.universe) /\ t.bottom = x
<1>1. /\ s.universe \in BOOLEAN /\ s.all \in Bitmaps(TRUE) /\ s.bottom \in Bitmaps(FALSE)
      /\ Canonical(s.bottom.elms) /\ Within(s.bottom.elms)
      /\ s \in [universe : BOOLEAN, bottom : Bitmaps(FALSE), all : Bitmaps(TRUE)]
  BY GoodFacts DEF SetType
<1>2. t = [universe |-> s.universe, bottom |-> x, all |-> s.all]
  BY <1>1
<1>3. [universe |-> s.universe, bottom |-> x, all |-> s.all] \in GoodSets
  BY <1>1, RecordGood
<1>4. QED
  BY <1>2, <1>3

LEMMA WithoutUniverse ==
  ASSUME NEW s \in GoodSets, NEW x \in Bitmaps(FALSE),
         Canonical(x.elms), Within(x.elms),
         NEW t, t = [s EXCEPT !.universe = FALSE, !.bottom = x]
  PROVE  t \in GoodSets /\ t.universe = FALSE /\ t.bottom = x
<1>1. /\ s.universe \in BOOLEAN /\ s.all \in Bitmaps(TRUE) /\ s.bottom \in Bitmaps(FALSE)
      /\ Canonical(s.bottom.elms) /\ Within(s.bottom.elms)
      /\ s \in [universe : BOOLEAN, bottom : Bitmaps(FALSE), all : Bitmaps(TRUE)]
  BY GoodFacts DEF SetType
<1>2. t = [universe |-> FALSE, bottom |-> x, all |-> s.all]
  BY <1>1
<1>3. [universe |-> FALSE, bottom |-> x, all |-> s.all] \in GoodSets
  BY <1>1, RecordGood
<1>4. QED
  BY <1>2, <1>3

LEMMA CombinedUniverse ==
  ASSUME NEW op \in {"|", "-", "&"}, NEW b \in Bitmaps(TRUE), NEW g \in BOOLEAN, NEW c \in Bitmaps(g)
  PROVE  Combined(op, b, c) \in Bitmaps(TRUE)
<1>1. /\ OrInto(b, c) \in Bitmaps(TRUE) /\ AndInto(b, c) \in Bitmaps(TRUE)
      /\ MinusInto(b, c) \in Bitmaps(TRUE)
  BY OrIntoType, AndIntoType, MinusIntoType
<1>2. QED
  BY <1>1 DEF Combined

(* An operator on a universe leaves one. *)
LEMMA UniverseKeeps ==
  ASSUME NEW s \in GoodSets, s.universe, NEW op \in {"|", "-", "&"}, NEW g \in BOOLEAN, NEW c \in Bitmaps(g)
  PROVE  /\ UniverseOp(op, s, c) \in GoodSets /\ UniverseOp(op, s, c).universe
         /\ SetOp(op, s, c) = UniverseOp(op, s, c)
<1>1. Combined(op, s.all, c) \in Bitmaps(TRUE)
  BY GoodFacts, CombinedUniverse
<1>2. UniverseOp(op, s, c) = [s EXCEPT !.all = Combined(op, s.all, c)]
  BY DEF UniverseOp
<1>3. UniverseOp(op, s, c) \in GoodSets /\ UniverseOp(op, s, c).universe
  BY <1>1, <1>2, WithAll
<1>4. QED
  BY <1>3 DEF SetOp

LEMMA UniversesMeet ==
  ASSUME NEW s \in GoodSets, s.universe, NEW q \in GoodSets, NEW t, t = SetOp("&", s, Part(q))
  PROVE  t \in GoodSets /\ t.universe
<1>1. q.universe \in BOOLEAN /\ Part(q) \in Bitmaps(q.universe)
  BY GoodFacts
<1> DEFINE c == Part(q)
           g == q.universe
<1> HIDE DEF c, g
<1>2. g \in BOOLEAN /\ c \in Bitmaps(g)
  BY <1>1 DEF c, g
<1>3. UniverseOp("&", s, c) \in GoodSets /\ UniverseOp("&", s, c).universe
      /\ SetOp("&", s, c) = UniverseOp("&", s, c)
  BY <1>2, UniverseKeeps
<1>4. t = UniverseOp("&", s, c)
  BY <1>3 DEF c
<1>5. QED
  BY <1>3, <1>4

LEMMA BottomOr ==
  ASSUME NEW s \in GoodSets, ~s.universe, NEW q \in GoodSets, ~q.universe
  PROVE  LET t == SetOp("|", s, Part(q)) IN
         /\ t \in GoodSets /\ ~t.universe
         /\ Content(t.bottom) = Content(s.bottom) \cup Content(q.bottom)
<1> DEFINE x == OrInto(s.bottom, q.bottom)
           t == SetOp("|", s, Part(q))
<1>1. /\ x \in Bitmaps(FALSE) /\ Canonical(x.elms) /\ Within(x.elms)
      /\ Content(x) = Content(s.bottom) \cup Content(q.bottom)
  BY GoodFacts, OrIntoType, OrIntoMeaning
<1>2. t = [s EXCEPT !.bottom = x]
  BY GoodFacts DEF SetOp, BottomOp, Combined
<1> HIDE DEF x, t
<1>3. t \in GoodSets /\ ~t.universe /\ t.bottom = x
  BY <1>1, <1>2, WithBottom
<1>4. QED
  BY <1>1, <1>3 DEF t

(* +=, |= and operator+ *)
LEMMA SumIntoGood ==
  ASSUME NEW s \in GoodSets, NEW q \in GoodSets
  PROVE  LET t == SumInto(s, q) IN
         /\ t \in GoodSets /\ (t.universe <=> s.universe \/ q.universe)
         /\ ~t.universe => Content(t.bottom) = Content(s.bottom) \cup Content(q.bottom)
<1> DEFINE t == SumInto(s, q)
<1>1. CASE s.universe
  <2>1. t = SetOp("|", s, Part(q))
    BY <1>1 DEF SumInto
  <2>2. SetOp("|", s, Part(q)) \in GoodSets /\ SetOp("|", s, Part(q)).universe
    <3>1. q.universe \in BOOLEAN /\ Part(q) \in Bitmaps(q.universe)
      BY GoodFacts
    <3> QED
      BY <1>1, <3>1, UniverseKeeps
  <2> HIDE DEF t
  <2>3. t \in GoodSets /\ t.universe
    BY <2>1, <2>2
  <2> QED
    BY <1>1, <2>3 DEF t
<1>2. CASE ~s.universe /\ q.universe
  <2> DEFINE y == OrInto(q.all, s.bottom)
  <2>1. y \in Bitmaps(TRUE)
    BY GoodFacts, OrIntoType
  <2>2. t = [s EXCEPT !.universe = TRUE, !.all = y]
    BY <1>2 DEF SumInto
  <2> HIDE DEF y, t
  <2>3. t \in GoodSets /\ t.universe
    BY <2>1, <2>2, WithUniverse
  <2> QED
    BY <1>2, <2>3 DEF t
<1>3. CASE ~s.universe /\ ~q.universe
  <2>1. t = SetOp("|", s, Part(q))
    BY <1>3 DEF SumInto
  <2> QED
    BY <1>3, <2>1, BottomOr
<1>4. QED
  BY <1>1, <1>2, <1>3

LEMMA SumGood ==
  ASSUME NEW s \in GoodSets, NEW q \in GoodSets
  PROVE  LET t == Sum(s, q) IN
         /\ t \in GoodSets /\ (t.universe <=> s.universe \/ q.universe)
         /\ ~t.universe => Content(t.bottom) = Content(s.bottom) \cup Content(q.bottom)
<1>1. CASE ~s.universe /\ q.universe
  <2> DEFINE t == Sum(s, q)
  <2>1. t = UniverseOp("|", q, s.bottom)
    BY <1>1 DEF Sum
  <2>2. UniverseOp("|", q, s.bottom) \in GoodSets /\ UniverseOp("|", q, s.bottom).universe
    BY <1>1, GoodFacts, UniverseKeeps
  <2> HIDE DEF t
  <2>3. t \in GoodSets /\ t.universe
    BY <2>1, <2>2
  <2> QED
    BY <1>1, <2>3 DEF t
<1>2. CASE ~(~s.universe /\ q.universe)
  <2>1. Sum(s, q) = SumInto(s, q)
    BY <1>2 DEF Sum
  <2> QED
    BY <2>1, SumIntoGood
<1>3. QED
  BY <1>1, <1>2

(* -= and operator-: a bottom set stays as it is. *)
LEMMA DiffGood ==
  ASSUME NEW s \in GoodSets, NEW q \in GoodSets
  PROVE  LET t == DiffInto(s, q) IN
         /\ t \in GoodSets /\ (t.universe <=> s.universe)
         /\ ~t.universe => t.bottom = s.bottom
<1> DEFINE t == DiffInto(s, q)
<1>0. q.universe \in BOOLEAN /\ Part(q) \in Bitmaps(q.universe)
  BY GoodFacts
<1>1. t = SetOp("-", s, Part(q))
  BY DEF DiffInto
<1>2. CASE s.universe
  <2>1. SetOp("-", s, Part(q)) \in GoodSets /\ SetOp("-", s, Part(q)).universe
    BY <1>0, <1>2, UniverseKeeps
  <2> HIDE DEF t
  <2>2. t \in GoodSets /\ t.universe
    BY <1>1, <2>1
  <2> QED
    BY <1>2, <2>2 DEF t
<1>3. CASE ~s.universe
  <2> DEFINE x == MinusInto(s.bottom, Part(q))
  <2>1. t = [s EXCEPT !.bottom = x]
    BY <1>1, <1>3 DEF SetOp, BottomOp, Combined
  <2>2. x = s.bottom
    BY <1>0, GoodFacts, MinusIntoType
  <2>3. s.bottom \in Bitmaps(FALSE) /\ Canonical(s.bottom.elms) /\ Within(s.bottom.elms)
    BY GoodFacts
  <2> HIDE DEF x, t
  <2>4. t \in GoodSets /\ ~t.universe /\ t.bottom = s.bottom
    BY <1>3, <2>1, <2>2, <2>3, WithBottom
  <2> QED
    BY <1>3, <2>4 DEF t
<1>4. QED
  BY <1>2, <1>3

(* The meet of a bottom set with any set *)
LEMMA BottomMeet ==
  ASSUME NEW s \in GoodSets, ~s.universe, NEW q \in GoodSets
  PROVE  LET t == BottomOp("&", s, Part(q)) IN
         /\ t \in GoodSets /\ ~t.universe
         /\ Content(t.bottom) \subseteq Content(s.bottom)
         /\ q.universe /\ q.all.elms = <<>> => Content(t.bottom) = Content(s.bottom)
         /\ ~q.universe => Content(s.bottom) \cap Content(q.bottom) \subseteq Content(t.bottom)
         /\ ~q.universe /\ LastIdx(s.bottom) <= LastIdx(q.bottom) =>
              Content(t.bottom) \subseteq Content(q.bottom)
<1> DEFINE c == Part(q)
           x == AndInto(s.bottom, c)
           t == BottomOp("&", s, c)
<1>0. /\ q.universe \in BOOLEAN /\ c \in Bitmaps(q.universe)
      /\ q.universe => c = q.all
      /\ ~q.universe => c = q.bottom /\ Canonical(c.elms)
  BY GoodFacts
<1>1. s.bottom \in Bitmaps(FALSE) /\ Canonical(s.bottom.elms) /\ Within(s.bottom.elms)
  BY GoodFacts
<1> HIDE DEF c
<1>2. /\ x \in Bitmaps(FALSE) /\ Canonical(x.elms) /\ Within(x.elms)
      /\ Content(x) \subseteq Content(s.bottom)
      /\ Len(c.elms) = 0 => Content(x) = Content(s.bottom)
      /\ Canonical(c.elms) => Content(s.bottom) \cap Content(c) \subseteq Content(x)
      /\ Canonical(c.elms) /\ ~q.universe /\ LastIdx(s.bottom) <= LastIdx(c) => Content(x) \subseteq Content(c)
  BY <1>0, <1>1, AndIntoType, AndIntoMeaning
<1>3. t = [s EXCEPT !.bottom = x]
  BY DEF BottomOp, Combined
<1> HIDE DEF x, t
<1>4. t \in GoodSets /\ ~t.universe /\ t.bottom = x
  BY <1>2, <1>3, WithBottom
<1>5. q.universe /\ q.all.elms = <<>> => Len(c.elms) = 0
  BY <1>0
<1>6. QED
  BY <1>0, <1>2, <1>4, <1>5 DEF t, c

----------------------------------------------------------------------------
(* The invariant, as a statement about each of the sets *)
LEMMA GoodIs ==
  ASSUME NEW s
  PROVE  s \in GoodSets <=>
           /\ s \in [universe : BOOLEAN,
                     bottom : [full : {FALSE}, elms : Seq(Nodes)],
                     all : [full : {TRUE}, elms : Seq(Nodes)]]
           /\ Sorted(s.bottom.elms) /\ NoneEmpty(s.bottom.elms)
           /\ \A k \in DOMAIN s.bottom.elms : \A o \in s.bottom.elms[k].bits :
                s.bottom.elms[k].index * Width + o \in Members
<1> DEFINE l == s.bottom.elms
           In == \A k \in DOMAIN l : \A o \in l[k].bits : l[k].index * Width + o \in Members
<1>1. SetType = [universe : BOOLEAN,
                 bottom : [full : {FALSE}, elms : Seq(Nodes)],
                 all : [full : {TRUE}, elms : Seq(Nodes)]]
  BY DEF SetType, Bitmaps
<1>2. s \in GoodSets <=> s \in SetType /\ Canonical(l) /\ Within(l)
  BY DEF GoodSets
<1>3. Within(l) <=> In
  BY DEF Within, HasBit
<1>4. s \in SetType => l \in Seq(Nodes)
  <2>1. s \in SetType => s.bottom \in Bitmaps(FALSE)
    BY PutType
  <2> QED
    BY <2>1 DEF Bitmaps
<1>5. Canonical(l) <=> l \in Seq(Nodes) /\ Sorted(l) /\ NoneEmpty(l)
  BY DEF Canonical
<1> HIDE DEF l, In
<1>6. s \in GoodSets <=> s \in SetType /\ Sorted(l) /\ NoneEmpty(l) /\ In
  BY <1>2, <1>3, <1>4, <1>5
<1>7. QED
  BY <1>1, <1>6 DEF l, In

Honest(s, i, g) ==
  ~s.universe => /\ g <= 1 => i \subseteq Content(s.bottom)
                 /\ g = 0 => Content(s.bottom) = i

Grades == 0 .. 2

SetRecords == [universe : BOOLEAN,
               bottom : [full : {FALSE}, elms : Seq(Nodes)],
               all : [full : {TRUE}, elms : Seq(Nodes)]]
Fine(l) == /\ Sorted(l) /\ NoneEmpty(l)
           /\ \A k \in DOMAIN l : \A o \in l[k].bits : l[k].index * Width + o \in Members

LEMMA GoodFunctions ==
  ASSUME NEW S
  PROVE  S \in [Regs -> GoodSets] <=> S \in [Regs -> SetRecords] /\ \A r \in Regs : Fine(S[r].bottom.elms)
<1>1. \A s : s \in GoodSets <=> s \in SetRecords /\ Fine(s.bottom.elms)
  BY GoodIs DEF SetRecords, Fine
<1>2. QED
  BY <1>1

InvForm(S, I, G) ==
  /\ S \in [Regs -> GoodSets] /\ I \in [Regs -> SUBSET Members] /\ G \in [Regs -> Grades]
  /\ \A r \in Regs : Honest(S[r], I[r], G[r])

LEMMA InvIs == SetsInv <=> InvForm(sets, ideal, grade)
<1>1. SetsHoldWhatTheyShould <=> \A r \in Regs : Honest(sets[r], ideal[r], grade[r])
  BY DEF SetsHoldWhatTheyShould, Honest
<1>2. SetsTypeOK <=> /\ sets \in [Regs -> SetRecords] /\ ideal \in [Regs -> SUBSET Members]
                     /\ grade \in [Regs -> Grades]
  BY DEF SetsTypeOK, SetRecords, Grades
<1>3. ListsCanonical /\ MembersOnly <=> \A r \in Regs : Fine(sets[r].bottom.elms)
  BY DEF ListsCanonical, MembersOnly, Fine
<1>4. QED
  BY <1>1, <1>2, <1>3, GoodFunctions DEF SetsInv, InvForm

LEMMA InvIsNext == SetsInv' <=> InvForm(sets', ideal', grade')
<1>1. SetsHoldWhatTheyShould' <=> \A r \in Regs : Honest(sets'[r], ideal'[r], grade'[r])
  BY DEF SetsHoldWhatTheyShould, Honest
<1>2. SetsTypeOK' <=> /\ sets' \in [Regs -> SetRecords] /\ ideal' \in [Regs -> SUBSET Members]
                      /\ grade' \in [Regs -> Grades]
  BY DEF SetsTypeOK, SetRecords, Grades
<1>3. (ListsCanonical /\ MembersOnly)' <=> \A r \in Regs : Fine(sets'[r].bottom.elms)
  BY DEF ListsCanonical, MembersOnly, Fine
<1>4. QED
  BY <1>1, <1>2, <1>3, GoodFunctions DEF SetsInv, InvForm

(* Every action stores a set of its making in a register. *)
LEMMA BecomesKeeps ==
  ASSUME SetsInv, NEW r \in Regs, NEW s \in GoodSets, NEW i \in SUBSET Members, NEW g \in Grades,
         Honest(s, i, g), Becomes(r, s, i, g)
  PROVE  SetsInv'
<1>1. /\ sets \in [Regs -> GoodSets] /\ ideal \in [Regs -> SUBSET Members]
      /\ grade \in [Regs -> Grades]
      /\ \A q \in Regs : Honest(sets[q], ideal[q], grade[q])
  BY InvIs DEF InvForm
<1> DEFINE new == IF ~s.universe /\ g = 2 THEN {} ELSE i
           h == IF s.universe THEN 0 ELSE g
<1>2. /\ sets' = [sets EXCEPT ![r] = s] /\ ideal' = [ideal EXCEPT ![r] = new]
      /\ grade' = [grade EXCEPT ![r] = h]
  BY DEF Becomes
<1>3. new \in SUBSET Members /\ h \in Grades /\ Honest(s, new, h)
  BY DEF Honest, Grades
<1> HIDE DEF new, h
<1>4. /\ sets' \in [Regs -> GoodSets] /\ ideal' \in [Regs -> SUBSET Members]
      /\ grade' \in [Regs -> Grades]
  BY <1>1, <1>2, <1>3
<1>5. ASSUME NEW q \in Regs PROVE Honest(sets'[q], ideal'[q], grade'[q])
  <2>1. CASE q = r
    <3>1. sets'[q] = s /\ ideal'[q] = new /\ grade'[q] = h
      BY <1>1, <1>2, <2>1
    <3> QED
      BY <1>3, <3>1
  <2>2. CASE q # r
    <3>1. sets'[q] = sets[q] /\ ideal'[q] = ideal[q] /\ grade'[q] = grade[q]
      BY <1>1, <1>2, <2>2
    <3> QED
      BY <1>1, <3>1
  <2> QED
    BY <2>1, <2>2
<1>6. QED
  BY <1>4, <1>5, InvIsNext DEF InvForm

LEMMA InitInv ==
  ASSUME SetsInit
  PROVE  SetsInv
<1> DEFINE x == Empty(FALSE)
           y == Empty(TRUE)
<1>1. /\ x \in Bitmaps(FALSE) /\ y \in Bitmaps(TRUE)
      /\ x.elms = <<>>
  BY DEF Empty, Bitmaps
<1> HIDE DEF x, y
<1>2. Canonical(x.elms) /\ \A i, o : ~HasBit(x.elms, i, o)
  <2>1. <<>> \in Seq(Nodes) /\ DOMAIN <<>> = {}
    OBVIOUS
  <2>2. Canonical(<<>>)
    BY <2>1 DEF Canonical, Sorted, NoneEmpty
  <2>3. \A i, o : ~HasBit(<<>>, i, o)
    BY <2>1 DEF HasBit
  <2> QED
    BY <1>1, <2>2, <2>3
<1>3. Within(x.elms) /\ Content(x) = {}
  BY <1>2, ContentIs DEF Within
<1>4. ASSUME NEW u \in BOOLEAN
      PROVE  NewSet(u) \in GoodSets /\ NewSet(u).universe = u /\ NewSet(u).bottom = x
  <2>1. NewSet(u) = [universe |-> u, bottom |-> x, all |-> y]
    BY DEF NewSet, x, y
  <2>2. [universe |-> u, bottom |-> x, all |-> y] \in GoodSets
    BY <1>1, <1>2, <1>3, RecordGood
  <2> QED
    BY <2>1, <2>2
<1>5. \A u \in BOOLEAN : NewSet(u) \in GoodSets /\ NewSet(u).universe = u /\ NewSet(u).bottom = x
  BY <1>4
<1>6. /\ sets \in [Regs -> {NewSet(TRUE), NewSet(FALSE)}]
      /\ ideal = [r \in Regs |-> IF sets[r].universe THEN Members ELSE {}]
      /\ grade = [r \in Regs |-> 0]
  BY DEF SetsInit
<1>7. sets \in [Regs -> GoodSets] /\ \A r \in Regs : sets[r].bottom = x
  BY <1>5, <1>6
<1>8. ideal \in [Regs -> SUBSET Members] /\ grade \in [Regs -> Grades]
  BY <1>6 DEF Grades
<1>9. ASSUME NEW r \in Regs PROVE Honest(sets[r], ideal[r], grade[r])
  <2>1. ~sets[r].universe => ideal[r] = {}
    BY <1>6
  <2> QED
    BY <1>3, <1>7, <2>1 DEF Honest
<1>10. QED
  BY <1>7, <1>8, <1>9, InvIs DEF InvForm

(* What the invariant says of the operands of an action *)
LEMMA Operand ==
  ASSUME SetsInv, NEW r \in Regs
  PROVE  /\ sets[r] \in GoodSets /\ ideal[r] \in SUBSET Members /\ grade[r] \in Grades
         /\ Honest(sets[r], ideal[r], grade[r])
  BY InvIs DEF InvForm

LEMMA AddMemberKeeps ==
  ASSUME SetsInv, NEW r \in Regs, NEW e \in Members, AddMember(r, e)
  PROVE  SetsInv'
<1> DEFINE t == Added(sets[r], e)
<1>1. /\ sets[r] \in GoodSets /\ ideal[r] \in SUBSET Members /\ grade[r] \in Grades
      /\ Honest(sets[r], ideal[r], grade[r])
  BY Operand
<1>2. /\ t \in GoodSets /\ t.universe = sets[r].universe
      /\ ~sets[r].universe => Content(t.bottom) = Content(sets[r].bottom) \cup {e}
  BY <1>1, AddedGood
<1>3. Becomes(r, t, ideal[r] \cup {e}, grade[r])
  BY DEF AddMember
<1> HIDE DEF t
<1>4. Honest(t, ideal[r] \cup {e}, grade[r]) /\ ideal[r] \cup {e} \in SUBSET Members
  BY <1>1, <1>2 DEF Honest
<1>5. QED
  BY <1>1, <1>2, <1>3, <1>4, BecomesKeeps

LEMMA RemoveMemberKeeps ==
  ASSUME SetsInv, NEW r \in Regs, NEW e \in Members, RemoveMember(r, e)
  PROVE  SetsInv'
<1> DEFINE t == Removed(sets[r], e)
<1>1. /\ sets[r] \in GoodSets /\ ideal[r] \in SUBSET Members /\ grade[r] \in Grades
      /\ Honest(sets[r], ideal[r], grade[r])
  BY Operand
<1>2. /\ t \in GoodSets /\ t.universe = sets[r].universe
      /\ ~sets[r].universe => Content(t.bottom) = Content(sets[r].bottom) \ {e}
  BY <1>1, RemovedGood
<1>3. Becomes(r, t, ideal[r] \ {e}, grade[r])
  BY DEF RemoveMember
<1> HIDE DEF t
<1>4. Honest(t, ideal[r] \ {e}, grade[r]) /\ ideal[r] \ {e} \in SUBSET Members
  BY <1>1, <1>2 DEF Honest
<1>5. QED
  BY <1>1, <1>2, <1>3, <1>4, BecomesKeeps

LEMMA RangesKeep ==
  ASSUME SetsInv, NEW r \in Regs, NEW e \in Members, NEW n \in Nat, Span(e, n) \subseteq Members,
         AddRange(r, e, n) \/ RemoveRange(r, e, n)
  PROVE  SetsInv'
<1>1. /\ sets[r] \in GoodSets /\ ideal[r] \in SUBSET Members /\ grade[r] \in Grades
      /\ Honest(sets[r], ideal[r], grade[r])
  BY Operand
<1>2. CASE AddRange(r, e, n)
  <2> DEFINE t == Each(Added, sets[r], e, n)
             i == ideal[r] \cup Span(e, n)
  <2>1. /\ t \in GoodSets /\ t.universe = sets[r].universe
        /\ ~sets[r].universe => Content(t.bottom) = Content(sets[r].bottom) \cup Span(e, n)
    BY <1>1, EachAdded
  <2>2. Becomes(r, t, i, grade[r])
    BY <1>2 DEF AddRange
  <2> HIDE DEF t
  <2>3. Honest(t, i, grade[r]) /\ i \in SUBSET Members
    BY <1>1, <2>1 DEF Honest
  <2> HIDE DEF i
  <2> QED
    BY <1>1, <2>1, <2>2, <2>3, BecomesKeeps
<1>3. CASE RemoveRange(r, e, n)
  <2> DEFINE t == Each(Removed, sets[r], e, n)
             i == ideal[r] \ Span(e, n)
  <2>1. /\ t \in GoodSets /\ t.universe = sets[r].universe
        /\ ~sets[r].universe => Content(t.bottom) = Content(sets[r].bottom) \ Span(e, n)
    BY <1>1, EachRemoved
  <2>2. Becomes(r, t, i, grade[r])
    BY <1>3 DEF RemoveRange
  <2> HIDE DEF t
  <2>3. Honest(t, i, grade[r]) /\ i \in SUBSET Members
    BY <1>1, <2>1 DEF Honest
  <2> HIDE DEF i
  <2> QED
    BY <1>1, <2>1, <2>2, <2>3, BecomesKeeps
<1>4. QED
  BY <1>2, <1>3

LEMMA WorseIs ==
  ASSUME NEW g \in Grades, NEW h \in Grades
  PROVE  /\ Worse(g, h) \in Grades /\ Worse(g, h) >= g /\ Worse(g, h) >= h
         /\ Over(g) \in Grades /\ Over(g) >= 1 /\ Over(g) >= g
  BY DEF Worse, Over, Grades

LEMMA AddSetKeeps ==
  ASSUME SetsInv, NEW r \in Regs, NEW p \in Regs, NEW q \in Regs, AddSet(r, p, q)
  PROVE  SetsInv'
<1>1. /\ sets[p] \in GoodSets /\ ideal[p] \in SUBSET Members /\ grade[p] \in Grades
      /\ Honest(sets[p], ideal[p], grade[p])
      /\ sets[q] \in GoodSets /\ ideal[q] \in SUBSET Members /\ grade[q] \in Grades
      /\ Honest(sets[q], ideal[q], grade[q])
  BY Operand
<1>2. PICK t \in {Sum(sets[p], sets[q]), SumInto(sets[p], sets[q])} :
        Becomes(r, t, ideal[p] \cup ideal[q], Worse(grade[p], grade[q]))
  BY DEF AddSet
<1>3. /\ t \in GoodSets /\ (t.universe <=> sets[p].universe \/ sets[q].universe)
      /\ ~t.universe => Content(t.bottom) = Content(sets[p].bottom) \cup Content(sets[q].bottom)
  <2> DEFINE x == sets[p]
             y == sets[q]
             SumIs(z) == /\ z \in GoodSets /\ (z.universe <=> x.universe \/ y.universe)
                         /\ ~z.universe => Content(z.bottom) = Content(x.bottom) \cup Content(y.bottom)
  <2> HIDE DEF x, y
  <2>1. x \in GoodSets /\ y \in GoodSets
    BY <1>1 DEF x, y
  <2>2. SumIs(Sum(x, y))
    BY <2>1, SumGood
  <2>3. SumIs(SumInto(x, y))
    BY <2>1, SumIntoGood
  <2> HIDE DEF SumIs
  <2>4. t \in {Sum(x, y), SumInto(x, y)}
    BY <1>2 DEF x, y
  <2>5. SumIs(t)
    BY <2>2, <2>3, <2>4
  <2> QED
    BY <2>5 DEF SumIs, x, y
<1> DEFINE g == Worse(grade[p], grade[q])
<1>4. g \in Grades /\ g >= grade[p] /\ g >= grade[q]
  BY <1>1, WorseIs
<1> HIDE DEF g
<1>5. Honest(t, ideal[p] \cup ideal[q], g)
  BY <1>1, <1>3, <1>4 DEF Honest, Grades
<1>6. QED
  BY <1>1, <1>2, <1>3, <1>4, <1>5, BecomesKeeps DEF g

LEMMA SubtractKeeps ==
  ASSUME SetsInv, NEW r \in Regs, NEW p \in Regs, NEW q \in Regs, Subtract(r, p, q)
  PROVE  SetsInv'
<1>1. /\ sets[p] \in GoodSets /\ ideal[p] \in SUBSET Members /\ grade[p] \in Grades
      /\ Honest(sets[p], ideal[p], grade[p])
      /\ sets[q] \in GoodSets /\ ideal[q] \in SUBSET Members /\ grade[q] \in Grades
  BY Operand
<1> DEFINE t == DiffInto(sets[p], sets[q])
           g == IF grade[q] = 2 THEN 2
                ELSE IF ideal[p] \cap ideal[q] = {} THEN grade[p] ELSE Over(grade[p])
           i == ideal[p] \ ideal[q]
<1>2. Becomes(r, t, i, g)
  BY DEF Subtract
<1>3. /\ t \in GoodSets /\ (t.universe <=> sets[p].universe)
      /\ ~t.universe => t.bottom = sets[p].bottom
  BY <1>1, DiffGood
<1>4. /\ g \in Grades /\ g >= grade[p]
      /\ g = 0 => ideal[p] \cap ideal[q] = {}
  BY <1>1, WorseIs DEF Grades
<1> HIDE DEF t, g
<1>5. Honest(t, i, g) /\ i \in SUBSET Members
  BY <1>1, <1>3, <1>4 DEF Honest, Grades
<1> HIDE DEF i
<1>6. QED
  BY <1>2, <1>3, <1>4, <1>5, BecomesKeeps

LEMMA LastIs ==
  ASSUME NEW b \in Bitmaps(FALSE)
  PROVE  LastIdx(b) \in Int
<1>1. b.elms \in Seq(Nodes)
  BY DEF Bitmaps
<1>2. b.elms # <<>> => b.elms[Len(b.elms)].index \in Nat
  <2>1. b.elms # <<>> => Len(b.elms) \in 1 .. Len(b.elms)
    BY <1>1
  <2> QED
    BY <1>1, <2>1, ListFacts
<1>3. QED
  BY <1>2 DEF LastIdx

(* A bottom set that met another one is worth what MeetGrade says. *)
LEMMA MeetWorth ==
  ASSUME SetsInv, NEW p \in Regs, NEW q \in Regs, ~sets[p].universe
  PROVE  LET t == BottomOp("&", sets[p], Part(sets[q])) IN
         /\ t \in GoodSets /\ ~t.universe
         /\ MeetGrade(p, q) \in Grades
         /\ Honest(t, ideal[p] \cap ideal[q], MeetGrade(p, q))
<1>1. /\ sets[p] \in GoodSets /\ ideal[p] \in SUBSET Members /\ grade[p] \in Grades
      /\ Honest(sets[p], ideal[p], grade[p])
      /\ sets[q] \in GoodSets /\ ideal[q] \in SUBSET Members /\ grade[q] \in Grades
      /\ Honest(sets[q], ideal[q], grade[q])
  BY Operand
<1> DEFINE t == BottomOp("&", sets[p], Part(sets[q]))
           g == MeetGrade(p, q)
           w == Worse(grade[p], grade[q])
           C == Content(sets[p].bottom)
           D == Content(sets[q].bottom)
<1>2. /\ t \in GoodSets /\ ~t.universe
      /\ Content(t.bottom) \subseteq C
      /\ sets[q].universe /\ sets[q].all.elms = <<>> => Content(t.bottom) = C
      /\ ~sets[q].universe => C \cap D \subseteq Content(t.bottom)
      /\ ~sets[q].universe /\ LastIdx(sets[p].bottom) <= LastIdx(sets[q].bottom) => Content(t.bottom) \subseteq D
  BY <1>1, BottomMeet
<1>3. /\ w \in Grades /\ w >= grade[p] /\ w >= grade[q]
      /\ Over(w) \in Grades /\ Over(w) >= 1 /\ Over(w) >= w
      /\ Over(grade[p]) \in Grades /\ Over(grade[p]) >= 1 /\ Over(grade[p]) >= grade[p]
  BY <1>1, WorseIs
<1>4. g = IF sets[q].universe
            THEN IF sets[q].all.elms # <<>> THEN 2
                 ELSE IF ideal[p] \subseteq ideal[q] THEN grade[p] ELSE Over(grade[p])
            ELSE IF LastIdx(sets[p].bottom) > LastIdx(sets[q].bottom) THEN Over(w) ELSE w
  BY DEF MeetGrade
<1> HIDE DEF t, g, w, C, D
<1>5. (grade[p] <= 1 => ideal[p] \subseteq C) /\ (grade[p] = 0 => C = ideal[p])
  BY <1>1 DEF Honest, C
<1>6. ~sets[q].universe => (grade[q] <= 1 => ideal[q] \subseteq D) /\ (grade[q] = 0 => D = ideal[q])
  BY <1>1 DEF Honest, D
<1>7. CASE sets[q].universe
  <2>1. CASE sets[q].all.elms # <<>>
    <3>1. g = 2
      BY <1>4, <1>7, <2>1
    <3> QED
      BY <1>2, <3>1 DEF Honest, Grades, t, g
  <2>2. CASE sets[q].all.elms = <<>>
    <3>1. g = IF ideal[p] \subseteq ideal[q] THEN grade[p] ELSE Over(grade[p])
      BY <1>4, <1>7, <2>2
    <3>2. Content(t.bottom) = C
      BY <1>2, <1>7, <2>2
    <3>3. g \in Grades /\ Honest(t, ideal[p] \cap ideal[q], g)
      BY <1>1, <1>3, <1>5, <3>1, <3>2 DEF Honest, Grades
    <3> QED
      BY <1>2, <3>3 DEF t, g
  <2> QED
    BY <2>1, <2>2
<1>8. CASE ~sets[q].universe
  <2>1. CASE LastIdx(sets[p].bottom) > LastIdx(sets[q].bottom)
    <3>1. g = Over(w)
      BY <1>4, <1>8, <2>1
    <3>2. g \in Grades /\ Honest(t, ideal[p] \cap ideal[q], g)
      BY <1>1, <1>2, <1>3, <1>5, <1>6, <1>8, <3>1 DEF Honest, Grades
    <3> QED
      BY <1>2, <3>2 DEF t, g
  <2>2. CASE ~(LastIdx(sets[p].bottom) > LastIdx(sets[q].bottom))
    <3>1. g = w
      BY <1>4, <1>8, <2>2
    <3>2. LastIdx(sets[p].bottom) <= LastIdx(sets[q].bottom)
      <4>1. sets[p].bottom \in Bitmaps(FALSE) /\ sets[q].bottom \in Bitmaps(FALSE)
        BY <1>1, GoodFacts
      <4>2. LastIdx(sets[p].bottom) \in Int /\ LastIdx(sets[q].bottom) \in Int
        BY <4>1, LastIs
      <4> QED
        BY <2>2, <4>2
    <3>3. g \in Grades /\ Honest(t, ideal[p] \cap ideal[q], g)
      BY <1>1, <1>2, <1>3, <1>5, <1>6, <1>8, <3>1, <3>2 DEF Honest, Grades
    <3> QED
      BY <1>2, <3>3 DEF t, g
  <2> QED
    BY <2>1, <2>2
<1>9. QED
  BY <1>7, <1>8

(* &= makes of a universe a copy of the bottom set. *)
LEMMA IntersectWithKeeps ==
  ASSUME SetsInv, NEW r \in Regs, NEW q \in Regs, IntersectWith(r, q)
  PROVE  SetsInv'
<1>1. /\ sets[r] \in GoodSets /\ ideal[r] \in SUBSET Members /\ grade[r] \in Grades
      /\ sets[q] \in GoodSets /\ ideal[q] \in SUBSET Members /\ grade[q] \in Grades
      /\ Honest(sets[q], ideal[q], grade[q])
  BY Operand
<1> DEFINE t == MeetInto(sets[r], sets[q])
           i == ideal[r] \cap ideal[q]
           g == IF ~sets[r].universe THEN MeetGrade(r, q)
                ELSE IF ideal[r] = Members THEN grade[q] ELSE Over(grade[q])
<1>2. Becomes(r, t, i, g) /\ i \in SUBSET Members
  BY <1>1 DEF IntersectWith
<1>3. /\ Over(grade[q]) \in Grades /\ Over(grade[q]) >= 1 /\ Over(grade[q]) >= grade[q]
  BY <1>1, WorseIs
<1>4. CASE ~sets[r].universe
  <2>1. t = BottomOp("&", sets[r], Part(sets[q])) /\ g = MeetGrade(r, q)
    BY <1>4 DEF MeetInto, SetOp
  <2>2. t \in GoodSets /\ g \in Grades /\ Honest(t, i, g)
    BY <1>4, <2>1, MeetWorth
  <2> HIDE DEF t, g, i
  <2> QED
    BY <1>2, <2>2, BecomesKeeps
<1>5. CASE sets[r].universe /\ ~sets[q].universe
  <2> DEFINE x == sets[q].bottom
  <2>1. x \in Bitmaps(FALSE) /\ Canonical(x.elms) /\ Within(x.elms)
    BY <1>1, GoodFacts
  <2>2. t = [sets[r] EXCEPT !.universe = FALSE, !.bottom = x]
    BY <1>5 DEF MeetInto
  <2>3. g = IF ideal[r] = Members THEN grade[q] ELSE Over(grade[q])
    BY <1>5
  <2> HIDE DEF x, t, g
  <2>4. t \in GoodSets /\ t.universe = FALSE /\ t.bottom = x
    BY <1>1, <2>1, <2>2, WithoutUniverse
  <2>5. (grade[q] <= 1 => ideal[q] \subseteq Content(x)) /\ (grade[q] = 0 => Content(x) = ideal[q])
    BY <1>1, <1>5 DEF Honest, x
  <2>6. g \in Grades /\ Honest(t, i, g)
    BY <1>1, <1>3, <2>3, <2>4, <2>5 DEF Honest, Grades
  <2> HIDE DEF i
  <2> QED
    BY <1>2, <2>4, <2>6, BecomesKeeps
<1>6. CASE sets[r].universe /\ sets[q].universe
  <2>1. t = SetOp("&", sets[r], Part(sets[q]))
    BY <1>6 DEF MeetInto
  <2>3. g \in Grades
    BY <1>1, <1>3, <1>6
  <2> HIDE DEF t, g
  <2>4. t \in GoodSets /\ t.universe
    BY <1>1, <1>6, <2>1, UniversesMeet
  <2>5. Honest(t, i, g)
    BY <2>4 DEF Honest
  <2> HIDE DEF i
  <2> QED
    BY <1>2, <2>3, <2>4, <2>5, BecomesKeeps
<1>7. QED
  BY <1>4, <1>5, <1>6

(* operator& and operator| leave their operands alone; a universe on the   *)
(* left changes places with a bottom set on the right.                     *)
LEMMA MeetGood ==
  ASSUME SetsInv, NEW p \in Regs, NEW q \in Regs
  PROVE  LET t == Meet(sets[p], sets[q])
             g == IF sets[p].universe /\ ~sets[q].universe THEN MeetGrade(q, p) ELSE MeetGrade(p, q)
         IN  /\ t \in GoodSets
             /\ ~t.universe => g \in Grades /\ Honest(t, ideal[p] \cap ideal[q], g)
             /\ t.universe => sets[p].universe /\ sets[q].universe
<1>1. /\ sets[p] \in GoodSets /\ sets[q] \in GoodSets
  BY Operand
<1> DEFINE t == Meet(sets[p], sets[q])
           g == IF sets[p].universe /\ ~sets[q].universe THEN MeetGrade(q, p) ELSE MeetGrade(p, q)
           Goal == /\ t \in GoodSets
                   /\ ~t.universe => g \in Grades /\ Honest(t, ideal[p] \cap ideal[q], g)
                   /\ t.universe => sets[p].universe /\ sets[q].universe
<1> SUFFICES Goal
  OBVIOUS
<1>2. CASE sets[p].universe /\ ~sets[q].universe
  <2>1. Part(sets[p]) = sets[p].all
    BY <1>1, <1>2, GoodFacts
  <2>2. t = BottomOp("&", sets[q], Part(sets[p])) /\ g = MeetGrade(q, p)
    BY <1>2, <2>1 DEF Meet
  <2>3. /\ t \in GoodSets /\ ~t.universe /\ g \in Grades
        /\ Honest(t, ideal[q] \cap ideal[p], g)
    BY <1>2, <2>2, MeetWorth
  <2>4. ideal[q] \cap ideal[p] = ideal[p] \cap ideal[q]
    OBVIOUS
  <2> HIDE DEF t, g
  <2> QED
    BY <2>3, <2>4
<1>3. CASE ~sets[p].universe
  <2>1. t = BottomOp("&", sets[p], Part(sets[q])) /\ g = MeetGrade(p, q)
    BY <1>3 DEF Meet, MeetInto, SetOp
  <2>2. /\ t \in GoodSets /\ ~t.universe /\ g \in Grades
        /\ Honest(t, ideal[p] \cap ideal[q], g)
    BY <1>3, <2>1, MeetWorth
  <2> HIDE DEF t, g
  <2> QED
    BY <2>2
<1>4. CASE sets[p].universe /\ sets[q].universe
  <2>1. t = SetOp("&", sets[p], Part(sets[q]))
    BY <1>4 DEF Meet, MeetInto
  <2> HIDE DEF t, g
  <2>3. t \in GoodSets /\ t.universe
    BY <1>1, <1>4, <2>1, UniversesMeet
  <2> QED
    BY <1>4, <2>3
<1>5. QED
  BY <1>2, <1>3, <1>4

LEMMA GradeOfMeet ==
  ASSUME SetsInv, NEW p \in Regs, NEW q \in Regs
  PROVE  MeetGrade(p, q) \in Grades
<1>1. grade[p] \in Grades /\ grade[q] \in Grades
  BY Operand
<1>2. /\ Worse(grade[p], grade[q]) \in Grades /\ Over(grade[p]) \in Grades
  BY <1>1, WorseIs
<1>3. Over(Worse(grade[p], grade[q])) \in Grades
  BY <1>2, WorseIs
<1>4. 2 \in Grades
  BY DEF Grades
<1>5. QED
  BY <1>1, <1>2, <1>3, <1>4 DEF MeetGrade

LEMMA IntersectKeeps ==
  ASSUME SetsInv, NEW r \in Regs, NEW p \in Regs, NEW q \in Regs, Intersect(r, p, q)
  PROVE  SetsInv'
<1> DEFINE t == Meet(sets[p], sets[q])
           i == ideal[p] \cap ideal[q]
           g == IF sets[p].universe /\ ~sets[q].universe THEN MeetGrade(q, p) ELSE MeetGrade(p, q)
<1>1. /\ t \in GoodSets
      /\ ~t.universe => g \in Grades /\ Honest(t, i, g)
  BY MeetGood
<1>2. Becomes(r, t, i, g)
  BY DEF Intersect
<1>3. i \in SUBSET Members
  BY Operand
<1>4. g \in Grades
  BY GradeOfMeet
<1> HIDE DEF t, i, g
<1>5. Honest(t, i, g)
  BY <1>1 DEF Honest
<1>6. QED
  BY <1>1, <1>2, <1>3, <1>4, <1>5, BecomesKeeps

LEMMA UniteKeeps ==
  ASSUME SetsInv, NEW r \in Regs, NEW p \in Regs, NEW q \in Regs, Unite(r, p, q)
  PROVE  SetsInv'
<1> DEFINE t == Meet(sets[p], sets[q])
           i == ideal[p] \cup ideal[q]
<1>1. t \in GoodSets
  BY MeetGood
<1>2. Becomes(r, t, i, 2)
  BY DEF Unite
<1>3. i \in SUBSET Members
  BY Operand
<1> HIDE DEF t, i
<1>4. 2 \in Grades /\ Honest(t, i, 2)
  BY DEF Honest, Grades
<1>5. QED
  BY <1>1, <1>2, <1>3, <1>4, BecomesKeeps

LEMMA AssignKeeps ==
  ASSUME SetsInv, NEW r \in Regs, NEW q \in Regs, Assign(r, q)
  PROVE  SetsInv'
<1>1. /\ sets[q] \in GoodSets /\ ideal[q] \in SUBSET Members /\ grade[q] \in Grades
      /\ Honest(sets[q], ideal[q], grade[q])
  BY Operand
<1>2. Becomes(r, sets[q], ideal[q], grade[q])
  BY DEF Assign
<1>3. QED
  BY <1>1, <1>2, BecomesKeeps

LEMMA NextInv ==
  ASSUME SetsInv, [SetsNext]_setVars
  PROVE  SetsInv'
<1>1. CASE SetsNext
  <2>1. PICK r \in Regs :
          \/ \E e \in Members :
               \/ AddMember(r, e) \/ RemoveMember(r, e)
               \/ \E n \in {0, 2} : Span(e, n) \subseteq Members /\ (AddRange(r, e, n) \/ RemoveRange(r, e, n))
          \/ \E q \in Regs \ {r} : IntersectWith(r, q) \/ Assign(r, q)
          \/ \E p \in Regs : \E q \in Regs \ {p} :
               AddSet(r, p, q) \/ Subtract(r, p, q) \/ Intersect(r, p, q) \/ Unite(r, p, q)
    BY <1>1 DEF SetsNext
  <2>2. CASE \E e \in Members : AddMember(r, e) \/ RemoveMember(r, e)
    BY <2>2, AddMemberKeeps, RemoveMemberKeeps
  <2>3. CASE \E e \in Members : \E n \in {0, 2} :
               Span(e, n) \subseteq Members /\ (AddRange(r, e, n) \/ RemoveRange(r, e, n))
    BY <2>3, RangesKeep
  <2>4. CASE \E q \in Regs \ {r} : IntersectWith(r, q) \/ Assign(r, q)
    BY <2>4, IntersectWithKeeps, AssignKeeps
  <2>5. CASE \E p \in Regs : \E q \in Regs \ {p} :
               AddSet(r, p, q) \/ Subtract(r, p, q) \/ Intersect(r, p, q) \/ Unite(r, p, q)
    BY <2>5, AddSetKeeps, SubtractKeeps, IntersectKeeps, UniteKeeps
  <2> QED
    BY <2>1, <2>2, <2>3, <2>4, <2>5
<1>2. CASE UNCHANGED setVars
  <2>1. sets' = sets /\ ideal' = ideal /\ grade' = grade
    BY <1>2 DEF setVars
  <2> QED
    BY <2>1, InvIs, InvIsNext DEF InvForm
<1>3. QED
  BY <1>1, <1>2

(* Whatever calls are made, in any order, the lists of both sets keep the  *)
(* shape the code relies on, and the sets hold what the calls say.         *)
THEOREM InvariantHolds == SetsSpec => []SetsInv
<1>1. SetsInit => SetsInv
  BY InitInv
<1>2. SetsInv /\ [SetsNext]_setVars => SetsInv'
  BY NextInv
<1>3. QED
  BY <1>1, <1>2, PTL DEF SetsSpec

(* A bottom set's list is in order and holds no empty node (set, reset,    *)
(* |=, +=, &=, -=: util_bitmap_sparse_bitmap.h, lines 397-433, 732-895).   *)
THEOREM ListsAreCanonical == SetsSpec => []ListsCanonical
<1>1. SetsInv => ListsCanonical
  BY DEF SetsInv
<1>2. QED
  BY <1>1, InvariantHolds, PTL

(* A bottom set lacks no member until a universe's nodes met it or         *)
(* operator| was used, and holds exactly its members until a difference    *)
(* was taken or it met a set that ends before it (rtLib.cpp, lines         *)
(* 1001-1120).                                                             *)
THEOREM SetsAreRight == SetsSpec => []SetsHoldWhatTheyShould
<1>1. SetsInv => SetsHoldWhatTheyShould
  BY DEF SetsInv
<1>2. QED
  BY <1>1, InvariantHolds, PTL

----------------------------------------------------------------------------
(* Reading back: the copying operators, equality and the iterator *)
LEMMA OtherList ==
  ASSUME NEW S, NEW T, NEW b \in [full : S, elms : T], NEW l
  PROVE  [b EXCEPT !.elms = l] = [full |-> b.full, elms |-> l]
  OBVIOUS

LEMMA CopiesAre ==
  ASSUME NEW b \in Bitmaps(FALSE), NEW c \in Bitmaps(FALSE)
  PROVE  OrCopy(b, c) = OrInto(b, c) /\ AndCopy(b, c) = AndInto(b, c)
<1> DEFINE S == {FALSE}
<1>1. b \in [full : S, elms : Seq(Nodes)] /\ b.full = FALSE
  BY DEF Bitmaps
<1>2. \A l : [b EXCEPT !.elms = l] = [full |-> FALSE, elms |-> l]
  <2>1. \A l : [b EXCEPT !.elms = l] = [full |-> b.full, elms |-> l]
    <3> HIDE DEF S
    <3> QED
      BY <1>1, OtherList
  <2>2. \A l : [full |-> b.full, elms |-> l] = [full |-> FALSE, elms |-> l]
    BY <1>1
  <2>3. QED
    BY <2>1, <2>2
<1>3. [b EXCEPT !.elms = b.elms] = b
  BY <1>1
<1>4. OrCopy(b, c) = OrInto(b, c)
  <2>1. CASE IsEmpty(c)
    <3>1. OrCopy(b, c) = [full |-> FALSE, elms |-> b.elms] /\ OrInto(b, c) = b
      BY <2>1 DEF OrCopy, OrInto
    <3>2. [b EXCEPT !.elms = b.elms] = [full |-> FALSE, elms |-> b.elms]
      BY <1>2
    <3> QED
      BY <1>3, <3>1, <3>2
  <2>2. CASE ~IsEmpty(c)
    <3> DEFINE l == OrMerge(b.elms, c.elms, b.full)
    <3>1. OrCopy(b, c) = [full |-> FALSE, elms |-> l] /\ OrInto(b, c) = [b EXCEPT !.elms = l]
      BY <2>2 DEF OrCopy, OrInto
    <3>2. [b EXCEPT !.elms = l] = [full |-> FALSE, elms |-> l]
      BY <1>2
    <3> QED
      BY <3>1, <3>2
  <2> QED
    BY <2>1, <2>2
<1>5. AndCopy(b, c) = AndInto(b, c)
  <2> DEFINE l == AndMerge(b.elms, c.elms)
  <2>1. AndCopy(b, c) = [full |-> FALSE, elms |-> l]
    BY DEF AndCopy
  <2>2. AndInto(b, c) = [b EXCEPT !.elms = l]
    BY <1>1 DEF AndInto
  <2>3. [b EXCEPT !.elms = l] = [full |-> FALSE, elms |-> l]
    BY <1>2
  <2> QED
    BY <2>1, <2>2, <2>3
<1>6. QED
  BY <1>4, <1>5

LEMMA MinusCopyEmpty ==
  ASSUME NEW b \in Bitmaps(FALSE), NEW c, ~IsEmpty(c)
  PROVE  IsEmpty(MinusCopy(b, c))
<1> DEFINE e == [full |-> FALSE, elms |-> <<>>]
<1>1. b.full = FALSE
  BY DEF Bitmaps
<1>2. MinusCopy(b, c) = e
  BY <1>1 DEF MinusCopy
<1>3. e \in Bitmaps(FALSE) /\ Len(e.elms) = 0
  BY DEF Bitmaps
<1> HIDE DEF e
<1>4. Count(e) = 0
  <2>1. PICK after :
           /\ Count(e) = after[Len(e.elms)] /\ after[0] = 0
           /\ \A j \in 1 .. Len(e.elms) : after[j] = after[j - 1] + Cardinality(e.elms[j].bits)
    BY <1>3, CountRounds
  <2> QED
    BY <1>3, <2>1
<1>5. QED
  BY <1>2, <1>4 DEF IsEmpty

(* Of two lists in order that hold the same bits, one begins with the other. *)
LEMMA SameBits ==
  ASSUME NEW s, NEW r, Canonical(s), Canonical(r),
         \A i, o : HasBit(s, i, o) <=> HasBit(r, i, o)
  PROVE  Len(s) <= Len(r) /\ \A k \in 1 .. Len(s) : s[k] = r[k]
<1> DEFINE T == {j \in 0 .. Len(s) : j <= Len(r) /\ \A k \in 1 .. j : s[k] = r[k]}
<1>1. /\ Len(s) \in Nat /\ DOMAIN s = 1 .. Len(s)
      /\ \A k \in 1 .. Len(s) : s[k] \in Nodes /\ s[k].index \in Nat /\ s[k].bits # {}
      /\ \A j, k \in 1 .. Len(s) : j < k => s[j].index < s[k].index
  BY CanonicalFacts
<1>2. /\ Len(r) \in Nat /\ DOMAIN r = 1 .. Len(r)
      /\ \A k \in 1 .. Len(r) : r[k] \in Nodes /\ r[k].index \in Nat /\ r[k].bits # {}
      /\ \A j, k \in 1 .. Len(r) : j < k => r[j].index < r[k].index
  BY CanonicalFacts
<1>3. 0 \in T
  BY <1>1, <1>2
<1>4. ASSUME NEW j \in 0 .. Len(s) - 1, j \in T PROVE j + 1 \in T
  <2> DEFINE n == s[j + 1]
  <2>1. j + 1 \in 1 .. Len(s) /\ j <= Len(r) /\ \A k \in 1 .. j : s[k] = r[k]
    BY <1>1, <1>4
  <2>2. \A k \in 1 .. j : k \in 1 .. Len(s) /\ k \in 1 .. Len(r) /\ k < j + 1
    BY <1>1, <1>2, <2>1
  <2>3. PICK o : o \in n.bits
    BY <1>1, <2>1
  <2>4. HasBit(s, n.index, o)
    BY <1>1, <2>1, <2>3 DEF HasBit
  <2>5. PICK m \in 1 .. Len(r) : r[m].index = n.index
    <3>1. HasBit(r, n.index, o)
      BY <2>4
    <3> HIDE DEF n
    <3> QED
      BY <1>2, <3>1 DEF HasBit
  <2>6. m > j
    <3>1. \A k \in 1 .. j : r[k].index # n.index
      BY <1>1, <2>1, <2>2
    <3> QED
      BY <1>2, <2>5, <3>1
  <2>7. j + 1 \in 1 .. Len(r)
    BY <1>2, <2>6
  <2>8. r[j + 1].index <= n.index
    BY <1>2, <2>5, <2>6, <2>7
  <2>9. n.index <= r[j + 1].index
    <3>1. PICK p : p \in r[j + 1].bits
      BY <1>2, <2>7
    <3>2. HasBit(r, r[j + 1].index, p)
      BY <1>2, <2>7, <3>1 DEF HasBit
    <3>3. PICK x \in 1 .. Len(s) : s[x].index = r[j + 1].index
      <4> DEFINE i == r[j + 1].index
      <4>1. HasBit(s, i, p)
        BY <3>2
      <4> HIDE DEF i
      <4>2. \E x \in 1 .. Len(s) : s[x].index = i
        BY <1>1, <4>1 DEF HasBit
      <4> QED
        BY <4>2 DEF i
    <3>4. \A k \in 1 .. j : s[k].index # r[j + 1].index
      BY <1>2, <2>1, <2>2, <2>7
    <3>5. x >= j + 1
      BY <1>1, <3>3, <3>4
    <3> QED
      BY <1>1, <2>1, <3>3, <3>5
  <2>10. n.index = r[j + 1].index
    <3>1. n.index \in Nat /\ r[j + 1].index \in Nat
      BY <1>1, <1>2, <2>1, <2>7
    <3> QED
      BY <2>8, <2>9, <3>1
  <2>11. \A x : HasBit(s, n.index, x) <=> x \in n.bits
    BY <1>1, <2>1 DEF HasBit
  <2>12. \A x : HasBit(r, r[j + 1].index, x) <=> x \in r[j + 1].bits
    BY <1>2, <2>7 DEF HasBit
  <2>13. n.bits = r[j + 1].bits
    BY <2>10, <2>11, <2>12
  <2>14. n = r[j + 1]
    <3>1. n \in Nodes /\ r[j + 1] \in Nodes
      BY <1>1, <1>2, <2>1, <2>7
    <3> HIDE DEF n
    <3> QED
      BY <2>10, <2>13, <3>1 DEF Nodes
  <2>15. \A k \in 1 .. j + 1 : s[k] = r[k]
    BY <1>1, <2>1, <2>14
  <2> QED
    BY <1>1, <1>2, <2>1, <2>7, <2>15
<1>5. Len(s) \in T
  <2>1. \A j \in 0 .. Len(s) - 1 : j \in T => j + 1 \in T
    BY <1>4
  <2> HIDE DEF T
  <2>2. 0 .. Len(s) \subseteq T
    BY <1>1, <1>3, <2>1, Upwards
  <2> QED
    BY <1>1, <2>2
<1>6. QED
  BY <1>5

(* operator== compares node by node; lists in order are equal when they    *)
(* have the same members.                                                  *)
LEMMA EqualMeaning ==
  ASSUME NEW b \in Bitmaps(FALSE), Canonical(b.elms), Within(b.elms),
         NEW c \in Bitmaps(FALSE), Canonical(c.elms), Within(c.elms)
  PROVE  Equal(b, c) <=> Content(b) = Content(c)
<1> DEFINE s == b.elms
           r == c.elms
<1>0. Canonical(s) /\ Canonical(r) /\ Within(s) /\ Within(r)
  OBVIOUS
<1>1. /\ Content(b) = {x \in Members : HasBit(s, IdxOf(x), OffsOf(x))}
      /\ Content(c) = {x \in Members : HasBit(r, IdxOf(x), OffsOf(x))}
  BY ContentIs
<1>2. Equal(b, c) <=> Len(s) = Len(r) /\ \A k \in DOMAIN s : s[k] = r[k]
  BY DEF Equal
<1> HIDE DEF s, r
<1>3. Len(s) \in Nat /\ DOMAIN s = 1 .. Len(s) /\ Len(r) \in Nat /\ DOMAIN r = 1 .. Len(r)
  BY <1>0, CanonicalFacts
<1>4. ASSUME Equal(b, c) PROVE Content(b) = Content(c)
  <2>1. \A i, o : HasBit(s, i, o) <=> HasBit(r, i, o)
    BY <1>2, <1>3, <1>4 DEF HasBit
  <2> QED
    BY <1>1, <2>1
<1>5. ASSUME Content(b) = Content(c) PROVE Equal(b, c)
  <2>1. ASSUME NEW l, Canonical(l), Within(l), NEW i, NEW o, HasBit(l, i, o)
        PROVE  i * Width + o \in Members /\ IdxOf(i * Width + o) = i /\ OffsOf(i * Width + o) = o
    <3>1. i \in Nat /\ o \in AllBits
      BY <2>1, CanonicalFacts DEF HasBit
    <3> QED
      BY <2>1, <3>1, PartsMember DEF Within
  <2>2. ASSUME NEW i, NEW o, HasBit(s, i, o) PROVE HasBit(r, i, o)
    BY <1>0, <1>1, <1>5, <2>1, <2>2
  <2>3. ASSUME NEW i, NEW o, HasBit(r, i, o) PROVE HasBit(s, i, o)
    BY <1>0, <1>1, <1>5, <2>1, <2>3
  <2>4. \A i, o : HasBit(s, i, o) <=> HasBit(r, i, o)
    BY <2>2, <2>3
  <2>5. Len(s) <= Len(r) /\ \A k \in 1 .. Len(s) : s[k] = r[k]
    BY <1>0, <2>4, SameBits
  <2>6. Len(r) <= Len(s)
    BY <1>0, <2>4, SameBits
  <2>7. Len(s) = Len(r)
    <3> DEFINE x == Len(s)
               y == Len(r)
    <3>1. x \in Nat /\ y \in Nat /\ x <= y /\ y <= x
      BY <1>3, <2>5, <2>6
    <3> HIDE DEF x, y
    <3>2. x = y
      BY <3>1
    <3> QED
      BY <3>2 DEF x, y
  <2>8. \A k \in DOMAIN s : s[k] = r[k]
    BY <1>3, <2>5
  <2> QED
    BY <1>2, <2>7, <2>8
<1>6. QED
  BY <1>4, <1>5

----------------------------------------------------------------------------
(* The iterator reads a node in Chunks chunks; a bit has its chunk and its *)
(* place in the chunk.                                                     *)
Chunks == Width \div Chunk
ChunkOf(o) == o \div Chunk
PlaceOf(o) == o % Chunk

LEMMA LeastIs ==
  ASSUME NEW S \in SUBSET Nat, S # {}
  PROVE  Least(S) \in S /\ \A c \in S : Least(S) <= c
<1> DEFINE R == {p \in Nat \X Nat : p[1] < p[2]}
<1>1. IsWellFoundedOn(R, Nat)
  BY NatLessThanWellFounded DEF OpToRel
<1>2. \A x, y \in Nat : y < x => <<y, x>> \in R
  OBVIOUS
<1> HIDE DEF R
<1>5. S \subseteq Nat
  OBVIOUS
<1>6. \E x \in S : \A y \in S : ~(<<y, x>> \in R)
  BY <1>1, <1>5, WFMin
<1>3. PICK x \in S : \A y \in S : ~(<<y, x>> \in R)
  BY <1>6
<1>4. \A y \in S : x <= y
  <2>1. ASSUME NEW y \in S, ~(x <= y) PROVE FALSE
    <3>1. x \in Nat /\ y \in Nat /\ ~(<<y, x>> \in R)
      BY <1>3, <1>5
    <3>2. y < x
      BY <2>1, <3>1
    <3> QED
      BY <1>2, <3>1, <3>2
  <2> QED
    BY <2>1
<1> QED
  BY <1>3, <1>4 DEF Least

LEMMA TimesLess ==
  ASSUME NEW a \in Nat, NEW b \in Nat, NEW c \in Nat, a < b
  PROVE  c * a + c <= c * b /\ c * a \in Nat /\ c * b \in Nat
<1>1. PICK d \in Nat : b = a + 1 + d
  <2>1. b - a - 1 \in Nat /\ b = a + 1 + (b - a - 1)
    OBVIOUS
  <2> QED
    BY <2>1
<1>2. c * b = c * a + c + c * d
  BY <1>1
<1>3. c * d \in Nat /\ c * a \in Nat /\ c * b \in Nat
  OBVIOUS
<1> QED
  BY <1>2, <1>3

LEMMA TimesAtMost ==
  ASSUME NEW a \in Nat, NEW b \in Nat, NEW c \in Nat, a <= b
  PROVE  a * c <= b * c
<1>1. CASE a = b
  BY <1>1
<1>2. CASE a < b
  <2> DEFINE x == c * a
             y == c * b
  <2>1. x + c <= y /\ x \in Nat /\ y \in Nat
    BY <1>2, TimesLess
  <2>2. a * c = x /\ b * c = y
    OBVIOUS
  <2> HIDE DEF x, y
  <2> QED
    BY <2>1, <2>2
<1> QED
  BY <1>1, <1>2

LEMMA ChunksAre ==
  /\ Chunk \in Nat \ {0} /\ Width \in Nat \ {0} /\ Chunks \in Nat \ {0}
  /\ Width = Chunk * Chunks
<1>1. Chunk \in Nat \ {0} /\ Width \in Nat \ {0} /\ Width % Chunk = 0
  BY SparseSetsAssumption
<1>2. Chunks \in Nat /\ Width = Chunk * Chunks + (Width % Chunk)
  BY <1>1 DEF Chunks
<1>3. Width = Chunk * Chunks
  BY <1>1, <1>2
<1>4. Chunks # 0
  BY <1>1, <1>3
<1> QED
  BY <1>1, <1>2, <1>3, <1>4

LEMMA BitParts ==
  ASSUME NEW o \in AllBits
  PROVE  /\ o \in Nat /\ o < Width
         /\ ChunkOf(o) \in 0 .. Chunks - 1 /\ PlaceOf(o) \in 0 .. Chunk - 1
         /\ o = Chunk * (ChunkOf(o)) + PlaceOf(o)
<1> DEFINE q == o \div Chunk
           m == o % Chunk
<1>1. o \in Nat /\ o < Width
  BY ChunksAre DEF AllBits
<1>2. q \in Nat /\ m \in 0 .. Chunk - 1 /\ o = Chunk * q + m
  BY <1>1, ChunksAre
<1> HIDE DEF q, m
<1>3. q < Chunks
  <2>1. ASSUME q >= Chunks PROVE FALSE
    <3>1. Chunk * Chunks <= Chunk * q
      <4>1. CASE q = Chunks
        BY <4>1, ChunksAre
      <4>2. CASE Chunks < q
        BY <1>2, <4>2, ChunksAre, TimesLess
      <4> QED
        BY <1>2, <2>1, <4>1, <4>2, ChunksAre
    <3> DEFINE x == Chunk * q
    <3>2. x \in Nat /\ o = x + m /\ Width <= x
      BY <1>2, <3>1, ChunksAre
    <3> HIDE DEF x
    <3> QED
      BY <1>1, <1>2, <3>2, ChunksAre
  <2> QED
    BY <1>2, <2>1, ChunksAre
<1>4. q \in 0 .. Chunks - 1
  BY <1>2, <1>3, ChunksAre
<1> QED
  BY <1>1, <1>2, <1>4 DEF q, m, ChunkOf, PlaceOf

(* A bit in an earlier chunk, or earlier in the same chunk, is smaller. *)
LEMMA BitOrder ==
  ASSUME NEW o \in AllBits, NEW p \in AllBits,
         \/ ChunkOf(o) < ChunkOf(p)
         \/ ChunkOf(o) = ChunkOf(p) /\ PlaceOf(o) < PlaceOf(p)
  PROVE  o < p
<1> DEFINE q == ChunkOf(o)
           m == PlaceOf(o)
           r == ChunkOf(p)
           l == PlaceOf(p)
<1>1. q \in Nat /\ m \in 0 .. Chunk - 1 /\ o = Chunk * q + m
  BY BitParts, ChunksAre
<1>2. r \in Nat /\ l \in 0 .. Chunk - 1 /\ p = Chunk * r + l
  BY BitParts, ChunksAre
<1>3. q < r \/ (q = r /\ m < l)
  OBVIOUS
<1> HIDE DEF q, m, r, l
<1>4. CASE q < r
  <2> DEFINE x == Chunk * q
             y == Chunk * r
  <2>1. x + Chunk <= y /\ x \in Nat /\ y \in Nat
    BY <1>1, <1>2, <1>4, TimesLess, ChunksAre
  <2>2. o = x + m /\ p = y + l
    BY <1>1, <1>2
  <2> HIDE DEF x, y
  <2> QED
    BY <1>1, <1>2, <2>1, <2>2, ChunksAre
<1>5. CASE q = r /\ m < l
  <2> DEFINE x == Chunk * q
  <2>1. x \in Nat /\ o = x + m /\ p = x + l
    BY <1>1, <1>2, <1>5, ChunksAre
  <2> HIDE DEF x
  <2> QED
    BY <1>1, <1>2, <1>5, <2>1, ChunksAre
<1> QED
  BY <1>3, <1>4, <1>5

(* A member in an earlier node is smaller. *)
LEMMA IndexOrder ==
  ASSUME NEW i \in Nat, NEW j \in Nat, i < j, NEW o \in AllBits, NEW p \in AllBits
  PROVE  i * Width + o < j * Width + p
<1> DEFINE x == Width * i
           y == Width * j
<1>1. x + Width <= y /\ x \in Nat /\ y \in Nat
  BY TimesLess, ChunksAre
<1>2. i * Width = x /\ j * Width = y
  BY ChunksAre
<1>3. o \in Nat /\ o < Width /\ p \in Nat
  BY BitParts
<1> HIDE DEF x, y
<1> QED
  BY <1>1, <1>2, <1>3, ChunksAre

(* Where the iterator stands, and what it has read and passed *)
Its(s) == {st \in [out : Seq(Nat), node : Nat, shift : Nat, pos : Nat] :
             /\ st.node >= 1 /\ st.node <= Len(s) + 1
             /\ st.shift < Chunks /\ st.pos <= Chunk}
PassedBit(st, k, o) ==
  \/ k < st.node
  \/ k = st.node /\ (\/ ChunkOf(o) < st.shift
                     \/ ChunkOf(o) = st.shift /\ PlaceOf(o) < st.pos)
Value(s, k, o) == s[k].index * Width + o

LEMMA ValueIs ==
  ASSUME NEW s \in Seq(Nodes), NEW k \in 1 .. Len(s), NEW o \in s[k].bits
  PROVE  Value(s, k, o) \in Nat /\ o \in AllBits /\ s[k].index \in Nat
<1>1. s[k].index \in Nat /\ s[k].bits \in SUBSET AllBits
  BY ListFacts
<1> QED
  BY <1>1, PartsMember DEF Value

(* What is passed is smaller than what is not. *)
LEMMA PassedBelow ==
  ASSUME NEW s, Canonical(s), NEW st \in Its(s),
         NEW k \in 1 .. Len(s), NEW o \in s[k].bits, PassedBit(st, k, o),
         NEW m \in 1 .. Len(s), NEW p \in s[m].bits, ~PassedBit(st, m, p)
  PROVE  Value(s, k, o) < Value(s, m, p)
<1>1. /\ s \in Seq(Nodes)
      /\ \A i, j \in 1 .. Len(s) : i < j => s[i].index < s[j].index
  BY CanonicalFacts
<1>2. /\ o \in AllBits /\ s[k].index \in Nat /\ p \in AllBits /\ s[m].index \in Nat
  BY <1>1, ValueIs
<1>3. /\ st.node \in Nat /\ st.shift \in Nat /\ st.pos \in Nat /\ k \in Nat /\ m \in Nat
      /\ ChunkOf(o) \in Nat /\ PlaceOf(o) \in Nat /\ ChunkOf(p) \in Nat /\ PlaceOf(p) \in Nat
  BY <1>2, BitParts, ChunksAre DEF Its
<1>4. CASE k < m
  BY <1>1, <1>2, <1>4, IndexOrder DEF Value
<1>5. CASE k = m
  <2>1. \/ ChunkOf(o) < ChunkOf(p)
        \/ ChunkOf(o) = ChunkOf(p) /\ PlaceOf(o) < PlaceOf(p)
    BY <1>3, <1>5 DEF PassedBit
  <2>2. o < p
    BY <1>2, <2>1, BitOrder
  <2> DEFINE x == s[k].index * Width
  <2>3. x \in Nat /\ o \in Nat /\ p \in Nat
    <3>1. Width \in Nat /\ s[k].index \in Nat
      BY <1>2, ChunksAre
    <3> QED
      BY <1>2, <3>1, BitParts
  <2>4. Value(s, k, o) = x + o /\ Value(s, m, p) = x + p
    BY <1>5 DEF Value
  <2> HIDE DEF x
  <2> QED
    BY <2>2, <2>3, <2>4
<1>6. k <= m
  BY <1>3 DEF PassedBit
<1> QED
  BY <1>3, <1>4, <1>5, <1>6

(* The three things a visit does *)
Emits(s, st, t, o) ==
  /\ o \in s[st.node].bits /\ ChunkOf(o) = st.shift /\ PlaceOf(o) >= st.pos
  /\ \A p \in s[st.node].bits : ChunkOf(p) = st.shift /\ PlaceOf(p) >= st.pos => o <= p
  /\ t.out = Append(st.out, Value(s, st.node, o))
  /\ t.node = st.node /\ t.shift = st.shift /\ t.pos = 1 + PlaceOf(o)
NothingLeft(s, st) ==
  \A p \in s[st.node].bits : ~(ChunkOf(p) = st.shift /\ PlaceOf(p) >= st.pos)
NextChunk(s, st, t) ==
  /\ NothingLeft(s, st) /\ st.shift + 1 < Chunks /\ t.out = st.out
  /\ t.node = st.node /\ t.shift = st.shift + 1 /\ t.pos = 0
NextNode(s, st, t) ==
  /\ NothingLeft(s, st) /\ st.shift + 1 = Chunks /\ t.out = st.out
  /\ t.node = st.node + 1 /\ t.shift = 0 /\ t.pos = 0

LEMMA ItFacts ==
  ASSUME NEW s \in Seq(Nodes), NEW st \in Its(s)
  PROVE  /\ st \in [out : Seq(Nat), node : Nat, shift : Nat, pos : Nat]
         /\ st.out \in Seq(Nat) /\ Len(st.out) \in Nat /\ Len(s) \in Nat
         /\ st.node \in 1 .. Len(s) + 1
         /\ st.shift \in Nat /\ st.shift < Chunks /\ st.pos \in Nat /\ st.pos <= Chunk
  BY DEF Its

LEMMA ItUpdates ==
  ASSUME NEW A, NEW B, NEW st \in [out : A, node : B, shift : B, pos : B],
         NEW a \in A, NEW p \in B, NEW k \in B, NEW h \in B, NEW t
  PROVE  /\ t = [st EXCEPT !.out = a, !.pos = p] =>
              /\ t \in [out : A, node : B, shift : B, pos : B]
              /\ t.out = a /\ t.node = st.node /\ t.shift = st.shift /\ t.pos = p
         /\ t = [st EXCEPT !.shift = h, !.pos = p] =>
              /\ t \in [out : A, node : B, shift : B, pos : B]
              /\ t.out = st.out /\ t.node = st.node /\ t.shift = h /\ t.pos = p
         /\ t = [st EXCEPT !.node = k, !.shift = h, !.pos = p] =>
              /\ t \in [out : A, node : B, shift : B, pos : B]
              /\ t.out = st.out /\ t.node = k /\ t.shift = h /\ t.pos = p
<1>1. ASSUME t = [st EXCEPT !.out = a, !.pos = p]
      PROVE  /\ t \in [out : A, node : B, shift : B, pos : B]
             /\ t.out = a /\ t.node = st.node /\ t.shift = st.shift /\ t.pos = p
  BY <1>1
<1>2. ASSUME t = [st EXCEPT !.shift = h, !.pos = p]
      PROVE  /\ t \in [out : A, node : B, shift : B, pos : B]
             /\ t.out = st.out /\ t.node = st.node /\ t.shift = h /\ t.pos = p
  BY <1>2
<1>3. ASSUME t = [st EXCEPT !.node = k, !.shift = h, !.pos = p]
      PROVE  /\ t \in [out : A, node : B, shift : B, pos : B]
             /\ t.out = st.out /\ t.node = k /\ t.shift = h /\ t.pos = p
  BY <1>3
<1> QED
  BY <1>1, <1>2, <1>3

LEMMA VisitIs ==
  ASSUME NEW s \in Seq(Nodes), NEW st \in Its(s), st.node <= Len(s)
  PROVE  LET t == Visit(s, st) IN
         /\ t \in Its(s)
         /\ (\E o \in AllBits : Emits(s, st, t, o)) \/ NextChunk(s, st, t) \/ NextNode(s, st, t)
<1> DEFINE t == Visit(s, st)
           n == s[st.node]
           left == Rest(n, st.shift, st.pos)
           Goal == /\ t \in Its(s)
                   /\ (\E o \in AllBits : Emits(s, st, t, o)) \/ NextChunk(s, st, t) \/ NextNode(s, st, t)
<1> SUFFICES Goal
  OBVIOUS
<1>0. /\ st \in [out : Seq(Nat), node : Nat, shift : Nat, pos : Nat]
      /\ st.out \in Seq(Nat) /\ Len(s) \in Nat
      /\ st.node \in 1 .. Len(s) /\ st.shift \in Nat /\ st.shift < Chunks
      /\ st.pos \in Nat /\ st.pos <= Chunk
  BY ItFacts
<1>1. n.index \in Nat /\ n.bits \in SUBSET AllBits
  BY <1>0, ListFacts
<1>2. left = {o \in n.bits : ChunkOf(o) = st.shift /\ PlaceOf(o) >= st.pos}
  BY DEF Rest, ChunkOf, PlaceOf
<1>3. t = IF left # {}
            THEN [st EXCEPT !.out = Append(@, n.index * Width + Least(left)),
                            !.pos = 1 + PlaceOf(Least(left))]
          ELSE IF st.shift + 1 < Chunks THEN [st EXCEPT !.shift = @ + 1, !.pos = 0]
          ELSE [st EXCEPT !.node = @ + 1, !.shift = 0, !.pos = 0]
  BY DEF Visit, PlaceOf, Chunks
<1> HIDE DEF t, left
<1>4. CASE left # {}
  <2> DEFINE o == Least(left)
             v == Value(s, st.node, o)
  <2>1. o \in left /\ \A c \in left : o <= c
    <3>1. left \in SUBSET Nat
      BY <1>1, <1>2, BitParts
    <3> QED
      BY <1>4, <3>1, LeastIs
  <2>2. o \in AllBits /\ v \in Nat /\ v = n.index * Width + o
    <3>1. o \in n.bits
      BY <1>2, <2>1
    <3> QED
      BY <1>0, <1>1, <3>1, ValueIs DEF Value
  <2>3. PlaceOf(o) \in 0 .. Chunk - 1 /\ Chunk \in Nat
    BY <2>2, BitParts, ChunksAre
  <2>4. t = [st EXCEPT !.out = Append(@, v), !.pos = 1 + PlaceOf(o)]
    BY <1>3, <1>4, <2>2
  <2> HIDE DEF o, v
  <2>5. Append(st.out, v) \in Seq(Nat)
    BY <1>0, <2>2
  <2>6. t.out = Append(st.out, v) /\ t.node = st.node /\ t.shift = st.shift /\ t.pos = 1 + PlaceOf(o)
        /\ t \in [out : Seq(Nat), node : Nat, shift : Nat, pos : Nat]
    <3>1. 1 + PlaceOf(o) \in Nat /\ t = [st EXCEPT !.out = Append(st.out, v), !.pos = 1 + PlaceOf(o)]
      BY <2>3, <2>4
    <3> QED
      BY <1>0, <2>5, <3>1, ItUpdates
  <2>7. t \in Its(s)
    BY <1>0, <2>3, <2>6 DEF Its
  <2>8. Emits(s, st, t, o)
    BY <1>2, <2>1, <2>6 DEF Emits, v
  <2> QED
    BY <2>2, <2>7, <2>8
<1>5. CASE left = {} /\ st.shift + 1 < Chunks
  <2>2. t.out = st.out /\ t.node = st.node /\ t.shift = st.shift + 1 /\ t.pos = 0
        /\ t \in [out : Seq(Nat), node : Nat, shift : Nat, pos : Nat]
    <3>1. st.shift + 1 \in Nat /\ 0 \in Nat /\ t = [st EXCEPT !.shift = st.shift + 1, !.pos = 0]
      BY <1>0, <1>3, <1>5
    <3> QED
      BY <1>0, <3>1, ItUpdates
  <2>3. NothingLeft(s, st)
    BY <1>2, <1>5 DEF NothingLeft
  <2>4. t \in Its(s)
    BY <1>0, <1>5, <2>2, ChunksAre DEF Its
  <2> QED
    BY <1>5, <2>2, <2>3, <2>4 DEF NextChunk
<1>6. CASE left = {} /\ ~(st.shift + 1 < Chunks)
  <2>2. t.out = st.out /\ t.node = st.node + 1 /\ t.shift = 0 /\ t.pos = 0
        /\ t \in [out : Seq(Nat), node : Nat, shift : Nat, pos : Nat]
    <3>1. st.node + 1 \in Nat /\ 0 \in Nat /\ t = [st EXCEPT !.node = st.node + 1, !.shift = 0, !.pos = 0]
      BY <1>0, <1>3, <1>6
    <3> QED
      BY <1>0, <3>1, ItUpdates
  <2>3. NothingLeft(s, st)
    BY <1>2, <1>6 DEF NothingLeft
  <2>4. t \in Its(s)
    BY <1>0, <2>2, ChunksAre DEF Its
  <2>5. st.shift + 1 = Chunks
    BY <1>0, <1>6, ChunksAre
  <2> QED
    BY <2>2, <2>3, <2>4, <2>5 DEF NextNode
<1> QED
  BY <1>4, <1>5, <1>6

(* What has been read is what was passed, in order. *)
Reads(s, st) ==
  /\ st \in Its(s)
  /\ \A j \in 1 .. Len(st.out) : \E k \in 1 .. Len(s) : \E o \in s[k].bits :
       PassedBit(st, k, o) /\ st.out[j] = Value(s, k, o)
  /\ \A k \in 1 .. Len(s) : \A o \in s[k].bits : PassedBit(st, k, o) =>
       \E j \in 1 .. Len(st.out) : st.out[j] = Value(s, k, o)
  /\ \A i, j \in 1 .. Len(st.out) : i < j => st.out[i] < st.out[j]

LEMMA SkipReads ==
  ASSUME NEW s, Canonical(s), NEW st, Reads(s, st), NEW t \in Its(s), t.out = st.out,
         \A k \in 1 .. Len(s) : \A o \in s[k].bits : PassedBit(t, k, o) <=> PassedBit(st, k, o)
  PROVE  Reads(s, t)
  BY DEF Reads

LEMMA EmitReads ==
  ASSUME NEW s, Canonical(s), NEW st, Reads(s, st), st.node <= Len(s),
         NEW t \in Its(s), NEW x \in AllBits, Emits(s, st, t, x)
  PROVE  Reads(s, t)
<1> DEFINE m == st.node
           v == Value(s, m, x)
           l == Len(st.out)
<1>1. s \in Seq(Nodes) /\ st \in Its(s)
  BY CanonicalFacts DEF Reads
<1>2. /\ st.out \in Seq(Nat) /\ l \in Nat /\ Len(s) \in Nat /\ m \in 1 .. Len(s)
      /\ st.shift \in Nat /\ st.pos \in Nat
  BY <1>1, ItFacts
<1>3. x \in s[m].bits /\ v \in Nat
  BY <1>1, <1>2, ValueIs DEF Emits
<1>4. /\ Len(t.out) = l + 1 /\ t.out[l + 1] = v
      /\ \A j \in 1 .. l : t.out[j] = st.out[j]
  BY <1>2, <1>3 DEF Emits
<1>5. ASSUME NEW k \in 1 .. Len(s), NEW o \in s[k].bits
      PROVE  PassedBit(t, k, o) <=> PassedBit(st, k, o) \/ (k = m /\ o = x)
  <2>1. /\ o \in AllBits /\ ChunkOf(o) \in Nat /\ PlaceOf(o) \in Nat /\ o \in Nat
        /\ ChunkOf(x) \in Nat /\ PlaceOf(x) \in Nat /\ x \in Nat
        /\ ChunkOf(x) = st.shift /\ PlaceOf(x) >= st.pos
    BY <1>1, ValueIs, BitParts, ChunksAre DEF Emits
  <2>2. t.node = m /\ t.shift = st.shift /\ t.pos = 1 + PlaceOf(x)
    BY DEF Emits
  <2>3. CASE k # m
    BY <2>2, <2>3 DEF PassedBit
  <2>4. CASE k = m /\ ChunkOf(o) # st.shift
    BY <2>1, <2>2, <2>4 DEF PassedBit
  <2>5. CASE k = m /\ ChunkOf(o) = st.shift
    <3>1. PassedBit(t, k, o) <=> PlaceOf(o) < 1 + PlaceOf(x)
      BY <1>2, <2>1, <2>2, <2>5 DEF PassedBit
    <3>2. PassedBit(st, k, o) <=> PlaceOf(o) < st.pos
      BY <1>2, <2>1, <2>5 DEF PassedBit
    <3>3. ASSUME PlaceOf(o) >= st.pos, PlaceOf(o) <= PlaceOf(x) PROVE o = x
      <4>1. x <= o
        BY <2>5, <3>3 DEF Emits
      <4>2. CASE PlaceOf(o) < PlaceOf(x)
        <5>1. o < x
          BY <2>1, <2>5, <4>2, BitOrder
        <5> QED
          BY <2>1, <4>1, <5>1
      <4>3. CASE PlaceOf(o) = PlaceOf(x)
        <5>1. o = Chunk * ChunkOf(o) + PlaceOf(o) /\ x = Chunk * ChunkOf(x) + PlaceOf(x)
          BY <2>1, BitParts
        <5> QED
          BY <2>1, <2>5, <4>3, <5>1
      <4> QED
        BY <2>1, <3>3, <4>2, <4>3
    <3>4. o = x => PassedBit(t, k, o)
      BY <2>1, <3>1
    <3> QED
      BY <1>2, <2>1, <2>5, <3>1, <3>2, <3>3, <3>4
  <2> QED
    BY <2>3, <2>4, <2>5
<1>6. ~PassedBit(st, m, x)
  <2>1. PlaceOf(x) \in Nat /\ ChunkOf(x) = st.shift /\ PlaceOf(x) >= st.pos
    BY BitParts, ChunksAre DEF Emits
  <2> QED
    BY <1>2, <2>1 DEF PassedBit
<1>7. ASSUME NEW j \in 1 .. l PROVE t.out[j] < v
  <2>1. PICK k \in 1 .. Len(s) : \E o \in s[k].bits :
               PassedBit(st, k, o) /\ st.out[j] = Value(s, k, o)
    BY DEF Reads
  <2>2. PICK o \in s[k].bits : PassedBit(st, k, o) /\ st.out[j] = Value(s, k, o)
    BY <2>1
  <2>3. Value(s, k, o) < v
    BY <1>1, <1>2, <1>3, <1>6, <2>2, PassedBelow
  <2> QED
    BY <1>4, <2>2, <2>3
<1>8. \A i, j \in 1 .. l : i < j => t.out[i] < t.out[j]
  BY <1>4 DEF Reads
<1> HIDE DEF v
<1>9. \A i, j \in 1 .. Len(t.out) : i < j => t.out[i] < t.out[j]
  <2>1. SUFFICES ASSUME NEW i \in 1 .. l + 1, NEW j \in 1 .. l + 1, i < j PROVE t.out[i] < t.out[j]
    BY <1>4
  <2>2. CASE j = l + 1
    <3>1. i \in 1 .. l
      BY <1>2, <2>1, <2>2
    <3> QED
      BY <1>4, <1>7, <2>2, <3>1
  <2>3. CASE j # l + 1
    <3>1. i \in 1 .. l /\ j \in 1 .. l
      BY <1>2, <2>1, <2>3
    <3> QED
      BY <1>8, <2>1, <3>1
  <2> QED
    BY <2>2, <2>3
<1>10. ASSUME NEW j \in 1 .. Len(t.out)
       PROVE  \E k \in 1 .. Len(s) : \E o \in s[k].bits : PassedBit(t, k, o) /\ t.out[j] = Value(s, k, o)
  <2>1. CASE j = l + 1
    <3>1. PassedBit(t, m, x)
      BY <1>2, <1>3, <1>5
    <3> QED
      BY <1>2, <1>3, <1>4, <2>1, <3>1 DEF v
  <2>2. CASE j # l + 1
    <3>1. j \in 1 .. l /\ t.out[j] = st.out[j]
      BY <1>2, <1>4, <2>2
    <3>2. \E k \in 1 .. Len(s) : \E o \in s[k].bits : PassedBit(st, k, o) /\ st.out[j] = Value(s, k, o)
      BY <3>1 DEF Reads
    <3> QED
      BY <1>5, <3>1, <3>2
  <2> QED
    BY <2>1, <2>2
<1>11. ASSUME NEW k \in 1 .. Len(s), NEW o \in s[k].bits, PassedBit(t, k, o)
       PROVE  \E j \in 1 .. Len(t.out) : t.out[j] = Value(s, k, o)
  <2>1. CASE PassedBit(st, k, o)
    <3>1. PICK j \in 1 .. l : st.out[j] = Value(s, k, o)
      BY <2>1 DEF Reads
    <3>2. j \in 1 .. Len(t.out) /\ t.out[j] = st.out[j]
      BY <1>2, <1>4, <3>1
    <3> QED
      BY <3>1, <3>2
  <2>2. CASE k = m /\ o = x
    <3>1. l + 1 \in 1 .. Len(t.out) /\ t.out[l + 1] = Value(s, k, o)
      BY <1>2, <1>4, <2>2 DEF v
    <3> QED
      BY <3>1
  <2> QED
    BY <1>5, <1>11, <2>1, <2>2
<1> QED
  BY <1>9, <1>10, <1>11 DEF Reads

LEMMA VisitReads ==
  ASSUME NEW s, Canonical(s), NEW st, Reads(s, st), st.node <= Len(s)
  PROVE  Reads(s, Visit(s, st))
<1> DEFINE t == Visit(s, st)
<1>1. s \in Seq(Nodes) /\ st \in Its(s)
  BY CanonicalFacts DEF Reads
<1>2. t \in Its(s)
      /\ ((\E o \in AllBits : Emits(s, st, t, o)) \/ NextChunk(s, st, t) \/ NextNode(s, st, t))
  BY <1>1, VisitIs
<1>3. /\ st.node \in 1 .. Len(s) + 1 /\ Len(s) \in Nat
      /\ st.shift \in Nat /\ st.shift < Chunks /\ st.pos \in Nat /\ st.pos <= Chunk
  BY <1>1, ItFacts
<1>4. ASSUME NEW k \in 1 .. Len(s), NEW o \in s[k].bits
      PROVE  /\ ChunkOf(o) \in Nat /\ ChunkOf(o) < Chunks /\ PlaceOf(o) \in Nat
  BY <1>1, ValueIs, BitParts, ChunksAre
<1> HIDE DEF t
<1>5. CASE \E o \in AllBits : Emits(s, st, t, o)
  BY <1>2, <1>5, EmitReads DEF t
<1>6. CASE NextChunk(s, st, t)
  <2>1. t.node = st.node /\ t.shift = st.shift + 1 /\ t.pos = 0 /\ t.out = st.out
    BY <1>6 DEF NextChunk
  <2>2. ASSUME NEW k \in 1 .. Len(s), NEW o \in s[k].bits
        PROVE  PassedBit(t, k, o) <=> PassedBit(st, k, o)
    <3>1. CASE k # st.node
      BY <2>1, <3>1 DEF PassedBit
    <3>2. CASE k = st.node
      <4>1. ~(ChunkOf(o) = st.shift /\ PlaceOf(o) >= st.pos)
        BY <1>6, <3>2 DEF NextChunk, NothingLeft
      <4> QED
        BY <1>3, <1>4, <2>1, <3>2, <4>1 DEF PassedBit
    <3> QED
      BY <3>1, <3>2
  <2> QED
    BY <1>2, <2>1, <2>2, SkipReads DEF t
<1>7. CASE NextNode(s, st, t)
  <2>1. t.node = st.node + 1 /\ t.shift = 0 /\ t.pos = 0 /\ t.out = st.out /\ st.shift + 1 = Chunks
    BY <1>7 DEF NextNode
  <2>2. ASSUME NEW k \in 1 .. Len(s), NEW o \in s[k].bits
        PROVE  PassedBit(t, k, o) <=> PassedBit(st, k, o)
    <3>1. CASE k # st.node
      BY <1>3, <1>4, <2>1, <3>1 DEF PassedBit
    <3>2. CASE k = st.node
      <4>1. ~(ChunkOf(o) = st.shift /\ PlaceOf(o) >= st.pos)
        BY <1>7, <3>2 DEF NextNode, NothingLeft
      <4> QED
        BY <1>3, <1>4, <2>1, <3>2, <4>1, ChunksAre DEF PassedBit
    <3> QED
      BY <3>1, <3>2
  <2> QED
    BY <1>2, <2>1, <2>2, SkipReads DEF t
<1> QED
  BY <1>2, <1>5, <1>6, <1>7

(* The rounds a state is worth: each visit is worth one at least, and a    *)
(* node as many as it has bits and chunks.                                 *)
PerNode == Width + Chunks
Worth(st) == (st.node - 1) * PerNode + st.shift * (Chunk + 1) + st.pos

LEMMA PerNodeIs ==
  /\ PerNode \in Nat \ {0} /\ Chunk + 1 \in Nat
  /\ \A h \in Nat : /\ h * (Chunk + 1) \in Nat
                    /\ (h + 1) * (Chunk + 1) = h * (Chunk + 1) + Chunk + 1
                    /\ h + 1 = Chunks => PerNode = h * (Chunk + 1) + Chunk + 1
  /\ \A k \in Nat : k * PerNode \in Nat /\ (k + 1) * PerNode = k * PerNode + PerNode
<1>1. PerNode \in Nat \ {0} /\ Chunk + 1 \in Nat
  BY ChunksAre DEF PerNode
<1>2. ASSUME NEW a \in Nat, NEW c \in Nat
      PROVE  a * c \in Nat /\ (a + 1) * c = a * c + c
  OBVIOUS
<1>3. ASSUME NEW h \in Nat, h + 1 = Chunks
      PROVE  PerNode = h * (Chunk + 1) + Chunk + 1
  <2>1. Width = Chunk * (h + 1) /\ PerNode = Width + (h + 1) /\ Chunk \in Nat
    BY <1>3, ChunksAre DEF PerNode
  <2>2. Chunk * (h + 1) = Chunk * h + Chunk
    BY <2>1
  <2>3. h * (Chunk + 1) = Chunk * h + h
    BY <2>1
  <2>4. Chunk * h \in Nat
    BY <2>1
  <2> DEFINE x == Chunk * h
             y == h * (Chunk + 1)
             z == Chunk * (h + 1)
  <2>5. z = x + Chunk /\ y = x + h /\ PerNode = z + (h + 1) /\ x \in Nat
    BY <2>1, <2>2, <2>3, <2>4
  <2> HIDE DEF x, y, z
  <2>6. PerNode = y + Chunk + 1
    BY <2>1, <2>5
  <2> QED
    BY <2>6 DEF y
<1>4. \A a, c \in Nat : a * c \in Nat /\ (a + 1) * c = a * c + c
  BY <1>2
<1>5. ASSUME NEW h \in Nat
      PROVE  h * (Chunk + 1) \in Nat /\ (h + 1) * (Chunk + 1) = h * (Chunk + 1) + Chunk + 1
  <2> DEFINE c == Chunk + 1
  <2>1. c \in Nat /\ Chunk \in Nat
    BY <1>1, ChunksAre
  <2>2. h * c \in Nat /\ (h + 1) * c = h * c + c
    BY <1>4, <2>1
  <2> QED
    BY <2>1, <2>2
<1> QED
  BY <1>1, <1>3, <1>4, <1>5

LEMMA VisitGains ==
  ASSUME NEW s \in Seq(Nodes), NEW st \in Its(s), st.node <= Len(s),
         NEW t, t = Visit(s, st)
  PROVE  /\ Worth(st) \in Nat /\ Worth(t) \in Nat
         /\ Worth(t) >= Worth(st) + 1
<1>1. t \in Its(s)
      /\ ((\E o \in AllBits : Emits(s, st, t, o)) \/ NextChunk(s, st, t) \/ NextNode(s, st, t))
  BY VisitIs
<1>2. /\ st.node - 1 \in Nat /\ (st.node - 1) + 1 = st.node /\ st.node \in Nat
      /\ st.shift \in Nat /\ st.pos \in Nat /\ st.pos <= Chunk /\ Chunk \in Nat
      /\ t.node - 1 \in Nat /\ t.shift \in Nat /\ t.pos \in Nat
  BY <1>1, ItFacts, ChunksAre
<1> DEFINE a == (st.node - 1) * PerNode
           b == st.shift * (Chunk + 1)
           c == (t.node - 1) * PerNode
           d == t.shift * (Chunk + 1)
<1>3. a \in Nat /\ b \in Nat /\ c \in Nat /\ d \in Nat /\ PerNode \in Nat
  BY <1>2, PerNodeIs
<1>4. Worth(st) = a + b + st.pos /\ Worth(t) = c + d + t.pos
  BY DEF Worth
<1>5. \/ c = a /\ d = b /\ t.pos >= st.pos + 1
      \/ c = a /\ d = b + Chunk + 1
      \/ c = a + PerNode /\ d = 0 /\ PerNode = b + Chunk + 1
  <2>1. CASE \E o \in AllBits : Emits(s, st, t, o)
    <3>1. PICK o \in AllBits : Emits(s, st, t, o)
      BY <2>1
    <3>2. PlaceOf(o) \in Nat /\ PlaceOf(o) >= st.pos /\ t.pos = 1 + PlaceOf(o)
          /\ t.node = st.node /\ t.shift = st.shift
      BY <3>1, BitParts, ChunksAre DEF Emits
    <3>3. t.pos >= st.pos + 1
      BY <1>2, <3>2
    <3> QED
      BY <3>2, <3>3
  <2>2. CASE NextChunk(s, st, t)
    <3>1. t.node = st.node /\ t.shift = st.shift + 1
      BY <2>2 DEF NextChunk
    <3>2. (st.shift + 1) * (Chunk + 1) = st.shift * (Chunk + 1) + Chunk + 1
      BY <1>2, PerNodeIs
    <3> QED
      BY <3>1, <3>2
  <2>3. CASE NextNode(s, st, t)
    <3>1. t.node = st.node + 1 /\ t.shift = 0 /\ st.shift + 1 = Chunks
      BY <2>3 DEF NextNode
    <3>2. PerNode = st.shift * (Chunk + 1) + Chunk + 1
      BY <1>2, <3>1, PerNodeIs
    <3>3. ((st.node - 1) + 1) * PerNode = (st.node - 1) * PerNode + PerNode
      BY <1>2, PerNodeIs
    <3>4. t.node - 1 = (st.node - 1) + 1
      BY <1>2, <3>1
    <3>5. c = a + PerNode
      BY <3>3, <3>4
    <3>6. d = 0
      BY <1>2, <3>1
    <3> QED
      BY <3>2, <3>5, <3>6
  <2> QED
    BY <1>1, <2>1, <2>2, <2>3
<1> HIDE DEF a, b, c, d
<1> DEFINE u == Worth(st)
           w == Worth(t)
           p == st.pos
           q == t.pos
<1>6. /\ a \in Nat /\ b \in Nat /\ c \in Nat /\ d \in Nat /\ p \in Nat /\ q \in Nat
      /\ p <= Chunk /\ Chunk \in Nat /\ u = a + b + p /\ w = c + d + q
  BY <1>2, <1>3, <1>4
<1>7. c + d + q >= a + b + p + 1
  <2> HIDE DEF p, q
  <2>1. CASE c = a /\ d = b /\ q >= p + 1
    BY <1>6, <2>1
  <2>2. CASE c = a /\ d = b + Chunk + 1
    BY <1>6, <2>2
  <2>3. CASE c = a + PerNode /\ d = 0 /\ PerNode = b + Chunk + 1
    BY <1>3, <1>6, <2>3
  <2> QED
    BY <1>5, <2>1, <2>2, <2>3 DEF p, q
<1> HIDE DEF u, w, p, q
<1>8. u \in Nat /\ w \in Nat /\ w >= u + 1
  BY <1>6, <1>7
<1> QED
  BY <1>8 DEF u, w

(* A state before the end is worth less than all rounds. *)
LEMMA WorthBound ==
  ASSUME NEW s \in Seq(Nodes), NEW st \in Its(s), st.node <= Len(s)
  PROVE  Worth(st) < Len(s) * PerNode
<1>1. /\ st.node - 1 \in Nat /\ (st.node - 1) + 1 = st.node /\ st.node \in Nat /\ Len(s) \in Nat
      /\ st.shift \in Nat /\ st.shift < Chunks /\ st.pos \in Nat /\ st.pos <= Chunk /\ Chunk \in Nat
      /\ Chunks \in Nat \ {0} /\ Chunks - 1 \in Nat /\ (Chunks - 1) + 1 = Chunks
  BY ItFacts, ChunksAre
<1> DEFINE a == (st.node - 1) * PerNode
           b == st.shift * (Chunk + 1)
           c == (Chunks - 1) * (Chunk + 1)
           d == Len(s) * PerNode
           e == st.node * PerNode
<1>2. PerNode = c + Chunk + 1 /\ c \in Nat /\ a \in Nat /\ b \in Nat /\ d \in Nat /\ e \in Nat
  BY <1>1, PerNodeIs
<1>3. e = a + PerNode
  <2>1. ((st.node - 1) + 1) * PerNode = (st.node - 1) * PerNode + PerNode
    BY <1>1, PerNodeIs
  <2> QED
    BY <1>1, <2>1
<1>4. e <= d
  BY <1>1, PerNodeIs, TimesAtMost
<1>5. b <= c
  <2> DEFINE l == Chunks - 1
             m == Chunk + 1
  <2>1. l \in Nat /\ m \in Nat /\ st.shift <= l
    BY <1>1
  <2> HIDE DEF l, m
  <2>2. st.shift * m <= l * m
    BY <1>1, <2>1, TimesAtMost
  <2> QED
    BY <2>2 DEF l, m
<1>6. Worth(st) = a + b + st.pos
  BY DEF Worth
<1> HIDE DEF a, b, c, d, e
<1>7. Worth(st) < d
  BY <1>1, <1>2, <1>3, <1>4, <1>5, <1>6
<1> QED
  BY <1>7 DEF d

Start == [out |-> <<>>, node |-> 1, shift |-> 0, pos |-> 0]
Turn(s, st) == IF st.node > Len(s) THEN st ELSE Visit(s, st)

LEMMA TurnType ==
  ASSUME NEW s \in Seq(Nodes), NEW st \in Its(s)
  PROVE  Turn(s, st) \in Its(s)
<1>1. st.node \in Nat /\ Len(s) \in Nat
  BY ItFacts
<1>2. CASE st.node > Len(s)
  BY <1>2 DEF Turn
<1>3. CASE ~(st.node > Len(s))
  <2>1. st.node <= Len(s)
    BY <1>1, <1>3
  <2> QED
    BY <1>3, <2>1, VisitIs DEF Turn
<1> QED
  BY <1>2, <1>3

LEMMA StartReads ==
  ASSUME NEW s, Canonical(s)
  PROVE  Start \in Its(s) /\ Reads(s, Start) /\ Worth(Start) \in Nat
<1>1. s \in Seq(Nodes) /\ Len(s) \in Nat
  BY CanonicalFacts
<1>2. Start \in Its(s)
  BY <1>1, ChunksAre DEF Its, Start
<1>3. Len(Start.out) = 0 /\ Start.node = 1 /\ Start.shift = 0 /\ Start.pos = 0
  BY DEF Start
<1>4. ASSUME NEW k \in 1 .. Len(s), NEW o \in s[k].bits PROVE ~PassedBit(Start, k, o)
  <2>1. ChunkOf(o) \in Nat /\ PlaceOf(o) \in Nat
    BY <1>1, ValueIs, BitParts, ChunksAre
  <2> QED
    BY <1>3, <2>1 DEF PassedBit
<1>5. Reads(s, Start)
  BY <1>2, <1>3, <1>4 DEF Reads
<1>6. Worth(Start) \in Nat
  <2>1. Start.node - 1 = 0 /\ 0 * PerNode \in Nat /\ 0 * (Chunk + 1) \in Nat
    BY <1>3, PerNodeIs
  <2> QED
    BY <1>3, <2>1 DEF Worth
<1> QED
  BY <1>2, <1>5, <1>6

LEMMA IterRounds ==
  ASSUME NEW b, b.elms \in Seq(Nodes)
  PROVE  LET n == Len(b.elms) * PerNode IN
         /\ n \in Nat
         /\ \E after :
              /\ Iterate(b) = after[n].out /\ after[0] = Start
              /\ \A j \in 1 .. n : after[j] = Turn(b.elms, after[j - 1])
<1> DEFINE s == b.elms
           n == Len(s) * PerNode
           Is(f) == f = [k \in 0 .. n |-> IF k = 0 THEN Start ELSE Turn(s, f[k - 1])]
           F == [k \in 1 .. n |-> [st \in Its(s) |-> Turn(s, st)]]
<1>1. s \in Seq(Nodes) /\ Len(s) \in Nat /\ n \in Nat
  <2>1. s \in Seq(Nodes) /\ Len(s) \in Nat
    OBVIOUS
  <2> QED
    BY <2>1, PerNodeIs
<1>2. Start \in Its(s)
  BY <1>1, ChunksAre DEF Its, Start
<1>3. F \in [1 .. n -> [Its(s) -> Its(s)]]
  BY <1>1, TurnType
<1> HIDE DEF n
<1>4. PICK g \in [0 .. n -> Its(s)] : IsRun(g, n, Start, F)
  <2> HIDE DEF F
  <2> QED
    BY <1>1, <1>2, <1>3, Rounds
<1>5. Is(g)
  <2>1. ASSUME NEW k \in 0 .. n
        PROVE  g[k] = IF k = 0 THEN Start ELSE Turn(s, g[k - 1])
    <3>1. CASE k # 0
      <4>1. k \in 1 .. n /\ g[k - 1] \in Its(s)
        BY <1>1, <3>1
      <4> QED
        BY <1>4, <3>1, <4>1 DEF IsRun
    <3> QED
      BY <1>4, <3>1 DEF IsRun
  <2> QED
    BY <2>1
<1> DEFINE after == CHOOSE f : Is(f)
<1>6. Is(after)
  <2> HIDE DEF Is
  <2> QED
    BY <1>5
<1>7. Iterate(b) = after[n].out
  BY DEF Iterate, Loop, Turn, Start, n, PerNode, Chunks
<1>8. after[0] = Start /\ \A j \in 1 .. n : after[j] = Turn(s, after[j - 1])
  <2> HIDE DEF after
  <2> QED
    BY <1>1, <1>6
<1> HIDE DEF after
<1>9. \E f : /\ Iterate(b) = f[n].out /\ f[0] = Start
             /\ \A j \in 1 .. n : f[j] = Turn(s, f[j - 1])
  BY <1>7, <1>8
<1> QED
  BY <1>1, <1>9 DEF n

(* The iterator comes to the end, and has then read what the list holds. *)
LEMMA IterateReads ==
  ASSUME NEW b, Canonical(b.elms)
  PROVE  \E st : Reads(b.elms, st) /\ st.node = Len(b.elms) + 1 /\ Iterate(b) = st.out
<1> DEFINE s == b.elms
           n == Len(s) * PerNode
<1>1. s \in Seq(Nodes) /\ Len(s) \in Nat
  BY CanonicalFacts
<1>2. n \in Nat
  BY <1>1, IterRounds
<1>3. PICK after :
        /\ Iterate(b) = after[n].out /\ after[0] = Start
        /\ \A j \in 1 .. n : after[j] = Turn(s, after[j - 1])
  BY <1>1, IterRounds
<1> DEFINE Gone(st, j) == Reads(s, st) /\ (st.node > Len(s) \/ Worth(st) >= j)
           T == {j \in 0 .. n : Gone(after[j], j)}
<1> HIDE DEF n
<1>4. 0 \in T
  <2>1. Gone(Start, 0)
    BY StartReads
  <2> QED
    BY <1>2, <1>3, <2>1
<1>5. ASSUME NEW j \in 0 .. n - 1, j \in T PROVE j + 1 \in T
  <2> DEFINE st == after[j]
             t == after[j + 1]
  <2>1. j + 1 \in 1 .. n /\ (j + 1) - 1 = j /\ j + 1 \in 0 .. n
    BY <1>2
  <2>2. t = Turn(s, st)
    BY <1>3, <2>1
  <2>3. Reads(s, st) /\ (st.node > Len(s) \/ Worth(st) >= j)
    BY <1>5
  <2>4. st \in Its(s) /\ st.node \in Nat
    <3>1. st \in Its(s)
      BY <2>3 DEF Reads
    <3> HIDE DEF st
    <3> QED
      BY <1>1, <3>1, ItFacts
  <2> HIDE DEF st, t
  <2>5. Gone(t, j + 1)
    <3>1. CASE st.node > Len(s)
      BY <2>2, <2>3, <3>1 DEF Turn
    <3>2. CASE ~(st.node > Len(s))
      <4>1. st.node <= Len(s) /\ t = Visit(s, st)
        BY <1>1, <2>2, <2>4, <3>2 DEF Turn
      <4>2. Reads(s, t)
        BY <2>3, <4>1, VisitReads
      <4>3. Worth(st) \in Nat /\ Worth(t) \in Nat /\ Worth(t) >= Worth(st) + 1
        BY <1>1, <2>4, <4>1, VisitGains
      <4>4. Worth(t) >= j + 1
        BY <1>2, <2>3, <3>2, <4>3
      <4> QED
        BY <4>2, <4>4
    <3> QED
      BY <3>1, <3>2
  <2> QED
    BY <2>1, <2>5 DEF t
<1>6. n \in T
  <2>1. \A j \in 0 .. n - 1 : j \in T => j + 1 \in T
    BY <1>5
  <2> HIDE DEF T
  <2>2. 0 .. n \subseteq T
    BY <1>2, <1>4, <2>1, Upwards
  <2> QED
    BY <1>2, <2>2
<1> DEFINE e == after[n]
<1>7. Reads(s, e) /\ (e.node > Len(s) \/ Worth(e) >= n)
  BY <1>6
<1> HIDE DEF e
<1>8. e \in Its(s)
  BY <1>7 DEF Reads
<1>9. e.node \in 1 .. Len(s) + 1
  BY <1>1, <1>8, ItFacts
<1>10. e.node = Len(s) + 1
  <2>1. ASSUME e.node <= Len(s) PROVE FALSE
    <3>1. Worth(e) < n
      BY <1>1, <1>8, <2>1, WorthBound DEF n
    <3>2. Worth(e) \in Nat
      BY <1>1, <1>8, <2>1, VisitGains
    <3> QED
      BY <1>1, <1>2, <1>7, <1>9, <2>1, <3>1, <3>2
  <2> QED
    BY <1>1, <1>9, <2>1
<1> QED
  BY <1>3, <1>7, <1>10 DEF e

(* Iterating gives each member once, in order. *)
LEMMA IterateMeaning ==
  ASSUME NEW b, Canonical(b.elms), Within(b.elms)
  PROVE  LET it == Iterate(b) IN
         /\ \A j, k \in DOMAIN it : j < k => it[j] < it[k]
         /\ {it[k] : k \in DOMAIN it} = Content(b)
<1> DEFINE s == b.elms
<1>0. Content(b) = {x \in Members : HasBit(s, IdxOf(x), OffsOf(x))}
  BY ContentIs
<1>1. s \in Seq(Nodes) /\ Len(s) \in Nat /\ DOMAIN s = 1 .. Len(s)
  BY CanonicalFacts
<1>2. PICK st : Reads(s, st) /\ st.node = Len(s) + 1 /\ Iterate(b) = st.out
  BY IterateReads
<1> DEFINE it == Iterate(b)
           Goal == /\ \A j, k \in DOMAIN it : j < k => it[j] < it[k]
                   /\ {it[k] : k \in DOMAIN it} = Content(b)
<1> SUFFICES Goal
  OBVIOUS
<1>3. DOMAIN it = 1 .. Len(st.out) /\ it = st.out
  <2>1. st \in Its(s)
    BY <1>2 DEF Reads
  <2>2. st.out \in Seq(Nat)
    BY <1>1, <2>1, ItFacts
  <2> QED
    BY <1>2, <2>2
<1> HIDE DEF it, s
<1>4. \A j, k \in DOMAIN it : j < k => it[j] < it[k]
  BY <1>2, <1>3 DEF Reads
<1>5. ASSUME NEW k \in 1 .. Len(s), NEW o \in s[k].bits
      PROVE  PassedBit(st, k, o)
  BY <1>1, <1>2 DEF PassedBit
<1>6. ASSUME NEW k \in 1 .. Len(s), NEW o \in s[k].bits
      PROVE  Value(s, k, o) \in Content(b)
  <2>1. s[k].index \in Nat /\ o \in AllBits
    BY <1>1, ValueIs
  <2>2. HasBit(s, s[k].index, o)
    BY <1>1 DEF HasBit
  <2>3. Value(s, k, o) \in Members
    <3>1. Within(s)
      BY DEF s
    <3> QED
      BY <2>2, <3>1 DEF Within, Value
  <2>4. IdxOf(Value(s, k, o)) = s[k].index /\ OffsOf(Value(s, k, o)) = o
    BY <2>1, PartsMember DEF Value
  <2> QED
    BY <1>0, <2>2, <2>3, <2>4
<1>7. ASSUME NEW x \in Content(b)
      PROVE  \E k \in 1 .. Len(s) : \E o \in s[k].bits : x = Value(s, k, o)
  <2>1. x \in Members /\ HasBit(s, IdxOf(x), OffsOf(x))
    BY <1>0
  <2>2. PICK k \in 1 .. Len(s) : s[k].index = IdxOf(x) /\ OffsOf(x) \in s[k].bits
    BY <1>1, <2>1 DEF HasBit
  <2>3. x = Value(s, k, OffsOf(x))
    BY <2>1, <2>2, MemberParts DEF Value
  <2> QED
    BY <2>2, <2>3
<1>8. ASSUME NEW j \in DOMAIN it PROVE it[j] \in Content(b)
  <2>1. \E k \in 1 .. Len(s) : \E o \in s[k].bits : it[j] = Value(s, k, o)
    BY <1>2, <1>3 DEF Reads
  <2> QED
    BY <1>6, <2>1
<1>9. ASSUME NEW x \in Content(b) PROVE \E j \in DOMAIN it : it[j] = x
  <2>1. PICK k \in 1 .. Len(s) : \E o \in s[k].bits : x = Value(s, k, o)
    BY <1>7
  <2>2. PICK o \in s[k].bits : x = Value(s, k, o)
    BY <2>1
  <2>3. \E j \in 1 .. Len(st.out) : st.out[j] = Value(s, k, o)
    BY <1>2, <1>5 DEF Reads
  <2> QED
    BY <1>3, <2>2, <2>3
<1>10. {it[k] : k \in DOMAIN it} = Content(b)
  BY <1>8, <1>9
<1> QED
  BY <1>4, <1>10

(* Everything that is read back from two bitmaps in order *)
LEMMA BitmapsReadBack ==
  ASSUME NEW b \in Bitmaps(FALSE), Canonical(b.elms), Within(b.elms),
         NEW c \in Bitmaps(FALSE), Canonical(c.elms), Within(c.elms)
  PROVE  LET it == Iterate(b) IN
         /\ \A j, k \in DOMAIN it : j < k => it[j] < it[k]
         /\ {it[k] : k \in DOMAIN it} = Content(b)
         /\ Count(b) = Cardinality(Content(b))
         /\ Equal(b, c) <=> Content(b) = Content(c)
         /\ Content(OrCopy(b, c)) = Content(b) \cup Content(c)
         /\ Content(b) \cap Content(c) \subseteq Content(AndCopy(b, c))
         /\ Content(AndCopy(b, c)) \subseteq Content(b)
         /\ ~IsEmpty(c) => IsEmpty(MinusCopy(b, c))
<1> DEFINE it == Iterate(b)
<1>1. /\ \A j, k \in DOMAIN it : j < k => it[j] < it[k]
      /\ {it[k] : k \in DOMAIN it} = Content(b)
  BY IterateMeaning
<1>2. Count(b) = Cardinality(Content(b))
  BY CountMeaning
<1>3. Equal(b, c) <=> Content(b) = Content(c)
  BY EqualMeaning
<1>4. Content(OrCopy(b, c)) = Content(b) \cup Content(c)
  <2>1. OrCopy(b, c) = OrInto(b, c)
    BY CopiesAre
  <2>2. Content(OrInto(b, c)) = Content(b) \cup Content(c)
    BY OrIntoMeaning
  <2> QED
    BY <2>1, <2>2
<1>5. /\ Content(b) \cap Content(c) \subseteq Content(AndCopy(b, c))
      /\ Content(AndCopy(b, c)) \subseteq Content(b)
  <2>1. AndCopy(b, c) = AndInto(b, c)
    BY CopiesAre
  <2>2. /\ Content(b) \cap Content(c) \subseteq Content(AndInto(b, c))
        /\ Content(AndInto(b, c)) \subseteq Content(b)
    BY AndIntoMeaning
  <2> QED
    BY <2>1, <2>2
<1>6. ~IsEmpty(c) => IsEmpty(MinusCopy(b, c))
  BY MinusCopyEmpty
<1> HIDE DEF it
<1> QED
  BY <1>1, <1>2, <1>3, <1>4, <1>5, <1>6 DEF it

(* The iterator gives each member of a bottom set's list once, in order;   *)
(* two lists are equal when they hold the same; |, & and - of two give     *)
(* their union, what the meet keeps, and nothing                           *)
(* (util_bitmap_sparse_bitmap.h, lines 387-393, 525-721, 913-1053).        *)
THEOREM ListsAreReadBack == SetsSpec => []ListsReadBack
<1>1. SetsInv => ListsReadBack
  <2> SUFFICES ASSUME SetsInv, NEW r \in Regs, NEW q \in Regs
               PROVE  LET b == sets[r].bottom  c == sets[q].bottom  it == Iterate(b) IN
                 /\ \A j, k \in DOMAIN it : j < k => it[j] < it[k]
                 /\ {it[k] : k \in DOMAIN it} = Content(b)
                 /\ Count(b) = Cardinality(Content(b))
                 /\ Equal(b, c) <=> Content(b) = Content(c)
                 /\ Content(OrCopy(b, c)) = Content(b) \cup Content(c)
                 /\ Content(b) \cap Content(c) \subseteq Content(AndCopy(b, c))
                 /\ Content(AndCopy(b, c)) \subseteq Content(b)
                 /\ ~IsEmpty(c) => IsEmpty(MinusCopy(b, c))
    BY DEF ListsReadBack
  <2> DEFINE b == sets[r].bottom
             c == sets[q].bottom
  <2>1. sets[r] \in GoodSets /\ sets[q] \in GoodSets
    BY Operand
  <2>2. b \in Bitmaps(FALSE) /\ Canonical(b.elms) /\ Within(b.elms)
    BY <2>1, GoodFacts
  <2>3. c \in Bitmaps(FALSE) /\ Canonical(c.elms) /\ Within(c.elms)
    BY <2>1, GoodFacts
  <2> HIDE DEF b, c
  <2>4. LET it == Iterate(b) IN
         /\ \A j, k \in DOMAIN it : j < k => it[j] < it[k]
         /\ {it[k] : k \in DOMAIN it} = Content(b)
         /\ Count(b) = Cardinality(Content(b))
         /\ Equal(b, c) <=> Content(b) = Content(c)
         /\ Content(OrCopy(b, c)) = Content(b) \cup Content(c)
         /\ Content(b) \cap Content(c) \subseteq Content(AndCopy(b, c))
         /\ Content(AndCopy(b, c)) \subseteq Content(b)
         /\ ~IsEmpty(c) => IsEmpty(MinusCopy(b, c))
    BY <2>2, <2>3, BitmapsReadBack
  <2> QED
    BY <2>4 DEF b, c
<1>2. QED
  BY <1>1, InvariantHolds, PTL
=============================================================================
