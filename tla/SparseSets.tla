----------------------------- MODULE SparseSets -----------------------------
(***************************************************************************)
(* The sets of the handlers: rt_lib::set over a universe::set and a        *)
(* bottom::set (rtLib/rtLib.cpp), each of them a SparseBitmap              *)
(* (rtLib/util_bitmap_sparse_bitmap.h).                                    *)
(*                                                                         *)
(* A bitmap is a list of nodes; a node holds the bits of Width             *)
(* consecutive members, in bitsets of Chunk bits; `full' is the bitmap's   *)
(* universe flag, which decides what a new node holds.  A loop over two    *)
(* lists takes one of them node by node; `at' is where it stands in the    *)
(* other, which it only ever walks forwards.                               *)
(***************************************************************************)
EXTENDS Integers, Sequences, FiniteSets

CONSTANTS
  Width,       \* bits_per_field, 16 in the code
  Chunk,       \* BitsPerSet, 4 in the code
  Members,     \* the members handlers put into sets
  MaxNodes     \* bound: no list grows beyond this

ASSUME SparseSetsAssumption ==
  /\ Chunk \in Nat \ {0} /\ Width \in Nat \ {0} /\ Width % Chunk = 0
  /\ Members \subseteq Nat /\ MaxNodes \in Nat

AllBits == 0 .. Width - 1
Node(index, full) == [index |-> index, bits |-> IF full THEN AllBits ELSE {}]
Empty(full) == [full |-> full, elms |-> <<>>]

IdxOf(e) == e \div Width                                               \* getIdx
OffsOf(e) == e % Width                                                 \* getOffs

(* Joining, meeting and cutting two nodes *)
NodeOr(n, m) == [n EXCEPT !.bits = @ \cup m.bits]
NodeAnd(n, m) == [n EXCEPT !.bits = @ \cap m.bits]
NodeMinus(n, m) == [n EXCEPT !.bits = @ \ m.bits]
KeepUnlessNone(n) == IF n.bits = {} THEN <<>> ELSE <<n>>

(* n rounds of a loop: Round(s, k) is what the k-th makes of s *)
Loop(Round(_, _), start, n) ==
  LET after[k \in 0 .. n] == IF k = 0 THEN start ELSE Round(after[k - 1], k)
  IN  after[n]

(* From a place on, the first node at or after idx, or one past the end *)
FirstFrom(s, from, idx) ==
  CHOOSE k \in from .. Len(s) + 1 :
    /\ k > Len(s) \/ s[k].index >= idx
    /\ \A j \in from .. k - 1 : s[j].index < idx

IsAt(s, k, idx) == k <= Len(s) /\ s[k].index = idx

FindClosest(s, idx) == FirstFrom(s, 1, idx)
HasNode(s, idx) == IsAt(s, FindClosest(s, idx), idx)

Inserted(s, k, n) ==
  [j \in 1 .. Len(s) + 1 |-> IF j < k THEN s[j] ELSE IF j = k THEN n ELSE s[j - 1]]
Erased(s, k) == [j \in 1 .. Len(s) - 1 |-> IF j < k THEN s[j] ELSE s[j + 1]]

Test(b, e) ==
  /\ HasNode(b.elms, IdxOf(e))
  /\ OffsOf(e) \in b.elms[FindClosest(b.elms, IdxOf(e))].bits

(* set() puts a node in first if there is none, full in a universe. *)
SetBit(b, e) ==
  LET k == FindClosest(b.elms, IdxOf(e))
      s == IF HasNode(b.elms, IdxOf(e)) THEN b.elms
           ELSE Inserted(b.elms, k, Node(IdxOf(e), b.full))
  IN  [b EXCEPT !.elms = [s EXCEPT ![k].bits = @ \cup {OffsOf(e)}]]

ResetBug(b, e) ==            \* a node without bits stays in the list
  LET k == FindClosest(b.elms, IdxOf(e))
  IN  IF HasNode(b.elms, IdxOf(e))
        THEN [b EXCEPT !.elms[k].bits = @ \ {OffsOf(e)}] ELSE b

(* reset() drops the node when it takes its last bit. *)
ResetBit(b, e) ==
  LET k == FindClosest(b.elms, IdxOf(e))
      s == [b.elms EXCEPT ![k].bits = @ \ {OffsOf(e)}]
  IN  IF ~HasNode(b.elms, IdxOf(e)) THEN b
      ELSE [b EXCEPT !.elms = IF s[k].bits = {} THEN Erased(s, k) ELSE s]

Count(b) == Loop(LAMBDA c, k : c + Cardinality(b.elms[k].bits), 0, Len(b.elms))
IsEmpty(b) == Count(b) = 0

(* One node of the right side: it joins its like, or is put in before the  *)
(* first node behind it.                                                   *)
OrNode(st, n, full) ==
  LET k == FirstFrom(st.elms, st.at, n.index) IN
  [elms |-> IF IsAt(st.elms, k, n.index) THEN [st.elms EXCEPT ![k] = NodeOr(@, n)]
            ELSE Inserted(st.elms, k, IF full THEN Node(n.index, TRUE) ELSE n),
   at |-> k + 1]

OrMerge(s, r, full) ==
  Loop(LAMBDA st, j : OrNode(st, r[j], full), [elms |-> s, at |-> 1], Len(r)).elms

(* operator|= and operator+=; operator| and operator+ on a copy, which     *)
(* forgets the flag.                                                       *)
OrInto(b, c) == IF IsEmpty(c) THEN b ELSE [b EXCEPT !.elms = OrMerge(@, c.elms, b.full)]
OrCopy(b, c) ==
  [full |-> FALSE,
   elms |-> IF IsEmpty(c) THEN b.elms ELSE OrMerge(b.elms, c.elms, b.full)]

AndMergeBug(s, r) ==         \* nodes of the left side alone are kept
  LET same(n) == {j \in DOMAIN r : r[j].index = n.index}
      meet(n) == IF same(n) = {} THEN n ELSE NodeAnd(n, r[CHOOSE j \in same(n) : TRUE])
      hasBits(n) == n.bits # {}
  IN  SelectSeq([k \in DOMAIN s |-> meet(s[k])], hasBits)

(* One node of the left side: it meets its like, or is dropped; when the   *)
(* right side is at its end, it stays.                                     *)
AndNode(st, n, r) ==
  LET k == FirstFrom(r, st.at, n.index) IN
  [elms |-> st.elms \o (IF k > Len(r) THEN <<n>>
                        ELSE IF IsAt(r, k, n.index) THEN KeepUnlessNone(NodeAnd(n, r[k])) ELSE <<>>),
   at |-> IF IsAt(r, k, n.index) THEN k + 1 ELSE k]

AndMerge(s, r) ==
  Loop(LAMBDA st, j : AndNode(st, s[j], r), [elms |-> <<>>, at |-> 1], Len(s)).elms

(* In a universe, a node of the right side meets its like, or goes to the  *)
(* end of the left side, where the walk will come to it.                   *)
AndFullNode(st, n) ==
  LET k == FirstFrom(st.elms, st.at, n.index)
      here == IsAt(st.elms, k, n.index)
  IN  [elms |-> IF here THEN [st.elms EXCEPT ![k] = NodeAnd(@, n)] ELSE Append(st.elms, n),
       at |-> IF here \/ k > Len(st.elms) THEN k + 1 ELSE k]

AndMergeFull(s, r) ==
  Loop(LAMBDA st, j : AndFullNode(st, r[j]), [elms |-> s, at |-> 1], Len(r)).elms

AndInto(b, c) == [b EXCEPT !.elms = IF b.full THEN AndMergeFull(@, c.elms) ELSE AndMerge(@, c.elms)]

(* operator& of two bottom bitmaps: the same walk over a copy *)
AndCopy(b, c) == [full |-> FALSE, elms |-> AndMerge(b.elms, c.elms)]

(* -= walks both lists, but the nodes' own -= cuts a copy which it forgets, *)
(* so that no node changes; a universe gets a node for each node of the     *)
(* right side, at the end.  operator- walks its empty result instead of the *)
(* left side.                                                               *)
Complements(r) == [k \in DOMAIN r |-> NodeMinus(Node(r[k].index, TRUE), r[k])]
MinusInto(b, c) ==
  IF IsEmpty(c) THEN b
  ELSE [b EXCEPT !.elms = IF b.full THEN @ \o Complements(c.elms) ELSE @]
MinusCopy(b, c) ==
  [full |-> FALSE,
   elms |-> IF IsEmpty(c) THEN b.elms ELSE IF b.full THEN Complements(c.elms) ELSE <<>>]

Equal(b, c) ==
  /\ Len(b.elms) = Len(c.elms)
  /\ \A k \in DOMAIN b.elms : b.elms[k] = c.elms[k]

(* The iterator is at bit pos of a chunk of a node: it looks for the next  *)
(* bit there, then in the next chunk, then in the next node.               *)
Rest(n, shift, pos) == {b \in n.bits : (b \div Chunk) = shift /\ (b % Chunk) >= pos}
Least(S) == CHOOSE b \in S : \A c \in S : b <= c

VisitBug(s, st) ==           \* the position is kept in the next chunk
  LET left == Rest(s[st.node], st.shift, st.pos) IN
  IF left # {}
    THEN [st EXCEPT !.out = Append(@, s[st.node].index * Width + Least(left)),
                    !.pos = 1 + (Least(left) % Chunk)]
  ELSE IF st.shift + 1 < Width \div Chunk THEN [st EXCEPT !.shift = @ + 1]
  ELSE [st EXCEPT !.node = @ + 1, !.shift = 0, !.pos = 0]

Visit(s, st) ==
  LET left == Rest(s[st.node], st.shift, st.pos) IN
  IF left # {}
    THEN [st EXCEPT !.out = Append(@, s[st.node].index * Width + Least(left)),
                    !.pos = 1 + (Least(left) % Chunk)]
  ELSE IF st.shift + 1 < Width \div Chunk THEN [st EXCEPT !.shift = @ + 1, !.pos = 0]
  ELSE [st EXCEPT !.node = @ + 1, !.shift = 0, !.pos = 0]

(* As many rounds as there are bits and chunks are enough. *)
Iterate(b) ==
  Loop(LAMBDA st, k : IF st.node > Len(b.elms) THEN st ELSE Visit(b.elms, st),
       [out |-> <<>>, node |-> 1, shift |-> 0, pos |-> 0],
       Len(b.elms) * (Width + Width \div Chunk)).out

Content(b) == {e \in Members : Test(b, e)}
=============================================================================
