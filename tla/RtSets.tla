------------------------------- MODULE RtSets -------------------------------
(***************************************************************************)
(* rt_lib::set as handlers use it (rtLib/rtLib.cpp, lines 933-1148): a     *)
(* flag that says whether the set is a universe, and a bitmap for either   *)
(* case.  Two sets go through any sequence of calls; beside each runs the  *)
(* set it is meant to be, and how far the code's set can be trusted.       *)
(***************************************************************************)
EXTENDS SparseSets

VARIABLES
  sets,     \* the code's sets
  ideal,    \* history: what each would be if every operator did what it says,
            \*   as long as anything can be said of it
  grade     \* history: 0 exact, 1 may hold too much, 2 anything

setVars == <<sets, ideal, grade>>

Regs == {1, 2}
NewSet(universe) == [universe |-> universe, bottom |-> Empty(FALSE), all |-> Empty(TRUE)]

Worse(g, h) == IF g > h THEN g ELSE h
Over(g) == Worse(1, g)

Part(s) == IF s.universe THEN s.all ELSE s.bottom
PutPart(s, b) == IF s.universe THEN [s EXCEPT !.all = b] ELSE [s EXCEPT !.bottom = b]

Has(s, e) == Test(Part(s), e)                                          \* find
Added(s, e) == PutPart(s, SetBit(Part(s), e))                          \* add
Removed(s, e) == PutPart(s, ResetBit(Part(s), e))                      \* remove
Size(s) == IF s.universe THEN 4 ELSE Count(s.bottom)

(* The operators of universe::set and of bottom::set hand the bitmap on. *)
Combined(op, b, c) ==
  CASE op = "|" -> OrInto(b, c) [] op = "-" -> MinusInto(b, c) [] op = "&" -> AndInto(b, c)
UniverseOp(op, s, b) == [s EXCEPT !.all = Combined(op, @, b)]
BottomOp(op, s, b) == [s EXCEPT !.bottom = Combined(op, @, b)]
SetOp(op, s, b) == IF s.universe THEN UniverseOp(op, s, b) ELSE BottomOp(op, s, b)

(* += and |=: with a universe the sum is one; what the left set had is     *)
(* added to a copy of it.                                                  *)
SumInto(s, q) ==
  IF ~s.universe /\ q.universe
    THEN [s EXCEPT !.universe = TRUE, !.all = OrInto(q.all, s.bottom)]
    ELSE SetOp("|", s, Part(q))

(* operator+: the universe it starts from keeps its own bottom part *)
Sum(s, q) == IF ~s.universe /\ q.universe THEN UniverseOp("|", q, s.bottom)
             ELSE SumInto(s, q)

(* -= and operator-; of two universes it throws *)
DiffInto(s, q) == SetOp("-", s, Part(q))

(* &=: a universe becomes a copy of the bottom set, whatever was removed   *)
(* from it before.                                                         *)
MeetInto(s, q) ==
  IF s.universe /\ ~q.universe THEN [s EXCEPT !.universe = FALSE, !.bottom = q.bottom]
  ELSE SetOp("&", s, Part(q))

(* operator&: a bottom set meets the nodes of the universe; operator| is   *)
(* operator&.                                                              *)
Meet(s, q) ==
  IF s.universe /\ ~q.universe THEN BottomOp("&", q, s.all)
  ELSE MeetInto(s, q)

(* How far the meet of a bottom set with another set can be trusted: nodes *)
(* behind the last one of the other set stay, and the nodes of a universe  *)
(* take away what they do not hold.                                        *)
LastIdx(b) == IF b.elms = <<>> THEN -1 ELSE b.elms[Len(b.elms)].index
MeetGrade(r, q) ==
  LET g == Worse(grade[r], grade[q]) IN
  IF sets[q].universe
    THEN IF sets[q].all.elms # <<>> THEN 2
         ELSE IF ideal[r] \subseteq ideal[q] THEN grade[r] ELSE Over(grade[r])
  ELSE IF LastIdx(sets[r].bottom) > LastIdx(sets[q].bottom) THEN Over(g) ELSE g

Becomes(r, s, i, g) ==
  /\ Len(s.all.elms) <= MaxNodes
  /\ sets' = [sets EXCEPT ![r] = s]
  /\ ideal' = [ideal EXCEPT ![r] = IF ~s.universe /\ g = 2 THEN {} ELSE i]
  /\ grade' = [grade EXCEPT ![r] = IF s.universe THEN 0 ELSE g]

SetsInit ==
  /\ sets \in [Regs -> {NewSet(TRUE), NewSet(FALSE)}]
  /\ ideal = [r \in Regs |-> IF sets[r].universe THEN Members ELSE {}]
  /\ grade = [r \in Regs |-> 0]

AddMember(r, e) == Becomes(r, Added(sets[r], e), ideal[r] \cup {e}, grade[r])
RemoveMember(r, e) == Becomes(r, Removed(sets[r], e), ideal[r] \ {e}, grade[r])

(* add_range and remove_range, one member after the other *)
Span(e, n) == {e + i : i \in 0 .. n - 1}
Each(Op(_, _), s, e, n) == Loop(LAMBDA acc, k : Op(acc, e + k - 1), s, n)
AddRange(r, e, n) == Becomes(r, Each(Added, sets[r], e, n), ideal[r] \cup Span(e, n), grade[r])
RemoveRange(r, e, n) == Becomes(r, Each(Removed, sets[r], e, n), ideal[r] \ Span(e, n), grade[r])

(* Left and right operand of an operator, and where its result goes *)
AddSet(r, p, q) ==
  \E s \in {Sum(sets[p], sets[q])} \cup (IF p = r THEN {SumInto(sets[p], sets[q])} ELSE {}) :
    Becomes(r, s, ideal[p] \cup ideal[q], Worse(grade[p], grade[q]))

Subtract(r, p, q) ==
  /\ ~(sets[p].universe /\ sets[q].universe)
  /\ Becomes(r, DiffInto(sets[p], sets[q]), ideal[p] \ ideal[q],
       IF grade[q] = 2 THEN 2
       ELSE IF ideal[p] \cap ideal[q] = {} THEN grade[p] ELSE Over(grade[p]))

IntersectWith(r, q) ==
  Becomes(r, MeetInto(sets[r], sets[q]), ideal[r] \cap ideal[q],
    IF ~sets[r].universe THEN MeetGrade(r, q)
    ELSE IF ideal[r] = Members THEN grade[q] ELSE Over(grade[q]))

Intersect(r, p, q) ==
  Becomes(r, Meet(sets[p], sets[q]), ideal[p] \cap ideal[q],
    IF sets[p].universe /\ ~sets[q].universe THEN MeetGrade(q, p) ELSE MeetGrade(p, q))

Unite(r, p, q) == Becomes(r, Meet(sets[p], sets[q]), ideal[p] \cup ideal[q], 2)

Assign(r, q) == r # q /\ Becomes(r, sets[q], ideal[q], grade[q])

SetsNext ==
  \E r \in Regs :
    \/ \E e \in Members :
         \/ AddMember(r, e) \/ RemoveMember(r, e)
         \/ \E n \in {0, 2} : Span(e, n) \subseteq Members /\ (AddRange(r, e, n) \/ RemoveRange(r, e, n))
    \/ \E q \in Regs \ {r} : IntersectWith(r, q) \/ Assign(r, q)
    \/ \E p \in Regs : \E q \in Regs \ {p} :
         AddSet(r, p, q) \/ Subtract(r, p, q) \/ Intersect(r, p, q) \/ Unite(r, p, q)

SetsSpec == SetsInit /\ [][SetsNext]_setVars

----------------------------------------------------------------------------
Nodes == [index : Nat, bits : SUBSET AllBits]
SetsTypeOK ==
  /\ sets \in [Regs -> [universe : BOOLEAN,
                        bottom : [full : {FALSE}, elms : Seq(Nodes)],
                        all : [full : {TRUE}, elms : Seq(Nodes)]]]
  /\ ideal \in [Regs -> SUBSET Members] /\ grade \in [Regs -> 0 .. 2]

(* A bottom set's list is in order and holds no empty node, whatever calls *)
(* made it (util_bitmap_sparse_bitmap.h, lines 397-433, 732-895).          *)
Sorted(s) == \A j, k \in DOMAIN s : j < k => s[j].index < s[k].index
NoneEmpty(s) == \A k \in DOMAIN s : s[k].bits # {}
ListsCanonical ==
  \A r \in Regs : Sorted(sets[r].bottom.elms) /\ NoneEmpty(sets[r].bottom.elms)

(* A bottom set lacks no member it should have until a set operator has    *)
(* met a universe's nodes or operator| was used; it has none too many      *)
(* until a difference was taken, or a meet with a set that ends earlier    *)
(* (rtLib.cpp, lines 1001-1120).                                           *)
SetsHoldWhatTheyShould ==
  \A r \in Regs : ~sets[r].universe =>
    /\ grade[r] <= 1 => ideal[r] \subseteq Content(sets[r].bottom)
    /\ grade[r] = 0 => Content(sets[r].bottom) = ideal[r]

(* What is read back from a list is its members: the iterator gives each   *)
(* once, in order; two lists are equal when they hold the same; the        *)
(* copying operators give the union, what the meet keeps, and nothing      *)
(* (util_bitmap_sparse_bitmap.h, lines 387-393, 525-721, 913-1053).        *)
ListsReadBack ==
  \A r, q \in Regs : LET b == sets[r].bottom  c == sets[q].bottom  it == Iterate(b) IN
    /\ \A j, k \in DOMAIN it : j < k => it[j] < it[k]
    /\ {it[k] : k \in DOMAIN it} = Content(b)
    /\ Count(b) = Cardinality(Content(b))
    /\ Equal(b, c) <=> Content(b) = Content(c)
    /\ Content(OrCopy(b, c)) = Content(b) \cup Content(c)
    /\ Content(b) \cap Content(c) \subseteq Content(AndCopy(b, c))
    /\ Content(AndCopy(b, c)) \subseteq Content(b)
    /\ ~IsEmpty(c) => IsEmpty(MinusCopy(b, c))

(* The inductive invariant: a bottom set also holds members only, whether  *)
(* it is the one in use or waits behind a universe.                        *)
MembersOnly ==
  \A r \in Regs : LET s == sets[r].bottom.elms IN
    \A k \in DOMAIN s : \A o \in s[k].bits : s[k].index * Width + o \in Members

SetsInv == SetsTypeOK /\ ListsCanonical /\ MembersOnly /\ SetsHoldWhatTheyShould
=============================================================================
