----------------------------- MODULE CopyElision -----------------------------
(***************************************************************************)
(* The generator's first pass (G-parser/generator.h, lines 217-821): an    *)
(* assignment  x = e  to a collection becomes  x op= e'  if an occurrence  *)
(* of x in e can be brought to the top of e, which saves the copy of x.    *)
(*                                                                         *)
(* An expression is what the pass works on: nodes and the pointers between *)
(* them.  A node goes by the way that led to it in the expression as it    *)
(* was written, 1 for left or within, 2 for right.  op[m] is what it is:   *)
(* an operator, parentheses or a name.  of[p] is the node the pointer at a *)
(* place leads to: operand i of m is of[Slot(m, i)], the whole of[<<>>].   *)
(* The grammar's chains of one-child nodes are left out, and with them the *)
(* climb through them to the nearest operator; so are the levels of ^ and  *)
(* of *.  The occurrences of x are told apart: the pass holds pointers to  *)
(* them.  Operators mean what they mean for sets, which the pass counts on *)
(* and the runtime's operator|, which is its operator&, does not provide.  *)
(***************************************************************************)
EXTENDS Integers, SequencesExt

CONSTANT MaxOperators     \* bound: operators and parentheses of an expression

ASSUME CopyElisionAssumption == MaxOperators \in Nat

VARIABLES
  written,     \* the expression as it was written
  right,       \* what the pass has made of it
  operator,    \* of the assignment: "" for =, op for op=
  looked       \* how many occurrences the loop has been through

copyVars == <<written, right, operator, looked>>

Operators == {"+", "-", "&", "|"}
Occurrences == <<"x1", "x2">>
Names == {"x1", "x2", "a", "b"}
CommutesBug(op) == op \in Operators          \* a difference is taken for commutative
Commutes(op) == op \in {"+", "&", "|"}                                 \* is_swap_operator
(* Operators of a level bind closer than those of the next. *)
Level(op) == CASE op \in {"+", "-"} -> 1 [] op = "&" -> 2 [] op = "|" -> 3 [] OTHER -> 0

(* The pointer of a node to its i-th operand *)
Slot(m, i) == Append(m, i)

(* An expression whose pointers are as it was written *)
Expression(op) == [op |-> op, of |-> [p \in DOMAIN op |-> p]]
Name(n) == Expression([p \in {<<>>} |-> n])

(* The expressions of the grammar: the ways to their nodes, ... *)
Branching(S) == {p \in S : Slot(p, 1) \in S}
Shapes ==
  {S \in SUBSET UNION {[1 .. k -> {1, 2}] : k \in 0 .. MaxOperators} :
    /\ <<>> \in S
    /\ \A p \in S \ {<<>>} : Front(p) \in S /\ Slot(Front(p), 1) \in S
    /\ Cardinality(Branching(S)) <= MaxOperators}

(* ... the operators there, an operator with one operand being a pair of   *)
(* parentheses, each as loose as its place allows, ...                     *)
Operations(S) ==
  {o \in [Branching(S) -> Operators \cup {"("}] :
    \A p \in Branching(S) :
      LET At(i) == IF Slot(p, i) \in Branching(S) THEN Level(o[Slot(p, i)]) ELSE 0
      IN  IF Slot(p, 2) \in S
            THEN o[p] # "(" /\ At(1) <= Level(o[p]) /\ At(2) < Level(o[p])
            ELSE o[p] = "(" /\ At(1) > 0}

(* ... and the names, where x occurs once or twice and first as x1.        *)
Before(p, q) == \E k \in DOMAIN p \cap DOMAIN q : p[k] < q[k] /\ \A j \in 1 .. k - 1 : p[j] = q[j]
Namings(S) ==
  {n \in [S \ Branching(S) -> Names] :
    /\ \E p \in DOMAIN n : n[p] = "x1"
    /\ \A p \in DOMAIN n : n[p] \in {"x1", "x2"} =>
         \A q \in DOMAIN n : /\ n[q] = n[p] => q = p
                             /\ n[p] = "x1" /\ n[q] = "x2" => Before(p, q)}

Expressions ==
  UNION {{Expression([p \in S |-> IF p \in Branching(S) THEN o[p] ELSE n[p]]) :
            o \in Operations(S), n \in Namings(S)} : S \in Shapes}

Occurs(t, n) == \E m \in DOMAIN t.op : t.op[m] = n
WhereIs(t, n) == CHOOSE m \in DOMAIN t.op : t.op[m] = n
SlotOf(t, m) == CHOOSE p \in DOMAIN t.of : t.of[p] = m
Parent(t, m) == Front(SlotOf(t, m))
Exchange(t, p, q) == [t EXCEPT !.of = [@ EXCEPT ![p] = t.of[q], ![q] = t.of[p]]]

(* Whether the parent of a node is an operator: the climb ends there, and  *)
(* gives up at parentheses.                                                *)
UnderOperator(t, m) == SlotOf(t, m) # <<>> /\ t.op[Parent(t, m)] \in Operators

(* change_commutative_order: x moves to the right of its operator p, and   *)
(* the right operands of the operators of that level above it change       *)
(* places with that operator's, one after the other.                       *)
ClimbOne(c, p) ==
  LET up == Parent(c.tree, c.at)
  IN  IF /\ UnderOperator(c.tree, c.at)
         /\ Level(c.tree.op[up]) = Level(c.tree.op[p]) /\ Commutes(c.tree.op[up])
        THEN [tree |-> Exchange(c.tree, Slot(p, 2), Slot(up, 2)), at |-> up]
        ELSE c

Climb(t, p) ==
  LET climbed[k \in 0 .. MaxOperators] ==
        IF k = 0 THEN [tree |-> t, at |-> p] ELSE ClimbOne(climbed[k - 1], p)
  IN  climbed[MaxOperators].tree

Reordered(t, n) ==
  LET p == Parent(t, WhereIs(t, n))
      swapped == IF SlotOf(t, WhereIs(t, n)) = Slot(p, 1) THEN Exchange(t, Slot(p, 1), Slot(p, 2)) ELSE t
  IN  IF Commutes(t.op[p]) THEN Climb(swapped, p) ELSE t

(* check_could_be_extracted, for x under the topmost operator *)
Topmost(t, n) == ~UnderOperator(t, Parent(t, WhereIs(t, n)))
Extractable(t, n) ==
  /\ Topmost(t, n)
  /\ Last(SlotOf(t, WhereIs(t, n))) = 1 \/ Commutes(t.op[Parent(t, WhereIs(t, n))])

CopyStart(t) == written = t /\ right = t /\ operator = "" /\ looked = 0
CopyInit == \E t \in Expressions : CopyStart(t)

Turn(n) == operator = "" /\ looked < 2 /\ n = Occurrences[looked + 1] /\ Occurs(right, n)

PassOver(n) ==
  /\ Turn(n) /\ ~UnderOperator(right, WhereIs(right, n))
  /\ looked' = looked + 1
  /\ UNCHANGED <<written, right, operator>>

Reorder(n) ==
  /\ Turn(n) /\ UnderOperator(right, WhereIs(right, n))
  /\ right' = Reordered(right, n)
  /\ ~Extractable(right', n)
  /\ looked' = looked + 1
  /\ UNCHANGED <<written, operator>>

(* do_extraction, after which the loop ends: the other operand takes the   *)
(* operator's place.                                                       *)
Extracted(t, n) ==
  LET p == Parent(t, WhereIs(t, n))
      other == 3 - Last(SlotOf(t, WhereIs(t, n)))
  IN  [t EXCEPT !.of[SlotOf(t, p)] = t.of[Slot(p, other)]]

Extract(n) ==
  /\ Turn(n) /\ UnderOperator(right, WhereIs(right, n))
  /\ LET t == Reordered(right, n)
     IN  /\ Extractable(t, n)
         /\ right' = Extracted(t, n)
         /\ operator' = t.op[Parent(t, WhereIs(t, n))]
  /\ looked' = looked + 1
  /\ UNCHANGED written

CopyNext == \E n \in Range(Occurrences) : PassOver(n) \/ Reorder(n) \/ Extract(n)

CopySpec == CopyInit /\ [][CopyNext]_copyVars

----------------------------------------------------------------------------
(* The operators are those of sets: what they do to one member says it all.*)
Apply(op, l, r) == CASE op \in {"+", "|"} -> l \/ r [] op = "&" -> l /\ r [] op = "-" -> l /\ ~r
Meaning(n, env) == env[IF n \in {"x1", "x2"} THEN "x" ELSE n]
Value(t, env) ==
  LET v[m \in DOMAIN t.op] ==
        IF t.op[m] = "(" THEN v[t.of[Slot(m, 1)]]
        ELSE IF t.op[m] \in Operators
          THEN Apply(t.op[m], v[t.of[Slot(m, 1)]], v[t.of[Slot(m, 2)]])
        ELSE Meaning(t.op[m], env)
  IN  v[t.of[<<>>]]

InParens(t, n) ==
  \E p, m \in DOMAIN t.op : t.op[p] = "(" /\ t.op[m] = n /\ IsPrefix(p, m)

(* The assignment the pass leaves gives x the value the written one would  *)
(* have, however the operands were exchanged (lines 643-793).  An x within *)
(* parentheses is excepted: the climb takes the parentheses for the top,   *)
(* so that x = (x + a) & b becomes x += (a) & b.                           *)
CopyKeepsMeaning ==
  (\A n \in Range(Occurrences) : ~InParens(written, n)) =>
    \A env \in [{"x", "a", "b"} -> BOOLEAN] :
      Value(written, env) =
        IF operator = "" THEN Value(right, env) ELSE Apply(operator, env["x"], Value(right, env))
=============================================================================
