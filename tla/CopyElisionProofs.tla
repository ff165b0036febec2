-------------------------- MODULE CopyElisionProofs --------------------------
(***************************************************************************)
(* The elimination of copies keeps the value of every expression, of any   *)
(* number of operators and parentheses (CopyElision).                      *)
(*                                                                         *)
(* The pass only moves pointers, so that the nodes stay and with them what *)
(* they are; what an expression means is the value its whole has under the *)
(* one assignment of truth values to nodes that fits every node's          *)
(* operands.  An exchange changes the values of the operators between the  *)
(* two pointers and of nothing else.                                       *)
(***************************************************************************)
EXTENDS CopyElision, WellFoundedInduction, SequenceTheorems, TLAPS

(* Induction up to n: a set that has 0 and with each number the next has   *)
(* all of them.                                                            *)
LEMMA Upwards ==
  ASSUME NEW n \in Nat, NEW T, 0 \in T,
         \A k \in 0 .. n - 1 : k \in T => k + 1 \in T
  PROVE  0 .. n \subseteq T
<1>1. SUFFICES ASSUME (0 .. n) \ T # {} PROVE FALSE
  OBVIOUS
<1> DEFINE U == (0 .. n) \ T
           R == {p \in Nat \X Nat : p[1] < p[2]}
<1>2. U \subseteq Nat /\ U # {}
  BY <1>1
<1>3. IsWellFoundedOn(R, Nat)
  BY NatLessThanWellFounded DEF OpToRel
<1>4. \A x, y \in Nat : y < x => <<y, x>> \in R
  OBVIOUS
<1> HIDE DEF R
<1>5. \E x \in U : \A y \in U : ~(<<y, x>> \in R)
  <2> HIDE DEF U
  <2> QED
    BY <1>2, <1>3, WFMin
<1>6. PICK x \in U : \A y \in U : ~(<<y, x>> \in R)
  BY <1>5
<1>7. x \in 1 .. n
  BY <1>6
<1>8. <<x - 1, x>> \in R
  BY <1>4, <1>7
<1>9. x - 1 \in T /\ x - 1 \in 0 .. n - 1
  BY <1>6, <1>7, <1>8
<1>10. QED
  BY <1>6, <1>7, <1>9

IsRun(g, n, start, F) == g[0] = start /\ \A k \in 1 .. n : g[k] = F[k][g[k - 1]]

(* The rounds of a loop over a set the round does not leave are there,     *)
(* whatever function a round is.                                           *)
LEMMA Rounds ==
  ASSUME NEW n \in Nat, NEW S, NEW start \in S, NEW F \in [1 .. n -> [S -> S]]
  PROVE  \E g \in [0 .. n -> S] : IsRun(g, n, start, F)
<1> DEFINE Good(k, g) == IsRun(g, k, start, F)
           T == {k \in 0 .. n : \E g \in [0 .. k -> S] : Good(k, g)}
<1>1. 0 \in T
  <2>1. [j \in 0 .. 0 |-> start] \in [0 .. 0 -> S] /\ Good(0, [j \in 0 .. 0 |-> start])
    BY DEF IsRun
  <2> HIDE DEF Good
  <2> QED
    BY <2>1
<1>2. ASSUME NEW k \in 0 .. n - 1, k \in T PROVE k + 1 \in T
  <2>1. PICK g \in [0 .. k -> S] : Good(k, g)
    BY <1>2
  <2> DEFINE h == [j \in 0 .. k + 1 |-> IF j = k + 1 THEN F[k + 1][g[k]] ELSE g[j]]
  <2>2. h \in [0 .. k + 1 -> S]
    OBVIOUS
  <2>3. h[0] = start
    BY <2>1 DEF IsRun
  <2>4. ASSUME NEW j \in 1 .. k + 1 PROVE h[j] = F[j][h[j - 1]]
    <3>1. CASE j = k + 1
      BY <3>1
    <3>2. CASE j # k + 1
      <4>1. j \in 1 .. k /\ j - 1 \in 0 .. k /\ j - 1 # k + 1
        BY <3>2
      <4> QED
        BY <2>1, <3>2, <4>1 DEF IsRun
    <3> QED
      BY <3>1, <3>2
  <2> HIDE DEF h
  <2>5. Good(k + 1, h) /\ k + 1 \in 0 .. n
    BY <2>3, <2>4 DEF IsRun
  <2> HIDE DEF Good
  <2> QED
    BY <2>2, <2>5
<1>3. n \in T
  <2> HIDE DEF T
  <2>1. \A k \in 0 .. n - 1 : k \in T => k + 1 \in T
    BY <1>2
  <2>2. 0 .. n \subseteq T
    BY <1>1, <2>1, Upwards
  <2> QED
    BY <2>2
<1>4. QED
  BY <1>3

----------------------------------------------------------------------------
(* Ways: how a pointer goes by its node and the operand. *)
LEMMA SlotFacts ==
  ASSUME NEW m \in Seq({1, 2}), NEW i \in {1, 2}
  PROVE  /\ Slot(m, i) \in Seq({1, 2}) /\ Slot(m, i) # <<>>
         /\ Len(Slot(m, i)) = Len(m) + 1
         /\ Front(Slot(m, i)) = m /\ Last(Slot(m, i)) = i
<1> DEFINE s == Append(m, i)
<1>1. /\ s \in Seq({1, 2}) /\ s # <<>> /\ Len(s) = Len(m) + 1 /\ s[Len(m) + 1] = i
      /\ \A j \in 1 .. Len(m) : s[j] = m[j]
  BY AppendProperties
<1> HIDE DEF s
<1>2. Len(m) \in Nat /\ (Len(m) + 1) - 1 = Len(m)
  OBVIOUS
<1>3. /\ SubSeq(s, 1, Len(m)) \in Seq({1, 2}) /\ Len(SubSeq(s, 1, Len(m))) = Len(m)
      /\ \A j \in 1 .. Len(m) : SubSeq(s, 1, Len(m))[j] = s[j]
  BY <1>1, <1>2
<1>4. SubSeq(s, 1, Len(m)) = m
  BY <1>1, <1>2, <1>3, SeqEqual
<1>5. Slot(m, i) = s
  BY DEF Slot, s
<1>6. QED
  BY <1>1, <1>2, <1>4, <1>5 DEF Front, Last

LEMMA SlotsDiffer ==
  ASSUME NEW m \in Seq({1, 2}), NEW i \in {1, 2}, NEW k \in Seq({1, 2}), NEW j \in {1, 2},
         Slot(m, i) = Slot(k, j)
  PROVE  m = k /\ i = j
BY SlotFacts

LEMMA WayFacts ==
  ASSUME NEW p \in Seq({1, 2}), p # <<>>
  PROVE  /\ Front(p) \in Seq({1, 2}) /\ Last(p) \in {1, 2}
         /\ Slot(Front(p), Last(p)) = p
<1>1. PICK m \in Seq({1, 2}), i \in {1, 2} : p = Append(m, i)
  BY SequenceEmptyOrAppend
<1>2. QED
  BY <1>1, SlotFacts DEF Slot

LEMMA PrefixFacts ==
  ASSUME NEW p \in Seq({1, 2}), NEW m \in Seq({1, 2})
  PROVE  /\ IsPrefix(p, p)
         /\ IsPrefix(p, m) => \A i \in {1, 2} : IsPrefix(p, Slot(m, i))
BY AppendProperties DEF Slot, IsPrefix

----------------------------------------------------------------------------
(* What the pass relies on and never changes: which nodes there are and    *)
(* what they are.                                                          *)
Labels == Operators \cup {"("} \cup Names

Lawful(op) ==
  /\ op \in [DOMAIN op -> Labels] /\ <<>> \in DOMAIN op
  /\ \A p \in DOMAIN op : /\ p \in Seq({1, 2}) /\ Len(p) <= MaxOperators
                          /\ p # <<>> => Front(p) \in DOMAIN op
  /\ \A m \in DOMAIN op :
       /\ op[m] \in Operators => Slot(m, 1) \in DOMAIN op /\ Slot(m, 2) \in DOMAIN op
       /\ op[m] = "(" => Slot(m, 1) \in DOMAIN op
       /\ \A i \in {1, 2} : Slot(m, i) \in DOMAIN op => op[m] \in Operators \/ (op[m] = "(" /\ i = 1)

(* What the grammar sees to: a right operand binds closer than its         *)
(* operator.                                                               *)
CloserRight(t) ==
  \A m \in DOMAIN t.op : t.op[m] \in Operators => Level(t.op[t.of[Slot(m, 2)]]) < Level(t.op[m])

LEMMA ShapeFacts ==
  ASSUME NEW S \in Shapes
  PROVE  /\ <<>> \in S
         /\ \A p \in S : /\ p \in Seq({1, 2}) /\ Len(p) <= MaxOperators
                         /\ p # <<>> => Front(p) \in S
         /\ \A p \in S : \A i \in {1, 2} : Slot(p, i) \in S => p \in Branching(S)
<1>1. ASSUME NEW k \in 0 .. MaxOperators, NEW p \in [1 .. k -> {1, 2}]
      PROVE  p \in Seq({1, 2}) /\ Len(p) <= MaxOperators
  BY CopyElisionAssumption, IsASeq
<1>2. \A p \in S : p \in Seq({1, 2}) /\ Len(p) <= MaxOperators
  BY <1>1 DEF Shapes
<1>3. <<>> \in S /\ \A p \in S \ {<<>>} : Front(p) \in S /\ Slot(Front(p), 1) \in S
  BY DEF Shapes
<1>4. ASSUME NEW p \in S, NEW i \in {1, 2}, Slot(p, i) \in S PROVE p \in Branching(S)
  BY <1>2, <1>3, <1>4, SlotFacts DEF Branching
<1>5. QED
  BY <1>2, <1>3, <1>4

LEMMA ExpressionFacts ==
  ASSUME NEW t \in Expressions
  PROVE  Lawful(t.op) /\ t = Expression(t.op) /\ CloserRight(t)
<1>0. PICK S \in Shapes : \E o \in Operations(S), n \in Namings(S) :
        t = Expression([p \in S |-> IF p \in Branching(S) THEN o[p] ELSE n[p]])
  BY DEF Expressions
<1>1. PICK o \in Operations(S), n \in Namings(S) :
        t = Expression([p \in S |-> IF p \in Branching(S) THEN o[p] ELSE n[p]])
  BY <1>0
<1> DEFINE op == [p \in S |-> IF p \in Branching(S) THEN o[p] ELSE n[p]]
<1>2. /\ o \in [Branching(S) -> Operators \cup {"("}] /\ n \in [S \ Branching(S) -> Names]
      /\ Branching(S) \subseteq S
  BY DEF Operations, Namings, Branching
<1>3. /\ DOMAIN op = S
      /\ \A p \in Branching(S) : op[p] = o[p]
      /\ \A p \in S \ Branching(S) : op[p] = n[p]
  BY <1>2
<1>4. t.op = op /\ t = Expression(op)
  BY <1>1 DEF Expression
<1> HIDE DEF op
<1>5. op \in [DOMAIN op -> Labels]
  <2>1. op = [p \in S |-> op[p]]
    BY <1>3 DEF op
  <2>2. \A p \in S : op[p] \in Labels
    BY <1>2, <1>3 DEF Labels
  <2>3. QED
    BY <1>3, <2>1, <2>2
<1>6. ASSUME NEW m \in S PROVE op[m] \in Operators => Slot(m, 1) \in S /\ Slot(m, 2) \in S
  <2>1. CASE m \in Branching(S)
    BY <1>3, <2>1 DEF Operations, Operators, Branching
  <2>2. CASE m \notin Branching(S)
    BY <1>2, <1>3, <2>2 DEF Names, Operators
  <2>3. QED
    BY <2>1, <2>2
<1>7. ASSUME NEW m \in S PROVE op[m] = "(" => Slot(m, 1) \in S
  <2>1. CASE m \in Branching(S)
    BY <2>1 DEF Branching
  <2>2. CASE m \notin Branching(S)
    BY <1>2, <1>3, <2>2 DEF Names
  <2>3. QED
    BY <2>1, <2>2
<1>8. ASSUME NEW m \in S, NEW i \in {1, 2}, Slot(m, i) \in S
      PROVE  op[m] \in Operators \/ (op[m] = "(" /\ i = 1)
  <2>1. m \in Branching(S)
    BY <1>8, ShapeFacts
  <2>2. CASE i = 1
    BY <1>2, <1>3, <2>1, <2>2
  <2>3. CASE i = 2
    BY <1>2, <1>3, <1>8, <2>1, <2>3 DEF Operations
  <2>4. QED
    BY <2>2, <2>3
<1>9. Lawful(op)
  BY <1>3, <1>5, <1>6, <1>7, <1>8, ShapeFacts DEF Lawful
<1>10. ASSUME NEW m \in S, op[m] \in Operators PROVE Level(op[Slot(m, 2)]) < Level(op[m])
  <2>1. Slot(m, 2) \in S /\ m \in Branching(S)
    BY <1>6, <1>10, ShapeFacts
  <2>2. (IF Slot(m, 2) \in Branching(S) THEN Level(o[Slot(m, 2)]) ELSE 0) < Level(o[m])
    BY <2>1 DEF Operations
  <2>3. CASE Slot(m, 2) \in Branching(S)
    BY <1>3, <2>1, <2>2, <2>3
  <2>4. CASE Slot(m, 2) \notin Branching(S)
    <3>1. op[Slot(m, 2)] \in Names
      BY <1>2, <1>3, <2>1, <2>4
    <3>2. Level(op[Slot(m, 2)]) = 0
      BY <3>1 DEF Names, Level
    <3>3. QED
      BY <1>3, <2>1, <2>2, <2>4, <3>2
  <2>5. QED
    BY <2>3, <2>4
<1>11. CloserRight(t)
  BY <1>3, <1>4, <1>6, <1>10 DEF CloserRight, Expression
<1>12. QED
  BY <1>4, <1>9, <1>11

----------------------------------------------------------------------------
(* Values: an expression without circles has one assignment of truth       *)
(* values that fits every node, and Value is what the whole has under it.  *)
(* The provers are to take truth values for any values. *)
Truths == BOOLEAN
Envs == [{"x", "a", "b"} -> Truths]

(* What the pass can make of the nodes op *)
Made(op) == [op : {op}, of : [DOMAIN op -> DOMAIN op]]

Due(v, t, env, m) ==
  IF t.op[m] = "(" THEN v[t.of[Slot(m, 1)]]
  ELSE IF t.op[m] \in Operators
    THEN Apply(t.op[m], v[t.of[Slot(m, 1)]], v[t.of[Slot(m, 2)]])
  ELSE Meaning(t.op[m], env)

Valuation(v, t, env) ==
  v \in [DOMAIN t.op -> Truths] /\ \A m \in DOMAIN t.op : v[m] = Due(v, t, env, m)

(* Operands rank below their operators. *)
Ranks(r, b, t) ==
  /\ r \in [DOMAIN t.op -> 0 .. b]
  /\ \A m \in DOMAIN t.op, i \in {1, 2} :
       Slot(m, i) \in DOMAIN t.op => r[t.of[Slot(m, i)]] < r[m]
Grounded(t) == \E b \in Nat : \E r \in [DOMAIN t.op -> 0 .. b] : Ranks(r, b, t)

LEMMA MadeFacts ==
  ASSUME NEW op, Lawful(op), NEW t \in Made(op)
  PROVE  /\ t.op = op /\ t.of \in [DOMAIN op -> DOMAIN op] /\ t = [op |-> op, of |-> t.of]
         /\ \A m \in DOMAIN op : t.of[m] \in DOMAIN op
BY DEF Made

LEMMA ApplyFacts ==
  /\ \A o \in Operators, x, y \in Truths : Apply(o, x, y) \in Truths
  /\ \A o \in Operators : Commutes(o) =>
       \A x, y, z \in Truths : /\ Apply(o, x, y) = Apply(o, y, x)
                                /\ Apply(o, Apply(o, x, y), z) = Apply(o, Apply(o, x, z), y)
<1>1. /\ \A x, y : Apply("+", x, y) = (x \/ y)
      /\ \A x, y : Apply("|", x, y) = (x \/ y)
      /\ \A x, y : Apply("&", x, y) = (x /\ y)
      /\ \A x, y : Apply("-", x, y) = (x /\ ~y)
  BY DEF Apply
<1>2. \A x, y, z \in BOOLEAN :
        /\ (x \/ y) \in BOOLEAN /\ (x /\ y) \in BOOLEAN /\ (x /\ ~y) \in BOOLEAN
        /\ (x \/ y) = (y \/ x) /\ (x /\ y) = (y /\ x)
        /\ ((x \/ y) \/ z) = ((x \/ z) \/ y) /\ ((x /\ y) /\ z) = ((x /\ z) /\ y)
  OBVIOUS
<1> DEFINE Good(o) == \A x, y, z \in BOOLEAN :
             /\ Apply(o, x, y) = Apply(o, y, x)
             /\ Apply(o, Apply(o, x, y), z) = Apply(o, Apply(o, x, z), y)
<1>3. Good("+") /\ Good("|") /\ Good("&")
  BY <1>1, <1>2
<1> DEFINE Closed(o) == \A x, y \in BOOLEAN : Apply(o, x, y) \in BOOLEAN
<1>4. Closed("+") /\ Closed("|") /\ Closed("&") /\ Closed("-")
  <2>1. Closed("+")
    BY <1>1, <1>2
  <2>2. Closed("|")
    BY <1>1, <1>2
  <2>3. Closed("&")
    BY <1>1, <1>2
  <2>4. Closed("-")
    BY <1>1, <1>2
  <2>5. QED
    BY <2>1, <2>2, <2>3, <2>4
<1> HIDE DEF Good, Closed, Truths
<1>5. \A o \in Operators : Commutes(o) => Good(o)
  BY <1>3 DEF Commutes
<1>6. \A o \in Operators : Closed(o)
  BY <1>4 DEF Operators
<1>7. QED
  BY <1>5, <1>6 DEF Good, Closed, Truths

LEMMA LastTwo ==
  ASSUME NEW o, o \in Operators, Commutes(o),
         NEW x, x \in Truths, NEW y, y \in Truths, NEW z, z \in Truths
  PROVE  Apply(o, Apply(o, x, y), z) = Apply(o, Apply(o, x, z), y)
BY ApplyFacts

LEMMA DueFacts ==
  ASSUME NEW op, Lawful(op), NEW t \in Made(op), NEW env \in Envs, NEW m \in DOMAIN op, NEW v
  PROVE  /\ v \in [DOMAIN op -> Truths] => Due(v, t, env, m) \in Truths
         /\ \A w : (\A i \in {1, 2} : Slot(m, i) \in DOMAIN op =>
                      w[t.of[Slot(m, i)]] = v[t.of[Slot(m, i)]])
                   => Due(w, t, env, m) = Due(v, t, env, m)
<1>0. t.op = op /\ \A p \in DOMAIN op : t.of[p] \in DOMAIN op
  BY MadeFacts
<1>a. /\ op[m] \in Operators => Slot(m, 1) \in DOMAIN op /\ Slot(m, 2) \in DOMAIN op
      /\ op[m] = "(" => Slot(m, 1) \in DOMAIN op
      /\ op[m] \in Labels
  BY DEF Lawful
<1>1. ASSUME op[m] \in Names PROVE Meaning(op[m], env) \in Truths
  BY <1>1 DEF Meaning, Names, Envs
<1>2. ASSUME v \in [DOMAIN op -> Truths] PROVE Due(v, t, env, m) \in Truths
  BY <1>0, <1>a, <1>1, <1>2, ApplyFacts DEF Due, Labels
<1>3. ASSUME NEW w,
             \A i \in {1, 2} : Slot(m, i) \in DOMAIN op => w[t.of[Slot(m, i)]] = v[t.of[Slot(m, i)]]
      PROVE  Due(w, t, env, m) = Due(v, t, env, m)
  BY <1>0, <1>a, <1>3 DEF Due
<1>4. QED
  BY <1>2, <1>3

(* Whatever fits the nodes is the valuation. *)
LEMMA OneValuation ==
  ASSUME NEW op, Lawful(op), NEW t \in Made(op), Grounded(t), NEW env \in Envs,
         NEW v, Valuation(v, t, env),
         NEW f, \A m \in DOMAIN op : f[m] = Due(f, t, env, m)
  PROVE  \A m \in DOMAIN op : f[m] = v[m]
<1>0. t.op = op /\ t.of \in [DOMAIN op -> DOMAIN op]
  BY MadeFacts
<1>1. PICK b \in Nat, r \in [DOMAIN t.op -> Nat] : Ranks(r, b, t)
  BY DEF Grounded, Ranks
<1> DEFINE T == {k \in 0 .. b + 1 : \A m \in DOMAIN op : r[m] < k => f[m] = v[m]}
<1>2. r \in [DOMAIN op -> 0 .. b] /\ 0 \in T
  BY <1>0, <1>1 DEF Ranks
<1>3. ASSUME NEW k \in 0 .. (b + 1) - 1, k \in T PROVE k + 1 \in T
  <2>1. SUFFICES ASSUME NEW m \in DOMAIN op, r[m] < k + 1 PROVE f[m] = v[m]
    BY <1>1
  <2>2. ASSUME NEW i \in {1, 2}, Slot(m, i) \in DOMAIN op
        PROVE  f[t.of[Slot(m, i)]] = v[t.of[Slot(m, i)]]
    <3>1. t.of[Slot(m, i)] \in DOMAIN op /\ r[t.of[Slot(m, i)]] < r[m]
      BY <1>0, <1>1, <2>2 DEF Ranks
    <3>2. r[t.of[Slot(m, i)]] < k
      BY <1>2, <2>1, <3>1
    <3>3. QED
      BY <1>3, <3>1, <3>2
  <2>3. Due(f, t, env, m) = Due(v, t, env, m)
    BY <2>2, DueFacts
  <2>4. QED
    BY <1>0, <2>3 DEF Valuation
<1>4. b + 1 \in T
  <2>1. \A k \in 0 .. (b + 1) - 1 : k \in T => k + 1 \in T
    BY <1>3
  <2>2. b + 1 \in Nat /\ 0 \in T
    BY <1>1, <1>2
  <2> HIDE DEF T
  <2>3. 0 .. b + 1 \subseteq T
    BY <2>1, <2>2, Upwards
  <2>4. QED
    BY <2>2, <2>3
<1>5. QED
  BY <1>2, <1>4

LEMMA HasValuation ==
  ASSUME NEW op, Lawful(op), NEW t \in Made(op), Grounded(t), NEW env \in Envs
  PROVE  \E v : Valuation(v, t, env)
<1>0. t.op = op /\ t.of \in [DOMAIN op -> DOMAIN op]
  BY MadeFacts
<1>1. PICK b \in Nat, r \in [DOMAIN t.op -> Nat] : Ranks(r, b, t)
  BY DEF Grounded, Ranks
<1> DEFINE FitsTo(v, k) == \A m \in DOMAIN op : r[m] < k => v[m] = Due(v, t, env, m)
           T == {k \in 0 .. b + 1 : \E v \in [DOMAIN op -> Truths] : FitsTo(v, k)}
<1>2. r \in [DOMAIN op -> 0 .. b]
  BY <1>0, <1>1 DEF Ranks
<1>3. 0 \in T
  <2> DEFINE v == [m \in DOMAIN op |-> TRUE]
  <2>0. TRUE \in Truths
    BY DEF Truths
  <2>1. v \in [DOMAIN op -> Truths]
    BY <2>0, Zenon
  <2>2. FitsTo(v, 0)
    BY <1>2
  <2>3. 0 \in 0 .. b + 1
    BY <1>1
  <2> HIDE DEF FitsTo, v
  <2>4. QED
    BY <2>1, <2>2, <2>3
<1>4. ASSUME NEW k \in 0 .. (b + 1) - 1, k \in T PROVE k + 1 \in T
  <2>1. PICK v \in [DOMAIN op -> Truths] : FitsTo(v, k)
    BY <1>4
  <2> DEFINE w == [m \in DOMAIN op |-> IF r[m] < k THEN v[m] ELSE Due(v, t, env, m)]
  <2>2. w \in [DOMAIN op -> Truths]
    <3>1. \A m \in DOMAIN op : Due(v, t, env, m) \in Truths
      BY DueFacts
    <3>2. QED
      BY <3>1
  <2>3. ASSUME NEW m \in DOMAIN op, r[m] < k + 1 PROVE w[m] = Due(w, t, env, m)
    <3>1. ASSUME NEW i \in {1, 2}, Slot(m, i) \in DOMAIN op
          PROVE  w[t.of[Slot(m, i)]] = v[t.of[Slot(m, i)]]
      <4>1. t.of[Slot(m, i)] \in DOMAIN op /\ r[t.of[Slot(m, i)]] < r[m]
        BY <1>0, <1>1, <3>1 DEF Ranks
      <4>2. r[t.of[Slot(m, i)]] < k
        BY <1>2, <2>3, <4>1
      <4>3. QED
        BY <4>1, <4>2
    <3>2. Due(w, t, env, m) = Due(v, t, env, m)
      <4> HIDE DEF w
      <4>1. QED
        BY <3>1, DueFacts
    <3>3. w[m] = Due(v, t, env, m)
      BY <2>1
    <3>4. QED
      BY <3>2, <3>3
  <2> HIDE DEF w
  <2>4. FitsTo(w, k + 1) /\ k + 1 \in 0 .. b + 1
    BY <1>1, <2>3
  <2> HIDE DEF FitsTo
  <2>5. QED
    BY <2>2, <2>4
<1>5. b + 1 \in T
  <2>1. \A k \in 0 .. (b + 1) - 1 : k \in T => k + 1 \in T
    BY <1>4
  <2>2. b + 1 \in Nat /\ 0 \in T
    BY <1>1, <1>3
  <2> HIDE DEF T
  <2>3. 0 .. b + 1 \subseteq T
    BY <2>1, <2>2, Upwards
  <2>4. QED
    BY <2>2, <2>3
<1>6. PICK v \in [DOMAIN op -> Truths] : FitsTo(v, b + 1)
  BY <1>5
<1>7. Valuation(v, t, env)
  BY <1>0, <1>2, <1>6 DEF Valuation
<1>8. QED
  BY <1>7

LEMMA ValueIs ==
  ASSUME NEW op, Lawful(op), NEW t \in Made(op), Grounded(t), NEW env \in Envs,
         NEW v, Valuation(v, t, env)
  PROVE  Value(t, env) = v[t.of[<<>>]]
<1>0. t.op = op /\ t.of \in [DOMAIN op -> DOMAIN op] /\ <<>> \in DOMAIN op
  BY MadeFacts DEF Lawful
<1> DEFINE Is(f) == f = [m \in DOMAIN t.op |->
        IF t.op[m] = "(" THEN f[t.of[Slot(m, 1)]]
        ELSE IF t.op[m] \in Operators
          THEN Apply(t.op[m], f[t.of[Slot(m, 1)]], f[t.of[Slot(m, 2)]])
        ELSE Meaning(t.op[m], env)]
           g == CHOOSE f : Is(f)
<1>1. Is(v)
  BY DEF Valuation, Due
<1>2. Is(g)
  <2> HIDE DEF Is
  <2>1. QED
    BY <1>1
<1>3. \A m \in DOMAIN op : g[m] = Due(g, t, env, m)
  <2> HIDE DEF g
  <2>1. QED
    BY <1>0, <1>2 DEF Due
<1>4. g[t.of[<<>>]] = v[t.of[<<>>]]
  <2> HIDE DEF g
  <2>1. QED
    BY <1>0, <1>3, OneValuation
<1>5. Value(t, env) = g[t.of[<<>>]]
  BY DEF Value
<1>6. QED
  BY <1>4, <1>5

----------------------------------------------------------------------------
(* Exchanges.  No two pointers lead to the same node, every node is led    *)
(* to, there are no circles, and what is within parentheses stays there.   *)
Enclosed(op, m) == \E p \in DOMAIN op : op[p] = "(" /\ IsPrefix(p, m)

Paired(t) ==
  /\ \A p, q \in DOMAIN t.op : t.of[p] = t.of[q] => p = q
  /\ \A m \in DOMAIN t.op : \E p \in DOMAIN t.op : t.of[p] = m

Walled(t) ==
  \A m \in DOMAIN t.op, i \in {1, 2} :
    Enclosed(t.op, m) /\ Slot(m, i) \in DOMAIN t.op => Enclosed(t.op, t.of[Slot(m, i)])

Sound(t, op) == t \in Made(op) /\ Paired(t) /\ Grounded(t) /\ CloserRight(t) /\ Walled(t)

SameValues(t, u) == \A env \in Envs : Value(t, env) = Value(u, env)

LEMMA ExchangeFacts ==
  ASSUME NEW op, Lawful(op), NEW t \in Made(op), NEW p \in DOMAIN op, NEW q \in DOMAIN op, p # q
  PROVE  LET u == Exchange(t, p, q) IN
         /\ u \in Made(op) /\ u.of[p] = t.of[q] /\ u.of[q] = t.of[p]
         /\ \A s \in DOMAIN op \ {p, q} : u.of[s] = t.of[s]
         /\ Paired(t) => Paired(u)
<1> DEFINE u == Exchange(t, p, q)
<1>0. t.op = op /\ t.of \in [DOMAIN op -> DOMAIN op] /\ t = [op |-> op, of |-> t.of]
  BY MadeFacts
<1>1. u = [op |-> op, of |-> [t.of EXCEPT ![p] = t.of[q], ![q] = t.of[p]]]
  BY <1>0 DEF Exchange
<1>2. /\ u.op = op /\ u.of \in [DOMAIN op -> DOMAIN op] /\ u.of[p] = t.of[q] /\ u.of[q] = t.of[p]
      /\ \A s \in DOMAIN op \ {p, q} : u.of[s] = t.of[s]
  BY <1>0, <1>1
<1>3. u \in Made(op)
  BY <1>0, <1>1 DEF Made
<1> HIDE DEF u
<1>4. ASSUME Paired(t) PROVE Paired(u)
  <2>1. \A x, y \in DOMAIN op : t.of[x] = t.of[y] => x = y
    BY <1>0, <1>4 DEF Paired
  <2>2. \A x, y \in DOMAIN op : u.of[x] = u.of[y] => x = y
    BY <1>2, <2>1
  <2>3. ASSUME NEW m \in DOMAIN op PROVE \E x \in DOMAIN op : u.of[x] = m
    <3>1. PICK x \in DOMAIN op : t.of[x] = m
      BY <1>0, <1>4 DEF Paired
    <3>2. QED
      BY <1>2, <3>1
  <2>4. QED
    BY <1>2, <2>2, <2>3 DEF Paired
<1>5. QED
  BY <1>2, <1>3, <1>4 DEF u

(* The two operands of an operator that commutes *)
LEMMA ExchangeSides ==
  ASSUME NEW op, Lawful(op), NEW t, Sound(t, op), NEW p \in DOMAIN op,
         op[p] \in Operators, Commutes(op[p]), ~Enclosed(op, p),
         Level(op[t.of[Slot(p, 1)]]) < Level(op[p])
  PROVE  LET u == Exchange(t, Slot(p, 1), Slot(p, 2)) IN
         Sound(u, op) /\ SameValues(t, u)
<1> DEFINE u == Exchange(t, Slot(p, 1), Slot(p, 2))
<1>0. t \in Made(op) /\ t.op = op /\ t.of \in [DOMAIN op -> DOMAIN op]
  BY MadeFacts DEF Sound
<1>1. /\ Slot(p, 1) \in DOMAIN op /\ Slot(p, 2) \in DOMAIN op /\ Slot(p, 1) # Slot(p, 2)
      /\ Slot(p, 1) # <<>> /\ Slot(p, 2) # <<>> /\ <<>> \in DOMAIN op
      /\ \A m \in DOMAIN op \ {p}, i, j \in {1, 2} : Slot(m, i) # Slot(p, j)
  <2>1. \A m \in DOMAIN op : m \in Seq({1, 2})
    BY DEF Lawful
  <2>2. p \in Seq({1, 2})
    BY <2>1
  <2>3. \A m \in DOMAIN op \ {p}, i, j \in {1, 2} : Slot(m, i) # Slot(p, j)
    BY <2>1, <2>2, SlotsDiffer
  <2>4. Slot(p, 1) # Slot(p, 2) /\ Slot(p, 1) # <<>> /\ Slot(p, 2) # <<>>
    BY <2>2, SlotsDiffer, SlotFacts
  <2>5. QED
    BY <2>3, <2>4 DEF Lawful
<1>2. /\ u \in Made(op) /\ u.op = op /\ u.of \in [DOMAIN op -> DOMAIN op] /\ Paired(u)
      /\ u.of[Slot(p, 1)] = t.of[Slot(p, 2)] /\ u.of[Slot(p, 2)] = t.of[Slot(p, 1)]
      /\ \A s \in DOMAIN op \ {Slot(p, 1), Slot(p, 2)} : u.of[s] = t.of[s]
  <2>1. u \in Made(op)
    BY <1>0, <1>1, ExchangeFacts
  <2>2. u.op = op /\ u.of \in [DOMAIN op -> DOMAIN op]
    BY <2>1, MadeFacts
  <2>3. Paired(t)
    BY DEF Sound
  <2>4. QED
    BY <1>0, <1>1, <2>1, <2>2, <2>3, ExchangeFacts
<1> HIDE DEF u
<1>3. Grounded(u)
  <2>1. PICK b \in Nat, r \in [DOMAIN t.op -> Nat] : Ranks(r, b, t)
    BY DEF Sound, Grounded, Ranks
  <2>2. r \in [DOMAIN op -> 0 .. b]
    BY <1>0, <2>1 DEF Ranks
  <2>3. ASSUME NEW m \in DOMAIN op, NEW i \in {1, 2}, Slot(m, i) \in DOMAIN op
        PROVE  r[u.of[Slot(m, i)]] < r[m]
    <3>1. CASE m = p
      BY <1>0, <1>1, <1>2, <2>1, <3>1 DEF Ranks
    <3>2. CASE m # p
      BY <1>0, <1>1, <1>2, <2>1, <2>3, <3>2 DEF Ranks
    <3>3. QED
      BY <3>1, <3>2
  <2>4. Ranks(r, b, u)
    BY <1>2, <2>2, <2>3 DEF Ranks
  <2>5. QED
    BY <1>2, <2>1, <2>2, <2>4 DEF Grounded
<1>4. CloserRight(u)
  <2>1. ASSUME NEW m \in DOMAIN op, op[m] \in Operators
        PROVE  Level(op[u.of[Slot(m, 2)]]) < Level(op[m])
    <3>1. CASE m = p
      BY <1>2, <3>1
    <3>2. CASE m # p
      <4>1. Slot(m, 2) \in DOMAIN op
        BY <2>1 DEF Lawful
      <4>2. u.of[Slot(m, 2)] = t.of[Slot(m, 2)]
        BY <1>1, <1>2, <3>2, <4>1
      <4>3. QED
        BY <1>0, <2>1, <4>2 DEF Sound, CloserRight
    <3>3. QED
      BY <3>1, <3>2
  <2>2. QED
    BY <1>2, <2>1 DEF CloserRight
<1>5. Walled(u)
  <2>1. ASSUME NEW m \in DOMAIN op, NEW i \in {1, 2}, Enclosed(op, m), Slot(m, i) \in DOMAIN op
        PROVE  Enclosed(op, u.of[Slot(m, i)])
    <3>1. m # p
      BY <2>1
    <3>2. u.of[Slot(m, i)] = t.of[Slot(m, i)]
      BY <1>1, <1>2, <2>1, <3>1
    <3>3. QED
      BY <1>0, <2>1, <3>2 DEF Sound, Walled
  <2>2. QED
    BY <1>2, <2>1 DEF Walled
<1>6. SameValues(t, u)
  <2>1. SUFFICES ASSUME NEW env \in Envs PROVE Value(t, env) = Value(u, env)
    BY DEF SameValues
  <2>2. Grounded(t)
    BY DEF Sound
  <2>3. PICK v : Valuation(v, t, env)
    BY <1>0, <2>2, HasValuation
  <2>4. v \in [DOMAIN op -> Truths]
    BY <1>0, <2>3 DEF Valuation
  <2>5. ASSUME NEW m \in DOMAIN op PROVE v[m] = Due(v, u, env, m)
    <3>1. v[m] = Due(v, t, env, m)
      BY <1>0, <2>3 DEF Valuation
    <3>2. CASE m = p
      <4>1. op[m] # "("
        BY <3>2 DEF Operators
      <4>2. /\ Due(v, t, env, m) = Apply(op[p], v[t.of[Slot(p, 1)]], v[t.of[Slot(p, 2)]])
            /\ Due(v, u, env, m) = Apply(op[p], v[t.of[Slot(p, 2)]], v[t.of[Slot(p, 1)]])
        BY <1>0, <1>2, <3>2, <4>1 DEF Due
      <4>3. v[t.of[Slot(p, 1)]] \in Truths /\ v[t.of[Slot(p, 2)]] \in Truths
        BY <1>0, <1>1, <2>4
      <4>4. QED
        BY <3>1, <4>2, <4>3, ApplyFacts
    <3>3. CASE m # p
      <4>1. /\ op[m] \in Operators => Slot(m, 1) \in DOMAIN op /\ Slot(m, 2) \in DOMAIN op
            /\ op[m] = "(" => Slot(m, 1) \in DOMAIN op
        BY DEF Lawful
      <4>2. \A i \in {1, 2} : Slot(m, i) \in DOMAIN op => u.of[Slot(m, i)] = t.of[Slot(m, i)]
        BY <1>1, <1>2, <3>3
      <4>3. Due(v, u, env, m) = Due(v, t, env, m)
        BY <1>0, <1>2, <4>1, <4>2 DEF Due
      <4>4. QED
        BY <3>1, <4>3
    <3>4. QED
      BY <3>2, <3>3
  <2>6. Valuation(v, u, env)
    BY <1>2, <2>4, <2>5 DEF Valuation
  <2>7. Value(t, env) = v[t.of[<<>>]] /\ Value(u, env) = v[u.of[<<>>]]
    BY <1>0, <1>2, <1>3, <2>2, <2>3, <2>6, ValueIs
  <2>8. QED
    BY <1>1, <1>2, <2>7
<1>7. QED
  BY <1>2, <1>3, <1>4, <1>5, <1>6 DEF Sound, u

(* The operators the climb has come through: each the left operand of the  *)
(* next, and all the same one that commutes.                               *)
Spine(s, k, t) ==
  /\ s \in [0 .. k -> DOMAIN t.op]
  /\ t.op[s[0]] \in Operators /\ Commutes(t.op[s[0]])
  /\ \A j \in 0 .. k : t.op[s[j]] = t.op[s[0]]
  /\ \A j \in 1 .. k : t.of[Slot(s[j], 1)] = s[j - 1]

LEMMA SpineRises ==
  ASSUME NEW op, Lawful(op), NEW t \in Made(op), NEW b \in Nat, NEW r, Ranks(r, b, t),
         NEW k \in Nat, NEW s, Spine(s, k, t), NEW j \in 0 .. k
  PROVE  \A i \in 0 .. j - 1 : r[s[i]] < r[s[j]]
<1> DEFINE T == {n \in 0 .. k : \A i \in 0 .. n - 1 : r[s[i]] < r[s[n]]}
<1>0. t.op = op /\ s \in [0 .. k -> DOMAIN op] /\ r \in [DOMAIN op -> 0 .. b]
  BY MadeFacts DEF Spine, Ranks
<1>1. 0 \in T
  OBVIOUS
<1>2. ASSUME NEW n \in 0 .. k - 1, n \in T PROVE n + 1 \in T
  <2>1. n + 1 \in 1 .. k /\ (n + 1) - 1 = n /\ n \in 0 .. k
    OBVIOUS
  <2>2. s[n] \in DOMAIN op /\ s[n + 1] \in DOMAIN op /\ op[s[n + 1]] \in Operators
    BY <1>0, <2>1 DEF Spine
  <2>3. Slot(s[n + 1], 1) \in DOMAIN op /\ t.of[Slot(s[n + 1], 1)] = s[n]
    BY <1>0, <2>1, <2>2 DEF Spine, Lawful
  <2>4. r[s[n]] < r[s[n + 1]]
    BY <1>0, <2>2, <2>3 DEF Ranks
  <2>5. ASSUME NEW i \in 0 .. (n + 1) - 1 PROVE r[s[i]] < r[s[n + 1]]
    <3>1. CASE i = n
      BY <2>4, <3>1
    <3>2. CASE i # n
      <4>1. i \in 0 .. n - 1 /\ i \in 0 .. k
        BY <3>2
      <4>2. r[s[i]] < r[s[n]] /\ s[i] \in DOMAIN op
        BY <1>0, <1>2, <4>1
      <4>3. r[s[i]] \in Nat /\ r[s[n]] \in Nat /\ r[s[n + 1]] \in Nat
        BY <1>0, <2>2, <4>2
      <4>4. QED
        BY <2>4, <4>2, <4>3
    <3>3. QED
      BY <3>1, <3>2
  <2>6. QED
    BY <2>1, <2>5
<1>3. j \in T
  <2>1. \A n \in 0 .. k - 1 : n \in T => n + 1 \in T
    BY <1>2
  <2> HIDE DEF T
  <2>2. 0 .. k \subseteq T
    BY <1>1, <2>1, Upwards
  <2>3. QED
    BY <2>2
<1>4. QED
  BY <1>3

(* They are different, and each but the last is led to by the next alone. *)
LEMMA SpineFacts ==
  ASSUME NEW op, Lawful(op), NEW t, Sound(t, op), NEW k \in Nat, NEW s, Spine(s, k, t)
  PROVE  /\ s \in [0 .. k -> DOMAIN op] /\ \A j \in 0 .. k : op[s[j]] = op[s[0]]
         /\ op[s[0]] \in Operators /\ Commutes(op[s[0]])
         /\ \A j \in 0 .. k : s[j] \in DOMAIN op /\ Slot(s[j], 1) \in DOMAIN op /\ Slot(s[j], 2) \in DOMAIN op
         /\ \A j \in 1 .. k : t.of[Slot(s[j], 1)] = s[j - 1]
         /\ \A i, j \in 0 .. k : s[i] = s[j] => i = j
         /\ \A j \in 0 .. k - 1 : /\ t.of[<<>>] # s[j]
                                  /\ \A m \in DOMAIN op, i \in {1, 2} :
                                       Slot(m, i) \in DOMAIN op /\ t.of[Slot(m, i)] = s[j] =>
                                         m = s[j + 1] /\ i = 1
<1>0. t \in Made(op) /\ t.op = op /\ t.of \in [DOMAIN op -> DOMAIN op] /\ <<>> \in DOMAIN op
  BY MadeFacts DEF Sound, Lawful
<1>1. /\ s \in [0 .. k -> DOMAIN op] /\ \A j \in 0 .. k : op[s[j]] = op[s[0]]
      /\ op[s[0]] \in Operators /\ Commutes(op[s[0]])
      /\ \A j \in 1 .. k : t.of[Slot(s[j], 1)] = s[j - 1]
  BY <1>0 DEF Spine
<1>2. \A j \in 0 .. k : s[j] \in DOMAIN op /\ Slot(s[j], 1) \in DOMAIN op /\ Slot(s[j], 2) \in DOMAIN op
  <2>1. \A j \in 0 .. k : s[j] \in DOMAIN op /\ op[s[j]] \in Operators
    BY <1>1
  <2>2. QED
    BY <2>1 DEF Lawful
<1>3. ASSUME NEW i \in 0 .. k, NEW j \in 0 .. k, s[i] = s[j] PROVE i = j
  <2>1. PICK b \in Nat, r \in [DOMAIN t.op -> Nat] : Ranks(r, b, t)
    BY DEF Sound, Grounded, Ranks
  <2>2. \A n \in 0 .. k : \A h \in 0 .. n - 1 : r[s[h]] < r[s[n]]
    BY <1>0, <2>1, SpineRises
  <2>3. i < j => r[s[i]] < r[s[j]]
    BY <2>2
  <2>4. j < i => r[s[j]] < r[s[i]]
    BY <2>2
  <2>5. r[s[i]] \in Nat /\ r[s[j]] \in Nat
    BY <1>0, <1>1, <2>1
  <2>6. QED
    BY <1>3, <2>3, <2>4, <2>5
<1>4. ASSUME NEW j \in 0 .. k - 1
      PROVE  /\ t.of[<<>>] # s[j]
             /\ \A m \in DOMAIN op, i \in {1, 2} :
                  Slot(m, i) \in DOMAIN op /\ t.of[Slot(m, i)] = s[j] => m = s[j + 1] /\ i = 1
  <2>1. j + 1 \in 1 .. k /\ j + 1 \in 0 .. k /\ (j + 1) - 1 = j
    OBVIOUS
  <2>2. t.of[Slot(s[j + 1], 1)] = s[j]
    BY <1>1, <2>1
  <2>3. s[j + 1] \in DOMAIN op /\ Slot(s[j + 1], 1) \in DOMAIN op
    BY <1>2, <2>1
  <2>4. \A p \in DOMAIN op : t.of[p] = s[j] => p = Slot(s[j + 1], 1)
    BY <1>0, <2>2, <2>3 DEF Sound, Paired
  <2>5. \A m \in DOMAIN op : m \in Seq({1, 2})
    BY DEF Lawful
  <2>6. Slot(s[j + 1], 1) # <<>>
    BY <2>3, <2>5, SlotFacts
  <2>7. \A m \in DOMAIN op, i \in {1, 2} : Slot(m, i) = Slot(s[j + 1], 1) => m = s[j + 1] /\ i = 1
    BY <2>3, <2>5, SlotsDiffer
  <2>8. QED
    BY <1>0, <2>4, <2>6, <2>7
<1>5. QED
  BY <1>1, <1>2, <1>3, <1>4

(* The right operands of the first and the last of them change places:     *)
(* what keeps the pointers in order, ...                                   *)
LEMMA ExchangeUpSound ==
  ASSUME NEW op, Lawful(op), NEW t, Sound(t, op), NEW k \in Nat \ {0}, NEW s, Spine(s, k, t),
         ~Enclosed(op, s[0]), ~Enclosed(op, s[k])
  PROVE  LET u == Exchange(t, Slot(s[0], 2), Slot(s[k], 2)) IN
         /\ Sound(u, op) /\ Spine(s, k, u)
         /\ u.of[Slot(s[0], 2)] = t.of[Slot(s[k], 2)] /\ u.of[Slot(s[k], 2)] = t.of[Slot(s[0], 2)]
         /\ \A p \in DOMAIN op \ {Slot(s[0], 2), Slot(s[k], 2)} : u.of[p] = t.of[p]
<1> DEFINE p == s[0]
           q == s[k]
           u == Exchange(t, Slot(p, 2), Slot(q, 2))
<1>0. /\ t \in Made(op) /\ t.op = op /\ t.of \in [DOMAIN op -> DOMAIN op]
      /\ Paired(t) /\ Grounded(t) /\ CloserRight(t) /\ Walled(t)
  BY MadeFacts DEF Sound
<1>s. /\ s \in [0 .. k -> DOMAIN op] /\ \A j \in 0 .. k : op[s[j]] = op[s[0]]
      /\ op[s[0]] \in Operators /\ Commutes(op[s[0]])
      /\ \A j \in 0 .. k : s[j] \in DOMAIN op /\ Slot(s[j], 1) \in DOMAIN op /\ Slot(s[j], 2) \in DOMAIN op
      /\ \A j \in 1 .. k : t.of[Slot(s[j], 1)] = s[j - 1]
      /\ \A i, j \in 0 .. k : s[i] = s[j] => i = j
      /\ \A j \in 0 .. k - 1 : \A m \in DOMAIN op, i \in {1, 2} :
                    Slot(m, i) \in DOMAIN op /\ t.of[Slot(m, i)] = s[j] => m = s[j + 1] /\ i = 1
  BY SpineFacts
<1>1. /\ p \in DOMAIN op /\ q \in DOMAIN op /\ p # q /\ op[q] = op[p] /\ op[p] \in Operators
      /\ Slot(p, 2) \in DOMAIN op /\ Slot(q, 2) \in DOMAIN op
      /\ 0 \in 0 .. k - 1 /\ 0 \in 0 .. k /\ k \in 0 .. k
  BY <1>s
<1>2. /\ Slot(p, 2) # Slot(q, 2)
      /\ \A m \in DOMAIN op, i \in {1, 2} : Slot(m, i) = Slot(p, 2) => m = p /\ i = 2
      /\ \A m \in DOMAIN op, i \in {1, 2} : Slot(m, i) = Slot(q, 2) => m = q /\ i = 2
  <2>1. \A m \in DOMAIN op : m \in Seq({1, 2})
    BY DEF Lawful
  <2>2. p \in Seq({1, 2}) /\ q \in Seq({1, 2})
    BY <1>1, <2>1
  <2> HIDE DEF p, q
  <2>3. QED
    BY <1>1, <2>1, <2>2, SlotsDiffer
<1>3. /\ u \in Made(op) /\ u.op = op /\ u.of \in [DOMAIN op -> DOMAIN op] /\ Paired(u)
      /\ u.of[Slot(p, 2)] = t.of[Slot(q, 2)] /\ u.of[Slot(q, 2)] = t.of[Slot(p, 2)]
      /\ \A x \in DOMAIN op \ {Slot(p, 2), Slot(q, 2)} : u.of[x] = t.of[x]
  <2> HIDE DEF p, q
  <2>1. u \in Made(op)
    BY <1>0, <1>1, <1>2, ExchangeFacts
  <2>2. u.op = op /\ u.of \in [DOMAIN op -> DOMAIN op]
    BY <2>1, MadeFacts
  <2>3. QED
    BY <1>0, <1>1, <1>2, <2>1, <2>2, ExchangeFacts
<1>4. Grounded(u)
  <2>1. PICK b \in Nat, r \in [DOMAIN t.op -> Nat] : Ranks(r, b, t)
    BY <1>0 DEF Grounded, Ranks
  <2>2. /\ r \in [DOMAIN op -> 0 .. b]
        /\ \A m \in DOMAIN op, i \in {1, 2} :
             Slot(m, i) \in DOMAIN op => r[t.of[Slot(m, i)]] < r[m]
    BY <1>0, <2>1 DEF Ranks
  <2>3. r[p] < r[q]
    <3>1. \A i \in 0 .. k - 1 : r[s[i]] < r[s[k]]
      BY <1>0, <1>1, <2>1, SpineRises
    <3>2. QED
      BY <1>1, <3>1
  <2> DEFINE High(m) == r[m] >= r[q] \/ \E j \in 0 .. k - 1 : s[j] = m
             h == [m \in DOMAIN op |-> IF High(m) THEN r[m] + b + 1 ELSE r[m]]
  <2>4. High(p) /\ High(q)
    <3>1. r[q] \in Nat
      BY <1>1, <2>2
    <3>2. QED
      BY <1>1, <3>1
  <2>5. ASSUME NEW m \in DOMAIN op, NEW i \in {1, 2}, Slot(m, i) \in DOMAIN op, High(t.of[Slot(m, i)])
        PROVE  High(m) /\ (m \in {p, q} => i = 1)
    <3>1. r[t.of[Slot(m, i)]] < r[m] /\ r[m] \in Nat /\ r[t.of[Slot(m, i)]] \in Nat
          /\ r[p] \in Nat /\ r[q] \in Nat
      BY <1>0, <1>1, <2>2, <2>5
    <3>2. CASE r[t.of[Slot(m, i)]] >= r[q]
      <4>1. r[m] > r[q]
        BY <3>1, <3>2
      <4> HIDE DEF p, q
      <4>2. QED
        BY <2>3, <3>1, <4>1
    <3>3. CASE \E j \in 0 .. k - 1 : s[j] = t.of[Slot(m, i)]
      <4>1. PICK j \in 0 .. k - 1 : s[j] = t.of[Slot(m, i)]
        BY <3>3
      <4>2. m = s[j + 1] /\ i = 1
        BY <1>s, <2>5, <4>1
      <4>3. CASE j + 1 = k
        BY <2>4, <4>2, <4>3
      <4>4. CASE j + 1 # k
        <5>1. j + 1 \in 0 .. k - 1
          BY <4>4
        <5>2. QED
          BY <4>2, <5>1
      <4>5. QED
        BY <4>3, <4>4
    <3>4. QED
      BY <2>5, <3>2, <3>3
  <2>6. /\ h \in [DOMAIN op -> 0 .. b + b + 1]
        /\ \A m \in DOMAIN op : h[m] = IF High(m) THEN r[m] + b + 1 ELSE r[m]
    <3> HIDE DEF High
    <3>1. QED
      BY <2>1, <2>2
  <2> HIDE DEF h, High
  <2>7. ASSUME NEW m \in DOMAIN op, NEW i \in {1, 2}, Slot(m, i) \in DOMAIN op
        PROVE  h[u.of[Slot(m, i)]] < h[m]
    <3> HIDE DEF p, q
    <3>1. CASE Slot(m, i) \notin {Slot(p, 2), Slot(q, 2)}
      <4>1. u.of[Slot(m, i)] = t.of[Slot(m, i)] /\ t.of[Slot(m, i)] \in DOMAIN op
        BY <1>0, <1>3, <2>7, <3>1
      <4>2. r[t.of[Slot(m, i)]] < r[m] /\ r[m] \in 0 .. b /\ r[t.of[Slot(m, i)]] \in 0 .. b
        BY <2>2, <2>7, <4>1
      <4>3. High(t.of[Slot(m, i)]) => High(m)
        BY <2>5, <2>7
      <4>4. QED
        BY <2>1, <2>6, <4>1, <4>2, <4>3
    <3>2. CASE Slot(m, i) \in {Slot(p, 2), Slot(q, 2)}
      <4>1. m \in {p, q} /\ High(m)
        BY <1>2, <2>4, <3>2
      <4>2. PICK n \in {p, q} : u.of[Slot(m, i)] = t.of[Slot(n, 2)]
        BY <1>3, <3>2
      <4>3. t.of[Slot(n, 2)] \in DOMAIN op /\ ~High(t.of[Slot(n, 2)])
        BY <1>0, <1>1, <2>5, <4>2
      <4>4. h[m] = r[m] + b + 1 /\ h[t.of[Slot(n, 2)]] = r[t.of[Slot(n, 2)]]
        BY <2>6, <4>1, <4>3
      <4>5. r[m] \in 0 .. b /\ r[t.of[Slot(n, 2)]] \in 0 .. b
        BY <2>2, <4>3
      <4>6. QED
        BY <2>1, <4>2, <4>4, <4>5
    <3>3. QED
      BY <3>1, <3>2
  <2>8. Ranks(h, b + b + 1, u) /\ b + b + 1 \in Nat
    BY <1>3, <2>1, <2>6, <2>7 DEF Ranks
  <2>9. QED
    BY <1>3, <2>6, <2>8 DEF Grounded
<1>5. CloserRight(u)
  <2> HIDE DEF p, q, u
  <2>1. ASSUME NEW m \in DOMAIN op, op[m] \in Operators
        PROVE  Level(op[u.of[Slot(m, 2)]]) < Level(op[m])
    <3>1. \A n \in DOMAIN op : op[n] \in Operators => Level(op[t.of[Slot(n, 2)]]) < Level(op[n])
      BY <1>0 DEF CloserRight
    <3>2. CASE m \in {p, q}
      BY <1>1, <1>3, <3>1, <3>2
    <3>3. CASE m \notin {p, q}
      <4>1. Slot(m, 2) \in DOMAIN op
        BY <2>1 DEF Lawful
      <4>2. u.of[Slot(m, 2)] = t.of[Slot(m, 2)]
        BY <1>2, <1>3, <3>3, <4>1
      <4>3. QED
        BY <2>1, <3>1, <4>2
    <3>4. QED
      BY <3>2, <3>3
  <2>2. QED
    BY <1>3, <2>1 DEF CloserRight
<1>6. Walled(u)
  <2>0. ~Enclosed(op, p) /\ ~Enclosed(op, q)
    OBVIOUS
  <2> HIDE DEF p, q, u
  <2>1. ASSUME NEW m \in DOMAIN op, NEW i \in {1, 2}, Enclosed(op, m), Slot(m, i) \in DOMAIN op
        PROVE  Enclosed(op, u.of[Slot(m, i)])
    <3>1. m # p /\ m # q
      BY <2>0, <2>1
    <3>2. u.of[Slot(m, i)] = t.of[Slot(m, i)]
      BY <1>2, <1>3, <2>1, <3>1
    <3>3. QED
      BY <1>0, <2>1, <3>2 DEF Walled
  <2>2. QED
    BY <1>3, <2>1 DEF Walled
<1>7. Spine(s, k, u)
  <2>1. ASSUME NEW j \in 1 .. k PROVE u.of[Slot(s[j], 1)] = s[j - 1]
    <3>1. s[j] \in DOMAIN op /\ Slot(s[j], 1) \in DOMAIN op /\ t.of[Slot(s[j], 1)] = s[j - 1]
      BY <1>s
    <3>2. Slot(s[j], 1) \notin {Slot(p, 2), Slot(q, 2)}
      BY <1>2, <3>1
    <3> HIDE DEF p, q, u
    <3>3. QED
      BY <1>3, <3>1, <3>2
  <2> HIDE DEF p, q, u
  <2>2. QED
    BY <1>3, <1>s, <2>1 DEF Spine
<1>8. QED
  BY <1>3, <1>4, <1>5, <1>6, <1>7 DEF Sound

(* ... and the value.  Below the last of them each has what it would have  *)
(* without the first right operand, joined with that operand: first the    *)
(* one, then the other.                                                    *)
Follows(c, o, R, n) == \A j \in 1 .. n : c[j] = Apply(o, c[j - 1], R[j])

LEMMA SpineValues ==
  ASSUME NEW o \in Operators, Commutes(o), NEW n \in Nat, NEW base \in Truths,
         NEW R, \A j \in 1 .. n : R[j] \in Truths
  PROVE  \E c \in [0 .. n -> Truths] : c[0] = base /\ Follows(c, o, R, n)
<1> DEFINE F == [j \in 1 .. n |-> [x \in Truths |-> Apply(o, x, R[j])]]
<1>1. F \in [1 .. n -> [Truths -> Truths]]
  <2>1. \A j \in 1 .. n : \A x \in Truths : Apply(o, x, R[j]) \in Truths
    BY ApplyFacts
  <2>2. \A j \in 1 .. n : [x \in Truths |-> Apply(o, x, R[j])] \in [Truths -> Truths]
    BY <2>1
  <2>3. QED
    BY <2>2
<1>2. PICK c \in [0 .. n -> Truths] : IsRun(c, n, base, F)
  <2> HIDE DEF F
  <2>1. QED
    BY <1>1, Rounds
<1>3. ASSUME NEW j \in 1 .. n PROVE c[j] = Apply(o, c[j - 1], R[j])
  <2>1. c[j] = F[j][c[j - 1]] /\ c[j - 1] \in Truths
    BY <1>2 DEF IsRun
  <2>2. F[j][c[j - 1]] = Apply(o, c[j - 1], R[j])
    BY <2>1
  <2>3. QED
    BY <2>1, <2>2
<1>4. c[0] = base
  BY <1>2 DEF IsRun
<1>5. QED
  BY <1>3, <1>4 DEF Follows

LEMMA SpineSum ==
  ASSUME NEW o \in Operators, Commutes(o), NEW n \in Nat, NEW x \in Truths,
         NEW c \in [0 .. n -> Truths], NEW R, \A j \in 1 .. n : R[j] \in Truths,
         Follows(c, o, R, n), NEW z, z[0] = Apply(o, c[0], x), Follows(z, o, R, n)
  PROVE  \A j \in 0 .. n : z[j] = Apply(o, c[j], x)
<1> DEFINE T == {j \in 0 .. n : z[j] = Apply(o, c[j], x)}
<1>1. 0 \in T
  OBVIOUS
<1>2. ASSUME NEW j \in 0 .. n - 1, j \in T PROVE j + 1 \in T
  <2>1. j + 1 \in 1 .. n /\ (j + 1) - 1 = j /\ j \in 0 .. n
    OBVIOUS
  <2>2. z[j + 1] = Apply(o, Apply(o, c[j], x), R[j + 1])
    BY <1>2, <2>1 DEF Follows
  <2>3. c[j + 1] = Apply(o, c[j], R[j + 1])
    BY <2>1 DEF Follows
  <2>4. c[j] \in Truths /\ R[j + 1] \in Truths
    BY <2>1
  <2>5. Apply(o, Apply(o, c[j], x), R[j + 1]) = Apply(o, Apply(o, c[j], R[j + 1]), x)
    BY <2>4, LastTwo
  <2>6. j + 1 \in 0 .. n /\ z[j + 1] = Apply(o, c[j + 1], x)
    BY <2>1, <2>2, <2>3, <2>5
  <2>7. QED
    BY <2>6
<1>3. 0 .. n \subseteq T
  <2>1. \A j \in 0 .. n - 1 : j \in T => j + 1 \in T
    BY <1>2
  <2> HIDE DEF T
  <2>2. QED
    BY <1>1, <2>1, Upwards
<1>4. QED
  BY <1>3

LEMMA ExchangeUpValue ==
  ASSUME NEW op, Lawful(op), NEW t, Sound(t, op), NEW k \in Nat \ {0}, NEW s, Spine(s, k, t),
         ~Enclosed(op, s[0]), ~Enclosed(op, s[k])
  PROVE  SameValues(t, Exchange(t, Slot(s[0], 2), Slot(s[k], 2)))
<1> DEFINE o == op[s[0]]
           u == Exchange(t, Slot(s[0], 2), Slot(s[k], 2))
<1>1. SUFFICES ASSUME NEW env \in Envs PROVE Value(t, env) = Value(u, env)
  BY DEF SameValues
<1>2. /\ Sound(u, op) /\ Spine(s, k, u)
      /\ u.of[Slot(s[0], 2)] = t.of[Slot(s[k], 2)] /\ u.of[Slot(s[k], 2)] = t.of[Slot(s[0], 2)]
      /\ \A p \in DOMAIN op \ {Slot(s[0], 2), Slot(s[k], 2)} : u.of[p] = t.of[p]
  BY ExchangeUpSound
<1> HIDE DEF u
<1>3. /\ t \in Made(op) /\ t.op = op /\ t.of \in [DOMAIN op -> DOMAIN op] /\ Grounded(t)
      /\ u \in Made(op) /\ u.op = op /\ u.of \in [DOMAIN op -> DOMAIN op] /\ Grounded(u)
      /\ <<>> \in DOMAIN op
  BY <1>2, MadeFacts DEF Sound, Lawful
<1>s. /\ s \in [0 .. k -> DOMAIN op] /\ \A j \in 0 .. k : op[s[j]] = o
      /\ o \in Operators /\ Commutes(o) /\ o # "("
      /\ \A j \in 0 .. k : s[j] \in DOMAIN op /\ Slot(s[j], 1) \in DOMAIN op /\ Slot(s[j], 2) \in DOMAIN op
      /\ \A j \in 1 .. k : t.of[Slot(s[j], 1)] = s[j - 1]
      /\ \A i, j \in 0 .. k : s[i] = s[j] => i = j
      /\ \A j \in 0 .. k - 1 : t.of[<<>>] # s[j]
      /\ \A j \in 0 .. k - 1 : \A m \in DOMAIN op, i \in {1, 2} :
           Slot(m, i) \in DOMAIN op /\ t.of[Slot(m, i)] = s[j] => m = s[j + 1] /\ i = 1
  BY SpineFacts DEF Operators
<1>w. /\ \A m \in DOMAIN op, j \in {0, k}, i \in {1, 2} : Slot(m, i) = Slot(s[j], 2) => m = s[j] /\ i = 2
      /\ \A j \in {0, k} : Slot(s[j], 2) # <<>>
  <2>1. \A m \in DOMAIN op : m \in Seq({1, 2})
    BY DEF Lawful
  <2>2. \A j \in {0, k} : s[j] \in Seq({1, 2})
    BY <1>s, <2>1
  <2>3. QED
    BY <2>1, <2>2, SlotsDiffer, SlotFacts
<1> HIDE DEF o
<1>4. PICK v : Valuation(v, t, env)
  BY <1>3, HasValuation
<1>5. v \in [DOMAIN op -> Truths] /\ \A m \in DOMAIN op : v[m] = Due(v, t, env, m)
  BY <1>3, <1>4 DEF Valuation
<1> DEFINE R == [j \in 1 .. k |-> v[t.of[Slot(s[j], 2)]]]
           base == v[t.of[Slot(s[0], 1)]]
           x == v[t.of[Slot(s[0], 2)]]
           y == R[k]
<1>6. /\ R \in [1 .. k -> Truths] /\ base \in Truths /\ x \in Truths /\ y \in Truths
      /\ y = v[t.of[Slot(s[k], 2)]]
      /\ \A j \in 1 .. k : R[j] = v[t.of[Slot(s[j], 2)]]
  <2>1. \A j \in 0 .. k : v[t.of[Slot(s[j], 2)]] \in Truths
    BY <1>3, <1>5, <1>s
  <2>2. R \in [1 .. k -> Truths]
    BY <2>1
  <2>3. base \in Truths
    BY <1>3, <1>5, <1>s
  <2>4. QED
    BY <2>1, <2>2, <2>3
<1> HIDE DEF R, base, x
<1>7. PICK c \in [0 .. k - 1 -> Truths] : c[0] = base /\ Follows(c, o, R, k - 1)
  <2>1. o \in Operators /\ Commutes(o)
    BY <1>s
  <2>2. k - 1 \in Nat /\ base \in Truths /\ \A j \in 1 .. k - 1 : R[j] \in Truths
    BY <1>6
  <2>3. QED
    BY <2>1, <2>2, SpineValues
<1>8. /\ v[s[0]] = Apply(o, base, x)
      /\ \A j \in 1 .. k : v[s[j]] = Apply(o, v[s[j - 1]], R[j])
  <2>1. ASSUME NEW j \in 0 .. k
        PROVE  v[s[j]] = Apply(o, v[t.of[Slot(s[j], 1)]], v[t.of[Slot(s[j], 2)]])
    BY <1>3, <1>5, <1>s DEF Due
  <2>2. v[s[0]] = Apply(o, base, x)
    BY <2>1 DEF base, x
  <2>3. ASSUME NEW j \in 1 .. k PROVE v[s[j]] = Apply(o, v[s[j - 1]], R[j])
    <3>1. j \in 0 .. k /\ t.of[Slot(s[j], 1)] = s[j - 1] /\ R[j] = v[t.of[Slot(s[j], 2)]]
      BY <1>6, <1>s
    <3>2. QED
      BY <2>1, <3>1
  <2>4. QED
    BY <2>2, <2>3
<1>9. \A j \in 0 .. k - 1 : v[s[j]] = Apply(o, c[j], x)
  <2> DEFINE z == [j \in 0 .. k - 1 |-> v[s[j]]]
  <2>1. z[0] = Apply(o, c[0], x)
    BY <1>7, <1>8
  <2>2. Follows(z, o, R, k - 1)
    BY <1>8 DEF Follows
  <2>3. \A j \in 0 .. k - 1 : z[j] = v[s[j]]
    OBVIOUS
  <2> HIDE DEF z
  <2>4. \A j \in 0 .. k - 1 : z[j] = Apply(o, c[j], x)
    <3>1. o \in Operators /\ Commutes(o)
      BY <1>s
    <3>2. k - 1 \in Nat /\ x \in Truths /\ \A j \in 1 .. k - 1 : R[j] \in Truths
      BY <1>6
    <3>3. QED
      BY <1>7, <2>1, <2>2, <3>1, <3>2, SpineSum
  <2>5. QED
    BY <2>3, <2>4
<1> DEFINE Between(m) == \E j \in 0 .. k - 1 : s[j] = m
           place(m) == CHOOSE j \in 0 .. k - 1 : s[j] = m
           w == [m \in DOMAIN op |-> IF Between(m) THEN Apply(o, c[place(m)], y) ELSE v[m]]
<1>10. /\ w \in [DOMAIN op -> Truths]
       /\ \A j \in 0 .. k - 1 : w[s[j]] = Apply(o, c[j], y)
       /\ \A m \in DOMAIN op : ~Between(m) => w[m] = v[m]
  <2>1. \A j \in 0 .. k - 1 : Between(s[j]) /\ place(s[j]) = j
    BY <1>s
  <2>2. \A m \in DOMAIN op : Between(m) => place(m) \in 0 .. k - 1
    OBVIOUS
  <2> HIDE DEF Between, place
  <2>3. \A m \in DOMAIN op : Between(m) => Apply(o, c[place(m)], y) \in Truths
    BY <1>6, <1>7, <1>s, <2>2, ApplyFacts
  <2>4. w \in [DOMAIN op -> Truths]
    BY <1>5, <2>3
  <2>5. ASSUME NEW j \in 0 .. k - 1 PROVE w[s[j]] = Apply(o, c[j], y)
    <3>1. s[j] \in DOMAIN op
      BY <1>s
    <3>2. QED
      BY <2>1, <3>1
  <2>6. QED
    BY <2>4, <2>5
<1> HIDE DEF w
<1>11. /\ ~Between(t.of[<<>>]) /\ \A j \in 0 .. k : ~Between(t.of[Slot(s[j], 2)])
       /\ ~Between(t.of[Slot(s[0], 1)]) /\ ~Between(s[k])
       /\ \A m \in DOMAIN op, i \in {1, 2} :
            Slot(m, i) \in DOMAIN op /\ (\A j \in 1 .. k : m # s[j]) => ~Between(t.of[Slot(m, i)])
  <2>1. ~Between(t.of[<<>>])
    BY <1>s
  <2>2. ASSUME NEW j \in 0 .. k PROVE ~Between(t.of[Slot(s[j], 2)])
    BY <1>s
  <2>3. ASSUME NEW m \in DOMAIN op, NEW i \in {1, 2}, Slot(m, i) \in DOMAIN op, \A j \in 1 .. k : m # s[j]
        PROVE  ~Between(t.of[Slot(m, i)])
    <3>1. SUFFICES ASSUME NEW j \in 0 .. k - 1, s[j] = t.of[Slot(m, i)] PROVE FALSE
      OBVIOUS
    <3>2. m = s[j + 1] /\ j + 1 \in 1 .. k
      BY <1>s, <2>3, <3>1
    <3>3. QED
      BY <2>3, <3>2
  <2>4. ~Between(t.of[Slot(s[0], 1)])
    <3>1. s[0] \in DOMAIN op /\ Slot(s[0], 1) \in DOMAIN op /\ \A j \in 1 .. k : s[0] # s[j]
      BY <1>s
    <3>2. QED
      BY <2>3, <3>1
  <2>5. ~Between(s[k])
    BY <1>s
  <2>6. QED
    BY <2>1, <2>2, <2>3, <2>4, <2>5
<1>12. ASSUME NEW m \in DOMAIN op PROVE w[m] = Due(w, u, env, m)
  <2>1. CASE \A j \in 0 .. k : m # s[j]
    <3>1. ASSUME NEW i \in {1, 2}, Slot(m, i) \in DOMAIN op
          PROVE  w[u.of[Slot(m, i)]] = v[t.of[Slot(m, i)]]
      <4>1. u.of[Slot(m, i)] = t.of[Slot(m, i)]
        BY <1>2, <1>w, <2>1, <3>1
      <4>2. ~Between(t.of[Slot(m, i)]) /\ t.of[Slot(m, i)] \in DOMAIN op
        BY <1>3, <1>11, <2>1, <3>1
      <4>3. QED
        BY <1>10, <4>1, <4>2
    <3>2. /\ op[m] \in Operators => Slot(m, 1) \in DOMAIN op /\ Slot(m, 2) \in DOMAIN op
          /\ op[m] = "(" => Slot(m, 1) \in DOMAIN op
      BY DEF Lawful
    <3>3. Due(w, u, env, m) = Due(v, t, env, m)
      BY <1>3, <3>1, <3>2 DEF Due
    <3>4. w[m] = v[m]
      BY <1>10, <2>1
    <3>5. QED
      BY <1>5, <3>3, <3>4
  <2>2. CASE \E j \in 0 .. k : m = s[j]
    <3>1. PICK j \in 0 .. k : m = s[j]
      BY <2>2
    <3>2. /\ Slot(s[j], 1) \in DOMAIN op /\ Slot(s[j], 2) \in DOMAIN op
          /\ u.of[Slot(s[j], 1)] = t.of[Slot(s[j], 1)]
          /\ op[m] = o
      BY <1>2, <1>s, <1>w, <3>1
    <3>3. Due(w, u, env, m) = Apply(o, w[t.of[Slot(s[j], 1)]], w[u.of[Slot(s[j], 2)]])
      BY <1>3, <1>s, <3>1, <3>2 DEF Due
    <3>4. \A i \in 0 .. k : t.of[Slot(s[i], 2)] \in DOMAIN op /\ w[t.of[Slot(s[i], 2)]] = v[t.of[Slot(s[i], 2)]]
      BY <1>3, <1>s, <1>10, <1>11
    <3>5. CASE j = 0
      <4>1. w[t.of[Slot(s[0], 1)]] = base
        BY <1>3, <1>10, <1>11, <3>2, <3>5 DEF base
      <4>2. w[u.of[Slot(s[0], 2)]] = y
        BY <1>2, <1>6, <3>4
      <4>3. w[m] = Apply(o, base, y)
        BY <1>7, <1>10, <3>1, <3>5
      <4>4. QED
        BY <3>3, <3>5, <4>1, <4>2, <4>3
    <3>6. CASE j # 0 /\ j # k
      <4>1. j \in 1 .. k - 1 /\ j - 1 \in 0 .. k - 1 /\ j \in 0 .. k - 1 /\ j \in 1 .. k
        BY <3>6
      <4>2. w[t.of[Slot(s[j], 1)]] = Apply(o, c[j - 1], y)
        BY <1>s, <1>10, <4>1
      <4>3. u.of[Slot(s[j], 2)] = t.of[Slot(s[j], 2)]
        <5>1. s[j] # s[0] /\ s[j] # s[k] /\ s[j] \in DOMAIN op
          BY <1>s, <3>6
        <5>2. QED
          BY <1>2, <1>w, <3>2, <5>1
      <4>4. w[u.of[Slot(s[j], 2)]] = R[j]
        BY <1>6, <3>4, <4>1, <4>3
      <4>5. w[m] = Apply(o, Apply(o, c[j - 1], R[j]), y)
        BY <1>7, <1>10, <3>1, <4>1 DEF Follows
      <4>6. c[j - 1] \in Truths /\ R[j] \in Truths
        BY <1>6, <1>7, <4>1
      <4>7. Apply(o, Apply(o, c[j - 1], R[j]), y) = Apply(o, Apply(o, c[j - 1], y), R[j])
        <5>1. o \in Operators /\ Commutes(o) /\ y \in Truths
          BY <1>6, <1>s
        <5> HIDE DEF y
        <5>2. QED
          BY <4>6, <5>1, LastTwo
      <4>8. QED
        BY <3>3, <4>2, <4>4, <4>5, <4>7
    <3>7. CASE j = k
      <4>1. k - 1 \in 0 .. k - 1 /\ k \in 1 .. k
        OBVIOUS
      <4>2. w[t.of[Slot(s[k], 1)]] = Apply(o, c[k - 1], y)
        BY <1>s, <1>10, <4>1
      <4>3. w[u.of[Slot(s[k], 2)]] = x
        BY <1>2, <3>4 DEF x
      <4>4. w[m] = Apply(o, Apply(o, c[k - 1], x), y)
        BY <1>6, <1>8, <1>9, <1>10, <1>11, <3>1, <3>7, <4>1
      <4>5. c[k - 1] \in Truths
        BY <1>7, <4>1
      <4>6. Apply(o, Apply(o, c[k - 1], x), y) = Apply(o, Apply(o, c[k - 1], y), x)
        <5>1. o \in Operators /\ Commutes(o) /\ x \in Truths /\ y \in Truths
          BY <1>6, <1>s
        <5> HIDE DEF y
        <5>2. QED
          BY <4>5, <5>1, ApplyFacts
      <4>7. QED
        BY <3>3, <3>7, <4>2, <4>3, <4>4, <4>6
    <3>8. QED
      BY <3>5, <3>6, <3>7
  <2>3. QED
    BY <2>1, <2>2
<1>13. Valuation(w, u, env)
  BY <1>3, <1>10, <1>12 DEF Valuation
<1>14. Value(t, env) = v[t.of[<<>>]] /\ Value(u, env) = w[u.of[<<>>]]
  BY <1>3, <1>4, <1>13, ValueIs
<1>15. u.of[<<>>] = t.of[<<>>]
  BY <1>2, <1>3, <1>w
<1>16. QED
  BY <1>3, <1>10, <1>11, <1>14, <1>15

----------------------------------------------------------------------------
(* The climb. *)
LEMMA LevelFacts ==
  /\ \A l \in Labels : Level(l) \in Nat
  /\ \A l \in Names : Level(l) = 0
  /\ \A l \in Operators : Level(l) > 0
  /\ \A l, k \in Operators : Commutes(l) /\ Commutes(k) /\ Level(l) = Level(k) => l = k
<1>1. /\ Level("+") = 1 /\ Level("-") = 1 /\ Level("&") = 2 /\ Level("|") = 3 /\ Level("(") = 0
      /\ Level("x1") = 0 /\ Level("x2") = 0 /\ Level("a") = 0 /\ Level("b") = 0
  BY DEF Level
<1>2. QED
  BY <1>1 DEF Labels, Operators, Names, Commutes

(* The pointer that leads to a node *)
LEMMA PlaceFacts ==
  ASSUME NEW op, Lawful(op), NEW t, Sound(t, op), NEW m \in DOMAIN op
  PROVE  /\ SlotOf(t, m) \in DOMAIN op /\ t.of[SlotOf(t, m)] = m
         /\ \A p \in DOMAIN op : t.of[p] = m => p = SlotOf(t, m)
         /\ SlotOf(t, m) # <<>> =>
              /\ Parent(t, m) \in DOMAIN op /\ Last(SlotOf(t, m)) \in {1, 2}
              /\ SlotOf(t, m) = Slot(Parent(t, m), Last(SlotOf(t, m)))
              /\ op[Parent(t, m)] \in Operators \/ op[Parent(t, m)] = "("
              /\ Enclosed(op, Parent(t, m)) => Enclosed(op, m)
<1>0. t \in Made(op) /\ t.op = op /\ t.of \in [DOMAIN op -> DOMAIN op] /\ Paired(t) /\ Walled(t)
  BY MadeFacts DEF Sound
<1>1. SlotOf(t, m) \in DOMAIN op /\ t.of[SlotOf(t, m)] = m
  <2>1. \E p \in DOMAIN t.of : t.of[p] = m
    BY <1>0 DEF Paired
  <2>2. QED
    BY <1>0, <2>1 DEF SlotOf
<1>2. \A p \in DOMAIN op : t.of[p] = m => p = SlotOf(t, m)
  BY <1>0, <1>1 DEF Paired
<1>3. ASSUME SlotOf(t, m) # <<>>
      PROVE  /\ Parent(t, m) \in DOMAIN op /\ Last(SlotOf(t, m)) \in {1, 2}
             /\ SlotOf(t, m) = Slot(Parent(t, m), Last(SlotOf(t, m)))
             /\ op[Parent(t, m)] \in Operators \/ op[Parent(t, m)] = "("
             /\ Enclosed(op, Parent(t, m)) => Enclosed(op, m)
  <2>1. SlotOf(t, m) \in Seq({1, 2}) /\ Parent(t, m) \in DOMAIN op
    BY <1>1, <1>3 DEF Lawful, Parent
  <2>2. Last(SlotOf(t, m)) \in {1, 2} /\ SlotOf(t, m) = Slot(Parent(t, m), Last(SlotOf(t, m)))
    BY <1>3, <2>1, WayFacts DEF Parent
  <2>3. op[Parent(t, m)] \in Operators \/ op[Parent(t, m)] = "("
    BY <1>1, <2>1, <2>2 DEF Lawful
  <2>4. Enclosed(op, Parent(t, m)) => Enclosed(op, m)
    BY <1>0, <1>1, <2>1, <2>2 DEF Walled
  <2>5. QED
    BY <2>1, <2>2, <2>3, <2>4
<1>4. QED
  BY <1>1, <1>2, <1>3

(* What the climb from p keeps: the value, what the whole is, and that it  *)
(* has come through operators of the kind of p.                            *)
Reached(c, t, op, p) ==
  /\ c \in [tree : Made(op), at : DOMAIN op]
  /\ Sound(c.tree, op) /\ SameValues(t, c.tree) /\ c.tree.of[<<>>] = t.of[<<>>]
  /\ ~Enclosed(op, c.at)
  /\ \E k \in Nat : \E s \in [0 .. k -> DOMAIN op] : Spine(s, k, c.tree) /\ s[0] = p /\ s[k] = c.at

LEMMA ClimbOneKeeps ==
  ASSUME NEW op, Lawful(op), NEW t, NEW p \in DOMAIN op, ~Enclosed(op, p),
         NEW c, Reached(c, t, op, p)
  PROVE  Reached(ClimbOne(c, p), t, op, p)
<1> DEFINE u == c.tree
           q == c.at
           up == Parent(u, q)
           w == Exchange(u, Slot(p, 2), Slot(up, 2))
<1>1. /\ u \in Made(op) /\ q \in DOMAIN op /\ Sound(u, op) /\ SameValues(t, u)
      /\ u.of[<<>>] = t.of[<<>>] /\ ~Enclosed(op, q) /\ u.op = op
  BY MadeFacts DEF Reached
<1>a. PICK k \in Nat : \E s \in [0 .. k -> DOMAIN op] : Spine(s, k, u) /\ s[0] = p /\ s[k] = q
  BY DEF Reached
<1>2. PICK s \in [0 .. k -> DOMAIN op] : Spine(s, k, u) /\ s[0] = p /\ s[k] = q
  BY <1>a
<1>3. CASE ~(/\ UnderOperator(u, q)
             /\ Level(u.op[up]) = Level(u.op[p]) /\ Commutes(u.op[up]))
  <2>1. ClimbOne(c, p) = c
    BY <1>3 DEF ClimbOne
  <2>2. QED
    BY <2>1
<1>4. CASE UnderOperator(u, q) /\ Level(u.op[up]) = Level(u.op[p]) /\ Commutes(u.op[up])
  <2>1. ClimbOne(c, p) = [tree |-> w, at |-> up]
    BY <1>4 DEF ClimbOne
  <2> HIDE DEF u, q, up
  <2>2. SlotOf(u, q) # <<>> /\ op[up] \in Operators
    BY <1>1, <1>4 DEF UnderOperator, up
  <2>3. /\ up \in DOMAIN op /\ Last(SlotOf(u, q)) \in {1, 2}
        /\ u.of[Slot(up, Last(SlotOf(u, q)))] = q
        /\ ~Enclosed(op, up)
    BY <1>1, <2>2, PlaceFacts DEF up
  <2>4. op[p] \in Operators /\ Commutes(op[p]) /\ op[q] = op[p]
    BY <1>1, <1>2 DEF Spine
  <2>5. op[up] = op[p]
    BY <1>1, <1>4, <2>2, <2>4, LevelFacts
  <2>6. u.of[Slot(up, 1)] = q
    <3>1. SUFFICES ASSUME Last(SlotOf(u, q)) = 2 PROVE FALSE
      BY <2>3
    <3>2. Level(op[q]) < Level(op[up])
      BY <1>1, <2>2, <2>3, <3>1 DEF Sound, CloserRight
    <3>3. Level(op[p]) \in Nat
      BY <2>4, LevelFacts DEF Labels
    <3>4. QED
      BY <2>4, <2>5, <3>2, <3>3
  <2> DEFINE h == [j \in 0 .. k + 1 |-> IF j = k + 1 THEN up ELSE s[j]]
  <2>7. /\ h \in [0 .. k + 1 -> DOMAIN op] /\ h[0] = p /\ h[k + 1] = up
        /\ \A j \in 0 .. k : h[j] = s[j]
    BY <1>2, <2>3
  <2> HIDE DEF h
  <2>8. Spine(h, k + 1, u)
    <3>1. ASSUME NEW j \in 1 .. k + 1 PROVE u.of[Slot(h[j], 1)] = h[j - 1]
      <4>1. CASE j = k + 1
        <5>1. j - 1 = k /\ k \in 0 .. k
          BY <4>1
        <5>2. QED
          BY <1>2, <2>6, <2>7, <4>1, <5>1
      <4>2. CASE j # k + 1
        <5>1. j \in 1 .. k /\ j \in 0 .. k /\ j - 1 \in 0 .. k
          BY <4>2
        <5>2. QED
          BY <1>2, <2>7, <5>1 DEF Spine
      <4>3. QED
        BY <4>1, <4>2
    <3>2. ASSUME NEW j \in 0 .. k + 1 PROVE op[h[j]] = op[p]
      <4>1. CASE j = k + 1
        BY <2>5, <2>7, <4>1
      <4>2. CASE j # k + 1
        <5>1. j \in 0 .. k
          BY <4>2
        <5>2. QED
          BY <1>1, <1>2, <2>7, <5>1 DEF Spine
      <4>3. QED
        BY <4>1, <4>2
    <3>3. QED
      BY <1>1, <2>4, <2>7, <3>1, <3>2 DEF Spine
  <2>9. /\ k + 1 \in Nat \ {0} /\ w = Exchange(u, Slot(h[0], 2), Slot(h[k + 1], 2))
        /\ ~Enclosed(op, h[0]) /\ ~Enclosed(op, h[k + 1])
    BY <2>3, <2>7
  <2> HIDE DEF w
  <2>10. /\ Sound(w, op) /\ Spine(h, k + 1, w) /\ SameValues(u, w)
         /\ \A x \in DOMAIN op \ {Slot(h[0], 2), Slot(h[k + 1], 2)} : w.of[x] = u.of[x]
    BY <1>1, <2>8, <2>9, ExchangeUpSound, ExchangeUpValue
  <2>11. w.of[<<>>] = t.of[<<>>]
    <3>1. <<>> \in DOMAIN op /\ p \in Seq({1, 2}) /\ up \in Seq({1, 2})
      BY <2>3 DEF Lawful
    <3>2. Slot(p, 2) # <<>> /\ Slot(up, 2) # <<>>
      BY <3>1, SlotFacts
    <3>3. QED
      BY <1>1, <2>7, <2>10, <3>1, <3>2
  <2>12. SameValues(t, w)
    BY <1>1, <2>10 DEF SameValues
  <2>13. [tree |-> w, at |-> up] \in [tree : Made(op), at : DOMAIN op]
    BY <2>3, <2>10 DEF Sound
  <2>14. QED
    BY <2>1, <2>3, <2>7, <2>9, <2>10, <2>11, <2>12, <2>13 DEF Reached
<1>5. QED
  BY <1>3, <1>4

LEMMA ClimbKeeps ==
  ASSUME NEW op, Lawful(op), NEW t, Sound(t, op), NEW p \in DOMAIN op, ~Enclosed(op, p),
         op[p] \in Operators, Commutes(op[p])
  PROVE  /\ Sound(Climb(t, p), op) /\ SameValues(t, Climb(t, p))
         /\ Climb(t, p).of[<<>>] = t.of[<<>>]
<1> DEFINE S == {c \in [tree : Made(op), at : DOMAIN op] : Reached(c, t, op, p)}
           start == [tree |-> t, at |-> p]
           F == [j \in 1 .. MaxOperators |-> [c \in S |-> ClimbOne(c, p)]]
           Is(f) == f = [k \in 0 .. MaxOperators |-> IF k = 0 THEN start ELSE ClimbOne(f[k - 1], p)]
<1>0. t \in Made(op) /\ t.op = op
  BY MadeFacts DEF Sound
<1>1. start \in S
  <2> DEFINE s == [j \in 0 .. 0 |-> p]
  <2>1. s \in [0 .. 0 -> DOMAIN op] /\ s[0] = p
    OBVIOUS
  <2> HIDE DEF s
  <2>2. Spine(s, 0, t)
    BY <1>0, <2>1 DEF Spine
  <2>3. Reached(start, t, op, p)
    <3>1. \E k \in Nat : \E h \in [0 .. k -> DOMAIN op] : Spine(h, k, t) /\ h[0] = p /\ h[k] = p
      BY <2>1, <2>2
    <3>2. start \in [tree : Made(op), at : DOMAIN op] /\ start.tree = t /\ start.at = p
      BY <1>0
    <3> HIDE DEF start
    <3>3. QED
      BY <3>1, <3>2 DEF Reached, SameValues
  <2>4. QED
    BY <1>0, <2>3
<1>2. ASSUME NEW c \in S PROVE ClimbOne(c, p) \in S
  <2>1. Reached(ClimbOne(c, p), t, op, p)
    BY ClimbOneKeeps
  <2>2. QED
    BY <2>1 DEF Reached
<1>3. F \in [1 .. MaxOperators -> [S -> S]]
  <2> HIDE DEF S
  <2>1. QED
    BY <1>2
<1>4. PICK g \in [0 .. MaxOperators -> S] : IsRun(g, MaxOperators, start, F)
  <2> HIDE DEF S, start, F
  <2>1. QED
    BY <1>1, <1>3, Rounds, CopyElisionAssumption
<1>5. Is(g)
  <2> HIDE DEF S, start
  <2>1. ASSUME NEW k \in 0 .. MaxOperators
        PROVE  g[k] = IF k = 0 THEN start ELSE ClimbOne(g[k - 1], p)
    <3>1. CASE k = 0
      BY <1>4, <3>1 DEF IsRun
    <3>2. CASE k # 0
      <4>1. k \in 1 .. MaxOperators /\ k - 1 \in 0 .. MaxOperators
        BY <3>2, CopyElisionAssumption
      <4>2. g[k - 1] \in S /\ g[k] = F[k][g[k - 1]]
        BY <1>4, <4>1 DEF IsRun
      <4>3. QED
        BY <3>2, <4>1, <4>2
    <3>3. QED
      BY <3>1, <3>2
  <2>2. QED
    BY <2>1
<1> DEFINE climbed == CHOOSE f : Is(f)
<1>6. Is(climbed)
  <2> HIDE DEF Is
  <2>1. QED
    BY <1>5
<1>7. climbed[MaxOperators] \in S
  <2> HIDE DEF S, start, climbed
  <2> DEFINE T == {k \in 0 .. MaxOperators : climbed[k] \in S}
  <2>1. climbed[0] = start /\ \A k \in 0 .. MaxOperators - 1 : climbed[k + 1] = ClimbOne(climbed[k], p)
    BY <1>6, CopyElisionAssumption
  <2>2. 0 \in T
    BY <1>1, <2>1, CopyElisionAssumption
  <2>3. \A k \in 0 .. MaxOperators - 1 : k \in T => k + 1 \in T
    BY <1>2, <2>1, CopyElisionAssumption
  <2> HIDE DEF T
  <2>4. 0 .. MaxOperators \subseteq T
    BY <2>2, <2>3, Upwards, CopyElisionAssumption
  <2>5. MaxOperators \in T
    BY <2>4, CopyElisionAssumption
  <2>6. QED
    BY <2>5 DEF T
<1>8. Climb(t, p) = climbed[MaxOperators].tree
  BY DEF Climb
<1>9. QED
  <2> HIDE DEF climbed
  <2>1. Reached(climbed[MaxOperators], t, op, p)
    BY <1>7
  <2>2. QED
    BY <1>8, <2>1 DEF Reached

----------------------------------------------------------------------------
(* An occurrence of x outside of parentheses *)
IsX(op, x) == x \in DOMAIN op /\ op[x] \in {"x1", "x2"} /\ ~Enclosed(op, x)

(* Unless it is the whole, its parent is an operator. *)
LEMMA OccurrenceFacts ==
  ASSUME NEW op, Lawful(op), NEW t, Sound(t, op), NEW x, IsX(op, x), t.of[<<>>] # x
  PROVE  /\ SlotOf(t, x) # <<>> /\ Parent(t, x) \in DOMAIN op /\ Last(SlotOf(t, x)) \in {1, 2}
         /\ SlotOf(t, x) = Slot(Parent(t, x), Last(SlotOf(t, x)))
         /\ t.of[Slot(Parent(t, x), Last(SlotOf(t, x)))] = x
         /\ op[Parent(t, x)] \in Operators /\ ~Enclosed(op, Parent(t, x))
<1>1. SlotOf(t, x) \in DOMAIN op /\ t.of[SlotOf(t, x)] = x
  BY PlaceFacts DEF IsX
<1>2. SlotOf(t, x) # <<>>
  BY <1>1
<1>3. /\ Parent(t, x) \in DOMAIN op /\ Last(SlotOf(t, x)) \in {1, 2}
      /\ SlotOf(t, x) = Slot(Parent(t, x), Last(SlotOf(t, x)))
      /\ op[Parent(t, x)] \in Operators \/ op[Parent(t, x)] = "("
      /\ ~Enclosed(op, Parent(t, x))
  BY <1>2, PlaceFacts DEF IsX
<1>4. op[Parent(t, x)] # "("
  <2>1. Parent(t, x) \in Seq({1, 2})
    BY <1>3 DEF Lawful
  <2>2. QED
    BY <1>3, <2>1, PrefixFacts DEF Enclosed
<1>5. QED
  BY <1>1, <1>2, <1>3, <1>4

LEMMA ReorderedKeeps ==
  ASSUME NEW op, Lawful(op), NEW t, Sound(t, op), NEW n, IsX(op, WhereIs(t, n)),
         t.of[<<>>] # WhereIs(t, n)
  PROVE  /\ Sound(Reordered(t, n), op) /\ SameValues(t, Reordered(t, n))
         /\ Reordered(t, n).of[<<>>] = t.of[<<>>]
<1> DEFINE x == WhereIs(t, n)
           p == Parent(t, x)
           swapped == IF SlotOf(t, x) = Slot(p, 1) THEN Exchange(t, Slot(p, 1), Slot(p, 2)) ELSE t
<1>0. t \in Made(op) /\ t.op = op /\ <<>> \in DOMAIN op
  BY MadeFacts DEF Sound, Lawful
<1>1. Reordered(t, n) = IF Commutes(op[p]) THEN Climb(swapped, p) ELSE t
  BY <1>0 DEF Reordered
<1>2. /\ p \in DOMAIN op /\ op[p] \in Operators /\ ~Enclosed(op, p)
      /\ t.of[SlotOf(t, x)] = x /\ op[x] \in Names
  BY OccurrenceFacts DEF IsX, Names
<1>3. CASE ~Commutes(op[p])
  BY <1>1, <1>3 DEF SameValues
<1>4. CASE Commutes(op[p])
  <2>1. Sound(swapped, op) /\ SameValues(t, swapped) /\ swapped.of[<<>>] = t.of[<<>>]
    <3>1. CASE SlotOf(t, x) # Slot(p, 1)
      BY <3>1 DEF SameValues
    <3>2. CASE SlotOf(t, x) = Slot(p, 1)
      <4>1. swapped = Exchange(t, Slot(p, 1), Slot(p, 2))
        BY <3>2
      <4> HIDE DEF x, p, swapped
      <4>2. Level(op[t.of[Slot(p, 1)]]) < Level(op[p])
        <5>1. Level(op[x]) = 0 /\ Level(op[p]) > 0
          BY <1>2, LevelFacts
        <5>2. QED
          BY <1>2, <3>2, <5>1
      <4>3. Sound(swapped, op) /\ SameValues(t, swapped)
        BY <1>2, <1>4, <4>1, <4>2, ExchangeSides
      <4>4. swapped.of[<<>>] = t.of[<<>>]
        <5>1. p \in Seq({1, 2}) /\ Slot(p, 1) \in DOMAIN op /\ Slot(p, 2) \in DOMAIN op
          BY <1>2 DEF Lawful
        <5>2. Slot(p, 1) # <<>> /\ Slot(p, 2) # <<>> /\ Slot(p, 1) # Slot(p, 2)
          BY <5>1, SlotFacts, SlotsDiffer
        <5>3. QED
          BY <1>0, <4>1, <5>1, <5>2, ExchangeFacts
      <4>5. QED
        BY <4>3, <4>4
    <3>3. QED
      BY <3>1, <3>2
  <2> HIDE DEF x, p, swapped
  <2>2. /\ Sound(Climb(swapped, p), op) /\ SameValues(swapped, Climb(swapped, p))
        /\ Climb(swapped, p).of[<<>>] = swapped.of[<<>>]
    BY <1>2, <1>4, <2>1, ClimbKeeps
  <2>3. QED
    BY <1>1, <1>4, <2>1, <2>2 DEF SameValues
<1>5. QED
  BY <1>3, <1>4

(* What the extraction leaves is the other operand of the whole. *)
LEMMA ExtractKeeps ==
  ASSUME NEW op, Lawful(op), NEW t, Sound(t, op), NEW n, IsX(op, WhereIs(t, n)),
         t.of[<<>>] # WhereIs(t, n), Extractable(t, n), NEW env \in Envs
  PROVE  LET p == Parent(t, WhereIs(t, n)) IN
         /\ op[p] \in Operators
         /\ Value(t, env) = Apply(op[p], env["x"], Value(Extracted(t, n), env))
<1> DEFINE x == WhereIs(t, n)
           p == Parent(t, x)
           i == Last(SlotOf(t, x))
           other == 3 - i
           u == [t EXCEPT !.of[SlotOf(t, p)] = t.of[Slot(p, other)]]
<1>0. /\ t \in Made(op) /\ t.op = op /\ t.of \in [DOMAIN op -> DOMAIN op] /\ <<>> \in DOMAIN op
      /\ t = [op |-> op, of |-> t.of] /\ Grounded(t)
  BY MadeFacts DEF Sound, Lawful
<1>1. /\ p \in DOMAIN op /\ i \in {1, 2} /\ t.of[Slot(p, i)] = x
      /\ op[p] \in Operators /\ ~Enclosed(op, p)
  BY OccurrenceFacts
<1>2. ~UnderOperator(t, p) /\ (i = 1 \/ Commutes(op[p]))
  BY <1>0 DEF Extractable, Topmost
<1>x. x \in DOMAIN op /\ op[x] \in {"x1", "x2"}
  BY DEF IsX
<1> HIDE DEF x, p, i
<1>3. SlotOf(t, p) = <<>> /\ t.of[<<>>] = p
  <2>1. t.of[SlotOf(t, p)] = p
    BY <1>1, PlaceFacts
  <2>2. SUFFICES ASSUME SlotOf(t, p) # <<>> PROVE FALSE
    BY <2>1
  <2>3. /\ Parent(t, p) \in DOMAIN op
        /\ op[Parent(t, p)] \in Operators \/ op[Parent(t, p)] = "("
        /\ ~Enclosed(op, Parent(t, p))
    BY <1>1, <2>2, PlaceFacts
  <2>4. op[Parent(t, p)] = "("
    BY <1>0, <1>2, <2>2, <2>3 DEF UnderOperator
  <2>5. Parent(t, p) \in Seq({1, 2})
    BY <2>3 DEF Lawful
  <2>6. QED
    BY <2>3, <2>4, <2>5, PrefixFacts DEF Enclosed
<1>4. /\ other \in {1, 2} /\ Slot(p, other) \in DOMAIN op /\ t.of[Slot(p, other)] \in DOMAIN op
      /\ Slot(p, 1) \in DOMAIN op /\ Slot(p, 2) \in DOMAIN op
  BY <1>0, <1>1 DEF Lawful
<1>5. /\ u.op = op /\ u.of \in [DOMAIN op -> DOMAIN op] /\ u.of[<<>>] = t.of[Slot(p, other)]
      /\ \A q \in DOMAIN op \ {<<>>} : u.of[q] = t.of[q]
      /\ u \in Made(op)
  <2>1. u = [op |-> op, of |-> [t.of EXCEPT ![<<>>] = t.of[Slot(p, other)]]]
    BY <1>0, <1>3
  <2> HIDE DEF u
  <2>2. QED
    BY <1>0, <1>4, <2>1 DEF Made
<1> HIDE DEF u, other
<1>6. \A m \in DOMAIN op, j \in {1, 2} : Slot(m, j) \in DOMAIN op => u.of[Slot(m, j)] = t.of[Slot(m, j)]
  <2>1. \A m \in DOMAIN op : m \in Seq({1, 2})
    BY DEF Lawful
  <2>2. \A m \in DOMAIN op, j \in {1, 2} : Slot(m, j) # <<>>
    BY <2>1, SlotFacts
  <2>3. QED
    BY <1>5, <2>2
<1>7. Grounded(u)
  <2>1. PICK b \in Nat, r \in [DOMAIN t.op -> Nat] : Ranks(r, b, t)
    BY <1>0 DEF Grounded, Ranks
  <2>2. Ranks(r, b, u)
    BY <1>0, <1>5, <1>6, <2>1 DEF Ranks
  <2>3. r \in [DOMAIN u.op -> 0 .. b]
    BY <2>2 DEF Ranks
  <2>4. QED
    BY <2>1, <2>2, <2>3 DEF Grounded
<1>8. PICK v : Valuation(v, t, env)
  BY <1>0, HasValuation
<1>9. v \in [DOMAIN op -> Truths] /\ \A m \in DOMAIN op : v[m] = Due(v, t, env, m)
  BY <1>0, <1>8 DEF Valuation
<1>10. Valuation(v, u, env)
  <2>1. ASSUME NEW m \in DOMAIN op PROVE v[m] = Due(v, u, env, m)
    <3>1. /\ op[m] \in Operators => Slot(m, 1) \in DOMAIN op /\ Slot(m, 2) \in DOMAIN op
          /\ op[m] = "(" => Slot(m, 1) \in DOMAIN op
      BY DEF Lawful
    <3>2. Due(v, u, env, m) = Due(v, t, env, m)
      BY <1>0, <1>5, <1>6, <3>1 DEF Due
    <3>3. QED
      BY <1>9, <3>2
  <2>2. QED
    BY <1>5, <1>9, <2>1 DEF Valuation
<1>11. Value(t, env) = v[p] /\ Value(u, env) = v[t.of[Slot(p, other)]]
  BY <1>0, <1>3, <1>5, <1>7, <1>8, <1>10, ValueIs
<1>12. v[p] = Apply(op[p], v[t.of[Slot(p, 1)]], v[t.of[Slot(p, 2)]])
  BY <1>0, <1>1, <1>9 DEF Due, Operators
<1>13. v[x] = env["x"]
  <2>1. Due(v, t, env, x) = Meaning(op[x], env)
    BY <1>0, <1>x DEF Due, Operators
  <2>2. QED
    BY <1>9, <1>x, <2>1 DEF Meaning
<1>14. v[t.of[Slot(p, 1)]] \in Truths /\ v[t.of[Slot(p, 2)]] \in Truths
  BY <1>0, <1>4, <1>9
<1>15. v[p] = Apply(op[p], env["x"], v[t.of[Slot(p, other)]])
  <2>1. CASE i = 1
    BY <1>1, <1>12, <1>13, <2>1 DEF other
  <2>2. CASE i = 2
    <3>1. Commutes(op[p]) /\ other = 1
      BY <1>2, <2>2 DEF other
    <3>2. v[t.of[Slot(p, 2)]] = env["x"]
      BY <1>1, <1>13, <2>2
    <3>3. Apply(op[p], v[t.of[Slot(p, 1)]], v[t.of[Slot(p, 2)]])
            = Apply(op[p], v[t.of[Slot(p, 2)]], v[t.of[Slot(p, 1)]])
      BY <1>1, <1>14, <3>1, ApplyFacts
    <3>4. QED
      BY <1>12, <3>1, <3>2, <3>3
  <2>3. QED
    BY <1>1, <2>1, <2>2
<1>16. QED
  BY <1>1, <1>11, <1>15 DEF Extracted, u, other, i, p, x

----------------------------------------------------------------------------
(* The invariant: as long as nothing is extracted the pointers are in      *)
(* order and the value is what was written.                                *)
CopyInv ==
  (\A n \in Range(Occurrences) : ~InParens(written, n)) =>
    /\ Lawful(written.op)
    /\ operator = "" => Sound(right, written.op) /\ SameValues(written, right)
    /\ operator # "" => \A env \in Envs :
         Value(written, env) = Apply(operator, env["x"], Value(right, env))

LEMMA StartSound ==
  ASSUME NEW t \in Expressions
  PROVE  Lawful(t.op) /\ Sound(t, t.op)
<1> DEFINE op == t.op
<1>1. Lawful(op) /\ t = [op |-> op, of |-> [p \in DOMAIN op |-> p]] /\ CloserRight(t)
  BY ExpressionFacts DEF Expression
<1> HIDE DEF op
<1>2. t.op = op /\ t.of \in [DOMAIN op -> DOMAIN op] /\ t \in Made(op)
      /\ \A p \in DOMAIN op : t.of[p] = p
  BY <1>1 DEF Made
<1>3. Paired(t)
  BY <1>2 DEF Paired
<1>4. \A m \in DOMAIN op : m \in Seq({1, 2}) /\ Len(m) \in Nat /\ Len(m) <= MaxOperators
  BY <1>1 DEF Lawful
<1>5. Grounded(t)
  <2> DEFINE r == [m \in DOMAIN op |-> MaxOperators - Len(m)]
  <2>1. r \in [DOMAIN op -> 0 .. MaxOperators] /\ \A m \in DOMAIN op : r[m] = MaxOperators - Len(m)
    BY <1>4, CopyElisionAssumption
  <2> HIDE DEF r
  <2>2. ASSUME NEW m \in DOMAIN op, NEW i \in {1, 2}, Slot(m, i) \in DOMAIN op
        PROVE  r[t.of[Slot(m, i)]] < r[m]
    <3>1. Len(Slot(m, i)) = Len(m) + 1
      BY <1>4, SlotFacts
    <3>2. QED
      BY <1>2, <1>4, <2>1, <2>2, <3>1, CopyElisionAssumption
  <2>3. Ranks(r, MaxOperators, t)
    BY <1>2, <2>1, <2>2 DEF Ranks
  <2>4. QED
    BY <1>2, <2>1, <2>3, CopyElisionAssumption DEF Grounded
<1>6. Walled(t)
  <2>1. ASSUME NEW m \in DOMAIN op, NEW i \in {1, 2}, Enclosed(op, m), Slot(m, i) \in DOMAIN op
        PROVE  Enclosed(op, Slot(m, i))
    BY <1>4, <2>1, PrefixFacts DEF Enclosed
  <2>2. QED
    BY <1>2, <2>1 DEF Walled
<1>7. QED
  BY <1>1, <1>2, <1>3, <1>5, <1>6 DEF Sound, op

LEMMA TurnFacts ==
  ASSUME CopyInv, \A n \in Range(Occurrences) : ~InParens(written, n),
         NEW n \in Range(Occurrences), Turn(n)
  PROVE  /\ Lawful(written.op) /\ Sound(right, written.op) /\ SameValues(written, right)
         /\ right.op = written.op
         /\ IsX(written.op, WhereIs(right, n))
         /\ \A t \in Made(written.op) : WhereIs(t, n) = WhereIs(right, n)
<1>1. Lawful(written.op) /\ Sound(right, written.op) /\ SameValues(written, right)
  BY DEF CopyInv, Turn
<1>2. right.op = written.op
  BY <1>1, MadeFacts DEF Sound
<1>3. WhereIs(right, n) \in DOMAIN written.op /\ written.op[WhereIs(right, n)] = n
  BY <1>2 DEF Turn, Occurs, WhereIs
<1>4. n \in {"x1", "x2"}
  BY DEF Range, Occurrences
<1>5. ~Enclosed(written.op, WhereIs(right, n))
  BY <1>3 DEF InParens, Enclosed
<1>6. ASSUME NEW t \in Made(written.op) PROVE WhereIs(t, n) = WhereIs(right, n)
  <2>1. t.op = right.op
    BY <1>2 DEF Made
  <2>2. QED
    BY <2>1 DEF WhereIs
<1>7. QED
  BY <1>1, <1>2, <1>3, <1>4, <1>5, <1>6 DEF IsX

LEMMA ReorderHere ==
  ASSUME CopyInv, \A n \in Range(Occurrences) : ~InParens(written, n),
         NEW n \in Range(Occurrences), Turn(n), UnderOperator(right, WhereIs(right, n))
  PROVE  LET t == Reordered(right, n) IN
         /\ Sound(t, written.op) /\ SameValues(written, t) /\ t.op = written.op
         /\ IsX(written.op, WhereIs(t, n)) /\ t.of[<<>>] # WhereIs(t, n)
<1> DEFINE t == Reordered(right, n)
           x == WhereIs(right, n)
<1>1. /\ Lawful(written.op) /\ Sound(right, written.op) /\ SameValues(written, right)
      /\ IsX(written.op, x) /\ \A u \in Made(written.op) : WhereIs(u, n) = x
  BY TurnFacts
<1>2. right.of[<<>>] # x
  <2>1. \A p \in DOMAIN written.op : right.of[p] = x => p = SlotOf(right, x)
    BY <1>1, PlaceFacts DEF IsX
  <2>2. SlotOf(right, x) # <<>> /\ <<>> \in DOMAIN written.op
    BY <1>1 DEF UnderOperator, Lawful
  <2>3. QED
    BY <2>1, <2>2
<1>3. Sound(t, written.op) /\ SameValues(right, t) /\ t.of[<<>>] = right.of[<<>>]
  BY <1>1, <1>2, ReorderedKeeps
<1> HIDE DEF t, x
<1>4. t \in Made(written.op) /\ t.op = written.op
  BY <1>1, <1>3, MadeFacts DEF Sound
<1>5. SameValues(written, t)
  BY <1>1, <1>3 DEF SameValues
<1>6. QED
  BY <1>1, <1>2, <1>3, <1>4, <1>5 DEF t

(* The pass keeps the value of every assignment to a collection whose      *)
(* right side has x outside of parentheses, however often and wherever it  *)
(* occurs and however many operators there are (lines 643-793).            *)
THEOREM CopiesKept == CopySpec => []CopyKeepsMeaning
<1>1. CopyInit => CopyInv
  <2>1. SUFFICES ASSUME NEW t \in Expressions, CopyStart(t) PROVE CopyInv
    BY DEF CopyInit
  <2>2. Lawful(t.op) /\ Sound(t, t.op) /\ SameValues(t, t)
    BY StartSound DEF SameValues
  <2>3. QED
    BY <2>1, <2>2 DEF CopyStart, CopyInv
<1>2. CopyInv /\ [CopyNext]_copyVars => CopyInv'
  <2>1. SUFFICES ASSUME CopyInv, [CopyNext]_copyVars,
                        (\A n \in Range(Occurrences) : ~InParens(written, n))'
                 PROVE  /\ Lawful(written'.op)
                        /\ operator' = "" => Sound(right', written'.op) /\ SameValues(written', right')
                        /\ operator' # "" => \A env \in Envs :
                             Value(written', env) = Apply(operator', env["x"], Value(right', env))
    BY DEF CopyInv
  <2>2. written' = written
    BY <2>1 DEF CopyNext, PassOver, Reorder, Extract, copyVars
  <2>3. \A n \in Range(Occurrences) : ~InParens(written, n)
    BY <2>1, <2>2
  <2>4. CASE right' = right /\ operator' = operator
    BY <2>1, <2>2, <2>3, <2>4 DEF CopyInv
  <2>5. ASSUME NEW n \in Range(Occurrences), Reorder(n)
        PROVE  /\ Lawful(written'.op)
               /\ operator' = "" => Sound(right', written'.op) /\ SameValues(written', right')
               /\ operator' # "" => \A env \in Envs :
                    Value(written', env) = Apply(operator', env["x"], Value(right', env))
    <3>1. Turn(n) /\ UnderOperator(right, WhereIs(right, n)) /\ right' = Reordered(right, n)
          /\ operator' = operator
      BY <2>5 DEF Reorder
    <3>2. Lawful(written.op) /\ Sound(right', written.op) /\ SameValues(written, right')
      BY <2>1, <2>3, <3>1, TurnFacts, ReorderHere
    <3>3. QED
      BY <2>2, <3>1, <3>2 DEF Turn
  <2>6. ASSUME NEW n \in Range(Occurrences), Extract(n)
        PROVE  /\ Lawful(written'.op)
               /\ operator' = "" => Sound(right', written'.op) /\ SameValues(written', right')
               /\ operator' # "" => \A env \in Envs :
                    Value(written', env) = Apply(operator', env["x"], Value(right', env))
    <3> DEFINE t == Reordered(right, n)
               p == Parent(t, WhereIs(t, n))
    <3>1. /\ Turn(n) /\ UnderOperator(right, WhereIs(right, n)) /\ Extractable(t, n)
          /\ right' = Extracted(t, n)
          /\ operator' = t.op[p]
      BY <2>6 DEF Extract
    <3>2. /\ Lawful(written.op) /\ Sound(t, written.op) /\ SameValues(written, t) /\ t.op = written.op
          /\ IsX(written.op, WhereIs(t, n)) /\ t.of[<<>>] # WhereIs(t, n)
      BY <2>1, <2>3, <3>1, TurnFacts, ReorderHere
    <3> HIDE DEF t
    <3>3. \A env \in Envs : /\ written.op[p] \in Operators
                            /\ Value(t, env) = Apply(written.op[p], env["x"], Value(right', env))
      BY <3>1, <3>2, ExtractKeeps
    <3>4. operator' \in Operators
      BY <3>1, <3>2, OccurrenceFacts
    <3>5. \A env \in Envs : Value(written, env) = Apply(operator', env["x"], Value(right', env))
      BY <3>1, <3>2, <3>3 DEF SameValues
    <3>6. QED
      BY <2>2, <3>2, <3>4, <3>5 DEF Operators
  <2>7. QED
    BY <2>1, <2>4, <2>5, <2>6 DEF CopyNext, PassOver, copyVars
<1>3. CopyInv => CopyKeepsMeaning
  <2>1. SUFFICES ASSUME CopyInv, \A n \in Range(Occurrences) : ~InParens(written, n),
                        NEW env \in Envs
                 PROVE  Value(written, env) =
                          IF operator = "" THEN Value(right, env)
                          ELSE Apply(operator, env["x"], Value(right, env))
    BY DEF CopyKeepsMeaning, Envs, Truths
  <2>2. QED
    BY <2>1 DEF CopyInv, SameValues
<1>4. QED
  BY <1>1, <1>2, <1>3, PTL DEF CopySpec
=============================================================================
