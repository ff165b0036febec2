----------------------------- MODULE LookupElim -----------------------------
(***************************************************************************)
(* How a handler gets its references and its lock: the generator's last    *)
(* pass looks an expression m[k] up once and keeps a reference if a list   *)
(* of statements uses it more than once, and marks where the pool lock     *)
(* should go (G-parser/generator.h, lines 1039-1344); generate_cpp.py      *)
(* (lines 165-220) turns one of the marks into the lock and one into the   *)
(* unlock.  The handler that results is then run.                          *)
(*                                                                         *)
(* A handler uses expressions of a universe map and of a bottom map, has   *)
(* one synchronised parameter and returns a value or not.                  *)
(***************************************************************************)
EXTENDS Integers, SequencesExt, FiniteSetsExt

CONSTANTS
  OfUniverse, OfBottom,   \* the expressions m[k] of either map
  Doubled,                \* bound: those a statement looks up twice, or a return once
  MaxLength, MaxBranch    \* bounds: statements of a body, and of a branch

ASSUME LookupElimAssumption ==
  /\ OfUniverse \cap OfBottom = {} /\ MaxLength \in Nat /\ MaxBranch \in Nat
  /\ Doubled \subseteq OfUniverse

VARIABLES
  given,      \* the body as it was written
  body,       \* the body as far as the pass has gone
  pending,    \* the maps still to be gone through
  text,       \* the generated handler, once there is one
  at,         \* the next token of it to run
  holding,    \* how often the lock is held
  known       \* expressions whose reference has been declared

elimVars == <<given, body, pending, text, at, holding, known>>

Plain(e) == [of |-> e, byRef |-> FALSE]
Statement(is, seq, yes, no) ==
  [is |-> is, uses |-> [i \in DOMAIN seq |-> Plain(seq[i])], yes |-> yes, no |-> no]
Lists(S, n) == UNION {[1 .. k -> S] : k \in 0 .. n}

Together == {<<e>> : e \in OfUniverse \cup OfBottom} \cup {<<u, u>> : u \in Doubled}
Simple == {Statement("use", s, <<>>, <<>>) : s \in Together}
Returning(s) == Statement("return", s, <<>>, <<>>)
Branches == Lists(Simple, MaxBranch) \cup {<<Returning(<<>>)>>}
Ifs == {Statement("if", s, y, n) : s \in {<<>>} \cup Together, y \in Branches, n \in Lists(Simple, 1)}
Bodies == Lists(Simple, MaxLength) \cup
  UNION {{a \o <<i>> \o b : a \in Lists(Simple, n), b \in Lists(Simple, MaxLength - 1 - n), i \in Ifs} :
           n \in 0 .. MaxLength - 1}

----------------------------------------------------------------------------
(* Lookups of a list, those within its branches included *)
RECURSIVE Lookups(_)
Lookups(list) ==
  LET own(s) == IF s.is \in {"use", "if", "return"}
                  THEN SelectSeq(s.uses, LAMBDA u : ~u.byRef) ELSE <<>>
  IN  FoldLeft(LAMBDA acc, s : acc \o own(s) \o Lookups(s.yes) \o Lookups(s.no), <<>>, list)
Times(list, e) == Len(SelectSeq(Lookups(list), LAMBDA u : u.of = e))

RECURSIVE WithRef(_, _)
WithRef(list, e) ==
  [i \in DOMAIN list |->
    [list[i] EXCEPT !.uses = [j \in DOMAIN @ |-> IF @[j].of = e THEN [@[j] EXCEPT !.byRef = TRUE] ELSE @[j]],
                    !.yes = WithRef(@, e), !.no = WithRef(@, e)]]

(* find_map_lookup_inside_expr: what a statement itself looks up in map m *)
Found(s, m) == SelectSeq(Lookups(<<[s EXCEPT !.yes = <<>>, !.no = <<>>]>>), LAMBDA u : u.of \in m)
FirstWithBug(list, m) ==     \* the search does not stop at the first
  SelectLastInSeq(list, LAMBDA s : Found(s, m) # <<>>)
FirstWith(list, m) == SelectInSeq(list, LAMBDA s : Found(s, m) # <<>>)
TargetOf(list, m) == Found(list[FirstWith(list, m)], m)[1].of

(* The first statement that looks the map up decides: its expression is    *)
(* replaced if it comes again from there on, or nothing is.                *)
Replaces(list, m) ==
  /\ FirstWith(list, m) > 0
  /\ Times(SubSeq(list, FirstWith(list, m), Len(list)), TargetOf(list, m)) > 1

Declare(e) == Statement("refer", <<e>>, <<>>, <<>>)
Unmark == Statement("unmark", <<>>, <<>>, <<>>)

(* recursive_map_lookup_elimination: the branches passed on the way to the *)
(* target are dealt with first.                                            *)
RECURSIVE Eliminated(_, _)
Eliminated(list, m) ==
  LET k == FirstWith(list, m)
      passed == [i \in DOMAIN list |->
        IF k > 0 /\ i >= k THEN list[i]
        ELSE [list[i] EXCEPT !.yes = Eliminated(@, m), !.no = Eliminated(@, m)]]
  IN  IF Replaces(list, m)
        THEN Append(InsertAt(WithRef(passed, TargetOf(list, m)), k, Declare(TargetOf(list, m))), Unmark)
        ELSE passed

----------------------------------------------------------------------------
(* The handler as text: a sequence of tokens.  The declaration of a        *)
(* universe reference stands before its mark, that of a bottom one after.  *)
Token(do, of, byRef) == [do |-> do, of |-> of, byRef |-> byRef]
Word(do) == Token(do, "", FALSE)
UseTokens(s) == [i \in DOMAIN s.uses |-> Token("use", s.uses[i].of, s.uses[i].byRef)]

RECURSIVE TextOf(_)
TextOf(list) ==
  LET declared(s) == Token("refer", s.uses[1].of, FALSE)
      tokens(s) ==
        CASE s.is = "use" -> UseTokens(s)
          [] s.is = "if" -> UseTokens(s) \o <<Word("if")>> \o TextOf(s.yes)
                              \o <<Word("else")>> \o TextOf(s.no) \o <<Word("fi")>>
          [] s.is = "return" -> <<Word("return")>> \o UseTokens(s) \o <<Word("leave")>>
          [] s.is = "refer" -> IF s.uses[1].of \in OfUniverse THEN <<declared(s), Word("mark,")>>
                               ELSE <<Word(",mark"), declared(s)>>
          [] s.is = "unmark" -> <<Word("unmark")>>
  IN  FoldLeft(LAMBDA acc, s : acc \o tokens(s), <<>>, list)

PlacesOf(t, do) == {k \in DOMAIN t : t[k].do = do}
Kept(t) == SelectSeq(t, LAMBDA w : w.do \notin {"mark,", ",mark", "unmark"})

LockedBug(t) ==              \* every mark becomes a lock
  IF PlacesOf(t, "mark,") \cup PlacesOf(t, ",mark") = {} THEN <<Word("lock")>> \o t
  ELSE [k \in DOMAIN t |-> IF t[k].do \in {"mark,", ",mark"} THEN Word("lock") ELSE t[k]]

(* The first mark behind a universe reference becomes the lock, if there   *)
(* is none the first before a bottom one; else it precedes the body.       *)
Locked(t) ==
  IF PlacesOf(t, "mark,") # {} THEN [t EXCEPT ![Min(PlacesOf(t, "mark,"))] = Word("lock")]
  ELSE IF PlacesOf(t, ",mark") # {} THEN [t EXCEPT ![Min(PlacesOf(t, ",mark"))] = Word("lock")]
  ELSE <<Word("lock")>> \o t

(* The last of the other marks becomes the unlock of a void handler, or it *)
(* follows the body; any other unlocks before its first return.            *)
Unlocked(t) ==
  IF PlacesOf(t, "return") # {} THEN InsertAt(t, Min(PlacesOf(t, "return")), Word("unlock"))
  ELSE IF PlacesOf(t, "unmark") # {} THEN [t EXCEPT ![Max(PlacesOf(t, "unmark"))] = Word("unlock")]
  ELSE Append(t, Word("unlock"))

Generated(b) == Kept(Unlocked(Locked(TextOf(b))))

----------------------------------------------------------------------------
HasReturn(b) == PlacesOf(TextOf(b), "return") # {}
HandlerBodies ==
  {b \in Bodies \cup {Append(c, Returning(s)) : c \in Bodies, s \in {<<>>} \cup {<<u>> : u \in Doubled}} :
    HasReturn(b) => Last(b).is = "return"}

ElimStart(b) ==
  /\ given = b /\ body = b
  /\ pending = <<OfUniverse, OfBottom>>
  /\ text = <<>> /\ at = 1 /\ holding = 0 /\ known = {}
ElimInit == \E b \in HandlerBodies : ElimStart(b)

(* map_lookup_elimination: again for the same map until nothing is found *)
Eliminate ==
  /\ pending # <<>>
  /\ body' = Eliminated(body, Head(pending))
  /\ pending' = IF Replaces(body, Head(pending)) THEN pending ELSE Tail(pending)
  /\ UNCHANGED <<given, text, at, holding, known>>

Generate ==
  /\ pending = <<>> /\ text = <<>>
  /\ text' = Generated(body)
  /\ UNCHANGED <<given, body, pending, at, holding, known>>

(* The run of the handler *)
Closes(k, j) ==              \* the end, or the other branch, of the if at k
  /\ j > k /\ text[j].do \in {"else", "fi"}
  /\ Cardinality({i \in k + 1 .. j - 1 : text[i].do = "if"})
       = Cardinality({i \in k + 1 .. j - 1 : text[i].do = "fi"})
JumpFrom(k) == 1 + Min({j \in DOMAIN text : Closes(k, j)})

Goes(k) == at' = k /\ UNCHANGED <<given, body, pending, text>>
Running == at <= Len(text)

Step ==
  /\ Running /\ text[at].do \in {"use", "refer", "lock", "unlock", "fi", "return", "if"}
  /\ Goes(at + 1)
  /\ holding' = holding + (IF text[at].do = "lock" THEN 1 ELSE IF text[at].do = "unlock" THEN -1 ELSE 0)
  /\ known' = IF text[at].do = "refer" THEN known \cup {text[at].of} ELSE known

Jump ==                      \* a condition is false, or a branch has ended
  /\ Running /\ text[at].do \in {"if", "else"}
  /\ Goes(JumpFrom(at))
  /\ UNCHANGED <<holding, known>>

Leave ==
  /\ Running /\ text[at].do = "leave"
  /\ Goes(Len(text) + 1)
  /\ UNCHANGED <<holding, known>>

ElimNext == Eliminate \/ Generate \/ Step \/ Jump \/ Leave

ElimSpec == ElimInit /\ [][ElimNext]_elimVars

----------------------------------------------------------------------------
(* Bodies for which the pass was written: what is looked up more than once *)
(* is first met outside the branches.  An early return has no unlock.      *)
Regular ==
  /\ \A e \in OfUniverse \cup OfBottom : Times(given, e) > 1 =>
       \E k \in DOMAIN given : /\ Found(given[k], {e}) # <<>>
                               /\ Times(SubSeq(given, 1, k - 1), e) = 0
  /\ Cardinality(PlacesOf(TextOf(given), "return")) <= 1

(* On every path through a handler the lock is taken once and released     *)
(* once, wherever the maps' marks stand, and before the handler is left    *)
(* (generate_cpp.py, lines 170-214): only bodies the pass was not written  *)
(* for go wrong.                                                           *)
Paired ==
  /\ holding \in {0, 1}
  /\ text # <<>> /\ ~Running => holding = 0
LockPaired == ~Paired => ~Regular

(* A reference is declared where it is used; and one into a universe map   *)
(* is used with the lock held, as is everything in a handler without       *)
(* references.  A return's expression is evaluated after the unlock.       *)
InReturn == \E k \in PlacesOf(text, "return") : k < at
Guarded(token) ==
  /\ token.byRef => token.of \in known
  /\ \/ InReturn
     \/ holding = 1
     \/ ~token.byRef /\ PlacesOf(text, "refer") # {}
     \/ token.byRef /\ token.of \in OfBottom
RefsCovered ==
  Running /\ text[at].do = "use" /\ ~Guarded(text[at]) => ~Regular
=============================================================================
