------------------------------ MODULE MapFusion ------------------------------
(***************************************************************************)
(* The generator's second pass (G-parser/generator.h, lines 823-1037):     *)
(* maps of one scope that are declared with the same key become one map    *)
(* whose values are objects of a class with a field for each of them; the  *)
(* handlers' lookups and range calls are redirected.                       *)
(*                                                                         *)
(* A definition is [name, own, type]: `own' is the name its type carries,  *)
(* which a map that is the value of another has not.  The fields of a      *)
(* class and the value of a map are sequences of [name, type].             *)
(***************************************************************************)
EXTENDS Integers, SequencesExt, FiniteSetsExt

CONSTANTS
  KeyNames,      \* the names given to types of keys, all of one C type
  ValueNames,    \* the names given to element types of values, likewise
  InnerNames,    \* bound: those of them a map within a map may have
  MaxMaps        \* bound: maps an analysis declares

ASSUME MapFusionAssumption == MaxMaps \in 1 .. 4 /\ KeyNames # {} /\ InnerNames \subseteq ValueNames

VARIABLES
  declared,      \* the maps of the analysis
  unresolved,    \* groups of them still to be gone through
  definitions,         \* the definitions that replace them, so far
  sequence,      \* number of fused maps
  uses,          \* the handlers' uses of every map: <<map, form>> -> expression
  renaming       \* of definitions: the handlers are still to be gone through for them

fusionVars == <<declared, unresolved, definitions, sequence, uses, renaming>>

Scopes == {"universe", "bottom"}
NoType == [is |-> "none", scope |-> "", key |-> "", of |-> <<>>]
Element(e) == [is |-> "element", scope |-> "", key |-> e, of |-> <<>>]
SetOfLids == [is |-> "set", scope |-> "bottom", key |-> "", of |-> <<>>]
MapTo(s, k, t) == [is |-> "map", scope |-> s, key |-> k, of |-> <<[name |-> "", type |-> t]>>]
Class(fields) == [is |-> "class", scope |-> "", key |-> "", of |-> fields]
Definition(name, own, type) == [name |-> name, own |-> own, type |-> type]

IsMap(t) == t.is = "map"
ValueOf(d) == d.type.of[1].type
IsFused(d) == IsMap(d.type) /\ ValueOf(d).is = "class"

(* Type::operator==: element types, and keys, by their C type, which is    *)
(* one; a map equals one of a class that has a field like its value.       *)
RECURSIVE Same(_, _)
Same(a, b) ==
  LET v == a.of[1].type  w == b.of[1].type
      among(t, c) == c.is = "class" /\ \E i \in DOMAIN c.of : Same(c.of[i].type, t)
  IN  /\ a.is = b.is /\ a.is # "none"
      /\ IsMap(a) => a.scope = b.scope /\ (Same(v, w) \/ among(w, v) \/ among(v, w))

----------------------------------------------------------------------------
(* An expression: the name it starts with, what is applied to it, and what *)
(* the pass adds to the arguments of a call.  A field without a name is    *)
(* what the pass leaves when it finds none.                                *)
Lookup == [do |-> "[]", field |-> ""]
Dot(f) == [do |-> ".", field |-> f]
Call == [do |-> "_range", field |-> ""]
AsWritten(root, links) == [root |-> root, links |-> links, offset |-> <<>>]

Forms(d) == {<<Lookup>>, <<Call>>} \cup (IF IsMap(ValueOf(d)) THEN {<<Lookup, Lookup>>} ELSE {})
UsesOf(maps) == UNION {{<<d, f>> : f \in Forms(d)} : d \in Range(maps)}

(* resolve_type of the first n links: the context knows the declared maps, *)
(* and no class among their types.                                         *)
RECURSIVE TypeAt(_, _)
TypeAt(u, n) ==
  IF n = 0 THEN LET k == SelectInSeq(declared, LAMBDA d : d.name = u.root)
                IN  IF k = 0 THEN NoType ELSE declared[k].type
  ELSE LET t == TypeAt(u, n - 1) IN
       CASE u.links[n] = Lookup /\ IsMap(t) -> t.of[1].type
         [] u.links[n] = Dot("") -> t
         [] OTHER -> NoType
Downwards(n) == [i \in 1 .. n + 1 |-> n + 1 - i]

(* do_ast_replacement, in one expression: what has the type of a fused     *)
(* map's value and starts with its name gets the field named as its type.  *)
FieldFor(d, fields) ==
  IF \E i \in DOMAIN fields : fields[i].name = d.own /\ Same(fields[i].type, ValueOf(d))
    THEN Dot(d.own) ELSE Dot("")
Redirected(u, group, fields) ==
  LET fits(n) == {i \in DOMAIN group : group[i].name = u.root /\ Same(TypeAt(u, n), ValueOf(group[i]))}
  IN  FoldLeft(LAMBDA acc, n :
        IF fits(n) = {} THEN acc
        ELSE [acc EXCEPT !.links = InsertAt(@, n + 1, FieldFor(group[Min(fits(n))], fields))],
      u, Downwards(Len(u.links)))

----------------------------------------------------------------------------
(* Which definitions are fused: those of a scope and a key's name. *)
JoinsBug(d, e) == IsMap(d.type) /\ IsMap(e.type) /\ d.type.key = e.type.key   \* whatever their scopes
Joins(d, e) == IsMap(d.type) /\ IsMap(e.type) /\ d.type.scope = e.type.scope /\ d.type.key = e.type.key
Placed(groups, d) ==
  LET k == SelectInSeq(groups, LAMBDA v : Joins(v[1], d))
  IN  IF k = 0 THEN Append(groups, <<d>>) ELSE [groups EXCEPT ![k] = Append(@, d)]
Grouped(defs) == FoldLeft(Placed, <<>>, defs)

(* The fields: a value that is no map is named after the first map of the  *)
(* group that has this type of value and gave no field its name yet.       *)
Named(group) ==
  LET plain == SelectSeq(group, LAMBDA d : ~IsMap(ValueOf(d)))
      taken(fields, d) == \E i \in DOMAIN fields : fields[i].name = d.name
      first(fields, t) == group[SelectInSeq(group, LAMBDA d : ValueOf(d) = t /\ ~taken(fields, d))].name
  IN  FoldLeft(LAMBDA fields, d :
        Append(fields, [name |-> first(fields, ValueOf(d)), type |-> ValueOf(d)]), <<>>, plain)
Inner(group) ==
  LET maps == SelectSeq(group, LAMBDA d : IsMap(ValueOf(d)))
  IN  [i \in DOMAIN maps |-> Definition(maps[i].name, "", ValueOf(maps[i]))]
AsFields(defs) == [i \in DOMAIN defs |-> [name |-> defs[i].name, type |-> defs[i].type]]

(* recursive_resolve_map_fusion, for one group after the other; `s' holds  *)
(* the definitions it returns, the sequence number and the handlers' uses. *)
RECURSIVE Resolved(_, _)
Resolved(group, s) ==
  IF Len(group) = 1 THEN [s EXCEPT !.defs = Append(@, group[1])]
  ELSE LET r == FoldLeft(LAMBDA acc, g : Resolved(g, acc), [s EXCEPT !.defs = <<>>], Grouped(Inner(group)))
           fields == Named(group) \o AsFields(r.defs)
           name == "mapfusion_" \o ToString(r.seq + 1)
           type == MapTo(Last(group).type.scope, Last(group).type.key, Class(fields))
       IN  [defs |-> Append(s.defs, Definition(name, name, type)),
            seq |-> r.seq + 1,
            uses |-> [x \in DOMAIN r.uses |-> Redirected(r.uses[x], group, fields)]]

(* map_fusion renames what is like a fused map in type, and tells a range  *)
(* call on one the place of the field in its objects.                      *)
Renamed(u, d) ==
  FoldLeft(LAMBDA acc, n :
      IF ~Same(TypeAt(acc, n), d.type) THEN acc
      ELSE [acc EXCEPT !.root = d.name,
                       !.offset = IF acc.links[1] = Call THEN Append(@, <<d.name, acc.root>>) ELSE @],
    u, Downwards(Len(u.links)))

----------------------------------------------------------------------------
ValueTypes == {Element(e) : e \in ValueNames} \cup {SetOfLids} \cup
          {MapTo("bottom", k, Element(e)) : k \in KeyNames, e \in InnerNames}
MapNames == <<"A", "B", "C", "D">>
Declarations ==
  UNION {{[i \in 1 .. n |-> Definition(MapNames[i], MapNames[i], t[i])] :
            t \in [1 .. n -> {MapTo(s, k, v) : s \in Scopes, k \in KeyNames, v \in ValueTypes}]} : n \in 1 .. MaxMaps}

FusionStart(maps) ==
  /\ declared = maps
  /\ unresolved = Grouped(maps)
  /\ definitions = <<>> /\ sequence = 0 /\ renaming = <<>>
  /\ uses = [x \in UsesOf(maps) |-> AsWritten(x[1].name, x[2])]
FusionInit == \E maps \in Declarations : FusionStart(maps)

Resolve ==
  /\ unresolved # <<>>
  /\ LET s == Resolved(Head(unresolved), [defs |-> definitions, seq |-> sequence, uses |-> uses]) IN
     definitions' = s.defs /\ sequence' = s.seq /\ uses' = s.uses
  /\ unresolved' = Tail(unresolved)
  /\ renaming' = IF Len(unresolved) = 1 THEN SelectSeq(definitions', IsFused) ELSE <<>>
  /\ UNCHANGED declared

Rename ==
  /\ renaming # <<>>
  /\ uses' = [x \in DOMAIN uses |-> Renamed(uses[x], Head(renaming))]
  /\ renaming' = Tail(renaming)
  /\ UNCHANGED <<declared, unresolved, definitions, sequence>>

FusionNext == Resolve \/ Rename

FusionSpec == FusionInit /\ [][FusionNext]_fusionVars

----------------------------------------------------------------------------
(* Analyses the pass is fit for.  Two inner maps of a group are not fused  *)
(* with each other: the pass finds no field for their lookups, and the     *)
(* generated code does not compile.  And no other map, nor a map's value,  *)
(* is taken for a fused map because it has a value like one of the fields. *)
Nested == \E g \in Range(Grouped(declared)) : \E v \in Range(Grouped(Inner(g))) : Len(v) > 1
Mistaken ==
  \E f \in Range(definitions), d \in Range(declared) :
    /\ IsFused(f)
    /\ \/ Same(d.type, f.type) /\ d.type.key # f.type.key
       \/ IsMap(ValueOf(d)) /\ Same(ValueOf(d), f.type)
Fit == ~Nested /\ ~Mistaken

(* The cell that a use of map d means in the generated code: the map, and  *)
(* the field of its object.                                                *)
CellOf(d, form) ==
  LET u == uses[<<d, form>>]
      f == definitions[SelectInSeq(definitions, LAMBDA e : e.name = u.root)]
  IN  IF ~IsFused(f) THEN <<u.root, "">>
      ELSE IF form = <<Call>> THEN u.offset[1]
      ELSE <<u.root, u.links[2].field>>

(* The pass moves every map to a place of its own: a use means a map of    *)
(* the same scope and key and, in it, a field of the same type of value;   *)
(* all uses of one map mean one cell, and no two maps share one            *)
(* (generator.h, lines 875-1037).                                          *)
FusionKeepsCells ==
  unresolved = <<>> /\ renaming = <<>> /\ Fit =>
    /\ \A x \in DOMAIN uses :
         \E f \in Range(definitions) :
           /\ f.name = uses[x].root
           /\ f.type.scope = x[1].type.scope /\ f.type.key = x[1].type.key
           /\ IF IsFused(f)
                THEN [name |-> CellOf(x[1], x[2])[2], type |-> ValueOf(x[1])] \in Range(ValueOf(f).of)
                ELSE f = x[1] /\ uses[x].links = x[2]
    /\ \A x, y \in DOMAIN uses : CellOf(x[1], x[2]) = CellOf(y[1], y[2]) <=> x[1] = y[1]
=============================================================================
