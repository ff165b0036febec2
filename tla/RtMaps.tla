------------------------------- MODULE RtMaps -------------------------------
(***************************************************************************)
(* universe::map over the page table (rtLib/rtLib.cpp, lines 9-321), and   *)
(* the calls of rt_lib::map that reach it (lines 743-931): one thread      *)
(* reads, writes and clears single addresses and ranges.  A granule of     *)
(* 2^shift addresses has one cell, made by the first get().  A map is      *)
(* plain, with one field, or fused of several analyses' maps, with several *)
(* fields; its range calls are the overloads that name the fields.  Beside *)
(* the cells run the values the calls are meant to leave, and the granules *)
(* some call has spoilt.                                                   *)
(***************************************************************************)
EXTENDS Integers

CONSTANTS
  Granules,    \* number of granules
  GranuleSizes,\* addresses per granule: 2^shift for the template parameter shift
  Fields,      \* number of fields of a fused map's cell
  Contents     \* the values of a field

ASSUME RtMapsAssumption ==
  /\ Granules \in Nat \ {0} /\ GranuleSizes \subseteq Nat \ {0} /\ Fields \in Nat \ {0, 1}
  /\ 0 \in Contents /\ Contents \subseteq Nat

VARIABLES
  gran,      \* addresses per granule
  width,     \* fields of a cell
  shadow,    \* the cell of each granule, as far as it was made
  meant,     \* history: what each cell should read
  spoilt     \* history: granules of which that cannot be said

mapVars == <<gran, width, shadow, meant, spoilt>>

Slots == 0 .. Granules - 1
Addresses == 0 .. Granules * gran - 1
FieldIds == 0 .. width - 1
Cells == [FieldIds -> Contents]
Blank == [f \in FieldIds |-> 0]
Absent == <<>>
FieldRuns == {off .. off + n - 1 : off \in FieldIds, n \in 1 .. width} \cap SUBSET FieldIds

KeyOf(a) == a \div gran
Present(m, g) == m[g] # Absent                                         \* find, test
Got(m, g) == IF Present(m, g) THEN m[g] ELSE Blank                     \* what get() finds

UnitsBug(size) == size \div gran    \* the rest of the range is not rounded up
(* Granules a range call visits, counted from the one of its first address *)
Units(size) == (size \div gran) + (IF size % gran = 0 THEN 0 ELSE 1)
Visits(a, size) == {KeyOf(a + i * gran) : i \in 0 .. Units(size) - 1}

SetField(c, run, v) == [f \in DOMAIN c |-> IF f \in run THEN v ELSE c[f]]

(* A range call does the same to every granule it visits, so that neither  *)
(* their order matters nor that one is visited twice.                      *)
Made(m, keys) == [g \in Slots |-> IF g \in keys THEN Got(m, g) ELSE m[g]]
Filled(m, keys, run, v) == [g \in Slots |-> IF g \in keys THEN SetField(Got(m, g), run, v) ELSE m[g]]
Cleared(m, keys, run) ==
  [g \in Slots |-> IF g \in keys /\ Present(m, g) THEN SetField(m[g], run, 0) ELSE m[g]]

(* check_range() goes upwards and stops at the first granule that differs; *)
(* get() has made every granule up to it.                                  *)
Differs(m, g, run, v) == \E f \in run : Got(m, g)[f] # v
Looked(m, keys, run, v) == {g \in keys : \A h \in keys : h < g => ~Differs(m, h, run, v)}
Checks(m, keys, run, v) == \A g \in keys : ~Differs(m, g, run, v)

MapsInit ==
  /\ gran \in GranuleSizes
  /\ width \in {1, Fields}
  /\ shadow = [g \in Slots |-> Absent]
  /\ meant = [g \in Slots |-> Blank]
  /\ spoilt = {}

(* The granules a range covers; a call that starts inside a granule counts *)
(* from its first address and may miss the last one.                       *)
Covered(a, size) == {KeyOf(b) : b \in a .. a + size - 1}
Missed(a, size) == IF a % gran = 0 \/ size = 0 THEN {} ELSE {KeyOf(a + size - 1)}
Intended(keys, run, v) ==
  meant' = [g \in Slots |-> IF g \in keys THEN SetField(meant[g], run, v) ELSE meant[g]]

(* get(k).f = v *)
AssignField(a, run, v) ==
  /\ shadow' = Filled(shadow, {KeyOf(a)}, run, v)
  /\ Intended({KeyOf(a)}, run, v)
  /\ UNCHANGED <<gran, width, spoilt>>

(* The range calls of a fused map, on some of the fields *)
FillRange(a, size, run, v) ==
  /\ shadow' = Filled(shadow, Visits(a, size), run, v)
  /\ Intended(Covered(a, size), run, v)
  /\ spoilt' = spoilt \cup Missed(a, size)
  /\ UNCHANGED <<gran, width>>

ClearRange(a, size, run) ==
  /\ shadow' = Cleared(shadow, Visits(a, size), run)
  /\ Intended(Covered(a, size), run, 0)
  /\ spoilt' = spoilt \cup Missed(a, size)
  /\ UNCHANGED <<gran, width>>

CheckRange(a, size, run, v) ==
  /\ shadow' = Made(shadow, Looked(shadow, Visits(a, size), run, v))
  /\ UNCHANGED <<gran, width, meant, spoilt>>

(* check_range() of a plain map compares every fourth address: `size' is a *)
(* number of ints.                                                         *)
CheckInts(a, n) ==
  /\ a + 4 * (n - 1) \in Addresses
  /\ shadow' = Made(shadow, {KeyOf(a + 4 * i) : i \in 0 .. n - 1})
  /\ UNCHANGED <<gran, width, meant, spoilt>>

(* add_range() of a plain map shifts the key, and get() shifts it again. *)
AddRangeKeys(a, size) == {KeyOf(KeyOf(a) + i * gran) : i \in 0 .. Units(size) - 1}
AddRangePlain(a, size, v) ==
  /\ shadow' = Filled(shadow, AddRangeKeys(a, size), FieldIds, v)
  /\ Intended(Covered(a, size), FieldIds, v)
  /\ spoilt' = IF gran = 1 THEN spoilt \ Covered(a, size)
               ELSE spoilt \cup {g \in Slots : g <= KeyOf(a + size)}
  /\ UNCHANGED <<gran, width>>

(* remove_range() of a plain map stays at its first granule, and writes a  *)
(* value nobody has initialised.                                           *)
RemoveRangePlain(a, size, junk) ==
  /\ shadow' = IF size > 0 /\ Present(shadow, KeyOf(a)) THEN [shadow EXCEPT ![KeyOf(a)] = junk] ELSE shadow
  /\ Intended(Covered(a, size), FieldIds, 0)
  /\ spoilt' = spoilt \cup Covered(a, size)
  /\ UNCHANGED <<gran, width>>

(* cpy_range() and move_range() copy the first granule of the first range, *)
(* if it was made, to that of the second, as often as there are granules.  *)
CopyRangePlain(a, b, size) ==
  /\ size > 0
  /\ shadow' = IF Present(shadow, KeyOf(a)) THEN [shadow EXCEPT ![KeyOf(b)] = shadow[KeyOf(a)]] ELSE shadow
  /\ meant' = [meant EXCEPT ![KeyOf(b)] = meant[KeyOf(a)]]
  /\ spoilt' = (spoilt \ {KeyOf(b)}) \cup (Covered(b, size) \ {KeyOf(b)})
                 \cup {g \in {KeyOf(b)} : KeyOf(a) \in spoilt \/ ~Present(shadow, KeyOf(a))}
  /\ UNCHANGED <<gran, width>>

Within(a, size) == a \in Addresses /\ a + size <= Granules * gran

PlainNext ==
  \/ \E a \in Addresses, n \in 1 .. 2 : CheckInts(a, n)
  \/ \E a \in Addresses, size \in 0 .. 2 * gran : Within(a, size) /\
       \/ \E v \in Contents : AddRangePlain(a, size, v)
       \/ \E junk \in Cells : RemoveRangePlain(a, size, junk)
       \/ \E b \in Addresses : Within(b, size) /\ CopyRangePlain(a, b, size)

FusedNext ==
  \E a \in Addresses, size \in 0 .. 2 * gran, run \in FieldRuns : Within(a, size) /\
    \/ \E v \in Contents : FillRange(a, size, run, v) \/ CheckRange(a, size, run, v)
    \/ ClearRange(a, size, run)

MapsNext ==
  \/ \E a \in Addresses, v \in Contents, run \in FieldRuns : AssignField(a, run, v)
  \/ width = 1 /\ PlainNext
  \/ width > 1 /\ FusedNext

MapsSpec == MapsInit /\ [][MapsNext]_mapVars

----------------------------------------------------------------------------
(* A cell reads what the calls on its granule were meant to leave, whether *)
(* the granule was made before, during or never, until one of the calls    *)
(* that stay at their first key, or start inside a granule, covered it     *)
(* (lines 192-321).                                                        *)
MapsAsMeant == \A g \in Slots \ spoilt : Got(shadow, g) = meant[g]

(* A whole range reads back: check_range() answers for exactly the fields  *)
(* of the granules its range covers, if it starts with one (lines 920-931).*)
RangesReadBack ==
  \A a \in {b \in Addresses : b % gran = 0}, size \in 0 .. 2 * gran :
    Within(a, size) /\ Covered(a, size) \cap spoilt = {} =>
      \A run \in FieldRuns, v \in Contents :
        Checks(shadow, Visits(a, size), run, v)
          <=> \A g \in Covered(a, size) : \A f \in run : meant[g][f] = v

(* Cells read what calls on one address and on ranges have left, and       *)
(* check_range() says so.                                                  *)
MapsReadAsMeant == MapsAsMeant /\ RangesReadBack
=============================================================================
