------------------------- MODULE UniverseMapProofs -------------------------
(***************************************************************************)
(* Theorems about universe::map: over the page table (RtMaps), for any     *)
(* number of granules, every size of them and every number of fields, and  *)
(* over the linear shadow (OffsetMap), for blocks of any size.             *)
(*                                                                         *)
(* Both cut an address down to its granule with a division; the first part *)
(* says what is needed of that.                                            *)
(***************************************************************************)
EXTENDS RtMaps, OffsetMap, TLAPS

(* a belongs to the g numbers from g * (a \div g) on. *)
LEMMA DivBounds ==
  ASSUME NEW g \in Nat \ {0}, NEW a \in Nat
  PROVE  /\ a \div g \in Nat
         /\ g * (a \div g) <= a /\ a < g * ((a \div g) + 1)
         /\ a % g = a - g * (a \div g)
<1>1. /\ a \div g \in Nat /\ a % g \in 0 .. g - 1
      /\ a = g * (a \div g) + (a % g)
  OBVIOUS
<1>2. g * ((a \div g) + 1) = g * (a \div g) + g
  BY <1>1
<1>3. QED
  BY <1>1, <1>2

LEMMA TimesMonotone ==
  ASSUME NEW n \in Nat, NEW x \in Int, NEW y \in Int, x <= y
  PROVE  n * x <= n * y
<1>1. n * (y - x) >= 0
  OBVIOUS
<1>2. n * (y - x) = n * y - n * x
  OBVIOUS
<1>3. QED
  BY <1>1, <1>2

LEMMA DivAtLeast ==
  ASSUME NEW g \in Nat \ {0}, NEW a \in Nat, NEW k \in Int, g * k <= a
  PROVE  k <= a \div g
<1> DEFINE q == a \div g
<1>0. q \in Nat /\ a < g * (q + 1)
  BY DivBounds
<1> HIDE DEF q
<1>1. SUFFICES ASSUME q + 1 <= k PROVE FALSE
  BY <1>0 DEF q
<1>2. g * (q + 1) <= g * k
  BY <1>0, <1>1, TimesMonotone
<1>3. g * (q + 1) \in Int /\ g * k \in Int
  BY <1>0
<1>4. QED
  BY <1>0, <1>2, <1>3

LEMMA DivBelow ==
  ASSUME NEW g \in Nat \ {0}, NEW a \in Nat, NEW k \in Int, a < g * k
  PROVE  a \div g < k
<1> DEFINE q == a \div g
<1>0. q \in Nat /\ g * q <= a
  BY DivBounds
<1> HIDE DEF q
<1>1. SUFFICES ASSUME k <= q PROVE FALSE
  BY <1>0 DEF q
<1>2. g * k <= g * q
  BY <1>0, <1>1, TimesMonotone
<1>3. g * q \in Int /\ g * k \in Int
  BY <1>0
<1>4. QED
  BY <1>0, <1>2, <1>3

LEMMA DivMonotone ==
  ASSUME NEW g \in Nat \ {0}, NEW a \in Nat, NEW b \in Nat, a <= b
  PROVE  a \div g <= b \div g
<1> DEFINE q == a \div g
<1>1. q \in Nat /\ g * q \in Int /\ g * q <= a
  BY DivBounds
<1> HIDE DEF q
<1>2. q <= b \div g
  BY <1>1, DivAtLeast
<1>3. QED
  BY <1>2 DEF q

(* i granules further on *)
LEMMA DivShift ==
  ASSUME NEW g \in Nat \ {0}, NEW a \in Nat, NEW i \in Nat
  PROVE  /\ i * g \in Nat
         /\ (a + i * g) \div g = (a \div g) + i
<1> DEFINE k == a \div g
           b == a + i * g
<1>0. k \in Nat /\ g * k <= a /\ a < g * (k + 1)
  BY DivBounds
<1> HIDE DEF k
<1>1. i * g \in Nat /\ b \in Nat
  OBVIOUS
<1>2. g * (k + i) = g * k + i * g
  BY <1>0
<1>3. g * (k + i + 1) = g * (k + 1) + i * g
  BY <1>0
<1>4. g * (k + i) <= b
  BY <1>0, <1>1, <1>2
<1>5. b < g * (k + i + 1)
  BY <1>0, <1>1, <1>3
<1> HIDE DEF b
<1>6. k + i <= b \div g
  BY <1>4, <1>1, <1>0, DivAtLeast
<1>7. b \div g < k + i + 1
  BY <1>5, <1>1, <1>0, DivBelow
<1>8. b \div g \in Nat
  BY <1>1, DivBounds
<1>9. QED
  BY <1>0, <1>1, <1>6, <1>7, <1>8 DEF k, b

----------------------------------------------------------------------------
(* RtMaps: the granules a range call visits and those its range covers *)

LEMMA KeyBounds ==
  ASSUME gran \in Nat \ {0}, NEW a \in Nat
  PROVE  /\ KeyOf(a) \in Nat
         /\ gran * KeyOf(a) <= a /\ a < gran * (KeyOf(a) + 1)
         /\ a % gran = a - gran * KeyOf(a)
BY DivBounds DEF KeyOf

LEMMA KeyBelow ==
  ASSUME gran \in Nat \ {0}, NEW a \in Nat, NEW k \in Int, a < gran * k
  PROVE  KeyOf(a) < k
BY DivBelow DEF KeyOf

LEMMA KeyMonotone ==
  ASSUME gran \in Nat \ {0}, NEW a \in Nat, NEW b \in Nat, a <= b
  PROVE  KeyOf(a) <= KeyOf(b)
BY DivMonotone DEF KeyOf

LEMMA KeyShift ==
  ASSUME gran \in Nat \ {0}, NEW a \in Nat, NEW i \in Nat
  PROVE  i * gran \in Nat /\ KeyOf(a + i * gran) = KeyOf(a) + i
BY DivShift DEF KeyOf

(* The loop of a range call takes as many steps of gran addresses as the   *)
(* range has begun.                                                        *)
LEMMA UnitBounds ==
  ASSUME gran \in Nat \ {0}, NEW size \in Nat
  PROVE  /\ Units(size) \in Nat
         /\ size <= gran * Units(size)
         /\ gran * Units(size) < size + gran
<1> DEFINE p == size \div gran
           s == size % gran
<1>1. p \in Nat /\ s \in 0 .. gran - 1 /\ size = gran * p + s
  OBVIOUS
<1>2. Units(size) = p + (IF s = 0 THEN 0 ELSE 1)
  BY DEF Units
<1> HIDE DEF p, s
<1>3. gran * (p + 1) = gran * p + gran
  BY <1>1
<1>4. CASE s = 0
  <2>1. Units(size) = p
    BY <1>1, <1>2, <1>4
  <2>2. QED
    BY <2>1, <1>1, <1>4
<1>5. CASE s # 0
  <2>1. Units(size) = p + 1
    BY <1>1, <1>2, <1>5
  <2>2. QED
    BY <2>1, <1>1, <1>3, <1>5
<1>6. QED
  BY <1>4, <1>5

(* The granules visited are granules of the range. *)
LEMMA VisitsCovered ==
  ASSUME gran \in Nat \ {0}, NEW a \in Nat, NEW size \in Nat
  PROVE  Visits(a, size) \subseteq Covered(a, size)
<1>1. SUFFICES ASSUME NEW i \in 0 .. Units(size) - 1 PROVE KeyOf(a + i * gran) \in Covered(a, size)
  BY DEF Visits
<1>2. Units(size) \in Nat /\ gran * Units(size) < size + gran
  BY UnitBounds
<1>3. i \in Nat /\ i * gran \in Nat
  BY <1>2
<1>4. gran * (i + 1) <= gran * Units(size)
  BY <1>2, TimesMonotone
<1>5. gran * (i + 1) = i * gran + gran /\ gran * Units(size) \in Nat
  BY <1>2
<1>6. i * gran < size
  BY <1>2, <1>3, <1>4, <1>5
<1>7. a + i * gran \in a .. a + size - 1
  BY <1>3, <1>6
<1>8. QED
  BY <1>7 DEF Covered

(* A range that starts with a granule is visited as a whole, and of        *)
(* another range all but, perhaps, the last granule.                       *)
LEMMA CoveredVisits ==
  ASSUME gran \in Nat \ {0}, NEW a \in Nat, NEW size \in Nat
  PROVE  Covered(a, size) \subseteq Visits(a, size) \cup Missed(a, size)
<1>1. SUFFICES ASSUME NEW b \in a .. a + size - 1
               PROVE  KeyOf(b) \in Visits(a, size) \cup Missed(a, size)
  BY DEF Covered
<1> DEFINE q == KeyOf(a)
           U == Units(size)
           e == a + size - 1
<1>2. U \in Nat /\ size <= gran * U
  BY UnitBounds
<1>3. /\ q \in Nat /\ gran * q <= a /\ a < gran * (q + 1)
      /\ a % gran = a - gran * q
  BY KeyBounds
<1>4. b \in Nat /\ e \in Nat /\ a <= b /\ b <= e /\ size # 0
  OBVIOUS
<1>5. KeyOf(b) \in Nat /\ KeyOf(e) \in Nat
  BY <1>4, KeyBounds
<1>6. q <= KeyOf(b) /\ KeyOf(b) <= KeyOf(e)
  <2> HIDE DEF e
  <2>1. QED
    BY <1>4, KeyMonotone
<1> HIDE DEF q, U
<1>7. CASE KeyOf(b) < q + U
  <2> DEFINE i == KeyOf(b) - q
  <2>1. i \in 0 .. U - 1
    BY <1>2, <1>3, <1>5, <1>6, <1>7
  <2>2. i \in Nat /\ q + i = KeyOf(b)
    BY <2>1, <1>3, <1>5
  <2> HIDE DEF i
  <2>3. KeyOf(a + i * gran) = KeyOf(b)
    BY <2>2, KeyShift DEF q
  <2>4. QED
    BY <2>1, <2>3 DEF Visits, U
<1>8. CASE KeyOf(b) >= q + U
  <2>1. gran * (q + U) = gran * q + gran * U /\ gran * (q + 1 + U) = gran * (q + 1) + gran * U
    BY <1>2, <1>3
  <2>2. /\ gran * q \in Nat /\ gran * U \in Nat /\ gran * (q + 1) \in Nat
    BY <1>2, <1>3
  <2>3. e < gran * (q + 1 + U)
    BY <2>1, <2>2, <1>2, <1>3
  <2>4. KeyOf(e) < q + 1 + U
    BY <2>3, <1>2, <1>3, <1>4, KeyBelow
  <2>5. KeyOf(b) = KeyOf(e)
    BY <2>4, <1>8, <1>2, <1>3, <1>5, <1>6
  <2>6. ASSUME a % gran = 0 PROVE FALSE
    <3>1. e < gran * (q + U)
      BY <2>6, <2>1, <2>2, <1>2, <1>3
    <3>2. KeyOf(e) < q + U
      BY <3>1, <1>2, <1>3, <1>4, KeyBelow
    <3>3. QED
      BY <3>2, <2>5, <1>8, <1>2, <1>3, <1>5
  <2>7. Missed(a, size) = {KeyOf(e)}
    BY <2>6, <1>4 DEF Missed
  <2>8. QED
    BY <2>5, <2>7
<1>9. QED
  BY <1>7, <1>8, <1>2, <1>3, <1>5

(* The granules of addresses are granules of the map. *)
LEMMA KeysInSlots ==
  ASSUME gran \in Nat \ {0}, NEW a \in Addresses
  PROVE  a \in Nat /\ KeyOf(a) \in Slots
<1>1. Granules \in Nat /\ Granules * gran \in Nat /\ Granules * gran = gran * Granules
  BY RtMapsAssumption
<1>2. a \in Nat /\ a < gran * Granules
  BY <1>1 DEF Addresses
<1>3. KeyOf(a) < Granules /\ KeyOf(a) \in Nat
  BY <1>1, <1>2, KeyBelow, KeyBounds
<1>4. QED
  BY <1>1, <1>2, <1>3 DEF Slots

LEMMA CoveredInSlots ==
  ASSUME gran \in Nat \ {0}, NEW a, NEW size \in Nat, Within(a, size)
  PROVE  /\ a \in Nat
         /\ Covered(a, size) \subseteq Slots /\ Missed(a, size) \subseteq Covered(a, size)
<1>1. Granules * gran \in Nat /\ a \in Nat /\ a + size <= Granules * gran
  BY RtMapsAssumption DEF Within, Addresses
<1>2. \A b \in a .. a + size - 1 : b \in Addresses
  BY <1>1 DEF Addresses
<1>3. size # 0 => a + size - 1 \in a .. a + size - 1
  BY <1>1
<1>4. QED
  BY <1>1, <1>2, <1>3, KeysInSlots DEF Covered, Missed

----------------------------------------------------------------------------
(* What the granules read after the calls *)

MapsTypeOK ==
  /\ gran \in GranuleSizes /\ width \in {1, Fields}
  /\ shadow \in [Slots -> Cells \cup {Absent}]
  /\ meant \in [Slots -> Cells]
  /\ spoilt \subseteq Slots

MapsInv == MapsTypeOK /\ MapsAsMeant

LEMMA SizesPositive ==
  ASSUME MapsTypeOK
  PROVE  /\ gran \in Nat \ {0} /\ width \in Nat \ {0}
         /\ 0 \in FieldIds
BY RtMapsAssumption DEF MapsTypeOK, FieldIds

(* A cell is not what is found where none was made. *)
LEMMA CellsPresent ==
  ASSUME width \in Nat \ {0}, NEW c \in Cells
  PROVE  c # Absent
<1>1. DOMAIN c = FieldIds /\ 0 \in FieldIds
  BY DEF Cells, FieldIds
<1>2. DOMAIN Absent = {}
  BY DEF Absent
<1>3. QED
  BY <1>1, <1>2

LEMMA CellValues ==
  ASSUME NEW c \in Cells, NEW run, NEW v \in Contents
  PROVE  SetField(c, run, v) \in Cells /\ Blank \in Cells
BY RtMapsAssumption DEF SetField, Cells, Blank

LEMMA GotCell ==
  ASSUME MapsTypeOK, NEW g \in Slots
  PROVE  Got(shadow, g) \in Cells
<1>1. Blank \in Cells
  BY RtMapsAssumption DEF Cells, Blank
<1>2. QED
  BY <1>1 DEF MapsTypeOK, Got, Present

LEMMA CoveredGranules ==
  ASSUME MapsTypeOK, NEW a, NEW size \in Nat, Within(a, size)
  PROVE  /\ a \in Nat /\ Covered(a, size) \subseteq Slots
         /\ Missed(a, size) \subseteq Covered(a, size)
         /\ Visits(a, size) \subseteq Covered(a, size)
         /\ Covered(a, size) \subseteq Visits(a, size) \cup Missed(a, size)
<1>1. gran \in Nat \ {0}
  BY SizesPositive
<1>2. /\ a \in Nat /\ Covered(a, size) \subseteq Slots
      /\ Missed(a, size) \subseteq Covered(a, size)
  BY <1>1, CoveredInSlots
<1>3. QED
  BY <1>1, <1>2, VisitsCovered, CoveredVisits

(* What the three kinds of calls leave in the granules, made or not *)
LEMMA FilledReads ==
  ASSUME MapsTypeOK, NEW keys, NEW run, NEW v \in Contents, NEW m, m = Filled(shadow, keys, run, v)
  PROVE  /\ m \in [Slots -> Cells \cup {Absent}]
         /\ \A g \in Slots : Got(m, g) = IF g \in keys THEN SetField(Got(shadow, g), run, v)
                                        ELSE Got(shadow, g)
<1>1. width \in Nat \ {0}
  BY SizesPositive
<1>2. ASSUME NEW g \in Slots
      PROVE  SetField(Got(shadow, g), run, v) \in Cells /\ SetField(Got(shadow, g), run, v) # Absent
  BY <1>1, GotCell, CellValues, CellsPresent
<1>3. m \in [Slots -> Cells \cup {Absent}]
  BY <1>2 DEF Filled, MapsTypeOK
<1>4. ASSUME NEW g \in Slots, g \in keys PROVE Got(m, g) = SetField(Got(shadow, g), run, v)
  <2>1. m[g] = SetField(Got(shadow, g), run, v)
    BY <1>4 DEF Filled
  <2>2. QED
    BY <1>2, <2>1 DEF Got, Present
<1>5. ASSUME NEW g \in Slots, g \notin keys PROVE Got(m, g) = Got(shadow, g)
  <2>1. m[g] = shadow[g]
    BY <1>5 DEF Filled
  <2>2. QED
    BY <2>1 DEF Got, Present
<1>6. QED
  BY <1>3, <1>4, <1>5

LEMMA ClearedReads ==
  ASSUME MapsTypeOK, NEW keys, NEW run, NEW m, m = Cleared(shadow, keys, run)
  PROVE  /\ m \in [Slots -> Cells \cup {Absent}]
         /\ \A g \in Slots : Got(m, g) = IF g \in keys THEN SetField(Got(shadow, g), run, 0)
                                        ELSE Got(shadow, g)
<1>1. width \in Nat \ {0} /\ 0 \in Contents
  BY SizesPositive, RtMapsAssumption
<1>2. ASSUME NEW g \in Slots, Present(shadow, g)
      PROVE  SetField(shadow[g], run, 0) \in Cells /\ SetField(shadow[g], run, 0) # Absent
  BY <1>1, <1>2, CellValues, CellsPresent DEF MapsTypeOK, Present
<1>3. m \in [Slots -> Cells \cup {Absent}]
  BY <1>2 DEF Cleared, MapsTypeOK
<1>4. SetField(Blank, run, 0) = Blank
  BY DEF SetField, Blank
<1>5. ASSUME NEW g \in Slots, g \in keys PROVE Got(m, g) = SetField(Got(shadow, g), run, 0)
  <2>1. m[g] = IF Present(shadow, g) THEN SetField(shadow[g], run, 0) ELSE shadow[g]
    BY <1>5 DEF Cleared
  <2>2. QED
    BY <1>2, <1>4, <2>1 DEF Got, Present
<1>6. ASSUME NEW g \in Slots, g \notin keys PROVE Got(m, g) = Got(shadow, g)
  <2>1. m[g] = shadow[g]
    BY <1>6 DEF Cleared
  <2>2. QED
    BY <2>1 DEF Got, Present
<1>7. QED
  BY <1>3, <1>5, <1>6

LEMMA MadeReads ==
  ASSUME MapsTypeOK, NEW keys, NEW m, m = Made(shadow, keys)
  PROVE  /\ m \in [Slots -> Cells \cup {Absent}]
         /\ \A g \in Slots : Got(m, g) = Got(shadow, g)
<1>1. ASSUME NEW g \in Slots PROVE Got(shadow, g) \in Cells /\ Got(shadow, g) # Absent
  BY SizesPositive, GotCell, CellsPresent
<1>2. m \in [Slots -> Cells \cup {Absent}]
  BY <1>1 DEF Made, MapsTypeOK
<1>3. ASSUME NEW g \in Slots PROVE Got(m, g) = Got(shadow, g)
  <2>1. m[g] = IF g \in keys THEN Got(shadow, g) ELSE shadow[g]
    BY DEF Made
  <2>2. QED
    BY <1>1, <2>1 DEF Got, Present
<1>4. QED
  BY <1>2, <1>3

LEMMA IntendedCells ==
  ASSUME MapsTypeOK, NEW keys, NEW run, NEW v \in Contents, Intended(keys, run, v)
  PROVE  /\ meant' \in [Slots -> Cells]
         /\ \A g \in Slots : meant'[g] = IF g \in keys THEN SetField(meant[g], run, v) ELSE meant[g]
<1>1. ASSUME NEW g \in Slots PROVE SetField(meant[g], run, v) \in Cells
  BY CellValues DEF MapsTypeOK
<1>2. QED
  BY <1>1 DEF Intended, MapsTypeOK

(* A step keeps the invariant when every granule outside the spoilt ones   *)
(* reads what is meant after it.                                           *)
LEMMA ReadsRight ==
  ASSUME MapsTypeOK, gran' = gran, width' = width,
         shadow' \in [Slots -> Cells \cup {Absent}], meant' \in [Slots -> Cells],
         spoilt' \in SUBSET Slots,
         \A g \in Slots : g \notin spoilt' => Got(shadow', g) = meant'[g]
  PROVE  MapsInv'
<1>1. Slots' = Slots /\ Cells' = Cells /\ Blank' = Blank /\ Absent' = Absent
  BY DEF Slots, Cells, Blank, FieldIds, Absent
<1>2. MapsTypeOK'
  BY <1>1 DEF MapsTypeOK
<1>3. MapsAsMeant'
  BY <1>1 DEF MapsAsMeant, Got, Present
<1>4. QED
  BY <1>2, <1>3 DEF MapsInv

(* get(k).f = v *)
LEMMA AssignKeeps ==
  ASSUME MapsInv, NEW a \in Addresses, NEW v \in Contents, NEW run, AssignField(a, run, v)
  PROVE  MapsInv'
<1>1. MapsTypeOK
  BY DEF MapsInv
<1>2. /\ shadow' = Filled(shadow, {KeyOf(a)}, run, v) /\ Intended({KeyOf(a)}, run, v)
      /\ gran' = gran /\ width' = width /\ spoilt' = spoilt
  BY DEF AssignField
<1>3. ASSUME NEW g \in Slots, g \notin spoilt' PROVE Got(shadow', g) = meant'[g]
  <2>1. Got(shadow, g) = meant[g]
    BY <1>2, <1>3 DEF MapsInv, MapsAsMeant
  <2>2. QED
    BY <1>1, <1>2, <2>1, FilledReads, IntendedCells
<1>4. shadow' \in [Slots -> Cells \cup {Absent}] /\ meant' \in [Slots -> Cells]
  BY <1>1, <1>2, FilledReads, IntendedCells
<1>5. spoilt' \in SUBSET Slots
  BY <1>1, <1>2 DEF MapsTypeOK
<1>6. QED
  BY <1>1, <1>2, <1>3, <1>4, <1>5, ReadsRight

(* add_range() of a fused map *)
LEMMA FillKeeps ==
  ASSUME MapsInv, NEW a, NEW size \in Nat, Within(a, size),
         NEW v \in Contents, NEW run, FillRange(a, size, run, v)
  PROVE  MapsInv'
<1>1. MapsTypeOK
  BY DEF MapsInv
<1>2. /\ shadow' = Filled(shadow, Visits(a, size), run, v) /\ Intended(Covered(a, size), run, v)
      /\ gran' = gran /\ width' = width /\ spoilt' = spoilt \cup Missed(a, size)
  BY DEF FillRange
<1>3. ASSUME NEW g \in Slots, g \notin spoilt' PROVE Got(shadow', g) = meant'[g]
  <2>1. Got(shadow, g) = meant[g]
    BY <1>2, <1>3 DEF MapsInv, MapsAsMeant
  <2>2. g \in Visits(a, size) <=> g \in Covered(a, size)
    BY <1>1, <1>2, <1>3, CoveredGranules
  <2>3. Got(shadow', g) = IF g \in Visits(a, size) THEN SetField(Got(shadow, g), run, v)
                          ELSE Got(shadow, g)
    BY <1>1, <1>2, FilledReads
  <2>4. meant'[g] = IF g \in Covered(a, size) THEN SetField(meant[g], run, v) ELSE meant[g]
    BY <1>1, <1>2, IntendedCells
  <2>5. QED
    BY <2>1, <2>2, <2>3, <2>4
<1>4. shadow' \in [Slots -> Cells \cup {Absent}] /\ meant' \in [Slots -> Cells]
  BY <1>1, <1>2, FilledReads, IntendedCells
<1>5. spoilt' \in SUBSET Slots
  BY <1>1, <1>2, CoveredGranules DEF MapsTypeOK
<1>6. QED
  BY <1>1, <1>2, <1>3, <1>4, <1>5, ReadsRight

(* remove_range() of a fused map passes over granules nobody made, whose   *)
(* fields read as cleared.                                                 *)
LEMMA ClearKeeps ==
  ASSUME MapsInv, NEW a, NEW size \in Nat, Within(a, size), NEW run, ClearRange(a, size, run)
  PROVE  MapsInv'
<1>1. MapsTypeOK /\ 0 \in Contents
  BY RtMapsAssumption DEF MapsInv
<1>2. /\ shadow' = Cleared(shadow, Visits(a, size), run) /\ Intended(Covered(a, size), run, 0)
      /\ gran' = gran /\ width' = width /\ spoilt' = spoilt \cup Missed(a, size)
  BY DEF ClearRange
<1>3. ASSUME NEW g \in Slots, g \notin spoilt' PROVE Got(shadow', g) = meant'[g]
  <2>1. Got(shadow, g) = meant[g]
    BY <1>2, <1>3 DEF MapsInv, MapsAsMeant
  <2>2. g \in Visits(a, size) <=> g \in Covered(a, size)
    BY <1>1, <1>2, <1>3, CoveredGranules
  <2>3. Got(shadow', g) = IF g \in Visits(a, size) THEN SetField(Got(shadow, g), run, 0)
                          ELSE Got(shadow, g)
    BY <1>1, <1>2, ClearedReads
  <2>4. meant'[g] = IF g \in Covered(a, size) THEN SetField(meant[g], run, 0) ELSE meant[g]
    BY <1>1, <1>2, IntendedCells
  <2>5. QED
    BY <2>1, <2>2, <2>3, <2>4
<1>4. shadow' \in [Slots -> Cells \cup {Absent}] /\ meant' \in [Slots -> Cells]
  BY <1>1, <1>2, ClearedReads, IntendedCells
<1>5. spoilt' \in SUBSET Slots
  BY <1>1, <1>2, CoveredGranules DEF MapsTypeOK
<1>6. QED
  BY <1>1, <1>2, <1>3, <1>4, <1>5, ReadsRight

(* check_range() only makes granules. *)
LEMMA MakingKeeps ==
  ASSUME MapsInv, NEW keys, shadow' = Made(shadow, keys),
         UNCHANGED <<gran, width, meant, spoilt>>
  PROVE  MapsInv'
<1>1. MapsTypeOK
  BY DEF MapsInv
<1>2. ASSUME NEW g \in Slots, g \notin spoilt' PROVE Got(shadow', g) = meant'[g]
  <2>1. Got(shadow, g) = meant[g]
    BY <1>2 DEF MapsInv, MapsAsMeant
  <2>2. QED
    BY <1>1, <2>1, MadeReads
<1>3. shadow' \in [Slots -> Cells \cup {Absent}]
  BY <1>1, MadeReads
<1>4. QED
  BY <1>1, <1>2, <1>3, ReadsRight DEF MapsTypeOK

(* Where a granule is one address, shifting the key twice does no harm.    *)
LEMMA KeysOfOne ==
  ASSUME gran = 1, NEW a \in Nat, NEW size \in Nat
  PROVE  AddRangeKeys(a, size) = Covered(a, size)
<1>1. ASSUME NEW x \in Nat PROVE KeyOf(x) = x
  <2>1. KeyOf(x) \in Nat /\ 1 * KeyOf(x) <= x /\ x < 1 * (KeyOf(x) + 1)
    BY KeyBounds
  <2>2. QED
    BY <2>1
<1>2. Units(size) = size
  <2>1. Units(size) \in Nat /\ size <= 1 * Units(size) /\ 1 * Units(size) < size + 1
    BY UnitBounds
  <2>2. QED
    BY <2>1
<1>3. KeyOf(a) = a
  BY <1>1
<1>4. AddRangeKeys(a, size) = {a + i : i \in 0 .. size - 1}
  <2>1. ASSUME NEW i \in 0 .. size - 1 PROVE KeyOf(a + i * gran) = a + i
    <3>1. a + i * gran = a + i /\ a + i \in Nat
      OBVIOUS
    <3>2. QED
      BY <3>1, <1>1
  <2>2. QED
    BY <2>1, <1>2, <1>3 DEF AddRangeKeys
<1>5. Covered(a, size) = a .. a + size - 1
  <2>1. \A b \in a .. a + size - 1 : KeyOf(b) = b
    BY <1>1
  <2>2. QED
    BY <2>1 DEF Covered
<1>6. ASSUME NEW b \in a .. a + size - 1 PROVE b \in {a + i : i \in 0 .. size - 1}
  <2>1. b - a \in 0 .. size - 1 /\ b = a + (b - a)
    OBVIOUS
  <2>2. QED
    BY <2>1
<1>7. \A i \in 0 .. size - 1 : a + i \in a .. a + size - 1
  OBVIOUS
<1>8. QED
  BY <1>4, <1>5, <1>6, <1>7

(* Where it is more, no call gets further than the end of its range.       *)
LEMMA KeysUpTo ==
  ASSUME gran \in Nat \ {0}, NEW a \in Nat, NEW size \in Nat
  PROVE  /\ \A g \in AddRangeKeys(a, size) : g <= KeyOf(a + size)
         /\ \A g \in Covered(a, size) : g <= KeyOf(a + size)
<1>1. ASSUME NEW i \in 0 .. Units(size) - 1 PROVE KeyOf(KeyOf(a) + i * gran) <= KeyOf(a + size)
  <2>1. Units(size) \in Nat /\ gran * Units(size) < size + gran
    BY UnitBounds
  <2>2. gran * (i + 1) <= gran * Units(size) /\ gran * (i + 1) = i * gran + gran
    BY <2>1, TimesMonotone
  <2>3. i * gran < size /\ i * gran \in Nat
    BY <2>1, <2>2
  <2>4. KeyOf(a) \in Nat /\ KeyOf(a) <= a
    <3>1. KeyOf(a) \in Nat /\ gran * KeyOf(a) <= a
      BY KeyBounds
    <3>2. KeyOf(a) * 1 <= KeyOf(a) * gran /\ KeyOf(a) * gran = gran * KeyOf(a)
      BY <3>1, TimesMonotone
    <3>3. QED
      BY <3>1, <3>2
  <2> DEFINE x == KeyOf(a) + i * gran
             y == a + size
  <2>5. x \in Nat /\ y \in Nat /\ x <= y
    BY <2>3, <2>4
  <2> HIDE DEF x, y
  <2>6. KeyOf(x) <= KeyOf(y)
    BY <2>5, KeyMonotone
  <2>7. QED
    BY <2>6 DEF x, y
<1>2. ASSUME NEW b \in a .. a + size - 1 PROVE KeyOf(b) <= KeyOf(a + size)
  BY KeyMonotone
<1>3. QED
  BY <1>1, <1>2 DEF AddRangeKeys, Covered

LEMMA AddKeeps ==
  ASSUME MapsInv, NEW a, NEW size \in Nat, Within(a, size),
         NEW v \in Contents, AddRangePlain(a, size, v)
  PROVE  MapsInv'
<1>1. MapsTypeOK /\ gran \in Nat \ {0} /\ a \in Nat /\ Covered(a, size) \subseteq Slots
  BY SizesPositive, CoveredGranules DEF MapsInv
<1>2. /\ shadow' = Filled(shadow, AddRangeKeys(a, size), FieldIds, v)
      /\ Intended(Covered(a, size), FieldIds, v)
      /\ gran' = gran /\ width' = width
      /\ spoilt' = IF gran = 1 THEN spoilt \ Covered(a, size)
                   ELSE spoilt \cup {g \in Slots : g <= KeyOf(a + size)}
  BY DEF AddRangePlain
<1>3. ASSUME NEW g \in Slots
      PROVE  /\ Got(shadow', g) = IF g \in AddRangeKeys(a, size)
                                   THEN SetField(Got(shadow, g), FieldIds, v) ELSE Got(shadow, g)
             /\ meant'[g] = IF g \in Covered(a, size) THEN SetField(meant[g], FieldIds, v) ELSE meant[g]
  BY <1>1, <1>2, FilledReads, IntendedCells
<1>4. ASSUME NEW g \in Slots, g \notin spoilt' PROVE Got(shadow', g) = meant'[g]
  <2>1. g \notin spoilt => Got(shadow, g) = meant[g]
    BY DEF MapsInv, MapsAsMeant
  <2>2. CASE gran = 1
    <3>1. g \in AddRangeKeys(a, size) <=> g \in Covered(a, size)
      BY <1>1, <2>2, KeysOfOne
    <3>2. SetField(Got(shadow, g), FieldIds, v) = SetField(meant[g], FieldIds, v)
      <4>1. Got(shadow, g) \in Cells /\ meant[g] \in Cells
        BY <1>1, GotCell DEF MapsTypeOK
      <4>2. QED
        BY <4>1 DEF SetField, Cells
    <3>3. g \in Covered(a, size) \/ g \notin spoilt
      BY <1>2, <1>4, <2>2
    <3>4. QED
      BY <1>3, <2>1, <3>1, <3>2, <3>3
  <2>3. CASE gran # 1
    <3>1. g \notin spoilt /\ ~(g <= KeyOf(a + size))
      BY <1>2, <1>4, <2>3
    <3>2. g \notin AddRangeKeys(a, size) /\ g \notin Covered(a, size)
      BY <1>1, <3>1, KeysUpTo
    <3>3. QED
      BY <1>3, <2>1, <3>1, <3>2
  <2>4. QED
    BY <2>2, <2>3
<1>5. shadow' \in [Slots -> Cells \cup {Absent}] /\ meant' \in [Slots -> Cells]
  BY <1>1, <1>2, FilledReads, IntendedCells
<1>6. spoilt' \in SUBSET Slots
  BY <1>1, <1>2 DEF MapsTypeOK
<1>7. QED
  BY <1>1, <1>2, <1>4, <1>5, <1>6, ReadsRight

(* remove_range() of a plain map spoils what it covers, and only that. *)
LEMMA RemoveKeeps ==
  ASSUME MapsInv, NEW a, NEW size \in Nat, Within(a, size),
         NEW junk \in Cells, RemoveRangePlain(a, size, junk)
  PROVE  MapsInv'
<1>1. MapsTypeOK /\ gran \in Nat \ {0} /\ a \in Nat /\ Covered(a, size) \subseteq Slots /\ 0 \in Contents
  BY SizesPositive, CoveredGranules, RtMapsAssumption DEF MapsInv
<1>2. /\ shadow' = IF size > 0 /\ Present(shadow, KeyOf(a)) THEN [shadow EXCEPT ![KeyOf(a)] = junk]
                   ELSE shadow
      /\ Intended(Covered(a, size), FieldIds, 0)
      /\ gran' = gran /\ width' = width /\ spoilt' = spoilt \cup Covered(a, size)
  BY DEF RemoveRangePlain
<1>3. size > 0 => KeyOf(a) \in Covered(a, size)
  <2>1. size > 0 => a \in a .. a + size - 1
    BY <1>1
  <2>2. QED
    BY <2>1 DEF Covered
<1>4. shadow' \in [Slots -> Cells \cup {Absent}] /\ meant' \in [Slots -> Cells]
  BY <1>1, <1>2, IntendedCells DEF MapsTypeOK
<1>5. ASSUME NEW g \in Slots, g \notin spoilt' PROVE Got(shadow', g) = meant'[g]
  <2>1. g \notin Covered(a, size) /\ Got(shadow, g) = meant[g]
    BY <1>2, <1>5 DEF MapsInv, MapsAsMeant
  <2>2. shadow'[g] = shadow[g]
    BY <1>1, <1>2, <1>3, <2>1 DEF MapsTypeOK
  <2>3. meant'[g] = meant[g]
    BY <1>1, <1>2, <2>1, IntendedCells
  <2>4. QED
    BY <2>1, <2>2, <2>3 DEF Got, Present
<1>6. spoilt' \in SUBSET Slots
  BY <1>1, <1>2 DEF MapsTypeOK
<1>7. QED
  BY <1>1, <1>2, <1>4, <1>5, <1>6, ReadsRight

(* cpy_range() gets the first granule of its target right, if that of its  *)
(* source was right and made.                                              *)
LEMMA CopyKeeps ==
  ASSUME MapsInv, NEW a, NEW b, NEW size \in Nat, Within(a, size), Within(b, size),
         CopyRangePlain(a, b, size)
  PROVE  MapsInv'
<1>1. MapsTypeOK /\ gran \in Nat \ {0} /\ Covered(b, size) \subseteq Slots
  BY SizesPositive, CoveredGranules DEF MapsInv
<1>2. KeyOf(a) \in Slots /\ KeyOf(b) \in Slots
  BY <1>1, KeysInSlots DEF Within
<1> DEFINE s == KeyOf(a)
           t == KeyOf(b)
<1>3. /\ shadow' = IF Present(shadow, s) THEN [shadow EXCEPT ![t] = shadow[s]] ELSE shadow
      /\ meant' = [meant EXCEPT ![t] = meant[s]]
      /\ spoilt' = (spoilt \ {t}) \cup (Covered(b, size) \ {t})
                     \cup {g \in {t} : s \in spoilt \/ ~Present(shadow, s)}
      /\ gran' = gran /\ width' = width
  BY DEF CopyRangePlain
<1> HIDE DEF s, t
<1>4. s \in Slots /\ t \in Slots
  BY <1>2 DEF s, t
<1>5. shadow' \in [Slots -> Cells \cup {Absent}] /\ meant' \in [Slots -> Cells]
  BY <1>1, <1>3, <1>4 DEF MapsTypeOK
<1>6. ASSUME NEW g \in Slots, g \notin spoilt' PROVE Got(shadow', g) = meant'[g]
  <2>1. CASE g = t
    <3>1. s \notin spoilt /\ Present(shadow, s)
      BY <1>3, <1>6, <2>1
    <3>2. Got(shadow, s) = meant[s]
      BY <1>4, <3>1 DEF MapsInv, MapsAsMeant
    <3>3. shadow'[g] = shadow[s] /\ meant'[g] = meant[s]
      BY <1>1, <1>3, <1>4, <2>1, <3>1 DEF MapsTypeOK
    <3>4. QED
      BY <3>1, <3>2, <3>3 DEF Got, Present
  <2>2. CASE g # t
    <3>1. Got(shadow, g) = meant[g]
      BY <1>3, <1>6, <2>2 DEF MapsInv, MapsAsMeant
    <3>2. shadow'[g] = shadow[g] /\ meant'[g] = meant[g]
      BY <1>1, <1>3, <1>4, <2>2 DEF MapsTypeOK
    <3>3. QED
      BY <3>1, <3>2 DEF Got, Present
  <2>3. QED
    BY <2>1, <2>2
<1>7. spoilt' \in SUBSET Slots
  BY <1>1, <1>3, <1>4 DEF MapsTypeOK
<1>8. QED
  BY <1>1, <1>3, <1>5, <1>6, <1>7, ReadsRight

----------------------------------------------------------------------------
(* The invariant and what follows from it *)

LEMMA InitHolds == MapsInit => MapsInv
<1> SUFFICES ASSUME MapsInit PROVE MapsInv
  OBVIOUS
<1>1. Blank \in Cells
  BY RtMapsAssumption DEF Cells, Blank
<1>2. MapsTypeOK
  BY <1>1 DEF MapsInit, MapsTypeOK
<1>3. MapsAsMeant
  BY DEF MapsInit, MapsAsMeant, Got, Present
<1>4. QED
  BY <1>2, <1>3 DEF MapsInv

LEMMA StepHolds == MapsInv /\ [MapsNext]_mapVars => MapsInv'
<1> SUFFICES ASSUME MapsInv, [MapsNext]_mapVars PROVE MapsInv'
  OBVIOUS
<1>1. gran \in Nat \ {0} /\ 2 * gran \in Nat
  BY SizesPositive DEF MapsInv
<1>2. \A size \in 0 .. 2 * gran : size \in Nat
  BY <1>1
<1>3. ASSUME NEW a \in Addresses, NEW v \in Contents, NEW run \in FieldRuns, AssignField(a, run, v)
      PROVE  MapsInv'
  BY <1>3, AssignKeeps
<1>4. ASSUME PlainNext PROVE MapsInv'
  <2>1. ASSUME NEW a \in Addresses, NEW n \in 1 .. 2, CheckInts(a, n) PROVE MapsInv'
    BY <2>1, MakingKeeps DEF CheckInts
  <2>2. ASSUME NEW a \in Addresses, NEW size \in 0 .. 2 * gran, Within(a, size),
               NEW v \in Contents, AddRangePlain(a, size, v)
        PROVE  MapsInv'
    BY <1>2, <2>2, AddKeeps
  <2>3. ASSUME NEW a \in Addresses, NEW size \in 0 .. 2 * gran, Within(a, size),
               NEW junk \in Cells, RemoveRangePlain(a, size, junk)
        PROVE  MapsInv'
    BY <1>2, <2>3, RemoveKeeps
  <2>4. ASSUME NEW a \in Addresses, NEW size \in 0 .. 2 * gran, Within(a, size),
               NEW b \in Addresses, Within(b, size), CopyRangePlain(a, b, size)
        PROVE  MapsInv'
    BY <1>2, <2>4, CopyKeeps
  <2>5. QED
    BY <1>4, <2>1, <2>2, <2>3, <2>4 DEF PlainNext
<1>5. ASSUME FusedNext PROVE MapsInv'
  <2>1. ASSUME NEW a \in Addresses, NEW size \in 0 .. 2 * gran, NEW run \in FieldRuns,
               Within(a, size), NEW v \in Contents, FillRange(a, size, run, v)
        PROVE  MapsInv'
    BY <1>2, <2>1, FillKeeps
  <2>2. ASSUME NEW a \in Addresses, NEW size \in 0 .. 2 * gran, NEW run \in FieldRuns,
               Within(a, size), NEW v \in Contents, CheckRange(a, size, run, v)
        PROVE  MapsInv'
    BY <2>2, MakingKeeps DEF CheckRange
  <2>3. ASSUME NEW a \in Addresses, NEW size \in 0 .. 2 * gran, NEW run \in FieldRuns,
               Within(a, size), ClearRange(a, size, run)
        PROVE  MapsInv'
    BY <1>2, <2>3, ClearKeeps
  <2>4. QED
    BY <1>5, <2>1, <2>2, <2>3 DEF FusedNext
<1>6. CASE UNCHANGED mapVars
  <2>1. shadow' = shadow /\ UNCHANGED <<gran, width, meant, spoilt>>
    BY <1>6 DEF mapVars
  <2>2. QED
    BY <2>1 DEF MapsInv, MapsTypeOK, MapsAsMeant, Slots, Cells, FieldIds, Absent, Got, Present, Blank
<1>7. QED
  BY <1>3, <1>4, <1>5, <1>6 DEF MapsNext

(* Every granule reads what the calls were meant to leave there, whichever *)
(* calls of rt_lib::map came before (rtLib.cpp, lines 766-931), unless one *)
(* of them was of the kind that gets its range wrong.                      *)
THEOREM CellsAsMeant == MapsSpec => []MapsInv
<1>1. MapsInit => MapsInv
  BY InitHolds
<1>2. MapsInv /\ [MapsNext]_mapVars => MapsInv'
  BY StepHolds
<1>3. QED
  BY <1>1, <1>2, PTL DEF MapsSpec

(* The answer of check_range() is about the granules that are visited, so  *)
(* it is about the range if that starts with a granule.                    *)
LEMMA RangesRead == MapsInv => RangesReadBack
<1>1. SUFFICES ASSUME MapsInv, NEW a \in Addresses, a % gran = 0, NEW size \in 0 .. 2 * gran,
                      Within(a, size), Covered(a, size) \cap spoilt = {},
                      NEW run \in FieldRuns, NEW v \in Contents
               PROVE  Checks(shadow, Visits(a, size), run, v)
                        <=> \A g \in Covered(a, size) : \A f \in run : meant[g][f] = v
  BY DEF RangesReadBack
<1>2. MapsTypeOK /\ gran \in Nat \ {0}
  BY <1>1, SizesPositive DEF MapsInv
<1>3. size \in Nat
  BY <1>1, <1>2
<1>4. Visits(a, size) = Covered(a, size) /\ Covered(a, size) \subseteq Slots
  <2>1. Missed(a, size) = {}
    BY <1>1 DEF Missed
  <2>2. QED
    BY <1>1, <1>2, <1>3, <2>1, CoveredGranules
<1>5. \A g \in Covered(a, size) : Got(shadow, g) = meant[g]
  BY <1>1, <1>4 DEF MapsInv, MapsAsMeant
<1>6. QED
  BY <1>4, <1>5 DEF Checks, Differs

(* Cells and ranges read what the calls have left, for any number of       *)
(* granules, every shift and every number of fields of a fused map.        *)
THEOREM MapsRead == MapsSpec => []MapsReadAsMeant
<1>1. MapsInv => MapsReadAsMeant
  BY RangesRead DEF MapsInv, MapsReadAsMeant
<1>2. QED
  BY CellsAsMeant, <1>1, PTL
----------------------------------------------------------------------------
(* OffsetMap: where the cells lie *)

LEMMA BlockFacts == Block \in Nat \ {0} /\ Ratios \subseteq {1, 2, 3} /\ Driven \subseteq Ratios
BY OffsetMapAssumption

(* mem2shadow() maps each of the two parts of the program's addresses onto *)
(* one half of the area, in steps of the size of a cell.                   *)
LEMMA Halves ==
  ASSUME NEW key \in ProgramSpace, NEW r \in {1, 2, 3}
  PROVE  /\ key \in 0 .. Block - 1 \/ key \in 7 * Block .. 8 * Block - 1
         /\ key < Block => Mem2Shadow(r, key) = 4 * Block - r * Block + r * key
         /\ key >= Block => Mem2Shadow(r, key) = 4 * Block + r * (key - 7 * Block)
<1>1. Block \in Nat \ {0} /\ key \in Int
  BY BlockFacts DEF ProgramSpace, Low
<1>2. /\ key \div Block \in Int /\ key % Block \in 0 .. Block - 1
      /\ key = Block * (key \div Block) + (key % Block)
  BY <1>1
<1>3. key \in 0 .. Block - 1 \/ key \in 7 * Block .. 8 * Block - 1
  BY DEF ProgramSpace, Low
<1>4. CASE key \in 0 .. Block - 1
  <2>1. key \div Block = 0 /\ key % Block = key
    BY <1>1, <1>4
  <2>2. Xor3(key) = 3 * Block + key
    BY <1>1, <2>1 DEF Xor3
  <2>3. Mem2Shadow(r, key) = 4 * Block - r * Block + r * key
    BY <1>1, <2>2 DEF Mem2Shadow, Middle
  <2>4. QED
    BY <1>1, <1>4, <2>3
<1>5. CASE key \in 7 * Block .. 8 * Block - 1
  <2>1. key \div Block = 7 /\ key % Block = key - 7 * Block
    <3>1. key \in Nat /\ Block * 7 <= key /\ key < Block * 8
      BY <1>1, <1>5
    <3>2. 7 <= key \div Block /\ key \div Block < 8
      BY <1>1, <3>1, DivAtLeast, DivBelow
    <3>3. key \div Block = 7
      BY <1>2, <3>2
    <3>4. QED
      BY <1>1, <1>2, <3>3
  <2>2. Xor3(key) = 4 * Block + (key - 7 * Block)
    BY <1>1, <2>1 DEF Xor3
  <2>3. Mem2Shadow(r, key) = 4 * Block + r * (key - 7 * Block)
    BY <1>1, <2>2 DEF Mem2Shadow, Middle
  <2>4. QED
    BY <1>1, <1>5, <2>3
<1>6. QED
  BY <1>3, <1>4, <1>5

LEMMA Apart ==
  ASSUME NEW k \in ProgramSpace, NEW l \in ProgramSpace, k < l, NEW r \in {1, 2, 3}
  PROVE  Mem2Shadow(r, k) \in Int /\ Mem2Shadow(r, k) + r <= Mem2Shadow(r, l)
<1>1. Block \in Nat \ {0} /\ k \in Int /\ l \in Int
  BY BlockFacts DEF ProgramSpace, Low
<1>2. QED
  BY <1>1, Halves

LEMMA InArea ==
  ASSUME NEW k \in ProgramSpace, NEW r \in {1, 2, 3}
  PROVE  /\ Mem2Shadow(r, k) \in Int
         /\ Mem2Shadow(r, k) .. Mem2Shadow(r, k) + r - 1 \subseteq Mapped(r)
<1>1. Block \in Nat \ {0} /\ k \in Int
  BY BlockFacts DEF ProgramSpace, Low
<1>2. QED
  BY <1>1, Halves DEF Mapped, Middle, Low

(* One address after the other: the cells follow each other without a gap  *)
(* as long as the range does not leave its part of the address space.      *)
LEMMA InStep ==
  ASSUME NEW k \in ProgramSpace, NEW j \in Nat, k .. k + j \subseteq ProgramSpace, NEW r \in {1, 2, 3}
  PROVE  Mem2Shadow(r, k + j) = Mem2Shadow(r, k) + r * j
<1>1. Block \in Nat \ {0} /\ k \in Int
  BY BlockFacts DEF ProgramSpace, Low
<1>2. k + j \in ProgramSpace
  BY <1>1
<1>3. ~(k < Block /\ k + j >= Block)
  <2>1. Block \notin ProgramSpace
    BY <1>1 DEF ProgramSpace, Low
  <2>2. QED
    BY <1>1, <2>1
<1>4. QED
  BY <1>1, <1>2, <1>3, Halves

(* The shadows meet neither each other nor the program, for every size of  *)
(* a value and of the address space (PageMapUnsyncOffset.h, lines 32-35).  *)
THEOREM ShadowsNeverMeet == ShadowsApart
<1>1. ASSUME NEW r \in Ratios PROVE Mapped(r) \cap ProgramSpace = {}
  <2>1. Block \in Nat \ {0} /\ r \in {1, 2, 3}
    BY BlockFacts
  <2>2. QED
    BY <2>1 DEF Mapped, ProgramSpace, Low, Middle
<1>2. QED
  BY <1>1, BlockFacts, Apart, InArea DEF ShadowsApart
----------------------------------------------------------------------------
(* OffsetMap: what the calls write *)

OffsetTypeOK ==
  /\ ratio \in Driven /\ grain \in Grains
  /\ bytes \in [Mapped(ratio) -> Bits]
  /\ wanted \in [{Align(key) : key \in InUse} -> [1 .. ratio -> Bits]]
  /\ unsure \subseteq DOMAIN wanted

CellsRead == \A k \in DOMAIN wanted \ unsure : CellAt(k) = wanted[k]

OffsetInv == OffsetTypeOK /\ CellsRead

Anchored == {Align(key) : key \in InUse}

LEMMA SizeFacts ==
  ASSUME OffsetTypeOK
  PROVE  /\ ratio \in {1, 2, 3} /\ ratio \in Nat \ {0} /\ grain \in Nat \ {0}
         /\ \E n \in Nat \ {0} : Block = grain * n
         /\ DOMAIN wanted = Anchored
<1>1. ratio \in {1, 2, 3} /\ grain \in Nat \ {0} /\ Block \in Nat \ {0} /\ Block % grain = 0
  BY OffsetMapAssumption DEF OffsetTypeOK
<1>2. Block \div grain \in Nat /\ Block = grain * (Block \div grain) + (Block % grain)
  BY <1>1
<1>3. Block \div grain # 0
  BY <1>1, <1>2
<1>4. Block \div grain \in Nat \ {0} /\ Block = grain * (Block \div grain)
  <2>1. Block = grain * (Block \div grain) + 0
    BY <1>1, <1>2
  <2>2. grain * (Block \div grain) \in Nat
    BY <1>1, <1>2
  <2>3. QED
    BY <1>2, <1>3, <2>1, <2>2
<1>5. \E n \in Nat \ {0} : Block = grain * n
  BY <1>4
<1>6. DOMAIN wanted = Anchored
  BY DEF OffsetTypeOK, Anchored
<1>7. QED
  BY <1>1, <1>5, <1>6

(* A granule starts at a multiple of its size. *)
LEMMA AlignFacts ==
  ASSUME grain \in Nat \ {0}, NEW a \in Nat
  PROVE  /\ Align(a) \in Nat /\ Align(a) = grain * (a \div grain)
         /\ Align(a) <= a /\ a < Align(a) + grain
<1> DEFINE q == a \div grain
<1>1. q \in Nat /\ grain * q <= a /\ a < grain * (q + 1)
  BY DivBounds
<1> HIDE DEF q
<1>2. grain * (q + 1) = grain * q + grain /\ q * grain = grain * q /\ grain * q \in Nat
  BY <1>1
<1>3. Align(a) = q * grain
  BY DEF Align, q
<1>4. QED
  BY <1>1, <1>2, <1>3 DEF q

LEMMA AlignUnique ==
  ASSUME grain \in Nat \ {0}, NEW q \in Nat, NEW a \in Nat, grain * q <= a, a < grain * q + grain
  PROVE  Align(a) = grain * q
<1>1. grain * (q + 1) = grain * q + grain
  OBVIOUS
<1>2. q <= a \div grain /\ a \div grain < q + 1
  BY <1>1, DivAtLeast, DivBelow
<1>3. a \div grain = q
  BY <1>2, DivBounds
<1>4. QED
  BY <1>3, AlignFacts

LEMMA AlignTwice ==
  ASSUME grain \in Nat \ {0}, NEW a \in Nat, NEW b \in Nat, Align(a) <= b, b <= a
  PROVE  Align(b) = Align(a)
<1> DEFINE q == a \div grain
<1>1. q \in Nat
  BY DivBounds
<1>2. Align(a) = grain * q /\ a < Align(a) + grain /\ Align(a) \in Nat
  BY AlignFacts
<1> HIDE DEF q
<1>3. grain * q <= b /\ b < grain * q + grain
  BY <1>2
<1>4. QED
  BY <1>1, <1>2, <1>3, AlignUnique

LEMMA AlignMonotone ==
  ASSUME grain \in Nat \ {0}, NEW a \in Nat, NEW b \in Nat, a <= b
  PROVE  Align(a) <= Align(b)
<1>1. a \div grain \in Nat /\ b \div grain \in Nat /\ a \div grain <= b \div grain
  BY DivBounds, DivMonotone
<1>2. grain * (a \div grain) <= grain * (b \div grain)
  BY <1>1, TimesMonotone
<1>3. QED
  BY <1>2, AlignFacts

(* A block is a whole number of granules: the start of a granule the       *)
(* program uses is an address of the program.                              *)
LEMMA AlignInSpace ==
  ASSUME OffsetTypeOK, NEW a \in ProgramSpace
  PROVE  a \in Nat /\ Align(a) \in ProgramSpace
<1>1. grain \in Nat \ {0} /\ Block \in Nat \ {0}
  BY SizeFacts, BlockFacts
<1>2. a \in Nat /\ (a \in 0 .. Block - 1 \/ a \in 7 * Block .. 8 * Block - 1)
  BY <1>1 DEF ProgramSpace, Low
<1>3. Align(a) \in Nat /\ Align(a) <= a
  BY <1>1, <1>2, AlignFacts
<1>4. ASSUME 7 * Block <= a PROVE 7 * Block <= Align(a)
  <2>1. PICK n \in Nat \ {0} : Block = grain * n
    BY SizeFacts
  <2>2. grain * (7 * n) = 7 * Block
    BY <1>1, <2>1
  <2>3. 7 * n \in Int /\ grain * (7 * n) <= a
    BY <1>1, <1>4, <2>1, <2>2
  <2>4. grain * (7 * n) <= grain * (a \div grain)
    <3> DEFINE m == 7 * n
               q == a \div grain
    <3>1. q \in Nat
      BY <1>1, <1>2, DivBounds
    <3>2. m \in Int /\ grain * m <= a
      BY <2>3
    <3> HIDE DEF m
    <3>3. m <= q
      BY <1>1, <1>2, <3>2, DivAtLeast
    <3> HIDE DEF q
    <3>4. grain * m <= grain * q
      BY <1>1, <3>1, <3>2, <3>3, TimesMonotone
    <3>5. QED
      BY <3>4 DEF m, q
  <2>5. QED
    BY <1>1, <1>2, <2>2, <2>4, AlignFacts
<1>5. QED
  BY <1>1, <1>2, <1>3, <1>4 DEF ProgramSpace, Low

LEMMA AnchoredFacts ==
  ASSUME OffsetTypeOK, NEW k \in Anchored
  PROVE  k \in Nat /\ k \in ProgramSpace /\ Align(k) = k
<1>1. PICK key \in InUse : k = Align(key)
  BY DEF Anchored
<1>2. key \in ProgramSpace
  BY OffsetMapAssumption DEF ProgramSpace, Low
<1>3. grain \in Nat \ {0}
  BY SizeFacts
<1>4. key \in Nat /\ k \in ProgramSpace
  BY <1>1, <1>2, AlignInSpace
<1>5. k \in Nat /\ k <= key
  BY <1>1, <1>3, <1>4, AlignFacts
<1>6. QED
  BY <1>1, <1>3, <1>4, <1>5, AlignTwice

(* The bytes of a cell lie in the area; those of another address elsewhere.*)
LEMMA CellPlace ==
  ASSUME OffsetTypeOK, NEW k \in ProgramSpace, NEW i \in 1 .. ratio
  PROVE  ShadowOf(k) \in Int /\ ShadowOf(k) + i - 1 \in Mapped(ratio)
<1>1. ratio \in {1, 2, 3}
  BY SizeFacts
<1>2. /\ ShadowOf(k) \in Int
      /\ ShadowOf(k) .. ShadowOf(k) + ratio - 1 \subseteq Mapped(ratio)
  BY <1>1, InArea DEF ShadowOf
<1>3. QED
  BY <1>1, <1>2

LEMMA CellsDiffer ==
  ASSUME OffsetTypeOK, NEW k \in ProgramSpace, NEW l \in ProgramSpace,
         NEW i \in 1 .. ratio, NEW j \in 1 .. ratio, ShadowOf(k) + i - 1 = ShadowOf(l) + j - 1
  PROVE  k = l /\ i = j
<1>1. ratio \in {1, 2, 3} /\ k \in Int /\ l \in Int
  BY SizeFacts, BlockFacts DEF ProgramSpace, Low
<1>2. ShadowOf(k) \in Int /\ ShadowOf(l) \in Int
  BY CellPlace
<1>3. k < l => ShadowOf(k) + ratio <= ShadowOf(l)
  BY <1>1, Apart DEF ShadowOf
<1>4. l < k => ShadowOf(l) + ratio <= ShadowOf(k)
  BY <1>1, Apart DEF ShadowOf
<1>5. QED
  BY <1>1, <1>2, <1>3, <1>4
(* The cells of a range follow each other without a gap. *)
LEMMA RunPlace ==
  ASSUME OffsetTypeOK, NEW to \in ProgramSpace, NEW n \in Nat, to .. to + n - 1 \subseteq ProgramSpace,
         NEW k \in to .. to + n - 1
  PROVE  to \in Nat /\ ShadowOf(k) = ShadowOf(to) + ratio * (k - to)
<1>1. ratio \in {1, 2, 3} /\ to \in Nat
  BY SizeFacts, AlignInSpace
<1> DEFINE j == k - to
<1>2. j \in Nat /\ k = to + j /\ to .. to + j \subseteq ProgramSpace
  BY <1>1
<1> HIDE DEF j
<1>3. Mem2Shadow(ratio, to + j) = Mem2Shadow(ratio, to) + ratio * j
  BY <1>1, <1>2, InStep
<1>4. QED
  BY <1>1, <1>2, <1>3 DEF ShadowOf, j

(* What is written from one cell on reaches the cells of its range and no  *)
(* other.                                                                  *)
LEMMA PokedHere ==
  ASSUME OffsetTypeOK, NEW to \in ProgramSpace, NEW n \in Nat, to .. to + n - 1 \subseteq ProgramSpace,
         NEW k \in to .. to + n - 1, NEW i \in 1 .. ratio, NEW seq
  PROVE  Poked(ShadowOf(to), seq)[ShadowOf(k) + i - 1] =
           IF ratio * (k - to) + i \in DOMAIN seq THEN seq[ratio * (k - to) + i]
           ELSE bytes[ShadowOf(k) + i - 1]
<1>1. /\ ratio \in {1, 2, 3} /\ to \in Nat /\ k \in Int /\ k \in ProgramSpace
      /\ ShadowOf(k) = ShadowOf(to) + ratio * (k - to)
  BY SizeFacts, RunPlace
<1> DEFINE b == ShadowOf(k) + i - 1
<1>2. b \in Mapped(ratio) /\ ShadowOf(to) \in Int
  BY <1>1, CellPlace
<1>3. ratio * (k - to) \in Int
  BY <1>1
<1>4. b - ShadowOf(to) + 1 = ratio * (k - to) + i
  BY <1>1, <1>2, <1>3
<1> HIDE DEF b
<1>5. Poked(ShadowOf(to), seq)[b] =
        IF b - ShadowOf(to) + 1 \in DOMAIN seq THEN seq[b - ShadowOf(to) + 1] ELSE bytes[b]
  BY <1>2 DEF Poked
<1>6. QED
  BY <1>4, <1>5 DEF b

LEMMA PokedElsewhere ==
  ASSUME OffsetTypeOK, NEW to \in ProgramSpace, NEW n \in Nat, to .. to + n - 1 \subseteq ProgramSpace,
         NEW k \in ProgramSpace, k \notin to .. to + n - 1, NEW i \in 1 .. ratio,
         NEW seq, DOMAIN seq \subseteq 1 .. ratio * n
  PROVE  Poked(ShadowOf(to), seq)[ShadowOf(k) + i - 1] = bytes[ShadowOf(k) + i - 1]
<1>1. ratio \in {1, 2, 3} /\ to \in Nat /\ k \in Nat
  BY SizeFacts, AlignInSpace
<1> DEFINE b == ShadowOf(k) + i - 1
<1>2. b \in Mapped(ratio) /\ ShadowOf(to) \in Int /\ ShadowOf(k) \in Int
  BY <1>1, CellPlace
<1>3. b - ShadowOf(to) + 1 \notin 1 .. ratio * n
  <2>1. CASE k < to
    <3>1. ShadowOf(k) + ratio <= ShadowOf(to)
      BY <1>1, <2>1, Apart DEF ShadowOf
    <3>2. QED
      BY <1>1, <1>2, <3>1
  <2>2. CASE to <= k /\ n = 0
    BY <1>1, <1>2, <2>2
  <2>3. CASE to <= k /\ n # 0
    <3> DEFINE l == to + n - 1
    <3>1. l \in to .. to + n - 1 /\ l \in ProgramSpace /\ l < k /\ l - to = n - 1
      BY <1>1, <2>3
    <3>2. ShadowOf(l) = ShadowOf(to) + ratio * (l - to)
      BY <3>1, RunPlace
    <3>3. ShadowOf(l) + ratio <= ShadowOf(k)
      <4> HIDE DEF l
      <4>1. QED
        BY <1>1, <3>1, Apart DEF ShadowOf
    <3>4. ratio * (n - 1) = ratio * n - ratio /\ ratio * n \in Int
      BY <1>1
    <3> HIDE DEF l
    <3>5. ShadowOf(to) + ratio * n <= ShadowOf(k)
      BY <1>1, <1>2, <3>1, <3>2, <3>3, <3>4
    <3>6. QED
      BY <1>1, <1>2, <3>4, <3>5
  <2>4. QED
    BY <1>1, <2>1, <2>2, <2>3
<1> HIDE DEF b
<1>4. Poked(ShadowOf(to), seq)[b] = bytes[b]
  BY <1>2, <1>3 DEF Poked
<1>5. QED
  BY <1>4 DEF b

LEMMA PokedBytes ==
  ASSUME OffsetTypeOK, NEW at, NEW seq, \A i \in DOMAIN seq : seq[i] \in Bits
  PROVE  Poked(at, seq) \in [Mapped(ratio) -> Bits]
BY DEF OffsetTypeOK, Poked

LEMMA CellBytes ==
  ASSUME OffsetInv, NEW k \in Anchored, k \notin unsure, NEW i \in 1 .. ratio
  PROVE  bytes[ShadowOf(k) + i - 1] = wanted[k][i]
<1>1. k \in DOMAIN wanted
  BY SizeFacts DEF OffsetInv
<1>2. CellAt(k) = wanted[k]
  BY <1>1 DEF OffsetInv, CellsRead
<1>3. QED
  BY <1>2 DEF CellAt

(* A step keeps the invariant when every granule that is not in doubt      *)
(* reads what is wanted after it.                                          *)
LEMMA BytesRight ==
  ASSUME OffsetTypeOK, ratio' = ratio, grain' = grain,
         bytes' \in [Mapped(ratio) -> Bits], wanted' \in [Anchored -> [1 .. ratio -> Bits]],
         unsure' \in SUBSET Anchored,
         \A k \in Anchored : k \notin unsure' =>
           \A i \in 1 .. ratio : bytes'[ShadowOf(k) + i - 1] = wanted'[k][i]
  PROVE  OffsetInv'
<1>1. {Align(key) : key \in InUse}' = Anchored
  BY DEF Anchored, Align
<1>2. Mapped(ratio)' = Mapped(ratio) /\ \A k : ShadowOf(k)' = ShadowOf(k)
  BY DEF Mapped, ShadowOf
<1>3. OffsetTypeOK'
  BY <1>1, <1>2 DEF OffsetTypeOK, Bits
<1>4. ASSUME NEW k \in Anchored, k \notin unsure' PROVE CellAt(k)' = wanted'[k]
  <2>1. CellAt(k)' = [i \in 1 .. ratio |-> bytes'[ShadowOf(k) + i - 1]]
    BY <1>2 DEF CellAt
  <2>2. wanted'[k] \in [1 .. ratio -> Bits]
    BY <1>4
  <2>3. \A i \in 1 .. ratio : bytes'[ShadowOf(k) + i - 1] = wanted'[k][i]
    BY <1>4
  <2>4. QED
    BY <2>1, <2>2, <2>3
<1>5. CellsRead'
  BY <1>4 DEF CellsRead
<1>6. QED
  BY <1>3, <1>5 DEF OffsetInv
(* The granules a range covers are those that start in it and, when it     *)
(* starts inside one, that one.                                            *)
LEMMA AnchorsOfRange ==
  ASSUME OffsetTypeOK, NEW to \in Nat, NEW n \in Nat, NEW k \in Anchored, k \notin {Align(to)} \ {to}
  PROVE  k \in Anchors(to, n) <=> k \in to .. to + n - 1
<1>1. grain \in Nat \ {0} /\ k \in Nat /\ Align(k) = k
  BY SizeFacts, AnchoredFacts
<1>2. k \in to .. to + n - 1 => k \in Anchors(to, n)
  BY <1>1 DEF Anchors
<1>3. ASSUME NEW x \in to .. to + n - 1, k = Align(x) PROVE k \in to .. to + n - 1
  <2>1. x \in Nat /\ to <= x /\ k <= x
    BY <1>1, <1>3, AlignFacts
  <2>2. CASE k < to
    <3>1. Align(to) = Align(x)
      BY <1>1, <1>3, <2>1, <2>2, AlignTwice
    <3>2. QED
      BY <1>1, <1>3, <2>2, <3>1
  <2>3. QED
    BY <1>1, <1>3, <2>1, <2>2
<1>4. QED
  BY <1>2, <1>3 DEF Anchors

LEMMA AnchorsAnchored ==
  ASSUME NEW to, NEW n, to .. to + n - 1 \subseteq InUse
  PROVE  Anchors(to, n) \subseteq Anchored
BY DEF Anchors, Anchored

LEMMA InUseFacts == InUse \subseteq ProgramSpace
BY OffsetMapAssumption DEF ProgramSpace, Low

(* A range written with one value *)
LEMMA RowKeeps ==
  ASSUME OffsetInv, NEW to \in ProgramSpace, NEW n \in Nat, to .. to + n - 1 \subseteq ProgramSpace,
         NEW v \in Bits, NEW goal, NEW doubt \in SUBSET Anchored,
         bytes' = Poked(ShadowOf(to), RowOf(v, n)), Leaves(goal, Uniform(v), doubt),
         \A k \in Anchored : k \notin doubt => (k \in goal <=> k \in to .. to + n - 1)
  PROVE  OffsetInv'
<1>1. /\ OffsetTypeOK /\ ratio \in {1, 2, 3} /\ ratio \in Nat /\ DOMAIN wanted = Anchored /\ to \in Nat
  BY SizeFacts, AlignInSpace DEF OffsetInv
<1>2. /\ wanted' = [k \in Anchored |-> IF k \in goal THEN Uniform(v) ELSE wanted[k]]
      /\ unsure' = (unsure \ goal) \cup doubt
      /\ ratio' = ratio /\ grain' = grain
  BY <1>1 DEF Leaves
<1>3. DOMAIN RowOf(v, n) = 1 .. ratio * n /\ \A i \in DOMAIN RowOf(v, n) : RowOf(v, n)[i] = v
  BY <1>1 DEF RowOf
<1>4. bytes' \in [Mapped(ratio) -> Bits]
  BY <1>1, <1>3, PokedBytes
<1>5. wanted' \in [Anchored -> [1 .. ratio -> Bits]]
  BY <1>1, <1>2 DEF OffsetTypeOK, Uniform
<1>6. ASSUME NEW k \in Anchored, k \notin unsure', NEW i \in 1 .. ratio
      PROVE  bytes'[ShadowOf(k) + i - 1] = wanted'[k][i]
  <2>1. k \in ProgramSpace /\ k \in Nat
    BY <1>1, AnchoredFacts
  <2>2. CASE k \in to .. to + n - 1
    <3>1. wanted'[k][i] = v
      BY <1>2, <1>6, <2>2 DEF Uniform
    <3>2. ratio * (k - to) + i \in 1 .. ratio * n
      <4> DEFINE j == k - to
      <4>1. j \in 0 .. n - 1 /\ j + 1 <= n
        BY <1>1, <2>2
      <4> HIDE DEF j
      <4>2. ratio * (j + 1) <= ratio * n /\ ratio * (j + 1) = ratio * j + ratio /\ ratio * j \in Nat
        BY <1>1, <4>1, TimesMonotone
      <4>3. ratio * n \in Nat
        BY <1>1
      <4>4. QED
        BY <1>1, <4>2, <4>3 DEF j
    <3>3. bytes'[ShadowOf(k) + i - 1] = RowOf(v, n)[ratio * (k - to) + i]
      BY <1>1, <1>2, <1>3, <2>2, <3>2, PokedHere
    <3>4. QED
      BY <1>3, <3>1, <3>2, <3>3
  <2>3. CASE k \notin to .. to + n - 1
    <3>1. bytes'[ShadowOf(k) + i - 1] = bytes[ShadowOf(k) + i - 1]
      BY <1>1, <1>3, <2>1, <2>3, PokedElsewhere
    <3>2. wanted'[k] = wanted[k] /\ k \notin unsure
      BY <1>2, <1>6, <2>3
    <3>3. QED
      BY <3>1, <3>2, CellBytes
  <2>4. QED
    BY <2>2, <2>3
<1>7. unsure' \in SUBSET Anchored
  BY <1>1, <1>2 DEF OffsetTypeOK
<1>8. QED
  BY <1>1, <1>2, <1>4, <1>5, <1>6, <1>7, BytesRight

(* get(k) = v *)
LEMMA PutKeeps ==
  ASSUME OffsetInv, NEW key \in InUse, NEW v \in Bits, PutCell(key, v)
  PROVE  OffsetInv'
<1> DEFINE to == Align(key)
<1>1. OffsetTypeOK /\ ratio \in Nat
  BY SizeFacts DEF OffsetInv
<1>2. to \in ProgramSpace /\ to \in Nat
  BY <1>1, InUseFacts, AlignInSpace
<1>3. bytes' = Poked(ShadowOf(to), Uniform(v)) /\ Leaves({to}, Uniform(v), {})
  BY DEF PutCell
<1> HIDE DEF to
<1>4. RowOf(v, 1) = Uniform(v)
  BY <1>1 DEF RowOf, Uniform
<1>5. to .. to + 1 - 1 = {to}
  BY <1>2
<1>6. QED
  BY <1>2, <1>3, <1>4, <1>5, RowKeeps

(* add_range() *)
LEMMA AddBytesKeeps ==
  ASSUME OffsetInv, NEW key \in InUse, NEW size \in Nat, key .. key + size - 1 \subseteq InUse,
         NEW v \in Bits, AddRangeBytes(key, size, v)
  PROVE  OffsetInv'
<1>1. OffsetTypeOK /\ key \in ProgramSpace /\ key \in Nat
  BY InUseFacts, AlignInSpace DEF OffsetInv
<1>2. key .. key + size - 1 \subseteq ProgramSpace
  BY InUseFacts
<1>3. /\ bytes' = Poked(ShadowOf(key), RowOf(v, size))
      /\ Leaves(Anchors(key, size), Uniform(v), {Align(key)} \ {key})
  BY DEF AddRangeBytes
<1>4. {Align(key)} \ {key} \in SUBSET Anchored
  BY DEF Anchored
<1>5. \A k \in Anchored : k \notin {Align(key)} \ {key} =>
        (k \in Anchors(key, size) <=> k \in key .. key + size - 1)
  BY <1>1, AnchorsOfRange
<1>6. QED
  BY <1>1, <1>2, <1>3, <1>4, <1>5, RowKeeps

(* set(k, v, size) of whole granules *)
LEMMA RoundedKeeps ==
  ASSUME OffsetInv, NEW key \in InUse, NEW size \in Nat, NEW v \in Bits, SetRounded(key, size, v)
  PROVE  OffsetInv'
<1> DEFINE to == Align(key)
           n == RoundUp(size)
<1>1. OffsetTypeOK /\ grain \in Nat \ {0} /\ key \in Nat
  BY SizeFacts, InUseFacts, AlignInSpace DEF OffsetInv
<1>2. to \in ProgramSpace /\ to \in Nat /\ Align(to) = to
  BY <1>1, InUseFacts, AlignInSpace, AlignFacts, AlignTwice
<1>3. n \in Nat
  <2>1. size + grain - 1 \in Nat
    BY <1>1
  <2>2. (size + grain - 1) \div grain \in Nat
    BY <1>1, <2>1, DivBounds
  <2>3. QED
    BY <1>1, <2>2 DEF RoundUp
<1>4. /\ \A i \in 0 .. n - 1 : to + i \in ProgramSpace
      /\ bytes' = Poked(ShadowOf(to), RowOf(v, n))
      /\ Leaves(Anchors(to, n), Uniform(v), {})
  BY DEF SetRounded
<1> HIDE DEF to, n
<1>5. to .. to + n - 1 \subseteq ProgramSpace
  <2>1. \A x \in to .. to + n - 1 : x - to \in 0 .. n - 1 /\ x = to + (x - to)
    BY <1>2, <1>3
  <2>2. QED
    BY <1>4, <2>1
<1>6. \A k \in Anchored : k \in Anchors(to, n) <=> k \in to .. to + n - 1
  BY <1>1, <1>2, <1>3, AnchorsOfRange
<1>7. QED
  BY <1>2, <1>3, <1>4, <1>5, <1>6, RowKeeps
(* What the loop of OffsetNext writes byte by byte *)
LEMMA ByteSequence ==
  ASSUME NEW v \in Bits, NEW w \in Bits, NEW n \in {1, 2}, NEW seq, seq = SubSeq(<<v, w>>, 1, n)
  PROVE  /\ Len(seq) = n /\ DOMAIN seq = 1 .. n
         /\ \A i \in 1 .. n : seq[i] \in Bits
<1>1. <<v, w>> \in Seq(Bits) /\ Len(<<v, w>>) = 2
  OBVIOUS
<1>2. CASE n = 1
  BY <1>1, <1>2
<1>3. CASE n = 2
  BY <1>1, <1>3
<1>4. QED
  BY <1>2, <1>3

(* set(k, v, size) of bytes where cells and granules are bytes *)
LEMMA ExactKeeps ==
  ASSUME OffsetInv, NEW key \in InUse, NEW n \in Nat, key .. key + n - 1 \subseteq InUse,
         NEW seq, Len(seq) = n, DOMAIN seq = 1 .. n, \A i \in 1 .. n : seq[i] \in Bits,
         SetSizedExact(key, seq)
  PROVE  OffsetInv'
<1>1. /\ OffsetTypeOK /\ key \in ProgramSpace /\ key \in Nat /\ grain = 1 /\ ratio = 1
      /\ DOMAIN wanted = Anchored
  BY InUseFacts, AlignInSpace, SizeFacts DEF OffsetInv, SetSizedExact
<1>2. key .. key + n - 1 \subseteq ProgramSpace
  BY InUseFacts
<1>3. Align(key) = key
  <2>1. Align(key) \in Nat /\ Align(key) <= key /\ key < Align(key) + 1
    BY <1>1, AlignFacts
  <2>2. QED
    BY <1>1, <2>1
<1>4. /\ bytes' = Poked(ShadowOf(key), seq)
      /\ wanted' = [k \in Anchored |-> IF k - key + 1 \in 1 .. n THEN <<seq[k - key + 1]>> ELSE wanted[k]]
      /\ unsure' = unsure \ (key .. key + n - 1)
      /\ ratio' = ratio /\ grain' = grain
  BY <1>1, <1>3 DEF SetSizedExact
<1>5. bytes' \in [Mapped(ratio) -> Bits]
  BY <1>1, <1>4, PokedBytes
<1>6. wanted' \in [Anchored -> [1 .. ratio -> Bits]]
  <2>1. ASSUME NEW k \in Anchored PROVE wanted'[k] \in [1 .. 1 -> Bits]
    <3>1. wanted[k] \in [1 .. 1 -> Bits]
      BY <1>1 DEF OffsetTypeOK
    <3>2. \A x \in Bits : <<x>> \in [1 .. 1 -> Bits]
      OBVIOUS
    <3>3. QED
      BY <1>4, <3>1, <3>2
  <2>2. QED
    BY <1>1, <1>4, <2>1
<1>7. ASSUME NEW k \in Anchored, k \notin unsure', NEW i \in 1 .. ratio
      PROVE  bytes'[ShadowOf(k) + i - 1] = wanted'[k][i]
  <2>1. k \in ProgramSpace /\ k \in Nat /\ i = 1
    BY <1>1, AnchoredFacts
  <2>2. CASE k \in key .. key + n - 1
    <3>1. k - key + 1 \in 1 .. n /\ 1 * (k - key) + 1 = k - key + 1
      BY <1>1, <2>1, <2>2
    <3>2. bytes'[ShadowOf(k) + i - 1] = seq[k - key + 1]
      BY <1>1, <1>2, <1>4, <2>1, <2>2, <3>1, PokedHere
    <3>3. wanted'[k] = <<seq[k - key + 1]>>
      BY <1>4, <3>1
    <3>4. QED
      BY <2>1, <3>2, <3>3
  <2>3. CASE k \notin key .. key + n - 1
    <3>1. k - key + 1 \notin 1 .. n
      BY <1>1, <2>1, <2>3
    <3>2. DOMAIN seq \subseteq 1 .. ratio * n
      BY <1>1
    <3>3. bytes'[ShadowOf(k) + i - 1] = bytes[ShadowOf(k) + i - 1]
      BY <1>1, <1>2, <1>4, <2>1, <2>3, <3>2, PokedElsewhere
    <3>4. wanted'[k] = wanted[k] /\ k \notin unsure
      BY <1>4, <1>7, <2>3, <3>1
    <3>5. QED
      BY <3>3, <3>4, CellBytes
  <2>4. QED
    BY <2>2, <2>3
<1>8. unsure' \in SUBSET Anchored
  BY <1>1, <1>4 DEF OffsetTypeOK
<1>9. QED
  BY <1>1, <1>4, <1>5, <1>6, <1>7, <1>8, BytesRight

(* A write that leaves its range in doubt leaves the others alone. *)
LEMMA DoubtKeeps ==
  ASSUME OffsetInv, NEW to \in ProgramSpace, NEW n \in Nat, to .. to + n - 1 \subseteq ProgramSpace,
         NEW seq, DOMAIN seq = 1 .. n, \A i \in 1 .. n : seq[i] \in Bits,
         bytes' = Poked(ShadowOf(to), seq), NEW x, NEW doubt \in SUBSET Anchored, Leaves({}, x, doubt),
         \A k \in Anchored : k \in to .. to + n - 1 => k \in doubt
  PROVE  OffsetInv'
<1>1. OffsetTypeOK /\ ratio \in {1, 2, 3} /\ DOMAIN wanted = Anchored
  BY SizeFacts DEF OffsetInv
<1>2. wanted' = wanted /\ unsure' = unsure \cup doubt /\ ratio' = ratio /\ grain' = grain
  BY <1>1 DEF Leaves, OffsetTypeOK, Anchored
<1>3. bytes' \in [Mapped(ratio) -> Bits]
  BY <1>1, PokedBytes
<1>4. DOMAIN seq \subseteq 1 .. ratio * n
  <2>1. n <= ratio * n /\ ratio * n \in Nat
    BY <1>1
  <2>2. QED
    BY <2>1
<1>5. ASSUME NEW k \in Anchored, k \notin unsure', NEW i \in 1 .. ratio
      PROVE  bytes'[ShadowOf(k) + i - 1] = wanted'[k][i]
  <2>1. k \in ProgramSpace /\ k \notin to .. to + n - 1 /\ k \notin unsure
    BY <1>1, <1>2, <1>5, AnchoredFacts
  <2>2. Poked(ShadowOf(to), seq)[ShadowOf(k) + i - 1] = bytes[ShadowOf(k) + i - 1]
    <3>1. OffsetTypeOK /\ DOMAIN seq \subseteq 1 .. ratio * n
      BY <1>1, <1>4
    <3>2. k \in ProgramSpace /\ k \notin to .. to + n - 1
      BY <2>1
    <3>3. QED
      BY <3>1, <3>2, PokedElsewhere
  <2>3. bytes'[ShadowOf(k) + i - 1] = bytes[ShadowOf(k) + i - 1]
    BY <2>2
  <2>4. QED
    BY <1>2, <2>1, <2>3, CellBytes
<1>6. wanted' \in [Anchored -> [1 .. ratio -> Bits]] /\ unsure' \in SUBSET Anchored
  BY <1>1, <1>2 DEF OffsetTypeOK, Anchored
<1>7. QED
  BY <1>1, <1>2, <1>3, <1>5, <1>6, BytesRight

(* set(k, v, size) of bytes where cells or granules are longer *)
LEMMA WideKeeps ==
  ASSUME OffsetInv, NEW key \in InUse, NEW n \in {1, 2},
         NEW seq, Len(seq) = n, DOMAIN seq = 1 .. n, \A i \in 1 .. n : seq[i] \in Bits,
         SetSizedWide(key, seq)
  PROVE  OffsetInv'
<1> DEFINE to == Align(key)
           doubt == {k \in Anchored : to <= k /\ k < to + n}
<1>1. OffsetTypeOK /\ DOMAIN wanted = Anchored
  BY SizeFacts DEF OffsetInv
<1>2. to \in ProgramSpace /\ to \in Nat
  BY <1>1, InUseFacts, AlignInSpace
<1>3. /\ to + n - 1 \in ProgramSpace
      /\ bytes' = Poked(ShadowOf(to), seq)
      /\ Leaves({}, Uniform(0), doubt)
  BY <1>1 DEF SetSizedWide
<1>4. \A k \in Anchored : k \in to .. to + n - 1 => k \in doubt
  BY <1>2
<1>5. doubt \in SUBSET Anchored
  OBVIOUS
<1> HIDE DEF to, doubt
<1>6. to .. to + n - 1 \subseteq ProgramSpace
  <2>1. \A x \in to .. to + n - 1 : x = to \/ x = to + n - 1
    BY <1>2
  <2>2. QED
    BY <1>2, <1>3, <2>1
<1>7. QED
  BY <1>2, <1>3, <1>4, <1>5, <1>6, DoubtKeeps
(* The loop of a fused map's range call starts at granules of the range;   *)
(* at all of them, if the range starts with one.                           *)
LEMMA StartsInRange ==
  ASSUME grain \in Nat \ {0}, NEW key \in Nat, NEW size \in Nat, NEW count, count = RoundUp(size) \div grain
  PROVE  /\ count \in Nat
         /\ \A i \in 0 .. count - 1 : key + i * grain \in key .. key + size - 1
         /\ size <= grain * count
<1> DEFINE e == size + grain - 1
           q == e \div grain
<1>1. e \in Nat
  OBVIOUS
<1>2. q \in Nat /\ grain * q <= e /\ e < grain * (q + 1)
  BY <1>1, DivBounds
<1>3. count = q
  <2>1. RoundUp(size) = q * grain
    BY DEF RoundUp
  <2>2. q * grain = 0 + q * grain /\ 0 \div grain = 0
    BY <1>2
  <2> HIDE DEF q
  <2>3. (0 + q * grain) \div grain = (0 \div grain) + q
    BY <1>2, DivShift
  <2>4. QED
    BY <1>2, <2>1, <2>2, <2>3
<1> HIDE DEF q
<1>4. grain * (q + 1) = grain * q + grain /\ grain * q \in Nat
  BY <1>2
<1>5. grain * q <= size + grain - 1 /\ size <= grain * q
  BY <1>1, <1>2, <1>4
<1>6. ASSUME NEW i \in 0 .. q - 1 PROVE key + i * grain \in key .. key + size - 1
  <2>1. i \in Nat /\ grain * (i + 1) <= grain * q
    BY <1>2, TimesMonotone
  <2>2. grain * (i + 1) = i * grain + grain /\ i * grain \in Nat
    BY <2>1
  <2>3. i * grain < size
    BY <1>4, <1>5, <2>1, <2>2
  <2>4. QED
    BY <2>2, <2>3
<1>7. QED
  BY <1>2, <1>3, <1>5, <1>6

LEMMA StartsAll ==
  ASSUME grain \in Nat \ {0}, NEW key \in Nat, Align(key) = key, NEW size \in Nat,
         NEW count, count = RoundUp(size) \div grain
  PROVE  Anchors(key, size) = {Align(key + i * grain) : i \in 0 .. count - 1}
<1>1. /\ count \in Nat /\ size <= grain * count
      /\ \A i \in 0 .. count - 1 : key + i * grain \in key .. key + size - 1
  BY StartsInRange
<1>2. ASSUME NEW x \in key .. key + size - 1
      PROVE  \E i \in 0 .. count - 1 : Align(x) = Align(key + i * grain)
  <2> DEFINE p == key \div grain
             q == x \div grain
             i == q - p
  <2>1. x \in Nat /\ key <= x /\ x < key + size
    OBVIOUS
  <2>2. p \in Nat /\ q \in Nat /\ p <= q
    BY <2>1, DivBounds, DivMonotone
  <2>3. key = grain * p /\ Align(x) = grain * q /\ Align(x) <= x
    BY <2>1, AlignFacts
  <2> HIDE DEF p, q
  <2>4. i \in Nat /\ grain * q = grain * p + i * grain /\ i * grain \in Nat /\ i * grain = grain * i
    BY <2>2
  <2>5. i \in Nat /\ i * grain < grain * count
    BY <1>1, <2>1, <2>3, <2>4
  <2>6. i < count
    <3> HIDE DEF i
    <3>1. SUFFICES ASSUME count <= i PROVE FALSE
      BY <1>1, <2>5
    <3>2. grain * count <= grain * i /\ grain * i = i * grain
      BY <1>1, <2>5, <3>1, TimesMonotone
    <3>3. i * grain \in Int /\ grain * count \in Int
      BY <1>1, <2>5
    <3>4. QED
      BY <2>5, <3>2, <3>3
  <2>7. key + i * grain = Align(x)
    BY <2>3, <2>4
  <2>8. Align(Align(x)) = Align(x)
    BY <2>1, AlignFacts, AlignTwice
  <2>9. i \in 0 .. count - 1
    BY <1>1, <2>4, <2>6
  <2>10. QED
    BY <2>7, <2>8, <2>9
<1>3. QED
  BY <1>1, <1>2 DEF Anchors

(* The range calls of a fused map *)
LEMMA FusedKeeps ==
  ASSUME OffsetInv, NEW key \in InUse, NEW size \in Nat, key .. key + size - 1 \subseteq InUse,
         NEW off \in 0 .. 2, NEW n \in 1 .. 3, NEW v \in Bits, FillFused(key, size, off, n, v)
  PROVE  OffsetInv'
<1> DEFINE count == RoundUp(size) \div grain
           firsts == {Align(key + i * grain) : i \in 0 .. count - 1}
           hit == {ShadowOf(k) + off + j : k \in firsts, j \in 0 .. n - 1}
           goal == Anchors(key, size)
<1>1. /\ OffsetTypeOK /\ ratio \in {1, 2, 3} /\ DOMAIN wanted = Anchored /\ grain \in Nat \ {0}
      /\ key \in Nat
  BY SizeFacts, InUseFacts, AlignInSpace DEF OffsetInv
<1>2. /\ off + n <= ratio
      /\ bytes' = [b \in Mapped(ratio) |-> IF b \in hit THEN v ELSE bytes[b]]
      /\ wanted' = [k \in Anchored |->
                     IF k \in goal THEN [i \in 1 .. ratio |-> IF i - 1 \in off .. off + n - 1 THEN v ELSE wanted[k][i]]
                     ELSE wanted[k]]
      /\ unsure' = unsure \cup (IF key = Align(key) THEN {} ELSE goal)
      /\ ratio' = ratio /\ grain' = grain
  <2>1. {s + off + j : s \in {ShadowOf(Align(key + i * grain)) : i \in 0 .. count - 1}, j \in 0 .. n - 1} = hit
    OBVIOUS
  <2>2. /\ off + n <= ratio
        /\ bytes' = [b \in Mapped(ratio) |-> IF b \in hit THEN v ELSE bytes[b]]
    BY <2>1 DEF FillFused
  <2>3. wanted' = [k \in DOMAIN wanted |->
                     IF k \in goal THEN [i \in 1 .. ratio |-> IF i - 1 \in off .. off + n - 1 THEN v ELSE wanted[k][i]]
                     ELSE wanted[k]]
    BY DEF FillFused
  <2>4. /\ unsure' = unsure \cup (IF key = Align(key) THEN {} ELSE goal)
        /\ ratio' = ratio /\ grain' = grain
    BY DEF FillFused
  <2>5. QED
    BY <1>1, <2>2, <2>3, <2>4
<1>3. goal \subseteq Anchored
  BY AnchorsAnchored
<1>4. firsts \subseteq goal
  <2>1. \A i \in 0 .. count - 1 : key + i * grain \in key .. key + size - 1
    BY <1>1, StartsInRange
  <2>2. QED
    BY <2>1 DEF Anchors
<1>5. key = Align(key) => firsts = goal
  BY <1>1, StartsAll
<1> HIDE DEF count, firsts, goal
<1>6. ASSUME NEW k \in Anchored, k \notin unsure', NEW i \in 1 .. ratio
      PROVE  bytes'[ShadowOf(k) + i - 1] = wanted'[k][i]
  <2>1. k \in ProgramSpace /\ ShadowOf(k) \in Int /\ ShadowOf(k) + i - 1 \in Mapped(ratio)
    BY <1>1, AnchoredFacts, CellPlace
  <2>2. bytes[ShadowOf(k) + i - 1] = wanted[k][i]
    BY <1>2, <1>6, CellBytes
  <2>3. k \in goal <=> k \in firsts
    BY <1>2, <1>4, <1>5, <1>6
  <2>4. ASSUME k \in firsts, i - 1 \in off .. off + n - 1 PROVE ShadowOf(k) + i - 1 \in hit
    <3> DEFINE j == i - 1 - off
    <3>1. j \in 0 .. n - 1 /\ ShadowOf(k) + i - 1 = ShadowOf(k) + off + j
      BY <1>1, <2>1, <2>4
    <3>2. QED
      BY <2>4, <3>1
  <2>5. ASSUME ShadowOf(k) + i - 1 \in hit PROVE k \in firsts /\ i - 1 \in off .. off + n - 1
    <3>1. PICK l \in firsts, j \in 0 .. n - 1 : ShadowOf(k) + i - 1 = ShadowOf(l) + off + j
      BY <2>5
    <3>2. l \in ProgramSpace /\ l \in Anchored
      BY <1>1, <1>3, <1>4, AnchoredFacts
    <3>3. off + j + 1 \in 1 .. ratio
      BY <1>1, <1>2
    <3>4. ShadowOf(l) \in Int /\ ShadowOf(k) + i - 1 = ShadowOf(l) + (off + j + 1) - 1
      BY <1>1, <3>1, <3>2, <3>3, CellPlace
    <3>5. k = l /\ i = off + j + 1
      BY <1>1, <2>1, <3>2, <3>3, <3>4, CellsDiffer
    <3>6. QED
      BY <1>1, <3>5
  <2> HIDE DEF hit
  <2>6. bytes'[ShadowOf(k) + i - 1] = IF ShadowOf(k) + i - 1 \in hit THEN v ELSE wanted[k][i]
    BY <1>2, <2>1, <2>2
  <2>7. wanted'[k][i] = IF k \in goal /\ i - 1 \in off .. off + n - 1 THEN v ELSE wanted[k][i]
    BY <1>2
  <2>8. QED
    BY <2>3, <2>4, <2>5, <2>6, <2>7
<1>7. bytes' \in [Mapped(ratio) -> Bits]
  BY <1>1, <1>2 DEF OffsetTypeOK
<1>8. wanted' \in [Anchored -> [1 .. ratio -> Bits]]
  <2>1. wanted \in [Anchored -> [1 .. ratio -> Bits]]
    BY <1>1 DEF OffsetTypeOK, Anchored
  <2>2. QED
    BY <1>2, <2>1
<1>9. unsure' \in SUBSET Anchored
  BY <1>1, <1>2, <1>3 DEF OffsetTypeOK
<1>10. QED
  BY <1>1, <1>2, <1>6, <1>7, <1>8, <1>9, BytesRight
(* cpy_range() and move_range() *)
LEMMA CopyBytesKeeps ==
  ASSUME OffsetInv, NEW to \in InUse, NEW from \in InUse, NEW n \in Nat \ {0},
         to .. to + n - 1 \subseteq InUse, from .. from + n - 1 \subseteq InUse, CopyBytes(to, from, n)
  PROVE  OffsetInv'
<1> DEFINE seq == [i \in 1 .. n |-> bytes[ShadowOf(from) + i - 1]]
<1>1. /\ OffsetTypeOK /\ ratio \in {1, 2, 3} /\ DOMAIN wanted = Anchored /\ grain \in Nat \ {0}
      /\ to \in Nat /\ from \in Nat /\ to \in ProgramSpace /\ from \in ProgramSpace
  BY SizeFacts, InUseFacts, AlignInSpace DEF OffsetInv
<1>2. to .. to + n - 1 \subseteq ProgramSpace /\ from .. from + n - 1 \subseteq ProgramSpace
  BY InUseFacts
<1>3. bytes' = Poked(ShadowOf(to), seq)
  BY DEF CopyBytes
<1>4. \A i \in 1 .. n : seq[i] \in Bits
  <2>1. SUFFICES ASSUME NEW i \in 1 .. n PROVE ShadowOf(from) + i - 1 \in Mapped(ratio)
    BY <1>1 DEF OffsetTypeOK
  <2> DEFINE last == from + n - 1
  <2>2. last \in from .. from + n - 1 /\ last \in ProgramSpace /\ last - from = n - 1
    BY <1>1, <1>2
  <2>3. ShadowOf(last) = ShadowOf(from) + ratio * (last - from)
    BY <1>1, <1>2, <2>2, RunPlace
  <2>4. /\ ShadowOf(from) \in Int /\ ShadowOf(from) + 1 - 1 \in Mapped(ratio)
        /\ ShadowOf(last) + ratio - 1 \in Mapped(ratio)
    <3>1. 1 \in 1 .. ratio /\ ratio \in 1 .. ratio
      BY <1>1
    <3> HIDE DEF last
    <3>2. QED
      BY <1>1, <2>2, <3>1, CellPlace
  <2>5. ratio * (n - 1) >= n - 1 /\ ratio * (n - 1) \in Int
    BY <1>1
  <2> HIDE DEF last
  <2>6. ShadowOf(from) <= ShadowOf(from) + i - 1 /\ ShadowOf(from) + i - 1 <= ShadowOf(last) + ratio - 1
    BY <1>1, <2>2, <2>3, <2>4, <2>5
  <2>7. QED
    BY <1>1, <2>4, <2>6, BlockFacts DEF Mapped, Middle, Low
<1>5. DOMAIN seq = 1 .. n
  OBVIOUS
<1>6. CASE ratio = 1 /\ grain = 1
  <2>1. /\ wanted' = [k \in Anchored |-> IF k \in to .. to + n - 1 THEN wanted[from + (k - to)] ELSE wanted[k]]
        /\ unsure' = {k \in Anchored :
                        IF k \in to .. to + n - 1 THEN from + (k - to) \in unsure ELSE k \in unsure}
        /\ ratio' = ratio /\ grain' = grain
    BY <1>1, <1>6 DEF CopyBytes
  <2>2. ASSUME NEW k \in to .. to + n - 1
        PROVE  /\ from + (k - to) \in from .. from + n - 1
               /\ from + (k - to) \in Anchored
    <3> DEFINE l == from + (k - to)
    <3>1. l \in from .. from + n - 1 /\ l \in InUse /\ l \in Nat
      BY <1>1
    <3> HIDE DEF l
    <3>2. Align(l) = l
      <4>1. Align(l) \in Nat /\ Align(l) <= l /\ l < Align(l) + 1
        BY <1>1, <1>6, <3>1, AlignFacts
      <4>2. QED
        BY <3>1, <4>1
    <3>3. l \in Anchored
      BY <3>1, <3>2 DEF Anchored
    <3>4. QED
      BY <3>1, <3>3 DEF l
  <2>3. ASSUME NEW k \in Anchored, k \notin unsure', NEW i \in 1 .. ratio
        PROVE  bytes'[ShadowOf(k) + i - 1] = wanted'[k][i]
    <3>1. k \in ProgramSpace /\ k \in Nat /\ i = 1
      BY <1>1, <1>6, AnchoredFacts
    <3>2. CASE k \in to .. to + n - 1
      <4> DEFINE l == from + (k - to)
      <4>1. l \in from .. from + n - 1 /\ l \in Anchored /\ l - from = k - to
        BY <1>1, <2>2, <3>1, <3>2
      <4>2. wanted'[k] = wanted[l] /\ l \notin unsure
        BY <2>1, <2>3, <3>2
      <4>3. ratio * (k - to) + i = k - to + 1 /\ k - to + 1 \in 1 .. n
        BY <1>1, <1>6, <3>1, <3>2
      <4>4. Poked(ShadowOf(to), seq)[ShadowOf(k) + i - 1] = seq[k - to + 1]
        <5> HIDE DEF seq
        <5>1. Poked(ShadowOf(to), seq)[ShadowOf(k) + i - 1] =
                IF ratio * (k - to) + i \in DOMAIN seq THEN seq[ratio * (k - to) + i]
                ELSE bytes[ShadowOf(k) + i - 1]
          <6> HIDE DEF l
          <6>1. OffsetTypeOK /\ to \in ProgramSpace /\ n \in Nat
            BY <1>1
          <6>2. QED
            BY <1>2, <3>2, <6>1, PokedHere
        <5>2. QED
          BY <1>5, <4>3, <5>1
      <4>5. seq[k - to + 1] = bytes[ShadowOf(from) + (k - to + 1) - 1]
        BY <4>3
      <4>6. ShadowOf(l) = ShadowOf(from) + ratio * (l - from) /\ ShadowOf(from) \in Int
        <5>1. 1 \in 1 .. ratio
          BY <1>6
        <5>2. ShadowOf(from) \in Int
          BY <1>1, <5>1, CellPlace
        <5> HIDE DEF l
        <5>3. QED
          BY <1>1, <1>2, <4>1, <5>2, RunPlace
      <4>7. ShadowOf(from) + (k - to + 1) - 1 = ShadowOf(l) + i - 1
        <5>1. ratio * (l - from) = k - to
          BY <1>1, <1>6, <3>1, <4>1
        <5> HIDE DEF l
        <5>2. QED
          BY <1>1, <3>1, <4>6, <5>1
      <4>8. bytes[ShadowOf(l) + i - 1] = wanted[l][i]
        <5> HIDE DEF l
        <5>1. QED
          BY <4>1, <4>2, CellBytes
      <4>9. QED
        BY <1>3, <4>2, <4>4, <4>5, <4>7, <4>8
    <3>3. CASE k \notin to .. to + n - 1
      <4>1. wanted'[k] = wanted[k] /\ k \notin unsure
        BY <2>1, <2>3, <3>3
      <4>2. DOMAIN seq \subseteq 1 .. ratio * n
        BY <1>5, <1>6
      <4>3. Poked(ShadowOf(to), seq)[ShadowOf(k) + i - 1] = bytes[ShadowOf(k) + i - 1]
        <5> HIDE DEF seq
        <5>1. QED
          BY <1>1, <1>2, <3>1, <3>3, <4>2, PokedElsewhere
      <4>4. QED
        BY <1>3, <4>1, <4>3, CellBytes
    <3>4. QED
      BY <3>2, <3>3
  <2>4. bytes' \in [Mapped(ratio) -> Bits]
    BY <1>1, <1>3, <1>4, <1>5, PokedBytes
  <2>5. wanted' \in [Anchored -> [1 .. ratio -> Bits]]
    <3>1. wanted \in [Anchored -> [1 .. ratio -> Bits]]
      BY <1>1 DEF OffsetTypeOK, Anchored
    <3>2. QED
      BY <2>1, <2>2, <3>1
  <2>6. unsure' \in SUBSET Anchored
    BY <2>1
  <2>7. QED
    BY <1>1, <2>1, <2>3, <2>4, <2>5, <2>6, BytesRight
<1>7. CASE ~(ratio = 1 /\ grain = 1)
  <2>1. Leaves({}, Uniform(0), Anchors(to, n))
    BY <1>7 DEF CopyBytes
  <2>2. Anchors(to, n) \in SUBSET Anchored
    BY AnchorsAnchored
  <2>3. \A k \in Anchored : k \in to .. to + n - 1 => k \in Anchors(to, n)
    BY <1>1, AnchoredFacts DEF Anchors
  <2> HIDE DEF seq
  <2>4. QED
    BY <1>1, <1>2, <1>3, <1>4, <1>5, <2>1, <2>2, <2>3, DoubtKeeps
<1>8. QED
  BY <1>6, <1>7

----------------------------------------------------------------------------
(* OffsetMap: the invariant and what follows from it *)

LEMMA OffsetInitHolds == OffsetInit => OffsetInv
<1> SUFFICES ASSUME OffsetInit PROVE OffsetInv
  OBVIOUS
<1>1. OffsetTypeOK
  BY DEF OffsetInit, OffsetTypeOK, Uniform, Bits
<1>2. ratio \in {1, 2, 3} /\ DOMAIN wanted = Anchored
  BY <1>1, SizeFacts
<1>3. ASSUME NEW k \in Anchored, NEW i \in 1 .. ratio PROVE bytes[ShadowOf(k) + i - 1] = 0
  <2>1. ShadowOf(k) + i - 1 \in Mapped(ratio)
    BY <1>1, AnchoredFacts, CellPlace
  <2>2. QED
    BY <2>1 DEF OffsetInit
<1>4. ASSUME NEW k \in Anchored PROVE CellAt(k) = Uniform(0)
  BY <1>3, <1>4 DEF CellAt, Uniform
<1>5. \A k \in Anchored : wanted[k] = Uniform(0)
  BY DEF OffsetInit, Anchored
<1>6. QED
  BY <1>1, <1>2, <1>4, <1>5 DEF OffsetInv, CellsRead

LEMMA OffsetStepHolds == OffsetInv /\ [OffsetNext]_offsetVars => OffsetInv'
<1> SUFFICES ASSUME OffsetInv, [OffsetNext]_offsetVars PROVE OffsetInv'
  OBVIOUS
<1>1. CASE UNCHANGED offsetVars
  BY <1>1 DEF offsetVars, OffsetInv, OffsetTypeOK, CellsRead, CellAt, ShadowOf, Mapped, Align, Bits
<1>2. ASSUME NEW key \in InUse, NEW size \in 1 .. 3, NEW v \in Bits, key .. key + size - 1 \subseteq InUse,
             \/ PutCell(key, v) \/ AddRangeBytes(key, size, v) \/ SetRounded(key, size, v)
             \/ \E w \in Bits, n \in {1, 2} : n = size /\
                  LET seq == SubSeq(<<v, w>>, 1, n) IN SetSizedExact(key, seq) \/ SetSizedWide(key, seq)
             \/ \E off \in 0 .. 2, n \in 1 .. 3 : FillFused(key, size, off, n, v)
             \/ \E from \in InUse : from .. from + size - 1 \subseteq InUse /\ CopyBytes(key, from, size)
      PROVE  OffsetInv'
  <2>1. CASE PutCell(key, v)
    BY <2>1, PutKeeps
  <2>2. CASE AddRangeBytes(key, size, v)
    BY <1>2, <2>2, AddBytesKeeps
  <2>3. CASE SetRounded(key, size, v)
    BY <2>3, RoundedKeeps
  <2>4. ASSUME NEW w \in Bits, NEW n \in {1, 2}, n = size, NEW seq, seq = SubSeq(<<v, w>>, 1, n),
               SetSizedExact(key, seq) \/ SetSizedWide(key, seq)
        PROVE  OffsetInv'
    <3>1. Len(seq) = n /\ DOMAIN seq = 1 .. n /\ \A i \in 1 .. n : seq[i] \in Bits
      BY <2>4, ByteSequence
    <3>2. key .. key + n - 1 \subseteq InUse /\ n \in Nat
      BY <1>2, <2>4
    <3>3. CASE SetSizedExact(key, seq)
      BY <3>1, <3>2, <3>3, ExactKeeps
    <3>4. CASE SetSizedWide(key, seq)
      BY <3>1, <3>4, WideKeeps
    <3>5. QED
      BY <2>4, <3>3, <3>4
  <2>5. ASSUME NEW off \in 0 .. 2, NEW n \in 1 .. 3, FillFused(key, size, off, n, v) PROVE OffsetInv'
    BY <1>2, <2>5, FusedKeeps
  <2>6. ASSUME NEW from \in InUse, from .. from + size - 1 \subseteq InUse, CopyBytes(key, from, size)
        PROVE  OffsetInv'
    BY <1>2, <2>6, CopyBytesKeeps
  <2>7. QED
    BY <1>2, <2>1, <2>2, <2>3, <2>4, <2>5, <2>6
<1>3. QED
  BY <1>1, <1>2 DEF OffsetNext

(* The cell of every granule holds in its bytes what the calls were meant  *)
(* to leave there (PageMapUnsyncOffset.h, lines 46-109), unless one of     *)
(* them was of the kind that misses part of its range.                     *)
THEOREM ShadowAsMeant == OffsetSpec => []OffsetInv
<1>1. OffsetInit => OffsetInv
  BY OffsetInitHolds
<1>2. OffsetInv /\ [OffsetNext]_offsetVars => OffsetInv'
  BY OffsetStepHolds
<1>3. QED
  BY <1>1, <1>2, PTL DEF OffsetSpec

(* or_range() over addresses nobody doubts reads the union of what they    *)
(* should hold.                                                            *)
LEMMA UnionsRead == OffsetInv => OffsetAsMeant
<1> SUFFICES ASSUME OffsetInv PROVE OffsetAsMeant
  OBVIOUS
<1>1. OffsetTypeOK /\ grain \in Nat \ {0} /\ ratio \in Nat
  BY SizeFacts DEF OffsetInv
<1>2. ASSUME grain = 1, NEW key \in InUse, NEW size \in 1 .. 3, key .. key + size - 1 \subseteq InUse \ unsure
      PROVE  OrAll(key, size) = [i \in 1 .. ratio |->
                                  IF \E k \in key .. key + size - 1 : wanted[k][i] = 1 THEN 1 ELSE 0]
  <2>1. key \in Nat
    BY <1>1, InUseFacts, AlignInSpace
  <2>2. ASSUME NEW k \in key .. key + size - 1 PROVE k \in Anchored /\ k \notin unsure
    <3>1. k \in InUse /\ k \in Nat
      BY <1>2, <2>1
    <3>2. Align(k) = k
      <4>1. Align(k) \in Nat /\ Align(k) <= k /\ k < Align(k) + 1
        BY <1>1, <1>2, <3>1, AlignFacts
      <4>2. QED
        BY <3>1, <4>1
    <3>3. QED
      BY <1>2, <3>1, <3>2 DEF Anchored
  <2>3. ASSUME NEW i \in 1 .. ratio
        PROVE  (\E k \in 0 .. size - 1 : bytes[ShadowOf(key + k) + i - 1] = 1)
                 <=> \E k \in key .. key + size - 1 : wanted[k][i] = 1
    <3>1. ASSUME NEW k \in key .. key + size - 1 PROVE bytes[ShadowOf(k) + i - 1] = wanted[k][i]
      BY <2>2, CellBytes
    <3>2. \A k \in 0 .. size - 1 : key + k \in key .. key + size - 1
      BY <2>1
    <3>3. \A k \in key .. key + size - 1 : k - key \in 0 .. size - 1 /\ key + (k - key) = k
      BY <2>1
    <3>4. QED
      BY <3>1, <3>2, <3>3
  <2>4. QED
    BY <2>3 DEF OrAll
<1>3. \A k \in DOMAIN wanted \ unsure : CellAt(k) = wanted[k]
  BY DEF OffsetInv, CellsRead
<1>4. QED
  BY <1>2, <1>3 DEF OffsetAsMeant

(* The linear shadow keeps the cells of different addresses apart, and a   *)
(* cell, or the union of a range, reads what the calls have left.          *)
THEOREM OffsetRead == OffsetSpec => []OffsetReadsAsMeant
<1>1. OffsetInv => OffsetReadsAsMeant
  BY UnionsRead, ShadowsNeverMeet DEF OffsetReadsAsMeant
<1>2. QED
  BY ShadowAsMeant, <1>1, PTL
=============================================================================
