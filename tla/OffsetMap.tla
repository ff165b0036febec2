------------------------------ MODULE OffsetMap ------------------------------
(***************************************************************************)
(* universe::map over the linear shadow (rtLib/PageMapUnsyncOffset.h, and  *)
(* the offset branches of rtLib/rtLib.cpp), which the code chooses for     *)
(* values of at most three bytes (rtLib.h, line 45).  The cell of an       *)
(* address lies at a fixed place computed from it, in one area mapped      *)
(* between the two parts of the address space the program uses.            *)
(*                                                                         *)
(* The address space is cut down to eight blocks of Block bytes, which     *)
(* stand for the top three bits of the constants begin (1), middle_small   *)
(* (3), middle (4) and end (7); the program's addresses lie below begin    *)
(* and from end on.                                                        *)
(***************************************************************************)
EXTENDS Integers, Sequences

CONSTANTS
  Block,       \* bytes per block
  InUse,       \* the addresses handlers use
  Ratios,      \* sizeof(V)
  Driven,      \* the sizes for which calls are run
  Grains       \* addresses per granule, powers of two

ASSUME OffsetMapAssumption ==
  /\ Block \in Nat \ {0}
  /\ Grains \subseteq Nat \ {0} /\ \A g \in Grains : Block % g = 0
  /\ InUse \subseteq 0 .. Block - 1 \cup 7 * Block .. 8 * Block - 1
  /\ Ratios \subseteq 1 .. 3 /\ Driven \subseteq Ratios

VARIABLES
  ratio,     \* bytes per cell
  grain,     \* addresses per granule
  bytes,     \* the mapped area
  wanted,    \* history: what the cell of each granule should read
  unsure     \* history: granules of which that cannot be said

offsetVars == <<ratio, grain, bytes, wanted, unsure>>

Low == Block
Middle == 4 * Block
ProgramSpace == 0 .. Low - 1 \cup 7 * Block .. 8 * Block - 1

Xor3(key) ==                 \* key ^ middle_small
  LET top == key \div Block IN
  (IF top < 4 THEN 3 - top ELSE 11 - top) * Block + (key % Block)

Mem2ShadowBug(r, key) == Xor3(key) * r - Middle * (r - 1) - Block  \* middle taken for middle_small
Mem2Shadow(r, key) == Xor3(key) * r - Middle * (r - 1)
ShadowOf(key) == Mem2Shadow(ratio, key)

(* init(): the area that is mapped *)
Mapped(r) == Middle - r * Low .. Middle - r * Low + 2 * r * Block - 1

Align(key) == (key \div grain) * grain
CellAt(key) == [i \in 1 .. ratio |-> bytes[ShadowOf(key) + i - 1]]
Uniform(v) == [i \in 1 .. ratio |-> v]
RoundUp(size) == ((size + grain - 1) \div grain) * grain

(* Bytes at, at + 1, ... replaced *)
Poked(at, seq) ==
  [b \in Mapped(ratio) |-> IF b - at + 1 \in DOMAIN seq THEN seq[b - at + 1] ELSE bytes[b]]
RowOf(v, n) == [i \in 1 .. n * ratio |-> v]    \* n cells of the value v
OrAll(key, size) ==          \* or_range
  [i \in 1 .. ratio |->
    IF \E k \in 0 .. size - 1 : bytes[ShadowOf(key + k) + i - 1] = 1 THEN 1 ELSE 0]

OffsetInit ==
  /\ ratio \in Driven
  /\ grain \in Grains
  /\ bytes = [b \in Mapped(ratio) |-> 0]
  /\ wanted = [k \in {Align(key) : key \in InUse} |-> Uniform(0)]
  /\ unsure = {}

Anchors(key, size) == {Align(k) : k \in key .. key + size - 1}
Leaves(grains, seq, doubt) ==
  /\ wanted' = [k \in DOMAIN wanted |-> IF k \in grains THEN seq ELSE wanted[k]]
  /\ unsure' = (unsure \ grains) \cup doubt
  /\ UNCHANGED <<ratio, grain>>

PutCellBug(key, v) ==        \* the key is not cut down to its granule
  /\ bytes' = Poked(ShadowOf(key), Uniform(v))
  /\ Leaves({Align(key)}, Uniform(v), {})

(* get(k) = v *)
PutCell(key, v) ==
  /\ bytes' = Poked(ShadowOf(Align(key)), Uniform(v))
  /\ Leaves({Align(key)}, Uniform(v), {})

(* add_range() starts at the address itself, not at its granule: a granule *)
(* it enters in the middle keeps its cell.  remove_range() of a plain map  *)
(* is an add_range() of a value nobody has initialised.                    *)
AddRangeBytes(key, size, v) ==
  /\ size > 0
  /\ bytes' = Poked(ShadowOf(key), RowOf(v, size))
  /\ Leaves(Anchors(key, size), Uniform(v), {Align(key)} \ {key})

(* set(k, v, size): 1, 2, 4 or 8 bytes of v as they are, for any other     *)
(* size the whole granules.                                                *)
SetSizedExact(key, seq) ==
  /\ ratio = 1 /\ grain = 1
  /\ bytes' = Poked(ShadowOf(Align(key)), seq)
  /\ wanted' = [k \in DOMAIN wanted |->
                 IF k - key + 1 \in DOMAIN seq THEN <<seq[k - key + 1]>> ELSE wanted[k]]
  /\ unsure' = unsure \ (key .. key + Len(seq) - 1)
  /\ UNCHANGED <<ratio, grain>>
SetSizedWide(key, seq) ==
  /\ ratio > 1 \/ grain > 1
  /\ Align(key) + Len(seq) - 1 \in ProgramSpace
  /\ bytes' = Poked(ShadowOf(Align(key)), seq)
  /\ Leaves({}, Uniform(0), {k \in DOMAIN wanted : Align(key) <= k /\ k < Align(key) + Len(seq)})
SetRounded(key, size, v) ==
  /\ size \notin {1, 2, 4, 8}
  /\ \A i \in 0 .. RoundUp(size) - 1 : Align(key) + i \in ProgramSpace
  /\ bytes' = Poked(ShadowOf(Align(key)), RowOf(v, RoundUp(size)))
  /\ Leaves(Anchors(Align(key), RoundUp(size)), Uniform(v), {})

(* The range calls of a fused map: bytes off .. off + n - 1 of each granule *)
FillFused(key, size, off, n, v) ==
  LET count == RoundUp(size) \div grain
      starts == {ShadowOf(Align(key + i * grain)) : i \in 0 .. count - 1}
      hit == {s + off + j : s \in starts, j \in 0 .. n - 1}
      fields(seq) == [i \in 1 .. ratio |-> IF i - 1 \in off .. off + n - 1 THEN v ELSE seq[i]]
  IN  /\ off + n <= ratio
      /\ bytes' = [b \in Mapped(ratio) |-> IF b \in hit THEN v ELSE bytes[b]]
      /\ wanted' = [k \in DOMAIN wanted |->
                     IF k \in Anchors(key, size) THEN fields(wanted[k]) ELSE wanted[k]]
      /\ unsure' = unsure \cup (IF key = Align(key) THEN {} ELSE Anchors(key, size))
      /\ UNCHANGED <<ratio, grain>>

(* cpy_range() and move_range() copy bytes, as many as the range has       *)
(* addresses, to the first range from the second.                          *)
CopyBytes(to, from, n) ==
  /\ to .. to + n - 1 \cap (from .. from + n - 1) = {}
  /\ bytes' = Poked(ShadowOf(to), [i \in 1 .. n |-> bytes[ShadowOf(from) + i - 1]])
  /\ IF ratio = 1 /\ grain = 1
       THEN /\ wanted' = [k \in DOMAIN wanted |->
                           IF k \in to .. to + n - 1 THEN wanted[from + (k - to)] ELSE wanted[k]]
            /\ unsure' = {k \in DOMAIN wanted :
                           IF k \in to .. to + n - 1 THEN from + (k - to) \in unsure ELSE k \in unsure}
            /\ UNCHANGED <<ratio, grain>>
       ELSE Leaves({}, Uniform(0), Anchors(to, n))

Bits == {0, 1}
OffsetNext ==
  \E key \in InUse, size \in 1 .. 3, v \in Bits : key .. key + size - 1 \subseteq InUse /\
    \/ PutCell(key, v) \/ AddRangeBytes(key, size, v) \/ SetRounded(key, size, v)
    \/ \E w \in Bits, n \in {1, 2} : n = size /\
         LET seq == SubSeq(<<v, w>>, 1, n) IN SetSizedExact(key, seq) \/ SetSizedWide(key, seq)
    \/ \E off \in 0 .. 2, n \in 1 .. 3 : FillFused(key, size, off, n, v)
    \/ \E from \in InUse : from .. from + size - 1 \subseteq InUse /\ CopyBytes(key, from, size)

OffsetSpec == OffsetInit /\ [][OffsetNext]_offsetVars

----------------------------------------------------------------------------
(* The cells of the program's addresses lie in the mapped area and apart   *)
(* from each other and from the program (lines 32-35 and 111-117), for     *)
(* every size of cell the code puts there.                                 *)
ShadowsApart ==
  \A r \in Ratios :
    /\ Mapped(r) \cap ProgramSpace = {}
    /\ \A k \in ProgramSpace : Mem2Shadow(r, k) .. Mem2Shadow(r, k) + r - 1 \subseteq Mapped(r)
    /\ \A k, l \in ProgramSpace : k < l => Mem2Shadow(r, k) + r <= Mem2Shadow(r, l)

(* A cell reads what the calls on its granule were meant to leave, until a *)
(* call that starts inside a granule, or that counts bytes where cells     *)
(* are longer, covered it (lines 46-109).                                  *)
OffsetAsMeant ==
  /\ \A k \in DOMAIN wanted \ unsure : CellAt(k) = wanted[k]
  /\ grain = 1 => \A key \in InUse, size \in 1 .. 3 :
       key .. key + size - 1 \subseteq InUse \ unsure =>
         OrAll(key, size) = [i \in 1 .. ratio |->
                              IF \E k \in key .. key + size - 1 : wanted[k][i] = 1 THEN 1 ELSE 0]

(* The linear shadow keeps the cells of different addresses apart, and a   *)
(* cell, or the union of a range, reads what the calls have left.          *)
OffsetReadsAsMeant == ShadowsApart /\ OffsetAsMeant
=============================================================================
