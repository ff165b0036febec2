---------------------------- MODULE MCAlgorithms ----------------------------
(* The components that share no state with the others, each run on its own *)
(* in one state space: `part' says which, the others rest in one of their  *)
(* initial states.  The table without locks has two entries per page, as   *)
(* in MCPageMap; keys 0 and 2 share a middle page, 4 only the root.        *)
EXTENDS PageMapUnsync, RtSets, RtMaps, OffsetMap, CopyElision, LookupElim, MapFusion

VARIABLE part

(* The pages are numbers and are allocated in their order: which page      *)
(* malloc returns makes no difference.                                     *)
InOrder == \A p, q \in Pages : p < q /\ level[q] # 0 => level[p] # 0

SetsRest == sets = [r \in Regs |-> NewSet(FALSE)] /\ SetsInit
MapsRest == gran = Min(GranuleSizes) /\ width = 1 /\ MapsInit
OffsetRest == ratio = Min(Driven) /\ grain = Min(Grains) /\ OffsetInit
CopyRest == CopyStart(Name("x1"))
ElimRest == ElimStart(<<>>)
FusionRest == FusionStart(<<>>)

AlgorithmsInit ==
  \/ part = "table" /\ Init /\ SetsRest /\ MapsRest /\ OffsetRest /\ CopyRest /\ ElimRest /\ FusionRest
  \/ part = "sets" /\ Init /\ SetsInit /\ MapsRest /\ OffsetRest /\ CopyRest /\ ElimRest /\ FusionRest
  \/ part = "maps" /\ Init /\ SetsRest /\ MapsInit /\ OffsetRest /\ CopyRest /\ ElimRest /\ FusionRest
  \/ part = "offset" /\ Init /\ SetsRest /\ MapsRest /\ OffsetInit /\ CopyRest /\ ElimRest /\ FusionRest
  \/ part = "copies" /\ Init /\ SetsRest /\ MapsRest /\ OffsetRest /\ CopyInit /\ ElimRest /\ FusionRest
  \/ part = "lookups" /\ Init /\ SetsRest /\ MapsRest /\ OffsetRest /\ CopyRest /\ ElimInit /\ FusionRest
  \/ part = "fusion" /\ Init /\ SetsRest /\ MapsRest /\ OffsetRest /\ CopyRest /\ ElimRest /\ FusionInit

TableNext ==
  part = "table" /\ UnsyncNext /\ InOrder' /\ UNCHANGED <<part, setVars, mapVars, offsetVars, copyVars, elimVars, fusionVars>>
SetsTurn ==
  part = "sets" /\ SetsNext /\ UNCHANGED <<part, vars, mapVars, offsetVars, copyVars, elimVars, fusionVars>>
MapsTurn ==
  part = "maps" /\ MapsNext /\ UNCHANGED <<part, vars, setVars, offsetVars, copyVars, elimVars, fusionVars>>
OffsetTurn ==
  part = "offset" /\ OffsetNext /\ UNCHANGED <<part, vars, setVars, mapVars, copyVars, elimVars, fusionVars>>
CopyTurn ==
  part = "copies" /\ CopyNext /\ UNCHANGED <<part, vars, setVars, mapVars, offsetVars, elimVars, fusionVars>>
ElimTurn ==
  part = "lookups" /\ ElimNext /\ UNCHANGED <<part, vars, setVars, mapVars, offsetVars, copyVars, fusionVars>>
FusionTurn ==
  part = "fusion" /\ FusionNext /\ UNCHANGED <<part, vars, setVars, mapVars, offsetVars, copyVars, elimVars>>

AlgorithmsNext == TableNext \/ SetsTurn \/ MapsTurn \/ OffsetTurn \/ CopyTurn \/ ElimTurn \/ FusionTurn

AlgorithmsSpec ==
  AlgorithmsInit /\ [][AlgorithmsNext]_<<part, vars, setVars, mapVars, offsetVars, copyVars, elimVars, fusionVars>>

----------------------------------------------------------------------------
(* The properties, each looked at while its own component runs. *)

(* The fusion of maps gives every map cells of its own. *)
FusedCellsKept == part = "fusion" => FusionKeepsCells

(* The pool lock of a generated handler is taken and released once. *)
GeneratedLockPaired == part = "lookups" => LockPaired

(* References are declared and locked where they are used. *)
GeneratedRefsCovered == part = "lookups" => RefsCovered
=============================================================================
