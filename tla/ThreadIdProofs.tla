--------------------------- MODULE ThreadIdProofs ---------------------------
(***************************************************************************)
(* Theorems about ThreadId, for every number of callers, threads and slots: *)
(* the slot table is a function from pthread_t to dense ids that never     *)
(* changes, and get_id() implements IdAssign.  All of them rest on IInv.   *)
(***************************************************************************)
EXTENDS ThreadId, TLAPS

LEMMA InitInv == Init => IInv
<1> SUFFICES ASSUME Init PROVE IInv
  OBVIOUS
<1>1. TypeOK
  BY TableAssumption DEF Init, TypeOK, Slots
<1>2. OneSlotPerPid /\ Dense
  BY DEF Init, OneSlotPerPid, Dense
<1>3. \A c \in Callers : Searched(c)
  BY DEF Init, Searched, Holding
<1>4. QED
  BY <1>1, <1>2, <1>3 DEF IInv

(* The steps that leave the table alone move one caller only. *)
LEMMA LookStep ==
  ASSUME IInv, NEW c \in Callers,
         \/ Call(c) \/ ScanHit(c) \/ ScanMiss(c) \/ Lock(c)
         \/ RescanFound(c) \/ RescanFree(c) \/ RescanTaken(c) \/ Unlock(c)
  PROVE  IInv'
<1> USE DEF Goto, Return
<1>t. TypeOK /\ N \in Nat \ {0} /\ NoPid \notin Pids
  BY TableAssumption DEF IInv
<1>i. \A d \in Callers : i[d] \in Slots /\ (i[d] < N => i[d] + 1 \in Slots)
  BY <1>t DEF TypeOK, Slots
<1>1. TypeOK'
  <2>1. CASE Call(c)
    BY <2>1, <1>t DEF Call, TypeOK, Slots
  <2>2. CASE ScanHit(c)
    BY <2>2, <1>t, <1>i DEF ScanHit, TypeOK, Slots
  <2>3. CASE ScanMiss(c)
    BY <2>3, <1>t, <1>i DEF ScanMiss, TypeOK
  <2>4. CASE Lock(c)
    BY <2>4, <1>t DEF Lock, TypeOK, Slots
  <2>5. CASE RescanFound(c) \/ RescanFree(c)
    BY <2>5, <1>t DEF RescanFound, RescanFree, TypeOK
  <2>6. CASE RescanTaken(c)
    BY <2>6, <1>t, <1>i DEF RescanTaken, TypeOK
  <2>7. CASE Unlock(c)
    BY <2>7, <1>t, <1>i DEF Unlock, TypeOK, Slots
  <2>8. QED
    BY <2>1, <2>2, <2>3, <2>4, <2>5, <2>6, <2>7
<1>2. idx' = idx
  BY DEF Call, ScanHit, ScanMiss, Lock, RescanFound, RescanFree, RescanTaken, Unlock
<1>3. (OneSlotPerPid /\ Dense)'
  BY <1>2 DEF IInv, OneSlotPerPid, Dense
<1>4. ASSUME NEW d \in Callers PROVE Searched(d)'
  <2>s. Searched(d) /\ Searched(c) /\ Free \notin Callers
    BY TableAssumption DEF IInv
  <2>1. CASE d # c
    <3>1. pc'[d] = pc[d] /\ i'[d] = i[d] /\ asked'[d] = asked[d]
      BY <2>1, <1>t DEF TypeOK, Call, ScanHit, ScanMiss, Lock, RescanFound, RescanFree,
                        RescanTaken, Unlock
    <3>2. Holding(d) => tidlock' = d
      BY <2>1, <2>s, <1>t DEF TypeOK, Searched, Holding, Call, ScanHit, ScanMiss, Lock,
                              RescanFound, RescanFree, RescanTaken, Unlock
    <3>3. QED
      BY <2>s, <3>1, <3>2, <1>2 DEF Searched, Holding
  <2>2. CASE d = c
    <3>1. CASE Call(c) \/ ScanHit(c) \/ ScanMiss(c) \/ Unlock(c)
      <4>1. pc'[c] \in {"idle", "scan", "lock"}
        BY <3>1, <1>t DEF Call, ScanHit, ScanMiss, Unlock, TypeOK
      <4>2. QED
        BY <2>2, <4>1 DEF Searched, Holding
    <3>2. CASE Lock(c)
      BY <3>2, <2>2, <1>t DEF Lock, Searched, Holding, TypeOK, Slots
    <3>3. CASE RescanFound(c) \/ RescanFree(c)
      BY <3>3, <2>2, <2>s, <1>t DEF RescanFound, RescanFree, Searched, Holding, TypeOK
    <3>4. CASE RescanTaken(c)
      <4>1. tidlock' = c /\ asked'[c] = asked[c]
        BY <3>4, <2>s DEF RescanTaken, Searched, Holding
      <4>2. pc'[c] \in {"rescan", "threw"}
        BY <3>4, <1>t DEF RescanTaken, TypeOK
      <4>3. ASSUME pc'[c] = "rescan", NEW s \in Slots, s < i'[c]
            PROVE  idx[s] \notin {asked[c], NoPid}
        <5>1. i'[c] = i[c] + 1
          BY <3>4, <4>3, <1>t DEF RescanTaken, TypeOK
        <5>2. s < i[c] \/ s = i[c]
          BY <5>1, <4>3, <1>i DEF Slots
        <5>3. QED
          BY <5>2, <3>4, <2>s DEF RescanTaken, Searched
      <4>4. QED
        BY <2>2, <4>1, <4>2, <4>3, <1>2 DEF Searched, Holding
    <3>5. QED
      BY <3>1, <3>2, <3>3, <3>4
  <2>3. QED
    BY <2>1, <2>2
<1>5. QED
  BY <1>1, <1>3, <1>4 DEF IInv

(* The caller that claims a slot has seen every slot before it taken by    *)
(* others, and nothing lies behind it: the table stays dense and no        *)
(* pthread_t gets a second slot.                                           *)
LEMMA ClaimStep ==
  ASSUME IInv, NEW c \in Callers, Claim(c)
  PROVE  /\ IInv'
         /\ \A s \in Slots : idx[s] \notin {asked[c]}
         /\ \A s \in Slots : s < i[c] <=> idx[s] # NoPid
<1> USE DEF Goto
<1>t. /\ TypeOK /\ OneSlotPerPid /\ Dense /\ Searched(c)
      /\ N \in Nat \ {0} /\ NoPid \notin Pids /\ Free \notin Callers
  BY TableAssumption DEF IInv
<1>1. /\ i[c] \in Slots /\ asked[c] \in Pids /\ idx[i[c]] = NoPid /\ tidlock = c
      /\ \A s \in Slots : s < i[c] => idx[s] \notin {asked[c], NoPid}
  BY <1>t DEF Claim, TypeOK, Searched, Holding
<1>2. \A s \in Slots : s < i[c] <=> idx[s] # NoPid
  <2>1. \A s \in Slots : ~(s < i[c]) => s = i[c] \/ i[c] < s
    BY <1>1 DEF Slots
  <2>2. QED
    BY <2>1, <1>1, <1>t DEF Dense
<1>3. \A s \in Slots : idx[s] # asked[c]
  BY <1>1, <1>2, <1>t
<1>4. /\ idx'[i[c]] = asked[c]
      /\ \A s \in Slots : s # i[c] => idx'[s] = idx[s]
      /\ idx' \in [Slots -> Pids \cup {NoPid}]
      /\ UNCHANGED <<asked, i, answer, tidlock>>
  BY <1>1, <1>t DEF Claim, TypeOK
<1>5. TypeOK'
  BY <1>1, <1>4, <1>t DEF Claim, TypeOK
<1>6. OneSlotPerPid'
  BY <1>3, <1>4, <1>t DEF OneSlotPerPid
<1>7. Dense'
  <2> SUFFICES ASSUME NEW s \in Slots, NEW u \in Slots, s < u, idx'[s] = NoPid
               PROVE  idx'[u] = NoPid
    BY DEF Dense
  <2>1. s # i[c] /\ idx[s] = NoPid
    BY <1>1, <1>4, <1>t
  <2>2. ~(s < i[c])
    BY <2>1, <1>2
  <2>3. u # i[c]
    BY <2>1, <2>2, <1>1 DEF Slots
  <2>4. QED
    BY <2>1, <2>3, <1>4, <1>t DEF Dense
<1>8. ASSUME NEW d \in Callers PROVE Searched(d)'
  <2>1. CASE d = c
    BY <2>1, <1>1, <1>4, <1>t DEF Claim, TypeOK, Searched, Holding
  <2>2. CASE d # c
    <3>1. pc'[d] = pc[d] /\ Searched(d)
      BY <2>2, <1>t DEF Claim, TypeOK, IInv
    <3>2. pc[d] \notin {"rescan", "claim", "unlock", "threw"}
      BY <2>2, <3>1, <1>1 DEF Searched, Holding
    <3>3. QED
      BY <3>1, <3>2 DEF Searched, Holding
  <2>3. QED
    BY <2>1, <2>2
<1>9. QED
  BY <1>2, <1>3, <1>5, <1>6, <1>7, <1>8 DEF IInv

LEMMA StutterInv == ASSUME IInv, UNCHANGED vars PROVE IInv'
BY DEF vars, IInv, TypeOK, OneSlotPerPid, Dense, Searched, Holding

LEMMA NextInv == IInv /\ [Next]_vars => IInv'
<1> SUFFICES ASSUME IInv, [Next]_vars PROVE IInv'
  OBVIOUS
<1>1. ASSUME NEW c \in Callers, Call(c) \/ Search(c) PROVE IInv'
  BY <1>1, LookStep, ClaimStep DEF Search
<1>2. QED
  BY <1>1, StutterInv DEF Next

(* The table invariant holds in every state (cxx_rtlib_template.ctt,       *)
(* lines 267-290).                                                         *)
THEOREM InvariantHolds == Spec => []IInv
BY InitInv, NextInv, PTL DEF Spec

(* Every index into the table is in range and no caller is left without an *)
(* argument.                                                               *)
THEOREM TypeCorrect == Spec => []TypeOK
<1>1. IInv => TypeOK
  BY DEF IInv
<1>2. QED
  BY <1>1, InvariantHolds, PTL

(* However many threads register at once, no pthread_t gets two ids.       *)
THEOREM OneSlot == Spec => []OneSlotPerPid
<1>1. IInv => OneSlotPerPid
  BY DEF IInv
<1>2. QED
  BY <1>1, InvariantHolds, PTL

(* The steps other than Claim leave the table alone. *)
LEMMA TableFrame ==
  ASSUME NEW c \in Callers, Call(c) \/ Search(c), ~Claim(c)
  PROVE  idx' = idx
BY DEF Search, Call, ScanHit, ScanMiss, Lock, RescanFound, RescanFree, RescanTaken, Unlock, Return

(* An id once given stays with its pthread_t (line 284).                   *)
THEOREM IdsStay == Spec => SlotsStay
<1>1. ASSUME IInv, [Next]_vars
      PROVE  \A s \in Slots : idx[s] # NoPid => idx'[s] = idx[s]
  <2>1. ASSUME NEW c \in Callers, Claim(c)
        PROVE  \A s \in Slots : idx[s] # NoPid => idx'[s] = idx[s]
    BY <2>1, <1>1 DEF Claim, IInv, TypeOK, Searched
  <2>2. QED
    BY <1>1, <2>1, TableFrame DEF Next, vars
<1>2. IInv /\ [Next]_vars
        => [\A s \in Slots : idx[s] # NoPid => idx'[s] = idx[s]]_vars
  BY <1>1
<1>3. QED
  BY <1>2, InvariantHolds, PTL DEF Spec, SlotsStay

----------------------------------------------------------------------------
(* IdOf() names the one slot of a registered pthread_t. *)
LEMMA IdOfSlot ==
  ASSUME IInv, NEW p \in Pids
  PROVE  /\ \A s \in Slots : idx[s] = p => IdOf(p) = s
         /\ (\A s \in Slots : idx[s] # p) => IdOf(p) = 0
         /\ IdOf(p) # 0 => IdOf(p) \in Slots /\ idx[IdOf(p)] = p
BY TableAssumption DEF IdOf, IInv, OneSlotPerPid

LEMMA IdOfSlotNext ==
  ASSUME IInv', NEW p \in Pids
  PROVE  /\ \A s \in Slots : idx'[s] = p => IdOf(p)' = s
         /\ (\A s \in Slots : idx'[s] # p) => IdOf(p)' = 0
BY TableAssumption DEF IdOf, IInv, OneSlotPerPid

(* A call ends with the id of its argument. *)
LEMMA AnswerStep ==
  ASSUME IInv, NEW c \in Callers, ScanHit(c) \/ Unlock(c)
  PROVE  Assign!Answer(c)
<1>1. asked[c] \in Pids /\ i[c] \in Slots /\ idx[i[c]] = asked[c] /\ idx' = idx
  BY TableAssumption DEF IInv, TypeOK, Searched, ScanHit, Unlock, Return
<1>2. IdOf(asked[c]) = i[c] /\ i[c] # 0
  BY <1>1, IdOfSlot DEF Slots
<1>3. Ids[asked[c]] = i[c] /\ Ids' = Ids
  BY <1>1, <1>2 DEF Ids, IdOf
<1>4. QED
  BY <1>1, <1>2, <1>3, TableAssumption DEF Assign!Answer, ScanHit, Unlock, Return, Goto

(* Claiming a slot registers the argument under the least unused id. *)
LEMMA RegisterStep ==
  ASSUME IInv, NEW c \in Callers, Claim(c)
  PROVE  Assign!Register(c)
<1>t. TypeOK /\ N \in Nat \ {0} /\ NoPid \notin Pids
  BY TableAssumption DEF IInv
<1>1. asked[c] \in Pids /\ i[c] \in Slots
  BY <1>t DEF Claim, TypeOK
<1>2. /\ IInv'
      /\ \A s \in Slots : idx[s] # asked[c]
      /\ \A s \in Slots : s < i[c] <=> idx[s] # NoPid
  BY ClaimStep
<1>3. idx' = [idx EXCEPT ![i[c]] = asked[c]] /\ UNCHANGED <<asked, answer>>
  BY DEF Claim
<1>4. \A p \in Pids : IdOf(p)' = IF p = asked[c] THEN i[c] ELSE IdOf(p)
  <2> SUFFICES ASSUME NEW p \in Pids
               PROVE  IdOf(p)' = IF p = asked[c] THEN i[c] ELSE IdOf(p)
    OBVIOUS
  <2>1. CASE p = asked[c]
    <3>1. idx'[i[c]] = p
      BY <2>1, <1>1, <1>3, <1>t DEF TypeOK
    <3>2. QED
      BY <2>1, <3>1, <1>1, <1>2, IdOfSlotNext
  <2>2. CASE p # asked[c]
    <3>1. idx[i[c]] = NoPid
      BY <1>1, <1>2 DEF Slots
    <3>2. \A s \in Slots : idx'[s] = p <=> idx[s] = p
      BY <2>2, <1>1, <1>3, <1>t, <3>1 DEF TypeOK
    <3>3. QED
      BY <2>2, <3>2, <1>2, IdOfSlot, IdOfSlotNext
  <2>3. QED
    BY <2>1, <2>2
<1>5. Ids' = [Ids EXCEPT ![asked[c]] = i[c]]
  BY <1>1, <1>4 DEF Ids
<1>6. Ids[asked[c]] = 0
  BY <1>1, <1>2, IdOfSlot DEF Ids
<1>7. ASSUME NEW j \in 1 .. N PROVE j < i[c] <=> \E p \in Pids : Ids[p] = j
  <2>1. j \in Slots /\ j # 0
    BY DEF Slots
  <2>2. idx[j] # NoPid <=> \E p \in Pids : idx[j] = p
    BY <2>1, <1>t DEF TypeOK
  <2>3. \A p \in Pids : idx[j] = p <=> IdOf(p) = j
    BY <2>1, IdOfSlot
  <2>4. QED
    BY <2>1, <2>2, <2>3, <1>2 DEF Ids
<1>8. asked[c] # NoPid
  BY <1>1, <1>t
<1>9. QED
  BY <1>1, <1>3, <1>5, <1>6, <1>7, <1>8 DEF Assign!Register, Slots

(* get_id() is IdAssign: every step of the table maps to a step of it or   *)
(* to a stutter (cxx_rtlib_template.ctt, lines 267-290).                   *)
THEOREM Refinement == Spec => ImplementsIdAssignSafely
<1>1. Init => Assign!Init
  <2> SUFFICES ASSUME Init PROVE Assign!Init
    OBVIOUS
  <2>1. \A p \in Pids : IdOf(p) = 0
    BY InitInv, IdOfSlot, TableAssumption DEF Init
  <2>2. QED
    BY <2>1 DEF Init, Assign!Init, Ids
<1>2. ASSUME IInv, [Next]_vars PROVE [Assign!Next]_(Assign!vars)
  <2>1. ASSUME NEW c \in Callers, Call(c) PROVE Assign!Ask(c)
    <3>1. asked[c] = NoPid /\ Ids' = Ids
      BY <2>1, <1>2 DEF Call, IInv, TypeOK, Ids, IdOf
    <3>2. QED
      BY <2>1, <3>1 DEF Call, Assign!Ask
  <2>2. ASSUME NEW c \in Callers,
               \/ ScanMiss(c) \/ Lock(c) \/ RescanFound(c) \/ RescanFree(c) \/ RescanTaken(c)
        PROVE  UNCHANGED Assign!vars
    <3>1. UNCHANGED <<asked, answer, idx>>
      BY <2>2 DEF ScanMiss, Lock, RescanFound, RescanFree, RescanTaken
    <3>2. QED
      BY <3>1 DEF Assign!vars, Ids, IdOf
  <2>3. UNCHANGED vars => UNCHANGED Assign!vars
    BY DEF vars, Assign!vars, Ids, IdOf
  <2>4. QED
    BY <1>2, <2>1, <2>2, <2>3, AnswerStep, RegisterStep DEF Next, Search, Assign!Next
<1>3. QED
  BY <1>1, <1>2, InvariantHolds, PTL DEF Spec, Assign!Spec, ImplementsIdAssignSafely
----------------------------------------------------------------------------
(* The safety half of RegisteredServed and of the calls' return: what is   *)
(* left of them is that a caller which can go on does.                     *)

(* The accesses left to a call: two looks through the table, the lock, the *)
(* claim and the unlock                                                    *)
StepsLeft(c) ==
  CASE pc[c] = "scan" -> N + 4 + (N - i[c])
    [] pc[c] = "lock" -> N + 3
    [] pc[c] = "rescan" -> 3 + (N - i[c])
    [] pc[c] = "claim" -> 2
    [] pc[c] = "unlock" -> 1
    [] OTHER -> 0

(* get_id() is over after 2N + 3 accesses of the caller at most, and no    *)
(* step of another caller sends it back: the loops do not start again when *)
(* the table changes under them (lines 269-290).                           *)
CallsShorten ==
  [][\A c \in Callers :
       /\ StepsLeft(c) \in 0 .. 2 * N + 3
       /\ Search(c) => /\ StepsLeft(c)' < StepsLeft(c)
                       /\ \A d \in Callers \ {c} : StepsLeft(d)' = StepsLeft(d)]_vars

LEMMA StepsRange ==
  ASSUME TypeOK, NEW c \in Callers
  PROVE  StepsLeft(c) \in 0 .. 2 * N + 3
<1>1. i[c] \in 1 .. N /\ N \in Nat
  BY TableAssumption DEF TypeOK, Slots
<1>2. QED
  BY <1>1 DEF StepsLeft

LEMMA SearchShortens ==
  ASSUME TypeOK, NEW c \in Callers, Search(c)
  PROVE  /\ StepsLeft(c)' < StepsLeft(c)
         /\ \A d \in Callers \ {c} : StepsLeft(d)' = StepsLeft(d)
<1> USE DEF Goto
<1>i. i[c] \in 1 .. N /\ N \in Nat
  BY TableAssumption DEF TypeOK, Slots
<1>1. \A d \in Callers \ {c} : pc'[d] = pc[d] /\ i'[d] = i[d]
  BY DEF TypeOK, Search, ScanHit, ScanMiss, Lock, RescanFound, RescanFree, RescanTaken, Claim,
     Unlock, Return
<1>2. StepsLeft(c)' < StepsLeft(c)
  <2>1. CASE ScanHit(c) \/ Unlock(c)
    BY <2>1, <1>i DEF ScanHit, Unlock, Return, StepsLeft, TypeOK
  <2>2. CASE ScanMiss(c)
    BY <2>2, <1>i DEF ScanMiss, StepsLeft, TypeOK
  <2>3. CASE Lock(c)
    BY <2>3, <1>i DEF Lock, StepsLeft, TypeOK
  <2>4. CASE RescanTaken(c)
    BY <2>4, <1>i DEF RescanTaken, StepsLeft, TypeOK
  <2>5. CASE RescanFound(c) \/ RescanFree(c) \/ Claim(c)
    BY <2>5, <1>i DEF RescanFound, RescanFree, Claim, StepsLeft, TypeOK
  <2>6. QED
    BY <2>1, <2>2, <2>3, <2>4, <2>5 DEF Search
<1>3. QED
  BY <1>1, <1>2 DEF StepsLeft

THEOREM NoRetries == Spec => CallsShorten
<1>1. TypeOK /\ [Next]_vars =>
        [\A c \in Callers :
           /\ StepsLeft(c) \in 0 .. 2 * N + 3
           /\ Search(c) => /\ StepsLeft(c)' < StepsLeft(c)
                           /\ \A d \in Callers \ {c} : StepsLeft(d)' = StepsLeft(d)]_vars
  BY StepsRange, SearchShortens
<1>2. QED
  BY <1>1, TypeCorrect, PTL DEF Spec, CallsShorten

(* A caller that waits for tidlock waits for one that is filling the table *)
(* and waits for nothing, unless that one threw (lines 274-290).           *)
WaitsForRunner ==
  \A c \in Callers : pc[c] = "lock" /\ tidlock # Free =>
    tidlock \in Callers \ {c} /\ Holding(tidlock)

LEMMA HolderStep ==
  ASSUME TypeOK, \A c \in Callers : Searched(c), tidlock # Free => Holding(tidlock), [Next]_vars
  PROVE  (tidlock # Free => Holding(tidlock))'
<1> USE DEF Goto
<1>1. ASSUME NEW c \in Callers, Lock(c) \/ Unlock(c)
      PROVE  tidlock' # Free => Holding(tidlock)'
  BY <1>1, TableAssumption DEF Lock, Unlock, Holding, TypeOK
<1>2. ASSUME NEW c \in Callers, Call(c) \/ Search(c), ~Lock(c), ~Unlock(c)
      PROVE  tidlock' # Free => Holding(tidlock)'
  <2>1. tidlock' = tidlock
    BY <1>2 DEF Call, Search, ScanHit, ScanMiss, RescanFound, RescanFree, RescanTaken, Claim, Return
  <2>2. /\ \A d \in Callers \ {c} : pc'[d] = pc[d]
        /\ pc[c] \in {"rescan", "claim", "unlock", "threw"} =>
             pc'[c] \in {"rescan", "claim", "unlock", "threw"}
    BY <1>2 DEF TypeOK, Call, Search, ScanHit, ScanMiss, RescanFound, RescanFree, RescanTaken,
       Claim, Return
  <2>3. QED
    BY <2>1, <2>2 DEF Holding, TypeOK
<1>3. CASE UNCHANGED vars
  BY <1>3 DEF vars, Holding
<1>4. QED
  BY <1>1, <1>2, <1>3 DEF Next

THEOREM NoLockChain == Spec => []WaitsForRunner
<1>1. Init => (tidlock # Free => Holding(tidlock))
  BY DEF Init
<1>2. IInv /\ (tidlock # Free => Holding(tidlock)) /\ [Next]_vars
        => (tidlock # Free => Holding(tidlock))'
  BY HolderStep DEF IInv
<1>3. IInv /\ (tidlock # Free => Holding(tidlock)) => WaitsForRunner
  BY DEF IInv, TypeOK, WaitsForRunner, Holding
<1>4. QED
  BY <1>1, <1>2, <1>3, InvariantHolds, PTL DEF Spec

(* A call about a registered pthread_t whose slot lies ahead               *)
Served(c) == pc[c] = "scan" /\ IdOf(asked[c]) # 0 /\ i[c] <= IdOf(asked[c])

(* Such a call looks on until it is given that id: it never comes to the   *)
(* lock, whoever holds it and whatever is registered meanwhile (lines      *)
(* 269-273).                                                               *)
StaysServed ==
  [][\A c \in Callers : Served(c) =>
       Served(c)' \/ (pc'[c] = "idle" /\ answer'[c] = IdOf(asked[c]))]_vars

LEMMA ServedStep ==
  ASSUME IInv, IInv', NEW c \in Callers, Served(c), [Next]_vars
  PROVE  Served(c)' \/ (pc'[c] = "idle" /\ answer'[c] = IdOf(asked[c]))
<1> USE DEF Goto
<1>t. TypeOK /\ Slots \subseteq Nat \ {0}
  BY DEF IInv, Slots
<1> DEFINE p == asked[c]
<1>1. /\ pc[c] = "scan" /\ p \in Pids /\ IdOf(p) \in Slots /\ idx[IdOf(p)] = p
      /\ i[c] \in Slots /\ i[c] <= IdOf(p) /\ p # NoPid
  BY <1>t, IdOfSlot, TableAssumption DEF Served, TypeOK
<1>2. idx'[IdOf(p)] = p
  <2>1. ASSUME NEW d \in Callers, Claim(d) PROVE idx'[IdOf(p)] = p
    <3>1. idx[i[d]] = NoPid /\ i[d] \in Slots
      BY <2>1, <1>t DEF Claim, IInv, Searched, TypeOK
    <3>2. QED
      BY <2>1, <3>1, <1>1, <1>t DEF Claim, TypeOK
  <2>2. QED
    BY <1>1, <2>1, TableFrame DEF Next, vars
<1>3. ASSUME pc'[c] = "scan", asked'[c] = asked[c], i'[c] <= IdOf(p)
      PROVE  Served(c)'
  <2>1. \A q \in Pids : \A s \in Slots : idx'[s] = q => IdOf(q)' = s
    BY IdOfSlotNext
  <2>2. \A q \in Pids : idx[IdOf(q)] = q /\ IdOf(q) \in Slots /\ idx'[IdOf(q)] = q =>
                          IdOf(q)' = IdOf(q)
    BY <2>1
  <2>3. IdOf(asked[c]) = IdOf(asked'[c])
    BY <1>3
  <2>4. QED
    BY <2>2, <1>1, <1>2, <1>3, <1>t DEF Served
<1>4. ASSUME NEW d \in Callers \ {c}, Call(d) \/ Search(d) PROVE Served(c)'
  <2>1. pc'[c] = pc[c] /\ asked'[c] = asked[c] /\ i'[c] = i[c]
    BY <1>4, <1>t DEF TypeOK, Call, Search, ScanHit, ScanMiss, Lock, RescanFound, RescanFree,
       RescanTaken, Claim, Unlock, Return
  <2>2. QED
    BY <2>1, <1>1, <1>3
<1>5. ASSUME Call(c) \/ Search(c)
      PROVE  Served(c)' \/ (pc'[c] = "idle" /\ answer'[c] = IdOf(p))
  <2>1. ScanHit(c) \/ ScanMiss(c)
    BY <1>5, <1>1 DEF Call, Search, Lock, RescanFound, RescanFree, RescanTaken, Claim, Unlock
  <2>2. CASE ScanHit(c)
    <3>1. IdOf(p) = i[c]
      BY <2>2, <1>1, IdOfSlot DEF ScanHit
    <3>2. QED
      BY <2>2, <3>1, <1>t DEF ScanHit, Return, TypeOK
  <2>3. CASE ScanMiss(c)
    <3>1. i[c] # IdOf(p)
      BY <2>3, <1>1 DEF ScanMiss
    <3>2. i[c] < N /\ i[c] + 1 <= IdOf(p)
      BY <3>1, <1>1, TableAssumption DEF Slots
    <3>3. pc'[c] = "scan" /\ asked'[c] = asked[c] /\ i'[c] = i[c] + 1
      BY <2>3, <3>2, <1>t DEF ScanMiss, TypeOK
    <3>4. QED
      BY <3>2, <3>3, <1>3
  <2>4. QED
    BY <2>1, <2>2, <2>3
<1>6. CASE UNCHANGED vars
  BY <1>6, <1>1, <1>3 DEF vars
<1>7. QED
  BY <1>4, <1>5, <1>6 DEF Next

THEOREM RegisteredNeedNoLock == Spec => StaysServed
<1>1. IInv /\ IInv' /\ [Next]_vars =>
        [\A c \in Callers : Served(c) =>
           Served(c)' \/ (pc'[c] = "idle" /\ answer'[c] = IdOf(asked[c]))]_vars
  BY ServedStep
<1>2. QED
  BY <1>1, InvariantHolds, PTL DEF Spec, StaysServed
=============================================================================
