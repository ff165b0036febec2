-------------------------- MODULE FastTrackProofs --------------------------
(***************************************************************************)
(* Theorems about FastTrack and the observer ClockOrder adds to it, for    *)
(* every number of threads, every set of locks and every width of the      *)
(* clocks.  The first part is the arithmetic of rows; after it rows are    *)
(* only compared, joined and ticked.                                       *)
(*                                                                         *)
(* The second part bounds what rows count where there are mutexes only,    *)
(* the third what they count with rwlocks too, where readers overwrite     *)
(* each other's row of the lock, and what RE names.  The fourth is about   *)
(* the runs in which no order is lost.  The last ties the clocks accesses  *)
(* are stamped with to these counts: no order is invented.                 *)
(***************************************************************************)
EXTENDS ClockOrder, TLAPS

(* Rows of any integers, as the clocks of threads and the history are *)
IntRow == [Threads -> Int]
NatRow == [Threads -> Nat]

LEMMA ClockFacts ==
  /\ Clocks \subseteq Int /\ 0 \in Clocks
  /\ \A c \in Clocks : Inc(c) \in Clocks /\ Inc(c) <= c + 1
BY FastTrackAssumption DEF Clocks, Inc

LEMMA RowFacts ==
  /\ Row \subseteq IntRow /\ NatRow \subseteq IntRow
  /\ Zero \in Row /\ Zero \in NatRow
  /\ \A k \in NatRow : Leq(Zero, k)
<1>1. Row \subseteq IntRow
  BY ClockFacts DEF Row, IntRow
<1>2. NatRow \subseteq IntRow
  BY DEF IntRow, NatRow
<1>3. Zero \in Row /\ Zero \in NatRow
  BY ClockFacts DEF Row, NatRow, Zero
<1>4. \A k \in NatRow : Leq(Zero, k)
  BY DEF NatRow, Zero, Leq
<1>5. QED
  BY <1>1, <1>2, <1>3, <1>4

LEMMA LeqOrder ==
  /\ \A r \in IntRow : Leq(r, r)
  /\ \A r, s, z \in IntRow : Leq(r, s) /\ Leq(s, z) => Leq(r, z)
BY DEF IntRow, Leq

(* operator|= is the least upper bound of operator<=. *)
LEMMA JoinFacts ==
  /\ \A r, s \in Row : Join(r, s) \in Row
  /\ \A r, s \in NatRow : Join(r, s) \in NatRow
  /\ \A r, s \in IntRow : Leq(r, Join(r, s)) /\ Leq(s, Join(r, s))
  /\ \A r, s, z \in IntRow : Leq(r, z) /\ Leq(s, z) => Leq(Join(r, s), z)
BY DEF IntRow, NatRow, Row, Leq, Join

(* Counting: the history's row grows, and a clock stored from a smaller    *)
(* value stays below it.                                                   *)
LEMMA TickFacts ==
  ASSUME NEW k \in NatRow, NEW c \in Threads
  PROVE  /\ [k EXCEPT ![c] = @ + 1] \in NatRow
         /\ Leq(k, [k EXCEPT ![c] = @ + 1])
         /\ \A r \in Row, v \in Clocks : Leq(r, k) /\ v < k[c] =>
              [r EXCEPT ![c] = Inc(v)] \in Row /\ Leq([r EXCEPT ![c] = Inc(v)], k)
<1>1. [k EXCEPT ![c] = @ + 1] \in NatRow /\ Leq(k, [k EXCEPT ![c] = @ + 1])
  BY DEF NatRow, Leq
<1>2. ASSUME NEW r \in Row, NEW v \in Clocks, Leq(r, k), v < k[c]
      PROVE  [r EXCEPT ![c] = Inc(v)] \in Row /\ Leq([r EXCEPT ![c] = Inc(v)], k)
  <2>1. Inc(v) \in Clocks /\ Inc(v) <= v + 1 /\ v \in Int /\ Inc(v) \in Int
    BY ClockFacts
  <2>2. Inc(v) <= k[c]
    BY <1>2, <2>1 DEF NatRow
  <2>3. QED
    BY <1>2, <2>1, <2>2 DEF Row, Leq
<1>3. QED
  BY <1>1, <1>2

LEMMA LeqAt ==
  ASSUME NEW r \in IntRow, NEW s \in IntRow, Leq(r, s), NEW c \in Threads
  PROVE  r[c] \in Int /\ s[c] \in Int /\ r[c] <= s[c]
BY DEF IntRow, Leq

LEMMA InitInv == Init => ClockInv
<1> SUFFICES ASSUME Init PROVE ClockInv
  OBVIOUS
<1> USE DEF Init
<1>1. \A t \in Threads : /\ pc[t] = "idle" /\ op[t] = NoOp /\ C[t] = Zero /\ know[t] = Zero
                         /\ row[t] = Zero /\ life[t] \in {"unborn", "running"}
                         /\ \A l \in Locks : mode[t][l] = "none"
  OBVIOUS
<1>2. TypeOK
  <2>1. know \in [Threads -> [Threads -> Nat]] /\ pub \in [Locks -> [Threads -> Nat]]
    BY RowFacts DEF NatRow
  <2>2. op \in [Threads -> Ops] /\ pc \in [Threads -> Labels]
    BY DEF Ops, NoOp, Labels
  <2>3. /\ row \in [Threads -> Row] /\ C \in [Threads -> Row] /\ L \in [Locks -> Row]
        /\ R \in [Addrs -> Row]
    BY RowFacts
  <2>4. /\ value \in [Threads -> Clocks] /\ W \in [Addrs -> Clocks] /\ RE \in [Addrs -> -1 .. N]
        /\ users \in [Addrs -> SUBSET Threads]
    BY ClockFacts, FastTrackAssumption
  <2>5. life \in [Threads -> {"unborn", "running", "done", "joined"}]
    OBVIOUS
  <2>6. mode \in [Threads -> [Locks -> {"none", "read", "write"}]]
    OBVIOUS
  <2>7. QED
    BY <2>1, <2>2, <2>3, <2>4, <2>5, <2>6 DEF TypeOK
<1>3. RowsKnown /\ LocksSound
  BY <1>1, RowFacts DEF RowsKnown, LocksSound
<1>4. Exclusive /\ UnbornEmpty /\ OneJoiner
  BY <1>1 DEF Exclusive, UnbornEmpty, OneJoiner, Is, NoOp, Locks
<1>5. \A t \in Threads : Stage(t)
  BY <1>1 DEF Stage, Is, NoOp
<1>6. QED
  BY <1>2, <1>3, <1>4, <1>5 DEF ClockInv

(* The argument of a handler is a lock or a thread as the handler says. *)
LEMMA OpArg ==
  ASSUME NEW o \in Ops
  PROVE  /\ o.what \in {"onLock", "onUnlock", "wake"} => o.arg \in Locks
         /\ o.what \in {"onCreate", "onDestroy"} => o.arg \in Threads
         /\ o.what \in {"onLock", "onUnlock", "wake", "onCreate", "onDestroy", "none"}
BY DEF Ops, NoOp

(* The thread whose row a handler changes, and the one it counts for *)
LEMMA Roles ==
  ASSUME NEW t \in Threads, op[t] \in Ops
  PROVE  /\ Target(t) \in Threads /\ Counted(t) \in Threads
         /\ Is(t, "onCreate") => Target(t) = op[t].arg /\ Counted(t) = t
         /\ Is(t, "onDestroy") => Target(t) = t /\ Counted(t) = op[t].arg
         /\ Is(t, "onLock") \/ Is(t, "onUnlock") => Target(t) = t /\ Counted(t) = t
BY OpArg DEF Target, Counted, Is

(* What a step of t may do to the history and to the lives of threads: what *)
(* is known grows, but another thread's knowledge stays as it is unless t   *)
(* has joined that thread, and only who holds a lock publishes in it.       *)
Frame(t) ==
  /\ \A f \in Threads : life[f] # "unborn" => life'[f] # "unborn" /\ Leq(know[f], know'[f])
  /\ \A f \in Threads : life[f] = "running" /\ f # t => life'[f] = "running" /\ know'[f] = know[f]
  /\ \A f \in Threads : life[f] = "joined" =>
       /\ life'[f] = "joined"
       /\ know'[f] = know[f] \/ (Is(t, "onDestroy") /\ op[t].arg = f)
  /\ \A l \in Locks : mode[t][l] = "none" => pub'[l] = pub[l]

(* A thread that does not take the step stays where it is. *)
Still(u) ==
  /\ pc'[u] = pc[u] /\ op'[u] = op[u] /\ row'[u] = row[u] /\ value'[u] = value[u]
  /\ mode'[u] = mode[u]

LEMMA Typed ==
  ASSUME TypeOK
  PROVE  /\ \A t \in Threads : /\ know[t] \in NatRow /\ know[t] \in IntRow
                               /\ C[t] \in Row /\ C[t] \in IntRow
                               /\ row[t] \in Row /\ row[t] \in IntRow
                               /\ value[t] \in Clocks /\ value[t] \in Int
                               /\ op[t] \in Ops /\ pc[t] \in Labels
         /\ \A l \in Locks : pub[l] \in NatRow /\ pub[l] \in IntRow /\ L[l] \in Row /\ L[l] \in IntRow
BY RowFacts, ClockFacts DEF TypeOK, NatRow

LEMMA TypedNext ==
  ASSUME TypeOK'
  PROVE  \A t \in Threads : know'[t] \in NatRow /\ know'[t] \in IntRow
BY RowFacts DEF TypeOK, NatRow

LEMMA OthersStage ==
  ASSUME ClockInv, TypeOK', NEW t \in Threads, NEW u \in Threads, u # t, Frame(t), Still(u)
  PROVE  Stage(u)'
<1>1. /\ TypeOK /\ Stage(u) /\ Exclusive /\ OneJoiner
  BY DEF ClockInv
<1>2. op[u] \in Ops
  BY <1>1, Typed
<1>3. pc[u] # "idle" => life[u] = "running" /\ life'[u] = "running" /\ know'[u] = know[u]
  BY <1>1 DEF Stage, Frame
<1>4. ASSUME Is(u, "onCreate")
      PROVE  /\ op[u].arg \in Threads /\ life[op[u].arg] # "unborn"
             /\ life'[op[u].arg] # "unborn" /\ Leq(know[op[u].arg], know'[op[u].arg])
  BY <1>1, <1>2, <1>4, OpArg DEF Stage, Frame, Is
<1>5. ASSUME Is(u, "onDestroy")
      PROVE  /\ op[u].arg \in Threads /\ life[op[u].arg] = "joined"
             /\ life'[op[u].arg] = "joined" /\ know'[op[u].arg] = know[op[u].arg]
  <2>1. op[u].arg \in Threads /\ life[op[u].arg] = "joined"
    BY <1>1, <1>2, <1>5, OpArg DEF Stage, Is
  <2>2. ~(Is(t, "onDestroy") /\ op[t].arg = op[u].arg)
    <3>1. SUFFICES ASSUME Is(t, "onDestroy"), op[t].arg = op[u].arg PROVE FALSE
      OBVIOUS
    <3>2. op[t] \in Ops
      BY <1>1, Typed
    <3>3. op[t] = op[u]
      BY <1>2, <1>5, <3>1, <3>2 DEF Ops, NoOp, Is
    <3>4. QED
      BY <1>1, <1>5, <3>3 DEF OneJoiner
  <2>3. QED
    BY <2>1, <2>2 DEF Frame
<1>6. ASSUME pc[u] = "load", Is(u, "onLock")
      PROVE  mode'[u][op[u].arg] = "write" /\ Leq(pub'[op[u].arg], know'[u])
  <2>1. op[u].arg \in Locks /\ mode[u][op[u].arg] = "write" /\ Leq(pub[op[u].arg], know[u])
    BY <1>1, <1>2, <1>6, OpArg DEF Stage, Is
  <2>2. mode[t][op[u].arg] = "none"
    BY <1>1, <2>1 DEF Exclusive
  <2>3. QED
    BY <1>3, <1>6, <2>1, <2>2 DEF Frame, Still
<1>7. ASSUME pc[u] = "load", Is(u, "onCreate")
      PROVE  Leq(know'[u], know'[op[u].arg])
  <2>1. Leq(know[u], know[op[u].arg])
    BY <1>1, <1>7 DEF Stage
  <2>2. QED
    BY <1>1, <1>3, <1>4, <1>7, <2>1, Typed, TypedNext, LeqOrder
<1>8. ASSUME pc[u] = "load", Is(u, "onDestroy")
      PROVE  Leq(know'[op[u].arg], know'[u])
  BY <1>1, <1>3, <1>5, <1>8 DEF Stage
<1>9. ASSUME pc[u] = "store" PROVE Leq(row[u], know'[Target(u)])
  <2>1. Leq(row[u], know[Target(u)]) /\ op[u].what \in {"onLock", "onCreate", "onDestroy"}
    BY <1>1, <1>9 DEF Stage
  <2>2. Leq(know[Target(u)], know'[Target(u)])
    <3>1. CASE Is(u, "onCreate")
      BY <1>2, <1>4, <3>1, Roles
    <3>2. CASE ~Is(u, "onCreate")
      <4>1. Target(u) = u
        BY <3>2 DEF Target
      <4>2. QED
        BY <1>1, <1>3, <1>9, <4>1, Typed, LeqOrder
    <3>3. QED
      BY <3>1, <3>2
  <2>3. QED
    BY <1>1, <1>2, <2>1, <2>2, Roles, Typed, TypedNext, LeqOrder
<1>10. ASSUME pc[u] = "storeTick" PROVE value[u] < know'[Counted(u)][Counted(u)]
  <2>1. value[u] < know[Counted(u)][Counted(u)]
    BY <1>1, <1>10 DEF Stage
  <2>2. know'[Counted(u)] = know[Counted(u)]
    BY <1>2, <1>3, <1>5, <1>10, Roles DEF Counted
  <2>3. QED
    BY <2>1, <2>2
<1>11. Target(u)' = Target(u) /\ Counted(u)' = Counted(u)
  BY DEF Still, Target, Counted, Is
<1>12. QED
  BY <1>1, <1>3, <1>4, <1>5, <1>6, <1>7, <1>8, <1>9, <1>10, <1>11 DEF Stage, Still, Is
LEMMA IdleStage ==
  ASSUME NEW t \in Threads, pc'[t] = "idle", op'[t] = NoOp
  PROVE  Stage(t)'
BY DEF Stage, Is, NoOp

(* What Enter and Leave do to the running handler *)
LEMMA EnterFacts ==
  ASSUME TypeOK, NEW t \in Threads, NEW what, NEW arg, NEW step \in Labels,
         [what |-> what, arg |-> arg] \in Ops, Enter(t, what, arg, step)
  PROVE  /\ op' \in [Threads -> Ops] /\ op'[t].what = what /\ op'[t].arg = arg
         /\ pc' \in [Threads -> Labels] /\ pc'[t] = step
         /\ \A u \in Threads : u # t => op'[u] = op[u] /\ pc'[u] = pc[u]
         /\ row' = row /\ value' = value
BY DEF Enter, Goto, TypeOK

LEMMA LeaveFacts ==
  ASSUME TypeOK, NEW t \in Threads, Leave(t)
  PROVE  /\ op' \in [Threads -> Ops] /\ op'[t] = NoOp
         /\ pc' \in [Threads -> Labels] /\ pc'[t] = "idle"
         /\ \A u \in Threads : u # t => op'[u] = op[u] /\ pc'[u] = pc[u]
         /\ row' = row /\ value' = value
<1>1. NoOp \in Ops /\ "idle" \in Labels
  BY DEF Ops, Labels
<1>2. QED
  BY <1>1 DEF Leave, Goto, TypeOK

LEMMA GotoFacts ==
  ASSUME TypeOK, NEW t \in Threads, NEW step \in Labels, Goto(t, step)
  PROVE  /\ pc' \in [Threads -> Labels] /\ pc'[t] = step
         /\ \A u \in Threads : u # t => pc'[u] = pc[u]
BY DEF Goto, TypeOK

(* Nobody else begins to join a thread unless t does. *)
LEMMA JoinersKept ==
  ASSUME OneJoiner, NEW t \in Threads, \A u \in Threads : u # t => op'[u] = op[u],
         op'[t] = op[t] \/ op'[t].what # "onDestroy"
  PROVE  OneJoiner'
<1>1. \A u, v \in Threads : Is(u, "onDestroy") /\ op[u] = op[v] => u = v
  BY DEF OneJoiner
<1>2. ASSUME NEW u \in Threads, NEW v \in Threads, op'[u].what = "onDestroy", op'[u] = op'[v]
      PROVE  u = v
  <2>1. op'[v].what = "onDestroy"
    BY <1>2
  <2>2. op'[u] = op[u] /\ op'[v] = op[v]
    BY <1>2, <2>1
  <2>3. QED
    BY <1>1, <1>2, <2>2 DEF Is
<1>3. QED
  BY <1>2 DEF OneJoiner, Is

(* A thread that has ended has not been joined before. *)
LEMMA JoinerAlone ==
  ASSUME OneJoiner, NEW t \in Threads, NEW f \in Threads, life[f] = "done",
         \A u \in Threads : Is(u, "onDestroy") => life[op[u].arg] = "joined",
         \A u \in Threads : u # t => op'[u] = op[u], op'[t].arg = f
  PROVE  OneJoiner'
<1>1. ASSUME NEW u \in Threads, u # t, op'[u].what = "onDestroy" PROVE op'[u].arg # f
  <2>1. Is(u, "onDestroy") /\ op'[u] = op[u] /\ life[op[u].arg] = "joined"
    BY <1>1 DEF Is
  <2>2. QED
    BY <2>1
<1>2. \A u, v \in Threads : op[u].what = "onDestroy" /\ op[u] = op[v] => u = v
  BY DEF OneJoiner, Is
<1>3. ASSUME NEW u \in Threads, NEW v \in Threads, op'[u].what = "onDestroy", op'[u] = op'[v]
      PROVE  u = v
  BY <1>1, <1>2, <1>3
<1>4. QED
  BY <1>3 DEF OneJoiner, Is

(* While rows stay, what is known keeps covering them. *)
LEMMA SoundKept ==
  ASSUME ClockInv, TypeOK', NEW t \in Threads, Frame(t), C' = C
  PROVE  RowsKnown' /\ UnbornEmpty'
<1>1. TypeOK /\ RowsKnown /\ UnbornEmpty
  BY DEF ClockInv
<1>2. ASSUME NEW f \in Threads PROVE Leq(C'[f], know'[f])
  <2>1. CASE life[f] = "unborn"
    BY <1>1, <2>1, RowFacts, TypedNext DEF UnbornEmpty
  <2>2. CASE life[f] # "unborn"
    <3>1. Leq(C[f], know[f]) /\ Leq(know[f], know'[f])
      BY <1>1, <2>2 DEF RowsKnown, Frame
    <3>2. QED
      BY <1>1, <3>1, Typed, TypedNext, LeqOrder
  <2>3. QED
    BY <2>1, <2>2
<1>3. UnbornEmpty'
  BY <1>1 DEF UnbornEmpty, Frame
<1>4. QED
  BY <1>2, <1>3 DEF RowsKnown

(* A step that leaves the history, the program and the rows of locks alone *)
LEMMA QuietFrame ==
  ASSUME TypeOK, NEW t \in Threads, UNCHANGED <<know, pub, life>>
  PROVE  Frame(t)
BY Typed, LeqOrder DEF Frame

LEMMA Assemble ==
  ASSUME ClockInv, TypeOK', NEW t \in Threads, Frame(t), \A u \in Threads : u # t => Still(u),
         RowsKnown', LocksSound', Exclusive', UnbornEmpty', OneJoiner', Stage(t)'
  PROVE  ClockInv'
<1>1. \A u \in Threads : Stage(u)'
  BY OthersStage
<1>2. QED
  BY <1>1 DEF ClockInv

(* Accesses change only the epochs of their address. *)
LEMMA EpochSet ==
  ASSUME NEW r \in [Addrs -> Row], NEW a \in Addrs, NEW u \in Threads, NEW v \in Threads,
         NEW c \in Clocks
  PROVE  /\ [r EXCEPT ![a][u] = c] \in [Addrs -> Row]
         /\ [r EXCEPT ![a][u] = c, ![a][v] = c] \in [Addrs -> Row]
BY DEF Row

LEMMA EpochTypes ==
  ASSUME TypeOK, NEW t \in Threads, OnLoad(t) \/ OnStore(t)
  PROVE  /\ R' \in [Addrs -> Row] /\ W' \in [Addrs -> Clocks]
         /\ RE' \in [Addrs -> -1 .. N] /\ users' \in [Addrs -> SUBSET Threads]
<1> DEFINE now == C[t][t]
<1>1. now \in Clocks /\ 0 \in Clocks
  BY Typed, ClockFacts DEF Row
<1>2. t \in -1 .. N /\ 0 \in -1 .. N /\ -1 \in -1 .. N
  BY FastTrackAssumption DEF Threads
<1>3. /\ R \in [Addrs -> Row] /\ W \in [Addrs -> Clocks]
      /\ RE \in [Addrs -> -1 .. N] /\ users \in [Addrs -> SUBSET Threads]
  BY DEF TypeOK
<1>4. \A a \in Addrs : RE[a] > 0 => RE[a] \in Threads
  BY <1>3, FastTrackAssumption DEF Threads
<1>5. PICK a \in Addrs :
        /\ \/ R' = R \/ R' = [R EXCEPT ![a][t] = now] \/ R' = [R EXCEPT ![a][t] = 0]
           \/ RE[a] > 0 /\ R' = [R EXCEPT ![a][t] = now, ![a][RE[a]] = now]
        /\ W' = W \/ W' = [W EXCEPT ![a] = now]
        /\ \E e \in {0, -1, t} : RE' = RE \/ RE' = [RE EXCEPT ![a] = e]
        /\ Used(a, t)
  <2>1. CASE OnLoad(t)
    BY <2>1 DEF OnLoad
  <2>2. CASE OnStore(t)
    BY <2>2 DEF OnStore
  <2>3. QED
    BY <2>1, <2>2
<1> HIDE DEF now
<1>6. R' \in [Addrs -> Row]
  <2>1. CASE RE[a] > 0 /\ R' = [R EXCEPT ![a][t] = now, ![a][RE[a]] = now]
    <3>1. RE[a] \in Threads
      BY <1>4, <2>1
    <3> DEFINE v == RE[a]
    <3>2. R' = [R EXCEPT ![a][t] = now, ![a][v] = now]
      BY <2>1
    <3> HIDE DEF v
    <3>3. v \in Threads
      BY <3>1 DEF v
    <3>4. [R EXCEPT ![a][t] = now, ![a][v] = now] \in [Addrs -> Row]
      BY <1>1, <1>3, <3>3, EpochSet
    <3>5. QED
      BY <3>2, <3>4
  <2>2. [R EXCEPT ![a][t] = now] \in [Addrs -> Row] /\ [R EXCEPT ![a][t] = 0] \in [Addrs -> Row]
    BY <1>1, <1>3, EpochSet
  <2>3. QED
    BY <1>3, <1>5, <2>1, <2>2
<1>7. W' \in [Addrs -> Clocks]
  BY <1>1, <1>3, <1>5
<1>8. RE' \in [Addrs -> -1 .. N]
  BY <1>2, <1>3, <1>5
<1>9. users' \in [Addrs -> SUBSET Threads]
  BY <1>3, <1>5 DEF Used
<1>10. QED
  BY <1>6, <1>7, <1>8, <1>9
LEMMA AccessStep ==
  ASSUME ClockInv, NEW t \in Threads, OnLoad(t) \/ OnStore(t)
  PROVE  ClockInv'
<1>1. TypeOK /\ LocksSound /\ Exclusive /\ OneJoiner /\ Stage(t)
  BY DEF ClockInv
<1>2. UNCHANGED <<pc, op, row, value, C, L, life, mode, know, pub>>
  BY DEF OnLoad, OnStore, handler, program
<1>3. TypeOK'
  BY <1>1, <1>2, EpochTypes DEF TypeOK
<1>4. Frame(t)
  BY <1>1, <1>2, QuietFrame
<1>5. RowsKnown' /\ UnbornEmpty'
  BY <1>2, <1>3, <1>4, SoundKept
<1>6. \A u \in Threads : Still(u)
  BY <1>2 DEF Still
<1>7. LocksSound' /\ Exclusive' /\ OneJoiner'
  BY <1>1, <1>2 DEF LocksSound, Exclusive, OneJoiner, Is
<1>8. Stage(t)'
  BY <1>1, <1>2 DEF Stage, Is, Target, Counted
<1>9. QED
  BY <1>3, <1>4, <1>5, <1>6, <1>7, <1>8, Assemble

(* What a handler merges into a row is known to the thread of that row. *)
LEMMA MergedKnown ==
  ASSUME ClockInv, NEW t \in Threads, pc[t] = "load"
  PROVE  Merged(t) \in Row /\ Leq(Merged(t), know[Target(t)])
<1>1. TypeOK /\ RowsKnown /\ LocksSound /\ Stage(t)
  BY DEF ClockInv
<1>2. op[t] \in Ops
  BY <1>1, Typed
<1>3. CASE Is(t, "onLock")
  <2>1. op[t].arg \in Locks /\ Merged(t) = L[op[t].arg] /\ Target(t) = t
    BY <1>2, <1>3, OpArg, Roles DEF Merged, Is
  <2>2. Leq(L[op[t].arg], pub[op[t].arg]) /\ Leq(pub[op[t].arg], know[t])
    BY <1>1, <1>3, <2>1 DEF LocksSound, Stage
  <2>3. QED
    BY <1>1, <2>1, <2>2, Typed, LeqOrder
<1>4. CASE Is(t, "onCreate")
  <2>1. op[t].arg \in Threads /\ Merged(t) = C[t] /\ Target(t) = op[t].arg
    BY <1>2, <1>4, OpArg, Roles DEF Merged, Is
  <2>2. Leq(C[t], know[t]) /\ Leq(know[t], know[op[t].arg])
    BY <1>1, <1>4 DEF RowsKnown, Stage
  <2>3. QED
    BY <1>1, <2>1, <2>2, Typed, LeqOrder
<1>5. CASE Is(t, "onDestroy")
  <2>1. op[t].arg \in Threads /\ Merged(t) = C[op[t].arg] /\ Target(t) = t
    BY <1>2, <1>5, OpArg, Roles DEF Merged, Is
  <2>2. Leq(C[op[t].arg], know[op[t].arg]) /\ Leq(know[op[t].arg], know[t])
    BY <1>1, <1>5, <2>1 DEF RowsKnown, Stage
  <2>3. QED
    BY <1>1, <2>1, <2>2, Typed, LeqOrder
<1>6. QED
  BY <1>1, <1>3, <1>4, <1>5 DEF Stage, Is

LEMMA LoadRowStep ==
  ASSUME ClockInv, NEW t \in Threads, LoadRow(t)
  PROVE  ClockInv'
<1>1. TypeOK /\ RowsKnown /\ LocksSound /\ Exclusive /\ OneJoiner /\ Stage(t)
  BY DEF ClockInv
<1>2. /\ pc[t] = "load" /\ Goto(t, "store")
      /\ row' = [row EXCEPT ![t] = Join(C[Target(t)], Merged(t))]
      /\ UNCHANGED <<op, value, C, L, R, W, RE, users, life, mode, know, pub>>
  BY DEF LoadRow, epochs, program
<1> DEFINE new == Join(C[Target(t)], Merged(t))
<1>3. op[t] \in Ops /\ Target(t) \in Threads
  BY <1>1, Typed, Roles
<1>4. new \in Row /\ Leq(new, know[Target(t)])
  <2>1. /\ C[Target(t)] \in Row /\ C[Target(t)] \in IntRow /\ know[Target(t)] \in IntRow
        /\ Leq(C[Target(t)], know[Target(t)])
    BY <1>1, <1>3, Typed DEF RowsKnown
  <2>2. Merged(t) \in Row /\ Merged(t) \in IntRow /\ Leq(Merged(t), know[Target(t)])
    BY <1>2, MergedKnown, RowFacts
  <2>3. QED
    BY <2>1, <2>2, JoinFacts
<1>5. row' = [row EXCEPT ![t] = new]
  BY <1>2
<1> HIDE DEF new
<1>6. /\ row' \in [Threads -> Row] /\ row'[t] = new
      /\ \A u \in Threads : u # t => row'[u] = row[u]
  BY <1>1, <1>4, <1>5 DEF TypeOK
<1>7. pc' \in [Threads -> Labels] /\ pc'[t] = "store" /\ \A u \in Threads : u # t => pc'[u] = pc[u]
  BY <1>1, <1>2, GotoFacts DEF Labels
<1>8. TypeOK'
  BY <1>1, <1>2, <1>6, <1>7 DEF TypeOK
<1>9. Frame(t)
  BY <1>1, <1>2, QuietFrame
<1>10. RowsKnown' /\ UnbornEmpty'
  BY <1>2, <1>8, <1>9, SoundKept
<1>11. \A u \in Threads : u # t => Still(u)
  BY <1>2, <1>6, <1>7 DEF Still
<1>12. LocksSound' /\ Exclusive' /\ OneJoiner'
  BY <1>1, <1>2 DEF LocksSound, Exclusive, OneJoiner, Is
<1>13. Stage(t)'
  <2>1. Target(t)' = Target(t)
    BY <1>2 DEF Target, Is
  <2>2. Leq(row'[t], know'[Target(t)])
    BY <1>2, <1>4, <1>6
  <2>3. QED
    BY <1>1, <1>2, <1>7, <2>1, <2>2 DEF Stage, Is
<1>14. QED
  BY <1>8, <1>9, <1>10, <1>11, <1>12, <1>13, Assemble

(* Storing a row, or a counted clock, that its thread knows *)
LEMMA RowStored ==
  ASSUME ClockInv, NEW f \in Threads, NEW r \in Row, Leq(r, know[f]), life[f] # "unborn",
         C' = [C EXCEPT ![f] = r], UNCHANGED <<know, life>>
  PROVE  C' \in [Threads -> Row] /\ RowsKnown' /\ UnbornEmpty'
<1>1. TypeOK /\ RowsKnown /\ UnbornEmpty
  BY DEF ClockInv
<1>2. C' \in [Threads -> Row] /\ C'[f] = r /\ \A u \in Threads : u # f => C'[u] = C[u]
  BY <1>1 DEF TypeOK
<1>3. RowsKnown'
  BY <1>1, <1>2 DEF RowsKnown
<1>4. UnbornEmpty'
  BY <1>1, <1>2 DEF UnbornEmpty
<1>5. QED
  BY <1>2, <1>3, <1>4

(* The threads a handler changes the rows and clocks of have begun. *)
LEMMA RolesBorn ==
  ASSUME ClockInv, NEW t \in Threads, pc[t] # "idle"
  PROVE  life[Target(t)] # "unborn" /\ life[Counted(t)] # "unborn"
<1>1. TypeOK /\ Stage(t)
  BY DEF ClockInv
<1>2. op[t] \in Ops
  BY <1>1, Typed
<1>3. QED
  BY <1>1 DEF Stage, Target, Counted, Is
LEMMA StoreRowStep ==
  ASSUME ClockInv, NEW t \in Threads, StoreRow(t)
  PROVE  ClockInv'
<1>1. TypeOK /\ RowsKnown /\ LocksSound /\ Exclusive /\ OneJoiner /\ Stage(t)
  BY DEF ClockInv
<1>2. /\ pc[t] = "store" /\ C' = [C EXCEPT ![Target(t)] = row[t]]
      /\ UNCHANGED <<row, value, L, R, W, RE, users, life, mode, know, pub>>
      /\ \/ Leave(t)
         \/ ~Is(t, "onLock") /\ Goto(t, "loadTick") /\ op' = op
  BY DEF StoreRow, epochs, program, Leave
<1>3. op[t] \in Ops /\ Target(t) \in Threads /\ row[t] \in Row /\ life[Target(t)] # "unborn"
  BY <1>1, <1>2, Typed, Roles, RolesBorn
<1>4. C' \in [Threads -> Row] /\ RowsKnown' /\ UnbornEmpty'
  <2>1. Leq(row[t], know[Target(t)])
    BY <1>1, <1>2 DEF Stage
  <2>2. QED
    BY <1>2, <1>3, <2>1, RowStored
<1>5. /\ pc' \in [Threads -> Labels] /\ op' \in [Threads -> Ops]
      /\ \A u \in Threads : u # t => pc'[u] = pc[u] /\ op'[u] = op[u]
      /\ \/ pc'[t] = "idle" /\ op'[t] = NoOp
         \/ ~Is(t, "onLock") /\ pc'[t] = "loadTick" /\ op' = op
  <2>1. CASE Leave(t)
    BY <1>1, <2>1, LeaveFacts
  <2>2. CASE ~Is(t, "onLock") /\ Goto(t, "loadTick") /\ op' = op
    BY <1>1, <2>2, GotoFacts DEF Labels, TypeOK
  <2>3. QED
    BY <1>2, <2>1, <2>2
<1>6. TypeOK'
  BY <1>1, <1>2, <1>4, <1>5 DEF TypeOK
<1>7. Frame(t)
  BY <1>1, <1>2, QuietFrame
<1>8. \A u \in Threads : u # t => Still(u)
  BY <1>2, <1>5 DEF Still
<1>9. OneJoiner'
  BY <1>1, <1>5, JoinersKept DEF NoOp
<1>10. LocksSound' /\ Exclusive'
  BY <1>1, <1>2 DEF LocksSound, Exclusive
<1>11. Stage(t)'
  <2>1. CASE pc'[t] = "idle" /\ op'[t] = NoOp
    BY <2>1, IdleStage
  <2>2. CASE ~Is(t, "onLock") /\ pc'[t] = "loadTick" /\ op' = op
    BY <1>1, <1>2, <2>2 DEF Stage, Is
  <2>3. QED
    BY <1>5, <2>1, <2>2
<1>12. QED
  BY <1>4, <1>6, <1>7, <1>8, <1>9, <1>10, <1>11, Assemble

LEMMA LoadTickStep ==
  ASSUME ClockInv, NEW t \in Threads, LoadTick(t)
  PROVE  ClockInv'
<1> DEFINE c == Counted(t)
<1>1. TypeOK /\ RowsKnown /\ LocksSound /\ Exclusive /\ OneJoiner /\ Stage(t)
  BY DEF ClockInv
<1>2. /\ pc[t] = "loadTick" /\ Goto(t, "storeTick")
      /\ value' = [value EXCEPT ![t] = C[c][c]]
      /\ know' = [know EXCEPT ![c][c] = @ + 1]
      /\ UNCHANGED <<op, row, C, L, R, W, RE, users, life, mode, pub>>
  BY DEF LoadTick, epochs, program
<1>3. op[t] \in Ops /\ c \in Threads
  BY <1>1, Typed, Roles
<1>4. c = t \/ (Is(t, "onDestroy") /\ op[t].arg = c /\ life[c] = "joined")
  BY <1>1 DEF Counted, Stage
<1>5. c = Counted(t)' /\ life[t] = "running"
  BY <1>1, <1>2 DEF Counted, Is, Stage
<1> HIDE DEF c
<1>6. know[c] \in NatRow /\ C[c] \in Row /\ C[c] \in IntRow /\ know[c] \in IntRow /\ Leq(C[c], know[c])
  BY <1>1, <1>3, Typed DEF RowsKnown
<1>7. /\ know' \in [Threads -> NatRow] /\ know'[c] = [know[c] EXCEPT ![c] = @ + 1]
      /\ \A f \in Threads : f # c => know'[f] = know[f]
  <2> DEFINE new == [know[c] EXCEPT ![c] = @ + 1]
  <2>1. know \in [Threads -> NatRow]
    BY <1>1 DEF TypeOK, NatRow
  <2>2. new \in NatRow
    BY <1>3, <1>6, TickFacts
  <2>3. know' = [know EXCEPT ![c] = new]
    BY <1>2
  <2>4. new = [know[c] EXCEPT ![c] = @ + 1]
    OBVIOUS
  <2> HIDE DEF new
  <2>5. QED
    BY <1>3, <2>1, <2>2, <2>3, <2>4
<1>8. Leq(know[c], know'[c]) /\ know'[c][c] = know[c][c] + 1
  BY <1>3, <1>6, <1>7, TickFacts DEF NatRow
<1>9. C[c][c] \in Clocks /\ C[c][c] < know'[c][c]
  <2>1. C[c][c] \in Int /\ know[c][c] \in Int /\ C[c][c] <= know[c][c]
    BY <1>3, <1>6, LeqAt
  <2>2. QED
    BY <1>3, <1>6, <1>8, <2>1 DEF Row
<1>10. /\ value' \in [Threads -> Clocks] /\ value'[t] = C[c][c]
       /\ \A u \in Threads : u # t => value'[u] = value[u]
  BY <1>1, <1>2, <1>9 DEF TypeOK
<1>11. pc' \in [Threads -> Labels] /\ pc'[t] = "storeTick" /\ \A u \in Threads : u # t => pc'[u] = pc[u]
  BY <1>1, <1>2, GotoFacts DEF Labels
<1>12. TypeOK'
  BY <1>1, <1>2, <1>7, <1>10, <1>11 DEF TypeOK, NatRow
<1>13. Frame(t)
  <2>1. \A f \in Threads : Leq(know[f], know'[f])
    BY <1>1, <1>7, <1>8, Typed, LeqOrder
  <2>2. QED
    BY <1>2, <1>3, <1>4, <1>5, <1>7, <2>1 DEF Frame
<1>14. RowsKnown' /\ UnbornEmpty'
  BY <1>2, <1>12, <1>13, SoundKept
<1>15. \A u \in Threads : u # t => Still(u)
  BY <1>2, <1>10, <1>11 DEF Still
<1>16. LocksSound' /\ Exclusive' /\ OneJoiner'
  BY <1>1, <1>2 DEF LocksSound, Exclusive, OneJoiner, Is
<1>17. Stage(t)'
  <2>1. value'[t] < know'[Counted(t)'][Counted(t)']
    BY <1>5, <1>9, <1>10
  <2>2. QED
    BY <1>1, <1>2, <1>11, <2>1 DEF Stage, Is
<1>18. QED
  BY <1>12, <1>13, <1>14, <1>15, <1>16, <1>17, Assemble

LEMMA StoreTickStep ==
  ASSUME ClockInv, NEW t \in Threads, StoreTick(t)
  PROVE  ClockInv'
<1> DEFINE c == Counted(t)
           new == [C[c] EXCEPT ![c] = Inc(value[t])]
<1>1. TypeOK /\ RowsKnown /\ LocksSound /\ Exclusive /\ OneJoiner /\ Stage(t)
  BY DEF ClockInv
<1>2. /\ pc[t] = "storeTick" /\ C' = [C EXCEPT ![c][c] = Inc(value[t])]
      /\ UNCHANGED <<row, value, L, R, W, RE, users, life, mode, know, pub>>
      /\ \/ Leave(t)
         \/ Is(t, "onUnlock") /\ Goto(t, "release") /\ op' = op
  BY DEF StoreTick, epochs, program, Leave
<1>3. op[t] \in Ops /\ c \in Threads /\ life[c] # "unborn" /\ value[t] < know[c][c]
  BY <1>1, <1>2, Typed, Roles, RolesBorn DEF Stage
<1>4. C' = [C EXCEPT ![c] = new]
  BY <1>2
<1>5. new = [C[c] EXCEPT ![c] = Inc(value[t])]
  OBVIOUS
<1> HIDE DEF c, new
<1>6. new \in Row /\ Leq(new, know[c])
  <2>1. know[c] \in NatRow /\ C[c] \in Row /\ value[t] \in Clocks /\ Leq(C[c], know[c])
    BY <1>1, <1>3, Typed DEF RowsKnown
  <2>2. QED
    BY <1>3, <1>5, <2>1, TickFacts
<1>7. C' \in [Threads -> Row] /\ RowsKnown' /\ UnbornEmpty'
  BY <1>2, <1>3, <1>4, <1>6, RowStored
<1>8. /\ pc' \in [Threads -> Labels] /\ op' \in [Threads -> Ops]
      /\ \A u \in Threads : u # t => pc'[u] = pc[u] /\ op'[u] = op[u]
      /\ \/ pc'[t] = "idle" /\ op'[t] = NoOp
         \/ Is(t, "onUnlock") /\ pc'[t] = "release" /\ op' = op
  <2>1. CASE Leave(t)
    BY <1>1, <2>1, LeaveFacts
  <2>2. CASE Is(t, "onUnlock") /\ Goto(t, "release") /\ op' = op
    BY <1>1, <2>2, GotoFacts DEF Labels, TypeOK
  <2>3. QED
    BY <1>2, <2>1, <2>2
<1>9. TypeOK'
  BY <1>1, <1>2, <1>7, <1>8 DEF TypeOK
<1>10. Frame(t)
  BY <1>1, <1>2, QuietFrame
<1>11. \A u \in Threads : u # t => Still(u)
  BY <1>2, <1>8 DEF Still
<1>12. OneJoiner'
  BY <1>1, <1>8, JoinersKept DEF NoOp
<1>13. LocksSound' /\ Exclusive'
  BY <1>1, <1>2 DEF LocksSound, Exclusive
<1>14. Stage(t)'
  <2>1. CASE pc'[t] = "idle" /\ op'[t] = NoOp
    BY <2>1, IdleStage
  <2>2. CASE Is(t, "onUnlock") /\ pc'[t] = "release" /\ op' = op
    BY <1>1, <1>2, <2>2 DEF Stage, Is
  <2>3. QED
    BY <1>8, <2>1, <2>2
<1>15. QED
  BY <1>7, <1>9, <1>10, <1>11, <1>12, <1>13, <1>14, Assemble
(* A running thread learns what a row of the history says. *)
LEMMA Learn ==
  ASSUME TypeOK, NEW t \in Threads, life[t] = "running", NEW k \in NatRow,
         know' = [know EXCEPT ![t] = Join(@, k)]
  PROVE  /\ know' \in [Threads -> [Threads -> Nat]]
         /\ Leq(k, know'[t]) /\ \A f \in Threads : Leq(know[f], know'[f])
         /\ \A f \in Threads : f # t => know'[f] = know[f]
<1> DEFINE new == Join(know[t], k)
<1>1. new \in NatRow /\ Leq(k, new) /\ Leq(know[t], new)
  BY JoinFacts, RowFacts, Typed
<1>2. know' = [know EXCEPT ![t] = new]
  OBVIOUS
<1> HIDE DEF new
<1>3. know \in [Threads -> NatRow]
  BY DEF TypeOK, NatRow
<1>4. know' \in [Threads -> NatRow] /\ know'[t] = new /\ \A f \in Threads : f # t => know'[f] = know[f]
  BY <1>1, <1>2, <1>3
<1>5. QED
  BY <1>1, <1>4, Typed, LeqOrder DEF NatRow

(* And a thread that holds a lock tells those after it what it knows. *)
LEMMA Publish ==
  ASSUME TypeOK, LocksSound, NEW t \in Threads, NEW l \in Locks,
         pub' = [pub EXCEPT ![l] = Join(@, know[t])]
  PROVE  /\ pub' \in [Locks -> [Threads -> Nat]]
         /\ Leq(know[t], pub'[l]) /\ \A k \in Locks : Leq(L[k], pub'[k])
         /\ \A k \in Locks : k # l => pub'[k] = pub[k]
<1> DEFINE new == Join(pub[l], know[t])
<1>1. new \in NatRow /\ Leq(pub[l], new) /\ Leq(know[t], new)
  BY JoinFacts, RowFacts, Typed
<1>2. pub' = [pub EXCEPT ![l] = new]
  OBVIOUS
<1> HIDE DEF new
<1>3. pub \in [Locks -> NatRow]
  BY DEF TypeOK, NatRow
<1>4. pub' \in [Locks -> NatRow] /\ pub'[l] = new /\ \A k \in Locks : k # l => pub'[k] = pub[k]
  BY <1>1, <1>2, <1>3
<1>5. Leq(L[l], new)
  BY <1>1, Typed, RowFacts, LeqOrder DEF LocksSound
<1>6. QED
  BY <1>1, <1>4, <1>5 DEF NatRow, LocksSound

(* A lock given up or taken when it is free keeps writers alone. *)
LEMMA ModeGiven ==
  ASSUME TypeOK, Exclusive, NEW t \in Threads, NEW l \in Locks, NEW m \in {"none", "read", "write"},
         mode' = [mode EXCEPT ![t][l] = m], m = "none" \/ Available(l, m),
         l \in Mutexes => m # "read"
  PROVE  /\ mode' \in [Threads -> [Locks -> {"none", "read", "write"}]] /\ Exclusive'
         /\ mode'[t][l] = m /\ \A u \in Threads : u # t => mode'[u] = mode[u]
<1>1. /\ mode' \in [Threads -> [Locks -> {"none", "read", "write"}]]
      /\ mode'[t][l] = m /\ \A k \in Locks : k # l => mode'[t][k] = mode[t][k]
      /\ \A u \in Threads : u # t => mode'[u] = mode[u]
  BY DEF TypeOK
<1>2. ASSUME NEW v \in Threads, NEW u \in Threads, NEW k \in Locks,
             mode'[v][k] = "write", mode'[u][k] # "none"
      PROVE  v = u
  <2>1. CASE k # l \/ (v # t /\ u # t)
    BY <1>1, <1>2, <2>1 DEF Exclusive
  <2>2. CASE k = l /\ (v = t \/ u = t)
    BY <1>1, <1>2, <2>2 DEF Exclusive, Available, TypeOK
  <2>3. QED
    BY <2>1, <2>2
<1>3. ASSUME NEW v \in Threads, NEW k \in Mutexes PROVE mode'[v][k] # "read"
  BY <1>1 DEF Exclusive, Locks
<1>4. QED
  BY <1>1, <1>2, <1>3 DEF Exclusive

LEMMA AcquireStep ==
  ASSUME RWLocks = {}, ClockInv, NEW t \in Threads, Acquire(t)
  PROVE  ClockInv'
<1>1. TypeOK /\ RowsKnown /\ LocksSound /\ Exclusive /\ OneJoiner /\ Stage(t)
  BY DEF ClockInv
<1>2. PICK l \in Locks, m \in {"read", "write"} :
        /\ l \in Mutexes => m = "write"
        /\ mode[t][l] = "none" /\ Available(l, m)
        /\ mode' = [mode EXCEPT ![t][l] = m]
        /\ know' = [know EXCEPT ![t] = Join(@, pub[l])]
        /\ Enter(t, "onLock", l, "load")
  BY DEF Acquire
<1>3. m = "write" /\ life[t] = "running" /\ UNCHANGED <<C, L, R, W, RE, users, life, pub>>
  BY <1>2 DEF Locks, Acquire, Runs, epochs
<1>4. /\ op' \in [Threads -> Ops] /\ op'[t].what = "onLock" /\ op'[t].arg = l
      /\ pc' \in [Threads -> Labels] /\ pc'[t] = "load"
      /\ \A u \in Threads : u # t => op'[u] = op[u] /\ pc'[u] = pc[u]
      /\ row' = row /\ value' = value
  <2>1. [what |-> "onLock", arg |-> l] \in Ops /\ "load" \in Labels
    BY DEF Ops, Labels
  <2>2. QED
    BY <1>1, <1>2, <2>1, EnterFacts
<1>5. /\ mode' \in [Threads -> [Locks -> {"none", "read", "write"}]] /\ Exclusive'
      /\ mode'[t][l] = "write" /\ \A u \in Threads : u # t => mode'[u] = mode[u]
  BY <1>1, <1>2, <1>3, ModeGiven
<1>6. /\ know' \in [Threads -> [Threads -> Nat]]
      /\ Leq(pub[l], know'[t]) /\ \A f \in Threads : Leq(know[f], know'[f])
      /\ \A f \in Threads : f # t => know'[f] = know[f]
  BY <1>1, <1>2, <1>3, Typed, Learn
<1>7. TypeOK'
  BY <1>1, <1>3, <1>4, <1>5, <1>6 DEF TypeOK
<1>8. Frame(t)
  BY <1>3, <1>6 DEF Frame
<1>9. RowsKnown' /\ UnbornEmpty'
  BY <1>3, <1>7, <1>8, SoundKept
<1>10. \A u \in Threads : u # t => Still(u)
  BY <1>4, <1>5 DEF Still
<1>11. LocksSound' /\ OneJoiner'
  BY <1>1, <1>3, <1>4, JoinersKept DEF LocksSound
<1>12. Stage(t)'
  BY <1>3, <1>4, <1>5, <1>6 DEF Stage, Is
<1>13. QED
  BY <1>5, <1>7, <1>8, <1>9, <1>10, <1>11, <1>12, Assemble
LEMMA OnUnlockStep ==
  ASSUME RWLocks = {}, ClockInv, NEW t \in Threads, OnUnlock(t)
  PROVE  ClockInv'
<1>1. TypeOK /\ RowsKnown /\ LocksSound /\ Exclusive /\ OneJoiner /\ Stage(t)
  BY DEF ClockInv
<1>2. PICK l \in Locks :
        /\ mode[t][l] # "none"
        /\ L' = [L EXCEPT ![l] = C[t]]
        /\ pub' = IF mode[t][l] = "write" THEN [pub EXCEPT ![l] = Join(@, know[t])] ELSE pub
        /\ Enter(t, "onUnlock", l, "loadTick")
  BY DEF OnUnlock
<1>3. mode[t][l] = "write"
  BY <1>1, <1>2 DEF TypeOK, Exclusive, Locks
<1>4. life[t] = "running" /\ UNCHANGED <<C, R, W, RE, users, life, mode, know>>
  BY DEF OnUnlock, Runs, epochs, program
<1>5. /\ op' \in [Threads -> Ops] /\ op'[t].what = "onUnlock" /\ op'[t].arg = l
      /\ pc' \in [Threads -> Labels] /\ pc'[t] = "loadTick"
      /\ \A u \in Threads : u # t => op'[u] = op[u] /\ pc'[u] = pc[u]
      /\ row' = row /\ value' = value
  <2>1. [what |-> "onUnlock", arg |-> l] \in Ops /\ "loadTick" \in Labels
    BY DEF Ops, Labels
  <2>2. QED
    BY <1>1, <1>2, <2>1, EnterFacts
<1>6. /\ pub' \in [Locks -> [Threads -> Nat]]
      /\ Leq(know[t], pub'[l]) /\ \A k \in Locks : Leq(L[k], pub'[k])
      /\ \A k \in Locks : k # l => pub'[k] = pub[k]
  BY <1>1, <1>2, <1>3, Publish
<1>7. L' \in [Locks -> Row] /\ L'[l] = C[t] /\ \A k \in Locks : k # l => L'[k] = L[k]
  BY <1>1, <1>2 DEF TypeOK
<1>8. TypeOK'
  BY <1>1, <1>4, <1>5, <1>6, <1>7 DEF TypeOK
<1>9. LocksSound'
  <2>1. Leq(C[t], know[t]) /\ pub'[l] \in NatRow /\ pub'[l] \in IntRow
    BY <1>1, <1>6, RowFacts DEF RowsKnown, NatRow
  <2>2. Leq(C[t], pub'[l])
    BY <1>1, <1>6, <2>1, Typed, LeqOrder
  <2>3. QED
    BY <1>6, <1>7, <2>2 DEF LocksSound
<1>10. Frame(t)
  BY <1>1, <1>2, <1>4, <1>6, Typed, LeqOrder DEF Frame
<1>11. RowsKnown' /\ UnbornEmpty'
  BY <1>4, <1>8, <1>10, SoundKept
<1>12. \A u \in Threads : u # t => Still(u)
  BY <1>4, <1>5 DEF Still
<1>13. Exclusive' /\ OneJoiner'
  BY <1>1, <1>4, <1>5, JoinersKept DEF Exclusive
<1>14. Stage(t)'
  BY <1>4, <1>5 DEF Stage, Is
<1>15. QED
  BY <1>8, <1>9, <1>10, <1>11, <1>12, <1>13, <1>14, Assemble

LEMMA ReleaseStep ==
  ASSUME ClockInv, NEW t \in Threads, Release(t)
  PROVE  ClockInv'
<1>1. TypeOK /\ RowsKnown /\ LocksSound /\ Exclusive /\ OneJoiner /\ Stage(t)
  BY DEF ClockInv
<1>2. /\ mode' = [mode EXCEPT ![t][op[t].arg] = "none"] /\ Leave(t)
      /\ UNCHANGED <<C, L, R, W, RE, users, life, know, pub>>
  BY DEF Release, epochs
<1>3. op[t].arg \in Locks
  BY <1>1, Typed, OpArg DEF Release, Stage, Is
<1>4. /\ mode' \in [Threads -> [Locks -> {"none", "read", "write"}]] /\ Exclusive'
      /\ \A u \in Threads : u # t => mode'[u] = mode[u]
  BY <1>1, <1>2, <1>3, ModeGiven
<1>5. /\ op' \in [Threads -> Ops] /\ op'[t] = NoOp /\ pc' \in [Threads -> Labels] /\ pc'[t] = "idle"
      /\ \A u \in Threads : u # t => op'[u] = op[u] /\ pc'[u] = pc[u]
      /\ row' = row /\ value' = value
  BY <1>1, <1>2, LeaveFacts
<1>6. TypeOK'
  BY <1>1, <1>2, <1>4, <1>5 DEF TypeOK
<1>7. Frame(t)
  BY <1>1, <1>2, QuietFrame
<1>8. RowsKnown' /\ UnbornEmpty'
  BY <1>2, <1>6, <1>7, SoundKept
<1>9. \A u \in Threads : u # t => Still(u)
  BY <1>4, <1>5 DEF Still
<1>10. LocksSound' /\ OneJoiner' /\ Stage(t)'
  BY <1>1, <1>2, <1>5, JoinersKept, IdleStage DEF LocksSound, NoOp
<1>11. QED
  BY <1>4, <1>6, <1>7, <1>8, <1>9, <1>10, Assemble

LEMMA WaitStep ==
  ASSUME ClockInv, NEW t \in Threads, Wait(t)
  PROVE  ClockInv'
<1>1. TypeOK /\ RowsKnown /\ LocksSound /\ Exclusive /\ OneJoiner /\ Stage(t)
  BY DEF ClockInv
<1>2. PICK l \in Locks :
        /\ mode[t][l] = "write"
        /\ mode' = [mode EXCEPT ![t][l] = "none"]
        /\ pub' = [pub EXCEPT ![l] = Join(@, know[t])]
        /\ Enter(t, "wake", l, "wake")
  BY FastTrackAssumption DEF Wait, Locks
<1>3. life[t] = "running" /\ UNCHANGED <<C, L, R, W, RE, users, life, know>>
  BY DEF Wait, Runs, epochs
<1>4. /\ op' \in [Threads -> Ops] /\ op'[t].what = "wake" /\ op'[t].arg = l
      /\ pc' \in [Threads -> Labels] /\ pc'[t] = "wake"
      /\ \A u \in Threads : u # t => op'[u] = op[u] /\ pc'[u] = pc[u]
      /\ row' = row /\ value' = value
  <2>1. [what |-> "wake", arg |-> l] \in Ops /\ "wake" \in Labels
    BY DEF Ops, Labels
  <2>2. QED
    BY <1>1, <1>2, <2>1, EnterFacts
<1>5. /\ mode' \in [Threads -> [Locks -> {"none", "read", "write"}]] /\ Exclusive'
      /\ \A u \in Threads : u # t => mode'[u] = mode[u]
  BY <1>1, <1>2, ModeGiven
<1>6. /\ pub' \in [Locks -> [Threads -> Nat]] /\ \A k \in Locks : Leq(L[k], pub'[k])
      /\ \A k \in Locks : k # l => pub'[k] = pub[k]
  BY <1>1, <1>2, Publish
<1>7. TypeOK'
  BY <1>1, <1>3, <1>4, <1>5, <1>6 DEF TypeOK
<1>8. Frame(t)
  BY <1>1, <1>2, <1>3, <1>6, Typed, LeqOrder DEF Frame
<1>9. RowsKnown' /\ UnbornEmpty'
  BY <1>3, <1>7, <1>8, SoundKept
<1>10. \A u \in Threads : u # t => Still(u)
  BY <1>4, <1>5 DEF Still
<1>11. LocksSound' /\ OneJoiner'
  BY <1>1, <1>3, <1>4, <1>6, JoinersKept DEF LocksSound
<1>12. Stage(t)'
  BY <1>3, <1>4 DEF Stage, Is
<1>13. QED
  BY <1>5, <1>7, <1>8, <1>9, <1>10, <1>11, <1>12, Assemble

LEMMA WakeStep ==
  ASSUME ClockInv, NEW t \in Threads, Wake(t)
  PROVE  ClockInv'
<1> DEFINE l == op[t].arg
<1>1. TypeOK /\ RowsKnown /\ LocksSound /\ Exclusive /\ OneJoiner /\ Stage(t)
  BY DEF ClockInv
<1>2. /\ Available(l, "write") /\ mode' = [mode EXCEPT ![t][l] = "write"]
      /\ know' = [know EXCEPT ![t] = Join(@, pub[l])] /\ Leave(t)
      /\ UNCHANGED <<C, L, R, W, RE, users, life, pub>>
  BY DEF Wake, epochs
<1>3. l \in Locks /\ life[t] = "running"
  BY <1>1, Typed, OpArg DEF Wake, Stage, Is
<1> HIDE DEF l
<1>4. /\ mode' \in [Threads -> [Locks -> {"none", "read", "write"}]] /\ Exclusive'
      /\ \A u \in Threads : u # t => mode'[u] = mode[u]
  BY <1>1, <1>2, <1>3, ModeGiven
<1>5. /\ know' \in [Threads -> [Threads -> Nat]] /\ \A f \in Threads : Leq(know[f], know'[f])
      /\ \A f \in Threads : f # t => know'[f] = know[f]
  BY <1>1, <1>2, <1>3, Typed, Learn
<1>6. /\ op' \in [Threads -> Ops] /\ op'[t] = NoOp /\ pc' \in [Threads -> Labels] /\ pc'[t] = "idle"
      /\ \A u \in Threads : u # t => op'[u] = op[u] /\ pc'[u] = pc[u]
      /\ row' = row /\ value' = value
  BY <1>1, <1>2, LeaveFacts
<1>7. TypeOK'
  BY <1>1, <1>2, <1>4, <1>5, <1>6 DEF TypeOK
<1>8. Frame(t)
  BY <1>2, <1>3, <1>5 DEF Frame
<1>9. RowsKnown' /\ UnbornEmpty'
  BY <1>2, <1>7, <1>8, SoundKept
<1>10. \A u \in Threads : u # t => Still(u)
  BY <1>4, <1>6 DEF Still
<1>11. LocksSound' /\ OneJoiner' /\ Stage(t)'
  BY <1>1, <1>2, <1>6, JoinersKept, IdleStage DEF LocksSound, NoOp
<1>12. QED
  BY <1>4, <1>7, <1>8, <1>9, <1>10, <1>11, Assemble
LEMMA CreateStep ==
  ASSUME ClockInv, NEW t \in Threads, Create(t)
  PROVE  ClockInv'
<1>1. TypeOK /\ RowsKnown /\ LocksSound /\ Exclusive /\ OneJoiner /\ Stage(t)
  BY DEF ClockInv
<1>2. PICK f \in Threads :
        /\ life[f] = "unborn" /\ life' = [life EXCEPT ![f] = "running"]
        /\ know' = [know EXCEPT ![f] = know[t]]
        /\ Enter(t, "onCreate", f, "load")
  BY DEF Create
<1>3. /\ life[t] = "running" /\ t # f
      /\ UNCHANGED <<C, L, R, W, RE, users, mode, pub>>
  BY <1>2 DEF Create, Runs, epochs
<1>4. /\ op' \in [Threads -> Ops] /\ op'[t].what = "onCreate" /\ op'[t].arg = f
      /\ pc' \in [Threads -> Labels] /\ pc'[t] = "load"
      /\ \A u \in Threads : u # t => op'[u] = op[u] /\ pc'[u] = pc[u]
      /\ row' = row /\ value' = value
  <2>1. [what |-> "onCreate", arg |-> f] \in Ops /\ "load" \in Labels
    BY DEF Ops, Labels
  <2>2. QED
    BY <1>1, <1>2, <2>1, EnterFacts
<1>5. /\ life' \in [Threads -> {"unborn", "running", "done", "joined"}]
      /\ life'[f] = "running" /\ \A u \in Threads : u # f => life'[u] = life[u]
  BY <1>1, <1>2 DEF TypeOK
<1>6. /\ know' \in [Threads -> [Threads -> Nat]]
      /\ know'[f] = know[t] /\ \A u \in Threads : u # f => know'[u] = know[u]
  BY <1>1, <1>2 DEF TypeOK
<1>7. TypeOK'
  BY <1>1, <1>3, <1>4, <1>5, <1>6 DEF TypeOK
<1>8. Frame(t)
  BY <1>1, <1>2, <1>3, <1>5, <1>6, Typed, LeqOrder DEF Frame
<1>9. RowsKnown' /\ UnbornEmpty'
  BY <1>3, <1>7, <1>8, SoundKept
<1>10. \A u \in Threads : u # t => Still(u)
  BY <1>3, <1>4 DEF Still
<1>11. LocksSound' /\ Exclusive' /\ OneJoiner'
  BY <1>1, <1>3, <1>4, JoinersKept DEF LocksSound, Exclusive
<1>12. Stage(t)'
  <2>1. Leq(know'[t], know'[f])
    BY <1>1, <1>3, <1>6, Typed, LeqOrder
  <2>2. QED
    BY <1>3, <1>4, <1>5, <2>1 DEF Stage, Is
<1>13. QED
  BY <1>7, <1>8, <1>9, <1>10, <1>11, <1>12, Assemble

LEMMA ExitStep ==
  ASSUME ClockInv, NEW t \in Threads, Exit(t)
  PROVE  ClockInv'
<1>1. TypeOK /\ RowsKnown /\ LocksSound /\ Exclusive /\ OneJoiner /\ Stage(t)
  BY DEF ClockInv
<1>2. /\ pc[t] = "idle" /\ life[t] = "running" /\ life' = [life EXCEPT ![t] = "done"]
      /\ UNCHANGED <<pc, op, row, value, C, L, R, W, RE, users, mode, know, pub>>
  BY DEF Exit, Runs, handler, epochs
<1>3. /\ life' \in [Threads -> {"unborn", "running", "done", "joined"}]
      /\ life'[t] = "done" /\ \A u \in Threads : u # t => life'[u] = life[u]
  BY <1>1, <1>2 DEF TypeOK
<1>4. TypeOK'
  BY <1>1, <1>2, <1>3 DEF TypeOK
<1>5. Frame(t)
  BY <1>1, <1>2, <1>3, Typed, LeqOrder DEF Frame
<1>6. RowsKnown' /\ UnbornEmpty'
  BY <1>2, <1>4, <1>5, SoundKept
<1>7. \A u \in Threads : Still(u)
  BY <1>2 DEF Still
<1>8. LocksSound' /\ Exclusive' /\ OneJoiner'
  BY <1>1, <1>2 DEF LocksSound, Exclusive, OneJoiner, Is
<1>9. Stage(t)'
  BY <1>1, <1>2 DEF Stage, Is
<1>10. QED
  BY <1>4, <1>5, <1>6, <1>7, <1>8, <1>9, Assemble

LEMMA JoinStep ==
  ASSUME ClockInv, NEW t \in Threads, JoinThread(t)
  PROVE  ClockInv'
<1>1. TypeOK /\ RowsKnown /\ LocksSound /\ Exclusive /\ OneJoiner /\ Stage(t)
      /\ \A u \in Threads : Stage(u)
  BY DEF ClockInv
<1>2. PICK f \in Threads :
        /\ life[f] = "done" /\ life' = [life EXCEPT ![f] = "joined"]
        /\ know' = [know EXCEPT ![t] = Join(@, know[f])]
        /\ Enter(t, "onDestroy", f, "load")
  BY DEF JoinThread
<1>3. /\ life[t] = "running" /\ t # f
      /\ UNCHANGED <<C, L, R, W, RE, users, mode, pub>>
  BY <1>2 DEF JoinThread, Runs, epochs
<1>4. /\ op' \in [Threads -> Ops] /\ op'[t].what = "onDestroy" /\ op'[t].arg = f
      /\ pc' \in [Threads -> Labels] /\ pc'[t] = "load"
      /\ \A u \in Threads : u # t => op'[u] = op[u] /\ pc'[u] = pc[u]
      /\ row' = row /\ value' = value
  <2>1. [what |-> "onDestroy", arg |-> f] \in Ops /\ "load" \in Labels
    BY DEF Ops, Labels
  <2>2. QED
    BY <1>1, <1>2, <2>1, EnterFacts
<1>5. /\ life' \in [Threads -> {"unborn", "running", "done", "joined"}]
      /\ life'[f] = "joined" /\ \A u \in Threads : u # f => life'[u] = life[u]
  BY <1>1, <1>2 DEF TypeOK
<1>6. /\ know' \in [Threads -> [Threads -> Nat]]
      /\ Leq(know[f], know'[t]) /\ \A u \in Threads : Leq(know[u], know'[u])
      /\ \A u \in Threads : u # t => know'[u] = know[u]
  BY <1>1, <1>2, <1>3, Typed, Learn
<1>7. TypeOK'
  BY <1>1, <1>3, <1>4, <1>5, <1>6 DEF TypeOK
<1>8. Frame(t)
  BY <1>2, <1>3, <1>5, <1>6 DEF Frame
<1>9. RowsKnown' /\ UnbornEmpty'
  BY <1>3, <1>7, <1>8, SoundKept
<1>10. \A u \in Threads : u # t => Still(u)
  BY <1>3, <1>4 DEF Still
<1>11. LocksSound' /\ Exclusive'
  BY <1>1, <1>3 DEF LocksSound, Exclusive
<1>12. OneJoiner'
  BY <1>1, <1>2, <1>4, JoinerAlone DEF Stage
<1>13. Stage(t)'
  <2>1. Leq(know'[f], know'[t])
    BY <1>3, <1>6
  <2>2. QED
    BY <1>3, <1>4, <1>5, <2>1 DEF Stage, Is
<1>14. QED
  BY <1>7, <1>8, <1>9, <1>10, <1>11, <1>12, <1>13, Assemble

(* Without rwlocks the invariant holds at every step: each conjunct of     *)
(* ClockInv is kept by every handler and every call of the program         *)
(* (fast_track.txt, lines 16-89).                                          *)
THEOREM InvariantHolds ==
  ASSUME RWLocks = {}
  PROVE  Spec => []ClockInv
<1>1. ASSUME ClockInv, [Next]_vars PROVE ClockInv'
  <2>1. CASE Next
    <3>1. PICK t \in Threads :
            \/ LoadRow(t) \/ StoreRow(t) \/ LoadTick(t) \/ StoreTick(t)
            \/ Acquire(t) \/ OnUnlock(t) \/ Release(t) \/ Wait(t) \/ Wake(t)
            \/ Create(t) \/ Exit(t) \/ JoinThread(t)
            \/ OnLoad(t) \/ OnStore(t)
      BY <2>1 DEF Next
    <3>2. QED
      BY <1>1, <3>1, LoadRowStep, StoreRowStep, LoadTickStep, StoreTickStep, AcquireStep,
         OnUnlockStep, ReleaseStep, WaitStep, WakeStep, CreateStep, ExitStep, JoinStep, AccessStep
  <2>2. CASE UNCHANGED vars
    <3>1. UNCHANGED <<pc, op, row, value, C, L, R, W, RE, users, life, mode, know, pub>>
      BY <2>2 DEF vars, handler, epochs, program
    <3>2. QED
      BY <1>1, <3>1 DEF ClockInv, TypeOK, Exclusive, RowsKnown, LocksSound, OneJoiner,
         UnbornEmpty, Stage, Is, Target, Counted
  <2>3. QED
    BY <1>1, <2>1, <2>2
<1>2. QED
  BY <1>1, InitInv, PTL DEF Spec

----------------------------------------------------------------------------
(* No clock runs ahead of its thread *)

ReachedNext(r) == \A u \in Threads : r[u] <= know'[u][u]

(* A step of t lets nobody count down; who has not begun has not counted. *)
Onward(t) ==
  /\ \A f \in Threads : know[f][f] <= know'[f][f]
  /\ \A f \in Threads : life[f] = "running" /\ f # t => life'[f] = "running"
  /\ \A f \in Threads : life[f] = "joined" => life'[f] = "joined"
  /\ \A f \in Threads : life'[f] = "unborn" => life[f] = "unborn" /\ know'[f] = know[f]

LEMMA OwnClock ==
  ASSUME TypeOK, NEW u \in Threads
  PROVE  know[u][u] \in Nat
BY DEF TypeOK

LEMMA OwnClockNext ==
  ASSUME TypeOK', NEW u \in Threads
  PROVE  know'[u][u] \in Nat
BY DEF TypeOK

LEMMA ReachedStays ==
  ASSUME TypeOK, TypeOK', NEW t \in Threads, Onward(t), NEW r \in IntRow, Reached(r)
  PROVE  ReachedNext(r)
<1>1. ASSUME NEW u \in Threads PROVE r[u] <= know'[u][u]
  <2>1. r[u] \in Int
    BY DEF IntRow
  <2>2. know[u][u] \in Int /\ know'[u][u] \in Int
    BY OwnClock, OwnClockNext
  <2>3. r[u] <= know[u][u] /\ know[u][u] <= know'[u][u]
    BY DEF Reached, Onward
  <2>4. QED
    BY <2>1, <2>2, <2>3
<1>2. QED
  BY <1>1 DEF ReachedNext

LEMMA ReachedJoin ==
  ASSUME NEW r, NEW s, Reached(r), Reached(s)
  PROVE  Reached(Join(r, s))
BY DEF Reached, Join

(* A thread that does not take the step stays reached. *)
LEMMA OthersReach ==
  ASSUME TypeOK, TypeOK', NEW t \in Threads, Onward(t),
         NEW u \in Threads, u # t, Still(u), ReachStage(u)
  PROVE  ReachStage(u)'
<1>1. op[u] \in Ops /\ row[u] \in IntRow /\ value[u] \in Int
  BY Typed
<1>2. Counted(u)' = Counted(u) /\ Counted(u) \in Threads
  BY <1>1, Roles DEF Still, Counted, Is
<1>3. pc[u] # "idle" => life'[u] = "running"
  BY DEF ReachStage, Onward
<1>4. Is(u, "onDestroy") => life'[op[u].arg] = "joined"
  BY <1>1, OpArg DEF ReachStage, Onward, Is
<1>5. pc[u] = "store" => ReachedNext(row[u])
  BY <1>1, ReachedStays DEF ReachStage
<1>6. pc[u] = "storeTick" => value[u] < know'[Counted(u)][Counted(u)]
  <2> DEFINE c == Counted(u)
  <2>1. c \in Threads
    BY <1>2
  <2>2. pc[u] = "storeTick" => value[u] < know[c][c]
    BY DEF ReachStage
  <2> HIDE DEF c
  <2>3. know[c][c] \in Int /\ know'[c][c] \in Int /\ know[c][c] <= know'[c][c]
    BY <2>1, OwnClock, OwnClockNext DEF Onward
  <2>4. pc[u] = "storeTick" => value[u] < know'[c][c]
    BY <1>1, <2>2, <2>3
  <2>5. QED
    BY <2>4 DEF c
<1>7. life'[u] = "unborn" => know'[u][u] = 0
  BY DEF ReachStage, Onward
<1>8. /\ pc[u] = "idle" <=> op[u].what = "none"
      /\ pc[u] \in {"load", "store"} => op[u].what \in {"onLock", "onCreate", "onDestroy"}
      /\ pc[u] \in {"loadTick", "storeTick"} => op[u].what \in {"onUnlock", "onCreate", "onDestroy"}
      /\ pc[u] = "release" => op[u].what = "onUnlock"
      /\ pc[u] = "wake" => op[u].what = "wake"
      /\ Is(u, "onLock") => mode[u][op[u].arg] # "none"
  BY DEF ReachStage, Is
<1>9. Reached(row[u])' = ReachedNext(row'[u])
  BY DEF Reached, ReachedNext
<1>10. QED
  BY <1>2, <1>3, <1>4, <1>5, <1>6, <1>7, <1>8, <1>9 DEF ReachStage, Still, Is

LEMMA ReachTogether ==
  ASSUME ReachInv, TypeOK', Exclusive', OneJoiner', NEW t \in Threads, Onward(t),
         \A u \in Threads : u # t => Still(u),
         \A f \in Threads : C'[f] = C[f] \/ ReachedNext(C'[f]),
         \A f \in Threads : know'[f] = know[f] \/ ReachedNext(know'[f]),
         \A l \in Locks : L'[l] = L[l] \/ ReachedNext(L'[l]),
         \A l \in Locks : pub'[l] = pub[l] \/ ReachedNext(pub'[l]),
         ReachStage(t)'
  PROVE  ReachInv'
<1>1. /\ TypeOK
      /\ \A f \in Threads : /\ C[f] \in IntRow /\ Reached(C[f])
                            /\ know[f] \in IntRow /\ Reached(know[f])
      /\ \A l \in Locks : /\ L[l] \in IntRow /\ Reached(L[l])
                          /\ pub[l] \in IntRow /\ Reached(pub[l])
  BY Typed DEF ReachInv
<1>2. \A f \in Threads : ReachedNext(C[f]) /\ ReachedNext(know[f])
  BY <1>1, ReachedStays
<1>3. \A l \in Locks : ReachedNext(L[l]) /\ ReachedNext(pub[l])
  BY <1>1, ReachedStays
<1>4. /\ \A f \in Threads : ReachedNext(C'[f]) /\ ReachedNext(know'[f])
      /\ \A l \in Locks : ReachedNext(L'[l]) /\ ReachedNext(pub'[l])
  BY <1>2, <1>3
<1>5. /\ \A f \in Threads : Reached(C[f])' /\ Reached(know[f])'
      /\ \A l \in Locks : Reached(L[l])' /\ Reached(pub[l])'
  BY <1>4 DEF Reached, ReachedNext
<1>6. \A u \in Threads : ReachStage(u)'
  BY <1>1, OthersReach DEF ReachInv
<1>7. QED
  BY <1>5, <1>6 DEF ReachInv

LEMMA ReachInit == Init => ReachInv
<1> SUFFICES ASSUME Init PROVE ReachInv
  OBVIOUS
<1>1. TypeOK /\ Exclusive /\ OneJoiner
  BY InitInv DEF ClockInv
<1>2. /\ \A t \in Threads : pc[t] = "idle" /\ op[t] = NoOp /\ C[t] = Zero /\ know[t] = Zero
      /\ \A l \in Locks : L[l] = Zero /\ pub[l] = Zero
  BY DEF Init
<1>3. Reached(Zero)
  BY <1>2 DEF Reached, Zero
<1>4. \A t \in Threads : ReachStage(t)
  BY <1>2 DEF ReachStage, Is, NoOp, Zero
<1>5. QED
  BY <1>1, <1>2, <1>3, <1>4 DEF ReachInv

(* Steps that leave the history and the lives of threads alone *)
LEMMA QuietOnward ==
  ASSUME TypeOK, NEW t \in Threads, UNCHANGED <<know, life>>
  PROVE  Onward(t)
BY OwnClock DEF Onward

(* A running thread that learns from a row of the history *)
LEMMA LearnOnward ==
  ASSUME TypeOK, NEW t \in Threads, life[t] = "running", NEW k \in NatRow,
         know' = [know EXCEPT ![t] = Join(@, k)], Reached(k), Reached(know[t])
  PROVE  /\ know' \in [Threads -> [Threads -> Nat]]
         /\ \A f \in Threads : know[f][f] <= know'[f][f]
         /\ \A f \in Threads : f # t => know'[f] = know[f]
         /\ ReachedNext(know'[t])
<1>1. /\ know' \in [Threads -> [Threads -> Nat]] /\ \A f \in Threads : Leq(know[f], know'[f])
      /\ \A f \in Threads : f # t => know'[f] = know[f]
  BY Learn
<1>2. \A f \in Threads : know[f][f] <= know'[f][f]
  BY <1>1 DEF Leq
<1>3. know'[t] = Join(know[t], k)
  BY DEF TypeOK
<1>4. ASSUME NEW u \in Threads PROVE know'[t][u] <= know'[u][u]
  <2>1. know'[t][u] = IF know[t][u] > k[u] THEN know[t][u] ELSE k[u]
    BY <1>3 DEF Join
  <2>2. know[t][u] <= know[u][u] /\ k[u] <= know[u][u] /\ know[u][u] <= know'[u][u]
    BY <1>2 DEF Reached
  <2>3. know[t][u] \in Int /\ k[u] \in Int /\ know[u][u] \in Int /\ know'[u][u] \in Int
    BY <1>1 DEF TypeOK, NatRow
  <2>4. QED
    BY <2>1, <2>2, <2>3
<1>5. QED
  BY <1>1, <1>2, <1>4 DEF ReachedNext

LEMMA PubTyped ==
  ASSUME TypeOK, NEW t \in Threads, NEW l \in Locks, pub' = [pub EXCEPT ![l] = Join(@, know[t])],
         Reached(pub[l]), Reached(know[t]), know' = know
  PROVE  /\ pub' \in [Locks -> [Threads -> Nat]]
         /\ \A k \in Locks : pub'[k] = pub[k] \/ ReachedNext(pub'[k])
<1>1. Join(pub[l], know[t]) \in [Threads -> Nat] /\ Reached(Join(pub[l], know[t]))
  BY Typed, JoinFacts, ReachedJoin DEF NatRow
<1>2. ReachedNext(Join(pub[l], know[t]))
  BY <1>1 DEF Reached, ReachedNext
<1>3. pub' \in [Locks -> [Threads -> Nat]]
  BY <1>1 DEF TypeOK
<1>4. \A k \in Locks : pub'[k] = pub[k] \/ pub'[k] = Join(pub[l], know[t])
  BY DEF TypeOK
<1>5. QED
  BY <1>2, <1>3, <1>4

----------------------------------------------------------------------------
LEMMA MergedReached ==
  ASSUME ReachInv, NEW t \in Threads, pc[t] = "load"
  PROVE  Merged(t) \in Row /\ Reached(Merged(t))
<1>1. TypeOK /\ ReachStage(t) /\ op[t] \in Ops
  BY Typed DEF ReachInv
<1>2. op[t].what \in {"onLock", "onCreate", "onDestroy"}
  BY <1>1 DEF ReachStage
<1>3. CASE Is(t, "onLock")
  BY <1>1, <1>3, OpArg, Typed DEF Merged, Is, ReachInv
<1>4. CASE ~Is(t, "onLock")
  BY <1>1, <1>2, <1>4, OpArg, Typed DEF Merged, Is, ReachInv
<1>5. QED
  BY <1>3, <1>4

LEMMA LoadRowReach ==
  ASSUME ReachInv, NEW t \in Threads, LoadRow(t)
  PROVE  ReachInv'
<1> DEFINE new == Join(C[Target(t)], Merged(t))
<1>1. TypeOK /\ ReachStage(t) /\ op[t] \in Ops /\ Exclusive /\ OneJoiner
  BY Typed DEF ReachInv
<1>2. /\ pc[t] = "load" /\ Goto(t, "store") /\ row' = [row EXCEPT ![t] = new]
      /\ UNCHANGED <<op, value, C, L, R, W, RE, users, life, mode, know, pub>>
  BY DEF LoadRow, epochs, program
<1>3. new \in Row /\ Reached(new)
  <2>1. Target(t) \in Threads /\ C[Target(t)] \in Row /\ Reached(C[Target(t)])
    BY <1>1, Roles, Typed DEF ReachInv
  <2>2. QED
    BY <1>2, <2>1, MergedReached, ReachedJoin, JoinFacts
<1> HIDE DEF new
<1>4. row' \in [Threads -> Row] /\ row'[t] = new /\ \A u \in Threads : u # t => row'[u] = row[u]
  BY <1>1, <1>2, <1>3 DEF TypeOK
<1>5. pc' \in [Threads -> Labels] /\ pc'[t] = "store" /\ \A u \in Threads : u # t => pc'[u] = pc[u]
  BY <1>1, <1>2, GotoFacts DEF Labels
<1>6. TypeOK'
  BY <1>1, <1>2, <1>4, <1>5 DEF TypeOK
<1>7. Onward(t) /\ \A u \in Threads : u # t => Still(u)
  BY <1>1, <1>2, <1>4, <1>5, QuietOnward DEF Still
<1>8. ReachStage(t)'
  BY <1>1, <1>2, <1>3, <1>4, <1>5 DEF ReachStage, Reached, Is
<1>9. Exclusive' /\ OneJoiner'
  BY <1>1, <1>2 DEF Exclusive, OneJoiner, Is
<1>10. QED
  BY <1>2, <1>6, <1>7, <1>8, <1>9, ReachTogether

LEMMA StoreRowReach ==
  ASSUME ReachInv, NEW t \in Threads, StoreRow(t)
  PROVE  ReachInv'
<1>1. TypeOK /\ ReachStage(t) /\ op[t] \in Ops /\ row[t] \in IntRow /\ row[t] \in Row /\ Exclusive /\ OneJoiner
  BY Typed DEF ReachInv
<1>2. /\ pc[t] = "store" /\ C' = [C EXCEPT ![Target(t)] = row[t]]
      /\ UNCHANGED <<row, value, L, R, W, RE, users, life, mode, know, pub>>
      /\ Leave(t) \/ (Goto(t, "loadTick") /\ op' = op /\ ~Is(t, "onLock"))
  BY DEF StoreRow, epochs, program, Leave
<1>3. Target(t) \in Threads /\ Reached(row[t])
  BY <1>1, <1>2, Roles DEF ReachStage
<1>4. C' \in [Threads -> Row] /\ \A f \in Threads : C'[f] = C[f] \/ C'[f] = row[t]
  BY <1>1, <1>2, <1>3 DEF TypeOK
<1>5. /\ pc' \in [Threads -> Labels] /\ op' \in [Threads -> Ops]
      /\ \A u \in Threads : u # t => pc'[u] = pc[u] /\ op'[u] = op[u]
      /\ \/ pc'[t] = "idle" /\ op'[t] = NoOp
         \/ pc'[t] = "loadTick" /\ op' = op /\ ~Is(t, "onLock")
  <2>1. CASE Leave(t)
    BY <1>1, <2>1, LeaveFacts
  <2>2. CASE Goto(t, "loadTick") /\ op' = op /\ ~Is(t, "onLock")
    BY <1>1, <2>2, GotoFacts DEF Labels, TypeOK
  <2>3. QED
    BY <1>2, <2>1, <2>2
<1>6. TypeOK'
  BY <1>1, <1>2, <1>4, <1>5 DEF TypeOK
<1>7. Onward(t) /\ \A u \in Threads : u # t => Still(u)
  BY <1>1, <1>2, <1>5, QuietOnward DEF Still
<1>8. ReachStage(t)'
  BY <1>1, <1>2, <1>5 DEF ReachStage, Is, NoOp
<1>9. ReachedNext(row[t])
  BY <1>1, <1>3, <1>6, <1>7, ReachedStays
<1>10. Exclusive' /\ OneJoiner'
  BY <1>1, <1>2, <1>5, JoinersKept DEF Exclusive, NoOp
<1>11. QED
  BY <1>2, <1>4, <1>6, <1>7, <1>8, <1>9, <1>10, ReachTogether

LEMMA LoadTickReach ==
  ASSUME ReachInv, NEW t \in Threads, LoadTick(t)
  PROVE  ReachInv'
<1> DEFINE c == Counted(t)
<1>1. TypeOK /\ ReachStage(t) /\ op[t] \in Ops /\ Exclusive /\ OneJoiner
  BY Typed DEF ReachInv
<1>2. /\ pc[t] = "loadTick" /\ Goto(t, "storeTick") /\ value' = [value EXCEPT ![t] = C[c][c]]
      /\ know' = [know EXCEPT ![c][c] = @ + 1]
      /\ UNCHANGED <<op, row, C, L, R, W, RE, users, life, mode, pub>>
  BY DEF LoadTick, epochs, program
<1>3. c \in Threads /\ life[c] # "unborn" /\ c = Counted(t)'
  <2>1. c = t \/ (Is(t, "onDestroy") /\ c = op[t].arg)
    BY DEF Counted
  <2>2. QED
    BY <1>1, <1>2, <2>1, Roles DEF ReachStage, Counted, Is
<1> HIDE DEF c
<1>4. know[c] \in [Threads -> Nat] /\ Reached(know[c]) /\ C[c] \in Row /\ Reached(C[c]) /\ C[c][c] \in Int /\ C[c][c] \in Clocks
  <2>1. know[c] \in [Threads -> Nat] /\ C[c] \in Row /\ C[c][c] \in Clocks
    BY <1>1, <1>3 DEF TypeOK, Row
  <2>2. Reached(know[c]) /\ Reached(C[c])
    BY <1>3 DEF ReachInv
  <2>3. QED
    BY <2>1, <2>2, ClockFacts
<1>5. /\ know' \in [Threads -> [Threads -> Nat]] /\ know'[c][c] = know[c][c] + 1
      /\ (\A u \in Threads : u # c => know'[c][u] = know[c][u])
      /\ \A f \in Threads : f # c => know'[f] = know[f]
  <2> DEFINE new == [know[c] EXCEPT ![c] = @ + 1]
  <2>1. know \in [Threads -> [Threads -> Nat]]
    BY <1>1 DEF TypeOK
  <2>2. new \in [Threads -> Nat] /\ new[c] = know[c][c] + 1 /\ \A u \in Threads : u # c => new[u] = know[c][u]
    BY <1>3, <1>4
  <2>3. know' = [know EXCEPT ![c] = new]
    BY <1>2
  <2> HIDE DEF new
  <2>4. QED
    BY <1>3, <2>1, <2>2, <2>3
<1>6. C[c][c] < know'[c][c]
  BY <1>3, <1>4, <1>5 DEF Reached
<1>7. /\ value' \in [Threads -> Clocks] /\ value'[t] = C[c][c]
      /\ \A u \in Threads : u # t => value'[u] = value[u]
  BY <1>1, <1>2, <1>4 DEF TypeOK
<1>8. pc' \in [Threads -> Labels] /\ pc'[t] = "storeTick" /\ \A u \in Threads : u # t => pc'[u] = pc[u]
  BY <1>1, <1>2, GotoFacts DEF Labels
<1>9. TypeOK'
  BY <1>1, <1>2, <1>5, <1>7, <1>8 DEF TypeOK
<1>10. Onward(t)
  <2>1. \A f \in Threads : know[f][f] <= know'[f][f]
    BY <1>1, <1>3, <1>5, OwnClock
  <2>2. QED
    BY <1>2, <1>3, <1>5, <2>1 DEF Onward
<1>11. \A u \in Threads : u # t => Still(u)
  BY <1>2, <1>7, <1>8 DEF Still
<1>12. ReachStage(t)'
  <2>1. life[t] = "running"
    BY <1>1, <1>2 DEF ReachStage
  <2>2. QED
    BY <1>1, <1>2, <1>3, <1>6, <1>7, <1>8, <2>1 DEF ReachStage, Is
<1>13. Exclusive' /\ OneJoiner'
  BY <1>1, <1>2 DEF Exclusive, OneJoiner, Is
<1>14. ReachedNext(know'[c])
  <2>1. ASSUME NEW u \in Threads PROVE know'[c][u] <= know'[u][u]
    <3>1. CASE u = c
      BY <1>3, <1>5, <3>1
    <3>2. CASE u # c
      BY <1>3, <1>4, <1>5, <3>2 DEF Reached
    <3>3. QED
      BY <3>1, <3>2
  <2>2. QED
    BY <2>1 DEF ReachedNext
<1>15. \A f \in Threads : know'[f] = know[f] \/ ReachedNext(know'[f])
  BY <1>5, <1>14
<1>16. QED
  BY <1>2, <1>9, <1>10, <1>11, <1>12, <1>13, <1>15, ReachTogether

LEMMA StoreTickReach ==
  ASSUME ReachInv, NEW t \in Threads, StoreTick(t)
  PROVE  ReachInv'
<1> DEFINE c == Counted(t)
           new == [C[c] EXCEPT ![c] = Inc(value[t])]
<1>1. TypeOK /\ ReachStage(t) /\ op[t] \in Ops /\ Exclusive /\ OneJoiner /\ value[t] \in Clocks
  BY Typed DEF ReachInv
<1>2. /\ pc[t] = "storeTick" /\ C' = [C EXCEPT ![c] = new]
      /\ UNCHANGED <<row, value, L, R, W, RE, users, life, mode, know, pub>>
      /\ Leave(t) \/ (Goto(t, "release") /\ op' = op /\ Is(t, "onUnlock"))
  BY DEF StoreTick, epochs, program, Leave
<1>3. c \in Threads /\ value[t] < know[c][c]
  BY <1>1, <1>2, Roles DEF ReachStage
<1>4. new = [C[c] EXCEPT ![c] = Inc(value[t])]
  OBVIOUS
<1> HIDE DEF c, new
<1>5. new \in Row /\ new \in IntRow /\ Reached(new)
  <2>1. C[c] \in Row /\ Reached(C[c]) /\ know[c][c] \in Int
    BY <1>1, <1>3, OwnClock, Typed DEF ReachInv
  <2>2. Inc(value[t]) \in Clocks /\ Inc(value[t]) \in Int /\ Inc(value[t]) <= value[t] + 1 /\ value[t] \in Int
    BY <1>1, ClockFacts
  <2>3. Inc(value[t]) <= know[c][c]
    BY <1>3, <2>1, <2>2
  <2>4. QED
    BY <1>3, <1>4, <2>1, <2>2, <2>3, RowFacts DEF Row, Reached
<1>6. C' \in [Threads -> Row] /\ \A f \in Threads : C'[f] = C[f] \/ C'[f] = new
  BY <1>1, <1>2, <1>3, <1>5 DEF TypeOK
<1>7. /\ pc' \in [Threads -> Labels] /\ op' \in [Threads -> Ops]
      /\ \A u \in Threads : u # t => pc'[u] = pc[u] /\ op'[u] = op[u]
      /\ \/ pc'[t] = "idle" /\ op'[t] = NoOp
         \/ pc'[t] = "release" /\ op' = op /\ Is(t, "onUnlock")
  <2>1. CASE Leave(t)
    BY <1>1, <2>1, LeaveFacts
  <2>2. CASE Goto(t, "release") /\ op' = op /\ Is(t, "onUnlock")
    BY <1>1, <2>2, GotoFacts DEF Labels, TypeOK
  <2>3. QED
    BY <1>2, <2>1, <2>2
<1>8. TypeOK'
  BY <1>1, <1>2, <1>6, <1>7 DEF TypeOK
<1>9. Onward(t) /\ \A u \in Threads : u # t => Still(u)
  BY <1>1, <1>2, <1>7, QuietOnward DEF Still
<1>10. ReachStage(t)'
  BY <1>1, <1>2, <1>7 DEF ReachStage, Is, NoOp
<1>11. ReachedNext(new)
  BY <1>1, <1>5, <1>8, <1>9, ReachedStays
<1>12. Exclusive' /\ OneJoiner'
  BY <1>1, <1>2, <1>7, JoinersKept DEF Exclusive, NoOp
<1>13. QED
  BY <1>2, <1>6, <1>8, <1>9, <1>10, <1>11, <1>12, ReachTogether

LEMMA AcquireReach ==
  ASSUME ReachInv, NEW t \in Threads, Acquire(t)
  PROVE  ReachInv'
<1>1. TypeOK /\ ReachStage(t) /\ Exclusive /\ OneJoiner /\ Reached(know[t])
  BY DEF ReachInv
<1>2. PICK l \in Locks, m \in {"read", "write"} :
        /\ l \in Mutexes => m = "write"
        /\ Available(l, m)
        /\ mode' = [mode EXCEPT ![t][l] = m]
        /\ know' = [know EXCEPT ![t] = Join(@, pub[l])]
        /\ Enter(t, "onLock", l, "load")
  BY DEF Acquire
<1>3. life[t] = "running" /\ UNCHANGED <<C, L, R, W, RE, users, life, pub>>
  BY DEF Acquire, Runs, epochs
<1>4. /\ op' \in [Threads -> Ops] /\ op'[t].what = "onLock" /\ op'[t].arg = l
      /\ pc' \in [Threads -> Labels] /\ pc'[t] = "load"
      /\ \A u \in Threads : u # t => op'[u] = op[u] /\ pc'[u] = pc[u]
      /\ row' = row /\ value' = value
  <2>1. [what |-> "onLock", arg |-> l] \in Ops /\ "load" \in Labels
    BY DEF Ops, Labels
  <2>2. QED
    BY <1>1, <1>2, <2>1, EnterFacts
<1>5. /\ mode' \in [Threads -> [Locks -> {"none", "read", "write"}]] /\ Exclusive' /\ mode'[t][l] = m
      /\ \A u \in Threads : u # t => mode'[u] = mode[u]
  <2>1. CASE m = "write"
    BY <1>1, <1>2, <2>1, ModeGiven
  <2>2. CASE m = "read"
    BY <1>1, <1>2, <2>2, ModeGiven
  <2>3. QED
    BY <2>1, <2>2
<1>6. /\ know' \in [Threads -> [Threads -> Nat]]
      /\ \A f \in Threads : know[f][f] <= know'[f][f]
      /\ (\A f \in Threads : f # t => know'[f] = know[f]) /\ ReachedNext(know'[t])
  BY <1>1, <1>2, <1>3, Typed, LearnOnward DEF ReachInv
<1>7. TypeOK'
  BY <1>1, <1>3, <1>4, <1>5, <1>6 DEF TypeOK
<1>8. Onward(t) /\ \A u \in Threads : u # t => Still(u)
  BY <1>3, <1>4, <1>5, <1>6 DEF Onward, Still
<1>9. ReachStage(t)'
  BY <1>3, <1>4, <1>5 DEF ReachStage, Is
<1>10. OneJoiner'
  BY <1>1, <1>4, JoinersKept
<1>11. QED
  BY <1>3, <1>5, <1>6, <1>7, <1>8, <1>9, <1>10, ReachTogether

LEMMA OnUnlockReach ==
  ASSUME ReachInv, NEW t \in Threads, OnUnlock(t)
  PROVE  ReachInv'
<1>1. /\ TypeOK /\ ReachStage(t) /\ Exclusive /\ OneJoiner
      /\ C[t] \in IntRow /\ C[t] \in Row /\ Reached(C[t]) /\ Reached(know[t])
  BY Typed DEF ReachInv
<1>2. PICK l \in Locks :
        /\ L' = [L EXCEPT ![l] = C[t]]
        /\ pub' = IF mode[t][l] = "write" THEN [pub EXCEPT ![l] = Join(@, know[t])] ELSE pub
        /\ Enter(t, "onUnlock", l, "loadTick")
  BY DEF OnUnlock
<1>3. life[t] = "running" /\ UNCHANGED <<C, R, W, RE, users, life, mode, know>>
  BY DEF OnUnlock, Runs, epochs, program
<1>4. /\ op' \in [Threads -> Ops] /\ op'[t].what = "onUnlock" /\ op'[t].arg = l
      /\ pc' \in [Threads -> Labels] /\ pc'[t] = "loadTick"
      /\ \A u \in Threads : u # t => op'[u] = op[u] /\ pc'[u] = pc[u]
      /\ row' = row /\ value' = value
  <2>1. [what |-> "onUnlock", arg |-> l] \in Ops /\ "loadTick" \in Labels
    BY DEF Ops, Labels
  <2>2. QED
    BY <1>1, <1>2, <2>1, EnterFacts
<1>5. /\ L' \in [Locks -> Row] /\ \A k \in Locks : L'[k] = L[k] \/ L'[k] = C[t]
  BY <1>1, <1>2 DEF TypeOK
<1>6. pub' \in [Locks -> [Threads -> Nat]] /\ \A k \in Locks : pub'[k] = pub[k] \/ ReachedNext(pub'[k])
  <2>1. CASE mode[t][l] = "write"
    BY <1>1, <1>2, <1>3, <2>1, PubTyped DEF ReachInv
  <2>2. CASE mode[t][l] # "write"
    BY <1>1, <1>2, <2>2 DEF TypeOK
  <2>3. QED
    BY <2>1, <2>2
<1>7. TypeOK'
  BY <1>1, <1>3, <1>4, <1>5, <1>6 DEF TypeOK
<1>8. Onward(t) /\ \A u \in Threads : u # t => Still(u)
  BY <1>1, <1>3, <1>4, QuietOnward DEF Still
<1>9. ReachStage(t)'
  BY <1>3, <1>4 DEF ReachStage, Is
<1>10. ReachedNext(C[t])
  BY <1>1, <1>7, <1>8, ReachedStays
<1>11. Exclusive' /\ OneJoiner'
  BY <1>1, <1>3, <1>4, JoinersKept DEF Exclusive
<1>12. QED
  BY <1>3, <1>5, <1>6, <1>7, <1>8, <1>9, <1>10, <1>11, ReachTogether

LEMMA ReleaseReach ==
  ASSUME ReachInv, NEW t \in Threads, Release(t)
  PROVE  ReachInv'
<1>1. TypeOK /\ ReachStage(t) /\ op[t] \in Ops /\ Exclusive /\ OneJoiner
  BY Typed DEF ReachInv
<1>2. /\ pc[t] = "release" /\ mode' = [mode EXCEPT ![t][op[t].arg] = "none"] /\ Leave(t)
      /\ UNCHANGED <<C, L, R, W, RE, users, life, know, pub>>
  BY DEF Release, epochs
<1>3. /\ op' \in [Threads -> Ops] /\ op'[t] = NoOp /\ pc' \in [Threads -> Labels] /\ pc'[t] = "idle"
      /\ \A u \in Threads : u # t => op'[u] = op[u] /\ pc'[u] = pc[u]
      /\ row' = row /\ value' = value
  BY <1>1, <1>2, LeaveFacts
<1>4. /\ mode' \in [Threads -> [Locks -> {"none", "read", "write"}]] /\ Exclusive'
      /\ \A u \in Threads : u # t => mode'[u] = mode[u]
  <2>1. op[t].arg \in Locks
    BY <1>1, <1>2, OpArg DEF ReachStage, Is
  <2>2. QED
    BY <1>1, <1>2, <2>1, ModeGiven
<1>5. TypeOK'
  BY <1>1, <1>2, <1>3, <1>4 DEF TypeOK
<1>6. Onward(t) /\ \A u \in Threads : u # t => Still(u)
  BY <1>1, <1>2, <1>3, <1>4, QuietOnward DEF Still
<1>7. ReachStage(t)'
  BY <1>1, <1>2, <1>3 DEF ReachStage, Is, NoOp
<1>8. OneJoiner'
  BY <1>1, <1>3, JoinersKept DEF NoOp
<1>9. QED
  BY <1>2, <1>4, <1>5, <1>6, <1>7, <1>8, ReachTogether

LEMMA WaitReach ==
  ASSUME ReachInv, NEW t \in Threads, Wait(t)
  PROVE  ReachInv'
<1>1. TypeOK /\ ReachStage(t) /\ Exclusive /\ OneJoiner /\ Reached(know[t])
  BY DEF ReachInv
<1>2. PICK l \in Locks :
        /\ mode' = [mode EXCEPT ![t][l] = "none"]
        /\ pub' = [pub EXCEPT ![l] = Join(@, know[t])]
        /\ Enter(t, "wake", l, "wake")
  BY FastTrackAssumption DEF Wait, Locks
<1>3. life[t] = "running" /\ UNCHANGED <<C, L, R, W, RE, users, life, know>>
  BY DEF Wait, Runs, epochs
<1>4. /\ op' \in [Threads -> Ops] /\ op'[t].what = "wake" /\ op'[t].arg = l
      /\ pc' \in [Threads -> Labels] /\ pc'[t] = "wake"
      /\ \A u \in Threads : u # t => op'[u] = op[u] /\ pc'[u] = pc[u]
      /\ row' = row /\ value' = value
  <2>1. [what |-> "wake", arg |-> l] \in Ops /\ "wake" \in Labels
    BY DEF Ops, Labels
  <2>2. QED
    BY <1>1, <1>2, <2>1, EnterFacts
<1>5. /\ mode' \in [Threads -> [Locks -> {"none", "read", "write"}]] /\ Exclusive'
      /\ \A u \in Threads : u # t => mode'[u] = mode[u]
      /\ pub' \in [Locks -> [Threads -> Nat]]
      /\ \A k \in Locks : pub'[k] = pub[k] \/ ReachedNext(pub'[k])
  BY <1>1, <1>2, <1>3, ModeGiven, PubTyped DEF ReachInv
<1>6. TypeOK'
  BY <1>1, <1>3, <1>4, <1>5 DEF TypeOK
<1>7. Onward(t) /\ \A u \in Threads : u # t => Still(u)
  BY <1>1, <1>3, <1>4, <1>5, QuietOnward DEF Still
<1>8. ReachStage(t)'
  BY <1>3, <1>4 DEF ReachStage, Is
<1>9. OneJoiner'
  BY <1>1, <1>4, JoinersKept
<1>10. QED
  BY <1>3, <1>5, <1>6, <1>7, <1>8, <1>9, ReachTogether

LEMMA WakeReach ==
  ASSUME ReachInv, NEW t \in Threads, Wake(t)
  PROVE  ReachInv'
<1> DEFINE l == op[t].arg
<1>1. TypeOK /\ ReachStage(t) /\ op[t] \in Ops /\ Exclusive /\ OneJoiner /\ Reached(know[t])
  BY Typed DEF ReachInv
<1>2. /\ Available(l, "write") /\ mode' = [mode EXCEPT ![t][l] = "write"] /\ pc[t] = "wake"
      /\ know' = [know EXCEPT ![t] = Join(@, pub[l])] /\ Leave(t)
      /\ UNCHANGED <<C, L, R, W, RE, users, life, pub>>
  BY DEF Wake, epochs
<1>3. life[t] = "running" /\ l \in Locks
  BY <1>1, <1>2, OpArg DEF ReachStage, Is
<1> HIDE DEF l
<1>4. /\ mode' \in [Threads -> [Locks -> {"none", "read", "write"}]] /\ Exclusive'
      /\ \A u \in Threads : u # t => mode'[u] = mode[u]
  BY <1>1, <1>2, <1>3, ModeGiven
<1>5. /\ know' \in [Threads -> [Threads -> Nat]]
      /\ \A f \in Threads : know[f][f] <= know'[f][f]
      /\ (\A f \in Threads : f # t => know'[f] = know[f]) /\ ReachedNext(know'[t])
  BY <1>1, <1>2, <1>3, Typed, LearnOnward DEF ReachInv
<1>6. /\ op' \in [Threads -> Ops] /\ op'[t] = NoOp /\ pc' \in [Threads -> Labels] /\ pc'[t] = "idle"
      /\ \A u \in Threads : u # t => op'[u] = op[u] /\ pc'[u] = pc[u]
      /\ row' = row /\ value' = value
  BY <1>1, <1>2, LeaveFacts
<1>7. TypeOK'
  BY <1>1, <1>2, <1>4, <1>5, <1>6 DEF TypeOK
<1>8. Onward(t) /\ \A u \in Threads : u # t => Still(u)
  BY <1>2, <1>3, <1>4, <1>5, <1>6 DEF Onward, Still
<1>9. ReachStage(t)'
  BY <1>2, <1>3, <1>6 DEF ReachStage, Is, NoOp
<1>10. OneJoiner'
  BY <1>1, <1>6, JoinersKept DEF NoOp
<1>11. QED
  BY <1>2, <1>4, <1>5, <1>7, <1>8, <1>9, <1>10, ReachTogether

LEMMA CreateReach ==
  ASSUME ReachInv, NEW t \in Threads, Create(t)
  PROVE  ReachInv'
<1>1. /\ TypeOK /\ ReachStage(t) /\ Exclusive /\ OneJoiner /\ Reached(know[t])
      /\ \A f \in Threads : ReachStage(f)
  BY DEF ReachInv
<1>2. PICK f \in Threads :
        /\ life[f] = "unborn" /\ life' = [life EXCEPT ![f] = "running"]
        /\ know' = [know EXCEPT ![f] = know[t]]
        /\ Enter(t, "onCreate", f, "load")
  BY DEF Create
<1>3. /\ life[t] = "running" /\ t # f
      /\ UNCHANGED <<C, L, R, W, RE, users, mode, pub>>
  BY <1>2 DEF Create, Runs, epochs
<1>4. /\ op' \in [Threads -> Ops] /\ op'[t].what = "onCreate" /\ op'[t].arg = f
      /\ pc' \in [Threads -> Labels] /\ pc'[t] = "load"
      /\ \A u \in Threads : u # t => op'[u] = op[u] /\ pc'[u] = pc[u]
      /\ row' = row /\ value' = value
  <2>1. [what |-> "onCreate", arg |-> f] \in Ops /\ "load" \in Labels
    BY DEF Ops, Labels
  <2>2. QED
    BY <1>1, <1>2, <2>1, EnterFacts
<1>5. /\ life' \in [Threads -> {"unborn", "running", "done", "joined"}]
      /\ life'[f] = "running" /\ \A u \in Threads : u # f => life'[u] = life[u]
  BY <1>1, <1>2 DEF TypeOK
<1>6. /\ know' \in [Threads -> [Threads -> Nat]]
      /\ know'[f] = know[t] /\ \A u \in Threads : u # f => know'[u] = know[u]
  BY <1>1, <1>2 DEF TypeOK
<1>7. TypeOK'
  BY <1>1, <1>3, <1>4, <1>5, <1>6 DEF TypeOK
<1>8. Onward(t) /\ \A u \in Threads : u # t => Still(u)
  <2>1. know[f][f] = 0 /\ know[t][f] \in Nat
    BY <1>1, <1>2 DEF ReachStage, TypeOK
  <2>2. \A u \in Threads : know[u][u] <= know'[u][u]
    BY <1>1, <1>6, <2>1, OwnClock
  <2>3. QED
    BY <1>2, <1>3, <1>4, <1>5, <1>6, <2>2 DEF Onward, Still
<1>9. ReachStage(t)'
  BY <1>3, <1>4, <1>5 DEF ReachStage, Is
<1>10. Exclusive' /\ OneJoiner'
  BY <1>1, <1>3, <1>4, JoinersKept DEF Exclusive
<1>11. ReachedNext(know'[f])
  <2>1. ReachedNext(know[t])
    BY <1>1, <1>7, <1>8, Typed, ReachedStays
  <2>2. QED
    BY <1>6, <2>1
<1>12. \A u \in Threads : know'[u] = know[u] \/ ReachedNext(know'[u])
  BY <1>6, <1>11
<1>13. QED
  BY <1>3, <1>7, <1>8, <1>9, <1>10, <1>12, ReachTogether

LEMMA ExitReach ==
  ASSUME ReachInv, NEW t \in Threads, Exit(t)
  PROVE  ReachInv'
<1>1. TypeOK /\ ReachStage(t) /\ Exclusive /\ OneJoiner
  BY DEF ReachInv
<1>2. /\ pc[t] = "idle" /\ life[t] = "running" /\ life' = [life EXCEPT ![t] = "done"]
      /\ UNCHANGED <<pc, op, row, value, C, L, R, W, RE, users, mode, know, pub>>
  BY DEF Exit, Runs, handler, epochs
<1>3. /\ life' \in [Threads -> {"unborn", "running", "done", "joined"}]
      /\ life'[t] = "done" /\ \A u \in Threads : u # t => life'[u] = life[u]
  BY <1>1, <1>2 DEF TypeOK
<1>4. TypeOK'
  BY <1>1, <1>2, <1>3 DEF TypeOK
<1>5. Onward(t) /\ \A u \in Threads : Still(u)
  BY <1>1, <1>2, <1>3, OwnClock DEF Onward, Still
<1>6. ReachStage(t)'
  <2>1. Is(t, "onDestroy") => life'[op[t].arg] = "joined"
    BY <1>1, <1>2, <1>3, Typed, OpArg DEF ReachStage, Is
  <2>2. QED
    BY <1>1, <1>2, <1>3, <2>1 DEF ReachStage, Is
<1>7. Exclusive' /\ OneJoiner'
  BY <1>1, <1>2 DEF Exclusive, OneJoiner, Is
<1>8. QED
  BY <1>2, <1>4, <1>5, <1>6, <1>7, ReachTogether

LEMMA JoinReach ==
  ASSUME ReachInv, NEW t \in Threads, JoinThread(t)
  PROVE  ReachInv'
<1>1. TypeOK /\ ReachStage(t) /\ Exclusive /\ OneJoiner /\ Reached(know[t]) /\ \A u \in Threads : ReachStage(u)
  BY DEF ReachInv
<1>2. PICK f \in Threads :
        /\ life[f] = "done" /\ life' = [life EXCEPT ![f] = "joined"]
        /\ know' = [know EXCEPT ![t] = Join(@, know[f])]
        /\ Enter(t, "onDestroy", f, "load")
  BY DEF JoinThread
<1>3. /\ life[t] = "running" /\ t # f
      /\ UNCHANGED <<C, L, R, W, RE, users, mode, pub>>
  BY <1>2 DEF JoinThread, Runs, epochs
<1>4. /\ op' \in [Threads -> Ops] /\ op'[t].what = "onDestroy" /\ op'[t].arg = f
      /\ pc' \in [Threads -> Labels] /\ pc'[t] = "load"
      /\ \A u \in Threads : u # t => op'[u] = op[u] /\ pc'[u] = pc[u]
      /\ row' = row /\ value' = value
  <2>1. [what |-> "onDestroy", arg |-> f] \in Ops /\ "load" \in Labels
    BY DEF Ops, Labels
  <2>2. QED
    BY <1>1, <1>2, <2>1, EnterFacts
<1>5. /\ life' \in [Threads -> {"unborn", "running", "done", "joined"}]
      /\ life'[f] = "joined" /\ \A u \in Threads : u # f => life'[u] = life[u]
  BY <1>1, <1>2 DEF TypeOK
<1>6. /\ know' \in [Threads -> [Threads -> Nat]]
      /\ \A u \in Threads : know[u][u] <= know'[u][u]
      /\ (\A u \in Threads : u # t => know'[u] = know[u]) /\ ReachedNext(know'[t])
  BY <1>1, <1>2, <1>3, Typed, LearnOnward DEF ReachInv
<1>7. TypeOK'
  BY <1>1, <1>3, <1>4, <1>5, <1>6 DEF TypeOK
<1>8. Onward(t) /\ \A u \in Threads : u # t => Still(u)
  BY <1>2, <1>3, <1>4, <1>5, <1>6 DEF Onward, Still
<1>9. ReachStage(t)'
  BY <1>3, <1>4, <1>5 DEF ReachStage, Is
<1>10. Exclusive' /\ OneJoiner'
  BY <1>1, <1>2, <1>3, <1>4, JoinerAlone DEF Exclusive, ReachStage
<1>11. QED
  BY <1>3, <1>6, <1>7, <1>8, <1>9, <1>10, ReachTogether

LEMMA AccessReach ==
  ASSUME ReachInv, NEW t \in Threads, OnLoad(t) \/ OnStore(t)
  PROVE  ReachInv'
<1>1. TypeOK /\ ReachStage(t) /\ Exclusive /\ OneJoiner
  BY DEF ReachInv
<1>2. UNCHANGED <<pc, op, row, value, C, L, life, mode, know, pub>>
  BY DEF OnLoad, OnStore, handler, program
<1>3. TypeOK'
  BY <1>1, <1>2, EpochTypes DEF TypeOK
<1>4. Onward(t) /\ \A u \in Threads : Still(u)
  BY <1>1, <1>2, QuietOnward DEF Still
<1>5. ReachStage(t)'
  BY <1>1, <1>2 DEF ReachStage, Reached, Is, Counted
<1>6. Exclusive' /\ OneJoiner'
  BY <1>1, <1>2 DEF Exclusive, OneJoiner, Is
<1>7. QED
  BY <1>2, <1>3, <1>4, <1>5, <1>6, ReachTogether

----------------------------------------------------------------------------
(* Clocks are reached before they are known, whatever handlers race on the *)
(* rows and whatever readers leave in the row of an rwlock; and the maps   *)
(* of the analysis keep their types (fast_track.txt, lines 10-22, 64-72).  *)
THEOREM ReachHolds == Spec => []ReachInv
<1>1. ASSUME ReachInv, [Next]_vars PROVE ReachInv'
  <2>1. CASE Next
    <3>1. PICK t \in Threads :
            \/ LoadRow(t) \/ StoreRow(t) \/ LoadTick(t) \/ StoreTick(t)
            \/ Acquire(t) \/ OnUnlock(t) \/ Release(t) \/ Wait(t) \/ Wake(t)
            \/ Create(t) \/ Exit(t) \/ JoinThread(t)
            \/ OnLoad(t) \/ OnStore(t)
      BY <2>1 DEF Next
    <3>2. QED
      BY <1>1, <3>1, LoadRowReach, StoreRowReach, LoadTickReach, StoreTickReach, AcquireReach,
         OnUnlockReach, ReleaseReach, WaitReach, WakeReach, CreateReach, ExitReach, JoinReach, AccessReach
  <2>2. CASE UNCHANGED vars
    <3>1. UNCHANGED <<pc, op, row, value, C, L, R, W, RE, users, life, mode, know, pub>>
      BY <2>2 DEF vars, handler, epochs, program
    <3>2. QED
      BY <1>1, <3>1 DEF ReachInv, TypeOK, Exclusive, OneJoiner, ReachStage, Reached, Is, Target, Counted
  <2>3. QED
    BY <1>1, <2>1, <2>2
<1>2. QED
  BY <1>1, ReachInit, PTL DEF Spec

(* The maps of the analysis keep their types (lines 10-14).                *)
THEOREM TypeCorrect == Spec => []TypeOK
<1>1. ReachInv => TypeOK
  BY DEF ReachInv
<1>2. QED
  BY <1>1, ReachHolds, PTL

(* Nobody knows a clock its thread has not reached, for any number of      *)
(* threads, mutexes and rwlocks and any width of the clocks (line 20).     *)
THEOREM NoFuture == Spec => []NoFutureClock
<1>1. ReachInv => NoFutureClock
  BY DEF ReachInv, Reached, NoFutureClock
<1>2. QED
  BY <1>1, ReachHolds, PTL

----------------------------------------------------------------------------
(* An access names its own thread, another that has used the address, or   *)
(* nobody: the rules of lines 24-61.                                       *)
LEMMA AccessFollows ==
  ASSUME TypeOK, ReaderFollowsAccesses, NEW t \in Threads, OnLoad(t) \/ OnStore(t)
  PROVE  ReaderFollowsAccesses'
<1>1. /\ RE \in [Addrs -> -1 .. N] /\ users \in [Addrs -> SUBSET Threads]
      /\ t > 0 /\ t \in Int /\ N \in Int
  BY FastTrackAssumption DEF TypeOK, Threads
<1>2. PICK a \in Addrs :
        /\ Used(a, t)
        /\ \/ RE' = RE
           \/ RE[a] > 0 /\ RE[a] # t /\ RE' = [RE EXCEPT ![a] = -1]
           \/ RE' = [RE EXCEPT ![a] = t]
           \/ RE' = [RE EXCEPT ![a] = 0]
  <2>1. CASE OnLoad(t)
    BY <2>1 DEF OnLoad
  <2>2. CASE OnStore(t)
    BY <2>2 DEF OnStore
  <2>3. QED
    BY <2>1, <2>2
<1>3. users' = [users EXCEPT ![a] = IF RE'[a] = 0 THEN {} ELSE users[a] \cup {t}]
  BY <1>2 DEF Used
<1>4. \A b \in Addrs : b # a => RE'[b] = RE[b] /\ users'[b] = users[b]
  BY <1>1, <1>2, <1>3
<1>5. /\ RE'[a] > 0 => RE'[a] \in users'[a]
      /\ RE'[a] = -1 => \E v, u \in users'[a] : v # u
  <2>1. /\ RE[a] > 0 => RE[a] \in users[a]
        /\ RE[a] = -1 => \E v, u \in users[a] : v # u
    BY DEF ReaderFollowsAccesses
  <2>2. users'[a] = IF RE'[a] = 0 THEN {} ELSE users[a] \cup {t}
    BY <1>1, <1>3
  <2>3. CASE RE' = RE
    BY <2>1, <2>2, <2>3
  <2>4. CASE RE[a] > 0 /\ RE[a] # t /\ RE' = [RE EXCEPT ![a] = -1]
    <3>1. RE'[a] = -1 /\ RE[a] \in users'[a] /\ t \in users'[a]
      BY <1>1, <2>1, <2>2, <2>4
    <3>2. QED
      BY <2>4, <3>1
  <2>5. CASE RE' = [RE EXCEPT ![a] = t]
    BY <1>1, <2>2, <2>5
  <2>6. CASE RE' = [RE EXCEPT ![a] = 0]
    BY <1>1, <2>6
  <2>7. QED
    BY <1>2, <2>3, <2>4, <2>5, <2>6
<1>6. QED
  BY <1>4, <1>5 DEF ReaderFollowsAccesses

(* RE names a thread that has used the address since it was last unread,   *)
(* and is -1 only after two did, in every order of the accesses of any     *)
(* number of threads (lines 24-61).                                        *)
THEOREM ReaderFollows == Spec => []ReaderFollowsAccesses
<1>1. Init => ReaderFollowsAccesses
  BY DEF Init, ReaderFollowsAccesses
<1>2. ASSUME TypeOK, ReaderFollowsAccesses, [Next]_vars PROVE ReaderFollowsAccesses'
  <2>1. CASE \E t \in Threads : OnLoad(t) \/ OnStore(t)
    BY <1>2, <2>1, AccessFollows
  <2>2. CASE ~\E t \in Threads : OnLoad(t) \/ OnStore(t)
    <3>1. UNCHANGED <<RE, users>>
      BY <1>2, <2>2 DEF Next, vars, epochs, LoadRow, StoreRow, LoadTick, StoreTick, Acquire, OnUnlock,
         Release, Wait, Wake, Create, Exit, JoinThread
    <3>2. QED
      BY <1>2, <3>1 DEF ReaderFollowsAccesses
  <2>3. QED
    BY <2>1, <2>2
<1>3. ReachInv => TypeOK
  BY DEF ReachInv
<1>4. QED
  BY <1>1, <1>2, <1>3, ReachHolds, PTL DEF Spec

----------------------------------------------------------------------------
(* Where no order is lost: with no waits, clocks that never reach their    *)
(* top, and new threads that wait for their onCreate, a row between        *)
(* handlers has all that happened before it, but for what only readers of  *)
(* an rwlock have released.  ReachInv says that no clock runs ahead;       *)
(* ExactInv says that no row falls behind.                                 *)

(* The premises: what the programs have to keep to *)
Plainly == CondMutexes = {} /\ Prompt /\ MaxTicks <= Top

(* What a step of t leaves of the others: their history, the rows of those *)
(* that nobody creates, and the locks t does not hold.                     *)
Aside(t) ==
  /\ \A f \in Threads : life[f] = "running" /\ f # t => life'[f] = "running" /\ know'[f] = know[f]
  /\ \A f \in Threads : life[f] = "done" => know'[f] = know[f]
  /\ \A f \in Threads : life[f] = "joined" =>
       /\ life'[f] = "joined"
       /\ know'[f] = know[f] \/ (Is(t, "onDestroy") /\ op[t].arg = f)
  /\ \A f \in Threads : life[f] = "unborn" => life'[f] = "unborn" \/ BeingCreated(f)'
  /\ \A f \in Threads :
       \/ C'[f] = C[f] \/ f = t \/ (Is(t, "onDestroy") /\ op[t].arg = f)
       \/ BeingCreated(f) /\ Leq(know[f], C'[f])
  /\ \A f \in Threads : BeingCreated(f) => BeingCreated(f)' \/ Leq(know[f], C'[f])
  /\ \A l \in Locks : mode[t][l] = "write" \/ pub'[l] = pub[l]

LEMMA CreatedWaits ==
  ASSUME TypeOK, ExactInv, NEW f \in Threads, BeingCreated(f)
  PROVE  pc[f] = "idle" /\ life[f] = "running"
<1>1. PICK g \in Threads : op[g] = [what |-> "onCreate", arg |-> f] /\ pc[g] \in {"load", "store"}
  BY DEF BeingCreated
<1>2. ExactStage(g) /\ Is(g, "onCreate") /\ op[g].arg = f
  BY <1>1 DEF ExactInv, Is
<1>3. QED
  BY <1>1, <1>2 DEF ExactStage

(* Who takes a step is not being created. *)
LEMMA Awake ==
  ASSUME Plainly, ReachInv, ExactInv, NEW t \in Threads, pc[t] # "idle" \/ Runs(t)
  PROVE  life[t] = "running" /\ ~BeingCreated(t)
<1>1. TypeOK /\ ReachStage(t)
  BY DEF ReachInv
<1>2. CASE Runs(t)
  BY <1>2 DEF Runs, Plainly
<1>3. CASE pc[t] # "idle"
  BY <1>1, <1>3, CreatedWaits DEF ReachStage
<1>4. QED
  BY <1>2, <1>3

(* Being created goes on while the creator is at work. *)
LEMMA CreatorsStay ==
  ASSUME NEW t \in Threads, \A u \in Threads : u # t => Still(u), NEW f \in Threads, BeingCreated(f),
         \/ op[t] # [what |-> "onCreate", arg |-> f]
         \/ op'[t] = op[t] /\ pc'[t] \in {"load", "store"}
         \/ pc[t] \notin {"load", "store"}
  PROVE  BeingCreated(f)'
<1>1. PICK g \in Threads : op[g] = [what |-> "onCreate", arg |-> f] /\ pc[g] \in {"load", "store"}
  BY DEF BeingCreated
<1>2. op'[g] = [what |-> "onCreate", arg |-> f] /\ pc'[g] \in {"load", "store"}
  BY <1>1 DEF Still
<1>3. QED
  BY <1>2 DEF BeingCreated

LEMMA OthersExact ==
  ASSUME ReachInv, TypeOK', ExactInv, NEW t \in Threads, life[t] = "running", ~BeingCreated(t),
         Aside(t), NEW u \in Threads, u # t, Still(u), \A v \in Threads : v # t => Still(v)
  PROVE  ExactStage(u)'
<1>1. /\ TypeOK /\ ReachStage(u) /\ ReachStage(t) /\ Exclusive /\ OneJoiner /\ ExactStage(u)
      /\ op[u] \in Ops /\ op[t] \in Ops
  BY Typed DEF ReachInv, ExactInv
<1>2. ASSUME pc[u] # "idle"
      PROVE  life[u] = "running" /\ know'[u] = know[u] /\ C'[u] = C[u]
  <2>1. life[u] = "running"
    BY <1>1, <1>2 DEF ReachStage
  <2>2. ~BeingCreated(u)
    BY <1>1, <1>2, CreatedWaits
  <2>3. ~(Is(t, "onDestroy") /\ op[t].arg = u)
    BY <1>1, <2>1 DEF ReachStage
  <2>4. QED
    BY <2>1, <2>2, <2>3 DEF Aside
<1>3. ASSUME pc[u] = "idle", life'[u] \in {"running", "done"}, ~BeingCreated(u)'
      PROVE  Leq(know'[u], C'[u])
  <2>1. life[u] \in {"running", "done"}
    BY <1>1, <1>3 DEF Aside, TypeOK
  <2>2. know'[u] = know[u]
    BY <2>1 DEF Aside
  <2>3. CASE BeingCreated(u)
    BY <1>3, <2>2, <2>3 DEF Aside
  <2>4. CASE ~BeingCreated(u)
    <3>1. Leq(know[u], C[u])
      BY <1>1, <1>3, <2>1, <2>4 DEF ExactStage, Complete
    <3>2. ~(Is(t, "onDestroy") /\ op[t].arg = u)
      BY <1>1, <2>1 DEF ReachStage
    <3>3. C'[u] = C[u]
      BY <2>4, <3>2 DEF Aside
    <3>4. QED
      BY <2>2, <3>1, <3>3
  <2>5. QED
    BY <2>3, <2>4
<1>4. ASSUME pc[u] \in {"load", "store"}, Is(u, "onCreate")
      PROVE  LET f == op[u].arg IN
             /\ f \in Threads /\ f # u /\ pc'[f] = "idle" /\ life'[f] = "running"
             /\ know'[f] = know[f]
             /\ C'[f] = C[f] \/ Leq(know[f], C'[f])
  <2> DEFINE f == op[u].arg
  <2>1. f \in Threads /\ f # u /\ pc[f] = "idle" /\ life[f] = "running"
    BY <1>1, <1>4, OpArg DEF ExactStage, Is
  <2>2. f # t
    <3>1. op[u] = [what |-> "onCreate", arg |-> f]
      BY <1>1, <1>4 DEF Ops, NoOp, Is
    <3>2. QED
      BY <1>4, <3>1 DEF BeingCreated
  <2>3. ~(Is(t, "onDestroy") /\ op[t].arg = f)
    BY <1>1, <2>1 DEF ReachStage
  <2>4. QED
    BY <2>1, <2>2, <2>3 DEF Aside, Still
<1>5. ASSUME pc[u] # "idle", Is(u, "onDestroy")
      PROVE  LET f == op[u].arg IN f \in Threads /\ know'[f] = know[f] /\ C'[f] = C[f]
  <2> DEFINE f == op[u].arg
  <2>1. f \in Threads /\ life[f] = "joined"
    BY <1>1, <1>5, OpArg DEF ReachStage, Is
  <2>2. ~(Is(t, "onDestroy") /\ op[t].arg = f)
    <3>1. SUFFICES ASSUME Is(t, "onDestroy"), op[t].arg = f PROVE FALSE
      OBVIOUS
    <3>2. op[t] = op[u]
      BY <1>1, <1>5, <3>1 DEF Ops, NoOp, Is
    <3>3. QED
      BY <1>1, <1>5, <3>2 DEF OneJoiner
  <2>3. ~BeingCreated(f)
    BY <1>1, <2>1, CreatedWaits
  <2>4. QED
    BY <2>1, <2>2, <2>3 DEF Aside
<1>6. Target(u)' = Target(u) /\ Counted(u)' = Counted(u)
  BY DEF Still, Target, Counted, Is
<1>7. ASSUME pc[u] \in {"load", "store", "loadTick", "storeTick"}
      PROVE  LET c == Counted(u) IN c \in Threads /\ know'[c] = know[c] /\ C'[c] = C[c]
  BY <1>1, <1>2, <1>5, <1>7, Roles DEF Counted
<1>8. ASSUME pc[u] \in {"load", "store"}
      PROVE  know'[Target(u)] = know[Target(u)]
  <2>1. CASE Is(u, "onCreate")
    BY <1>1, <1>4, <1>8, <2>1, Roles
  <2>2. CASE ~Is(u, "onCreate")
    BY <1>2, <1>8, <2>2 DEF Target
  <2>3. QED
    BY <2>1, <2>2
<1>9. ASSUME pc[u] = "load"
      PROVE  Leq(know'[Target(u)], Join(C'[Target(u)], Owed(u)'))
  <2>1. Leq(know[Target(u)], Join(C[Target(u)], Owed(u)))
    BY <1>1, <1>9 DEF ExactStage
  <2>2. op[u].what \in {"onLock", "onCreate", "onDestroy"}
    BY <1>1, <1>9 DEF ReachStage
  <2>3. CASE Is(u, "onLock")
    <3>1. op[u].arg \in Locks /\ mode[t][op[u].arg] # "write"
      BY <1>1, <1>9, <2>3, OpArg DEF ReachStage, Exclusive, Is, TypeOK
    <3>2. Target(u) = u /\ Owed(u) = pub[op[u].arg] /\ Owed(u)' = pub'[op[u].arg]
      BY <2>3 DEF Target, Owed, Still, Is
    <3>3. QED
      BY <1>2, <1>9, <2>1, <3>1, <3>2 DEF Aside
  <2>4. CASE Is(u, "onCreate")
    <3> DEFINE f == op[u].arg
    <3>1. Target(u) = f /\ Owed(u) = C[u] /\ Owed(u)' = C'[u]
      BY <2>4 DEF Target, Owed, Merged, Still, Is
    <3>2. f \in Threads /\ know'[f] = know[f] /\ (C'[f] = C[f] \/ Leq(know[f], C'[f]))
      BY <1>4, <1>9, <2>4
    <3>3. C'[u] = C[u]
      BY <1>2, <1>9
    <3> HIDE DEF f
    <3>4. CASE C'[f] = C[f]
      BY <2>1, <3>1, <3>2, <3>3, <3>4
    <3>5. CASE Leq(know[f], C'[f])
      <4>1. know[f] \in IntRow /\ C'[f] \in IntRow /\ C'[u] \in IntRow
        BY <1>1, <3>2, Typed, RowFacts DEF TypeOK
      <4>2. Leq(C'[f], Join(C'[f], C'[u])) /\ Join(C'[f], C'[u]) \in IntRow
        BY <4>1, JoinFacts DEF Join, IntRow
      <4>3. QED
        BY <3>1, <3>2, <3>5, <4>1, <4>2, LeqOrder
    <3>6. QED
      BY <3>2, <3>4, <3>5
  <2>5. CASE Is(u, "onDestroy")
    <3>1. Target(u) = u /\ Owed(u) = C[op[u].arg] /\ Owed(u)' = C'[op[u].arg]
      BY <2>5 DEF Target, Owed, Merged, Still, Is
    <3>2. QED
      BY <1>2, <1>5, <1>9, <2>1, <2>5, <3>1
  <2>6. QED
    BY <2>2, <2>3, <2>4, <2>5 DEF Is
<1>10. ASSUME pc[u] = "store" PROVE Leq(know'[Target(u)], row[u])
  BY <1>1, <1>8, <1>10 DEF ExactStage
<1>11. ASSUME pc[u] \in {"load", "store"}, Is(u, "onCreate")
       PROVE  /\ Leq(know'[u], C'[u]) /\ op[u].arg # u
              /\ pc'[op[u].arg] = "idle" /\ life'[op[u].arg] = "running"
  BY <1>1, <1>2, <1>4, <1>11 DEF ExactStage, Complete
<1>12. ASSUME pc[u] \in {"load", "store"}, Is(u, "onDestroy")
       PROVE  Leq(know'[op[u].arg], C'[op[u].arg])
  BY <1>1, <1>5, <1>12 DEF ExactStage, Complete
<1>13. ASSUME pc[u] \in {"loadTick", "release"} PROVE Leq(know'[u], C'[u])
  BY <1>1, <1>2, <1>13 DEF ExactStage, Complete
<1>14. ASSUME pc[u] = "loadTick" PROVE Leq(know'[Counted(u)], C'[Counted(u)])
  BY <1>1, <1>7, <1>14 DEF ExactStage, Complete
<1>15. ASSUME pc[u] = "storeTick"
       PROVE  /\ \A v \in Threads \ {Counted(u)} : know'[Counted(u)][v] <= C'[Counted(u)][v]
              /\ value[u] < Top /\ know'[Counted(u)][Counted(u)] <= value[u] + 1
              /\ Is(u, "onDestroy") => Leq(know'[u], C'[u])
  BY <1>1, <1>2, <1>7, <1>15 DEF ExactStage, Complete
<1>16. ASSUME pc[u] \in {"load", "store", "loadTick"}, ~Is(u, "onLock")
       PROVE  know'[Counted(u)][Counted(u)] < MaxTicks
  BY <1>1, <1>7, <1>16 DEF ExactStage
<1>17. pc[u] # "wake"
  BY <1>1 DEF ExactStage
<1>18. QED
  BY <1>3, <1>6, <1>9, <1>10, <1>11, <1>12, <1>13, <1>14, <1>15, <1>16, <1>17
     DEF ExactStage, Complete, Still, Is

LEMMA ExactTogether ==
  ASSUME ReachInv, ReachInv', ExactInv, NEW t \in Threads, life[t] = "running", ~BeingCreated(t),
         Aside(t), \A u \in Threads : u # t => Still(u), LocksExact',
         \A l \in Locks : mode'[t][l] # "none" =>
           life'[t] = "running" /\ Leq(pub'[l], know'[t]),
         ExactStage(t)'
  PROVE  ExactInv'
<1>1. TypeOK /\ TypeOK' /\ Exclusive /\ HolderKnows
  BY DEF ReachInv, ExactInv
<1>2. \A u \in Threads : ExactStage(u)'
  BY <1>1, OthersExact
<1>3. ASSUME NEW u \in Threads, NEW l \in Locks, u # t, mode'[u][l] # "none"
      PROVE  life'[u] = "running" /\ Leq(pub'[l], know'[u])
  <2>1. mode[u][l] # "none" /\ life[u] = "running" /\ Leq(pub[l], know[u])
    BY <1>1, <1>3 DEF HolderKnows, Still
  <2>2. mode[t][l] # "write"
    BY <1>1, <1>3, <2>1 DEF Exclusive
  <2>3. QED
    BY <1>3, <2>1, <2>2 DEF Aside
<1>4. HolderKnows'
  BY <1>3 DEF HolderKnows
<1>5. QED
  BY <1>2, <1>4 DEF ExactInv

LEMMA JoinGrows ==
  ASSUME NEW r \in IntRow, NEW s \in IntRow, NEW x \in IntRow, NEW y \in IntRow, Leq(r, x), Leq(s, y)
  PROVE  Leq(Join(r, s), Join(x, y))
BY DEF IntRow, Leq, Join

(* A step that changes neither the history nor the program nor rows *)
LEMMA QuietAside ==
  ASSUME TypeOK, NEW t \in Threads, \A u \in Threads : u # t => Still(u),
         UNCHANGED <<know, life, C, L, pub>>,
         \A f \in Threads : BeingCreated(f) => BeingCreated(f)'
  PROVE  Aside(t)
BY DEF Aside

LEMMA HolderKept ==
  ASSUME ExactInv, NEW t \in Threads, UNCHANGED <<know, life, mode, pub>>
  PROVE  \A l \in Locks : mode'[t][l] # "none" =>
           life'[t] = "running" /\ Leq(pub'[l], know'[t])
BY DEF ExactInv, HolderKnows

(* A handler brings at least what it owes, whoever saved the lock's row. *)
LEMMA OwedMerged ==
  ASSUME TypeOK, LocksExact, NEW t \in Threads, pc[t] = "load", ReachStage(t),
         Leq(know[Target(t)], Join(C[Target(t)], Owed(t)))
  PROVE  Leq(know[Target(t)], Join(C[Target(t)], Merged(t)))
<1>1. op[t] \in Ops /\ Target(t) \in Threads
  BY Typed, Roles
<1>2. know[Target(t)] \in IntRow /\ C[Target(t)] \in IntRow /\ C[Target(t)] \in Row
  BY <1>1, Typed
<1>3. CASE Is(t, "onLock")
  <2> DEFINE l == op[t].arg
  <2>1. l \in Locks /\ Owed(t) = pub[l] /\ Merged(t) = L[l]
    BY <1>1, <1>3, OpArg DEF Owed, Merged, Is
  <2> HIDE DEF l
  <2>2. pub[l] \in IntRow /\ L[l] \in IntRow /\ L[l] \in Row /\ Leq(pub[l], L[l])
    BY <2>1, Typed DEF LocksExact
  <2>3. Leq(Join(C[Target(t)], pub[l]), Join(C[Target(t)], L[l]))
    BY <1>2, <2>2, JoinGrows, LeqOrder
  <2>4. Join(C[Target(t)], pub[l]) \in IntRow /\ Join(C[Target(t)], L[l]) \in IntRow
    BY <1>2, <2>2 DEF Join, IntRow
  <2>5. QED
    BY <1>2, <2>1, <2>3, <2>4, LeqOrder
<1>4. CASE ~Is(t, "onLock")
  BY <1>4 DEF Owed
<1>5. QED
  BY <1>3, <1>4

LEMMA LoadRowExact ==
  ASSUME Plainly, ReachInv, ReachInv', ExactInv, NEW t \in Threads, LoadRow(t)
  PROVE  ExactInv'
<1> DEFINE new == Join(C[Target(t)], Merged(t))
<1>1. /\ TypeOK /\ TypeOK' /\ ReachStage(t) /\ ExactStage(t) /\ LocksExact /\ op[t] \in Ops
  BY Typed DEF ReachInv, ExactInv
<1>2. /\ pc[t] = "load" /\ Goto(t, "store") /\ row' = [row EXCEPT ![t] = new]
      /\ UNCHANGED <<op, value, C, L, R, W, RE, users, life, mode, know, pub>>
  BY DEF LoadRow, epochs, program
<1>3. pc'[t] = "store" /\ \A u \in Threads : u # t => pc'[u] = pc[u]
  BY <1>1, <1>2, GotoFacts DEF Labels
<1>4. row'[t] = new /\ \A u \in Threads : u # t => row'[u] = row[u]
  BY <1>1, <1>2 DEF TypeOK
<1>5. \A u \in Threads : u # t => Still(u)
  BY <1>2, <1>3, <1>4 DEF Still
<1>6. life[t] = "running" /\ ~BeingCreated(t)
  BY <1>2, Awake
<1>7. Aside(t)
  <2>1. \A f \in Threads : BeingCreated(f) => BeingCreated(f)'
    BY <1>2, <1>3, <1>5, CreatorsStay
  <2>2. QED
    BY <1>1, <1>2, <1>5, <2>1, QuietAside
<1>8. ExactStage(t)'
  <2>1. Leq(know[Target(t)], new)
    BY <1>1, <1>2, OwedMerged DEF ExactStage
  <2>2. Target(t)' = Target(t) /\ Counted(t)' = Counted(t)
    BY <1>2 DEF Target, Counted, Is
  <2>3. /\ Is(t, "onCreate") => Complete(t) /\ op[t].arg # t /\ pc[op[t].arg] = "idle" /\ life[op[t].arg] = "running"
        /\ Is(t, "onDestroy") => Complete(op[t].arg)
        /\ ~Is(t, "onLock") => know[Counted(t)][Counted(t)] < MaxTicks
    BY <1>1, <1>2 DEF ExactStage
  <2>4. Is(t, "onCreate") => pc'[op[t].arg] = "idle"
    BY <1>1, <1>3, <2>3, OpArg DEF Is
  <2> HIDE DEF new
  <2>5. QED
    BY <1>2, <1>3, <1>4, <2>1, <2>2, <2>3, <2>4 DEF ExactStage, Complete, Is
<1>9. QED
  BY <1>1, <1>2, <1>5, <1>6, <1>7, <1>8, ExactTogether, HolderKept DEF LocksExact

LEMMA StoreRowExact ==
  ASSUME Plainly, ReachInv, ReachInv', ExactInv, NEW t \in Threads, StoreRow(t)
  PROVE  ExactInv'
<1>1. /\ TypeOK /\ TypeOK' /\ ReachStage(t) /\ ExactStage(t) /\ LocksExact /\ op[t] \in Ops /\ row[t] \in Row
  BY Typed DEF ReachInv, ExactInv
<1>2. /\ pc[t] = "store" /\ C' = [C EXCEPT ![Target(t)] = row[t]]
      /\ UNCHANGED <<row, value, L, R, W, RE, users, life, mode, know, pub>>
      /\ IF Is(t, "onLock") THEN Leave(t) ELSE Goto(t, "loadTick") /\ op' = op
  BY DEF StoreRow, epochs, program, Leave
<1>3. /\ \A u \in Threads : u # t => pc'[u] = pc[u] /\ op'[u] = op[u]
      /\ IF Is(t, "onLock") THEN pc'[t] = "idle" /\ op'[t] = NoOp ELSE pc'[t] = "loadTick" /\ op' = op
  <2>1. CASE Is(t, "onLock")
    BY <1>1, <1>2, <2>1, LeaveFacts
  <2>2. CASE ~Is(t, "onLock")
    BY <1>1, <1>2, <2>2, GotoFacts DEF Labels
  <2>3. QED
    BY <2>1, <2>2
<1>4. \A u \in Threads : u # t => Still(u)
  BY <1>2, <1>3 DEF Still
<1>5. life[t] = "running" /\ ~BeingCreated(t)
  BY <1>2, Awake
<1>6. /\ Target(t) \in Threads /\ C'[Target(t)] = row[t] /\ Leq(know[Target(t)], row[t])
      /\ \A f \in Threads : f # Target(t) => C'[f] = C[f]
  BY <1>1, <1>2, Roles DEF ExactStage, TypeOK
<1>7. ASSUME Is(t, "onCreate")
      PROVE  op[t] = [what |-> "onCreate", arg |-> Target(t)] /\ BeingCreated(Target(t))
  <2>1. op[t] = [what |-> "onCreate", arg |-> Target(t)]
    BY <1>1, <1>7 DEF Ops, NoOp, Is, Target
  <2>2. QED
    BY <1>2, <2>1 DEF BeingCreated
<1>8. Aside(t)
  <2>1. ASSUME NEW f \in Threads
        PROVE  C'[f] = C[f] \/ f = t \/ (BeingCreated(f) /\ Leq(know[f], C'[f]))
    <3>1. CASE f = Target(t) /\ Is(t, "onCreate")
      BY <1>6, <1>7, <3>1
    <3>2. CASE f = Target(t) /\ ~Is(t, "onCreate")
      BY <3>2 DEF Target
    <3>3. CASE f # Target(t)
      BY <1>6, <3>3
    <3>4. QED
      BY <3>1, <3>2, <3>3
  <2>2. ASSUME NEW f \in Threads, BeingCreated(f)
        PROVE  BeingCreated(f)' \/ Leq(know[f], C'[f])
    <3>1. CASE f = Target(t)
      BY <1>6, <3>1
    <3>2. CASE f # Target(t)
      <4>1. op[t] # [what |-> "onCreate", arg |-> f]
        BY <3>2 DEF Target, Is
      <4>2. QED
        BY <1>4, <2>2, <4>1, CreatorsStay
    <3>3. QED
      BY <3>1, <3>2
  <2>3. QED
    BY <1>2, <2>1, <2>2 DEF Aside
<1>9. ExactStage(t)'
  <2>1. CASE Is(t, "onLock")
    <3>1. Target(t) = t
      BY <2>1 DEF Target, Is
    <3>2. QED
      BY <1>2, <1>3, <1>6, <2>1, <3>1 DEF ExactStage, Complete, Is, NoOp
  <2>2. CASE Is(t, "onCreate")
    <3>1. Complete(t) /\ Target(t) # t /\ Counted(t) = t /\ know[t][t] < MaxTicks
      BY <1>1, <1>2, <2>2, Roles DEF ExactStage, Is
    <3>2. pc'[t] = "loadTick" /\ op' = op /\ C'[t] = C[t] /\ Counted(t)' = t
      BY <1>3, <1>6, <2>2, <3>1 DEF Counted, Is
    <3>3. QED
      BY <1>2, <3>1, <3>2 DEF ExactStage, Complete, Is
  <2>3. CASE Is(t, "onDestroy")
    <3> DEFINE f == op[t].arg
    <3>1. /\ f \in Threads /\ f # t /\ Complete(f) /\ Counted(t) = f /\ Target(t) = t
          /\ know[f][f] < MaxTicks
      BY <1>1, <1>2, <1>5, <2>3, OpArg, Roles DEF ExactStage, ReachStage, Is
    <3>2. pc'[t] = "loadTick" /\ op' = op /\ C'[f] = C[f] /\ Counted(t)' = f /\ C'[t] = row[t]
      BY <1>3, <1>6, <2>3, <3>1 DEF Counted, Is
    <3>3. Leq(know'[t], C'[t]) /\ Leq(know'[f], C'[f])
      BY <1>2, <1>6, <3>1, <3>2 DEF Complete
    <3> HIDE DEF f
    <3>4. QED
      BY <1>2, <3>1, <3>2, <3>3 DEF ExactStage, Complete, Is
  <2>4. QED
    BY <1>1, <1>2, <2>1, <2>2, <2>3 DEF ReachStage, Is
<1>10. QED
  BY <1>1, <1>2, <1>4, <1>5, <1>8, <1>9, ExactTogether, HolderKept DEF LocksExact

LEMMA LoadTickExact ==
  ASSUME Plainly, ReachInv, ReachInv', ExactInv, NEW t \in Threads, LoadTick(t)
  PROVE  ExactInv'
<1> DEFINE c == Counted(t)
<1>1. /\ TypeOK /\ TypeOK' /\ ReachStage(t) /\ ExactStage(t) /\ LocksExact /\ HolderKnows /\ op[t] \in Ops
      /\ \A f \in Threads : Reached(C[f])
  BY Typed DEF ReachInv, ExactInv
<1>2. /\ pc[t] = "loadTick" /\ Goto(t, "storeTick") /\ value' = [value EXCEPT ![t] = C[c][c]]
      /\ know' = [know EXCEPT ![c][c] = @ + 1]
      /\ UNCHANGED <<op, row, C, L, R, W, RE, users, life, mode, pub>>
  BY DEF LoadTick, epochs, program
<1>3. pc'[t] = "storeTick" /\ \A u \in Threads : u # t => pc'[u] = pc[u]
  BY <1>1, <1>2, GotoFacts DEF Labels
<1>4. value'[t] = C[c][c] /\ \A u \in Threads : u # t => value'[u] = value[u]
  BY <1>1, <1>2 DEF TypeOK
<1>5. \A u \in Threads : u # t => Still(u)
  BY <1>2, <1>3, <1>4 DEF Still
<1>6. life[t] = "running" /\ ~BeingCreated(t)
  BY <1>2, Awake
<1>7. /\ c \in Threads /\ c = Counted(t)'
      /\ c = t \/ (Is(t, "onDestroy") /\ op[t].arg = c /\ life[c] = "joined")
      /\ Complete(t) /\ Complete(c) /\ know[c][c] < MaxTicks /\ (Is(t, "onDestroy") => c # t)
  <2>1. op[t].what \in {"onUnlock", "onCreate", "onDestroy"} /\ (Is(t, "onDestroy") => life[op[t].arg] = "joined")
    BY <1>1, <1>2 DEF ReachStage
  <2>2. c \in Threads /\ c = Counted(t)' /\ (IF Is(t, "onDestroy") THEN c = op[t].arg ELSE c = t)
    BY <1>1, <1>2, Roles DEF Counted, Is
  <2>3. Complete(t) /\ Complete(c) /\ know[c][c] < MaxTicks
    BY <1>1, <1>2, <2>1 DEF ExactStage, Is
  <2>4. QED
    BY <1>6, <2>1, <2>2, <2>3
<1> HIDE DEF c
<1>8. /\ know'[c] = [know[c] EXCEPT ![c] = @ + 1] /\ \A f \in Threads : f # c => know'[f] = know[f]
      /\ know[c] \in NatRow /\ know[t] \in NatRow /\ C[c] \in IntRow
  BY <1>1, <1>2, <1>7, Typed DEF TypeOK
<1>9. Leq(know[t], know'[t])
  BY <1>7, <1>8, TickFacts, RowFacts, LeqOrder
<1>10. Aside(t)
  <2>1. \A f \in Threads : BeingCreated(f) => BeingCreated(f)'
    BY <1>2, <1>5, CreatorsStay
  <2>2. QED
    BY <1>2, <1>6, <1>7, <1>8, <2>1 DEF Aside
<1>11. ExactStage(t)'
  <2>1. /\ C[c][c] <= know[c][c] /\ know[c][c] <= C[c][c] /\ C[c][c] \in Int /\ know[c][c] \in Int
    BY <1>1, <1>7, <1>8, RowFacts, LeqAt DEF Reached, Complete, IntRow, NatRow
  <2>2. know'[c][c] = know[c][c] + 1
    BY <1>7, <1>8 DEF NatRow
  <2>3. C[c][c] < Top /\ know'[c][c] <= C[c][c] + 1
    BY <1>7, <2>1, <2>2, FastTrackAssumption DEF Plainly
  <2>4. \A v \in Threads \ {c} : know'[c][v] <= C[c][v]
    BY <1>7, <1>8 DEF NatRow, Complete, Leq
  <2>5. Is(t, "onDestroy") => Leq(know'[t], C[t])
    BY <1>7, <1>8 DEF Complete
  <2>6. QED
    BY <1>2, <1>3, <1>4, <1>7, <2>3, <2>4, <2>5 DEF ExactStage, Complete, Is
<1>12. \A l \in Locks : mode'[t][l] # "none" =>
         life'[t] = "running" /\ Leq(pub'[l], know'[t])
  BY <1>1, <1>2, <1>9, Typed, TypedNext, LeqOrder DEF HolderKnows
<1>13. QED
  BY <1>1, <1>2, <1>5, <1>6, <1>10, <1>11, <1>12, ExactTogether DEF LocksExact

LEMMA StoreTickExact ==
  ASSUME Plainly, ReachInv, ReachInv', ExactInv, NEW t \in Threads, StoreTick(t)
  PROVE  ExactInv'
<1> DEFINE c == Counted(t)
           new == [C[c] EXCEPT ![c] = Inc(value[t])]
<1>1. /\ TypeOK /\ TypeOK' /\ ReachStage(t) /\ ExactStage(t) /\ LocksExact /\ op[t] \in Ops
  BY Typed DEF ReachInv, ExactInv
<1>2. /\ pc[t] = "storeTick" /\ C' = [C EXCEPT ![c] = new]
      /\ UNCHANGED <<row, value, L, R, W, RE, users, life, mode, know, pub>>
      /\ IF Is(t, "onUnlock") THEN Goto(t, "release") /\ op' = op ELSE Leave(t)
  BY DEF StoreTick, epochs, program, Leave
<1>3. /\ \A u \in Threads : u # t => pc'[u] = pc[u] /\ op'[u] = op[u]
      /\ IF Is(t, "onUnlock") THEN pc'[t] = "release" /\ op' = op ELSE pc'[t] = "idle" /\ op'[t] = NoOp
  <2>1. CASE Is(t, "onUnlock")
    BY <1>1, <1>2, <2>1, GotoFacts DEF Labels
  <2>2. CASE ~Is(t, "onUnlock")
    BY <1>1, <1>2, <2>2, LeaveFacts
  <2>3. QED
    BY <2>1, <2>2
<1>4. \A u \in Threads : u # t => Still(u)
  BY <1>2, <1>3 DEF Still
<1>5. life[t] = "running" /\ ~BeingCreated(t)
  BY <1>2, Awake
<1>6. /\ c \in Threads /\ IF Is(t, "onDestroy") THEN c = op[t].arg /\ Complete(t) ELSE c = t
  BY <1>1, <1>2, Roles DEF Counted, ExactStage
<1>7. /\ \A u \in Threads \ {c} : know[c][u] <= C[c][u]
      /\ value[t] < Top /\ know[c][c] <= value[t] + 1
  BY <1>1, <1>2 DEF ExactStage
<1>8. new = [C[c] EXCEPT ![c] = Inc(value[t])]
  OBVIOUS
<1> HIDE DEF c, new
<1>9. Leq(know[c], new)
  <2>1. C[c] \in Row /\ value[t] \in Int
    BY <1>1, <1>6, Typed
  <2>2. Inc(value[t]) = value[t] + 1
    BY <1>7, <2>1, FastTrackAssumption DEF Inc
  <2>3. QED
    BY <1>6, <1>7, <1>8, <2>1, <2>2 DEF Row, Leq
<1>10. C'[c] = new /\ \A f \in Threads : f # c => C'[f] = C[f]
  BY <1>1, <1>2, <1>6 DEF TypeOK
<1>11. Leq(know'[t], C'[t])
  BY <1>2, <1>6, <1>9, <1>10 DEF Complete
<1>12. Aside(t)
  <2>1. \A f \in Threads : BeingCreated(f) => BeingCreated(f)'
    BY <1>2, <1>4, CreatorsStay
  <2>2. QED
    BY <1>2, <1>6, <1>10, <2>1 DEF Aside
<1>13. ExactStage(t)'
  BY <1>3, <1>11 DEF ExactStage, Complete, Is, NoOp
<1>14. QED
  BY <1>1, <1>2, <1>4, <1>5, <1>12, <1>13, ExactTogether, HolderKept DEF LocksExact

LEMMA AcquireExact ==
  ASSUME Plainly, ReachInv, ReachInv', ExactInv, NEW t \in Threads, Acquire(t)
  PROVE  ExactInv'
<1>1. TypeOK /\ TypeOK' /\ ExactStage(t) /\ LocksExact /\ HolderKnows /\ Runs(t)
  BY DEF ReachInv, ExactInv, Acquire
<1>2. PICK l \in Locks, m \in {"read", "write"} :
        /\ l \in Mutexes => m = "write"
        /\ mode[t][l] = "none"
        /\ mode' = [mode EXCEPT ![t][l] = m]
        /\ know' = [know EXCEPT ![t] = Join(@, pub[l])]
        /\ Enter(t, "onLock", l, "load")
  BY DEF Acquire
<1>3. pc[t] = "idle" /\ UNCHANGED <<C, L, R, W, RE, users, life, pub>>
  BY <1>1 DEF Acquire, Runs, epochs
<1>4. life[t] = "running" /\ ~BeingCreated(t)
  BY <1>1, Awake
<1>5. /\ op'[t].what = "onLock" /\ op'[t].arg = l /\ pc'[t] = "load"
      /\ \A u \in Threads : u # t => op'[u] = op[u] /\ pc'[u] = pc[u]
      /\ row' = row /\ value' = value
  <2>1. [what |-> "onLock", arg |-> l] \in Ops /\ "load" \in Labels
    BY DEF Ops, Labels
  <2>2. QED
    BY <1>1, <1>2, <2>1, EnterFacts
<1>6. /\ mode'[t][l] = m /\ \A k \in Locks : k # l => mode'[t][k] = mode[t][k]
      /\ \A u \in Threads : u # t => mode'[u] = mode[u]
  BY <1>1, <1>2, <1>3 DEF TypeOK
<1>7. know'[t] = Join(know[t], pub[l]) /\ \A f \in Threads : f # t => know'[f] = know[f]
  BY <1>1, <1>2 DEF TypeOK
<1>8. Leq(know[t], know'[t]) /\ Leq(pub[l], know'[t])
  BY <1>1, <1>7, Typed, JoinFacts
<1>9. \A u \in Threads : u # t => Still(u)
  BY <1>5, <1>6 DEF Still
<1>10. Aside(t)
  <2>1. \A f \in Threads : BeingCreated(f) => BeingCreated(f)'
    BY <1>3, <1>9, CreatorsStay
  <2>2. QED
    BY <1>3, <1>4, <1>7, <2>1 DEF Aside
<1>11. ExactStage(t)'
  <2>1. Leq(know[t], C[t]) /\ Leq(pub[l], pub[l])
    BY <1>1, <1>3, <1>4, Typed, LeqOrder DEF ExactStage, Complete
  <2>2. Leq(know'[t], Join(C[t], pub[l]))
    BY <1>1, <1>7, <2>1, Typed, JoinGrows
  <2>3. Target(t)' = t /\ Owed(t)' = pub[l]
    BY <1>3, <1>5 DEF Target, Owed, Is
  <2>4. QED
    BY <1>3, <1>5, <2>2, <2>3 DEF ExactStage, Is
<1>12. ASSUME NEW k \in Locks, mode'[t][k] # "none"
       PROVE  life'[t] = "running" /\ Leq(pub'[k], know'[t])
  <2>1. CASE k = l
    BY <1>3, <1>4, <1>6, <1>8, <2>1
  <2>2. CASE k # l
    <3>1. Leq(pub[k], know[t])
      BY <1>1, <1>6, <1>12, <2>2 DEF HolderKnows
    <3>2. Leq(pub[k], know'[t])
      BY <1>1, <1>8, <3>1, Typed, TypedNext, LeqOrder
    <3>3. QED
      BY <1>3, <1>4, <3>1, <3>2
  <2>3. QED
    BY <2>1, <2>2
<1>13. QED
  BY <1>1, <1>3, <1>4, <1>9, <1>10, <1>11, <1>12, ExactTogether DEF LocksExact

LEMMA OnUnlockExact ==
  ASSUME Plainly, ReachInv, ReachInv', ExactInv, NEW t \in Threads, OnUnlock(t)
  PROVE  ExactInv'
<1>1. TypeOK /\ TypeOK' /\ ExactStage(t) /\ LocksExact /\ HolderKnows /\ Runs(t)
  BY DEF ReachInv, ExactInv, OnUnlock
<1>2. PICK l \in Locks :
        /\ mode[t][l] # "none"
        /\ L' = [L EXCEPT ![l] = C[t]]
        /\ pub' = IF mode[t][l] = "write" THEN [pub EXCEPT ![l] = Join(@, know[t])] ELSE pub
        /\ Enter(t, "onUnlock", l, "loadTick")
  BY DEF OnUnlock
<1>3. /\ pc[t] = "idle" /\ know[t][t] < MaxTicks
      /\ UNCHANGED <<C, R, W, RE, users, life, mode, know>>
  BY <1>1 DEF OnUnlock, Runs, epochs, program
<1>4. life[t] = "running" /\ ~BeingCreated(t)
  BY <1>1, Awake
<1>5. /\ op'[t].what = "onUnlock" /\ op'[t].arg = l /\ pc'[t] = "loadTick"
      /\ \A u \in Threads : u # t => op'[u] = op[u] /\ pc'[u] = pc[u]
      /\ row' = row /\ value' = value
  <2>1. [what |-> "onUnlock", arg |-> l] \in Ops /\ "loadTick" \in Labels
    BY DEF Ops, Labels
  <2>2. QED
    BY <1>1, <1>2, <2>1, EnterFacts
<1>6. /\ L'[l] = C[t] /\ \A k \in Locks : k # l => L'[k] = L[k]
      /\ \A k \in Locks : k # l \/ mode[t][l] # "write" => pub'[k] = pub[k]
      /\ pub'[l] = pub[l] \/ pub'[l] = Join(pub[l], know[t])
  BY <1>1, <1>2 DEF TypeOK
<1>7. Leq(know[t], C[t])
  BY <1>1, <1>3, <1>4 DEF ExactStage, Complete
<1>8. Leq(pub'[l], know[t]) /\ pub'[l] \in IntRow
  <2>1. Leq(pub[l], know[t]) /\ Leq(know[t], know[t])
    BY <1>1, <1>2, Typed, LeqOrder DEF HolderKnows
  <2>2. pub[l] \in NatRow /\ pub[l] \in IntRow /\ know[t] \in NatRow /\ know[t] \in IntRow
    BY <1>1, Typed
  <2>3. Join(pub[l], know[t]) \in IntRow
    BY <2>2, JoinFacts, RowFacts
  <2>4. Leq(Join(pub[l], know[t]), know[t])
    BY <2>1, <2>2, JoinFacts
  <2>5. QED
    BY <1>6, <2>1, <2>2, <2>3, <2>4
<1>9. LocksExact'
  <2>1. Leq(pub'[l], L'[l])
    BY <1>1, <1>6, <1>7, <1>8, Typed, LeqOrder
  <2>2. QED
    BY <1>1, <1>6, <2>1 DEF LocksExact
<1>10. \A u \in Threads : u # t => Still(u)
  BY <1>3, <1>5 DEF Still
<1>11. Aside(t)
  <2>1. \A f \in Threads : BeingCreated(f) => BeingCreated(f)'
    BY <1>3, <1>10, CreatorsStay
  <2>2. \A k \in Locks : mode[t][k] = "write" \/ pub'[k] = pub[k]
    BY <1>6
  <2>3. QED
    BY <1>3, <2>1, <2>2 DEF Aside
<1>12. ExactStage(t)'
  <2>1. Counted(t)' = t
    BY <1>5 DEF Counted, Is
  <2>2. QED
    BY <1>3, <1>5, <1>7, <2>1 DEF ExactStage, Complete, Is
<1>13. \A k \in Locks : mode'[t][k] # "none" =>
         life'[t] = "running" /\ Leq(pub'[k], know'[t])
  BY <1>1, <1>3, <1>4, <1>6, <1>8 DEF HolderKnows
<1>14. QED
  BY <1>4, <1>9, <1>10, <1>11, <1>12, <1>13, ExactTogether

LEMMA ReleaseExact ==
  ASSUME Plainly, ReachInv, ReachInv', ExactInv, NEW t \in Threads, Release(t)
  PROVE  ExactInv'
<1>1. TypeOK /\ TypeOK' /\ ReachStage(t) /\ ExactStage(t) /\ LocksExact /\ HolderKnows
  BY DEF ReachInv, ExactInv
<1>2. /\ pc[t] = "release" /\ mode' = [mode EXCEPT ![t][op[t].arg] = "none"] /\ Leave(t)
      /\ UNCHANGED <<C, L, R, W, RE, users, life, know, pub>>
  BY DEF Release, epochs
<1>3. op[t].arg \in Locks
  BY <1>1, <1>2, Typed, OpArg DEF ReachStage, Is
<1>4. /\ \A l \in Locks : mode'[t][l] # "none" => mode'[t][l] = mode[t][l]
      /\ \A u \in Threads : u # t => mode'[u] = mode[u]
  BY <1>1, <1>2, <1>3 DEF TypeOK
<1>5. /\ op'[t] = NoOp /\ pc'[t] = "idle" /\ row' = row /\ value' = value
      /\ \A u \in Threads : u # t => op'[u] = op[u] /\ pc'[u] = pc[u]
  BY <1>1, <1>2, LeaveFacts
<1>6. life[t] = "running" /\ ~BeingCreated(t)
  BY <1>2, Awake
<1>7. \A u \in Threads : u # t => Still(u)
  BY <1>4, <1>5 DEF Still
<1>8. Aside(t)
  <2>1. \A f \in Threads : BeingCreated(f) => BeingCreated(f)'
    BY <1>2, <1>7, CreatorsStay
  <2>2. QED
    BY <1>2, <2>1 DEF Aside
<1>9. ExactStage(t)'
  BY <1>1, <1>2, <1>5 DEF ExactStage, Complete, Is, NoOp
<1>10. \A l \in Locks : mode'[t][l] # "none" =>
         life'[t] = "running" /\ Leq(pub'[l], know'[t])
  BY <1>1, <1>2, <1>4 DEF HolderKnows
<1>11. QED
  BY <1>1, <1>2, <1>6, <1>7, <1>8, <1>9, <1>10, ExactTogether DEF LocksExact

LEMMA CreateExact ==
  ASSUME Plainly, ReachInv, ReachInv', ExactInv, NEW t \in Threads, Create(t)
  PROVE  ExactInv'
<1>1. /\ TypeOK /\ TypeOK' /\ ExactStage(t) /\ LocksExact /\ HolderKnows /\ Runs(t)
      /\ \A f \in Threads : ReachStage(f)
  BY DEF ReachInv, ExactInv, Create
<1>2. PICK f \in Threads :
        /\ life[f] = "unborn" /\ life' = [life EXCEPT ![f] = "running"]
        /\ know' = [know EXCEPT ![f] = know[t]]
        /\ Enter(t, "onCreate", f, "load")
  BY DEF Create
<1>3. /\ pc[t] = "idle" /\ know[t][t] < MaxTicks
      /\ UNCHANGED <<C, L, R, W, RE, users, mode, pub>>
  BY <1>1 DEF Create, Runs, epochs
<1>4. life[t] = "running" /\ ~BeingCreated(t) /\ f # t
  BY <1>1, <1>2, Awake
<1>5. /\ op'[t] = [what |-> "onCreate", arg |-> f] /\ pc'[t] = "load"
      /\ \A u \in Threads : u # t => op'[u] = op[u] /\ pc'[u] = pc[u]
      /\ row' = row /\ value' = value
  BY <1>1, <1>2 DEF Enter, Goto, TypeOK
<1>6. /\ life'[f] = "running" /\ \A u \in Threads : u # f => life'[u] = life[u]
      /\ know'[f] = know[t] /\ \A u \in Threads : u # f => know'[u] = know[u]
  BY <1>1, <1>2 DEF TypeOK
<1>7. pc'[f] = "idle"
  BY <1>1, <1>2, <1>4, <1>5 DEF ReachStage
<1>8. \A u \in Threads : u # t => Still(u)
  BY <1>3, <1>5 DEF Still
<1>9. BeingCreated(f)'
  BY <1>5 DEF BeingCreated
<1>10. Aside(t)
  <2>1. \A u \in Threads : BeingCreated(u) => BeingCreated(u)'
    BY <1>3, <1>8, CreatorsStay
  <2>2. \A u \in Threads : life[u] = "unborn" => life'[u] = "unborn" \/ BeingCreated(u)'
    <3>1. \A u \in Threads : u = f => BeingCreated(u)'
      BY <1>9
    <3>2. QED
      BY <1>6, <3>1
  <2>3. QED
    BY <1>2, <1>3, <1>6, <2>1, <2>2 DEF Aside
<1>11. ExactStage(t)'
  <2>1. Leq(know[t], C[t])
    BY <1>1, <1>3, <1>4 DEF ExactStage, Complete
  <2>2. Leq(know[t], Join(C[f], C[t]))
    <3>1. Leq(C[t], Join(C[f], C[t])) /\ Join(C[f], C[t]) \in IntRow
      BY <1>1, Typed, JoinFacts, RowFacts
    <3>2. QED
      BY <1>1, <2>1, <3>1, Typed, LeqOrder
  <2>3. Target(t)' = f /\ Owed(t)' = C[t] /\ Counted(t)' = t
    BY <1>3, <1>5 DEF Target, Owed, Merged, Counted, Is
  <2>4. QED
    BY <1>3, <1>4, <1>5, <1>6, <1>7, <2>1, <2>2, <2>3 DEF ExactStage, Complete, Is
<1>12. \A l \in Locks : mode'[t][l] # "none" =>
         life'[t] = "running" /\ Leq(pub'[l], know'[t])
  BY <1>1, <1>3, <1>4, <1>6 DEF HolderKnows
<1>13. QED
  BY <1>1, <1>3, <1>4, <1>8, <1>10, <1>11, <1>12, ExactTogether DEF LocksExact

LEMMA ExitExact ==
  ASSUME Plainly, ReachInv, ReachInv', ExactInv, NEW t \in Threads, Exit(t)
  PROVE  ExactInv'
<1>1. TypeOK /\ TypeOK' /\ ExactStage(t) /\ LocksExact /\ Runs(t)
  BY DEF ReachInv, ExactInv, Exit
<1>2. /\ pc[t] = "idle" /\ life' = [life EXCEPT ![t] = "done"]
      /\ \A l \in Locks : mode[t][l] = "none"
      /\ UNCHANGED <<pc, op, row, value, C, L, R, W, RE, users, mode, know, pub>>
  BY DEF Exit, Runs, handler, epochs
<1>3. life[t] = "running" /\ ~BeingCreated(t)
  BY <1>1, Awake
<1>4. life'[t] = "done" /\ \A u \in Threads : u # t => life'[u] = life[u]
  BY <1>1, <1>2 DEF TypeOK
<1>5. \A u \in Threads : u # t => Still(u)
  BY <1>2 DEF Still
<1>6. Aside(t)
  <2>1. \A f \in Threads : BeingCreated(f) => BeingCreated(f)'
    BY <1>2, <1>5, CreatorsStay
  <2>2. QED
    BY <1>2, <1>3, <1>4, <2>1 DEF Aside
<1>7. ExactStage(t)'
  BY <1>1, <1>2, <1>3 DEF ExactStage, Complete, Is
<1>8. QED
  BY <1>1, <1>2, <1>3, <1>5, <1>6, <1>7, ExactTogether DEF LocksExact

LEMMA JoinThreadExact ==
  ASSUME Plainly, ReachInv, ReachInv', ExactInv, NEW t \in Threads, JoinThread(t)
  PROVE  ExactInv'
<1>1. /\ TypeOK /\ TypeOK' /\ LocksExact /\ HolderKnows /\ Runs(t)
      /\ \A f \in Threads : ReachStage(f) /\ ExactStage(f)
  BY DEF ReachInv, ExactInv, JoinThread
<1>2. PICK f \in Threads :
        /\ life[f] = "done" /\ know[f][f] < MaxTicks /\ life' = [life EXCEPT ![f] = "joined"]
        /\ know' = [know EXCEPT ![t] = Join(@, know[f])]
        /\ Enter(t, "onDestroy", f, "load")
  BY DEF JoinThread
<1>3. pc[t] = "idle" /\ UNCHANGED <<C, L, R, W, RE, users, mode, pub>>
  BY DEF JoinThread, Runs, epochs
<1>4. life[t] = "running" /\ ~BeingCreated(t) /\ f # t
  BY <1>1, <1>2, Awake
<1>5. /\ op'[t] = [what |-> "onDestroy", arg |-> f] /\ pc'[t] = "load"
      /\ \A u \in Threads : u # t => op'[u] = op[u] /\ pc'[u] = pc[u]
      /\ row' = row /\ value' = value
  BY <1>1, <1>2 DEF Enter, Goto, TypeOK
<1>6. /\ life'[f] = "joined" /\ \A u \in Threads : u # f => life'[u] = life[u]
      /\ know'[t] = Join(know[t], know[f]) /\ \A u \in Threads : u # t => know'[u] = know[u]
  BY <1>1, <1>2 DEF TypeOK
<1>7. Leq(know[t], C[t]) /\ Leq(know[f], C[f])
  <2>1. pc[f] = "idle" /\ ~BeingCreated(f)
    BY <1>1, <1>2, CreatedWaits DEF ReachStage
  <2>2. QED
    BY <1>1, <1>2, <1>3, <1>4, <2>1 DEF ExactStage, Complete
<1>8. \A u \in Threads : u # t => Still(u)
  BY <1>3, <1>5 DEF Still
<1>9. Aside(t)
  <2>1. \A u \in Threads : BeingCreated(u) => BeingCreated(u)'
    BY <1>3, <1>8, CreatorsStay
  <2>2. QED
    BY <1>2, <1>3, <1>4, <1>6, <2>1 DEF Aside
<1>10. ExactStage(t)'
  <2>1. Leq(know'[t], Join(C[t], C[f]))
    BY <1>1, <1>6, <1>7, Typed, JoinGrows
  <2>2. Target(t)' = t /\ Owed(t)' = C[f] /\ Counted(t)' = f
    BY <1>3, <1>5 DEF Target, Owed, Merged, Counted, Is
  <2>3. know'[f] = know[f]
    BY <1>4, <1>6
  <2>4. QED
    BY <1>2, <1>3, <1>5, <1>7, <2>1, <2>2, <2>3 DEF ExactStage, Complete, Is
<1>11. Leq(know[t], know'[t])
  BY <1>1, <1>6, Typed, JoinFacts
<1>12. \A l \in Locks : mode'[t][l] # "none" =>
         life'[t] = "running" /\ Leq(pub'[l], know'[t])
  BY <1>1, <1>3, <1>4, <1>6, <1>11, Typed, TypedNext, LeqOrder DEF HolderKnows
<1>13. QED
  BY <1>1, <1>3, <1>4, <1>8, <1>9, <1>10, <1>12, ExactTogether DEF LocksExact

(* Loads and stores do not touch rows. *)
LEMMA AccessExact ==
  ASSUME Plainly, ReachInv, ReachInv', ExactInv, NEW t \in Threads, OnLoad(t) \/ OnStore(t)
  PROVE  ExactInv'
<1>1. UNCHANGED <<pc, op, row, value, C, L, life, mode, know, pub>>
  BY DEF OnLoad, OnStore, handler, program
<1>2. QED
  BY <1>1 DEF ExactInv, HolderKnows, LocksExact, ExactStage, Complete, BeingCreated, Is,
     Target, Owed, Merged, Counted

LEMMA InitExact == Init => ExactInv
<1> SUFFICES ASSUME Init PROVE ExactInv
  OBVIOUS
<1>1. /\ \A t \in Threads : /\ pc[t] = "idle" /\ op[t] = NoOp /\ C[t] = Zero /\ know[t] = Zero
                           /\ \A l \in Locks : mode[t][l] = "none"
      /\ \A l \in Locks : L[l] = Zero /\ pub[l] = Zero
  BY DEF Init
<1>2. Leq(Zero, Zero)
  BY RowFacts
<1>3. QED
  BY <1>1, <1>2 DEF ExactInv, HolderKnows, LocksExact, ExactStage, Complete, Is, NoOp

(* With no waits, new threads that wait for their onCreate and clocks that *)
(* stay below their top, the strengthening of OrderKept and ClockExact     *)
(* holds at every step of every handler (fast_track.txt, lines 16-22 and   *)
(* 64-72): nothing a handler owes to a row is lost on its way.             *)
THEOREM ExactHolds ==
  ASSUME Plainly
  PROVE  Spec => []ExactInv
<1>1. ASSUME ReachInv, ReachInv', ExactInv, [Next]_vars PROVE ExactInv'
  <2>1. CASE Next
    <3>1. PICK t \in Threads :
            \/ LoadRow(t) \/ StoreRow(t) \/ LoadTick(t) \/ StoreTick(t)
            \/ Acquire(t) \/ OnUnlock(t) \/ Release(t) \/ Wait(t) \/ Wake(t)
            \/ Create(t) \/ Exit(t) \/ JoinThread(t)
            \/ OnLoad(t) \/ OnStore(t)
      BY <2>1 DEF Next
    <3>2. ~Wait(t) /\ ~Wake(t)
      BY <1>1 DEF Wait, Wake, Plainly, ExactInv, ExactStage
    <3>3. QED
      BY <1>1, <3>1, <3>2, LoadRowExact, StoreRowExact, LoadTickExact, StoreTickExact, AcquireExact,
         OnUnlockExact, ReleaseExact, CreateExact, ExitExact, JoinThreadExact, AccessExact
  <2>2. CASE UNCHANGED vars
    <3>1. UNCHANGED <<pc, op, row, value, C, L, life, mode, know, pub>>
      BY <2>2 DEF vars, handler, epochs, program
    <3>2. QED
      BY <1>1, <3>1 DEF ExactInv, HolderKnows, LocksExact, ExactStage, Complete, BeingCreated, Is,
         Target, Owed, Merged, Counted
  <2>3. QED
    BY <1>1, <2>1, <2>2
<1>2. QED
  BY <1>1, ReachHolds, InitExact, PTL DEF Spec

(* No order is lost there but between a reader and who comes after it, for *)
(* any number of threads, mutexes and rwlocks, whichever reader saved the  *)
(* row of the lock last (lines 16-22 and 64-72).                           *)
THEOREM Kept ==
  ASSUME Plainly
  PROVE  Spec => []OrderKept
<1>1. ASSUME ReachInv, ExactInv, NEW t \in Threads, NEW u \in Threads, Runs(t)
      PROVE  know[t][u] <= C[t][u]
  <2>1. life[t] = "running" /\ ~BeingCreated(t) /\ pc[t] = "idle" /\ ExactStage(t)
    BY <1>1, Awake DEF ExactInv, Runs
  <2>2. QED
    BY <2>1 DEF ExactStage, Complete, Leq
<1>2. ReachInv /\ ExactInv => OrderKept
  BY <1>1 DEF OrderKept
<1>3. QED
  BY <1>2, ReachHolds, ExactHolds, PTL

(* With mutexes only a thread outside handlers has exactly the row of what *)
(* happened before it: its clocks are neither too large, which would hide  *)
(* a race, nor too small, which would make one up (lines 16-22, 64-72).    *)
THEOREM Exact ==
  ASSUME Plainly, RWLocks = {}
  PROVE  Spec => []ClockExact
<1>1. ASSUME ClockInv, ReachInv, ExactInv, NEW t \in Threads, Runs(t) PROVE C[t] = know[t]
  <2>1. TypeOK /\ Leq(C[t], know[t])
    BY <1>1 DEF ClockInv, RowsKnown
  <2>2. life[t] = "running" /\ ~BeingCreated(t) /\ pc[t] = "idle" /\ ExactStage(t)
    BY <1>1, Awake DEF ExactInv, Runs
  <2>3. Leq(know[t], C[t])
    BY <2>2 DEF ExactStage, Complete
  <2>4. C[t] \in IntRow /\ know[t] \in IntRow
    BY <2>1, Typed
  <2>5. QED
    BY <2>1, <2>3, <2>4 DEF Leq, IntRow
<1>2. ClockInv /\ ReachInv /\ ExactInv => ClockExact
  BY <1>1 DEF ClockExact
<1>3. Spec => []ClockInv
  BY InvariantHolds
<1>4. QED
  BY <1>2, <1>3, ReachHolds, ExactHolds, PTL

----------------------------------------------------------------------------
(* What the accesses of threads carry *)

Own(u) ==
  /\ ~Counting(u) => C[u][u] = know[u][u]
  /\ \A t \in Threads : pc[t] = "storeTick" /\ Counted(t) = u =>
       value[t] = C[u][u] /\ know[u][u] = value[t] + 1
  /\ pc[u] = "store" /\ Target(u) = u => row[u][u] = C[u][u]

(* A thread is counted up by one handler at a time, and by no other than   *)
(* its own while it runs.                                                  *)
LEMMA OneCounter ==
  ASSUME ReachInv, NEW t \in Threads, NEW u \in Threads,
         pc[t] \in {"loadTick", "storeTick"}
  PROVE  /\ Counted(t) = u /\ t # u => life[u] = "joined" /\ pc[u] = "idle"
         /\ pc[u] \in {"loadTick", "storeTick"} /\ Counted(t) = Counted(u) => t = u
<1>1. ReachStage(t) /\ ReachStage(u) /\ OneJoiner /\ op[t] \in Ops /\ op[u] \in Ops
  BY Typed DEF ReachInv
<1>2. Counted(t) = u /\ t # u => life[u] = "joined" /\ pc[u] = "idle"
  BY <1>1 DEF Counted, ReachStage
<1>3. ASSUME pc[u] \in {"loadTick", "storeTick"}, Counted(t) = Counted(u), t # u PROVE FALSE
  <2>1. Is(t, "onDestroy") \/ Is(u, "onDestroy")
    BY <1>3 DEF Counted
  <2>2. life[t] = "running" /\ life[u] = "running"
    BY <1>1, <1>3 DEF ReachStage
  <2>3. Is(t, "onDestroy") /\ Is(u, "onDestroy")
    BY <1>1, <1>3, <2>1, <2>2 DEF Counted, ReachStage
  <2>4. op[t] = op[u]
    BY <1>1, <1>3, <2>3 DEF Counted, Ops, NoOp, Is
  <2>5. QED
    BY <1>1, <1>3, <2>3, <2>4 DEF OneJoiner
<1>4. QED
  BY <1>2, <1>3

(* Steps that neither load a row nor count leave a thread's own clock as it *)
(* is while they leave its value alone.                                     *)
LEMMA CalmOwn ==
  ASSUME NEW t \in Threads, NEW u \in Threads,
         \A v \in Threads : v # t => Still(v),
         pc[t] # "storeTick", pc'[t] \notin {"store", "storeTick"},
         C'[u][u] = C[u][u], know'[u][u] = know[u][u]
  PROVE  Own(u) => Own(u)'
<1> SUFFICES ASSUME Own(u) PROVE Own(u)'
  OBVIOUS
<1>1. \A v \in Threads : pc'[v] = "storeTick" <=> pc[v] = "storeTick"
  BY DEF Still
<1>2. \A v \in Threads : v # t => Counted(v)' = Counted(v) /\ Target(v)' = Target(v)
  BY DEF Still, Counted, Target, Is
<1>3. Counting(u)' <=> Counting(u)
  BY <1>1, <1>2 DEF Counting
<1>4. ASSUME NEW v \in Threads, pc'[v] = "storeTick", Counted(v)' = u
      PROVE  value'[v] = C'[u][u] /\ know'[u][u] = value'[v] + 1
  <2>1. v # t /\ pc[v] = "storeTick" /\ Counted(v) = u /\ value'[v] = value[v]
    BY <1>1, <1>2, <1>4 DEF Still
  <2>2. QED
    BY <2>1 DEF Own
<1>5. ASSUME pc'[u] = "store", Target(u)' = u PROVE row'[u][u] = C'[u][u]
  <2>1. u # t /\ pc[u] = "store" /\ Target(u) = u /\ row'[u] = row[u]
    BY <1>2, <1>5 DEF Still
  <2>2. QED
    BY <2>1 DEF Own
<1>6. ~Counting(u)' => C'[u][u] = know'[u][u]
  BY <1>3 DEF Own
<1>7. QED
  BY <1>4, <1>5, <1>6 DEF Own

(* A thread that learns from a row nobody is ahead in keeps its own count. *)
LEMMA OwnLearn ==
  ASSUME TypeOK, NEW t \in Threads, NEW u \in Threads, NEW k \in NatRow, Reached(k),
         know' = [know EXCEPT ![t] = Join(@, k)]
  PROVE  know'[u][u] = know[u][u]
<1>1. know[t] \in NatRow /\ know \in [Threads -> [Threads -> Nat]]
  BY Typed DEF TypeOK
<1>2. Join(know[t], k)[t] = know[t][t]
  <2>1. k[t] \in Nat /\ know[t][t] \in Nat /\ k[t] <= know[t][t]
    BY <1>1 DEF NatRow, Reached
  <2>2. QED
    BY <2>1 DEF Join
<1>3. know' = [know EXCEPT ![t] = Join(know[t], k)]
  OBVIOUS
<1>4. know'[t] = Join(know[t], k) /\ \A v \in Threads : v # t => know'[v] = know[v]
  BY <1>1, <1>3
<1>5. QED
  BY <1>2, <1>4

(* The steps of the handlers that change rows or clocks *)
LEMMA LoadRowOwn ==
  ASSUME ReachInv, NEW t \in Threads, NEW u \in Threads, Own(u), LoadRow(t)
  PROVE  Own(u)'
<1>1. TypeOK /\ ReachStage(t) /\ op[t] \in Ops
  BY Typed DEF ReachInv
<1>2. /\ pc[t] = "load" /\ Goto(t, "store") /\ row' = [row EXCEPT ![t] = Join(C[Target(t)], Merged(t))]
      /\ UNCHANGED <<op, value, C, know>>
  BY DEF LoadRow
<1>3. pc'[t] = "store" /\ \A v \in Threads : v # t => pc'[v] = pc[v]
  BY <1>1, <1>2, GotoFacts DEF Labels
<1>4. \A v \in Threads : Counted(v)' = Counted(v) /\ Target(v)' = Target(v)
  BY <1>2 DEF Counted, Target, Is
<1>5. Counting(u)' <=> Counting(u)
  BY <1>2, <1>3, <1>4 DEF Counting
<1>6. ASSUME NEW v \in Threads, pc'[v] = "storeTick", Counted(v)' = u
      PROVE  value'[v] = C'[u][u] /\ know'[u][u] = value'[v] + 1
  <2>1. pc[v] = "storeTick" /\ Counted(v) = u
    BY <1>3, <1>4, <1>6
  <2>2. QED
    BY <1>2, <2>1 DEF Own
<1>7. ASSUME pc'[u] = "store", Target(u)' = u PROVE row'[u][u] = C'[u][u]
  <2>1. CASE u # t
    <3>1. pc[u] = "store" /\ Target(u) = u /\ row'[u] = row[u]
      BY <1>1, <1>2, <1>3, <1>4, <1>7, <2>1 DEF TypeOK
    <3>2. QED
      BY <1>2, <3>1 DEF Own
  <2>2. CASE u = t
    <3>1. ~Counting(u)
      <4>1. ASSUME NEW v \in Threads, pc[v] = "storeTick", Counted(v) = u PROVE FALSE
        BY <1>2, <2>2, <4>1, OneCounter
      <4>2. QED
        BY <4>1 DEF Counting
    <3>2. C[u][u] = know[u][u] /\ row'[u] = Join(C[u], Merged(u))
      BY <1>1, <1>2, <1>4, <1>7, <2>2, <3>1 DEF Own, TypeOK
    <3>3. Merged(u) \in IntRow /\ C[u] \in IntRow /\ Reached(Merged(u))
      BY <1>1, <1>2, <2>2, MergedReached, RowFacts, Typed
    <3>4. Merged(u)[u] \in Int /\ C[u][u] \in Int /\ Merged(u)[u] <= C[u][u]
      BY <3>2, <3>3 DEF Reached, IntRow
    <3>5. Join(C[u], Merged(u))[u] = C[u][u]
      BY <3>4 DEF Join
    <3>6. QED
      BY <1>2, <3>2, <3>5
  <2>3. QED
    BY <2>1, <2>2
<1>8. ~Counting(u)' => C'[u][u] = know'[u][u]
  BY <1>2, <1>5 DEF Own
<1>9. QED
  BY <1>6, <1>7, <1>8 DEF Own

LEMMA StoreRowOwn ==
  ASSUME ReachInv, NEW t \in Threads, NEW u \in Threads, Own(u), StoreRow(t), ~Overwritten(u)
  PROVE  Own(u)'
<1>1. TypeOK /\ op[t] \in Ops
  BY Typed DEF ReachInv
<1>2. /\ pc[t] = "store" /\ C' = [C EXCEPT ![Target(t)] = row[t]]
      /\ UNCHANGED <<row, value, mode, know>>
      /\ Leave(t) \/ (Goto(t, "loadTick") /\ op' = op)
  BY DEF StoreRow, program, Leave
<1>3. /\ pc'[t] \in {"idle", "loadTick"}
      /\ \A v \in Threads : v # t => pc'[v] = pc[v] /\ op'[v] = op[v]
  BY <1>1, <1>2, LeaveFacts, GotoFacts DEF Labels
<1>4. \A v \in Threads : v # t => Still(v)
  BY <1>2, <1>3 DEF Still
<1>5. C'[u][u] = C[u][u]
  <2>1. CASE Target(t) # u
    BY <1>1, <1>2, <2>1 DEF TypeOK
  <2>2. CASE Target(t) = u /\ t # u
    BY <1>2, <1>3, <2>2 DEF Overwritten
  <2>3. CASE Target(t) = u /\ t = u
    <3>1. C'[u] = row[u]
      BY <1>1, <1>2, <2>3 DEF TypeOK
    <3>2. row[u][u] = C[u][u]
      BY <1>2, <2>3 DEF Own
    <3>3. QED
      BY <3>1, <3>2
  <2>4. QED
    BY <2>1, <2>2, <2>3
<1>6. QED
  BY <1>2, <1>3, <1>4, <1>5, CalmOwn

LEMMA LoadTickOwn ==
  ASSUME ReachInv, NEW t \in Threads, NEW u \in Threads, Own(u), LoadTick(t)
  PROVE  Own(u)'
<1> DEFINE c == Counted(t)
<1>1. TypeOK /\ op[t] \in Ops
  BY Typed DEF ReachInv
<1>2. /\ pc[t] = "loadTick" /\ Goto(t, "storeTick") /\ value' = [value EXCEPT ![t] = C[c][c]]
      /\ know' = [know EXCEPT ![c][c] = @ + 1]
      /\ UNCHANGED <<op, row, C>>
  BY DEF LoadTick
<1>3. c \in Threads /\ c = Counted(t)'
  BY <1>1, <1>2, Roles DEF Counted, Is
<1> HIDE DEF c
<1>4. pc'[t] = "storeTick" /\ \A v \in Threads : v # t => pc'[v] = pc[v]
  BY <1>1, <1>2, GotoFacts DEF Labels
<1>5. \A v \in Threads : Counted(v)' = Counted(v) /\ Target(v)' = Target(v)
  BY <1>2 DEF Counted, Target, Is
<1>6. /\ value'[t] = C[c][c] /\ \A v \in Threads : v # t => value'[v] = value[v]
      /\ know'[u][u] = IF u = c THEN know[u][u] + 1 ELSE know[u][u]
  BY <1>1, <1>2, <1>3 DEF TypeOK
<1>7. ASSUME pc'[u] = "store", Target(u)' = u PROVE row'[u][u] = C'[u][u]
  <2>1. pc[u] = "store" /\ Target(u) = u
    BY <1>4, <1>5, <1>7
  <2>2. QED
    BY <1>2, <2>1 DEF Own
<1>8. CASE u = c
  <2>1. \A v \in Threads : pc[v] = "storeTick" => Counted(v) # u
    BY <1>2, <1>3, <1>5, <1>8, OneCounter
  <2>2. C[u][u] = know[u][u]
    BY <2>1 DEF Own, Counting
  <2>3. \A v \in Threads : pc'[v] = "storeTick" /\ Counted(v)' = u => v = t
    BY <1>4, <1>5, <2>1
  <2>4. Counting(u)'
    BY <1>3, <1>4, <1>8 DEF Counting
  <2>5. value'[t] = C'[u][u] /\ know'[u][u] = value'[t] + 1
    BY <1>2, <1>6, <1>8, <2>2
  <2>6. QED
    BY <1>7, <2>3, <2>4, <2>5 DEF Own
<1>9. CASE u # c
  <2>1. \A v \in Threads : pc'[v] = "storeTick" /\ Counted(v)' = u =>
          v # t /\ pc[v] = "storeTick" /\ Counted(v) = u
    BY <1>3, <1>4, <1>5, <1>9
  <2>2. ASSUME NEW v \in Threads, pc'[v] = "storeTick", Counted(v)' = u
        PROVE  value'[v] = C'[u][u] /\ know'[u][u] = value'[v] + 1
    <3>1. value[v] = C[u][u] /\ know[u][u] = value[v] + 1
      BY <2>1, <2>2 DEF Own
    <3>2. QED
      BY <1>2, <1>6, <1>9, <2>1, <2>2, <3>1
  <2>3. Counting(u) => Counting(u)'
    BY <1>2, <1>4, <1>5 DEF Counting
  <2>4. ~Counting(u)' => C'[u][u] = know'[u][u]
    BY <1>2, <1>6, <1>9, <2>3 DEF Own
  <2>5. QED
    BY <1>7, <2>2, <2>4 DEF Own
<1>10. QED
  BY <1>8, <1>9

LEMMA StoreTickOwn ==
  ASSUME ReachInv, NEW t \in Threads, NEW u \in Threads, Own(u), know[u][u] <= Top, StoreTick(t)
  PROVE  Own(u)'
<1> DEFINE c == Counted(t)
           new == [C[c] EXCEPT ![c] = Inc(value[t])]
<1>1. TypeOK /\ op[t] \in Ops /\ value[t] \in Int
  BY Typed DEF ReachInv
<1>2. /\ pc[t] = "storeTick" /\ C' = [C EXCEPT ![c] = new]
      /\ UNCHANGED <<row, value, know, mode>>
      /\ Leave(t) \/ (Goto(t, "release") /\ op' = op)
  BY DEF StoreTick, program, Leave
<1>3. c \in Threads
  BY <1>1, Roles
<1>4. new = [C[c] EXCEPT ![c] = Inc(value[t])]
  OBVIOUS
<1>5. Counted(t) = c
  OBVIOUS
<1> HIDE DEF c, new
<1>6. /\ pc'[t] \in {"idle", "release"}
      /\ \A v \in Threads : v # t => pc'[v] = pc[v] /\ op'[v] = op[v]
  BY <1>1, <1>2, LeaveFacts, GotoFacts DEF Labels
<1>7. \A v \in Threads : v # t => Counted(v)' = Counted(v) /\ Target(v)' = Target(v)
  BY <1>6 DEF Counted, Target, Is
<1>8. C[c] \in Row /\ C' = [C EXCEPT ![c] = new] /\ C \in [Threads -> Row]
  BY <1>1, <1>2, <1>3 DEF TypeOK
<1>9. CASE u = c
  <2>1. value[t] = C[u][u] /\ know[u][u] = value[t] + 1
    BY <1>2, <1>5, <1>9 DEF Own
  <2>2. Inc(value[t]) = know[u][u]
    BY <1>1, <2>1, FastTrackAssumption DEF Inc
  <2>3. C'[u] = new /\ new[u] = Inc(value[t])
    BY <1>3, <1>4, <1>8, <1>9 DEF Row
  <2>4. \A v \in Threads : pc'[v] = "storeTick" => Counted(v)' # u
    BY <1>2, <1>5, <1>6, <1>7, <1>9, OneCounter
  <2>5. pc'[u] # "store"
    BY <1>2, <1>5, <1>6, <1>9, OneCounter
  <2>6. QED
    BY <1>2, <2>2, <2>3, <2>4, <2>5 DEF Own
<1>10. CASE u # c
  <2>1. C'[u] = C[u]
    BY <1>3, <1>8, <1>10
  <2>2. \A v \in Threads : pc'[v] = "storeTick" /\ Counted(v)' = u =>
          pc[v] = "storeTick" /\ Counted(v) = u
    BY <1>6, <1>7
  <2>3. \A v \in Threads : pc[v] = "storeTick" /\ Counted(v) = u => v # t
    BY <1>5, <1>10
  <2>4. Counting(u) => Counting(u)'
    BY <1>6, <1>7, <2>3 DEF Counting
  <2>5. ~Counting(u)' => C'[u][u] = know'[u][u]
    BY <1>2, <2>1, <2>4 DEF Own
  <2>6. \A v \in Threads : pc'[v] = "storeTick" /\ Counted(v)' = u =>
          value'[v] = C'[u][u] /\ know'[u][u] = value'[v] + 1
    BY <1>2, <2>1, <2>2 DEF Own
  <2>7. pc'[u] = "store" /\ Target(u)' = u => row'[u][u] = C'[u][u]
    BY <1>2, <1>6, <1>7, <2>1 DEF Own
  <2>8. QED
    BY <2>5, <2>6, <2>7 DEF Own
<1>11. QED
  BY <1>9, <1>10

(* The steps of the program and the accesses: they let no handler count *)
LEMMA ProgramOwn ==
  ASSUME ReachInv, NEW t \in Threads, NEW u \in Threads,
         \/ Acquire(t) \/ OnUnlock(t) \/ Release(t) \/ Wait(t) \/ Wake(t)
         \/ Create(t) \/ Exit(t) \/ JoinThread(t) \/ OnLoad(t) \/ OnStore(t)
  PROVE  know'[u][u] = know[u][u] /\ (Own(u) => Own(u)')
<1>1. /\ TypeOK /\ op[t] \in Ops /\ \A f \in Threads : Reached(know[f]) /\ ReachStage(f)
      /\ \A l \in Locks : Reached(pub[l])
  BY Typed DEF ReachInv
<1>2. CASE Acquire(t)
  <2>1. PICK l \in Locks, m \in {"read", "write"} :
          /\ mode' = [mode EXCEPT ![t][l] = m]
          /\ know' = [know EXCEPT ![t] = Join(@, pub[l])]
          /\ Enter(t, "onLock", l, "load")
    BY <1>2 DEF Acquire
  <2>2. pc[t] = "idle" /\ C' = C
    BY <1>2 DEF Acquire, Runs
  <2>3. know'[u][u] = know[u][u]
    BY <1>1, <2>1, Typed, OwnLearn
  <2>4. /\ pc'[t] = "load" /\ row' = row /\ value' = value
        /\ \A v \in Threads : v # t => op'[v] = op[v] /\ pc'[v] = pc[v]
    BY <1>1, <2>1, EnterFacts DEF Ops, Labels
  <2>5. \A v \in Threads : v # t => mode'[v] = mode[v]
    BY <1>1, <2>1 DEF TypeOK
  <2>6. \A v \in Threads : v # t => Still(v)
    BY <2>4, <2>5 DEF Still
  <2>7. QED
    BY <2>2, <2>3, <2>4, <2>6, CalmOwn
<1>3. CASE OnUnlock(t)
  <2>1. PICK l \in Locks : Enter(t, "onUnlock", l, "loadTick")
    BY <1>3 DEF OnUnlock
  <2>2. pc[t] = "idle" /\ C' = C /\ know' = know /\ mode' = mode
    BY <1>3 DEF OnUnlock, Runs, program
  <2>3. /\ pc'[t] = "loadTick" /\ row' = row /\ value' = value
        /\ \A v \in Threads : v # t => op'[v] = op[v] /\ pc'[v] = pc[v]
    BY <1>1, <2>1, EnterFacts DEF Ops, Labels
  <2>4. \A v \in Threads : v # t => Still(v)
    BY <2>2, <2>3 DEF Still
  <2>5. QED
    BY <2>2, <2>3, <2>4, CalmOwn
<1>4. CASE Release(t)
  <2>1. /\ pc[t] = "release" /\ mode' = [mode EXCEPT ![t][op[t].arg] = "none"] /\ Leave(t)
        /\ C' = C /\ know' = know
    BY <1>4 DEF Release
  <2>2. /\ pc'[t] = "idle" /\ row' = row /\ value' = value
        /\ \A v \in Threads : v # t => op'[v] = op[v] /\ pc'[v] = pc[v]
    BY <1>1, <2>1, LeaveFacts
  <2>3. \A v \in Threads : v # t => mode'[v] = mode[v]
    BY <1>1, <2>1 DEF TypeOK
  <2>4. \A v \in Threads : v # t => Still(v)
    BY <2>2, <2>3 DEF Still
  <2>5. QED
    BY <2>1, <2>2, <2>4, CalmOwn
<1>5. CASE Wait(t)
  <2>1. PICK l \in Locks : mode' = [mode EXCEPT ![t][l] = "none"] /\ Enter(t, "wake", l, "wake")
    BY <1>5, FastTrackAssumption DEF Wait, Locks
  <2>2. pc[t] = "idle" /\ C' = C /\ know' = know
    BY <1>5 DEF Wait, Runs
  <2>3. /\ pc'[t] = "wake" /\ row' = row /\ value' = value
        /\ \A v \in Threads : v # t => op'[v] = op[v] /\ pc'[v] = pc[v]
    BY <1>1, <2>1, EnterFacts DEF Ops, Labels
  <2>4. \A v \in Threads : v # t => mode'[v] = mode[v]
    BY <1>1, <2>1 DEF TypeOK
  <2>5. \A v \in Threads : v # t => Still(v)
    BY <2>3, <2>4 DEF Still
  <2>6. QED
    BY <2>2, <2>3, <2>5, CalmOwn
<1>6. CASE Wake(t)
  <2>1. /\ pc[t] = "wake" /\ mode' = [mode EXCEPT ![t][op[t].arg] = "write"] /\ Leave(t)
        /\ know' = [know EXCEPT ![t] = Join(@, pub[op[t].arg])] /\ C' = C
    BY <1>6 DEF Wake
  <2>2. op[t].arg \in Locks
    BY <1>1, <2>1, OpArg DEF ReachStage, Is
  <2>3. know'[u][u] = know[u][u]
    BY <1>1, <2>1, <2>2, Typed, OwnLearn
  <2>4. /\ pc'[t] = "idle" /\ row' = row /\ value' = value
        /\ \A v \in Threads : v # t => op'[v] = op[v] /\ pc'[v] = pc[v]
    BY <1>1, <2>1, LeaveFacts
  <2>5. \A v \in Threads : v # t => mode'[v] = mode[v]
    BY <1>1, <2>1 DEF TypeOK
  <2>6. \A v \in Threads : v # t => Still(v)
    BY <2>4, <2>5 DEF Still
  <2>7. QED
    BY <2>1, <2>3, <2>4, <2>6, CalmOwn
<1>7. CASE Create(t)
  <2>1. PICK f \in Threads :
          /\ life[f] = "unborn" /\ know' = [know EXCEPT ![f] = know[t]]
          /\ Enter(t, "onCreate", f, "load")
    BY <1>7 DEF Create
  <2>2. pc[t] = "idle" /\ C' = C /\ mode' = mode
    BY <1>7 DEF Create, Runs
  <2>3. know'[u][u] = know[u][u]
    <3>1. know[f][f] = 0 /\ know[t][f] \in Nat /\ know[t][f] <= know[f][f]
      BY <1>1, <2>1 DEF ReachStage, Reached, TypeOK
    <3>2. know'[f] = know[t] /\ \A v \in Threads : v # f => know'[v] = know[v]
      BY <1>1, <2>1 DEF TypeOK
    <3>3. QED
      BY <3>1, <3>2
  <2>4. /\ pc'[t] = "load" /\ row' = row /\ value' = value
        /\ \A v \in Threads : v # t => op'[v] = op[v] /\ pc'[v] = pc[v]
    BY <1>1, <2>1, EnterFacts DEF Ops, Labels
  <2>5. \A v \in Threads : v # t => Still(v)
    BY <2>2, <2>4 DEF Still
  <2>6. QED
    BY <2>2, <2>3, <2>4, <2>5, CalmOwn
<1>8. CASE JoinThread(t)
  <2>1. PICK f \in Threads :
          /\ know' = [know EXCEPT ![t] = Join(@, know[f])]
          /\ Enter(t, "onDestroy", f, "load")
    BY <1>8 DEF JoinThread
  <2>2. pc[t] = "idle" /\ C' = C /\ mode' = mode
    BY <1>8 DEF JoinThread, Runs
  <2>3. know'[u][u] = know[u][u]
    BY <1>1, <2>1, Typed, OwnLearn
  <2>4. /\ pc'[t] = "load" /\ row' = row /\ value' = value
        /\ \A v \in Threads : v # t => op'[v] = op[v] /\ pc'[v] = pc[v]
    BY <1>1, <2>1, EnterFacts DEF Ops, Labels
  <2>5. \A v \in Threads : v # t => Still(v)
    BY <2>2, <2>4 DEF Still
  <2>6. QED
    BY <2>2, <2>3, <2>4, <2>5, CalmOwn
<1>9. CASE Exit(t) \/ OnLoad(t) \/ OnStore(t)
  <2>1. pc[t] = "idle" /\ UNCHANGED <<pc, op, row, value, C, mode, know>>
    BY <1>9 DEF Exit, OnLoad, OnStore, Runs, handler, program
  <2>2. \A v \in Threads : Still(v)
    BY <2>1 DEF Still
  <2>3. QED
    BY <2>1, <2>2, CalmOwn
<1>10. QED
  BY <1>2, <1>3, <1>4, <1>5, <1>6, <1>7, <1>8, <1>9

(* A thread that no creator's row has reached and whose clock has not      *)
(* wrapped has its count for its clock but while a handler counts it up.   *)
LEMMA OwnClocksStep ==
  ASSUME ReachInv, ReachInv', OwnClocks, Next /\ Observe
  PROVE  OwnClocks'
<1>1. PICK t \in Threads :
        \/ LoadRow(t) \/ StoreRow(t) \/ LoadTick(t) \/ StoreTick(t)
        \/ Acquire(t) \/ OnUnlock(t) \/ Release(t) \/ Wait(t) \/ Wake(t)
        \/ Create(t) \/ Exit(t) \/ JoinThread(t)
        \/ OnLoad(t) \/ OnStore(t)
  BY DEF Next
<1>2. ASSUME NEW u \in Threads, Trusted(u)' PROVE Own(u)'
  <2>1. ~Overwritten(u) /\ u \notin spoilt
    BY <1>2 DEF Trusted, Observe
  <2>2. know[u][u] <= Top
    <3>1. know[u][u] \in Nat /\ know'[u][u] \in Nat /\ Top \in Nat
      BY OwnClock, OwnClockNext, FastTrackAssumption DEF ReachInv
    <3>2. know[u][u] <= know'[u][u]
      <4>1. CASE LoadTick(t)
        <5> DEFINE c == Counted(t)
        <5>1. c \in Threads /\ know' = [know EXCEPT ![c][c] = @ + 1]
          BY <4>1, Roles, Typed DEF LoadTick, ReachInv
        <5> HIDE DEF c
        <5>2. QED
          BY <3>1, <5>1 DEF ReachInv, TypeOK
      <4>2. CASE LoadRow(t) \/ StoreRow(t) \/ StoreTick(t)
        BY <3>1, <4>2 DEF LoadRow, StoreRow, StoreTick
      <4>3. QED
        BY <1>1, <3>1, <4>1, <4>2, ProgramOwn
    <3>3. QED
      BY <1>2, <3>1, <3>2 DEF Trusted
  <2>3. Own(u)
    BY <2>1, <2>2 DEF OwnClocks, Own, Trusted
  <2>4. QED
    BY <1>1, <2>1, <2>2, <2>3, LoadRowOwn, StoreRowOwn, LoadTickOwn, StoreTickOwn, ProgramOwn
<1>3. QED
  BY <1>2 DEF OwnClocks, Own

(* A thread outside handlers is not counted up, and stamps truly. *)
LEMMA StampsStep ==
  ASSUME ReachInv', OwnClocks', StampsTrue, Observe
  PROVE  StampsTrue'
<1>1. TypeOK' /\ \A u \in Threads : ReachStage(u)' /\ C'[u][u] \in Clocks /\ know'[u][u] \in Nat
  BY OwnClockNext DEF ReachInv, TypeOK, Row
<1>2. ASSUME NEW u \in Threads, Runs(u)', Trusted(u)' PROVE C'[u][u] = know'[u][u]
  <2>1. pc'[u] = "idle" /\ life'[u] = "running"
    BY <1>2 DEF Runs
  <2>2. ASSUME NEW v \in Threads, pc'[v] = "storeTick", Counted(v)' = u PROVE FALSE
    BY <1>1, <2>1, <2>2 DEF ReachStage, Counted
  <2>3. QED
    BY <1>2, <2>2 DEF OwnClocks, Counting
<1>3. ASSUME NEW u \in Threads, NEW s \in stamps'[u], s \notin stamps[u]
      PROVE  /\ s \in [clock : Clocks, count : Nat, spoilt : BOOLEAN]
             /\ ~s.spoilt /\ s.count <= Top => s.clock = s.count
  <2> DEFINE b == u \in spoilt'
  <2>1. b \in BOOLEAN /\ (~b /\ know'[u][u] <= Top => Trusted(u)')
    BY DEF Trusted
  <2>2. Runs(u)' /\ s = [clock |-> C'[u][u], count |-> know'[u][u], spoilt |-> b]
    <3>1. u \in Threads => stamps'[u] = stamps[u] \cup IF Runs(u)' THEN {Stamp(u)'} ELSE {}
      BY Zenon DEF Observe
    <3>2. Runs(u)' /\ s = Stamp(u)'
      BY <1>3, <3>1
    <3>3. QED
      BY <3>2 DEF Stamp
  <2> HIDE DEF b
  <2>3. s.spoilt = b /\ s.clock = C'[u][u] /\ s.count = know'[u][u]
    BY <2>2
  <2>4. s \in [clock : Clocks, count : Nat, spoilt : BOOLEAN]
    BY <1>1, <2>1, <2>2
  <2>5. ~s.spoilt /\ s.count <= Top => s.clock = s.count
    BY <1>2, <2>1, <2>2, <2>3
  <2>6. QED
    BY <2>4, <2>5
<1>4. QED
  BY <1>3 DEF StampsTrue

LEMMA OrderBegins == OrderInit => OwnClocks /\ StampsTrue
<1> SUFFICES ASSUME OrderInit PROVE OwnClocks /\ StampsTrue
  OBVIOUS
<1>1. \A u \in Threads : pc[u] = "idle" /\ C[u][u] = 0 /\ know[u][u] = 0
  BY DEF OrderInit, Init, Zero
<1>2. OwnClocks
  BY <1>1 DEF OwnClocks, Counting
<1>3. ASSUME NEW u \in Threads, NEW s \in stamps[u]
      PROVE  s \in [clock : Clocks, count : Nat, spoilt : BOOLEAN] /\ s.clock = s.count
  <2> DEFINE b == u \in spoilt
  <2>1. b \in BOOLEAN
    OBVIOUS
  <2>2. s = [clock |-> C[u][u], count |-> know[u][u], spoilt |-> b]
    <3>1. stamps[u] = IF Runs(u) THEN {Stamp(u)} ELSE {}
      BY Zenon DEF OrderInit
    <3>2. s = Stamp(u)
      BY <1>3, <3>1
    <3>3. QED
      BY <3>2 DEF Stamp
  <2> HIDE DEF b
  <2>3. s = [clock |-> 0, count |-> 0, spoilt |-> b] /\ 0 \in Clocks
    BY <1>1, <2>2, ClockFacts
  <2>4. QED
    BY <2>1, <2>3
<1>4. StampsTrue
  BY <1>3 DEF StampsTrue
<1>5. QED
  BY <1>2, <1>4

(* The observer only watches. *)
LEMMA Watched == OrderSpec => Spec
<1>1. OrderInit => Init
  BY DEF OrderInit
<1>2. [OrderNext]_observed => [Next]_vars
  BY DEF observed, OrderNext
<1>3. QED
  BY <1>1, <1>2, PTL DEF OrderSpec, Spec

(* The invariant of the observer: what a thread's accesses carry is the    *)
(* count of what it has published, whatever handlers race on its row, as   *)
(* long as no creator overwrites it and it does not wrap (lines 5-8,       *)
(* 16-22 and 64-72).                                                       *)
THEOREM OrderHolds ==
  ASSUME RWLocks = {}
  PROVE  OrderSpec => []OrderInv
<1>1. OrderSpec => [](ClockInv /\ ReachInv)
  <2>1. Spec => []ClockInv
    BY InvariantHolds
  <2>2. QED
    BY <2>1, ReachHolds, Watched, PTL
<1>2. ASSUME ReachInv, ReachInv', OwnClocks, StampsTrue, [OrderNext]_observed
      PROVE  OwnClocks' /\ StampsTrue'
  <2>1. CASE Next /\ Observe
    BY <1>2, <2>1, OwnClocksStep, StampsStep
  <2>2. CASE UNCHANGED observed
    <3>1. UNCHANGED <<pc, op, row, value, C, know, stamps, spoilt>>
      BY <2>2 DEF observed, vars, handler
    <3>2. QED
      BY <1>2, <3>1 DEF OwnClocks, StampsTrue, Trusted, Counting, Counted, Target, Is
  <2>3. QED
    BY <1>2, <2>1, <2>2 DEF OrderNext
<1>3. OrderSpec => [](OwnClocks /\ StampsTrue)
  BY <1>1, <1>2, OrderBegins, PTL DEF OrderSpec
<1>4. ClockInv /\ ReachInv /\ OwnClocks /\ StampsTrue <=> OrderInv
  BY DEF OrderInv
<1>5. QED
  BY <1>1, <1>3, <1>4, PTL

(* The analysis never invents an order, for any number of threads, set of  *)
(* mutexes and width of the clocks: where a thread's row covers the stamp  *)
(* of another's access, the program ordered that access before it, but for *)
(* accesses made after a clock has wrapped (line 21) or a creator has      *)
(* overwritten it (lines 64-67).                                           *)
THEOREM Sound ==
  ASSUME RWLocks = {}
  PROVE  OrderSpec => []NoOrderInvented
<1>1. ASSUME OrderInv, NEW t \in Threads, NEW u \in Threads, NEW s \in stamps[u],
             ~s.spoilt, s.count <= Top, s.clock <= C[t][u]
      PROVE  s.count <= know[t][u]
  <2>1. s.clock = s.count /\ s.count \in Nat
    BY <1>1 DEF OrderInv, StampsTrue
  <2>2. C[t][u] \in Int /\ know[t][u] \in Int /\ C[t][u] <= know[t][u]
    BY <1>1, Typed, LeqAt DEF OrderInv, ClockInv, RowsKnown
  <2>3. QED
    BY <1>1, <2>1, <2>2
<1>2. OrderInv => NoOrderInvented
  BY <1>1 DEF NoOrderInvented
<1>3. QED
  BY <1>2, OrderHolds, PTL
=============================================================================
