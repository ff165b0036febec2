---------------------------- MODULE EraserProofs ----------------------------
(***************************************************************************)
(* Theorems about Eraser, for every set of threads, locks and addresses    *)
(* and every length of the histories.  The cell of an address is compared  *)
(* with the log of the accesses reported for it; the lemmas of the first   *)
(* part say what one more access does to the counted and the shared part   *)
(* of a log.                                                               *)
(***************************************************************************)
EXTENDS Eraser, TLAPS

(* z is s with one more access at its end. *)
Extended(s, e, z) == z = Append(s, e)

LEMMA AppendFacts ==
  ASSUME NEW s \in Seq(Entries), NEW e \in Entries, NEW z, Extended(s, e, z)
  PROVE  /\ z \in Seq(Entries) /\ Len(s) \in Nat /\ Len(z) = Len(s) + 1
         /\ \A n \in 1 .. Len(s) : z[n] = s[n]
         /\ z[Len(s) + 1] = e
BY DEF Extended

(* An access counts as soon as one before it, or itself, is a store. *)
LEMMA CountedAppend ==
  ASSUME NEW s \in Seq(Entries), NEW e \in Entries, NEW z, Extended(s, e, z)
  PROVE  Counted(z) = Counted(s) \cup
                      (IF Counted(s) # {} \/ e.kind = "store" THEN {Len(s) + 1} ELSE {})
<1> DEFINE N == Len(s) + 1
<1>1. /\ Len(s) \in Nat /\ Len(z) = N
      /\ \A n \in 1 .. Len(s) : z[n] = s[n]
      /\ z[N] = e
  BY AppendFacts
<1> HIDE DEF N
<1>n. N = Len(s) + 1
  BY DEF N
<1>2. ASSUME NEW n \in 1 .. Len(s) PROVE n \in Counted(z) <=> n \in Counted(s)
  BY <1>1, <1>n DEF Counted
<1>3. N \in Counted(z) <=> Counted(s) # {} \/ e.kind = "store"
  <2>1. Counted(s) # {} <=> \E m \in 1 .. Len(s) : s[m].kind = "store"
    BY <1>1 DEF Counted
  <2>2. \A m \in 1 .. N : m = N \/ m \in 1 .. Len(s)
    BY <1>1, <1>n
  <2>3. N \in 1 .. N /\ \A m \in 1 .. Len(s) : m \in 1 .. N
    BY <1>1, <1>n
  <2>4. QED
    BY <1>1, <2>1, <2>2, <2>3 DEF Counted
<1>4. Counted(s) \subseteq 1 .. Len(s) /\ Counted(z) \subseteq 1 .. N
  BY <1>1 DEF Counted
<1>5. \A n \in 1 .. N : n = N \/ n \in 1 .. Len(s)
  BY <1>1, <1>n
<1>6. QED
  BY <1>2, <1>3, <1>4, <1>5, <1>n

(* A counted access is shared when two of the counted ones up to it are of *)
(* different threads.                                                      *)
LEMMA SharedAppend ==
  ASSUME NEW s \in Seq(Entries), NEW e \in Entries, NEW z, Extended(s, e, z)
  PROVE  /\ \A n \in 1 .. Len(s) : n \in Shared(z) <=> n \in Shared(s)
         /\ Shared(s) \subseteq 1 .. Len(s)
         /\ Shared(z) \subseteq 1 .. Len(s) + 1
         /\ Len(s) + 1 \in Shared(z) <=>
              /\ Len(s) + 1 \in Counted(z)
              /\ \/ \E m1, m2 \in Counted(s) : s[m1].thread # s[m2].thread
                 \/ \E m \in Counted(s) : s[m].thread # e.thread
<1> DEFINE N == Len(s) + 1
<1>1. /\ Len(s) \in Nat /\ Len(z) = N
      /\ \A n \in 1 .. Len(s) : z[n] = s[n]
      /\ z[N] = e
  BY AppendFacts
<1>2. /\ Counted(s) \subseteq 1 .. Len(s)
      /\ Counted(z) \subseteq 1 .. N
      /\ \A n \in 1 .. Len(s) : n \in Counted(z) <=> n \in Counted(s)
  BY <1>1, CountedAppend DEF Counted
<1> HIDE DEF N
<1>n. N = Len(s) + 1
  BY DEF N
<1>3. ASSUME NEW n \in 1 .. Len(s) PROVE n \in Shared(z) <=> n \in Shared(s)
  <2>1. \A m : m \in Counted(z) /\ m <= n <=> m \in Counted(s) /\ m <= n
    BY <1>1, <1>2, <1>n
  <2>2. \A m \in Counted(s) : z[m] = s[m]
    BY <1>1, <1>2
  <2>3. QED
    BY <1>2, <2>1, <2>2 DEF Shared
<1>4. Shared(s) \subseteq 1 .. Len(s) /\ Shared(z) \subseteq 1 .. N
  BY <1>2 DEF Shared
<1>5. N \in Shared(z) <=>
        N \in Counted(z) /\ \E m1, m2 \in Counted(z) : z[m1].thread # z[m2].thread
  BY <1>1, <1>2, <1>n DEF Shared
<1>6. \A m \in Counted(s) : m \in Counted(z) /\ z[m].thread = s[m].thread
  BY <1>1, <1>2
<1>7. \A m \in Counted(z) : m = N \/ m \in Counted(s)
  BY <1>1, <1>2, <1>n
<1>e. z[N].thread = e.thread
  BY <1>1
<1>8. ASSUME N \in Counted(z)
      PROVE  (\E m1, m2 \in Counted(z) : z[m1].thread # z[m2].thread) <=>
                \/ \E m1, m2 \in Counted(s) : s[m1].thread # s[m2].thread
                \/ \E m \in Counted(s) : s[m].thread # e.thread
  BY <1>6, <1>7, <1>8, <1>e, Zenon
<1>9. QED
  BY <1>3, <1>4, <1>5, <1>8, <1>n

(* While nothing is shared, all counted accesses are of one thread. *)
LEMMA SharedWitness ==
  ASSUME NEW s \in Seq(Entries)
  PROVE  Shared(s) # {} <=> \E m1, m2 \in Counted(s) : s[m1].thread # s[m2].thread
<1>1. ASSUME NEW m1 \in Counted(s), NEW m2 \in Counted(s), s[m1].thread # s[m2].thread
      PROVE  Shared(s) # {}
  <2>1. m1 \in Nat /\ m2 \in Nat
    BY DEF Counted
  <2>2. CASE m1 <= m2
    <3>1. m2 \in Shared(s)
      BY <1>1, <2>1, <2>2 DEF Shared
    <3>2. QED
      BY <3>1
  <2>3. CASE m2 <= m1
    <3>1. m1 \in Shared(s)
      BY <1>1, <2>1, <2>3 DEF Shared
    <3>2. QED
      BY <3>1
  <2>4. QED
    BY <2>1, <2>2, <2>3
<1>2. QED
  BY <1>1 DEF Shared

(* What a cell knows about a log: who shares it and how *)
Follows(T, type, s) ==
  /\ T = Users(s)
  /\ type = 0 <=> Counted(s) = {}
  /\ type > 1 <=> Shared(s) # {}
  /\ type = 3 <=> \E n \in Shared(s) : s[n].kind = "store"

(* One more access: the facts both handlers need *)
LEMMA OneMore ==
  ASSUME NEW s \in Seq(Entries), NEW e \in Entries, NEW z, Extended(s, e, z),
         NEW T, NEW type \in 0 .. 3, Follows(T, type, s)
  PROVE  /\ type # 0 \/ e.kind = "store" =>
              Users(z) = T \cup {e.thread} /\ Counted(z) # {}
         /\ type = 0 /\ e.kind # "store" =>
              Users(z) = T /\ Counted(z) = {}
         /\ type > 1 \/ (type = 1 /\ e.thread \notin T) => Shared(z) = Shared(s) \cup {Len(s) + 1}
         /\ ~(type > 1 \/ (type = 1 /\ e.thread \notin T)) => Shared(z) = Shared(s)
         /\ \A n \in Shared(s) : n \in 1 .. Len(s) /\ z[n] = s[n]
         /\ z[Len(s) + 1] = e
<1> DEFINE N == Len(s) + 1
           counts == type # 0 \/ e.kind = "store"
           shared == type > 1 \/ (type = 1 /\ e.thread \notin T)
<1>1. /\ Len(s) \in Nat /\ Len(z) = N
      /\ \A n \in 1 .. Len(s) : z[n] = s[n]
      /\ z[N] = e
  BY AppendFacts
<1>2. Counted(z) = Counted(s) \cup (IF counts THEN {N} ELSE {})
  BY CountedAppend DEF Follows
<1>3. Counted(s) \subseteq 1 .. Len(s)
  BY DEF Counted
<1>4. Users(z) = IF counts THEN T \cup {e.thread} ELSE T
  <2>1. \A n \in Counted(s) : z[n].thread = s[n].thread
    BY <1>1, <1>3
  <2>2. z[N].thread = e.thread
    BY <1>1
  <2>3. CASE counts
    <3>1. Counted(z) = Counted(s) \cup {N}
      BY <2>3, <1>2
    <3>2. QED
      <4>1. Users(z) = {z[n].thread : n \in Counted(s)} \cup {z[N].thread}
        BY <3>1 DEF Users
      <4>2. {z[n].thread : n \in Counted(s)} = Users(s)
        BY <2>1 DEF Users
      <4>3. QED
        BY <2>2, <2>3, <4>1, <4>2 DEF Follows
  <2>4. CASE ~counts
    <3>1. Counted(z) = Counted(s)
      BY <2>4, <1>2
    <3>2. QED
      BY <2>1, <2>4, <3>1 DEF Users, Follows
  <2>5. QED
    BY <2>3, <2>4
<1>5. Counted(z) = {} <=> ~counts
  BY <1>2 DEF Follows
<1>6. N \in Shared(z) <=> shared
  <2>1. N \in Counted(z) <=> counts
    BY <1>1, <1>2, <1>3
  <2>2. (\E m1, m2 \in Counted(s) : s[m1].thread # s[m2].thread) <=> type > 1
    BY SharedWitness DEF Follows
  <2>3. type = 1 => ((\E m \in Counted(s) : s[m].thread # e.thread) <=> e.thread \notin T)
    <3> SUFFICES ASSUME type = 1
                 PROVE  (\E m \in Counted(s) : s[m].thread # e.thread) <=> e.thread \notin T
      OBVIOUS
    <3>1. PICK m \in Counted(s) : TRUE
      BY DEF Follows
    <3>2. \A k \in Counted(s) : s[k].thread = s[m].thread
      BY <2>2, <3>1
    <3>3. QED
      BY <3>1, <3>2 DEF Follows, Users
  <2>4. type = 0 => ~\E m \in Counted(s) : s[m].thread # e.thread
    BY DEF Follows
  <2>5. N \in Shared(z) <=>
          /\ N \in Counted(z)
          /\ \/ \E m1, m2 \in Counted(s) : s[m1].thread # s[m2].thread
             \/ \E m \in Counted(s) : s[m].thread # e.thread
    BY SharedAppend
  <2>6. CASE type = 0
    BY <2>1, <2>2, <2>4, <2>5, <2>6
  <2>7. CASE type = 1
    BY <2>1, <2>2, <2>3, <2>5, <2>7
  <2>8. CASE type > 1
    BY <2>1, <2>2, <2>5, <2>8
  <2>9. QED
    BY <2>6, <2>7, <2>8
<1>7. Shared(z) = IF shared THEN Shared(s) \cup {N} ELSE Shared(s)
  <2>1. /\ \A n \in 1 .. Len(s) : n \in Shared(z) <=> n \in Shared(s)
        /\ Shared(s) \subseteq 1 .. Len(s)
        /\ Shared(z) \subseteq 1 .. N
    BY SharedAppend
  <2>2. \A n \in 1 .. N : n = N \/ n \in 1 .. Len(s)
    BY <1>1
  <2> HIDE DEF N
  <2>3. CASE shared
    BY <1>6, <2>1, <2>2, <2>3
  <2>4. CASE ~shared
    BY <1>6, <2>1, <2>2, <2>4
  <2>5. QED
    BY <2>3, <2>4
<1>8. \A n \in Shared(s) : n \in 1 .. Len(s) /\ z[n] = s[n]
  BY <1>1, SharedAppend
<1>9. QED
  BY <1>1, <1>4, <1>5, <1>7, <1>8

Loaded(type, new) == IF new /\ type = 1 THEN 2 ELSE type
Joined(T, u, type) == IF u \notin T /\ type # 0 THEN T \cup {u} ELSE T

LEMMA LoadFollows ==
  ASSUME NEW s \in Seq(Entries), NEW e \in Entries, NEW z, Extended(s, e, z), e.kind = "load",
         NEW T, NEW type \in 0 .. 3, Follows(T, type, s)
  PROVE  LET type2 == Loaded(type, e.thread \notin T)
         IN  /\ type2 \in 0 .. 3
             /\ Follows(Joined(T, e.thread, type), type2, z)
             /\ Shared(z) = IF type2 > 1 THEN Shared(s) \cup {Len(s) + 1} ELSE Shared(s)
<1> DEFINE type2 == Loaded(type, e.thread \notin T)
           T2 == Joined(T, e.thread, type)
<1>0. /\ type2 = IF e.thread \notin T /\ type = 1 THEN 2 ELSE type
      /\ T2 = IF e.thread \notin T /\ type # 0 THEN T \cup {e.thread} ELSE T
      /\ type2 \in 0 .. 3
  <2>1. CASE e.thread \notin T
    BY <2>1 DEF Loaded, Joined
  <2>2. CASE e.thread \in T
    BY <2>2 DEF Loaded, Joined
  <2>3. QED
    BY <2>1, <2>2
<1> HIDE DEF type2, T2
<1>1. /\ type # 0 => Users(z) = T \cup {e.thread} /\ Counted(z) # {}
      /\ type = 0 => Users(z) = T /\ Counted(z) = {}
      /\ type > 1 \/ (type = 1 /\ e.thread \notin T) => Shared(z) = Shared(s) \cup {Len(s) + 1}
      /\ ~(type > 1 \/ (type = 1 /\ e.thread \notin T)) => Shared(z) = Shared(s)
      /\ \A n \in Shared(s) : z[n] = s[n]
      /\ z[Len(s) + 1] = e
  BY OneMore
<1>2. type2 > 1 <=> type > 1 \/ (type = 1 /\ e.thread \notin T)
  BY <1>0
<1>3. Shared(z) = IF type2 > 1 THEN Shared(s) \cup {Len(s) + 1} ELSE Shared(s)
  BY <1>1, <1>2
<1>4. Users(z) = T2
  BY <1>0, <1>1
<1>5. type2 = 0 <=> Counted(z) = {}
  BY <1>0, <1>1
<1>6. type2 > 1 <=> Shared(z) # {}
  <2>1. type2 > 1 => Len(s) + 1 \in Shared(z)
    BY <1>3
  <2>2. ~(type2 > 1) => ~(type > 1)
    BY <1>2
  <2>3. QED
    BY <1>3, <2>1, <2>2 DEF Follows
<1>7. type2 = 3 <=> \E n \in Shared(z) : z[n].kind = "store"
  <2>1. z[Len(s) + 1].kind # "store"
    BY <1>1
  <2>2. type2 = 3 <=> type = 3
    BY <1>0
  <2>3. \A n \in Shared(z) : n \in Shared(s) \/ n = Len(s) + 1
    BY <1>3
  <2>4. \A n \in Shared(s) : n \in Shared(z) /\ z[n].kind = s[n].kind
    BY <1>1, <1>3
  <2>5. QED
    BY <2>1, <2>2, <2>3, <2>4 DEF Follows
<1>8. Follows(T2, type2, z)
  BY <1>4, <1>5, <1>6, <1>7 DEF Follows
<1>9. QED
  BY <1>0, <1>3, <1>8 DEF type2, T2

LEMMA StoreFollows ==
  ASSUME NEW s \in Seq(Entries), NEW e \in Entries, NEW z, Extended(s, e, z), e.kind = "store",
         NEW T, NEW type \in 0 .. 3, Follows(T, type, s)
  PROVE  LET type2 == Stored(type, e.thread \notin T)
         IN  /\ type2 \in 0 .. 3
             /\ Follows(T \cup {e.thread}, type2, z)
             /\ Shared(z) = IF type2 > 1 THEN Shared(s) \cup {Len(s) + 1} ELSE Shared(s)
<1> DEFINE type2 == Stored(type, e.thread \notin T)
<1>1. type = 0 => e.thread \notin T
  BY DEF Follows, Users
<1>2. /\ type2 \in 0 .. 3 /\ type2 # 0
      /\ type2 > 1 <=> type > 1 \/ (type = 1 /\ e.thread \notin T)
      /\ type2 > 1 => type2 = 3
  <2>1. CASE type = 0
    BY <2>1, <1>1 DEF Stored
  <2>2. CASE type = 1 \/ type = 2 \/ type = 3
    BY <2>2 DEF Stored
  <2>3. QED
    BY <2>1, <2>2
<1> HIDE DEF type2
<1>3. /\ Users(z) = T \cup {e.thread} /\ Counted(z) # {}
      /\ type > 1 \/ (type = 1 /\ e.thread \notin T) => Shared(z) = Shared(s) \cup {Len(s) + 1}
      /\ ~(type > 1 \/ (type = 1 /\ e.thread \notin T)) => Shared(z) = Shared(s)
      /\ z[Len(s) + 1].kind = "store"
  BY OneMore
<1>4. Shared(z) = IF type2 > 1 THEN Shared(s) \cup {Len(s) + 1} ELSE Shared(s)
  BY <1>2, <1>3
<1>5. type2 > 1 => Len(s) + 1 \in Shared(z)
  BY <1>4
<1>6. ~(type2 > 1) => Shared(z) = {}
  BY <1>2, <1>4 DEF Follows
<1>7. type2 = 3 <=> \E n \in Shared(z) : z[n].kind = "store"
  BY <1>2, <1>3, <1>5, <1>6
<1>8. Follows(T \cup {e.thread}, type2, z)
  BY <1>2, <1>3, <1>5, <1>6, <1>7 DEF Follows
<1>9. QED
  BY <1>2, <1>4, <1>8 DEF type2

----------------------------------------------------------------------------
(* A step of the two handlers of an access, seen from the cell it changes: *)
(* the locks it intersects with are those the thread holds, and those the  *)
(* history names.                                                          *)
LEMMA ReportFacts ==
  ASSUME IInv, NEW t \in Threads, Reporting(t)
  PROVE  /\ pending[t].addr \in Addrs
         /\ thread2Lock[t] = Guarding(t, "load")
         /\ thread2WLock[t] = Guarding(t, "store")
         /\ \A kind \in {"load", "store"} :
              [thread |-> t, kind |-> kind, locks |-> Guarding(t, kind)] \in Entries
<1>1. pending[t] \in Steps /\ pending[t] # None /\ pending[t].what \in {"onLoad", "onStore"}
  BY DEF IInv, TypeOK, Reporting, Runs
<1>2. pending[t].addr \in Addrs
  BY <1>1 DEF Steps
<1>3. Recorded(t)
  BY DEF IInv
<1>4. thread2Lock[t] = Guarding(t, "load") /\ thread2WLock[t] = Guarding(t, "store")
  BY <1>1, <1>3 DEF Recorded, Guarding
<1>5. QED
  BY <1>2, <1>4 DEF Guarding, Entries

LEMMA CellsStep ==
  ASSUME IInv, NEW t \in Threads, OnLoad(t) \/ OnStore(t)
  PROVE  /\ addr2Lock' \in [Addrs -> SUBSET LockIds]
         /\ addr2Thread' \in [Addrs -> SUBSET Threads]
         /\ addr2type' \in [Addrs -> 0 .. 3]
         /\ log' \in [Addrs -> Seq(Entries)]
         /\ CellFollowsAccesses'
         /\ LockSetSound'
         /\ LockSetFrom => LockSetFrom'
<1> DEFINE a == pending[t].addr
           kind == IF Runs(t, "onLoad") THEN "load" ELSE "store"
           e == [thread |-> t, kind |-> kind, locks |-> Guarding(t, kind)]
           z == Append(log[a], e)
<1>t. TypeOK /\ CellFollowsAccesses /\ LockSetSound
  BY DEF IInv
<1>r. Reporting(t)
  BY DEF OnLoad, OnStore, Reporting
<1>1. a \in Addrs /\ e \in Entries /\ e.thread = t /\ e.kind = kind /\ e.locks = Guarding(t, kind)
  BY <1>r, ReportFacts
<1>2. log' = [log EXCEPT ![a] = z]
  BY DEF OnLoad, OnStore, Report, Runs
<1> DEFINE s == log[a]
<1>3. s \in Seq(Entries) /\ Extended(s, e, z) /\ Follows(addr2Thread[a], addr2type[a], s)
  BY <1>t, <1>1 DEF TypeOK, Extended, CellFollowsAccesses, Follows
<1>4. z \in Seq(Entries) /\ Len(s) \in Nat /\ (\A n \in 1 .. Len(s) : z[n] = s[n]) /\ z[Len(s) + 1] = e
  BY <1>1, <1>3, AppendFacts
<1>5. addr2type[a] \in 0 .. 3
  BY <1>t, <1>1 DEF TypeOK
<1>6. /\ addr2Lock' \in [Addrs -> SUBSET LockIds]
      /\ addr2Thread' \in [Addrs -> SUBSET Threads]
      /\ addr2type' \in [Addrs -> 0 .. 3]
      /\ Follows(addr2Thread'[a], addr2type'[a], z)
      /\ Shared(z) = IF addr2type'[a] > 1 THEN Shared(s) \cup {Len(s) + 1} ELSE Shared(s)
      /\ addr2Lock'[a] = IF addr2type'[a] > 1 THEN addr2Lock[a] \cap e.locks ELSE addr2Lock[a]
      /\ \A b \in Addrs \ {a} : /\ addr2Lock'[b] = addr2Lock[b]
                               /\ addr2Thread'[b] = addr2Thread[b]
                               /\ addr2type'[b] = addr2type[b]
  <2> DEFINE T == addr2Thread[a]
             type == addr2type[a]
  <2>1. CASE OnLoad(t)
    <3> DEFINE new == t \notin T /\ type # 0
               type2 == IF new /\ type = 1 THEN 2 ELSE type
    <3>1. /\ addr2Thread' = IF new THEN [addr2Thread EXCEPT ![a] = @ \cup {t}] ELSE addr2Thread
          /\ addr2type' = IF new /\ type = 1 THEN [addr2type EXCEPT ![a] = 2] ELSE addr2type
          /\ addr2Lock' = IF addr2type'[a] > 1
                            THEN [addr2Lock EXCEPT ![a] = @ \cap thread2Lock[t]] ELSE addr2Lock
      BY <2>1 DEF OnLoad
    <3>2. e.kind = "load" /\ e.locks = thread2Lock[t]
      BY <2>1, <1>1, <1>r, ReportFacts DEF OnLoad
    <3>3. addr2type'[a] = type2 /\ addr2type' \in [Addrs -> 0 .. 3]
          /\ \A b \in Addrs \ {a} : addr2type'[b] = addr2type[b]
      BY <1>t, <1>1, <3>1 DEF TypeOK
    <3>4. addr2Thread'[a] = (IF new THEN T \cup {t} ELSE T) /\ addr2Thread' \in [Addrs -> SUBSET Threads]
          /\ \A b \in Addrs \ {a} : addr2Thread'[b] = addr2Thread[b]
      BY <1>t, <1>1, <3>1 DEF TypeOK
    <3>5. addr2Lock'[a] = (IF type2 > 1 THEN addr2Lock[a] \cap e.locks ELSE addr2Lock[a])
          /\ addr2Lock' \in [Addrs -> SUBSET LockIds]
          /\ \A b \in Addrs \ {a} : addr2Lock'[b] = addr2Lock[b]
      BY <1>t, <1>1, <3>1, <3>2, <3>3 DEF TypeOK
    <3>6. /\ Follows(Joined(T, t, type), Loaded(type, t \notin T), z)
          /\ LET type3 == Loaded(type, t \notin T)
             IN  Shared(z) = IF type3 > 1 THEN Shared(s) \cup {Len(s) + 1} ELSE Shared(s)
      <4> HIDE DEF a, e, z, s
      <4> QED
        BY <1>1, <1>3, <1>5, <3>2, LoadFollows
    <3>8. addr2type'[a] = Loaded(type, t \notin T) /\ addr2Thread'[a] = Joined(T, t, type)
      BY <3>3, <3>4 DEF Loaded, Joined
    <3>7. QED
      BY <3>3, <3>4, <3>5, <3>6, <3>8
  <2>2. CASE OnStore(t)
    <3> DEFINE type2 == Stored(type, t \notin T)
    <3>1. /\ addr2Thread' = [addr2Thread EXCEPT ![a] = @ \cup {t}]
          /\ addr2type' = [addr2type EXCEPT ![a] = Stored(@, t \notin addr2Thread[a])]
          /\ addr2Lock' = IF addr2type'[a] > 1
                            THEN [addr2Lock EXCEPT ![a] = @ \cap thread2WLock[t]] ELSE addr2Lock
      BY <2>2 DEF OnStore
    <3>2. e.kind = "store" /\ e.locks = thread2WLock[t]
      BY <2>2, <1>1, <1>r, ReportFacts DEF OnStore, Runs
    <3>3. /\ type2 \in 0 .. 3
          /\ Follows(T \cup {t}, type2, z)
          /\ Shared(z) = IF type2 > 1 THEN Shared(s) \cup {Len(s) + 1} ELSE Shared(s)
      <4> HIDE DEF a, e, z, s
      <4> QED
        BY <1>1, <1>3, <1>5, <3>2, StoreFollows
    <3>4. addr2type'[a] = type2 /\ addr2type' \in [Addrs -> 0 .. 3]
          /\ \A b \in Addrs \ {a} : addr2type'[b] = addr2type[b]
      BY <1>t, <1>1, <3>1, <3>3 DEF TypeOK
    <3>5. addr2Thread'[a] = T \cup {t} /\ addr2Thread' \in [Addrs -> SUBSET Threads]
          /\ \A b \in Addrs \ {a} : addr2Thread'[b] = addr2Thread[b]
      BY <1>t, <1>1, <3>1 DEF TypeOK
    <3>6. addr2Lock'[a] = (IF type2 > 1 THEN addr2Lock[a] \cap e.locks ELSE addr2Lock[a])
          /\ addr2Lock' \in [Addrs -> SUBSET LockIds]
          /\ \A b \in Addrs \ {a} : addr2Lock'[b] = addr2Lock[b]
      BY <1>t, <1>1, <3>1, <3>2, <3>4 DEF TypeOK
    <3>7. QED
      BY <3>3, <3>4, <3>5, <3>6
  <2>3. QED
    BY <2>1, <2>2
<1>7. log' \in [Addrs -> Seq(Entries)] /\ log'[a] = z /\ \A b \in Addrs \ {a} : log'[b] = log[b]
  BY <1>t, <1>1, <1>2, <1>4 DEF TypeOK
<1>8. \A n \in Shared(z) : \/ n \in Shared(s) /\ z[n] = s[n]
                           \/ n = Len(s) + 1 /\ z[n] = e /\ addr2type'[a] > 1
  <2>1. Shared(s) \subseteq 1 .. Len(s)
    BY DEF Shared, Counted
  <2>2. QED
    BY <2>1, <1>4, <1>6
<1>9. \A n \in Shared(s) : n \in Shared(z) /\ z[n] = s[n]
  <2>1. Shared(s) \subseteq 1 .. Len(s)
    BY DEF Shared, Counted
  <2>2. QED
    BY <2>1, <1>4, <1>6
<1>10. addr2type'[a] > 1 => Len(s) + 1 \in Shared(z)
  BY <1>6
<1> HIDE DEF a, kind, e, z, s
<1>11. CellFollowsAccesses'
  <2> SUFFICES ASSUME NEW b \in Addrs PROVE Follows(addr2Thread'[b], addr2type'[b], log'[b])
    BY DEF CellFollowsAccesses, Follows
  <2>1. CASE b = a
    BY <2>1, <1>6, <1>7
  <2>2. CASE b # a
    <3>1. Follows(addr2Thread[b], addr2type[b], log[b])
      BY <1>t DEF CellFollowsAccesses, Follows
    <3>2. QED
      BY <2>2, <3>1, <1>6, <1>7
  <2>3. QED
    BY <2>1, <2>2
<1>s. log[a] = s
  BY DEF s
<1>12. LockSetSound'
  <2> SUFFICES ASSUME NEW b \in Addrs, NEW l \in addr2Lock'[b], NEW n \in Shared(log'[b])
               PROVE  l \in log'[b][n].locks
    BY DEF LockSetSound
  <2>1. CASE b = a
    <3>1. l \in addr2Lock[a] /\ (addr2type'[a] > 1 => l \in e.locks)
      BY <2>1, <1>6
    <3>2. n \in Shared(z) /\ log'[b][n] = z[n]
      BY <2>1, <1>7
    <3>3. CASE n \in Shared(s) /\ z[n] = s[n]
      BY <3>1, <3>2, <3>3, <1>t, <1>1, <1>s DEF LockSetSound
    <3>4. CASE z[n] = e /\ addr2type'[a] > 1
      BY <3>1, <3>2, <3>4
    <3>5. QED
      BY <3>2, <3>3, <3>4, <1>8
  <2>2. CASE b # a
    BY <2>2, <1>6, <1>7, <1>t DEF LockSetSound
  <2>3. QED
    BY <2>1, <2>2
<1>13. ASSUME LockSetFrom PROVE LockSetFrom'
  <2> SUFFICES ASSUME NEW b \in Addrs
               PROVE  \/ addr2Lock'[b] = NewSet \cap Common(b)'
                      \/ b \in Block /\ addr2Lock'[b] = {}
    BY DEF LockSetFrom
  <2>1. \/ addr2Lock[b] = NewSet \cap Common(b)
        \/ b \in Block /\ addr2Lock[b] = {}
    BY <1>13 DEF LockSetFrom
  <2>2. CASE b = a
    <3>1. Common(b)' = IF addr2type'[b] > 1 THEN Common(b) \cap e.locks ELSE Common(b)
      <4>1. Common(b) = {l \in LockIds : \A n \in Shared(s) : l \in s[n].locks}
        BY <2>2, <1>s DEF Common
      <4>2. Common(b)' = {l \in LockIds : \A n \in Shared(z) : l \in z[n].locks}
        <5>1. log'[b] = z
          BY <2>2, <1>7
        <5>2. Common(b)' = {l \in LockIds : \A n \in Shared(log'[b]) : l \in log'[b][n].locks}
          BY DEF Common
        <5>3. QED
          BY <5>1, <5>2
      <4>3. CASE addr2type'[b] > 1
        <5>1. Len(s) + 1 \in Shared(z) /\ z[Len(s) + 1] = e
          BY <4>3, <2>2, <1>4, <1>10
        <5>2. \A l \in LockIds : (\A n \in Shared(z) : l \in z[n].locks)
                                  <=> l \in e.locks /\ \A n \in Shared(s) : l \in s[n].locks
          BY <5>1, <1>8, <1>9
        <5>3. QED
          BY <4>1, <4>2, <4>3, <5>2
      <4>4. CASE ~(addr2type'[b] > 1)
        <5>1. \A l \in LockIds : (\A n \in Shared(z) : l \in z[n].locks)
                                  <=> \A n \in Shared(s) : l \in s[n].locks
          BY <4>4, <2>2, <1>8, <1>9
        <5>2. QED
          BY <4>1, <4>2, <4>4, <5>1
      <4>5. QED
        BY <4>3, <4>4
    <3>2. addr2Lock'[b] = IF addr2type'[b] > 1 THEN addr2Lock[b] \cap e.locks ELSE addr2Lock[b]
      BY <2>2, <1>6
    <3>3. QED
      BY <2>1, <3>1, <3>2
  <2>3. CASE b # a
    <3>1. Common(b)' = Common(b)
      BY <2>3, <1>7 DEF Common
    <3>2. QED
      BY <2>1, <2>3, <3>1, <1>6
  <2>4. QED
    BY <2>2, <2>3
<1>14. QED
  BY <1>6, <1>7, <1>11, <1>12, <1>13

(* No other step touches the cells, but for onFree, which starts them again. *)
LEMMA CellsSame ==
  ASSUME IInv, UNCHANGED <<addr2Lock, addr2Thread, addr2type, log>>
  PROVE  /\ addr2Lock' \in [Addrs -> SUBSET LockIds]
         /\ addr2Thread' \in [Addrs -> SUBSET Threads]
         /\ addr2type' \in [Addrs -> 0 .. 3]
         /\ log' \in [Addrs -> Seq(Entries)]
         /\ CellFollowsAccesses'
         /\ LockSetSound'
         /\ LockSetFrom => LockSetFrom'
BY DEF IInv, TypeOK, CellFollowsAccesses, LockSetSound, LockSetFrom, Common

LEMMA Erased ==
  Follows({}, 0, <<>>) /\ Shared(<<>>) = {} /\ <<>> \in Seq(Entries)
<1>1. Counted(<<>>) = {}
  BY DEF Counted
<1>2. Shared(<<>>) = {} /\ Users(<<>>) = {}
  BY <1>1 DEF Shared, Users
<1>3. QED
  BY <1>1, <1>2 DEF Follows

LEMMA EraseStep ==
  ASSUME IInv, NEW t \in Threads, OnFree(t)
  PROVE  /\ addr2Lock' \in [Addrs -> SUBSET LockIds]
         /\ addr2Thread' \in [Addrs -> SUBSET Threads]
         /\ addr2type' \in [Addrs -> 0 .. 3]
         /\ log' \in [Addrs -> Seq(Entries)]
         /\ CellFollowsAccesses'
         /\ LockSetSound'
         /\ LockSetFrom => LockSetFrom'
<1> DEFINE erase(a) == a \in Block /\ addr2size
<1>t. TypeOK /\ CellFollowsAccesses /\ LockSetSound
  BY DEF IInv
<1>1. /\ addr2Lock' = [a \in Addrs |-> IF erase(a) THEN {} ELSE addr2Lock[a]]
      /\ addr2Thread' = [a \in Addrs |-> IF erase(a) THEN {} ELSE addr2Thread[a]]
      /\ addr2type' = [a \in Addrs |-> IF erase(a) THEN 0 ELSE addr2type[a]]
      /\ log' = [a \in Addrs |-> IF erase(a) THEN <<>> ELSE log[a]]
  BY DEF OnFree
<1>2. ASSUME NEW a \in Addrs
      PROVE  /\ erase(a) => /\ addr2Lock'[a] = {} /\ addr2Thread'[a] = {}
                            /\ addr2type'[a] = 0 /\ log'[a] = <<>>
             /\ ~erase(a) => /\ addr2Lock'[a] = addr2Lock[a] /\ addr2Thread'[a] = addr2Thread[a]
                             /\ addr2type'[a] = addr2type[a] /\ log'[a] = log[a]
  BY <1>1
<1>3. /\ addr2Lock' \in [Addrs -> SUBSET LockIds]
      /\ addr2Thread' \in [Addrs -> SUBSET Threads]
      /\ addr2type' \in [Addrs -> 0 .. 3]
      /\ log' \in [Addrs -> Seq(Entries)]
  BY <1>t, <1>1, Erased DEF TypeOK
<1> HIDE DEF erase
<1>4. CellFollowsAccesses'
  <2> SUFFICES ASSUME NEW a \in Addrs PROVE Follows(addr2Thread'[a], addr2type'[a], log'[a])
    BY DEF CellFollowsAccesses, Follows
  <2>1. CASE erase(a)
    BY <2>1, <1>2, Erased
  <2>2. CASE ~erase(a)
    <3>1. Follows(addr2Thread[a], addr2type[a], log[a])
      BY <1>t DEF CellFollowsAccesses, Follows
    <3>2. QED
      BY <2>2, <3>1, <1>2
  <2>3. QED
    BY <2>1, <2>2
<1>5. LockSetSound'
  BY <1>t, <1>2, Erased DEF LockSetSound
<1>6. ASSUME LockSetFrom PROVE LockSetFrom'
  <2> SUFFICES ASSUME NEW a \in Addrs
               PROVE  \/ addr2Lock'[a] = NewSet \cap Common(a)'
                      \/ a \in Block /\ addr2Lock'[a] = {}
    BY DEF LockSetFrom
  <2>1. CASE erase(a)
    BY <2>1, <1>2 DEF erase
  <2>2. CASE ~erase(a)
    <3>1. addr2Lock'[a] = addr2Lock[a] /\ Common(a)' = Common(a)
      BY <2>2, <1>2 DEF Common
    <3>2. QED
      BY <3>1, <1>6 DEF LockSetFrom
  <2>3. QED
    BY <2>1, <2>2
<1>7. QED
  BY <1>3, <1>4, <1>5, <1>6

----------------------------------------------------------------------------
(* The records of a thread change with its own steps only. *)
LEMMA OthersRecorded ==
  ASSUME NEW u, Recorded(u),
         pending'[u] = pending[u], mode'[u] = mode[u],
         thread2Lock'[u] = thread2Lock[u], thread2WLock'[u] = thread2WLock[u]
  PROVE  Recorded(u)'
BY DEF Recorded

(* The types of the program's state and of the records, and what they hold *)
RecordsOK ==
  /\ pending \in [Threads -> Steps \cup {None}]
  /\ mode \in [Threads -> [LockIds -> {"none", "read", "write"}]]
  /\ thread2WLock \in [Threads -> SUBSET LockIds]
  /\ thread2Lock \in [Threads -> SUBSET LockIds]
  /\ \A u \in Threads : Recorded(u)

LEMMA ThreadSteps ==
  /\ \A l \in LockIds, what \in {"onLock", "onRLock", "unlock", "wake"} :
       [what |-> what, lock |-> l] \in Steps
  /\ \A a \in Addrs, what \in {"onLoad", "onStore"} : [what |-> what, addr |-> a] \in Steps
  /\ [what |-> "onMalloc"] \in Steps /\ [what |-> "onFree"] \in Steps
BY DEF Steps

LEMMA PendingLock ==
  ASSUME RecordsOK, NEW t \in Threads,
         NEW what \in {"onLock", "onRLock", "unlock", "wake"}, Runs(t, what)
  PROVE  pending[t].lock \in LockIds /\ pending[t] # None /\ pending[t].what = what
<1>1. pending[t] \in Steps /\ pending[t] # None /\ pending[t].what = what
  BY DEF RecordsOK, Runs
<1>2. QED
  BY <1>1 DEF Steps

LEMMA NewPending ==
  ASSUME pending \in [Threads -> Steps \cup {None}], NEW t \in Threads,
         NEW step \in Steps, Then(t, step)
  PROVE  /\ pending' \in [Threads -> Steps \cup {None}]
         /\ pending'[t] = step /\ step # None
         /\ \A u \in Threads \ {t} : pending'[u] = pending[u]
BY NoneAssumption DEF Then

LEMMA OwnStep ==
  ASSUME RecordsOK, NEW t \in Threads,
         pending' \in [Threads -> Steps \cup {None}],
         mode' \in [Threads -> [LockIds -> {"none", "read", "write"}]],
         thread2WLock' \in [Threads -> SUBSET LockIds],
         thread2Lock' \in [Threads -> SUBSET LockIds],
         \A u \in Threads \ {t} :
           /\ pending'[u] = pending[u] /\ mode'[u] = mode[u]
           /\ thread2Lock'[u] = thread2Lock[u] /\ thread2WLock'[u] = thread2WLock[u],
         Recorded(t)'
  PROVE  RecordsOK'
<1>1. ASSUME NEW u \in Threads \ {t} PROVE Recorded(u)'
  BY <1>1, OthersRecorded DEF RecordsOK
<1>2. QED
  BY <1>1 DEF RecordsOK

LEMMA LockCallStep ==
  ASSUME RecordsOK, NEW t \in Threads,
         Acquire(t) \/ OnUnlock(t) \/ Release(t) \/ Wait(t) \/ Wake(t)
  PROVE  RecordsOK'
<1>1. CASE Acquire(t)
  <2>1. PICK l \in LockIds, m \in {"read", "write"} :
          /\ mode[t][l] = "none"
          /\ mode' = [mode EXCEPT ![t][l] = m]
          /\ Then(t, [what |-> IF m = "write" THEN "onLock" ELSE "onRLock", lock |-> l])
    BY <1>1 DEF Acquire
  <2>2. pending[t] = None /\ UNCHANGED <<thread2WLock, thread2Lock>>
    BY <1>1 DEF Acquire, Idle, records
  <2> DEFINE what == IF m = "write" THEN "onLock" ELSE "onRLock"
             step == [what |-> what, lock |-> l]
  <2>3. step \in Steps /\ step.what = what /\ step.lock = l
    BY ThreadSteps
  <2>4. /\ what \in {"onLock", "onRLock"}
        /\ what = "onLock" => m = "write"
        /\ what = "onRLock" => m = "read"
    OBVIOUS
  <2>5. Then(t, step)
    BY <2>1
  <2> HIDE DEF what, step
  <2>6. /\ pending' \in [Threads -> Steps \cup {None}]
        /\ pending'[t] = step /\ step # None
        /\ \A u \in Threads \ {t} : pending'[u] = pending[u]
    BY <2>3, <2>5, NewPending DEF RecordsOK
  <2>7. /\ mode' \in [Threads -> [LockIds -> {"none", "read", "write"}]]
        /\ \A u \in Threads \ {t} : mode'[u] = mode[u]
        /\ mode'[t][l] = m /\ \A k \in LockIds \ {l} : mode'[t][k] = mode[t][k]
    BY <2>1 DEF RecordsOK
  <2>8. /\ thread2Lock[t] = {k \in LockIds : mode[t][k] # "none"}
        /\ thread2WLock[t] = {k \in LockIds : mode[t][k] = "write"}
    BY <2>2 DEF RecordsOK, Recorded
  <2>9. Recorded(t)'
    BY <2>1, <2>2, <2>3, <2>4, <2>6, <2>7, <2>8 DEF Recorded
  <2>10. QED
    BY <2>2, <2>6, <2>7, <2>9, OwnStep DEF RecordsOK
<1>2. CASE OnUnlock(t)
  <2>1. PICK l \in LockIds :
          /\ mode[t][l] # "none"
          /\ thread2WLock' = [thread2WLock EXCEPT ![t] = @ \ {l}]
          /\ thread2Lock' = [thread2Lock EXCEPT ![t] = @ \ {l}]
          /\ Then(t, [what |-> "unlock", lock |-> l])
    BY <1>2 DEF OnUnlock
  <2>2. pending[t] = None /\ UNCHANGED mode
    BY <1>2 DEF OnUnlock, Idle, held
  <2> DEFINE step == [what |-> "unlock", lock |-> l]
  <2>3. step \in Steps /\ step.what = "unlock" /\ step.lock = l /\ Then(t, step)
    BY <2>1, ThreadSteps
  <2> HIDE DEF step
  <2>4. /\ pending' \in [Threads -> Steps \cup {None}]
        /\ pending'[t] = step /\ step # None
        /\ \A u \in Threads \ {t} : pending'[u] = pending[u]
    BY <2>3, NewPending DEF RecordsOK
  <2>5. /\ thread2WLock' \in [Threads -> SUBSET LockIds]
        /\ thread2Lock' \in [Threads -> SUBSET LockIds]
        /\ thread2WLock'[t] = thread2WLock[t] \ {l} /\ thread2Lock'[t] = thread2Lock[t] \ {l}
        /\ \A u \in Threads \ {t} :
             thread2Lock'[u] = thread2Lock[u] /\ thread2WLock'[u] = thread2WLock[u]
    BY <2>1 DEF RecordsOK
  <2>6. Recorded(t)'
    BY <2>2, <2>3, <2>4, <2>5 DEF RecordsOK, Recorded
  <2>7. QED
    BY <2>2, <2>4, <2>5, <2>6, OwnStep DEF RecordsOK
<1>3. CASE Release(t)
  <2>1. pending[t].lock \in LockIds /\ pending[t] # None /\ pending[t].what = "unlock"
    BY <1>3, PendingLock DEF Release
  <2>2. QED
    BY <1>3, <2>1 DEF RecordsOK, Release, Then, Recorded, records
<1>4. CASE Wait(t)
  <2>1. PICK l \in Mutexes :
          /\ mode[t][l] = "write"
          /\ mode' = [mode EXCEPT ![t][l] = "none"]
          /\ Then(t, [what |-> "wake", lock |-> l])
    BY <1>4 DEF Wait
  <2>2. pending[t] = None /\ UNCHANGED <<thread2WLock, thread2Lock>> /\ l \in LockIds
    BY <1>4, <2>1 DEF Wait, Idle, records, LockIds
  <2> DEFINE step == [what |-> "wake", lock |-> l]
  <2>3. step \in Steps /\ step.what = "wake" /\ step.lock = l /\ Then(t, step)
    BY <2>1, <2>2, ThreadSteps
  <2> HIDE DEF step
  <2>4. /\ pending' \in [Threads -> Steps \cup {None}]
        /\ pending'[t] = step /\ step # None
        /\ \A u \in Threads \ {t} : pending'[u] = pending[u]
    BY <2>3, NewPending DEF RecordsOK
  <2>5. /\ mode' \in [Threads -> [LockIds -> {"none", "read", "write"}]]
        /\ \A u \in Threads \ {t} : mode'[u] = mode[u]
        /\ mode'[t][l] = "none" /\ \A k \in LockIds \ {l} : mode'[t][k] = mode[t][k]
    BY <2>1, <2>2 DEF RecordsOK
  <2>6. Recorded(t)'
    BY <2>1, <2>2, <2>3, <2>4, <2>5 DEF RecordsOK, Recorded
  <2>7. QED
    BY <2>2, <2>4, <2>5, <2>6, OwnStep DEF RecordsOK
<1>5. CASE Wake(t)
  <2>1. pending[t].lock \in LockIds /\ pending[t] # None /\ pending[t].what = "wake"
    BY <1>5, PendingLock DEF Wake
  <2>2. QED
    BY <1>5, <2>1 DEF RecordsOK, Wake, Then, Recorded, records
<1>6. QED
  BY <1>1, <1>2, <1>3, <1>4, <1>5

LEMMA HandlerStep ==
  ASSUME RecordsOK, NEW t \in Threads, OnLock(t) \/ OnRLock(t)
  PROVE  RecordsOK'
<1>1. CASE OnLock(t)
  <2>1. pending[t].lock \in LockIds /\ pending[t] # None /\ pending[t].what = "onLock"
    BY <1>1, PendingLock DEF OnLock
  <2>2. QED
    BY <1>1, <2>1 DEF RecordsOK, OnLock, Then, Recorded, held
<1>2. CASE OnRLock(t)
  <2>1. pending[t].lock \in LockIds /\ pending[t] # None /\ pending[t].what = "onRLock"
    BY <1>2, PendingLock DEF OnRLock
  <2>2. QED
    BY <1>2, <2>1 DEF RecordsOK, OnRLock, Then, Recorded, held
<1>3. QED
  BY <1>1, <1>2

(* Accesses and heap calls begin and end without a change of locks. *)
LEMMA OtherStep ==
  ASSUME RecordsOK, NEW t \in Threads,
         UNCHANGED <<mode, thread2WLock, thread2Lock>>,
         NEW step \in Steps \cup {None}, Then(t, step),
         pending[t] # None => pending[t].what \notin {"onLock", "onRLock", "unlock", "wake"},
         step # None => step.what \notin {"onLock", "onRLock", "unlock", "wake"}
  PROVE  RecordsOK'
<1>1. /\ pending' \in [Threads -> Steps \cup {None}]
      /\ pending'[t] = step
      /\ \A u \in Threads \ {t} : pending'[u] = pending[u]
  BY DEF RecordsOK, Then
<1>2. ASSUME NEW u \in Threads \ {t} PROVE Recorded(u)'
  BY <1>1, <1>2, OthersRecorded DEF RecordsOK
<1>3. Recorded(t)'
  BY <1>1 DEF RecordsOK, Recorded
<1>4. QED
  BY <1>1, <1>2, <1>3 DEF RecordsOK

LEMMA RecordsStep ==
  ASSUME RecordsOK, NEW t \in Threads,
         \/ Access(t) \/ OnLoad(t) \/ OnStore(t)
         \/ Malloc(t) \/ OnMalloc(t) \/ Free(t) \/ OnFree(t)
  PROVE  RecordsOK'
<1>1. CASE Access(t)
  <2>1. PICK a \in Addrs, what \in {"onLoad", "onStore"} : Then(t, [what |-> what, addr |-> a])
    BY <1>1 DEF Access
  <2>2. [what |-> what, addr |-> a] \in Steps
    BY ThreadSteps
  <2>3. pending[t] = None /\ UNCHANGED <<mode, thread2WLock, thread2Lock>>
    BY <1>1 DEF Access, Idle, held, records
  <2>4. QED
    BY <2>1, <2>2, <2>3, OtherStep
<1>2. CASE OnLoad(t) \/ OnStore(t) \/ OnMalloc(t) \/ OnFree(t)
  <2>1. Then(t, None) /\ UNCHANGED <<mode, thread2WLock, thread2Lock>>
    BY <1>2 DEF OnLoad, OnStore, OnMalloc, OnFree, held, records
  <2>2. pending[t].what \notin {"onLock", "onRLock", "unlock", "wake"}
    BY <1>2 DEF OnLoad, OnStore, OnMalloc, OnFree, Runs
  <2>3. QED
    BY <2>1, <2>2, OtherStep
<1>3. CASE Malloc(t) \/ Free(t)
  <2>1. PICK what \in {"onMalloc", "onFree"} : Then(t, [what |-> what])
    BY <1>3 DEF Malloc, Free
  <2>2. [what |-> what] \in Steps
    BY ThreadSteps
  <2>3. pending[t] = None /\ UNCHANGED <<mode, thread2WLock, thread2Lock>>
    BY <1>3 DEF Malloc, Free, Idle, records
  <2>4. QED
    BY <2>1, <2>2, <2>3, OtherStep
<1>4. QED
  BY <1>1, <1>2, <1>3

----------------------------------------------------------------------------
LEMMA InitOK == Init => IInv /\ LockSetFrom
<1> SUFFICES ASSUME Init PROVE IInv /\ LockSetFrom
  OBVIOUS
<1>1. TypeOK
  <2>1. /\ addr2Lock \in [Addrs -> SUBSET LockIds]
        /\ thread2WLock \in [Threads -> SUBSET LockIds]
        /\ thread2Lock \in [Threads -> SUBSET LockIds]
    BY EraserAssumption DEF Init
  <2>2. addr2type \in [Addrs -> 0 .. 3] /\ log \in [Addrs -> Seq(Entries)]
    BY Erased DEF Init
  <2>3. QED
    BY <2>1, <2>2 DEF Init, TypeOK
<1>2. ASSUME NEW t \in Threads PROVE Recorded(t)
  BY DEF Init, Recorded
<1>3. CellFollowsAccesses
  <2> SUFFICES ASSUME NEW a \in Addrs PROVE Follows(addr2Thread[a], addr2type[a], log[a])
    BY DEF CellFollowsAccesses, Follows
  <2>1. addr2Thread[a] = {} /\ addr2type[a] = 0 /\ log[a] = <<>>
    BY DEF Init
  <2>2. QED
    BY <2>1, Erased
<1>4. \A a \in Addrs : Shared(log[a]) = {}
  BY Erased DEF Init
<1>5. LockSetSound
  BY <1>4 DEF LockSetSound
<1>6. LockSetFrom
  BY <1>4, EraserAssumption DEF Init, LockSetFrom, Common
<1>7. QED
  BY <1>1, <1>2, <1>3, <1>5, <1>6 DEF IInv

LEMMA StepOK ==
  IInv /\ [Next]_vars => IInv' /\ (LockSetFrom => LockSetFrom')
<1> SUFFICES ASSUME IInv, [Next]_vars
             PROVE  IInv' /\ (LockSetFrom => LockSetFrom')
  OBVIOUS
<1> DEFINE CellsOK == /\ addr2Lock' \in [Addrs -> SUBSET LockIds]
                      /\ addr2Thread' \in [Addrs -> SUBSET Threads]
                      /\ addr2type' \in [Addrs -> 0 .. 3]
                      /\ log' \in [Addrs -> Seq(Entries)]
                      /\ CellFollowsAccesses'
                      /\ LockSetSound'
                      /\ LockSetFrom => LockSetFrom'
<1>1. RecordsOK /\ alive \in BOOLEAN /\ addr2size \in BOOLEAN
  BY DEF IInv, TypeOK, RecordsOK
<1>2. SUFFICES RecordsOK' /\ alive' \in BOOLEAN /\ addr2size' \in BOOLEAN /\ CellsOK
  BY DEF RecordsOK, IInv, TypeOK
<1>3. CASE UNCHANGED vars
  <2>1. RecordsOK' /\ UNCHANGED <<alive, addr2size>>
    BY <1>1, <1>3, OthersRecorded DEF RecordsOK, vars, held, records, cells
  <2>2. CellsOK
    BY <1>3, CellsSame DEF vars, cells
  <2>3. QED
    BY <1>1, <2>1, <2>2
<1>4. ASSUME NEW t \in Threads,
             \/ Acquire(t) \/ OnUnlock(t) \/ Release(t) \/ Wait(t) \/ Wake(t)
             \/ OnLock(t) \/ OnRLock(t)
      PROVE  RecordsOK' /\ alive' \in BOOLEAN /\ addr2size' \in BOOLEAN /\ CellsOK
  <2>1. UNCHANGED <<alive, cells>>
    BY <1>4 DEF Acquire, OnUnlock, Release, Wait, Wake, OnLock, OnRLock, held
  <2>2. CellsOK
    BY <2>1, CellsSame DEF cells
  <2>3. RecordsOK'
    BY <1>1, <1>4, LockCallStep, HandlerStep
  <2>4. QED
    BY <1>1, <2>1, <2>2, <2>3 DEF cells
<1>5. ASSUME NEW t \in Threads, Access(t) \/ Malloc(t) \/ OnMalloc(t) \/ Free(t)
      PROVE  RecordsOK' /\ alive' \in BOOLEAN /\ addr2size' \in BOOLEAN /\ CellsOK
  <2>1. /\ UNCHANGED <<addr2Lock, addr2Thread, addr2type, log>>
        /\ alive' \in BOOLEAN /\ addr2size' \in BOOLEAN
    BY <1>1, <1>5 DEF Access, Malloc, OnMalloc, Free, held, cells
  <2>2. CellsOK
    BY <2>1, CellsSame
  <2>3. RecordsOK'
    BY <1>1, <1>5, RecordsStep
  <2>4. QED
    BY <2>1, <2>2, <2>3
<1>6. ASSUME NEW t \in Threads, OnLoad(t) \/ OnStore(t) \/ OnFree(t)
      PROVE  RecordsOK' /\ alive' \in BOOLEAN /\ addr2size' \in BOOLEAN /\ CellsOK
  <2>1. alive' \in BOOLEAN /\ addr2size' \in BOOLEAN
    BY <1>1, <1>6 DEF OnLoad, OnStore, OnFree, held
  <2>2. CellsOK
    BY <1>6, CellsStep, EraseStep
  <2>3. RecordsOK'
    BY <1>1, <1>6, RecordsStep
  <2>4. QED
    BY <2>1, <2>2, <2>3
<1>7. QED
  BY <1>3, <1>4, <1>5, <1>6 DEF Next

----------------------------------------------------------------------------
(* The invariant: at every step of every program each thread's records are *)
(* what it holds, but for the lock it is busy with, and each cell agrees   *)
(* with the accesses reported for it.                                      *)
THEOREM InvariantHolds == Spec => []IInv
<1>1. Init => IInv
  BY InitOK
<1>2. IInv /\ [Next]_vars => IInv'
  BY StepOK
<1>3. QED
  BY <1>1, <1>2, PTL DEF Spec

(* The maps hold values of the declared types. *)
THEOREM TypeCorrect == Spec => []TypeOK
<1>1. IInv => TypeOK
  BY DEF IInv
<1>2. QED
  BY <1>1, InvariantHolds, PTL

(* Whoever reports an access has recorded exactly the locks it holds. *)
THEOREM Records == Spec => []RecordsHeld
<1>1. IInv => RecordsHeld
  <2> SUFFICES ASSUME IInv, NEW t \in Threads, Idle(t) \/ Reporting(t)
               PROVE  /\ thread2Lock[t] = {l \in LockIds : mode[t][l] # "none"}
                      /\ thread2WLock[t] = {l \in LockIds : mode[t][l] = "write"}
    BY DEF RecordsHeld
  <2>1. Recorded(t)
    BY DEF IInv
  <2>2. QED
    BY <2>1 DEF Recorded, Idle, Reporting, Runs
<1>2. QED
  BY <1>1, InvariantHolds, PTL

(* The cell of every address tells who shares it and whether it was        *)
(* written while shared.                                                   *)
THEOREM Cells == Spec => []CellFollowsAccesses
<1>1. IInv => CellFollowsAccesses
  BY DEF IInv
<1>2. QED
  BY <1>1, InvariantHolds, PTL

(* No lock is credited to an address that was accessed without it, also    *)
(* when its block is freed, reused and erased late.                        *)
THEOREM Sound == Spec => []LockSetSound
<1>1. IInv => LockSetSound
  BY DEF IInv
<1>2. QED
  BY <1>1, InvariantHolds, PTL

(* Whatever set the cells start with, full as eraser.txt:8 declares it or  *)
(* empty as the generated code makes it, what is left of it is exactly the *)
(* locks common to the accesses that count, or nothing once the cell of a  *)
(* block was erased (lines 24-68).                                         *)
THEOREM Exact == Spec => []LockSetFrom
<1>1. Init => IInv /\ LockSetFrom
  BY InitOK
<1>2. (IInv /\ LockSetFrom) /\ [Next]_vars => (IInv /\ LockSetFrom)'
  BY StepOK
<1>3. QED
  BY <1>1, <1>2, PTL DEF Spec
=============================================================================
