--------------------------- MODULE HandlersProofs ---------------------------
(***************************************************************************)
(* Proofs about Handlers: the pool lock a handler holds is enough for the  *)
(* cells and the references it uses, and calling onFree() before free() is *)
(* enough for the blocks, for any number of threads, blocks and locks.     *)
(***************************************************************************)
EXTENDS Handlers, TLAPS

(* Every address has a lock of the pool. *)
LEMMA GetAddrType == ASSUME NEW a \in Nat PROVE GetAddr(a) \in PoolLocks
  BY HandlersAssumption DEF GetAddr, PoolLocks

(* Addresses are numbers. *)
LEMMA AddressType == Bases \subseteq Nat /\ Cells \subseteq Nat /\ 0 \in Nat
  BY HandlersAssumption DEF Cells, BlockOf

(* What a request is made of *)
LEMMA RequestType ==
  ASSUME NEW r \in Requests
  PROVE  /\ r.at \in Nat /\ r.op \in {"none", "access", "malloc", "free"}
         /\ r.op = "access" => r.at \in Cells
         /\ r.op \in {"malloc", "free"} => r.at \in Bases
         /\ r.size \in BlockSizes \cup {0}
  <1>1. CASE r = NoRequest
    BY <1>1, AddressType DEF NoRequest
  <1>2. CASE r \in [op : {"access"}, at : Cells, size : {0}]
    BY <1>2, AddressType
  <1>3. CASE r \in [op : {"malloc", "free"}, at : Bases, size : BlockSizes \cup {0}]
    BY <1>3, AddressType
  <1> QED
    BY <1>1, <1>2, <1>3 DEF Requests

(* Core holds at the start. *)
LEMMA CoreInit == Init => Core
  BY HandlersAssumption DEF Init, Core, InStep, TypeOK, Requests, NoRequest, Steps, NoLostUpdate

(* The program's calls change nothing a handler relies on. *)
LEMMA CoreCalls ==
  ASSUME Core, NEW t \in Threads, Access(t) \/ Malloc(t) \/ Free(t)
  PROVE  Core'
  <1>1. PICK r \in Requests : pc[t] = "idle" /\ r.op # "none" /\ Call(t, r)
    <2>1. CASE Access(t)
      <3>1. PICK a \in Allocated : Call(t, [op |-> "access", at |-> a, size |-> 0])
        BY <2>1 DEF Access
      <3>2. a \in Cells
        <4>1. PICK b \in Bases : a \in BlockOf(b, block[b])
          BY DEF Allocated
        <4>2. block[b] # 0
          BY <4>1 DEF BlockOf
        <4>3. block[b] \in BlockSizes
          BY <4>2 DEF Core, TypeOK
        <4> QED
          BY <4>1, <4>3 DEF Cells
      <3> QED
        BY <2>1, <3>1, <3>2 DEF Access, Requests
    <2>2. CASE Malloc(t)
      BY <2>2 DEF Malloc, Requests
    <2>3. CASE Free(t)
      BY <2>3 DEF Free, Requests
    <2> QED
      BY <2>1, <2>2, <2>3
  <1>2. block' \in [Bases -> BlockSizes \cup {0}] /\ freeing' \subseteq Bases
    BY DEF Access, Malloc, Free, Core, TypeOK
  <1>3. TypeOK'
    BY <1>1, <1>2 DEF Core, TypeOK, Call, Goto, Steps, shadow
  <1>4. NoLostUpdate'
    BY <1>1 DEF Core, NoLostUpdate, Call, shadow
  <1>5. ASSUME NEW u \in Threads PROVE InStep(u)'
    BY <1>1 DEF Core, InStep, TypeOK, Call, Goto, shadow
  <1> QED
    BY <1>3, <1>4, <1>5 DEF Core

(* Two handlers past their lock are at addresses with different locks. *)
LEMMA PoolExclusive ==
  ASSUME Core, NEW t \in Threads, NEW u \in Threads, t # u,
         pc[t] \notin {"idle", "lock"}, pc[u] \notin {"idle", "lock"}
  PROVE  req[t].at # req[u].at
  BY DEF Core, InStep

(* Steps that take or release locks *)
LEMMA CoreLocks ==
  ASSUME Core, NEW t \in Threads, LockPool(t) \/ LockMap(t) \/ UnlockMap(t) \/ UnlockPool(t)
  PROVE  Core'
  <1> USE DEF own, shadow, heap, Goto
  <1>0. /\ \A u \in Threads : req[u] \in Requests /\ req[u].at \in Nat /\ GetAddr(req[u].at) \in PoolLocks
        /\ Nobody \notin Threads /\ NoRequest \in Requests
    BY RequestType, GetAddrType, HandlersAssumption DEF Core, TypeOK, Requests
  <1>1. CASE LockPool(t)
    <2>1. TypeOK'
      BY <1>0, <1>1 DEF Core, TypeOK, LockPool, Steps
    <2>2. ASSUME NEW u \in Threads PROVE InStep(u)'
      BY <1>0, <1>1, RequestType DEF Core, InStep, TypeOK, LockPool
    <2> QED
      BY <1>1, <2>1, <2>2 DEF Core, NoLostUpdate, LockPool
  <1>2. CASE LockMap(t)
    <2>1. TypeOK'
      BY <1>0, <1>2 DEF Core, TypeOK, LockMap, Steps
    <2>2. ASSUME NEW u \in Threads PROVE InStep(u)'
      BY <1>0, <1>2 DEF Core, InStep, TypeOK, LockMap
    <2> QED
      BY <1>2, <2>1, <2>2 DEF Core, NoLostUpdate, LockMap
  <1>3. CASE UnlockMap(t)
    <2>1. TypeOK'
      BY <1>0, <1>3 DEF Core, TypeOK, UnlockMap, Steps
    <2>2. ASSUME NEW u \in Threads PROVE InStep(u)'
      BY <1>0, <1>3 DEF Core, InStep, TypeOK, UnlockMap
    <2> QED
      BY <1>3, <2>1, <2>2 DEF Core, NoLostUpdate, UnlockMap
  <1>4. CASE UnlockPool(t)
    <2>1. TypeOK'
      <3>1. /\ saved' \in [Threads -> 0 .. Wrap - 1] /\ pc' \in [Threads -> Steps]
            /\ req' \in [Threads -> Requests] /\ pool' \in [PoolLocks -> Threads \cup {Nobody}]
        BY <1>0, <1>4, HandlersAssumption DEF Core, TypeOK, UnlockPool, Steps
      <3>2. block' \in [Bases -> BlockSizes \cup {0}] /\ freeing' \subseteq Bases
        BY <1>4 DEF Core, TypeOK, UnlockPool
      <3> QED
        BY <1>4, <3>1, <3>2 DEF Core, TypeOK, UnlockPool
    <2>2. ASSUME NEW u \in Threads PROVE InStep(u)'
      BY <1>0, <1>4 DEF Core, InStep, TypeOK, UnlockPool, NoRequest
    <2> QED
      BY <1>4, <2>1, <2>2 DEF Core, NoLostUpdate, UnlockPool
  <1> QED
    BY <1>1, <1>2, <1>3, <1>4

(* The read and the write of a cell: nobody else is between the two. *)
LEMMA CoreAccess ==
  ASSUME Core, NEW t \in Threads, Read(t) \/ Write(t)
  PROVE  Core'
  <1> USE DEF own, shadow, heap, Goto
  <1>0. req[t].at \in Cells
    BY RequestType DEF Core, TypeOK, InStep, Read, Write
  <1>1. CASE Read(t)
    <2>1. TypeOK'
      BY <1>0, <1>1 DEF Core, TypeOK, Read, Steps
    <2>2. ASSUME NEW u \in Threads PROVE InStep(u)'
      BY <1>1 DEF Core, InStep, TypeOK, Read
    <2> QED
      BY <1>1, <2>1, <2>2 DEF Core, NoLostUpdate, Read
  <1>2. CASE Write(t)
    <2>1. (saved[t] + 1) % Wrap \in 0 .. Wrap - 1 /\ (updates[req[t].at] + 1) % Wrap \in 0 .. Wrap - 1
      BY <1>0, HandlersAssumption DEF Core, TypeOK
    <2>2. TypeOK'
      BY <1>2, <2>1 DEF Core, TypeOK, Write, Steps
    <2>3. ASSUME NEW u \in Threads PROVE InStep(u)'
      <3>1. CASE u = t
        BY <1>2, <3>1 DEF Core, InStep, TypeOK, Write
      <3>2. CASE u # t
        <4>1. pc[u] = "write" => req[u].at # req[t].at
          BY <1>2, <3>2, PoolExclusive DEF Write
        <4> QED
          BY <1>2, <3>2, <4>1 DEF Core, InStep, TypeOK, Write
      <3> QED
        BY <3>1, <3>2
    <2>4. NoLostUpdate'
      BY <1>0, <1>2 DEF Core, NoLostUpdate, InStep, TypeOK, Write
    <2> QED
      BY <2>2, <2>3, <2>4 DEF Core
  <1> QED
    BY <1>1, <1>2

(* Looking a size up, and using what was found *)
LEMMA CoreSizes ==
  ASSUME Core, NEW t \in Threads, Get(t) \/ AssignSize(t) \/ LoadSize(t)
  PROVE  Core'
  <1> USE DEF own, shadow, heap, Goto
  <1>0. /\ req[t].op \in {"malloc", "free"} /\ req[t].at \in Bases
        /\ req[t].size \in BlockSizes \cup {0}
    BY RequestType DEF Core, TypeOK, InStep, Get, AssignSize, LoadSize
  <1>1. BlockSizes \subseteq Nat /\ \A m \in BlockSizes \cup {0} : m \in Nat /\ m # -1
    BY HandlersAssumption
  <1>2. CASE Get(t)
    <2>1. TypeOK'
      BY <1>0, <1>2 DEF Core, TypeOK, Get, Steps
    <2>2. ASSUME NEW u \in Threads PROVE InStep(u)'
      BY <1>0, <1>2 DEF Core, InStep, TypeOK, Get
    <2> QED
      BY <1>2, <2>1, <2>2 DEF Core, NoLostUpdate, Get
  <1>3. CASE AssignSize(t)
    <2>1. TypeOK'
      BY <1>0, <1>3 DEF Core, TypeOK, AssignSize, Steps
    <2>2. ASSUME NEW u \in Threads PROVE InStep(u)'
      BY <1>0, <1>1, <1>3 DEF Core, InStep, TypeOK, AssignSize
    <2> QED
      BY <1>3, <2>1, <2>2 DEF Core, NoLostUpdate, AssignSize
  <1>4. CASE LoadSize(t)
    <2>1. sizes[req[t].at] \in BlockSizes \cup {0}
      BY <1>0, <1>4 DEF Core, InStep, TypeOK, LoadSize
    <2>2. [req[t] EXCEPT !.size = sizes[req[t].at]] \in Requests
      <3>1. req[t] \in [op : {"malloc", "free"}, at : Bases, size : BlockSizes \cup {0}]
        BY <1>0 DEF Core, TypeOK, Requests, NoRequest
      <3> QED
        BY <2>1, <3>1 DEF Requests
    <2>3. TypeOK'
      BY <1>1, <1>4, <2>1, <2>2 DEF Core, TypeOK, LoadSize, Steps
    <2>4. /\ req'[t].op = req[t].op /\ req'[t].at = req[t].at
          /\ \A u \in Threads \ {t} : req'[u] = req[u]
      BY <1>0, <1>4 DEF Core, TypeOK, LoadSize, Requests, NoRequest
    <2>5. ASSUME NEW u \in Threads PROVE InStep(u)'
      BY <1>4, <2>4 DEF Core, InStep, TypeOK, LoadSize
    <2> QED
      BY <1>4, <2>3, <2>5 DEF Core, NoLostUpdate, LoadSize
  <1> QED
    BY <1>2, <1>3, <1>4

(* onFree()'s own steps.  Removing an entry leaves no reference behind:    *)
(* who has one holds the pool lock of the same address.                    *)
LEMMA CoreFree ==
  ASSUME Core, NEW t \in Threads, ClearCell(t) \/ Cleared(t) \/ RemoveEntry(t)
  PROVE  Core'
  <1> USE DEF own, shadow, heap, Goto
  <1>0. /\ req[t].op = "free" /\ req[t].at \in Bases
        /\ \A u \in Threads : req[u].op = "access" => req[u].at \in Cells
    BY RequestType DEF Core, TypeOK, InStep, ClearCell, Cleared, RemoveEntry
  <1>1. CASE ClearCell(t)
    <2>1. 0 \in 0 .. Wrap - 1 /\ left[t] - 1 \in Nat
      BY <1>1, HandlersAssumption DEF Core, TypeOK, ClearCell
    <2>2. torn' \subseteq Cells
      BY <1>0, <1>1 DEF Core, TypeOK, InStep, ClearCell
    <2>3. TypeOK'
      BY <1>1, <2>1, <2>2 DEF Core, TypeOK, ClearCell, Steps
    <2>4. ASSUME NEW u \in Threads PROVE InStep(u)'
      BY <1>0, <1>1 DEF Core, InStep, TypeOK, ClearCell
    <2>5. NoLostUpdate'
      BY <1>1 DEF Core, NoLostUpdate, TypeOK, ClearCell
    <2> QED
      BY <2>3, <2>4, <2>5 DEF Core
  <1>2. CASE Cleared(t)
    <2>1. TypeOK'
      BY <1>2 DEF Core, TypeOK, Cleared, Steps
    <2>2. ASSUME NEW u \in Threads PROVE InStep(u)'
      BY <1>2 DEF Core, InStep, TypeOK, Cleared
    <2> QED
      BY <1>2, <2>1, <2>2 DEF Core, NoLostUpdate, Cleared
  <1>3. CASE RemoveEntry(t)
    <2>1. ASSUME NEW u \in Threads PROVE ~(req[u].at = req[t].at /\ ref[u] = "good")
      BY <1>3, PoolExclusive DEF Core, InStep, RemoveEntry
    <2>2. ref' = ref
      BY <1>3, <2>1 DEF Core, TypeOK, RemoveEntry
    <2>3. TypeOK'
      BY <1>0, <1>3, <2>2 DEF Core, TypeOK, RemoveEntry, Steps
    <2>4. ASSUME NEW u \in Threads PROVE InStep(u)'
      BY <1>0, <1>3, <2>1, <2>2 DEF Core, InStep, TypeOK, RemoveEntry
    <2> QED
      BY <1>3, <2>3, <2>4 DEF Core, NoLostUpdate, RemoveEntry
  <1> QED
    BY <1>1, <1>2, <1>3

LEMMA CoreStep == Core /\ [Next]_vars => Core'
  <1> SUFFICES ASSUME Core, [Next]_vars PROVE Core'
    OBVIOUS
  <1>1. CASE UNCHANGED vars
    BY <1>1 DEF vars, shadow, heap, Core, TypeOK, NoLostUpdate, InStep
  <1>2. ASSUME NEW t \in Threads, Access(t) \/ Malloc(t) \/ Free(t) \/ Step(t) PROVE Core'
    BY <1>2, CoreCalls, CoreLocks, CoreAccess, CoreSizes, CoreFree DEF Step
  <1> QED
    BY <1>1, <1>2 DEF Next

(* Core always holds: the argument behind the three theorems below. *)
THEOREM CoreAlways == Spec => []Core
  BY CoreInit, CoreStep, PTL DEF Spec

(* Every variable keeps its type. *)
THEOREM HandlersTyped == Spec => []TypeOK
  <1>1. Core => TypeOK
    BY DEF Core
  <1> QED
    BY <1>1, CoreAlways, PTL

(* No update of a shadow cell is lost to another handler (generate_cpp.py, *)
(* lines 171-212).                                                         *)
THEOREM UpdatesKept == Spec => []NoLostUpdate
  <1>1. Core => NoLostUpdate
    BY DEF Core
  <1> QED
    BY <1>1, CoreAlways, PTL

(* No handler's reference into addr2size outlives its entry (rtLib.cpp,    *)
(* lines 500-535).                                                         *)
THEOREM ReferencesGood == Spec => []NoStaleReference
  <1>1. Core => NoStaleReference
    BY DEF Core, InStep, NoStaleReference
  <1> QED
    BY <1>1, CoreAlways, PTL

----------------------------------------------------------------------------
(* Order holds at the start. *)
LEMMA OrderInit == Init => Order
  BY HandlersAssumption
  DEF Init, Order, FreedInOrder, OneHandler, BlocksApart, InTurn, Holds, BlockOf, NoRequest

(* What a block holds: nothing without a size, its base with one *)
LEMMA BlockFacts ==
  ASSUME NEW b \in Nat
  PROVE  BlockOf(b, 0) = {} /\ \A m \in Nat \ {0} : b \in BlockOf(b, m)
  BY DEF BlockOf

(* onFree() clears cells of its own block only, which nobody accesses. *)
LEMMA ClearedUntouched ==
  ASSUME Core, Order, hook = "before", NEW t \in Threads, pc[t] = "clear", left[t] > 0,
         NEW u \in Threads, req[u].op = "access"
  PROVE  req[u].at # NextCell(t)
  <1>1. req[t].op = "free" /\ req[t].at \in Bases
    BY RequestType DEF Core, TypeOK, InStep
  <1>2. req[t].at \in freeing /\ req[t].size = block[req[t].at] /\ left[t] <= req[t].size
    BY <1>1 DEF Order, InTurn
  <1>3. PICK b \in Bases \ freeing : req[u].at \in Holds(b)
    BY DEF Order, InTurn
  <1>4. block[req[t].at] \in Nat /\ left[t] \in Nat /\ req[t].at \in Nat
    <2>1. block[req[t].at] \in BlockSizes \cup {0} /\ left[t] \in Nat
      BY <1>1 DEF Core, TypeOK
    <2> QED
      BY <1>1, <2>1, AddressType, HandlersAssumption
  <1>5. NextCell(t) \in Holds(req[t].at)
    BY <1>2, <1>4 DEF NextCell, Holds, BlockOf
  <1> QED
    BY <1>1, <1>2, <1>3, <1>5 DEF Order, BlocksApart

(* The steps of an access, and those that only take or release locks,      *)
(* leave blocks and sizes alone.                                           *)
LEMMA OrderQuietSteps ==
  ASSUME Core, Order, NEW t \in Threads,
         LockPool(t) \/ Read(t) \/ Write(t) \/ LockMap(t) \/ UnlockMap(t) \/ Cleared(t)
  PROVE  Order'
  <1> SUFFICES ASSUME hook' = "before" PROVE Order'
    BY DEF Order
  <1> USE DEF own, shadow, heap, Goto
  <1>1. /\ UNCHANGED <<req, left, sizes, block, freeing, hook, torn>>
        /\ pc[t] # "idle" /\ pc'[t] # "idle" /\ \A u \in Threads \ {t} : pc'[u] = pc[u]
        /\ pc'[t] # "clear" /\ pc[t] \notin {"unlock"}
        /\ req[t].op = "malloc" => pc'[t] # "unlock"
        /\ req[t].op = "free" => (pc'[t] \in {"unremove", "unlock"} <=> pc[t] \in {"unremove", "unlock"})
    BY DEF Core, TypeOK, InStep, LockPool, Read, Write, LockMap, UnlockMap, Cleared
  <1>2. FreedInOrder'
    BY <1>1 DEF Order, FreedInOrder, Quiet, Busy
  <1>3. OneHandler' /\ BlocksApart'
    BY <1>1 DEF Order, OneHandler, BlocksApart, Holds
  <1>4. ASSUME NEW u \in Threads PROVE InTurn(u)'
    BY <1>1 DEF Order, InTurn, Holds
  <1> QED
    BY <1>2, <1>3, <1>4 DEF Order

(* The steps of onMalloc() and onFree() on their block *)
LEMMA OrderBlockSteps ==
  ASSUME Core, Order, NEW t \in Threads,
         Get(t) \/ AssignSize(t) \/ LoadSize(t) \/ ClearCell(t) \/ RemoveEntry(t)
  PROVE  Order'
  <1> SUFFICES ASSUME hook' = "before" PROVE Order'
    BY DEF Order
  <1> USE DEF own, shadow, heap, Goto
  <1>0. /\ req[t].op \in {"malloc", "free"} /\ req[t].at \in Bases
        /\ \A b \in Bases : block[b] \in Nat /\ block[b] # -1
    BY RequestType, HandlersAssumption DEF Core, TypeOK, InStep, Get, AssignSize, LoadSize, ClearCell, RemoveEntry
  <1>1. /\ UNCHANGED <<block, freeing, hook>>
        /\ pc[t] # "idle" /\ pc'[t] # "idle" /\ \A u \in Threads \ {t} : pc'[u] = pc[u] /\ req'[u] = req[u]
        /\ \A u \in Threads : req'[u].op = req[u].op /\ req'[u].at = req[u].at
        /\ \A b \in Bases \ {req[t].at} : sizes'[b] = sizes[b]
        /\ \A u \in Threads \ {t} : left'[u] = left[u]
    BY <1>0 DEF Core, TypeOK, Requests, NoRequest, Get, AssignSize, LoadSize, ClearCell, RemoveEntry
  <1>2. torn' = {}
    <2>1. CASE ClearCell(t)
      <3>1. \A u \in Threads : ~(pc[u] = "write" /\ req[u].at = NextCell(t))
        BY <1>1, <2>1, ClearedUntouched DEF Core, InStep, ClearCell
      <3> QED
        BY <1>1, <2>1, <3>1 DEF Order, FreedInOrder, ClearCell
    <2> QED
      BY <1>1, <2>1 DEF Order, FreedInOrder, Get, AssignSize, LoadSize, RemoveEntry
  <1>3. FreedInOrder'
    BY <1>0, <1>1, <1>2 DEF Order, FreedInOrder, Quiet, Busy
  <1>4. OneHandler' /\ BlocksApart'
    BY <1>1 DEF Order, OneHandler, BlocksApart, Holds
  <1>5. ASSUME NEW u \in Threads, u # t PROVE InTurn(u)'
    <2>1. req[u].op \in {"malloc", "free"} => req[u].at # req[t].at /\ req[u].at \in Bases
      BY <1>0, <1>1, <1>5, RequestType DEF Order, OneHandler, Core, TypeOK
    <2> QED
      BY <1>1, <1>5, <2>1 DEF Order, InTurn, Holds
  <1>6. InTurn(t)'
    <2>1. CASE Get(t)
      BY <1>0, <1>1, <2>1 DEF Order, InTurn, Holds, Core, TypeOK, InStep, Get
    <2>2. CASE AssignSize(t)
      BY <1>0, <1>1, <2>2 DEF Order, InTurn, Holds, Core, TypeOK, InStep, AssignSize
    <2>3. CASE LoadSize(t)
      <3>1. req'[t].size = sizes[req[t].at] /\ left'[t] = sizes[req[t].at] /\ pc'[t] = "clear"
        BY <1>0, <2>3 DEF Core, TypeOK, Requests, NoRequest, LoadSize
      <3> QED
        BY <1>0, <1>1, <2>3, <3>1 DEF Order, InTurn, Core, InStep, LoadSize
    <2>4. CASE ClearCell(t)
      BY <1>0, <1>1, <2>4 DEF Order, InTurn, Core, TypeOK, InStep, ClearCell
    <2>5. CASE RemoveEntry(t)
      BY <1>0, <1>1, <2>5 DEF Order, InTurn, Core, TypeOK, InStep, RemoveEntry
    <2> QED
      BY <2>1, <2>2, <2>3, <2>4, <2>5
  <1> QED
    BY <1>3, <1>4, <1>5, <1>6 DEF Order

(* A block is given out where none is, and freed once no handler works on  *)
(* it.                                                                     *)
LEMMA OrderCalls ==
  ASSUME Core, Order, NEW t \in Threads, Access(t) \/ Malloc(t) \/ Free(t)
  PROVE  Order'
  <1> SUFFICES ASSUME hook' = "before" PROVE Order'
    BY DEF Order
  <1> USE DEF shadow
  <1>0. /\ hook = "before" /\ UNCHANGED <<saved, left, sizes, torn>>
        /\ pc[t] = "idle" /\ req[t].op = "none" /\ pc'[t] = "lock"
        /\ \A u \in Threads \ {t} : pc'[u] = pc[u] /\ req'[u] = req[u]
    BY DEF Access, Malloc, Free, Call, Goto, Core, TypeOK, InStep
  <1>1. CASE Access(t)
    <2>1. PICK a \in Allocated :
            /\ \A b \in freeing : a \notin Holds(b)
            /\ req'[t] = [op |-> "access", at |-> a, size |-> 0]
            /\ UNCHANGED <<block, freeing>>
      BY <1>1 DEF Access, Call, Core, TypeOK, Holds
    <2>2. PICK b \in Bases : a \in Holds(b)
      BY DEF Allocated, Holds
    <2>3. FreedInOrder'
      BY <1>0, <2>1 DEF Order, FreedInOrder, Quiet, Busy
    <2>4. OneHandler' /\ BlocksApart'
      BY <1>0, <2>1 DEF Order, OneHandler, BlocksApart, Holds
    <2>5. ASSUME NEW u \in Threads PROVE InTurn(u)'
      BY <1>0, <2>1, <2>2 DEF Order, InTurn, Holds
    <2> QED
      BY <2>3, <2>4, <2>5 DEF Order
  <1>2. CASE Malloc(t)
    <2>1. PICK b \in Bases, m \in BlockSizes :
            /\ BlockOf(b, m) \cap Allocated = {}
            /\ block' = [block EXCEPT ![b] = m]
            /\ req'[t] = [op |-> "malloc", at |-> b, size |-> m]
            /\ UNCHANGED freeing
      BY <1>2 DEF Malloc, Call, Core, TypeOK
    <2>2. b \in Nat /\ m \in Nat \ {0} /\ b \in BlockOf(b, m)
      BY BlockFacts, HandlersAssumption
    <2>3. block[b] = 0
      <3>1. SUFFICES ASSUME block[b] # 0 PROVE FALSE
        OBVIOUS
      <3>2. block[b] \in Nat \ {0}
        BY <3>1, HandlersAssumption DEF Core, TypeOK
      <3> QED
        BY <2>1, <2>2, <3>2, BlockFacts DEF Allocated
    <2>4. Holds(b) = {} /\ Holds(b)' = BlockOf(b, m) /\ \A c \in Bases \ {b} : Holds(c)' = Holds(c)
      BY <2>1, <2>2, <2>3, BlockFacts DEF Holds, Core, TypeOK
    <2>5. b \notin freeing /\ \A u \in Threads : req[u].op \in {"malloc", "free"} => req[u].at # b
      BY <1>0, <2>3 DEF Order, InTurn, BlocksApart
    <2>6. FreedInOrder'
      <3>1. \A c \in Bases : Quiet(c)' => c # b /\ Quiet(c)
        BY <1>0, <2>1 DEF Quiet, Busy
      <3> QED
        BY <1>0, <2>1, <3>1 DEF Order, FreedInOrder, Core, TypeOK
    <2>7. OneHandler'
      BY <1>0, <2>1, <2>5 DEF Order, OneHandler
    <2>8. BlocksApart'
      <3>1. \A c \in Bases : Holds(c) \cap BlockOf(b, m) = {}
        BY <2>1 DEF Allocated, Holds
      <3> QED
        BY <1>0, <2>1, <2>2, <2>4, <2>5, <3>1 DEF Order, BlocksApart, Core, TypeOK
    <2>9. ASSUME NEW u \in Threads PROVE InTurn(u)'
      <3>1. CASE u = t
        BY <1>0, <2>1, <2>2, <2>5, <3>1 DEF InTurn, Core, TypeOK
      <3>2. CASE u # t
        <4>1. req[u].op = "access" => (\E c \in Bases \ freeing : req[u].at \in Holds(c)')
          BY <1>0, <2>4 DEF Order, InTurn
        <4>2. req[u].op \in {"malloc", "free"} => req[u].at \in Bases /\ block'[req[u].at] = block[req[u].at]
          BY <2>1, <2>5, RequestType DEF Core, TypeOK
        <4> QED
          BY <1>0, <2>1, <3>2, <4>1, <4>2 DEF Order, InTurn
      <3> QED
        BY <3>1, <3>2
    <2> QED
      BY <2>6, <2>7, <2>8, <2>9 DEF Order
  <1>3. CASE Free(t)
    <2>1. PICK b \in Bases \ freeing :
            /\ block[b] # 0
            /\ ~Busy({"access", "malloc"}, BlockOf(b, block[b]))
            /\ freeing' = freeing \cup {b} /\ UNCHANGED block
            /\ req'[t] = [op |-> "free", at |-> b, size |-> 0]
      BY <1>0, <1>3 DEF Free, Call, Core, TypeOK
    <2>2. block[b] \in Nat \ {0} /\ b \in Nat /\ b \in Holds(b)
      BY <2>1, BlockFacts, HandlersAssumption DEF Core, TypeOK, Holds
    <2>3. \A u \in Threads : /\ req[u].op \in {"malloc", "free"} => req[u].at # b
                             /\ req[u].op = "access" => req[u].at \notin Holds(b)
      BY <1>0, <2>1, <2>2 DEF Busy, Holds, Order, InTurn, Core, InStep
    <2>4. sizes[b] = block[b]
      BY <1>0, <2>1, <2>3 DEF Order, FreedInOrder, Quiet, Busy
    <2>5. FreedInOrder'
      <3>1. \A c \in Bases : Quiet(c)' => Quiet(c)
        BY <1>0, <2>1 DEF Quiet, Busy
      <3> QED
        BY <1>0, <2>1, <3>1 DEF Order, FreedInOrder
    <2>6. OneHandler' /\ BlocksApart'
      BY <1>0, <2>1, <2>3 DEF Order, OneHandler, BlocksApart, Holds
    <2>7. ASSUME NEW u \in Threads PROVE InTurn(u)'
      <3>1. CASE u = t
        BY <1>0, <2>1, <2>4, <3>1 DEF InTurn
      <3>2. CASE u # t
        BY <1>0, <2>1, <2>3, <3>2 DEF Order, InTurn, Holds
      <3> QED
        BY <3>1, <3>2
    <2> QED
      BY <2>5, <2>6, <2>7 DEF Order
  <1> QED
    BY <1>1, <1>2, <1>3

(* When a handler returns, what it leaves behind is as its block is. *)
LEMMA OrderReturn ==
  ASSUME Core, Order, NEW t \in Threads, UnlockPool(t)
  PROVE  Order'
  <1> SUFFICES ASSUME hook' = "before" PROVE Order'
    BY DEF Order
  <1> USE DEF shadow
  <1>0. /\ hook = "before" /\ UNCHANGED <<left, sizes, torn>>
        /\ pc[t] = "unlock" /\ pc'[t] = "idle" /\ req'[t].op = "none"
        /\ \A u \in Threads \ {t} : pc'[u] = pc[u] /\ req'[u] = req[u]
    BY DEF UnlockPool, Goto, Core, TypeOK, NoRequest
  <1>1. CASE req[t].op # "free"
    <2>1. UNCHANGED <<block, freeing>>
      BY <1>1 DEF UnlockPool
    <2>2. FreedInOrder'
      <3>1. \A c \in Bases : Quiet(c)' =>
              Quiet(c) \/ (req[t].op = "malloc" /\ req[t].at = c)
        BY <1>0, <1>1 DEF Quiet, Busy
      <3> QED
        BY <1>0, <2>1, <3>1 DEF Order, FreedInOrder, InTurn
    <2>3. OneHandler' /\ BlocksApart'
      BY <1>0, <2>1 DEF Order, OneHandler, BlocksApart, Holds
    <2>4. ASSUME NEW u \in Threads PROVE InTurn(u)'
      BY <1>0, <2>1 DEF Order, InTurn, Holds
    <2> QED
      BY <2>2, <2>3, <2>4 DEF Order
  <1>2. CASE req[t].op = "free"
    <2> DEFINE b == req[t].at
    <2>1. /\ b \in Bases /\ b \in Nat
          /\ block' = [block EXCEPT ![b] = 0] /\ freeing' = freeing \ {b}
      BY <1>0, <1>2, RequestType DEF UnlockPool, Core, TypeOK
    <2>2. /\ b \in freeing /\ sizes[b] = -1
          /\ \A u \in Threads \ {t} : req[u].op \in {"malloc", "free"} => req[u].at # b /\ req[u].at \in Bases
      BY <1>0, <1>2, RequestType DEF Order, InTurn, OneHandler, Core, TypeOK
    <2>3. BlockOf(b, block'[b]) = {} /\ \A c \in Bases \ {b} : Holds(c)' = Holds(c)
      <3>1. block'[b] = 0 /\ \A c \in Bases \ {b} : block'[c] = block[c]
        BY <2>1 DEF Core, TypeOK
      <3> QED
        BY <2>1, <3>1, BlockFacts DEF Holds
    <2>4. FreedInOrder'
      <3>1. \A c \in Bases : Quiet(c)' => Quiet(c) \/ c = b
        BY <1>0 DEF Quiet, Busy
      <3> QED
        BY <1>0, <2>1, <2>2, <3>1 DEF Order, FreedInOrder, Core, TypeOK
    <2>5. OneHandler'
      BY <1>0 DEF Order, OneHandler
    <2>6. BlocksApart'
      <3>1. \A c \in Bases : Holds(c)' = IF c = b THEN {} ELSE Holds(c)
        BY <2>1, <2>3 DEF Holds
      <3>2. \A c \in freeing' : block'[c] # 0
        BY <1>0, <2>1 DEF Order, BlocksApart, Core, TypeOK
      <3> QED
        BY <1>0, <3>1, <3>2 DEF Order, BlocksApart
    <2>7. ASSUME NEW u \in Threads PROVE InTurn(u)'
      <3>1. CASE u = t
        BY <1>0, <3>1 DEF InTurn
      <3>2. CASE u # t
        <4>1. req[u].op = "access" => \E c \in Bases \ freeing' : req[u].at \in Holds(c)'
          BY <1>0, <2>1, <2>2, <2>3 DEF Order, InTurn
        <4>2. req[u].op \in {"malloc", "free"} => block'[req[u].at] = block[req[u].at]
          BY <2>1, <2>2, <3>2 DEF Core, TypeOK
        <4> QED
          BY <1>0, <2>1, <2>2, <3>2, <4>1, <4>2 DEF Order, InTurn
      <3> QED
        BY <3>1, <3>2
    <2> QED
      BY <2>4, <2>5, <2>6, <2>7 DEF Order
  <1> QED
    BY <1>1, <1>2

LEMMA OrderStep == Core /\ Order /\ [Next]_vars => Order'
  <1> SUFFICES ASSUME Core, Order, [Next]_vars PROVE Order'
    OBVIOUS
  <1>1. CASE UNCHANGED vars
    BY <1>1 DEF vars, Order, FreedInOrder, Quiet, Busy, OneHandler, BlocksApart, InTurn, Holds
  <1>2. ASSUME NEW t \in Threads, Access(t) \/ Malloc(t) \/ Free(t) \/ Step(t) PROVE Order'
    BY <1>2, OrderCalls, OrderQuietSteps, OrderBlockSteps, OrderReturn DEF Step
  <1> QED
    BY <1>1, <1>2 DEF Next

(* Called before free(), onFree() tears no cell, and addr2size has the     *)
(* size of every block nobody is making or freeing.                        *)
THEOREM FreesInOrder == Spec => []FreedInOrder
  <1>1. Order => FreedInOrder
    BY DEF Order, FreedInOrder
  <1>2. Spec => []Order
    BY OrderInit, OrderStep, CoreAlways, PTL DEF Spec
  <1> QED
    BY <1>1, <1>2, PTL

----------------------------------------------------------------------------
(* A thread spins while another holds the lock it wants. *)
Waits(t) ==
  \/ pc[t] = "lock" /\ pool[GetAddr(req[t].at)] # Nobody
  \/ pc[t] \in {"maplock", "relock"} /\ mapLock # Nobody

(* Whoever holds a pool lock is past waiting for one, and whoever holds    *)
(* the map's lock waits for nothing.                                       *)
HoldersWork ==
  /\ \A i \in PoolLocks :
       pool[i] # Nobody => /\ pc[pool[i]] \notin {"idle", "lock"}
                           /\ GetAddr(req[pool[i]].at) = i
  /\ mapLock # Nobody => pc[mapLock] \in {"get", "unmap", "remove", "unremove"}

(* While handlers run, at least one of them can take its next step.        *)
NeverAllWait ==
  (\E t \in Threads : pc[t] # "idle") => \E t \in Threads : pc[t] # "idle" /\ ~Waits(t)

LEMMA HoldersWorkInit == Init => HoldersWork
  BY DEF Init, HoldersWork

(* One lock is taken or released: its holder is the thread that steps.     *)
LEMMA HoldersWorkLocks ==
  ASSUME Core, HoldersWork, NEW t \in Threads,
         LockPool(t) \/ LockMap(t) \/ UnlockMap(t) \/ UnlockPool(t)
  PROVE  HoldersWork'
  <1> USE DEF own, shadow, heap, Goto
  <1>0. /\ \A u \in Threads : GetAddr(req[u].at) \in PoolLocks
        /\ Nobody \notin Threads
        /\ \A i \in PoolLocks : pool[i] # Nobody => pool[i] \in Threads
        /\ mapLock # Nobody => mapLock \in Threads
    BY RequestType, GetAddrType, HandlersAssumption DEF Core, TypeOK
  <1>1. CASE LockPool(t)
    BY <1>0, <1>1 DEF Core, TypeOK, HoldersWork, LockPool
  <1>2. CASE LockMap(t)
    BY <1>0, <1>2 DEF Core, TypeOK, HoldersWork, LockMap
  <1>3. CASE UnlockMap(t)
    <2>1. mapLock = t
      BY <1>3 DEF Core, InStep, UnlockMap
    <2> QED
      BY <1>0, <1>3, <2>1 DEF Core, TypeOK, HoldersWork, UnlockMap
  <1>4. CASE UnlockPool(t)
    <2>1. pool[GetAddr(req[t].at)] = t /\ mapLock # t
      BY <1>0, <1>4 DEF Core, InStep, HoldersWork, UnlockPool
    <2>2. \A i \in PoolLocks : pool[i] = t => i = GetAddr(req[t].at)
      BY <1>0 DEF HoldersWork
    <2> QED
      BY <1>0, <1>4, <2>1, <2>2 DEF Core, TypeOK, HoldersWork, UnlockPool
  <1> QED
    BY <1>1, <1>2, <1>3, <1>4

(* Every other step keeps both locks, the address, and its side of them.   *)
LEMMA HoldersWorkElse ==
  ASSUME Core, HoldersWork, NEW t \in Threads,
         \/ Access(t) \/ Malloc(t) \/ Free(t)
         \/ Read(t) \/ Write(t) \/ Get(t) \/ AssignSize(t)
         \/ LoadSize(t) \/ ClearCell(t) \/ Cleared(t) \/ RemoveEntry(t)
  PROVE  HoldersWork'
  <1> USE DEF own, shadow, heap, Goto
  <1>0. /\ Nobody \notin Threads
        /\ \A i \in PoolLocks : pool[i] # Nobody => pool[i] \in Threads
        /\ mapLock # Nobody => mapLock \in Threads
        /\ pool' = pool /\ mapLock' = mapLock
    BY HandlersAssumption
       DEF Core, TypeOK, Access, Malloc, Free, Call, Read, Write, Get, AssignSize,
           LoadSize, ClearCell, Cleared, RemoveEntry
  <1>1. CASE Access(t) \/ Malloc(t) \/ Free(t)
    <2>1. PICK r : pc[t] = "idle" /\ Call(t, r)
      BY <1>1 DEF Access, Malloc, Free
    <2> QED
      BY <1>0, <2>1 DEF Core, TypeOK, HoldersWork, Call
  <1>2. CASE LoadSize(t)
    <2>1. \A u \in Threads : req'[u].at = req[u].at
      <3>1. req[t].op = "free"
        BY <1>2 DEF Core, InStep, LoadSize
      <3>2. req[t] \in [op : {"malloc", "free"}, at : Bases, size : BlockSizes \cup {0}]
        BY <3>1 DEF Core, TypeOK, Requests, NoRequest
      <3> QED
        BY <1>2, <3>2 DEF Core, TypeOK, LoadSize
    <2> QED
      BY <1>0, <1>2, <2>1 DEF Core, TypeOK, HoldersWork, LoadSize
  <1>3. CASE Read(t) \/ Write(t) \/ Get(t) \/ AssignSize(t) \/ ClearCell(t) \/ Cleared(t) \/ RemoveEntry(t)
    <2>1. /\ req' = req
          /\ pc[t] \notin {"idle", "lock"}
          /\ \E l \in {"write", "unlock", "unmap", "clear", "relock", "unremove"} :
               pc' = [pc EXCEPT ![t] = l]
          /\ pc[t] \in {"get", "unmap", "remove", "unremove"} => pc'[t] \in {"unmap", "unremove"}
      BY <1>3 DEF Core, TypeOK, Read, Write, Get, AssignSize, ClearCell, Cleared, RemoveEntry
    <2> QED
      BY <1>0, <2>1 DEF Core, TypeOK, HoldersWork
  <1> QED
    BY <1>1, <1>2, <1>3

LEMMA HoldersWorkStep == Core /\ HoldersWork /\ [Next]_vars => HoldersWork'
  <1> SUFFICES ASSUME Core, HoldersWork, [Next]_vars PROVE HoldersWork'
    OBVIOUS
  <1>1. CASE UNCHANGED vars
    BY <1>1 DEF vars, HoldersWork
  <1>2. ASSUME NEW t \in Threads, Access(t) \/ Malloc(t) \/ Free(t) \/ Step(t)
        PROVE HoldersWork'
    BY <1>2, HoldersWorkLocks, HoldersWorkElse DEF Step
  <1> QED
    BY <1>1, <1>2 DEF Next

(* The handlers never all wait for each other, for any number of threads   *)
(* and locks and although many addresses share a lock: the pool's lock is  *)
(* taken first and the map's inside it, as the generated code nests them   *)
(* (generate_cpp.py, lines 195-218; rtLib.cpp, lines 498-526).             *)
THEOREM HandlersNeverDeadlock == Spec => []NeverAllWait
  <1>1. Core /\ HoldersWork => NeverAllWait
    <2> SUFFICES ASSUME Core, HoldersWork, NEW t \in Threads, pc[t] # "idle"
                 PROVE  \E u \in Threads : pc[u] # "idle" /\ ~Waits(u)
      BY DEF NeverAllWait
    <2>1. CASE mapLock # Nobody
      BY <2>1 DEF Core, TypeOK, HoldersWork, Waits
    <2>2. CASE mapLock = Nobody /\ Waits(t)
      <3> DEFINE u == pool[GetAddr(req[t].at)]
      <3>1. GetAddr(req[t].at) \in PoolLocks
        BY RequestType, GetAddrType DEF Core, TypeOK
      <3>2. u # Nobody
        BY <2>2 DEF Waits
      <3>3. u \in Threads /\ pc[u] \notin {"idle", "lock"}
        BY <3>1, <3>2 DEF Core, TypeOK, HoldersWork
      <3> QED
        BY <2>2, <3>3 DEF Waits
    <2> QED
      BY <2>1, <2>2
  <1>2. Spec => []HoldersWork
    BY HoldersWorkInit, HoldersWorkStep, CoreAlways, PTL DEF Spec
  <1> QED
    BY <1>1, <1>2, CoreAlways, PTL
----------------------------------------------------------------------------
(* How far a handler has come, backwards                                   *)
Ahead ==
  [l \in Steps |->
    CASE l = "idle" -> 0 [] l = "unlock" -> 1 [] l = "unremove" -> 2 [] l = "remove" -> 3
      [] l = "relock" -> 4 [] l = "clear" -> 5 [] l = "load" -> 6 [] l = "unmap" -> 7
      [] l = "get" -> 8 [] l = "maplock" -> 9 [] l = "lock" -> 10
      [] l = "assign" -> 2 [] l = "write" -> 2 [] l = "read" -> 3]

(* Every step of a handler brings it closer to its return, and no other    *)
(* thread sets it back: the only loop is the one of remove_range(), which  *)
(* counts down the cells that are left (rtLib.cpp, lines 305-313).  With   *)
(* HandlersNeverDeadlock this is the safety half of HandlersReturn.        *)
HandlersAdvance ==
  [][\A t \in Threads : Step(t) =>
       /\ \/ Ahead[pc'[t]] < Ahead[pc[t]]
          \/ pc[t] = "clear" /\ pc'[t] = "clear" /\ left[t] \in Nat /\ left'[t] = left[t] - 1 /\ left'[t] >= 0
       /\ \A u \in Threads \ {t} : pc'[u] = pc[u] /\ left'[u] = left[u]]_vars

LEMMA StepAdvances ==
  ASSUME Core, NEW t \in Threads, Step(t)
  PROVE  /\ \/ Ahead[pc'[t]] < Ahead[pc[t]]
            \/ pc[t] = "clear" /\ pc'[t] = "clear" /\ left[t] \in Nat /\ left'[t] = left[t] - 1 /\ left'[t] >= 0
         /\ \A u \in Threads \ {t} : pc'[u] = pc[u] /\ left'[u] = left[u]
  <1> USE DEF Goto, own
  <1>0. TypeOK /\ InStep(t)
    BY DEF Core
  <1>1. \A u \in Threads \ {t} : pc'[u] = pc[u] /\ left'[u] = left[u]
    BY <1>0 DEF TypeOK, Step, LockPool, Read, Write, LockMap, Get, UnlockMap, AssignSize, LoadSize,
       ClearCell, Cleared, RemoveEntry, UnlockPool
  <1>2. CASE ClearCell(t)
    BY <1>0, <1>1, <1>2 DEF TypeOK, ClearCell
  <1>3. CASE ~ClearCell(t)
    <2>1. LET after == pc'[t] IN
          \/ pc[t] = "lock" /\ after \in {"read", "maplock"}
          \/ pc[t] = "read" /\ after = "write"
          \/ pc[t] \in {"write", "assign", "unremove"} /\ after = "unlock"
          \/ pc[t] = "maplock" /\ after = "get"
          \/ pc[t] = "relock" /\ after = "remove"
          \/ pc[t] = "get" /\ after = "unmap"
          \/ pc[t] = "unmap" /\ after \in {"assign", "load"}
          \/ pc[t] = "load" /\ after = "clear"
          \/ pc[t] = "clear" /\ after = "relock"
          \/ pc[t] = "remove" /\ after = "unremove"
          \/ pc[t] = "unlock" /\ after = "idle"
      BY <1>0, <1>3 DEF TypeOK, Step, LockPool, Read, Write, LockMap, Get, UnlockMap, AssignSize,
         LoadSize, Cleared, RemoveEntry, UnlockPool
    <2> QED
      BY <1>1, <2>1 DEF Ahead, Steps
  <1> QED
    BY <1>2, <1>3

THEOREM HandlersShorten == Spec => HandlersAdvance
  <1>1. Core /\ [Next]_vars =>
          [\A t \in Threads : Step(t) =>
             /\ \/ Ahead[pc'[t]] < Ahead[pc[t]]
                \/ pc[t] = "clear" /\ pc'[t] = "clear" /\ left[t] \in Nat /\ left'[t] = left[t] - 1 /\ left'[t] >= 0
             /\ \A u \in Threads \ {t} : pc'[u] = pc[u] /\ left'[u] = left[u]]_vars
    BY StepAdvances
  <1> QED
    BY <1>1, CoreAlways, PTL DEF Spec, HandlersAdvance
=============================================================================
