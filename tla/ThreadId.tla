------------------------------ MODULE ThreadId ------------------------------
(***************************************************************************)
(* get_id() of the generated runtime for analyses that name threads other  *)
(* than the running one, as fast_track does for pthread_create and join    *)
(* (the slot table of cxx_rtlib_template.ctt).  Slot i holds the pthread_t *)
(* whose id is i.  Handlers of all threads look through the table without  *)
(* its lock; who finds nothing looks again under tidlock and claims the    *)
(* first free slot.  A slot is never given back.                           *)
(*                                                                         *)
(* One action is one access to a slot or to the lock.  A full table makes  *)
(* get_id() throw with tidlock held; an application that catches the       *)
(* exception goes on running its other threads.                            *)
(***************************************************************************)
EXTENDS Naturals, FiniteSets

CONSTANTS
  Callers,   \* the threads that run handlers
  Pids,      \* the pthread_t values handlers ask about
  NoPid,     \* 0, the mark of a free slot
  Free,      \* tidlock is not held
  N          \* the length of the threadid type: one slot each

ASSUME TableAssumption ==
  /\ N \in Nat \ {0}
  /\ NoPid \notin Pids
  /\ Free \notin Callers

VARIABLES
  pc,       \* the next access of each caller
  asked,    \* its argument
  i,        \* the slot it looks at next
  answer,   \* the last id it was given, 0 before
  idx,      \* the table
  tidlock   \* the holder of the spin lock, or Free

vars == <<pc, asked, i, answer, idx, tidlock>>

Slots == 1 .. N
Goto(c, label) == pc' = [pc EXCEPT ![c] = label]

Init ==
  /\ pc = [c \in Callers |-> "idle"]
  /\ asked = [c \in Callers |-> NoPid]
  /\ i = [c \in Callers |-> 1]
  /\ answer = [c \in Callers |-> 0]
  /\ idx = [s \in Slots |-> NoPid]
  /\ tidlock = Free

Call(c) ==
  /\ pc[c] = "idle"
  /\ \E p \in Pids : asked' = [asked EXCEPT ![c] = p]
  /\ i' = [i EXCEPT ![c] = 1]
  /\ Goto(c, "scan")
  /\ UNCHANGED <<answer, idx, tidlock>>

(* Definitions named ...Bug are slips the checks must catch: each stands in *)
(* for the definition after it when the properties are tested.             *)
ReturnBug(c) ==              \* the index of the slot, not the id after it
  /\ answer' = [answer EXCEPT ![c] = i[c] - 1]
  /\ asked' = [asked EXCEPT ![c] = NoPid]
  /\ Goto(c, "idle")

Return(c) ==
  /\ answer' = [answer EXCEPT ![c] = i[c]]
  /\ asked' = [asked EXCEPT ![c] = NoPid]
  /\ Goto(c, "idle")

(* The look through the table without the lock *)
ScanHit(c) ==
  /\ pc[c] = "scan"
  /\ idx[i[c]] = asked[c]
  /\ Return(c)
  /\ UNCHANGED <<i, idx, tidlock>>

ScanForeverBug(c) ==         \* waits for somebody else to register the thread
  /\ pc[c] = "scan"
  /\ idx[i[c]] # asked[c]
  /\ i' = [i EXCEPT ![c] = IF @ < N THEN @ + 1 ELSE 1]
  /\ UNCHANGED <<pc, asked, answer, idx, tidlock>>

ScanOneBug(c) ==             \* goes for the lock at the first slot that differs
  /\ pc[c] = "scan"
  /\ idx[i[c]] # asked[c]
  /\ Goto(c, "lock")
  /\ UNCHANGED <<asked, i, answer, idx, tidlock>>

ScanMiss(c) ==
  /\ pc[c] = "scan"
  /\ idx[i[c]] # asked[c]
  /\ IF i[c] < N THEN i' = [i EXCEPT ![c] = @ + 1] /\ UNCHANGED pc
                 ELSE Goto(c, "lock") /\ UNCHANGED i
  /\ UNCHANGED <<asked, answer, idx, tidlock>>

LockBug(c) ==                \* the lock does not wait
  /\ pc[c] = "lock"
  /\ tidlock' = c
  /\ i' = [i EXCEPT ![c] = 1]
  /\ Goto(c, "rescan")
  /\ UNCHANGED <<asked, answer, idx>>

Lock(c) ==
  /\ pc[c] = "lock"
  /\ tidlock = Free
  /\ tidlock' = c
  /\ i' = [i EXCEPT ![c] = 1]
  /\ Goto(c, "rescan")
  /\ UNCHANGED <<asked, answer, idx>>

(* The second look, under the lock, stops at the pthread_t or at a free slot. *)
RescanFound(c) ==
  /\ pc[c] = "rescan"
  /\ idx[i[c]] = asked[c]
  /\ Goto(c, "unlock")
  /\ UNCHANGED <<asked, i, answer, idx, tidlock>>

RescanFree(c) ==
  /\ pc[c] = "rescan"
  /\ idx[i[c]] = NoPid
  /\ Goto(c, "claim")
  /\ UNCHANGED <<asked, i, answer, idx, tidlock>>

(* Past the last slot it throws "Unexpected" and keeps the lock. *)
RescanTaken(c) ==
  /\ pc[c] = "rescan"
  /\ idx[i[c]] \notin {asked[c], NoPid}
  /\ IF i[c] < N THEN i' = [i EXCEPT ![c] = @ + 1] /\ UNCHANGED pc
                 ELSE Goto(c, "threw") /\ UNCHANGED i
  /\ UNCHANGED <<asked, answer, idx, tidlock>>

Claim(c) ==
  /\ pc[c] = "claim"
  /\ idx' = [idx EXCEPT ![i[c]] = asked[c]]
  /\ Goto(c, "unlock")
  /\ UNCHANGED <<asked, i, answer, tidlock>>

Unlock(c) ==
  /\ pc[c] = "unlock"
  /\ tidlock' = Free
  /\ Return(c)
  /\ UNCHANGED <<i, idx>>

Search(c) ==
  \/ ScanHit(c) \/ ScanMiss(c)
  \/ Lock(c) \/ RescanFound(c) \/ RescanFree(c) \/ RescanTaken(c) \/ Claim(c) \/ Unlock(c)

Next == \E c \in Callers : Call(c) \/ Search(c)

Spec == Init /\ [][Next]_vars

(* A thread inside get_id() keeps running; the spin lock is not fair. *)
FairSpec == Spec /\ \A c \in Callers : WF_vars(Search(c))

----------------------------------------------------------------------------
(* Type invariant of the slot table (cxx_rtlib_template.ctt, line 267)     *)
TypeOK ==
  /\ pc \in [Callers -> {"idle", "scan", "lock", "rescan", "claim", "unlock", "threw"}]
  /\ asked \in [Callers -> Pids \cup {NoPid}]
  /\ i \in [Callers -> Slots]
  /\ answer \in [Callers -> 0 .. N]
  /\ idx \in [Slots -> Pids \cup {NoPid}]
  /\ tidlock \in Callers \cup {Free}
  /\ \A c \in Callers : asked[c] = NoPid <=> pc[c] = "idle"

(* No pthread_t owns two slots, although any number of threads may ask for *)
(* its first id at once (a parent for its child, the child for itself):    *)
(* the second look of lines 277-289 finds the slot the others have claimed.*)
OneSlotPerPid == \A s, u \in Slots : idx[s] = idx[u] /\ idx[s] # NoPid => s = u

(* A claimed slot is never overwritten (line 284): the clocks and lock     *)
(* sets an analysis keeps under an id stay those of one thread.            *)
SlotsStay == [][\A s \in Slots : idx[s] # NoPid => idx'[s] = idx[s]]_vars

(* The slot of a pthread_t, 0 while it has none *)
IdOf(p) == IF \E s \in Slots : idx[s] = p THEN CHOOSE s \in Slots : idx[s] = p ELSE 0
Ids == [p \in Pids |-> IdOf(p)]

NobodyThrew == \A c \in Callers : pc[c] # "threw"

(* After a full table has made a caller throw with tidlock held (line 289) *)
(* the threads that have an id are still served: they take no lock.        *)
RegisteredServed ==
  \A c \in Callers :
    (pc[c] = "scan" /\ i[c] = 1 /\ IdOf(asked[c]) # 0) ~> (pc[c] = "idle")

(* The inductive invariant: slots are filled from the first one on, and    *)
(* the caller under the lock has passed only slots taken by others.        *)
Dense == \A s, u \in Slots : s < u /\ idx[s] = NoPid => idx[u] = NoPid

Holding(c) == pc[c] \in {"rescan", "claim", "unlock", "threw"}

Searched(c) ==
  /\ Holding(c) => tidlock = c
  /\ pc[c] \in {"rescan", "claim"} =>
       \A s \in Slots : s < i[c] => idx[s] \notin {asked[c], NoPid}
  /\ pc[c] = "claim" => idx[i[c]] = NoPid
  /\ pc[c] = "unlock" => idx[i[c]] = asked[c]

IInv == TypeOK /\ OneSlotPerPid /\ Dense /\ \A c \in Callers : Searched(c)

Assign == INSTANCE IdAssign WITH id <- Ids

(* get_id() hands out ids as IdAssign does: dense, one for each pthread_t, *)
(* and the same one to every caller.  As long as the table is never found   *)
(* full each call returns, although the spin lock is unfair: a pthread_t   *)
(* takes the lock for its first id only, and the callers that wait for it  *)
(* then are finitely many (lines 269-290).                                 *)
ImplementsIdAssignSafely == Assign!Spec
ImplementsIdAssign == []NobodyThrew => Assign!Fairness
=============================================================================
