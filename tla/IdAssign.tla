------------------------------ MODULE IdAssign ------------------------------
(***************************************************************************)
(* What get_id() promises the handlers: a pthread_t is given one small id, *)
(* the next unused one, and every later question about it is answered with *)
(* that id.  Ids index the bit vectors and arrays of an analysis, so that  *)
(* they run from 1 to the length N its threadid type declares.             *)
(***************************************************************************)
EXTENDS Naturals, FiniteSets

CONSTANTS Callers, Pids, NoPid, N

VARIABLES
  asked,    \* the pthread_t a caller wants the id of, or NoPid
  answer,   \* the last id each caller was given
  id        \* the id of each pthread_t, 0 when it has none

vars == <<asked, answer, id>>

Registered == {p \in Pids : id[p] # 0}

Init ==
  /\ asked = [c \in Callers |-> NoPid]
  /\ answer = [c \in Callers |-> 0]
  /\ id = [p \in Pids |-> 0]

Ask(c) ==
  /\ asked[c] = NoPid
  /\ \E p \in Pids : asked' = [asked EXCEPT ![c] = p]
  /\ UNCHANGED <<answer, id>>

(* A pthread_t somebody asks about gets the least id that is not in use. *)
Register(c) ==
  /\ asked[c] # NoPid
  /\ id[asked[c]] = 0
  /\ \E i \in 1 .. N :
       /\ \A j \in 1 .. N : j < i <=> \E p \in Pids : id[p] = j
       /\ id' = [id EXCEPT ![asked[c]] = i]
  /\ UNCHANGED <<asked, answer>>

Answer(c) ==
  /\ asked[c] # NoPid
  /\ id[asked[c]] # 0
  /\ answer' = [answer EXCEPT ![c] = id[asked[c]]]
  /\ asked' = [asked EXCEPT ![c] = NoPid]
  /\ UNCHANGED id

Next == \E c \in Callers : Ask(c) \/ Register(c) \/ Answer(c)

Spec == Init /\ [][Next]_vars

(* Where N is as large as the number of threads, every question is answered. *)
Fairness == \A c \in Callers : WF_vars(Register(c) \/ Answer(c))
=============================================================================
