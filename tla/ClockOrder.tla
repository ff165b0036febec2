----------------------------- MODULE ClockOrder -----------------------------
(***************************************************************************)
(* FastTrack with an observer that notes what the accesses of the program  *)
(* carry.  The handlers of loads and stores stamp an address with the      *)
(* clock C[u][u] of the accessing thread u; what that access is for the    *)
(* program is the count know[u][u], which no wrap and no race touches.     *)
(* Comparing a stamp with a row of C decides an order, and the observer is *)
(* there to ask whether the program has it.                                *)
(***************************************************************************)
EXTENDS FastTrack

VARIABLES
  stamps,        \* what each thread's accesses may have carried so far
  spoilt         \* the threads whose clock a creator's row has overwritten

observed == <<vars, stamps, spoilt>>

Stamp(u) == [clock |-> C[u][u], count |-> know[u][u], spoilt |-> u \in spoilt]

(* onCreate of another thread stores the row of a thread that has counted *)
Overwritten(u) ==
  \E t \in Threads \ {u} :
    pc[t] = "store" /\ pc'[t] # "store" /\ Target(t) = u /\ C'[u][u] # C[u][u]

Observe ==
  /\ spoilt' = spoilt \cup {u \in Threads : Overwritten(u)}
  /\ stamps' = [u \in Threads |-> stamps[u] \cup IF Runs(u)' THEN {Stamp(u)'} ELSE {}]

OrderInit ==
  /\ Init
  /\ spoilt = {}
  /\ stamps = [u \in Threads |-> IF Runs(u) THEN {Stamp(u)} ELSE {}]

OrderNext == Next /\ Observe

OrderSpec == OrderInit /\ [][OrderNext]_observed

(* An order that the stamps claim is there.  Where t's row covers the      *)
(* stamp of an access of u (operator<= of line 53), t has truly heard from *)
(* u since that access began its count: rows that two handlers change at   *)
(* once, waits nobody sees and other threads' clocks never feign it.       *)
(* The code does feign an order for three kinds of access, which the       *)
(* property leaves out: those u makes when its clock has wrapped (lines    *)
(* 5-8, 21), whose stamp is below what others hold of u; those it makes    *)
(* after a creator's row overwrote what it had counted (lines 64-67),      *)
(* whose stamp is too low; and those before its first count, whose stamp 0 *)
(* every row covers.  Nor does it speak of the comparisons that put one    *)
(* thread's stamp next to another's own clock (W in lines 28-38 and 50-58) *)
(* or stamp one reader's entry with the clock of another (line 33).        *)
NoOrderInvented ==
  \A t, u \in Threads : \A s \in stamps[u] :
    ~s.spoilt /\ s.count <= Top /\ s.clock <= C[t][u] => s.count <= know[t][u]

(* Its inductive invariant: the clock of a thread that is neither spoilt   *)
(* nor wrapped is its count, but while it is counted up.                   *)
Trusted(u) == u \notin spoilt /\ know[u][u] <= Top
Counting(u) == \E t \in Threads : pc[t] = "storeTick" /\ Counted(t) = u

OwnClocks ==
  \A u \in Threads : Trusted(u) =>
    /\ ~Counting(u) => C[u][u] = know[u][u]
    /\ \A t \in Threads : pc[t] = "storeTick" /\ Counted(t) = u =>
         value[t] = C[u][u] /\ know[u][u] = value[t] + 1
    /\ pc[u] = "store" /\ Target(u) = u => row[u][u] = C[u][u]

StampsTrue ==
  \A u \in Threads : \A s \in stamps[u] :
    /\ s \in [clock : Clocks, count : Nat, spoilt : BOOLEAN]
    /\ ~s.spoilt /\ s.count <= Top => s.clock = s.count

OrderInv == ClockInv /\ ReachInv /\ OwnClocks /\ StampsTrue
=============================================================================
