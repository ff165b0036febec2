----------------------------- MODULE ShadowMap -----------------------------
(***************************************************************************)
(* What a shadow map promises to the generated event handlers: every key   *)
(* owns one cell, which holds Zero until somebody writes it, and a request *)
(* on a key takes effect on that cell at one instant between its begin and *)
(* its end.  PageMap (rtLib/PageMap.h behind universe::map of rtLib.cpp)   *)
(* is shown to implement this module.                                      *)
(***************************************************************************)
EXTENDS Naturals

CONSTANTS
  Threads,   \* the application threads that run handlers
  Keys,      \* the keys in use
  Values,    \* the values of a cell
  Zero,      \* the value of a cell nobody has written
  NoRequest  \* what an idle thread is doing to the map

(* The requests of rtLib.cpp on one key: a read or a write through the     *)
(* reference that get() returns, getOrDefault() (a peek) and one step of   *)
(* remove_range(), both of which go through test().                        *)
Requests ==
  [kind : {"read", "peek", "erase"}, key : Keys] \cup [kind : {"write"}, key : Keys, val : Values]

VARIABLES
  mem,       \* the cell of every key
  request,   \* the request a thread is executing
  result     \* the value a thread's last read or peek returned

vars == <<mem, request, result>>

Init ==
  /\ mem = [k \in Keys |-> Zero]
  /\ request = [t \in Threads |-> NoRequest]
  /\ result = [t \in Threads |-> Zero]

Begin(t) ==
  /\ request[t] = NoRequest
  /\ \E r \in Requests : request' = [request EXCEPT ![t] = r]
  /\ UNCHANGED <<mem, result>>

Assigned(r) == IF r.kind = "write" THEN r.val ELSE Zero

(* getOrDefault() of a key without a cell returns a reference to its own   *)
(* argument (rtLib.cpp, lines 164-184), gone when the caller reads it: a   *)
(* peek is only of use for a key that somebody has written.                *)
Answers(r) == IF r.kind = "peek" /\ mem[r.key] = Zero THEN Values ELSE {mem[r.key]}

Finish(t) ==
  /\ request[t] # NoRequest
  /\ LET r == request[t] IN
       /\ mem' = IF r.kind \in {"write", "erase"}
                   THEN [mem EXCEPT ![r.key] = Assigned(r)] ELSE mem
       /\ IF r.kind \in {"read", "peek"}
            THEN \E v \in Answers(r) : result' = [result EXCEPT ![t] = v]
            ELSE UNCHANGED result
  /\ request' = [request EXCEPT ![t] = NoRequest]

Next == \E t \in Threads : Begin(t) \/ Finish(t)

Spec == Init /\ [][Next]_vars
=============================================================================
