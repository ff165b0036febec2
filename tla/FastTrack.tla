------------------------------ MODULE FastTrack ------------------------------
(***************************************************************************)
(* The fast_track analysis (G-parser/algorithm/ffmpeg/fast_track.txt, the  *)
(* same in memcached, sort and splash): the vector clocks of threads and   *)
(* locks, and the epochs of the addresses.                                 *)
(*                                                                         *)
(* The handlers of locks, creation and joins take no lock.  They combine   *)
(* and count rows of C that other threads may be changing: the handler of  *)
(* pthread_create runs after the call, when the new thread may already be  *)
(* inside a handler of its own.  A row is therefore loaded and stored in   *)
(* two actions, and what another thread stored in between is lost.  (The   *)
(* code goes through a row entry by entry; entries never mix and do not    *)
(* decide what runs, so that each of them lives through the same schedules *)
(* as here.)  The handlers of loads and stores hold the pool lock of the   *)
(* address: one action each.                                               *)
(***************************************************************************)
EXTENDS Integers

CONSTANTS
  N,                 \* thread ids are 1 .. N; thread 1 begins
  Mutexes, RWLocks,
  CondMutexes,       \* the mutexes threads wait on a condition with
  Addrs,
  Prompt,            \* TRUE: a new thread does nothing before its onCreate
  Top,               \* the largest clock, 32767 for the int16 of lines 5-8
  MaxTicks           \* bound: no clock counts beyond this

Threads == 1 .. N
Locks == Mutexes \cup RWLocks
Clocks == -(Top + 1) .. Top

ASSUME FastTrackAssumption ==
  /\ N \in Nat \ {0}
  /\ Mutexes \cap RWLocks = {}
  /\ CondMutexes \subseteq Mutexes
  /\ Prompt \in BOOLEAN
  /\ Top \in Nat /\ MaxTicks \in Nat

VARIABLES
  pc,            \* the next step of the handler each thread is in
  op,            \* that handler and its second argument
  row, value,    \* the row and the clock it has loaded
  C, L,          \* the clocks of threads and locks
  R, W, RE,      \* the reads, the write and the reader of each address
  life, mode,    \* the program: its threads, and how they hold locks
  know, pub,     \* history: what C and L are to tell, counted without end
  users          \* history: who accessed an address since its RE was last 0

handler == <<pc, op, row, value>>
epochs == <<R, W, RE, users>>
program == <<life, mode>>
vars == <<handler, C, L, epochs, program, know, pub>>

Row == [Threads -> Clocks]
Zero == [u \in Threads |-> 0]
Join(r, s) == [u \in Threads |-> IF r[u] > s[u] THEN r[u] ELSE s[u]]   \* operator|=
Leq(r, s) == \A u \in Threads : r[u] <= s[u]                           \* operator<=
Inc(c) == IF c = Top THEN -(Top + 1) ELSE c + 1                        \* int16 ++

NoOp == [what |-> "none", arg |-> 0]
Ops == [what : {"onLock", "onUnlock", "wake"}, arg : Locks]
         \cup [what : {"onCreate", "onDestroy"}, arg : Threads] \cup {NoOp}

Is(t, what) == op[t].what = what
Goto(t, step) == pc' = [pc EXCEPT ![t] = step]
Enter(t, what, arg, step) ==
  /\ op' = [op EXCEPT ![t] = [what |-> what, arg |-> arg]]
  /\ Goto(t, step)
  /\ UNCHANGED <<row, value>>
Leave(t) ==
  /\ op' = [op EXCEPT ![t] = NoOp]
  /\ Goto(t, "idle")
  /\ UNCHANGED <<row, value>>

Init ==
  /\ pc = [t \in Threads |-> "idle"]
  /\ op = [t \in Threads |-> NoOp]
  /\ row = [t \in Threads |-> Zero]
  /\ value = [t \in Threads |-> 0]
  /\ C = [t \in Threads |-> Zero]
  /\ L = [l \in Locks |-> Zero]
  /\ R = [a \in Addrs |-> Zero]
  /\ W = [a \in Addrs |-> 0]
  /\ RE = [a \in Addrs |-> 0]
  /\ life = [t \in Threads |-> IF t = 1 THEN "running" ELSE "unborn"]
  /\ mode = [t \in Threads |-> [l \in Locks |-> "none"]]
  /\ know = [t \in Threads |-> Zero]
  /\ pub = [l \in Locks |-> Zero]
  /\ users = [a \in Addrs |-> {}]

BeingCreated(t) ==
  \E g \in Threads : op[g] = [what |-> "onCreate", arg |-> t] /\ pc[g] \in {"load", "store"}

Runs(t) == pc[t] = "idle" /\ life[t] = "running" /\ (Prompt => ~BeingCreated(t))

Available(l, m) ==
  \A u \in Threads : mode[u][l] # "write" /\ (m = "write" => mode[u][l] # "read")

(* The handlers' arithmetic on rows.  Which row a handler changes, what it *)
(* merges into it, and whose clock it counts up at its end:                *)
Target(t) == IF Is(t, "onCreate") THEN op[t].arg ELSE t
Merged(t) ==
  IF Is(t, "onLock") THEN L[op[t].arg] ELSE IF Is(t, "onCreate") THEN C[t] ELSE C[op[t].arg]
Counted(t) == IF Is(t, "onDestroy") THEN op[t].arg ELSE t

(* Definitions named ...Bug are slips the checks must catch: each stands in *)
(* for the definition after it when the properties are tested.             *)
LoadRowBug(t) ==             \* = where the handlers say |=
  /\ pc[t] = "load"
  /\ row' = [row EXCEPT ![t] = Merged(t)]
  /\ Goto(t, "store")
  /\ UNCHANGED <<op, value, C, L, epochs, program, know, pub>>

LoadRow(t) ==
  /\ pc[t] = "load"
  /\ row' = [row EXCEPT ![t] = Join(C[Target(t)], Merged(t))]
  /\ Goto(t, "store")
  /\ UNCHANGED <<op, value, C, L, epochs, program, know, pub>>

StoreRow(t) ==
  /\ pc[t] = "store"
  /\ C' = [C EXCEPT ![Target(t)] = row[t]]
  /\ IF Is(t, "onLock") THEN Leave(t) ELSE Goto(t, "loadTick") /\ UNCHANGED <<op, row, value>>
  /\ UNCHANGED <<L, epochs, program, know, pub>>

LoadTick(t) ==
  /\ pc[t] = "loadTick"
  /\ value' = [value EXCEPT ![t] = C[Counted(t)][Counted(t)]]
  /\ know' = [know EXCEPT ![Counted(t)][Counted(t)] = @ + 1]
  /\ Goto(t, "storeTick")
  /\ UNCHANGED <<op, row, C, L, epochs, program, pub>>

StoreTick(t) ==
  /\ pc[t] = "storeTick"
  /\ C' = [C EXCEPT ![Counted(t)][Counted(t)] = Inc(value[t])]
  /\ IF Is(t, "onUnlock") THEN Goto(t, "release") /\ UNCHANGED <<op, row, value>> ELSE Leave(t)
  /\ UNCHANGED <<L, epochs, program, know, pub>>

(* A lock call, and onLock after it *)
Acquire(t) ==
  /\ Runs(t)
  /\ \E l \in Locks, m \in {"read", "write"} :
       /\ l \in Mutexes => m = "write"
       /\ mode[t][l] = "none" /\ Available(l, m)
       /\ mode' = [mode EXCEPT ![t][l] = m]
       /\ know' = [know EXCEPT ![t] = Join(@, pub[l])]
       /\ Enter(t, "onLock", l, "load")
  /\ UNCHANGED <<C, L, epochs, life, pub>>

(* onUnlock saves the row of the thread, counts, and then the lock is free. *)
(* (The last reader of an rwlock to do so leaves its row alone in L, so      *)
(* that the history expects nothing of what readers save.)                   *)
OnUnlockTickBug(t) ==        \* the clock is counted up before the row is saved
  /\ Runs(t)
  /\ know[t][t] < MaxTicks
  /\ \E l \in Locks :
       /\ mode[t][l] # "none"
       /\ L' = [L EXCEPT ![l] = [C[t] EXCEPT ![t] = Inc(@)]]
       /\ pub' = [pub EXCEPT ![l] = Join(@, know[t])]
       /\ Enter(t, "onUnlock", l, "loadTick")
  /\ UNCHANGED <<C, epochs, program, know>>

OnUnlock(t) ==
  /\ Runs(t)
  /\ know[t][t] < MaxTicks
  /\ \E l \in Locks :
       /\ mode[t][l] # "none"
       /\ L' = [L EXCEPT ![l] = C[t]]
       /\ pub' = IF mode[t][l] = "write" THEN [pub EXCEPT ![l] = Join(@, know[t])] ELSE pub
       /\ Enter(t, "onUnlock", l, "loadTick")
  /\ UNCHANGED <<C, epochs, program, know>>

Release(t) ==
  /\ pc[t] = "release"
  /\ mode' = [mode EXCEPT ![t][op[t].arg] = "none"]
  /\ Leave(t)
  /\ UNCHANGED <<C, L, epochs, life, know, pub>>

(* pthread_cond_wait gives the mutex up and takes it again: no handler runs. *)
Wait(t) ==
  /\ Runs(t)
  /\ \E l \in CondMutexes :
       /\ mode[t][l] = "write"
       /\ mode' = [mode EXCEPT ![t][l] = "none"]
       /\ pub' = [pub EXCEPT ![l] = Join(@, know[t])]
       /\ Enter(t, "wake", l, "wake")
  /\ UNCHANGED <<C, L, epochs, life, know>>

Wake(t) ==
  /\ pc[t] = "wake"
  /\ Available(op[t].arg, "write")
  /\ mode' = [mode EXCEPT ![t][op[t].arg] = "write"]
  /\ know' = [know EXCEPT ![t] = Join(@, pub[op[t].arg])]
  /\ Leave(t)
  /\ UNCHANGED <<C, L, epochs, life, pub>>

(* pthread_create, and onCreate after it, while the new thread runs; the end *)
(* of a thread; pthread_join, and onDestroy.  An id is not used again.       *)
Create(t) ==
  /\ Runs(t)
  /\ know[t][t] < MaxTicks
  /\ \E f \in Threads :
       /\ life[f] = "unborn"
       /\ life' = [life EXCEPT ![f] = "running"]
       /\ know' = [know EXCEPT ![f] = know[t]]
       /\ Enter(t, "onCreate", f, "load")
  /\ UNCHANGED <<C, L, epochs, mode, pub>>

Exit(t) ==
  /\ Runs(t) /\ t # 1
  /\ \A l \in Locks : mode[t][l] = "none"
  /\ life' = [life EXCEPT ![t] = "done"]
  /\ UNCHANGED <<handler, C, L, epochs, mode, know, pub>>

JoinThread(t) ==
  /\ Runs(t)
  /\ \E f \in Threads :
       /\ life[f] = "done" /\ know[f][f] < MaxTicks
       /\ life' = [life EXCEPT ![f] = "joined"]
       /\ know' = [know EXCEPT ![t] = Join(@, know[f])]
       /\ Enter(t, "onDestroy", f, "load")
  /\ UNCHANGED <<C, L, epochs, mode, pub>>

Used(a, t) == users' = [users EXCEPT ![a] = IF RE'[a] = 0 THEN {} ELSE @ \cup {t}]

(* onLoad: the first reader is kept in RE; a second one makes RE -1. *)
OnLoad(t) ==
  /\ Runs(t)
  /\ \E a \in Addrs :
       LET now == C[t][t]
           ordered == W[a] <= now
       IN  /\ \/ /\ RE[a] = t
                 /\ R' = IF R[a][t] < now /\ ordered THEN [R EXCEPT ![a][t] = now] ELSE R
                 /\ UNCHANGED RE
              \/ /\ RE[a] > 0 /\ RE[a] # t
                 /\ IF ordered THEN /\ R' = [R EXCEPT ![a][t] = now, ![a][RE[a]] = now]
                                    /\ RE' = [RE EXCEPT ![a] = -1]
                               ELSE UNCHANGED <<R, RE>>
              \/ /\ RE[a] = -1
                 /\ R' = IF ordered THEN [R EXCEPT ![a][t] = now] ELSE R
                 /\ UNCHANGED RE
              \/ /\ RE[a] = 0
                 /\ RE' = [RE EXCEPT ![a] = t]
                 /\ UNCHANGED R
           /\ Used(a, t)
  /\ UNCHANGED <<handler, C, L, W, program, know, pub>>

OnStoreBug(t) ==             \* a refused store of a shared address claims it
  /\ Runs(t)
  /\ \E a \in Addrs :
       LET now == C[t][t]
       IN  /\ \/ /\ RE[a] = 0
                 /\ W' = IF R[a][t] <= now /\ W[a] < now THEN [W EXCEPT ![a] = now] ELSE W
                 /\ UNCHANGED <<R, RE>>
              \/ /\ RE[a] # 0
                 /\ IF W[a] <= now /\ Leq(R[a], C[t])
                      THEN /\ W' = [W EXCEPT ![a] = now]
                           /\ R' = [R EXCEPT ![a][t] = 0]
                           /\ RE' = [RE EXCEPT ![a] = 0]
                      ELSE RE' = [RE EXCEPT ![a] = -1] /\ UNCHANGED <<R, W>>
           /\ Used(a, t)
  /\ UNCHANGED <<handler, C, L, program, know, pub>>

(* onStore: a shared address ordered after all its reads becomes unread *)
OnStore(t) ==
  /\ Runs(t)
  /\ \E a \in Addrs :
       LET now == C[t][t]
       IN  /\ \/ /\ RE[a] = 0
                 /\ W' = IF R[a][t] <= now /\ W[a] < now THEN [W EXCEPT ![a] = now] ELSE W
                 /\ UNCHANGED <<R, RE>>
              \/ /\ RE[a] = -1
                 /\ IF W[a] <= now /\ Leq(R[a], C[t])
                      THEN /\ W' = [W EXCEPT ![a] = now]
                           /\ R' = [R EXCEPT ![a][t] = 0]
                           /\ RE' = [RE EXCEPT ![a] = 0]
                      ELSE UNCHANGED <<R, W, RE>>
              \/ /\ RE[a] > 0
                 /\ RE' = [RE EXCEPT ![a] = t]
                 /\ UNCHANGED <<R, W>>
           /\ Used(a, t)
  /\ UNCHANGED <<handler, C, L, program, know, pub>>

Next ==
  \E t \in Threads :
    \/ LoadRow(t) \/ StoreRow(t) \/ LoadTick(t) \/ StoreTick(t)
    \/ Acquire(t) \/ OnUnlock(t) \/ Release(t) \/ Wait(t) \/ Wake(t)
    \/ Create(t) \/ Exit(t) \/ JoinThread(t)
    \/ OnLoad(t) \/ OnStore(t)

Spec == Init /\ [][Next]_vars

----------------------------------------------------------------------------
Labels == {"idle", "load", "store", "loadTick", "storeTick", "release", "wake"}

(* Type invariant of the maps of fast_track.txt, lines 10-14               *)
TypeOK ==
  /\ pc \in [Threads -> Labels]
  /\ op \in [Threads -> Ops]
  /\ row \in [Threads -> Row] /\ value \in [Threads -> Clocks]
  /\ C \in [Threads -> Row] /\ L \in [Locks -> Row]
  /\ R \in [Addrs -> Row] /\ W \in [Addrs -> Clocks] /\ RE \in [Addrs -> -1 .. N]
  /\ life \in [Threads -> {"unborn", "running", "done", "joined"}]
  /\ mode \in [Threads -> [Locks -> {"none", "read", "write"}]]
  /\ know \in [Threads -> [Threads -> Nat]] /\ pub \in [Locks -> [Threads -> Nat]]
  /\ users \in [Addrs -> SUBSET Threads]

(* Where each new thread waits for its onCreate, no clock wraps and nobody *)
(* waits on a condition, a thread's row is between handlers exactly what   *)
(* happened before it (lines 16-22, 64-72).                                *)
ClockExact ==
  \A t \in Threads : Runs(t) => C[t] = know[t]

(* With rwlocks too, where readers overwrite each other's row of the lock  *)
(* (line 20), no order is lost but between a reader and who comes after:   *)
(* a thread's row has all that reached it through the releases of writers, *)
(* creation and joins, but of threads whose clock has wrapped.             *)
OrderKept ==
  \A t, u \in Threads : Runs(t) /\ know[u][u] <= Top => know[t][u] <= C[t][u]

(* Nobody knows a clock its thread has not reached yet: also where readers *)
(* of an rwlock overwrite each other's row of the lock (line 20).          *)
NoFutureClock ==
  \A u \in Threads : /\ \A t \in Threads : C[t][u] <= know[u][u]
                     /\ \A l \in Locks : L[l][u] <= know[u][u]

(* RE follows the accesses: it names a thread that used the address since  *)
(* it was last unread, and is -1 only after two did (lines 24-61).         *)
ReaderFollowsAccesses ==
  \A a \in Addrs :
    /\ RE[a] > 0 => RE[a] \in users[a]
    /\ RE[a] = -1 => \E t, u \in users[a] : t # u

(* The counts of rows, inductively, where there are no rwlocks: no row     *)
(* counts more than is known, nor does what a thread has loaded or is      *)
(* about to load, who joins a thread is alone in doing so, and a row       *)
(* nobody has begun to use is empty.                                       *)
Exclusive ==
  /\ \A t, u \in Threads, l \in Locks : mode[t][l] = "write" /\ mode[u][l] # "none" => t = u
  /\ \A t \in Threads, l \in Mutexes : mode[t][l] # "read"

RowsKnown == \A t \in Threads : Leq(C[t], know[t])

LocksSound == \A l \in Locks : Leq(L[l], pub[l])

Stage(t) ==
  /\ pc[t] = "idle" <=> Is(t, "none")
  /\ pc[t] # "idle" => life[t] = "running"
  /\ pc[t] \in {"load", "store"} => op[t].what \in {"onLock", "onCreate", "onDestroy"}
  /\ pc[t] \in {"loadTick", "storeTick"} => op[t].what \in {"onUnlock", "onCreate", "onDestroy"}
  /\ pc[t] = "release" => Is(t, "onUnlock")
  /\ pc[t] = "wake" => Is(t, "wake")
  /\ Is(t, "onCreate") => life[op[t].arg] # "unborn"
  /\ Is(t, "onDestroy") => life[op[t].arg] = "joined"
  /\ pc[t] = "load" =>
       /\ Is(t, "onLock") => mode[t][op[t].arg] = "write" /\ Leq(pub[op[t].arg], know[t])
       /\ Is(t, "onCreate") => Leq(know[t], know[op[t].arg])
       /\ Is(t, "onDestroy") => Leq(know[op[t].arg], know[t])
  /\ pc[t] = "store" => Leq(row[t], know[Target(t)])
  /\ pc[t] = "storeTick" => value[t] < know[Counted(t)][Counted(t)]

OneJoiner ==
  \A t, u \in Threads : Is(t, "onDestroy") /\ op[t] = op[u] => t = u

UnbornEmpty == \A t \in Threads : life[t] = "unborn" => C[t] = Zero

ClockInv ==
  /\ TypeOK /\ Exclusive /\ RowsKnown /\ LocksSound /\ OneJoiner /\ UnbornEmpty
  /\ \A t \in Threads : Stage(t)

(* That of NoFutureClock, with rwlocks too: what rows, locks, handlers and *)
(* the history tell of a clock has been reached, and a thread that has not *)
(* begun has counted nothing.                                              *)
Reached(r) == \A u \in Threads : r[u] <= know[u][u]

ReachStage(t) ==
  /\ pc[t] = "idle" <=> Is(t, "none")
  /\ pc[t] # "idle" => life[t] = "running"
  /\ pc[t] \in {"load", "store"} => op[t].what \in {"onLock", "onCreate", "onDestroy"}
  /\ pc[t] \in {"loadTick", "storeTick"} => op[t].what \in {"onUnlock", "onCreate", "onDestroy"}
  /\ pc[t] = "release" => Is(t, "onUnlock")
  /\ pc[t] = "wake" => Is(t, "wake")
  /\ Is(t, "onLock") => mode[t][op[t].arg] # "none"
  /\ Is(t, "onDestroy") => life[op[t].arg] = "joined"
  /\ pc[t] = "store" => Reached(row[t])
  /\ pc[t] = "storeTick" => value[t] < know[Counted(t)][Counted(t)]
  /\ life[t] = "unborn" => know[t][t] = 0

ReachInv ==
  /\ TypeOK /\ Exclusive /\ OneJoiner
  /\ \A t \in Threads : Reached(C[t]) /\ Reached(know[t]) /\ ReachStage(t)
  /\ \A l \in Locks : Reached(L[l]) /\ Reached(pub[l])

(* That of OrderKept and ClockExact, where no clock wraps: with ReachInv   *)
(* it says that a thread's row lacks nothing of what is known, or that the *)
(* handler at work on it is about to bring it, and what onLock brings does *)
(* not hang on whose row of the lock it finds.                             *)
HolderKnows ==
  \A t \in Threads, l \in Locks :
    mode[t][l] # "none" => life[t] = "running" /\ Leq(pub[l], know[t])

LocksExact == \A l \in Locks : Leq(pub[l], L[l])

Complete(t) == Leq(know[t], C[t])

Owed(t) == IF Is(t, "onLock") THEN pub[op[t].arg] ELSE Merged(t)

ExactStage(t) ==
  /\ pc[t] = "idle" /\ life[t] \in {"running", "done"} /\ ~BeingCreated(t) => Complete(t)
  /\ pc[t] = "load" => Leq(know[Target(t)], Join(C[Target(t)], Owed(t)))
  /\ pc[t] = "store" => Leq(know[Target(t)], row[t])
  /\ pc[t] \in {"load", "store"} /\ Is(t, "onCreate") =>
       Complete(t) /\ op[t].arg # t /\ pc[op[t].arg] = "idle" /\ life[op[t].arg] = "running"
  /\ pc[t] \in {"load", "store"} /\ Is(t, "onDestroy") => Complete(op[t].arg)
  /\ pc[t] \in {"loadTick", "release"} => Complete(t)
  /\ pc[t] = "loadTick" => Complete(Counted(t))
  /\ pc[t] = "storeTick" =>
       /\ \A u \in Threads \ {Counted(t)} : know[Counted(t)][u] <= C[Counted(t)][u]
       /\ value[t] < Top /\ know[Counted(t)][Counted(t)] <= value[t] + 1
       /\ Is(t, "onDestroy") => Complete(t)
  /\ pc[t] \in {"load", "store", "loadTick"} /\ ~Is(t, "onLock") => know[Counted(t)][Counted(t)] < MaxTicks
  /\ pc[t] # "wake"

ExactInv == HolderKnows /\ LocksExact /\ \A t \in Threads : ExactStage(t)
=============================================================================
