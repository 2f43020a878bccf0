--------------------------- MODULE ConnectionPool ---------------------------
(***************************************************************************)
(* The four connection pools of io/connections.h, used by threads the way  *)
(* server_proxy_t::send uses them: pick, then push_back after an answer or *)
(* the pointer just dropped, and clear when the server is given up.        *)
(*                                                                         *)
(*   "new"     create_new_connection_pool_t: keeps nothing                 *)
(*   "single"  single_connection_pool_t: one pointer, one user             *)
(*   "bbt"     bbt::caching_connection_pool_t: a lock-free bounded queue;  *)
(*             the mutex keeps apart clear() and clear() only              *)
(*   "lock"    lock::caching_connection_pool_t: a stack under a mutex      *)
(*                                                                         *)
(* Last in, first out or the other way round makes no difference here: a   *)
(* pool is the set of its connections, and pick takes any.  The body of a  *)
(* critical section is one step, but for the loops of clear().             *)
(***************************************************************************)
EXTENDS Naturals, FiniteSets

CONSTANTS
    Threads,    \* threads that use the pool
    Sole,       \* the one that uses a pool of a single connection
    NoThread,   \* the owner of a free mutex
    Conns,      \* identities of connection objects
    NoConn,     \* the null connection pointer
    MaxPool     \* opts_t::max_connections_in_pool

ASSUME SoleAssumption == Sole \in Threads /\ NoThread \notin Threads
ASSUME NullAssumption == NoConn \notin Conns
ASSUME MaxAssumption == MaxPool \in Nat

VARIABLES
    kind,   \* which of the pools it is
    pool,   \* queue, stack or connection: what is pooled
    mutex,  \* the thread that holds the pool's mutex
    conn,   \* the connection a thread has picked
    pc,     \* what a thread is doing
    stale   \* history: what was pooled at the call of clear() and is still

vars == <<kind, pool, mutex, conn, pc, stale>>

Kinds == {"new", "single", "bbt", "lock"}

Users == IF kind = "single" THEN {Sole} ELSE Threads

Capacity == IF kind = "new" THEN 0
            ELSE IF kind = "single" THEN 1 ELSE MaxPool

Goto(t, step) == pc' = [pc EXCEPT ![t] = step]

(* Only the stack is guarded from pick and push_back too.                  *)
Unguarded == kind = "lock" => mutex = NoThread

(* History: a connection that leaves the pool is no longer stale in it.    *)
Out(c) ==
    /\ pool' = pool \ {c}
    /\ stale' = [t \in Threads |-> stale[t] \ {c}]

Init ==
    /\ kind \in Kinds
    /\ pool = {}
    /\ mutex = NoThread
    /\ conn = [t \in Threads |-> NoConn]
    /\ pc = [t \in Threads |-> "idle"]
    /\ stale = [t \in Threads |-> {}]

-----------------------------------------------------------------------------
(* pick()                                                                  *)

(* Fault: top() without pop().                                             *)
PickTop(t) ==
    /\ pc[t] = "idle"
    /\ Unguarded
    /\ \E c \in pool : conn' = [conn EXCEPT ![t] = c]
    /\ Goto(t, "using")
    /\ UNCHANGED <<kind, pool, mutex, stale>>

Pick(t) ==
    /\ pc[t] = "idle"
    /\ Unguarded
    /\ \E c \in pool : /\ conn' = [conn EXCEPT ![t] = c]
                       /\ Out(c)
    /\ Goto(t, "using")
    /\ UNCHANGED <<kind, mutex>>

PickNone(t) ==
    /\ pc[t] = "idle"
    /\ Unguarded
    /\ pool = {}
    /\ Goto(t, "creating")
    /\ UNCHANGED <<kind, pool, mutex, conn, stale>>

(* make_shared, after the mutex is released.                               *)
Create(t) ==
    /\ pc[t] = "creating"
    /\ \E c \in Conns \ (pool \cup {conn[u] : u \in Threads}) :
          conn' = [conn EXCEPT ![t] = c]
    /\ Goto(t, "using")
    /\ UNCHANGED <<kind, pool, mutex, stale>>

(* The constructor of the connection throws.                               *)
CreateThrows(t) ==
    /\ pc[t] = "creating"
    /\ Goto(t, "idle")
    /\ UNCHANGED <<kind, pool, mutex, conn, stale>>

-----------------------------------------------------------------------------
(* push_back()                                                             *)

Returned(t) ==
    /\ pc[t] = "using"
    /\ conn' = [conn EXCEPT ![t] = NoConn]
    /\ Goto(t, "idle")
    /\ UNCHANGED <<kind, mutex, stale>>

(* Fault: one connection too many is let in.                               *)
PushOneMore(t) ==
    /\ Unguarded
    /\ Returned(t)
    /\ \/ kind = "new" /\ UNCHANGED pool
       \/ kind = "single" /\ pool' = {conn[t]}
       \/ /\ kind \in {"bbt", "lock"}
          /\ pool' = IF Cardinality(pool) <= MaxPool
                     THEN pool \cup {conn[t]} ELSE pool

(* The one pointer is overwritten; try_push and the size test of the stack *)
(* let the connection go when the pool is full.                            *)
PushBack(t) ==
    /\ Unguarded
    /\ Returned(t)
    /\ \/ kind = "new" /\ UNCHANGED pool
       \/ kind = "single" /\ pool' = {conn[t]}
       \/ /\ kind \in {"bbt", "lock"}
          /\ pool' = IF Cardinality(pool) < MaxPool
                     THEN pool \cup {conn[t]} ELSE pool

(* The last pointer goes out of scope: an error, or no push_back.          *)
Drop(t) ==
    /\ Returned(t)
    /\ UNCHANGED pool

-----------------------------------------------------------------------------
(* clear()                                                                 *)

StartClear(t) ==
    /\ pc[t] = "idle"
    /\ IF kind \in {"bbt", "lock"}
       THEN mutex = NoThread /\ mutex' = t
       ELSE UNCHANGED mutex
    /\ stale' = [stale EXCEPT ![t] = pool]
    /\ Goto(t, "clearing")
    /\ UNCHANGED <<kind, pool, conn>>

(* One round of the loop: the stack's pop, or a try_pop of the queue's     *)
(* clear(), which is tbb's and taken to be such a loop.                    *)
ClearOne(t) ==
    /\ pc[t] = "clearing"
    /\ \E c \in pool : Out(c)
    /\ UNCHANGED <<kind, mutex, conn, pc>>

(* Fault: the loop stops after size() rounds at most, or earlier.          *)
EndClearEarly(t) ==
    /\ pc[t] = "clearing"
    /\ mutex' = IF mutex = t THEN NoThread ELSE mutex
    /\ Goto(t, "idle")
    /\ UNCHANGED <<kind, pool, conn, stale>>

EndClear(t) ==
    /\ pc[t] = "clearing"
    /\ pool = {}
    /\ mutex' = IF mutex = t THEN NoThread ELSE mutex
    /\ Goto(t, "idle")
    /\ UNCHANGED <<kind, pool, conn, stale>>

Step(t) ==
    \/ Pick(t)
    \/ PickNone(t)
    \/ Create(t)
    \/ CreateThrows(t)
    \/ PushBack(t)
    \/ Drop(t)
    \/ StartClear(t)
    \/ ClearOne(t)
    \/ EndClear(t)

Next == \E t \in Users : Step(t)

Spec == Init /\ [][Next]_vars

-----------------------------------------------------------------------------
(* Types of the variables, and the bound of every kind of pool.            *)
TypeOK ==
    /\ kind \in Kinds
    /\ pool \in SUBSET Conns
    /\ IsFiniteSet(pool) /\ Cardinality(pool) <= Capacity
    /\ mutex \in Threads \cup {NoThread}
    /\ conn \in [Threads -> Conns \cup {NoConn}]
    /\ pc \in [Threads -> {"idle", "creating", "using", "clearing"}]
    /\ stale \in [Threads -> SUBSET Conns]

Abstract == INSTANCE Pool WITH
    capacity <- Capacity,
    idle <- pool,
    held <- conn,
    looking <- {t \in Threads : pc[t] = "creating"},
    clearing <- {t \in Threads : pc[t] = "clearing"},
    owed <- stale

(* Every kind of pool is a pool in the sense of Pool: a connection has one *)
(* user at a time, a new one is opened only if none was idle, the pool is  *)
(* bounded, and clear() leaves nothing behind that it found, though picks  *)
(* and push_backs of the lock-free queue go on while it empties it.        *)
ImplementsPool == Abstract!PoolSpec

=============================================================================
