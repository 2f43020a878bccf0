-------------------------------- MODULE Pool --------------------------------
(***************************************************************************)
(* What a server proxy relies on of a connection pool, whichever of the    *)
(* four it is built with: every pick lends a connection nobody else has,   *)
(* an idle one if there is any, what is given back is kept while there is  *)
(* room, and when clear() returns, every connection that was idle at its   *)
(* call has left the pool.  A clear() need not be atomic: connections may  *)
(* come, and be lent, while it goes on.                                    *)
(***************************************************************************)
EXTENDS Naturals, FiniteSets

CONSTANTS
    Threads,    \* users of the pool
    Conns,      \* identities of connection objects
    NoConn      \* the null connection pointer

VARIABLES
    capacity,   \* how many idle connections are kept
    idle,       \* the connections kept
    held,       \* the connection lent to each thread
    looking,    \* threads that found nothing idle and open a new one
    clearing,   \* threads inside clear()
    owed        \* what clear() of a thread has yet to see leaving

poolVars == <<capacity, idle, held, looking, clearing, owed>>

Free(t) == held[t] = NoConn /\ t \notin looking \cup clearing

(* A connection that leaves is owed to nobody any more.                    *)
Leaves(c) ==
    /\ idle' = idle \ {c}
    /\ owed' = [t \in Threads |-> owed[t] \ {c}]

PoolInit ==
    /\ capacity \in Nat
    /\ idle = {}
    /\ held = [t \in Threads |-> NoConn]
    /\ looking = {}
    /\ clearing = {}
    /\ owed = [t \in Threads |-> {}]

LendIdle(t) ==
    /\ Free(t)
    /\ \E c \in idle : /\ held' = [held EXCEPT ![t] = c]
                       /\ Leaves(c)
    /\ UNCHANGED <<capacity, looking, clearing>>

FindNone(t) ==
    /\ Free(t)
    /\ idle = {}
    /\ looking' = looking \cup {t}
    /\ UNCHANGED <<capacity, idle, held, clearing, owed>>

LendNew(t) ==
    /\ t \in looking
    /\ looking' = looking \ {t}
    /\ \E c \in Conns \ (idle \cup {held[u] : u \in Threads}) :
          held' = [held EXCEPT ![t] = c]
    /\ UNCHANGED <<capacity, idle, clearing, owed>>

FailNew(t) ==
    /\ t \in looking
    /\ looking' = looking \ {t}
    /\ UNCHANGED <<capacity, idle, held, clearing, owed>>

TakeBack(t) ==
    /\ held[t] # NoConn
    /\ held' = [held EXCEPT ![t] = NoConn]
    /\ idle' = IF Cardinality(idle) < capacity THEN idle \cup {held[t]}
                                               ELSE idle
    /\ UNCHANGED <<capacity, looking, clearing, owed>>

Discard(t) ==
    /\ held[t] # NoConn
    /\ held' = [held EXCEPT ![t] = NoConn]
    /\ UNCHANGED <<capacity, idle, looking, clearing, owed>>

StartClear(t) ==
    /\ Free(t)
    /\ clearing' = clearing \cup {t}
    /\ owed' = [owed EXCEPT ![t] = idle]
    /\ UNCHANGED <<capacity, idle, held, looking>>

Expel ==
    /\ clearing # {}
    /\ \E c \in idle : Leaves(c)
    /\ UNCHANGED <<capacity, held, looking, clearing>>

EndClear(t) ==
    /\ t \in clearing
    /\ owed[t] = {}
    /\ clearing' = clearing \ {t}
    /\ UNCHANGED <<capacity, idle, held, looking, owed>>

PoolNext ==
    \/ \E t \in Threads :
          \/ LendIdle(t) \/ FindNone(t) \/ LendNew(t) \/ FailNew(t)
          \/ TakeBack(t) \/ Discard(t)
          \/ StartClear(t) \/ EndClear(t)
    \/ Expel

PoolSpec == PoolInit /\ [][PoolNext]_poolVars

=============================================================================
