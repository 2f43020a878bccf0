----------------------------- MODULE ServerProxy -----------------------------
(***************************************************************************)
(* One memcache server as its clients see it: server_proxy_t (server-      *)
(* proxy.h) with the connection pool it owns (io/connections.h) and the    *)
(* shared_t it has in common with the other users of that server.          *)
(*                                                                         *)
(* A thread does what client_t::run does with a proxy: callable() and, if  *)
(* that returns true, send() at once.  Every access to shared memory is a  *)
(* step of its own, so that all interleavings of the two functions are     *)
(* explored: dead, restoration and fails are atomics, lock is only ever    *)
(* tried, and the pool is guarded by a mutex of its own held for the whole *)
(* of pick's lookup, push_back and clear.                                  *)
(*                                                                         *)
(* thread::client is Procs = {p}: many threads, one pool.  ipc::client is  *)
(* one thread per process and MaxPool = 1 (single_connection_pool_t); the  *)
(* shared_t lives in shared memory and survives the crash of a process.    *)
(*                                                                         *)
(* Times are relative to the present: a clock just read is 0 and ages, and *)
(* restoration is the time left until the next reconnect.                  *)
(***************************************************************************)
EXTENDS Integers, FiniteSets

CONSTANTS
    Threads,    \* threads that use the proxy
    Procs,      \* processes, each with a pool of its own
    ProcOf,     \* the process of each thread
    Conns,      \* identities of connection objects
    NoConn,     \* the null connection pointer
    MaxPool,    \* opts_t::max_connections_in_pool
    FailLimit,  \* server_proxy_config_t::fail_limit
    Interval,   \* server_proxy_config_t::restoration_interval
    MaxStall,   \* bound: how old a clock reading may be when it is used
    MaxCrashes  \* bound: crashes of processes

ASSUME ProcAssumption == ProcOf \in [Threads -> Procs]
ASSUME ConnAssumption == NoConn \notin Conns
ASSUME LimitAssumption == /\ MaxPool \in Nat
                          /\ FailLimit \in Nat
                          /\ Interval \in Nat
                          /\ MaxStall \in Nat
                          /\ MaxCrashes \in Nat

VARIABLES
    dead,         \* shared->dead
    restoration,  \* shared->restoration
    fails,        \* shared->fails
    locked,       \* shared->lock
    pool,         \* the pooled connections of each process
    conn,         \* the connection a thread has picked
    pc,           \* what a thread does next
    now,          \* the local clock reading of a thread, aged
    reply,        \* response class of a thread: "ok" is code() < error
    server,       \* the memcache server: "up", "slow" or "down"
    open,         \* connections the server still has its end of
    crashes       \* crashes of processes so far

shared == <<dead, restoration, fails, locked>>
local  == <<conn, pc, now, reply>>
env    == <<server, crashes>>
vars   == <<shared, pool, local, env, open>>

-----------------------------------------------------------------------------
(* time_point_t::min() is before every clock reading.                      *)
Never == -MaxStall - 1

(* Steps between reading the clock and the last use of the reading.        *)
HoldsClock == {"deadline", "trylock", "enlarge", "clear", "rearm"}

(* Steps inside the reconnect critical section, unlock included.           *)
Critical == {"enlarge", "raised", "count", "limit", "clear", "rearm", "kill",
             "unlock"}

Steps == {"idle", "clock", "deadline", "trylock", "enlarge", "raised",
          "pick", "connect", "exchange", "revive", "forgive", "return",
          "failed", "count", "limit", "clear", "rearm", "kill", "unlock",
          "loser"}

Held   == {conn[t] : t \in Threads} \ {NoConn}
Pooled == UNION {pool[p] : p \in Procs}

Goto(t, step) == pc' = [pc EXCEPT ![t] = step]
Forget(t) == now' = [now EXCEPT ![t] = 0]
Drop(t) == conn' = [conn EXCEPT ![t] = NoConn]

Init ==
    /\ dead = FALSE
    /\ restoration = Never
    /\ fails = 0
    /\ locked = FALSE
    /\ pool = [p \in Procs |-> {}]
    /\ conn = [t \in Threads |-> NoConn]
    /\ pc = [t \in Threads |-> "idle"]
    /\ now = [t \in Threads |-> 0]
    /\ reply = [t \in Threads |-> "none"]
    /\ server = "up"
    /\ open = {}
    /\ crashes = 0

-----------------------------------------------------------------------------
(* callable()                                                              *)

(* A live server is called, a dead one has its restoration time checked.   *)
LoadDead(t) ==
    /\ pc[t] = "idle"
    /\ Goto(t, IF dead THEN "clock" ELSE "pick")
    /\ UNCHANGED <<shared, pool, conn, now, reply, env, open>>

(* now() in callable() ("clock") or in the handler ("limit").  A reading   *)
(* starts at 0, the value kept while a thread has none.                    *)
ReadClock(t, from, to) ==
    /\ pc[t] = from
    /\ Goto(t, to)
    /\ UNCHANGED <<shared, pool, conn, now, reply, env, open>>

CheckRestoration(t) ==
    /\ pc[t] = "deadline"
    /\ IF now[t] < restoration
       THEN Goto(t, "idle") /\ Forget(t)
       ELSE Goto(t, "trylock") /\ UNCHANGED now
    /\ UNCHANGED <<shared, pool, conn, reply, env, open>>

(* try_lock by callable() ("trylock") or by send's handler ("failed").     *)
TryLock(t, from, to) ==
    /\ pc[t] = from
    /\ locked' = TRUE
    /\ Goto(t, IF locked THEN "loser" ELSE to)
    /\ UNCHANGED <<dead, restoration, fails, pool, conn, now, reply, env,
                   open>>

(* Fault: a guard that remembers it has nothing to unlock.                 *)
LoserLeaves(t) ==
    /\ pc[t] = "loser"
    /\ Goto(t, "idle")
    /\ Forget(t)
    /\ UNCHANGED <<shared, pool, conn, reply, env, open>>

(* The destructor of scope_guard_t unlocks a mutex it did not lock: the    *)
(* normal mutexes of both lock types are just set free.                    *)
LoserUnlock(t) ==
    /\ pc[t] = "loser"
    /\ locked' = FALSE
    /\ Goto(t, "idle")
    /\ Forget(t)
    /\ UNCHANGED <<dead, restoration, fails, pool, conn, reply, env, open>>

(* Fault: the restoration time is left as it was.                          *)
EnlargeNothing(t) ==
    /\ pc[t] = "enlarge"
    /\ Goto(t, "raised")
    /\ Forget(t)
    /\ UNCHANGED <<shared, pool, conn, reply, env, open>>

EnlargeRestoration(t) ==
    /\ pc[t] = "enlarge"
    /\ restoration' = now[t] + Interval
    /\ Goto(t, "raised")
    /\ Forget(t)
    /\ UNCHANGED <<dead, fails, locked, pool, conn, reply, env, open>>

(* Leaving callable() with true; send() comes next.                        *)
UnlockRaised(t) ==
    /\ pc[t] = "raised"
    /\ locked' = FALSE
    /\ Goto(t, "pick")
    /\ UNCHANGED <<dead, restoration, fails, pool, conn, now, reply, env,
                   open>>

-----------------------------------------------------------------------------
(* send()                                                                  *)

(* Fault: top() without pop().                                             *)
PickTop(t) ==
    /\ pc[t] = "pick"
    /\ \/ /\ pool[ProcOf[t]] = {}
          /\ Goto(t, "connect")
          /\ UNCHANGED conn
       \/ \E c \in pool[ProcOf[t]] :
          /\ conn' = [conn EXCEPT ![t] = c]
          /\ Goto(t, "exchange")
    /\ UNCHANGED <<shared, pool, now, reply, env, open>>

(* Which pooled connection is taken depends on the pool: last in for the   *)
(* mutex stack, first in for the tbb queue.  Both are allowed here.        *)
Pick(t) ==
    /\ pc[t] = "pick"
    /\ \/ /\ pool[ProcOf[t]] = {}
          /\ Goto(t, "connect")
          /\ UNCHANGED <<conn, pool>>
       \/ \E c \in pool[ProcOf[t]] :
          /\ pool' = [pool EXCEPT ![ProcOf[t]] = @ \ {c}]
          /\ conn' = [conn EXCEPT ![t] = c]
          /\ Goto(t, "exchange")
    /\ UNCHANGED <<shared, now, reply, env, open>>

(* Fault: the connection is made before the try block.                     *)
ConnectUnguarded(t) ==
    /\ pc[t] = "connect"
    /\ \/ /\ server # "down"
          /\ \E c \in Conns \ (Held \cup Pooled) :
             /\ conn' = [conn EXCEPT ![t] = c]
             /\ open' = open \cup {c}
          /\ Goto(t, "exchange")
       \/ /\ server # "up"
          /\ Goto(t, "idle")
          /\ UNCHANGED <<conn, open>>
    /\ UNCHANGED <<shared, pool, now, reply, env>>

(* make_shared<connection_t>: the constructor connects, outside the mutex. *)
Connect(t) ==
    /\ pc[t] = "connect"
    /\ \/ /\ server # "down"
          /\ \E c \in Conns \ (Held \cup Pooled) :
             /\ conn' = [conn EXCEPT ![t] = c]
             /\ open' = open \cup {c}
          /\ Goto(t, "exchange")
       \/ /\ server # "up"
          /\ Goto(t, "failed")
          /\ UNCHANGED <<conn, open>>
    /\ UNCHANGED <<shared, pool, now, reply, env>>

(* The server's name could not be resolved: the exception is none of io,   *)
(* and nobody handles it.                                                  *)
Unresolved(t) ==
    /\ pc[t] = "connect"
    /\ Goto(t, "idle")
    /\ UNCHANGED <<shared, pool, conn, now, reply, env, open>>

(* parser.send(command) got an answer, one it understands or another.      *)
Answered(t) ==
    /\ pc[t] = "exchange"
    /\ conn[t] \in open
    /\ \E r \in {"ok", "error"} : reply' = [reply EXCEPT ![t] = r]
    /\ Goto(t, "revive")
    /\ UNCHANGED <<shared, pool, conn, now, env, open>>

(* It threw io::error_t: the peer is gone, or a deadline passed.           *)
IoError(t) ==
    /\ pc[t] = "exchange"
    /\ conn[t] \notin open \/ server = "slow"
    /\ open' = open \ {conn[t]}
    /\ Drop(t)
    /\ Goto(t, "failed")
    /\ UNCHANGED <<shared, pool, now, reply, env>>

(* It threw something else (a bad key): no handler, the connection closes. *)
OtherError(t) ==
    /\ pc[t] = "exchange"
    /\ open' = open \ {conn[t]}
    /\ Drop(t)
    /\ Goto(t, "idle")
    /\ UNCHANGED <<shared, pool, now, reply, env>>

Revive(t) ==
    /\ pc[t] = "revive"
    /\ dead' = FALSE
    /\ Goto(t, "forgive")
    /\ UNCHANGED <<restoration, fails, locked, pool, conn, now, reply, env,
                   open>>

Forgive(t) ==
    /\ pc[t] = "forgive"
    /\ fails' = 0
    /\ Goto(t, "return")
    /\ UNCHANGED <<dead, restoration, locked, pool, conn, now, reply, env,
                   open>>

(* Fault: push_back resets the pointer before it pushes it.                *)
ReturnNull(t) ==
    /\ pc[t] = "return"
    /\ IF reply[t] = "ok" /\ Cardinality(pool[ProcOf[t]]) < MaxPool
       THEN pool' = [pool EXCEPT ![ProcOf[t]] = @ \cup {NoConn}]
       ELSE UNCHANGED pool
    /\ open' = open \ {conn[t]}
    /\ Drop(t)
    /\ reply' = [reply EXCEPT ![t] = "none"]
    /\ Goto(t, "idle")
    /\ UNCHANGED <<shared, now, env>>

(* Fault: one connection too many is let in.                               *)
ReturnOneMore(t) ==
    /\ pc[t] = "return"
    /\ IF reply[t] = "ok" /\ Cardinality(pool[ProcOf[t]]) <= MaxPool
       THEN /\ pool' = [pool EXCEPT ![ProcOf[t]] = @ \cup {conn[t]}]
            /\ UNCHANGED open
       ELSE /\ open' = open \ {conn[t]}
            /\ UNCHANGED pool
    /\ Drop(t)
    /\ reply' = [reply EXCEPT ![t] = "none"]
    /\ Goto(t, "idle")
    /\ UNCHANGED <<shared, now, env>>

(* push_back after an understood response and while there is room;         *)
(* otherwise the last pointer goes away and the connection closes.         *)
ReturnConn(t) ==
    /\ pc[t] = "return"
    /\ IF reply[t] = "ok" /\ Cardinality(pool[ProcOf[t]]) < MaxPool
       THEN /\ pool' = [pool EXCEPT ![ProcOf[t]] = @ \cup {conn[t]}]
            /\ UNCHANGED open
       ELSE /\ open' = open \ {conn[t]}
            /\ UNCHANGED pool
    /\ Drop(t)
    /\ reply' = [reply EXCEPT ![t] = "none"]
    /\ Goto(t, "idle")
    /\ UNCHANGED <<shared, now, env>>

-----------------------------------------------------------------------------
(* The handler of io::error_t in send()                                    *)

(* Fault: below the limit the handler returns with the lock taken.         *)
CountAndLeave(t) ==
    LET count == IF fails < FailLimit THEN fails + 1 ELSE fails IN
    /\ pc[t] = "count"
    /\ fails' = count
    /\ Goto(t, IF count >= FailLimit THEN "limit" ELSE "idle")
    /\ UNCHANGED <<dead, restoration, locked, pool, conn, now, reply, env,
                   open>>

(* fails only matters up to the limit: it is counted no further.           *)
CountFail(t) ==
    LET count == IF fails < FailLimit THEN fails + 1 ELSE fails IN
    /\ pc[t] = "count"
    /\ fails' = count
    /\ Goto(t, IF count >= FailLimit THEN "limit" ELSE "unlock")
    /\ UNCHANGED <<dead, restoration, locked, pool, conn, now, reply, env,
                   open>>

(* Fault: dead is stored with no restoration time before it.               *)
ClearAndKill(t) ==
    /\ pc[t] = "clear"
    /\ pool' = [pool EXCEPT ![ProcOf[t]] = {}]
    /\ open' = open \ pool[ProcOf[t]]
    /\ Goto(t, "kill")
    /\ Forget(t)
    /\ UNCHANGED <<shared, conn, reply, env>>

ClearPool(t) ==
    /\ pc[t] = "clear"
    /\ pool' = [pool EXCEPT ![ProcOf[t]] = {}]
    /\ open' = open \ pool[ProcOf[t]]
    /\ Goto(t, "rearm")
    /\ UNCHANGED <<shared, conn, now, reply, env>>

(* Fault: the interval is not added to the clock reading.                  *)
RearmNow(t) ==
    /\ pc[t] = "rearm"
    /\ restoration' = now[t]
    /\ Goto(t, "kill")
    /\ Forget(t)
    /\ UNCHANGED <<dead, fails, locked, pool, conn, reply, env, open>>

Rearm(t) ==
    /\ pc[t] = "rearm"
    /\ restoration' = now[t] + Interval
    /\ Goto(t, "kill")
    /\ Forget(t)
    /\ UNCHANGED <<dead, fails, locked, pool, conn, reply, env, open>>

MarkDead(t) ==
    /\ pc[t] = "kill"
    /\ dead' = TRUE
    /\ Goto(t, "unlock")
    /\ UNCHANGED <<restoration, fails, locked, pool, conn, now, reply, env,
                   open>>

UnlockFailed(t) ==
    /\ pc[t] = "unlock"
    /\ locked' = FALSE
    /\ Goto(t, "idle")
    /\ UNCHANGED <<dead, restoration, fails, pool, conn, now, reply, env,
                   open>>

-----------------------------------------------------------------------------
(* The environment                                                         *)

(* A second passes.  A thread is not suspended for more than MaxStall of   *)
(* them between reading the clock and using the reading, so a restoration  *)
(* time MaxStall ago is in the past for every reading.                     *)
Tick ==
    /\ \A t \in Threads : pc[t] \in HoldsClock => now[t] > -MaxStall
    /\ now' = [t \in Threads |->
                  IF pc[t] \in HoldsClock THEN now[t] - 1 ELSE now[t]]
    /\ restoration' = IF restoration > -MaxStall THEN restoration - 1
                                                 ELSE restoration
    /\ UNCHANGED <<dead, fails, locked, pool, conn, pc, reply, env, open>>

(* The server stops: the connections it had are lost on its side.          *)
ServerStops ==
    /\ server # "down"
    /\ server' = "down"
    /\ open' = {}
    /\ UNCHANGED <<shared, pool, local, crashes>>

(* It answers some requests and lets others time out.                      *)
ServerStalls ==
    /\ server = "up"
    /\ server' = "slow"
    /\ UNCHANGED <<shared, pool, local, open, crashes>>

ServerRecovers ==
    /\ server # "up"
    /\ server' = "up"
    /\ UNCHANGED <<shared, pool, local, open, crashes>>

(* A process dies and is forked anew: its pool and its threads' work are   *)
(* gone, the shared memory stays as it is, lock included.                  *)
ProcCrash(p) ==
    LET mine == {t \in Threads : ProcOf[t] = p} IN
    /\ Procs # {p}
    /\ crashes < MaxCrashes
    /\ crashes' = crashes + 1
    /\ open' = open \ (pool[p] \cup {conn[t] : t \in mine})
    /\ pool' = [pool EXCEPT ![p] = {}]
    /\ conn' = [t \in Threads |-> IF t \in mine THEN NoConn ELSE conn[t]]
    /\ pc' = [t \in Threads |-> IF t \in mine THEN "idle" ELSE pc[t]]
    /\ now' = [t \in Threads |-> IF t \in mine THEN 0 ELSE now[t]]
    /\ reply' = [t \in Threads |-> IF t \in mine THEN "none" ELSE reply[t]]
    /\ UNCHANGED <<shared, server>>

-----------------------------------------------------------------------------
Callable(t) ==
    \/ LoadDead(t)
    \/ ReadClock(t, "clock", "deadline")
    \/ CheckRestoration(t)
    \/ TryLock(t, "trylock", "enlarge")
    \/ LoserUnlock(t)
    \/ EnlargeRestoration(t)
    \/ UnlockRaised(t)

Send(t) ==
    \/ Pick(t)
    \/ Connect(t)
    \/ Unresolved(t)
    \/ Answered(t)
    \/ IoError(t)
    \/ OtherError(t)
    \/ Revive(t)
    \/ Forgive(t)
    \/ ReturnConn(t)

HandleError(t) ==
    \/ TryLock(t, "failed", "count")
    \/ CountFail(t)
    \/ ReadClock(t, "limit", "clear")
    \/ ClearPool(t)
    \/ Rearm(t)
    \/ MarkDead(t)
    \/ UnlockFailed(t)

ThreadStep(t) == Callable(t) \/ Send(t) \/ HandleError(t)

ServerStep == ServerStops \/ ServerStalls \/ ServerRecovers

Next ==
    \/ \E t \in Threads : ThreadStep(t)
    \/ Tick
    \/ ServerStep
    \/ \E p \in Procs : ProcCrash(p)

Spec == Init /\ [][Next]_vars


(***************************************************************************)
(* Fairness.  Threads are scheduled by the system and nothing in the proxy *)
(* blocks; the application keeps calling.  Time passes.  Not every command *)
(* of a thread is one that serialize refuses, and the server's name is     *)
(* resolved at times.  Processes crash MaxCrashes times in all.            *)
(***************************************************************************)
Scheduling == \A t \in Threads : WF_vars(ThreadStep(t))
GoodCommands == \A t \in Threads : SF_vars(Answered(t))
GoodNames == \A t \in Threads : SF_vars(Connect(t))

FairSpec == Spec /\ Scheduling /\ WF_vars(Tick) /\ GoodCommands /\ GoodNames

-----------------------------------------------------------------------------
(* Types of the variables.                                                 *)
TypeOK ==
    /\ dead \in BOOLEAN
    /\ restoration \in Never .. Interval
    /\ fails \in 0 .. FailLimit
    /\ locked \in BOOLEAN
    /\ pool \in [Procs -> SUBSET Conns]
    /\ conn \in [Threads -> Conns \cup {NoConn}]
    /\ pc \in [Threads -> Steps]
    /\ now \in [Threads -> -MaxStall .. 0]
    /\ reply \in [Threads -> {"none", "ok", "error"}]
    /\ server \in {"up", "slow", "down"}
    /\ open \in SUBSET Conns
    /\ crashes \in 0 .. MaxCrashes

(* A connection is in the hands of one thread, or in the pool of one       *)
(* process, never both and never twice: pick takes it out of the pool, the *)
(* error path drops it and only push_back puts it back.                    *)
ConnExclusive ==
    /\ \A t, u \in Threads : t # u /\ conn[t] # NoConn => conn[t] # conn[u]
    /\ \A t \in Threads, p \in Procs : conn[t] \notin pool[p]
    /\ \A p, q \in Procs : p # q => pool[p] \cap pool[q] = {}

(* However many threads finish at once, a pool never holds more than       *)
(* max_connections_in_pool: the size is tested under the pool's mutex.     *)
PoolBounded ==
    \A p \in Procs : IsFiniteSet(pool[p]) /\ Cardinality(pool[p]) <= MaxPool

(* restoration is stored before dead: a thread that sees dead never finds  *)
(* the initial restoration time and so never probes a server just lost.    *)
DeadHasDeadline == dead => restoration # Never

(* Without crashes a taken lock has a thread in the critical section: no   *)
(* return path of callable() or send() leaks it.                           *)
LockNotLeaked == locked => \E t \in Threads : pc[t] \in Critical

(* What each store leaves in restoration is at least an interval after the *)
(* clock reading it was made from, so never due within MaxStall of it.     *)
NextReconnectAhead ==
    [][Tick \/ restoration' = restoration \/ restoration' >= Interval - MaxStall]_vars

-----------------------------------------------------------------------------
(* An outage that lasts is noticed, and for good: the failures of the      *)
(* threads add up to the limit whatever try_lock makes them lose, and a    *)
(* lock left taken by a crash in the critical section does not stop them.  *)
OutageIsNoticed == <>[](server = "down") => <>[]dead

(* A server that is back is used again, and for good, though its pooled    *)
(* connections are stale: after the restoration interval some thread       *)
(* probes it, and neither a late handler of some thread nor a lock left    *)
(* taken by a crash keeps it dead.                                         *)
RecoveryIsNoticed == <>[](server = "up") => <>[]~dead

=============================================================================
