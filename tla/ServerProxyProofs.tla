-------------------------- MODULE ServerProxyProofs --------------------------
(***************************************************************************)
(* Proofs about ServerProxy, and about what ServerProxyAudit observes of   *)
(* it, for any number of threads, processes and       *)
(* connections, any limits and any interval.                               *)
(***************************************************************************)
EXTENDS ServerProxyAudit, FiniteSetTheorems, TLAPS

(* The steps between pick and the end of the connection's use.             *)
Using == {"exchange", "revive", "forgive", "return"}

(* A thread that is to use its connection has one.                         *)
UserHasConn == \A t \in Threads : pc[t] \in Using => conn[t] # NoConn

LEMMA InitType == Init => TypeOK /\ UserHasConn
<1> SUFFICES ASSUME Init PROVE TypeOK /\ UserHasConn
  OBVIOUS
<1>1. dead \in BOOLEAN /\ locked \in BOOLEAN
  BY Zenon DEF Init
<1>2. QED
  BY <1>1, LimitAssumption, SMT
  DEF Init, TypeOK, UserHasConn, Using, Never, Steps

(* Every variable keeps its type, and a connection in use is never null:   *)
(* what push_back puts into the pool is a connection.                      *)
LEMMA StepType ==
  ASSUME TypeOK, UserHasConn, [Next]_vars
  PROVE  TypeOK' /\ UserHasConn'
<1> USE ProcAssumption, ConnAssumption, LimitAssumption
<1> USE DEF TypeOK, UserHasConn, Using, Steps, Never, HoldsClock, shared, local, env
<1> USE DEF Goto, Forget, Drop
<1>1. ASSUME NEW t \in Threads, Callable(t)
      PROVE  TypeOK' /\ UserHasConn'
  <2>1. CASE LoadDead(t)
    BY <2>1, SMT DEF LoadDead
  <2>2. CASE ReadClock(t, "clock", "deadline")
    BY <2>2, SMT DEF ReadClock
  <2>3. CASE CheckRestoration(t)
    BY <2>3, SMT DEF CheckRestoration
  <2>4. CASE TryLock(t, "trylock", "enlarge")
    <3>1. dead' \in BOOLEAN /\ locked' \in BOOLEAN
      BY <2>4, Zenon DEF TryLock
    <3> QED BY <2>4, <3>1, SMT DEF TryLock
  <2>5. CASE LoserUnlock(t)
    <3>1. dead' \in BOOLEAN /\ locked' \in BOOLEAN
      BY <2>5, Zenon DEF LoserUnlock
    <3> QED BY <2>5, <3>1, SMT DEF LoserUnlock
  <2>6. CASE EnlargeRestoration(t)
    BY <2>6, SMT DEF EnlargeRestoration
  <2>7. CASE UnlockRaised(t)
    <3>1. dead' \in BOOLEAN /\ locked' \in BOOLEAN
      BY <2>7, Zenon DEF UnlockRaised
    <3> QED BY <2>7, <3>1, SMT DEF UnlockRaised
  <2> QED BY <1>1, <2>1, <2>2, <2>3, <2>4, <2>5, <2>6, <2>7 DEF Callable
<1>2. ASSUME NEW t \in Threads, Send(t)
      PROVE  TypeOK' /\ UserHasConn'
  <2>1. CASE Pick(t)
    BY <2>1, SMT DEF Pick
  <2>2. CASE Connect(t)
    BY <2>2, SMT DEF Connect
  <2>3. CASE Answered(t)
    BY <2>3, SMT DEF Answered
  <2>4. CASE IoError(t)
    BY <2>4, SMT DEF IoError
  <2>5. CASE OtherError(t)
    BY <2>5, SMT DEF OtherError
  <2>6. CASE Revive(t)
    <3>1. dead' \in BOOLEAN /\ locked' \in BOOLEAN
      BY <2>6, Zenon DEF Revive
    <3> QED BY <2>6, <3>1, SMT DEF Revive
  <2>7. CASE Forgive(t)
    BY <2>7, SMT DEF Forgive
  <2>8. CASE ReturnConn(t)
    BY <2>8, SMT DEF ReturnConn
  <2>9. CASE Unresolved(t)
    BY <2>9, SMT DEF Unresolved
  <2> QED
    BY <1>2, <2>1, <2>2, <2>3, <2>4, <2>5, <2>6, <2>7, <2>8, <2>9 DEF Send
<1>3. ASSUME NEW t \in Threads, HandleError(t)
      PROVE  TypeOK' /\ UserHasConn'
  <2>1. CASE TryLock(t, "failed", "count")
    <3>1. dead' \in BOOLEAN /\ locked' \in BOOLEAN
      BY <2>1, Zenon DEF TryLock
    <3> QED BY <2>1, <3>1, SMT DEF TryLock
  <2>2. CASE CountFail(t)
    BY <2>2, SMT DEF CountFail
  <2>3. CASE ClearPool(t)
    BY <2>3, SMT DEF ClearPool
  <2>4. CASE Rearm(t)
    BY <2>4, SMT DEF Rearm
  <2>5. CASE MarkDead(t)
    <3>1. dead' \in BOOLEAN /\ locked' \in BOOLEAN
      BY <2>5, Zenon DEF MarkDead
    <3> QED BY <2>5, <3>1, SMT DEF MarkDead
  <2>6. CASE UnlockFailed(t)
    <3>1. dead' \in BOOLEAN /\ locked' \in BOOLEAN
      BY <2>6, Zenon DEF UnlockFailed
    <3> QED BY <2>6, <3>1, SMT DEF UnlockFailed
  <2>7. CASE ReadClock(t, "limit", "clear")
    BY <2>7, SMT DEF ReadClock
  <2> QED BY <1>3, <2>1, <2>2, <2>3, <2>4, <2>5, <2>6, <2>7 DEF HandleError
<1>4. CASE Tick
  BY <1>4, SMT DEF Tick
<1>5. CASE ServerStep
  BY <1>5, SMT DEF ServerStep, ServerStops, ServerStalls, ServerRecovers
<1>6. ASSUME NEW p \in Procs, ProcCrash(p)
      PROVE  TypeOK' /\ UserHasConn'
  BY <1>6, SMT DEF ProcCrash
<1>7. CASE UNCHANGED vars
  BY <1>7, SMT DEF vars
<1> QED
  BY <1>1, <1>2, <1>3, <1>4, <1>5, <1>6, <1>7 DEF Next, ThreadStep

(* The variables of every reachable state have their types.                *)
THEOREM TypeCorrect == Spec => []TypeOK
<1>1. TypeOK /\ UserHasConn /\ [Next]_vars => (TypeOK /\ UserHasConn)'
  BY StepType
<1> QED BY <1>1, InitType, PTL DEF Spec

-----------------------------------------------------------------------------
(* Only four actions take a connection or give one up.                     *)
LEMMA StepExclusive ==
  ASSUME TypeOK, UserHasConn, ConnExclusive, [Next]_vars
  PROVE  ConnExclusive'
<1> USE ProcAssumption, ConnAssumption
<1> USE DEF TypeOK, ConnExclusive
<1>1. CASE UNCHANGED <<conn, pool>>
  BY <1>1, SMT
<1>2. ASSUME NEW t \in Threads, Pick(t)
      PROVE  ConnExclusive'
  BY <1>2, SMT DEF Pick, Goto
<1>3. ASSUME NEW t \in Threads, Connect(t)
      PROVE  ConnExclusive'
  <2>1. CASE UNCHANGED conn
    BY <1>3, <2>1, <1>1 DEF Connect
  <2>2. ASSUME NEW c \in Conns \ (Held \cup Pooled),
               conn' = [conn EXCEPT ![t] = c]
        PROVE  ConnExclusive'
    <3>1. \A u \in Threads : conn[u] # c
      BY <2>2, ConnAssumption DEF Held
    <3>2. \A p \in Procs : c \notin pool[p]
      BY <2>2 DEF Pooled
    <3> QED BY <1>3, <2>2, <3>1, <3>2, SMT DEF Connect
  <2> QED BY <1>3, <2>1, <2>2 DEF Connect
<1>4. ASSUME NEW t \in Threads, IoError(t) \/ OtherError(t)
      PROVE  ConnExclusive'
  BY <1>4, SMT DEF IoError, OtherError, Drop
<1>5. ASSUME NEW t \in Threads, ReturnConn(t)
      PROVE  ConnExclusive'
  <2>1. conn[t] \in Conns
    BY <1>5 DEF ReturnConn, UserHasConn, Using
  <2>2. CASE pool' = pool
    BY <1>5, <2>2, SMT DEF ReturnConn, Drop
  <2>3. CASE pool' = [pool EXCEPT ![ProcOf[t]] = @ \cup {conn[t]}]
    BY <1>5, <2>1, <2>3, SMT DEF ReturnConn, Drop
  <2> QED BY <1>5, <2>2, <2>3 DEF ReturnConn
<1>6. ASSUME NEW t \in Threads, ClearPool(t)
      PROVE  ConnExclusive'
  BY <1>6, SMT DEF ClearPool
<1>7. ASSUME NEW p \in Procs, ProcCrash(p)
      PROVE  ConnExclusive'
  BY <1>7, SMT DEF ProcCrash
<1> QED
  BY <1>1, <1>2, <1>3, <1>4, <1>5, <1>6, <1>7
  DEF Next, ThreadStep, Callable, Send, HandleError, ServerStep, vars, shared, env,
      local, LoadDead, ReadClock, CheckRestoration, TryLock, LoserUnlock,
      EnlargeRestoration, UnlockRaised, Unresolved, Answered, Revive, Forgive,
      CountFail, Rearm, MarkDead, UnlockFailed, Tick, ServerStops, ServerStalls,
      ServerRecovers

(* A pool grows only by push_back, which has just seen that there is room. *)
LEMMA StepBounded ==
  ASSUME TypeOK, UserHasConn, PoolBounded, [Next]_vars
  PROVE  PoolBounded'
<1> USE ProcAssumption, LimitAssumption
<1>1. CASE UNCHANGED pool
  BY <1>1 DEF PoolBounded
<1>2. ASSUME NEW t \in Threads, Pick(t)
      PROVE  PoolBounded'
  <2>1. CASE UNCHANGED pool
    BY <1>1, <2>1
  <2>2. ASSUME NEW c \in pool[ProcOf[t]],
               pool' = [pool EXCEPT ![ProcOf[t]] = @ \ {c}]
        PROVE  PoolBounded'
    <3> SUFFICES ASSUME NEW p \in Procs
                 PROVE  IsFiniteSet(pool'[p]) /\ Cardinality(pool'[p]) <= MaxPool
      BY DEF PoolBounded
    <3>1. pool'[p] \subseteq pool[p]
      BY <2>2 DEF TypeOK
    <3> QED BY <3>1, FS_Subset, FS_CardinalityType, SMT DEF PoolBounded
  <2> QED BY <1>2, <2>1, <2>2 DEF Pick
<1>3. ASSUME NEW t \in Threads, ReturnConn(t)
      PROVE  PoolBounded'
  <2>1. CASE UNCHANGED pool
    BY <1>1, <2>1
  <2>2. CASE /\ Cardinality(pool[ProcOf[t]]) < MaxPool
             /\ pool' = [pool EXCEPT ![ProcOf[t]] = @ \cup {conn[t]}]
    <3> SUFFICES ASSUME NEW p \in Procs
                 PROVE  IsFiniteSet(pool'[p]) /\ Cardinality(pool'[p]) <= MaxPool
      BY DEF PoolBounded
    <3>1. CASE p = ProcOf[t]
      <4>1. pool'[p] = pool[p] \cup {conn[t]}
        BY <2>2, <3>1 DEF TypeOK
      <4>2. IsFiniteSet(pool[p]) /\ Cardinality(pool[p]) \in Nat
        BY FS_CardinalityType DEF PoolBounded
      <4>3. /\ IsFiniteSet(pool[p] \cup {conn[t]})
            /\ \/ Cardinality(pool[p] \cup {conn[t]}) = Cardinality(pool[p])
               \/ Cardinality(pool[p] \cup {conn[t]}) = Cardinality(pool[p]) + 1
        BY <4>2, FS_AddElement, Zenon
      <4> QED BY <2>2, <3>1, <4>1, <4>2, <4>3, SMT
    <3>2. CASE p # ProcOf[t]
      BY <2>2, <3>2 DEF TypeOK, PoolBounded
    <3> QED BY <3>1, <3>2
  <2> QED BY <1>3, <2>1, <2>2 DEF ReturnConn
<1>4. ASSUME NEW q \in Procs, pool' = [pool EXCEPT ![q] = {}]
      PROVE  PoolBounded'
  BY <1>4, FS_EmptySet, SMT DEF TypeOK, PoolBounded
<1>5. ASSUME NEW t \in Threads, ClearPool(t)
      PROVE  PoolBounded'
  BY <1>5, <1>4 DEF ClearPool
<1>6. ASSUME NEW p \in Procs, ProcCrash(p)
      PROVE  PoolBounded'
  BY <1>6, <1>4 DEF ProcCrash
<1> QED
  BY <1>1, <1>2, <1>3, <1>5, <1>6
  DEF Next, ThreadStep, Callable, Send, HandleError, ServerStep, vars, shared, env,
      local, LoadDead, ReadClock, CheckRestoration, TryLock, LoserUnlock,
      EnlargeRestoration, UnlockRaised, Connect, Unresolved, Answered, IoError,
      OtherError, Revive, Forgive, CountFail, Rearm, MarkDead, UnlockFailed, Tick,
      ServerStops, ServerStalls, ServerRecovers

(* The connections of a pool: exclusive and no more than the limit.        *)
PoolInv == TypeOK /\ UserHasConn /\ ConnExclusive /\ PoolBounded

LEMMA InitPool == Init => ConnExclusive /\ PoolBounded
  BY LimitAssumption, FS_EmptySet, SMT DEF Init, ConnExclusive, PoolBounded

LEMMA PoolInvariant == Spec => []PoolInv
<1>1. Init => PoolInv
  BY InitType, InitPool DEF PoolInv
<1>2. PoolInv /\ [Next]_vars => PoolInv'
  BY StepType, StepExclusive, StepBounded DEF PoolInv
<1> QED BY <1>1, <1>2, PTL DEF Spec

(* No connection is ever in the hands of two threads, or in a hand and in  *)
(* a pool, with any number of threads, processes and connections.          *)
THEOREM ConnectionsExclusive == Spec => []ConnExclusive
<1>1. PoolInv => ConnExclusive
  BY DEF PoolInv
<1> QED BY <1>1, PoolInvariant, PTL

(* A pool never holds more connections than max_connections_in_pool.       *)
THEOREM PoolsBounded == Spec => []PoolBounded
<1>1. PoolInv => PoolBounded
  BY DEF PoolInv
<1> QED BY <1>1, PoolInvariant, PTL

-----------------------------------------------------------------------------
(* Whoever is about to store dead has stored restoration before.           *)
DeadlineInv ==
    restoration = Never => ~dead /\ \A t \in Threads : pc[t] # "kill"

LEMMA StepDeadline ==
  ASSUME TypeOK, DeadlineInv, [Next]_vars
  PROVE  DeadlineInv'
<1> USE LimitAssumption DEF TypeOK, DeadlineInv, Never, Goto
<1>1. ASSUME NEW t \in Threads, EnlargeRestoration(t) \/ Rearm(t)
      PROVE  DeadlineInv'
  <2>1. now[t] + Interval > Never
    BY SMT
  <2> QED BY <1>1, <2>1, SMT DEF EnlargeRestoration, Rearm
<1>2. ASSUME NEW t \in Threads, MarkDead(t)
      PROVE  DeadlineInv'
  BY <1>2, SMT DEF MarkDead
<1>3. CASE Tick
  BY <1>3, SMT DEF Tick
<1>4. ASSUME UNCHANGED restoration, dead' = dead \/ ~dead',
             \A t \in Threads : pc'[t] = "kill" => pc[t] = "kill"
      PROVE  DeadlineInv'
  BY <1>4, Zenon
<1>5. ASSUME NEW t \in Threads,
             Callable(t) \/ Send(t) \/ HandleError(t),
             ~EnlargeRestoration(t), ~Rearm(t), ~MarkDead(t)
      PROVE  /\ UNCHANGED restoration
             /\ dead' = dead \/ ~dead'
             /\ \A u \in Threads : pc'[u] = "kill" => pc[u] = "kill"
  <2>1. CASE Callable(t)
    BY <1>5, <2>1, SMT
    DEF Callable, LoadDead, ReadClock, CheckRestoration, TryLock, LoserUnlock,
        UnlockRaised, shared
  <2>2. CASE Send(t)
    BY <1>5, <2>2, SMT
    DEF Send, Pick, Connect, Unresolved, Answered, IoError, OtherError,
        Revive, Forgive, ReturnConn, shared
  <2>3. CASE HandleError(t)
    BY <1>5, <2>3, SMT
    DEF HandleError, TryLock, CountFail, ReadClock, ClearPool, UnlockFailed, shared
  <2> QED BY <1>5, <2>1, <2>2, <2>3
<1>6. CASE ServerStep \/ UNCHANGED vars
  BY <1>4, <1>6
  DEF ServerStep, ServerStops, ServerStalls, ServerRecovers, vars, shared, local, env
<1>7. ASSUME NEW p \in Procs, ProcCrash(p)
      PROVE  DeadlineInv'
  BY <1>4, <1>7, SMT DEF ProcCrash, shared
<1> QED
  BY <1>1, <1>2, <1>3, <1>4, <1>5, <1>6, <1>7 DEF Next, ThreadStep

(* A server that a thread can see dead always has a restoration time.      *)
THEOREM DeadServersHaveDeadline == Spec => []DeadHasDeadline
<1>1. Init => DeadlineInv
  BY Zenon DEF Init, DeadlineInv
<1>2. TypeOK /\ DeadlineInv /\ [Next]_vars => DeadlineInv'
  BY StepDeadline
<1>3. DeadlineInv => DeadHasDeadline
  BY DEF DeadlineInv, DeadHasDeadline
<1> QED BY <1>1, <1>2, <1>3, TypeCorrect, PTL DEF Spec

-----------------------------------------------------------------------------
(* What a store leaves in restoration is due no sooner than an interval    *)
(* after the clock reading, so no sooner than Interval - MaxStall from now.*)
THEOREM ReconnectsAreAhead == Spec => NextReconnectAhead
<1>1. ASSUME TypeOK, [Next]_vars
      PROVE  [Tick \/ restoration' = restoration
                   \/ restoration' >= Interval - MaxStall]_vars
  <2> USE LimitAssumption DEF TypeOK
  <2>1. CASE \E t \in Threads : EnlargeRestoration(t) \/ Rearm(t)
    <3>1. PICK t \in Threads : restoration' = now[t] + Interval
      BY <2>1 DEF EnlargeRestoration, Rearm
    <3>2. now[t] \in -MaxStall .. 0
      BY <1>1
    <3> QED BY <3>1, <3>2, SMT
  <2>2. CASE ~\E t \in Threads : EnlargeRestoration(t) \/ Rearm(t)
    BY <1>1, <2>2
    DEF Next, ThreadStep, Callable, Send, HandleError, ServerStep, vars, shared, env,
        local, LoadDead, ReadClock, CheckRestoration, TryLock, LoserUnlock,
        UnlockRaised, Pick, Connect, Unresolved, Answered, IoError, OtherError,
        Revive, Forgive, ReturnConn, CountFail, ClearPool, MarkDead, UnlockFailed,
        ServerStops, ServerStalls, ServerRecovers, ProcCrash
  <2> QED BY <2>1, <2>2
<1> QED BY <1>1, TypeCorrect, PTL DEF Spec, NextReconnectAhead

(* With a single process, which no crash leaves behind, a taken lock       *)
(* always has a thread that is going to give it back.                      *)
THEOREM LockGivenBack ==
  ASSUME \A p \in Procs : Procs = {p}
  PROVE  Spec => []LockNotLeaked
<1> USE DEF LockNotLeaked, Critical
<1>1. Init => LockNotLeaked
  BY DEF Init
<1>2. ASSUME TypeOK, LockNotLeaked, [Next]_vars
      PROVE  LockNotLeaked'
  <2> USE DEF TypeOK, Goto
  <2>1. ASSUME NEW t \in Threads, ThreadStep(t), locked'
        PROVE  LockNotLeaked'
    <3>1. CASE pc'[t] \in Critical
      BY <3>1
    <3>2. CASE pc'[t] \notin Critical
      <4>1. ~LoserUnlock(t) /\ ~UnlockRaised(t) /\ ~UnlockFailed(t)
        BY <2>1, Zenon DEF LoserUnlock, UnlockRaised, UnlockFailed
      <4>2. pc[t] \notin Critical /\ pc' = [pc EXCEPT ![t] = pc'[t]]
        <5>1. CASE Callable(t)
          BY <1>2, <3>2, <4>1, <5>1, SMT
          DEF Callable, LoadDead, ReadClock, CheckRestoration, TryLock,
              EnlargeRestoration
        <5>2. CASE Send(t)
          BY <1>2, <3>2, <5>2, SMT
          DEF Send, Pick, Connect, Unresolved, Answered, IoError, OtherError,
              Revive, Forgive, ReturnConn
        <5>3. CASE HandleError(t)
          BY <1>2, <3>2, <4>1, <5>3, SMT
          DEF HandleError, TryLock, CountFail, ReadClock, ClearPool, Rearm, MarkDead
        <5> QED BY <2>1, <5>1, <5>2, <5>3 DEF ThreadStep
      <4>3. CASE TryLock(t, "trylock", "enlarge") \/ TryLock(t, "failed", "count")
        <5>1. locked \/ pc'[t] \in {"enlarge", "count"}
          BY <1>2, <4>3 DEF TryLock
        <5> QED BY <1>2, <3>2, <4>2, <5>1
      <4>4. CASE UNCHANGED locked
        BY <1>2, <2>1, <4>2, <4>4
      <4> QED
        BY <2>1, <4>1, <4>3, <4>4, Zenon
        DEF ThreadStep, Callable, Send, HandleError, shared, LoadDead,
            ReadClock, CheckRestoration, EnlargeRestoration, Pick, Connect,
            Unresolved, Answered, IoError, OtherError, Revive, Forgive, ReturnConn,
            CountFail, ClearPool, Rearm, MarkDead
    <3> QED BY <3>1, <3>2
  <2>2. ASSUME NEW p \in Procs, ProcCrash(p)
        PROVE  LockNotLeaked'
    BY <2>2 DEF ProcCrash
  <2>3. CASE UNCHANGED <<locked, pc>>
    BY <1>2, <2>3
  <2> QED
    BY <1>2, <2>1, <2>2, <2>3
    DEF Next, Tick, ServerStep, ServerStops, ServerStalls, ServerRecovers,
        vars, shared, local, env
<1> QED BY <1>1, <1>2, TypeCorrect, PTL DEF Spec

-----------------------------------------------------------------------------
(* From the check of the restoration time to the store that raises it      *)
Probing == {"trylock", "enlarge"}

(* While somebody has probed in this interval the restoration time is      *)
(* ahead, and who has probed is not about to probe again: the check of the *)
(* time would have turned him away.                                        *)
ProbedWait ==
    /\ probed # {} => restoration > 0
    /\ \A t \in probed : t \in Threads /\ pc[t] \notin Probing

(* A thread is on its way to a probe only when its reading of the clock is *)
(* no earlier than the restoration time, and a probe raises that time to   *)
(* an interval after the reading.                                          *)
LEMMA StepProbes ==
  ASSUME TypeOK, [Next]_vars, NEW u \in Threads
  PROVE  /\ pc'[u] \in Probing =>
              pc[u] \in Probing \/ (pc[u] = "deadline" /\ now[u] >= restoration)
         /\ Moves(u, "enlarge", "raised") => restoration' = now[u] + Interval
<1> USE DEF TypeOK, Goto, Probing, Moves
<1>1. ASSUME NEW t \in Threads, Callable(t)
      PROVE  /\ pc'[u] \in Probing =>
                  pc[u] \in Probing \/ (pc[u] = "deadline" /\ now[u] >= restoration)
             /\ Moves(u, "enlarge", "raised") => restoration' = now[u] + Interval
  <2>1. CASE EnlargeRestoration(t)
    BY <2>1, SMT DEF EnlargeRestoration
  <2>2. CASE CheckRestoration(t)
    <3>1. now[t] \in Int /\ restoration \in Int
      BY LimitAssumption DEF Never
    <3> QED BY <2>2, <3>1, SMT DEF CheckRestoration
  <2>3. CASE ~EnlargeRestoration(t) /\ ~CheckRestoration(t)
    BY <1>1, <2>3, SMT
    DEF Callable, LoadDead, ReadClock, TryLock, LoserUnlock, UnlockRaised
  <2> QED BY <2>1, <2>2, <2>3
<1>2. ASSUME NEW t \in Threads, Send(t) \/ HandleError(t)
      PROVE  pc'[u] \notin Probing \cup {"raised"} \/ pc'[u] = pc[u]
  <2>1. CASE Send(t)
    BY <2>1, SMT
    DEF Send, Pick, Connect, Unresolved, Answered, IoError, OtherError, Revive,
        Forgive, ReturnConn
  <2>2. CASE HandleError(t)
    BY <2>2, SMT
    DEF HandleError, TryLock, CountFail, ReadClock, ClearPool, Rearm, MarkDead, UnlockFailed
  <2> QED BY <1>2, <2>1, <2>2
<1>3. CASE Tick \/ ServerStep \/ UNCHANGED vars
  BY <1>3 DEF Tick, ServerStep, ServerStops, ServerStalls, ServerRecovers, vars, local
<1>4. ASSUME NEW p \in Procs, ProcCrash(p)
      PROVE  pc'[u] \in {"idle", pc[u]}
  BY <1>4 DEF ProcCrash
<1> QED
  BY <1>1, <1>2, <1>3, <1>4 DEF Next, ThreadStep

(* Who probes has not probed in this interval, and he is noted.            *)
LEMMA StepProbed ==
  ASSUME Interval > MaxStall, TypeOK, TypeOK', ProbedWait, [AuditNext]_auditVars
  PROVE  /\ ProbedWait'
         /\ \A t \in Threads : Moves(t, "enlarge", "raised") => t \notin probed
<1> USE LimitAssumption
<1>1. [Next]_vars
  BY DEF AuditNext, auditVars
<1>2. \A t \in Threads : Moves(t, "enlarge", "raised") => t \notin probed
  BY DEF ProbedWait, Moves, Probing
<1>3. \A t \in Threads : now[t] \in Int /\ -MaxStall <= now[t] /\ now[t] <= 0
  BY DEF TypeOK
<1>4. restoration \in Int
  BY DEF TypeOK, Never
<1>5. CASE probed' = {}
  BY <1>2, <1>5 DEF ProbedWait
<1>6. CASE UNCHANGED auditVars
  BY <1>2, <1>6 DEF auditVars, vars, shared, local, ProbedWait
<1>7. CASE Observe /\ probed' # {}
  <2>1. /\ ~(restoration > 0 /\ restoration' <= 0)
        /\ probed' = probed \cup {t \in Threads : Moves(t, "enlarge", "raised")}
    BY <1>7 DEF Observe
  <2>2. \A t \in Threads : Moves(t, "enlarge", "raised") => restoration' > 0
    BY <1>1, <1>3, StepProbes
  <2>3. restoration' \in Int
    BY DEF TypeOK, Never
  <2>4. restoration' > 0
    <3>1. CASE probed # {}
      BY <1>4, <2>1, <2>3, <3>1 DEF ProbedWait
    <3>2. CASE probed = {}
      BY <1>7, <2>1, <2>2, <3>2
    <3> QED BY <3>1, <3>2
  <2>5. ASSUME NEW t \in probed'
        PROVE  t \in Threads /\ pc'[t] \notin Probing
    <3>1. CASE t \in probed
      <4>1. t \in Threads /\ pc[t] \notin Probing /\ restoration > 0
        BY <3>1 DEF ProbedWait
      <4>2. ~(now[t] >= restoration)
        BY <1>3, <1>4, <4>1
      <4> QED BY <1>1, <4>1, <4>2, StepProbes
    <3>2. CASE t \notin probed
      BY <2>1, <2>5, <3>2 DEF Moves, Probing
    <3> QED BY <3>1, <3>2
  <2> QED BY <1>2, <2>4, <2>5 DEF ProbedWait
<1> QED BY <1>2, <1>5, <1>6, <1>7 DEF AuditNext

(* If no thread sleeps through a restoration interval between its clock    *)
(* reading and its store, no thread raises the restoration time twice      *)
(* before it has run out, though two threads may be in the critical        *)
(* section at once.                                                        *)
THEOREM ProbesAreApart ==
  ASSUME Interval > MaxStall
  PROVE  AuditSpec => OneProbePerInterval
<1>1. AuditInit => Init /\ ProbedWait
  BY DEF AuditInit, ProbedWait
<1>2. [AuditNext]_auditVars => [Next]_vars
  BY DEF AuditNext, auditVars
<1>3. TypeOK /\ TypeOK' /\ ProbedWait /\ [AuditNext]_auditVars => ProbedWait'
  BY StepProbed
<1>4. TypeOK /\ TypeOK' /\ ProbedWait /\ [AuditNext]_auditVars =>
        [\A t \in Threads : Moves(t, "enlarge", "raised") => t \notin probed]_auditVars
  BY StepProbed
<1> QED
  BY <1>1, <1>2, <1>3, <1>4, TypeCorrect, PTL DEF Spec, AuditSpec, OneProbePerInterval

=============================================================================
