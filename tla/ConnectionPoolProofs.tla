------------------------ MODULE ConnectionPoolProofs ------------------------
(***************************************************************************)
(* Every kind of connection pool implements Pool, for any number of        *)
(* threads and connections and any capacity.                               *)
(***************************************************************************)
EXTENDS ConnectionPool, FiniteSetTheorems, TLAPS

(* A thread has a connection exactly while it uses one.                    *)
HoldsWhileUsing == \A t \in Threads : conn[t] # NoConn <=> pc[t] = "using"

(* What clear() has yet to see leaving is in the pool.                     *)
StaleIsPooled == \A t \in Threads : stale[t] \subseteq pool

(* The one pointer is empty while its only user has the connection.        *)
SoleUser ==
    kind = "single" => /\ \A t \in Threads \ {Sole} : pc[t] = "idle"
                       /\ pc[Sole] = "using" => pool = {}
                       /\ pc[Sole] = "creating" => pool = {}

IInv == TypeOK /\ HoldsWhileUsing /\ StaleIsPooled /\ SoleUser

LEMMA CapacityType ==
    ASSUME TypeOK PROVE Capacity \in Nat
<1>1. kind \in {"new", "single", "bbt", "lock"}
  BY DEF TypeOK, Kinds
<1>2. CASE kind = "new"
  BY <1>2 DEF Capacity
<1>3. CASE kind = "single"
  BY <1>3 DEF Capacity
<1>4. CASE kind \in {"bbt", "lock"}
  BY <1>4, MaxAssumption DEF Capacity
<1>. QED BY <1>1, <1>2, <1>3, <1>4

(* Taking a connection out of a bounded pool, or adding one while there is *)
(* room, keeps the bound.                                                  *)
LEMMA OneLess ==
    ASSUME NEW S, NEW c, NEW n \in Nat, IsFiniteSet(S), Cardinality(S) <= n
    PROVE  IsFiniteSet(S \ {c}) /\ Cardinality(S \ {c}) <= n
<1>1. Cardinality(S) \in Nat
  BY FS_CardinalityType
<1>2. IsFiniteSet(S \ {c}) /\ Cardinality(S \ {c}) =
        IF c \in S THEN Cardinality(S) - 1 ELSE Cardinality(S)
  BY FS_RemoveElement
<1>. QED BY <1>1, <1>2

LEMMA OneMore ==
    ASSUME NEW S, NEW c, NEW n \in Nat, IsFiniteSet(S), Cardinality(S) < n
    PROVE  IsFiniteSet(S \cup {c}) /\ Cardinality(S \cup {c}) <= n
<1>1. Cardinality(S) \in Nat
  BY FS_CardinalityType
<1>2. IsFiniteSet(S \cup {c}) /\ Cardinality(S \cup {c}) =
        IF c \in S THEN Cardinality(S) ELSE Cardinality(S) + 1
  BY FS_AddElement
<1>. QED BY <1>1, <1>2

(* What a pool of capacity n is after it was offered c.                    *)
Offered(S, c, n) == IF Cardinality(S) < n THEN S \cup {c} ELSE S

(* The three ways to give a connection back are one: it is kept while      *)
(* there is room.                                                          *)
LEMMA GivenBack ==
    ASSUME IInv, NEW t \in Users, PushBack(t)
    PROVE  /\ pool' = Offered(pool, conn[t], Capacity)
           /\ kind = "single" => t = Sole
<1>0. /\ kind \in Kinds /\ IsFiniteSet(pool) /\ Cardinality(pool) <= Capacity
      /\ pc[t] = "using" /\ Cardinality(pool) \in Nat
  BY FS_CardinalityType DEF IInv, TypeOK, PushBack, Returned
<1>1. CASE kind = "new"
  BY <1>0, <1>1 DEF Offered, Capacity, PushBack
<1>2. CASE kind = "single"
  <2>1. t = Sole /\ pool = {}
    BY <1>0, <1>2 DEF Users, IInv, SoleUser
  <2>2. Capacity = 1 /\ pool' = {conn[t]}
    BY <1>2 DEF Capacity, PushBack
  <2>. QED BY <2>1, <2>2, FS_EmptySet DEF Offered
<1>3. CASE kind \in {"bbt", "lock"}
  BY <1>3 DEF Offered, Capacity, PushBack
<1>. QED BY <1>0, <1>1, <1>2, <1>3 DEF Kinds

LEMMA UsersAreThreads == Users \subseteq Threads
BY SoleAssumption DEF Users

-----------------------------------------------------------------------------
LEMMA InitInvariant == Init => IInv
<1>1. Init => TypeOK
  <2>1. SUFFICES ASSUME Init PROVE TypeOK
    OBVIOUS
  <2>2. Capacity \in Nat
    BY MaxAssumption DEF Init, Kinds, Capacity
  <2>. QED BY <2>1, <2>2, FS_EmptySet DEF Init, TypeOK
<1>2. Init => HoldsWhileUsing /\ StaleIsPooled /\ SoleUser
  BY SoleAssumption DEF Init, HoldsWhileUsing, StaleIsPooled, SoleUser
<1>. QED BY <1>1, <1>2 DEF IInv

(* The invariant is kept by each step of each thread.                      *)
LEMMA StepInvariant == IInv /\ [Next]_vars => IInv'
<1>1. SUFFICES ASSUME IInv, [Next]_vars PROVE IInv'
  OBVIOUS
<1>2. CASE UNCHANGED vars
  BY <1>1, <1>2 DEF IInv, TypeOK, HoldsWhileUsing, StaleIsPooled, SoleUser, vars, Capacity
<1>3. ASSUME NEW t \in Users, Step(t) PROVE IInv'
  <2>0. /\ t \in Threads
        /\ kind = "single" => t = Sole
        /\ Capacity \in Nat
    BY <1>1, UsersAreThreads, CapacityType DEF IInv, Users
  <2>k. kind' = kind /\ Capacity' = Capacity
    BY <1>3 DEF Step, Pick, PickNone, Create, CreateThrows, PushBack, Drop, Returned, StartClear, ClearOne, EndClear, Capacity
  <2>t. /\ kind \in Kinds /\ pool \in SUBSET Conns
        /\ IsFiniteSet(pool) /\ Cardinality(pool) <= Capacity
        /\ mutex \in Threads \cup {NoThread}
        /\ conn \in [Threads -> Conns \cup {NoConn}]
        /\ pc \in [Threads -> {"idle", "creating", "using", "clearing"}]
        /\ stale \in [Threads -> SUBSET Conns]
    BY <1>1 DEF IInv, TypeOK
  <2>1. CASE Pick(t)
    <3>1. PICK c \in pool : conn' = [conn EXCEPT ![t] = c] /\ Out(c)
      BY <2>1 DEF Pick
    <3>2. IsFiniteSet(pool') /\ Cardinality(pool') <= Capacity'
      BY <2>0, <2>k, <2>t, <3>1, OneLess DEF Out
    <3>3. TypeOK'
      BY <2>0, <2>k, <2>t, <2>1, <3>1, <3>2 DEF TypeOK, Pick, Out, Goto
    <3>4. HoldsWhileUsing' /\ StaleIsPooled'
      BY <1>1, <2>0, <2>t, <2>1, <3>1, NullAssumption DEF IInv, HoldsWhileUsing, StaleIsPooled, Pick, Out, Goto
    <3>5. SoleUser'
      <4>1. SUFFICES ASSUME kind = "single" PROVE pool' = {} /\ pc' = [pc EXCEPT ![t] = "using"]
        BY <1>1, <2>0, <2>k, <2>t DEF IInv, SoleUser
      <4>2. Cardinality(pool') = 0
        <5>1. Cardinality(pool) \in Nat /\ Cardinality(pool) <= 1
          BY <2>t, <4>1, FS_CardinalityType DEF Capacity
        <5>2. Cardinality(pool \ {c}) = Cardinality(pool) - 1 /\ Cardinality(pool \ {c}) \in Nat
          BY <2>t, FS_RemoveElement, FS_CardinalityType
        <5>. QED BY <3>1, <5>1, <5>2 DEF Out
      <4>. QED BY <2>1, <3>2, <4>2, FS_EmptySet DEF Pick, Goto
    <3>. QED BY <3>3, <3>4, <3>5 DEF IInv
  <2>2. CASE PickNone(t)
    BY <1>1, <2>0, <2>k, <2>t, <2>2 DEF IInv, TypeOK, HoldsWhileUsing, StaleIsPooled, SoleUser, PickNone, Goto
  <2>3. CASE Create(t)
    BY <1>1, <2>0, <2>k, <2>t, <2>3, NullAssumption DEF IInv, TypeOK, HoldsWhileUsing, StaleIsPooled, SoleUser, Create, Goto
  <2>4. CASE CreateThrows(t)
    BY <1>1, <2>0, <2>k, <2>t, <2>4 DEF IInv, TypeOK, HoldsWhileUsing, StaleIsPooled, SoleUser, CreateThrows, Goto
  <2>5. CASE PushBack(t)
    <3>1. pool' = Offered(pool, conn[t], Capacity)
      BY <1>1, <2>5, GivenBack
    <3>2. conn[t] \in Conns
      BY <1>1, <2>0, <2>t, <2>5 DEF IInv, HoldsWhileUsing, PushBack, Returned
    <3>3. IsFiniteSet(pool') /\ Cardinality(pool') <= Capacity' /\ pool \subseteq pool' /\ pool' \in SUBSET Conns
      BY <2>0, <2>k, <2>t, <3>1, <3>2, OneMore DEF Offered
    <3>4. TypeOK'
      BY <2>0, <2>k, <2>t, <2>5, <3>3 DEF TypeOK, PushBack, Returned, Goto
    <3>. QED BY <1>1, <2>0, <2>k, <2>t, <2>5, <3>3, <3>4 DEF IInv, HoldsWhileUsing, StaleIsPooled, SoleUser, PushBack, Returned, Goto
  <2>6. CASE Drop(t)
    BY <1>1, <2>0, <2>k, <2>t, <2>6 DEF IInv, TypeOK, HoldsWhileUsing, StaleIsPooled, SoleUser, Drop, Returned, Goto
  <2>7. CASE StartClear(t)
    BY <1>1, <2>0, <2>k, <2>t, <2>7 DEF IInv, TypeOK, HoldsWhileUsing, StaleIsPooled, SoleUser, StartClear, Goto
  <2>8. CASE ClearOne(t)
    <3>1. PICK c \in pool : Out(c)
      BY <2>8 DEF ClearOne
    <3>2. IsFiniteSet(pool') /\ Cardinality(pool') <= Capacity'
      BY <2>0, <2>k, <2>t, <3>1, OneLess DEF Out
    <3>. QED BY <1>1, <2>0, <2>k, <2>t, <2>8, <3>1, <3>2 DEF IInv, TypeOK, HoldsWhileUsing, StaleIsPooled, SoleUser, ClearOne, Out
  <2>9. CASE EndClear(t)
    BY <1>1, <2>0, <2>k, <2>t, <2>9 DEF IInv, TypeOK, HoldsWhileUsing, StaleIsPooled, SoleUser, EndClear, Goto
  <2>. QED BY <1>3, <2>1, <2>2, <2>3, <2>4, <2>5, <2>6, <2>7, <2>8, <2>9 DEF Step
<1>. QED BY <1>1, <1>2, <1>3 DEF Next

(* The variables keep their types and no pool outgrows its capacity.       *)
THEOREM TypeCorrect == Spec => []TypeOK
<1>1. IInv => TypeOK
  BY DEF IInv
<1>. QED BY InitInvariant, StepInvariant, <1>1, PTL DEF Spec

-----------------------------------------------------------------------------
LEMMA InitImplements == Init => Abstract!PoolInit
<1>1. SUFFICES ASSUME Init PROVE Abstract!PoolInit
  OBVIOUS
<1>2. Capacity \in Nat
  BY <1>1, MaxAssumption DEF Init, Kinds, Capacity
<1>. QED BY <1>1, <1>2 DEF Init, Abstract!PoolInit

(* Pool counts as FiniteSets does.                                         *)
LEMMA SameCardinality ==
    ASSUME NEW S PROVE Abstract!Cardinality(S) = Cardinality(S)
BY Zenon DEF Cardinality, Abstract!Cardinality

(* Each step of a thread is the step of the abstract pool it is named for. *)
LEMMA StepImplements ==
    IInv /\ [Next]_vars => [Abstract!PoolNext]_(Abstract!poolVars)
<1>1. SUFFICES ASSUME IInv, [Next]_vars
               PROVE  [Abstract!PoolNext]_(Abstract!poolVars)
  OBVIOUS
<1>2. CASE UNCHANGED vars
  BY <1>2 DEF vars, Capacity, Abstract!poolVars
<1>3. ASSUME NEW t \in Users, Step(t) PROVE Abstract!PoolNext
  <2>0. t \in Threads
    BY UsersAreThreads
  <2>k. Capacity' = Capacity
    BY <1>3 DEF Step, Pick, PickNone, Create, CreateThrows, PushBack, Drop, Returned, StartClear, ClearOne, EndClear, Capacity
  <2>t. /\ conn \in [Threads -> Conns \cup {NoConn}]
        /\ pc \in [Threads -> {"idle", "creating", "using", "clearing"}]
        /\ stale \in [Threads -> SUBSET Conns]
        /\ \A u \in Threads : conn[u] # NoConn <=> pc[u] = "using"
        /\ \A u \in Threads : stale[u] \subseteq pool
    BY <1>1 DEF IInv, TypeOK, HoldsWhileUsing, StaleIsPooled
  <2>1. CASE Pick(t)
    <3>1. Abstract!LendIdle(t)
      BY <2>0, <2>k, <2>t, <2>1 DEF Pick, Out, Goto, Abstract!LendIdle, Abstract!Free, Abstract!Leaves
    <3>. QED BY <2>0, <3>1 DEF Abstract!PoolNext
  <2>2. CASE PickNone(t)
    <3>1. Abstract!FindNone(t)
      BY <2>0, <2>k, <2>t, <2>2 DEF PickNone, Goto, Abstract!FindNone, Abstract!Free
    <3>. QED BY <2>0, <3>1 DEF Abstract!PoolNext
  <2>3. CASE Create(t)
    <3>1. Abstract!LendNew(t)
      BY <2>0, <2>k, <2>t, <2>3 DEF Create, Goto, Abstract!LendNew
    <3>. QED BY <2>0, <3>1 DEF Abstract!PoolNext
  <2>4. CASE CreateThrows(t)
    <3>1. Abstract!FailNew(t)
      BY <2>0, <2>k, <2>t, <2>4 DEF CreateThrows, Goto, Abstract!FailNew
    <3>. QED BY <2>0, <3>1 DEF Abstract!PoolNext
  <2>5. CASE PushBack(t)
    <3>1. pool' = Offered(pool, conn[t], Capacity)
      BY <1>1, <2>5, GivenBack
    <3>2. Abstract!TakeBack(t)
      BY <2>0, <2>k, <2>t, <2>5, <3>1, SameCardinality DEF PushBack, Returned, Goto, Offered, Abstract!TakeBack
    <3>. QED BY <2>0, <3>2 DEF Abstract!PoolNext
  <2>6. CASE Drop(t)
    <3>1. Abstract!Discard(t)
      BY <2>0, <2>k, <2>t, <2>6 DEF Drop, Returned, Goto, Abstract!Discard
    <3>. QED BY <2>0, <3>1 DEF Abstract!PoolNext
  <2>7. CASE StartClear(t)
    <3>1. Abstract!StartClear(t)
      BY <2>0, <2>k, <2>t, <2>7 DEF StartClear, Goto, Abstract!StartClear, Abstract!Free
    <3>. QED BY <2>0, <3>1 DEF Abstract!PoolNext
  <2>8. CASE ClearOne(t)
    <3>1. Abstract!Expel
      BY <2>0, <2>k, <2>t, <2>8 DEF ClearOne, Out, Abstract!Expel, Abstract!Leaves
    <3>. QED BY <3>1 DEF Abstract!PoolNext
  <2>9. CASE EndClear(t)
    <3>1. Abstract!EndClear(t)
      BY <2>0, <2>k, <2>t, <2>9 DEF EndClear, Goto, Abstract!EndClear
    <3>. QED BY <2>0, <3>1 DEF Abstract!PoolNext
  <2>. QED BY <1>3, <2>1, <2>2, <2>3, <2>4, <2>5, <2>6, <2>7, <2>8, <2>9 DEF Step
<1>. QED BY <1>1, <1>2, <1>3 DEF Next

(* Each of the four pools is a pool as the server proxy knows it.          *)
THEOREM PoolsImplement == Spec => ImplementsPool
<1>. QED BY InitInvariant, StepInvariant, InitImplements, StepImplements, PTL
         DEF Spec, ImplementsPool, Abstract!PoolSpec

=============================================================================
