--------------------------- MODULE RingWalkProofs ---------------------------
(***************************************************************************)
(* What a walk offers, for any number of addresses and virtual nodes, any  *)
(* range of hashes and any hash function; and where the keys go when a     *)
(* server is added.  What is known of rings as such comes first.           *)
(***************************************************************************)
EXTENDS RingWalk, SequenceTheorems, WellFoundedInduction, TLAPS

-----------------------------------------------------------------------------
(* A set of natural numbers has a least element: induction, for a set of   *)
(* counterexamples.                                                        *)
LEMMA Minimum ==
    ASSUME NEW T, T \subseteq Nat, T # {}
    PROVE  \E x \in T : \A y \in T : x <= y
<1>1. \E x \in T : \A y \in T : <<y, x>> \notin OpToRel(<, Nat)
  BY WFMin, NatLessThanWellFounded
<1>2. PICK x \in T : \A y \in T : <<y, x>> \notin OpToRel(<, Nat)
  BY <1>1
<1>3. ASSUME NEW y \in T PROVE x <= y
  <2>1. x \in Nat /\ y \in Nat
    OBVIOUS
  <2>2. ~ (y < x)
    BY <1>2, <2>1 DEF OpToRel
  <2>. QED BY <2>1, <2>2
<1>. QED BY <1>3

-----------------------------------------------------------------------------
(* Facts about rings                                                       *)

LEMMA LowerBoundIs ==
    ASSUME NEW r, DOMAIN r \subseteq Hashes, NEW h \in Nat
    PROVE  IF \E p \in DOMAIN r : h <= p
           THEN IsLowerBound(r, h, LowerBound(r, h))
           ELSE LowerBound(r, h) = End
<1>1. CASE \E p \in DOMAIN r : h <= p
  <2>. DEFINE above == {p \in DOMAIN r : h <= p}
  <2>1. above # {} /\ above \subseteq Nat
    BY <1>1, HashAssumption DEF Hashes
  <2>2. PICK p \in above : \A q \in above : p <= q
    BY <2>1, Minimum
  <2>3. IsLowerBound(r, h, p)
    BY <2>2 DEF IsLowerBound
  <2>. QED BY <1>1, <2>3 DEF LowerBound
<1>2. CASE ~ \E p \in DOMAIN r : h <= p
  BY <1>2 DEF LowerBound
<1>. QED BY <1>1, <1>2

(* The first node of the ring                                              *)
LEMMA BeginIsFirst ==
    ASSUME NEW r, DOMAIN r \subseteq Hashes, DOMAIN r # {}
    PROVE  Begin(r) \in DOMAIN r /\ \A p \in DOMAIN r : Begin(r) <= p
<1>1. \A p \in DOMAIN r : p \in Nat /\ 0 <= p
  BY HashAssumption DEF Hashes
<1>2. \E p \in DOMAIN r : 0 <= p
  BY <1>1
<1>3. IsLowerBound(r, 0, Begin(r))
  BY <1>2, LowerBoundIs DEF Begin
<1>. QED BY <1>1, <1>3 DEF IsLowerBound

(* The node after one of the ring, or the end                              *)
LEMMA NextNode ==
    ASSUME NEW r, DOMAIN r \subseteq Hashes, NEW n \in DOMAIN r
    PROVE  LET next == LowerBound(r, n + 1)
           IN  \/ next = End /\ \A p \in DOMAIN r : p <= n
               \/ /\ next \in DOMAIN r
                  /\ n < next
                  /\ \A p \in DOMAIN r : p <= next <=> p <= n \/ p = next
<1>. DEFINE next == LowerBound(r, n + 1)
<1>1. \A p \in DOMAIN r : p \in Nat
  BY HashAssumption DEF Hashes
<1>2. n \in Nat /\ n + 1 \in Nat
  BY <1>1
<1>3. CASE \E p \in DOMAIN r : n + 1 <= p
  <2>1. IsLowerBound(r, n + 1, next)
    BY <1>2, <1>3, LowerBoundIs
  <2>2. next \in DOMAIN r /\ n + 1 <= next
    BY <2>1 DEF IsLowerBound
  <2>3. \A p \in DOMAIN r : n + 1 <= p => next <= p
    BY <2>1 DEF IsLowerBound
  <2>. HIDE DEF next
  <2>4. ASSUME NEW p \in DOMAIN r PROVE p <= next <=> p <= n \/ p = next
    BY <1>1, <1>2, <2>2, <2>3
  <2>. QED BY <1>1, <1>2, <2>2, <2>4 DEF next
<1>4. CASE ~ \E p \in DOMAIN r : n + 1 <= p
  <2>1. next = End
    BY <1>2, <1>4, LowerBoundIs
  <2>. QED BY <1>1, <1>2, <1>4, <2>1
<1>. QED BY <1>3, <1>4

(* Where a walk of a key starts: at the first node not before it, or at    *)
(* the first of all.                                                       *)
LEMMA ChooseIs ==
    ASSUME NEW r, DOMAIN r \subseteq Hashes, NEW h \in Hashes
    PROVE  LET from == Choose(r, h).node
           IN  /\ Choose(r, h) = [node |-> from, stop |-> FALSE]
               /\ DOMAIN r = {} => from = End
               /\ DOMAIN r # {} => from \in DOMAIN r
               /\ (\E p \in DOMAIN r : h <= p) => IsLowerBound(r, h, from)
               /\ DOMAIN r # {} /\ ~ (\E p \in DOMAIN r : h <= p)
                    => \A p \in DOMAIN r : from <= p
<1>1. h \in Nat /\ \A p \in DOMAIN r : p \in Nat /\ p # End
  BY HashAssumption DEF Hashes, End
<1>2. Choose(r, h) = [node |-> IF LowerBound(r, h) = End THEN Begin(r) ELSE LowerBound(r, h),
                      stop |-> FALSE]
  BY DEF Choose, Iter
<1>3. CASE \E p \in DOMAIN r : h <= p
  <2>1. IsLowerBound(r, h, LowerBound(r, h))
    BY <1>1, <1>3, LowerBoundIs
  <2>2. LowerBound(r, h) \in DOMAIN r
    BY <2>1 DEF IsLowerBound
  <2>. QED BY <1>1, <1>2, <1>3, <2>1, <2>2
<1>4. CASE ~ \E p \in DOMAIN r : h <= p
  <2>1. LowerBound(r, h) = End
    BY <1>1, <1>4, LowerBoundIs
  <2>2. DOMAIN r = {} => Begin(r) = End
    BY LowerBoundIs, 0 \in Nat DEF Begin
  <2>. QED BY <1>2, <1>4, <2>1, <2>2, BeginIsFirst
<1>. QED BY <1>3, <1>4

(* What the constructor makes of the nodes of every address.               *)
LEMMA RingIs ==
    ASSUME NEW n \in Nat, NEW sets \in [1 .. n -> SUBSET Hashes]
    PROVE  /\ DOMAIN Ring(sets) \subseteq Hashes
           /\ \A p \in DOMAIN Ring(sets) : \E i \in 1 .. n :
                 /\ Ring(sets)[p] = i - 1
                 /\ p \in sets[i]
                 /\ \A j \in 1 .. i - 1 : p \notin sets[j]
<1>. DEFINE first(p, i) == p \in sets[i] /\ \A j \in 1 .. i - 1 : p \notin sets[j]
<1>1. DOMAIN sets = 1 .. n
  OBVIOUS
<1>2. DOMAIN Ring(sets) = UNION {sets[i] : i \in 1 .. n}
  BY <1>1 DEF Ring
<1>3. ASSUME NEW p \in DOMAIN Ring(sets)
      PROVE  \E i \in 1 .. n : Ring(sets)[p] = i - 1 /\ first(p, i)
  <2>. DEFINE at == {i \in 1 .. n : p \in sets[i]}
  <2>1. at \subseteq Nat /\ at # {}
    BY <1>2
  <2>2. PICK i \in at : \A j \in at : i <= j
    BY <2>1, Minimum
  <2>3. i \in 1 .. n /\ first(p, i)
    BY <2>2
  <2>. DEFINE c == CHOOSE k \in 1 .. n : first(p, k)
  <2>4. c \in 1 .. n /\ first(p, c)
    BY <2>3
  <2>5. Ring(sets)[p] = c - 1
    BY <1>1, <1>2 DEF Ring
  <2>. QED BY <2>4, <2>5
<1>. QED BY <1>2, <1>3

(* What the nodes of one more server do to a ring                          *)
LEMMA OneMoreServer ==
    ASSUME NEW n \in Nat, NEW sets \in [1 .. n + 1 -> SUBSET Hashes],
           NEW fewer \in [1 .. n -> SUBSET Hashes],
           \A i \in 1 .. n : fewer[i] = sets[i]
    PROVE  /\ DOMAIN Ring(fewer) \subseteq DOMAIN Ring(sets)
           /\ \A p \in DOMAIN Ring(sets) :
                 Ring(sets)[p] = IF p \in DOMAIN Ring(fewer)
                                 THEN Ring(fewer)[p] ELSE n
<1>1. /\ DOMAIN Ring(fewer) = UNION {fewer[i] : i \in 1 .. n}
      /\ DOMAIN Ring(sets) = UNION {sets[i] : i \in 1 .. n + 1}
  BY DEF Ring
<1>2. DOMAIN Ring(fewer) \subseteq DOMAIN Ring(sets)
  BY <1>1
<1>3. ASSUME NEW p \in DOMAIN Ring(sets)
      PROVE  Ring(sets)[p] = IF p \in DOMAIN Ring(fewer) THEN Ring(fewer)[p] ELSE n
  <2>1. PICK i \in 1 .. n + 1 : /\ Ring(sets)[p] = i - 1
                                /\ p \in sets[i]
                                /\ \A j \in 1 .. i - 1 : p \notin sets[j]
    BY RingIs, n + 1 \in Nat
  <2>2. CASE p \in DOMAIN Ring(fewer)
    <3>1. PICK k \in 1 .. n : /\ Ring(fewer)[p] = k - 1
                              /\ p \in fewer[k]
                              /\ \A j \in 1 .. k - 1 : p \notin fewer[j]
      BY <2>2, RingIs
    <3>2. ~(k < i) /\ ~(i < k)
      BY <2>1, <3>1
    <3>. QED BY <2>1, <2>2, <3>1, <3>2
  <2>3. CASE p \notin DOMAIN Ring(fewer)
    <3>1. ~(i <= n)
      BY <1>1, <2>1, <2>3
    <3>. QED BY <2>1, <2>3, <3>1
  <2>. QED BY <2>2, <2>3
<1>. QED BY <1>2, <1>3

-----------------------------------------------------------------------------
(* The inductive invariant: how often a walk of the ring has been at each  *)
(* node follows from where it began, where it is and whether it wrapped.   *)

From == Choose(ring, key).node

Bit(b) == IF b THEN 1 ELSE 0

RingVisits ==
    pool = "ring" =>
        /\ ~it.stop => From <= it.node
        /\ it.node = End /\ DOMAIN ring # {} => it.stop
        /\ visits = [p \in Hashes |->
                        IF p \in DOMAIN ring
                        THEN Bit(From <= p /\ (it.stop \/ p <= it.node))
                             + Bit(it.stop /\ p <= it.node)
                        ELSE 0]

ModVisits ==
    pool = "mod" =>
        /\ it.value = key % Count
        /\ visits = [p \in Hashes |-> IF p = key % Count THEN 1 ELSE 0]

IInv == TypeOK /\ RingVisits /\ ModVisits

LEMMA RingType ==
    ASSUME TypeOK
    PROVE  /\ DOMAIN ring \subseteq Hashes
           /\ \A p \in DOMAIN ring \cup {End} : p \in Nat
           /\ End \notin Hashes
<1>1. DOMAIN ring \subseteq Hashes
  BY RingIs, CountAssumption DEF TypeOK, ring
<1>. QED BY <1>1, HashAssumption DEF Hashes, End

LEMMA Remainder ==
    ASSUME NEW h \in Hashes
    PROVE  h % Count \in 0 .. Count - 1 /\ h % Count \in Hashes
BY CountAssumption, HashAssumption DEF Hashes

LEMMA InitIInv == Init => IInv
<1>. SUFFICES ASSUME Init PROVE IInv
  OBVIOUS
<1>1. CASE pool = "ring"
  <2>1. nodes \in [1 .. Count -> SUBSET Hashes]
    <3>1. \A S \in NodeSets : S \subseteq Hashes
      BY HashAssumption DEF NodeSets, Chains
    <3>. QED BY <1>1, <3>1 DEF Init
  <2>2. DOMAIN ring \subseteq Hashes
    BY <2>1, RingIs, CountAssumption DEF ring
  <2>3. key \in Hashes /\ it = [node |-> From, stop |-> FALSE]
    BY <1>1, <2>2, ChooseIs DEF Init, From
  <2>4. CASE DOMAIN ring = {}
    <3>1. From = End
      BY <2>2, <2>3, <2>4, ChooseIs DEF From
    <3>2. visits = [p \in Hashes |-> 0]
      BY <1>1, <2>3, <3>1 DEF Init, Visit, Ended, AtEnd
    <3>3. End <= End
      BY HashAssumption DEF End
    <3>. QED BY <1>1, <2>1, <2>3, <2>4, <3>1, <3>2, <3>3
           DEF IInv, TypeOK, RingVisits, ModVisits
  <2>5. CASE DOMAIN ring # {}
    <3>1. From \in DOMAIN ring
      BY <2>2, <2>3, <2>5, ChooseIs DEF From
    <3>2. From \in Hashes /\ From # End
      BY <2>2, <3>1, HashAssumption DEF Hashes, End
    <3>3. visits = [p \in Hashes |-> IF p = From THEN 1 ELSE 0]
      BY <1>1, <2>3, <3>2 DEF Init, Visit, Ended, AtEnd, Place
    <3>4. \A p \in Hashes : p \in Nat
      BY HashAssumption DEF Hashes
    <3>5. visits = [p \in Hashes |->
                       IF p \in DOMAIN ring
                       THEN Bit(From <= p /\ (it.stop \/ p <= it.node))
                            + Bit(it.stop /\ p <= it.node)
                       ELSE 0]
      BY <2>3, <3>1, <3>2, <3>3, <3>4 DEF Bit
    <3>6. visits \in [Hashes -> 0 .. 2]
      BY <3>3
    <3>7. From <= it.node
      BY <2>3, <3>2, <3>4
    <3>. QED BY <1>1, <2>1, <2>3, <3>1, <3>2, <3>5, <3>6, <3>7
           DEF IInv, TypeOK, RingVisits, ModVisits
  <2>. QED BY <2>4, <2>5
<1>2. CASE pool = "mod"
  <2>1. nodes \in [1 .. Count -> SUBSET Hashes] /\ key \in Hashes
    BY <1>2 DEF Init
  <2>2. it = [value |-> key % Count, stop |-> FALSE]
    BY <1>2 DEF Init, ModChoose, ModIter
  <2>3. visits = [p \in Hashes |-> IF p = key % Count THEN 1 ELSE 0]
    BY <1>2, <2>1, <2>2, Remainder DEF Init, Visit, Ended, Place, ModEqual, ModEnd
  <2>. QED BY <1>2, <2>1, <2>2, <2>3, Remainder DEF IInv, TypeOK, RingVisits, ModVisits
<1>. QED BY <1>1, <1>2 DEF Init

(* A step of the walk of a ring, or of a mod pool                          *)
LEMMA RingStep ==
    ASSUME IInv, Step, pool = "ring"
    PROVE  IInv'
<1>. DEFINE next == LowerBound(ring, it.node + 1)
            count(i, p) == Bit(From <= p /\ (i.stop \/ p <= i.node))
                           + Bit(i.stop /\ p <= i.node)
            counted(i) == [p \in Hashes |-> IF p \in DOMAIN ring THEN count(i, p) ELSE 0]
<1>1. /\ pool' = "ring" /\ nodes' = nodes /\ key' = key
      /\ it' = Increment(ring, it)
      /\ visits' = Visit(visits, it')
      /\ it.node # End
  BY DEF Step, Ended, AtEnd
<1>2. /\ DOMAIN ring \subseteq Hashes
      /\ \A p \in DOMAIN ring \cup {End} : p \in Nat
      /\ End \notin Hashes
  BY RingType DEF IInv
<1>3. /\ it \in [node : DOMAIN ring \cup {End}, stop : BOOLEAN]
      /\ key \in Hashes
      /\ nodes \in [1 .. Count -> SUBSET Hashes]
  BY DEF IInv, TypeOK
<1>4. it.node \in DOMAIN ring /\ it.stop \in BOOLEAN
  BY <1>1, <1>3
<1>5. From \in DOMAIN ring /\ From \in Nat /\ it.node \in Nat
  BY <1>2, <1>3, <1>4, ChooseIs DEF From
<1>6. (~it.stop => From <= it.node) /\ visits = counted(it)
  BY DEF IInv, RingVisits
<1>7. From' = From /\ ring' = ring
  BY <1>1 DEF From, ring
<1>8. \/ next = End /\ \A p \in DOMAIN ring : p <= it.node
      \/ /\ next \in DOMAIN ring
         /\ it.node < next
         /\ \A p \in DOMAIN ring : p <= next <=> p <= it.node \/ p = next
  BY <1>2, <1>4, NextNode
<1>. HIDE DEF next
<1>9. /\ it' \in [node : DOMAIN ring \cup {End}, stop : BOOLEAN]
      /\ ~it'.stop => From <= it'.node
      /\ it'.node = End => it'.stop
      /\ visits' = counted(it')
  <2>1. CASE next = End /\ ~it.stop
    <3>1. it' = [node |-> Begin(ring), stop |-> TRUE]
      BY <1>1, <2>1 DEF Increment, next
    <3>2. Begin(ring) \in DOMAIN ring /\ \A p \in DOMAIN ring : Begin(ring) <= p
      BY <1>2, <1>4, BeginIsFirst
    <3>3. Begin(ring) \in Hashes /\ Begin(ring) # End
      BY <1>2, <3>2
    <3>4. \A p \in DOMAIN ring : p <= it.node
      BY <1>2, <1>8, <2>1
    <3>5. \A p \in DOMAIN ring : count(it, p) = Bit(From <= p)
      BY <2>1, <3>4 DEF Bit
    <3>6. \A p \in DOMAIN ring :
              count(it', p) = Bit(From <= p) + (IF p = Begin(ring) THEN 1 ELSE 0)
      BY <1>2, <3>1, <3>2 DEF Bit
    <3>7. visits' = [visits EXCEPT ![Begin(ring)] =
                        IF visits[Begin(ring)] < 3 THEN visits[Begin(ring)] + 1 ELSE 3]
      BY <1>1, <3>1, <3>3 DEF Visit, Ended, AtEnd, Place
    <3>8. visits[Begin(ring)] < 3
      BY <1>6, <3>2, <3>3, <3>5 DEF Bit
    <3>9. visits' = counted(it')
      BY <1>6, <3>2, <3>3, <3>5, <3>6, <3>7, <3>8 DEF Bit
    <3>. QED BY <3>1, <3>2, <3>3, <3>9
  <2>2. CASE next = End /\ it.stop
    <3>1. it' = [it EXCEPT !.node = End]
      BY <1>1, <2>2 DEF Increment, next
    <3>2. it'.node = End /\ it'.stop
      BY <1>3, <2>2, <3>1
    <3>3. \A p \in DOMAIN ring : p <= it.node /\ p <= End
      BY <1>2, <1>8, <2>2, HashAssumption DEF Hashes, End
    <3>4. visits' = visits
      BY <1>1, <3>2 DEF Visit, Ended, AtEnd
    <3>5. \A p \in DOMAIN ring : count(it', p) = count(it, p)
      BY <2>2, <3>2, <3>3 DEF Bit
    <3>. QED BY <1>3, <1>6, <3>1, <3>2, <3>4, <3>5
  <2>3. CASE next # End
    <3>1. /\ next \in DOMAIN ring /\ it.node < next /\ next \in Nat /\ next \in Hashes
          /\ \A p \in DOMAIN ring : p <= next <=> p <= it.node \/ p = next
      BY <1>2, <1>8, <2>3
    <3>2. it' = [it EXCEPT !.node = next]
      BY <1>1, <2>3 DEF Increment, next
    <3>3. it'.node = next /\ it'.stop = it.stop
      BY <1>3, <3>2
    <3>4. ~it.stop => From <= next
      BY <1>5, <1>6, <3>1
    <3>5. \A p \in DOMAIN ring :
              count(it', p) = count(it, p) + (IF p = next THEN 1 ELSE 0)
      <4>1. SUFFICES ASSUME NEW p \in DOMAIN ring
                     PROVE  count(it', p) = count(it, p) + (IF p = next THEN 1 ELSE 0)
        OBVIOUS
      <4>2. ~(next <= it.node)
        BY <1>5, <3>1
      <4>3. p <= next <=> p <= it.node \/ p = next
        BY <3>1
      <4>4. CASE it.stop
        BY <3>3, <4>2, <4>3, <4>4 DEF Bit
      <4>5. CASE ~it.stop
        BY <3>3, <3>4, <4>2, <4>3, <4>5 DEF Bit
      <4>. QED BY <1>4, <4>4, <4>5
    <3>6. visits' = [visits EXCEPT ![next] =
                        IF visits[next] < 3 THEN visits[next] + 1 ELSE 3]
      BY <1>1, <2>3, <3>3 DEF Visit, Ended, AtEnd, Place
    <3>7. visits[next] < 3
      BY <1>6, <3>1 DEF Bit
    <3>8. visits' = counted(it')
      BY <1>6, <3>1, <3>5, <3>6, <3>7 DEF Bit
    <3>. QED BY <1>3, <2>3, <3>1, <3>2, <3>3, <3>4, <3>8
  <2>. QED BY <1>4, <2>1, <2>2, <2>3
<1>10. visits' \in [Hashes -> 0 .. 2]
  BY <1>9 DEF Bit
<1>. QED BY <1>1, <1>3, <1>7, <1>9, <1>10 DEF IInv, TypeOK, RingVisits, ModVisits

LEMMA ModStep ==
    ASSUME IInv, Step, pool = "mod"
    PROVE  IInv'
<1>1. /\ pool' = "mod" /\ nodes' = nodes /\ key' = key
      /\ it' = ModIncrement(it)
      /\ visits' = Visit(visits, it')
  BY DEF Step
<1>2. it \in [value : 0 .. Count - 1, stop : BOOLEAN]
  BY DEF IInv, TypeOK
<1>3. /\ it' \in [value : 0 .. Count - 1, stop : BOOLEAN]
      /\ it'.value = it.value /\ it'.stop
  BY <1>1, <1>2 DEF ModIncrement
<1>4. visits' = visits
  BY <1>1, <1>3 DEF Visit, Ended, ModEqual, ModEnd
<1>. QED BY <1>1, <1>3, <1>4 DEF IInv, TypeOK, RingVisits, ModVisits

LEMMA NextIInv == IInv /\ [Step]_vars => IInv'
<1>. SUFFICES ASSUME IInv, [Step]_vars PROVE IInv'
  OBVIOUS
<1>1. CASE Step
  BY <1>1, RingStep, ModStep DEF IInv, TypeOK
<1>2. CASE UNCHANGED vars
  BY <1>2 DEF vars, IInv, TypeOK, RingVisits, ModVisits, From, ring
<1>. QED BY <1>1, <1>2

LEMMA Always == Spec => []IInv
<1>1. Init => IInv
  BY InitIInv
<1>2. IInv /\ [Step]_vars => IInv'
  BY NextIInv
<1>. QED BY <1>1, <1>2, PTL DEF Spec

-----------------------------------------------------------------------------
(* Consequences of the invariant                                           *)

LEMMA Whole == IInv => WholeRing
<1>. SUFFICES ASSUME IInv, pool = "ring", Ended(it), NEW p \in DOMAIN ring
              PROVE  visits[p] = IF p < key /\ \E q \in DOMAIN ring : key <= q
                                 THEN 1 ELSE 2
  BY DEF WholeRing
<1>1. /\ DOMAIN ring \subseteq Hashes
      /\ \A q \in DOMAIN ring \cup {End} : q \in Nat
  BY RingType DEF IInv
<1>2. it.node = End /\ it.stop /\ p <= it.node
  BY <1>1, HashAssumption DEF Ended, AtEnd, IInv, RingVisits, Hashes, End
<1>3. visits[p] = Bit(From <= p) + 1
  BY <1>1, <1>2 DEF IInv, RingVisits, Bit
<1>4. key \in Hashes /\ key \in Nat
  BY HashAssumption DEF IInv, TypeOK, Hashes
<1>5. CASE \E q \in DOMAIN ring : key <= q
  <2>1. IsLowerBound(ring, key, From)
    BY <1>1, <1>4, <1>5, ChooseIs DEF From
  <2>2. From <= p <=> ~(p < key)
    BY <1>1, <1>4, <2>1 DEF IsLowerBound
  <2>. QED BY <1>3, <1>5, <2>2 DEF Bit
<1>6. CASE ~ \E q \in DOMAIN ring : key <= q
  <2>1. From <= p
    BY <1>1, <1>4, <1>6, ChooseIs DEF From
  <2>. QED BY <1>3, <1>6, <2>1 DEF Bit
<1>. QED BY <1>5, <1>6

(* The first node of another server that a walk comes to is the one where  *)
(* a walk of the ring without the owner's nodes begins.                    *)
LEMMA Failover == IInv => FailoverIsRemoval
<1>. DEFINE owner == Owner(ring, key)
            rest == Without(ring, owner)
            first == Choose(rest, key).node
<1>. SUFFICES ASSUME IInv, pool = "ring", ~AtEnd(it), Deref(ring, it) # owner,
                     \A p \in DOMAIN ring \ {it.node} :
                         visits[p] > 0 => ring[p] = owner
              PROVE  Deref(ring, it) = Owner(rest, key)
  BY DEF FailoverIsRemoval
<1>1. /\ DOMAIN ring \subseteq Hashes
      /\ \A q \in DOMAIN ring \cup {End} : q \in Nat
      /\ key \in Hashes /\ key \in Nat
  BY RingType, HashAssumption DEF IInv, TypeOK, Hashes
<1>2. it.node \in DOMAIN ring /\ it.stop \in BOOLEAN
  BY DEF IInv, TypeOK, AtEnd
<1>3. /\ DOMAIN rest = {p \in DOMAIN ring : ring[p] # owner}
      /\ \A p \in DOMAIN rest : rest[p] = ring[p]
  BY DEF Without
<1>4. it.node \in DOMAIN rest /\ DOMAIN rest \subseteq Hashes
  BY <1>1, <1>2, <1>3 DEF Deref
<1>5. \A p \in DOMAIN rest \ {it.node} :
          /\ ~(From <= p /\ (it.stop \/ p <= it.node))
          /\ ~(it.stop /\ p <= it.node)
  BY <1>1, <1>3 DEF IInv, RingVisits, Bit
<1>6. ~it.stop => From <= it.node
  BY DEF IInv, RingVisits
<1>7. From \in DOMAIN ring
  BY <1>1, <1>2, ChooseIs DEF From
<1>8. first \in DOMAIN rest
  BY <1>1, <1>4, ChooseIs
<1>9. first = it.node
  <2>. SUFFICES ASSUME first # it.node PROVE FALSE
    OBVIOUS
  <2>1. first \in Nat /\ it.node \in Nat /\ From \in Nat /\ first \in DOMAIN ring
    BY <1>1, <1>2, <1>3, <1>7, <1>8
  <2>2. /\ ~(From <= first /\ (it.stop \/ first <= it.node))
        /\ ~(it.stop /\ first <= it.node)
    BY <1>5, <1>8
  <2>3. CASE \E p \in DOMAIN rest : key <= p
    <3>1. key <= first /\ (key <= it.node => first <= it.node)
      BY <1>1, <1>4, <2>3, ChooseIs DEF IsLowerBound
    <3>2. key <= From /\ From <= first
      BY <1>1, <2>1, <3>1, ChooseIs DEF IsLowerBound, From
    <3>. QED BY <1>1, <1>2, <1>6, <2>1, <2>2, <3>1, <3>2
  <2>4. CASE ~ \E p \in DOMAIN rest : key <= p
    <3>1. first <= it.node /\ ~(key <= it.node)
      BY <1>1, <1>4, <2>4, ChooseIs
    <3>2. ~it.stop /\ ~(From <= first) /\ From <= it.node
      BY <1>2, <1>6, <2>1, <2>2, <3>1
    <3>3. \E p \in DOMAIN ring : key <= p
      BY <1>1, <2>1, <3>2, ChooseIs DEF From
    <3>4. key <= From
      BY <1>1, <3>3, ChooseIs DEF IsLowerBound, From
    <3>. QED BY <1>1, <2>1, <3>1, <3>2, <3>4
  <2>. QED BY <2>3, <2>4
<1>. QED BY <1>3, <1>4, <1>9 DEF Owner, Deref

LEMMA AddMoves == IInv => AddMovesOnlyToNew
<1>. DEFINE fewer == SubSeq(nodes, 1, Count - 1)
            before == Ring(fewer)
            old == Choose(before, key).node
<1>. SUFFICES ASSUME IInv, pool = "ring"
              PROVE  Owner(ring, key) \in {Owner(before, key), Count - 1}
  BY DEF AddMovesOnlyToNew
<1>1. /\ DOMAIN ring \subseteq Hashes
      /\ \A q \in DOMAIN ring \cup {End} : q \in Nat
      /\ key \in Hashes /\ key \in Nat
      /\ nodes \in [1 .. Count -> SUBSET Hashes]
  BY RingType, HashAssumption DEF IInv, TypeOK, Hashes
<1>2. Count - 1 \in Nat /\ Count = (Count - 1) + 1
  BY CountAssumption
<1>3. fewer \in [1 .. Count - 1 -> SUBSET Hashes] /\ \A i \in 1 .. Count - 1 : fewer[i] = nodes[i]
  <2>1. nodes \in Seq(SUBSET Hashes) /\ Len(nodes) = Count
    BY <1>1, <1>2
  <2>2. /\ fewer \in Seq(SUBSET Hashes) /\ Len(fewer) = Count - 1
        /\ \A i \in 1 .. Count - 1 : fewer[i] = nodes[i]
    BY <1>2, <2>1, SubSeqProperties
  <2>. HIDE DEF fewer
  <2>3. \A i \in 1 .. Count - 1 : nodes[i] \in SUBSET Hashes
    BY <1>1, <1>2
  <2>4. fewer \in [1 .. Count - 1 -> SUBSET Hashes]
    BY <1>2, <2>2, <2>3
  <2>. QED BY <2>2, <2>4
<1>. HIDE DEF fewer
<1>4. /\ DOMAIN before \subseteq DOMAIN ring
      /\ \A p \in DOMAIN ring :
            ring[p] = IF p \in DOMAIN before THEN before[p] ELSE Count - 1
  BY <1>1, <1>2, <1>3, OneMoreServer DEF ring
<1>5. CASE DOMAIN ring = {}
  <2>1. ring = [p \in {} |-> ring[p]] /\ before = [p \in {} |-> before[p]]
    BY <1>4, <1>5 DEF ring, Ring
  <2>2. ring = before
    BY <1>4, <1>5, <2>1
  <2>. QED BY <2>2
<1>6. CASE From \notin DOMAIN before /\ DOMAIN ring # {}
  <2>1. From \in DOMAIN ring
    BY <1>1, <1>6, ChooseIs DEF From
  <2>. QED BY <1>4, <1>6, <2>1 DEF Owner, Deref, From
<1>7. CASE From \in DOMAIN before
  <2>1. From \in DOMAIN ring /\ From \in Nat
    BY <1>1, <1>4, <1>7
  <2>2. DOMAIN before \subseteq Hashes /\ \A p \in DOMAIN before : p \in Nat
    BY <1>1, <1>4
  <2>3. old \in DOMAIN before /\ old \in Nat
    BY <1>1, <1>7, <2>2, ChooseIs
  <2>4. old = From
    <3>1. CASE \E q \in DOMAIN ring : key <= q
      <4>1. IsLowerBound(ring, key, From)
        BY <1>1, <3>1, ChooseIs DEF From
      <4>2. IsLowerBound(before, key, old)
        BY <1>1, <1>7, <2>2, <4>1, ChooseIs DEF IsLowerBound
      <4>. QED BY <1>4, <1>7, <2>1, <2>3, <4>1, <4>2 DEF IsLowerBound
    <3>2. CASE ~ \E q \in DOMAIN ring : key <= q
      <4>1. From <= old
        BY <1>1, <1>4, <2>1, <2>3, <3>2, ChooseIs DEF From
      <4>2. old <= From
        BY <1>1, <1>4, <1>7, <2>2, <3>2, ChooseIs
      <4>. QED BY <2>1, <2>3, <4>1, <4>2
    <3>. QED BY <3>1, <3>2
  <2>. QED BY <1>4, <1>7, <2>1, <2>4 DEF Owner, Deref, From
<1>. QED BY <1>5, <1>6, <1>7

-----------------------------------------------------------------------------
(* The theorems                                                            *)

(* The iterator is always at a node of the ring, at an address or at the   *)
(* end, and no node is visited a third time.                               *)
THEOREM TypeCorrect == Spec => []TypeOK
<1>1. IInv => TypeOK
  BY DEF IInv
<1>. QED BY <1>1, Always, PTL

(* A walk that has ended has been at every node of the ring: twice at      *)
(* those from the key on, once at those before it.                         *)
THEOREM WalksAreWhole == Spec => []WholeRing
<1>. QED BY Whole, Always, PTL

(* The mod pool offers the address of the key, and it alone.               *)
THEOREM ModOffersOne == Spec => []NoKeyTravels
<1>1. IInv => NoKeyTravels
  BY DEF IInv, ModVisits, NoKeyTravels
<1>. QED BY <1>1, Always, PTL

(* A server added to the ring takes keys over, and no other key moves.     *)
THEOREM OnlyNewTakesOver == Spec => []AddMovesOnlyToNew
<1>. QED BY AddMoves, Always, PTL

(* The keys of a dead server travel where they would be if it had been     *)
(* taken out of the ring.                                                  *)
THEOREM FailoverRemoves == Spec => []FailoverIsRemoval
<1>. QED BY Failover, Always, PTL

=============================================================================
