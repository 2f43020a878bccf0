------------------------------ MODULE RingWalk ------------------------------
(***************************************************************************)
(* One walk over a pool, as client_t::run makes it: from choose(key) until *)
(* the iterator compares equal to end().  The pool is a consistent hashing *)
(* ring or a mod pool.                                                     *)
(***************************************************************************)
EXTENDS HashRing, ModPool, FiniteSets

CONSTANTS
    Count     \* number of addresses: a c'tor throws if there are none

ASSUME CountAssumption == Count \in Nat \ {0} /\ Count <= MaxHash

VARIABLES
    pool,     \* "ring" or "mod"
    nodes,    \* the virtual nodes of each address
    key,      \* the hash of the key
    it,       \* the iterator
    visits    \* how often the walk has been at each node, or address

vars == <<pool, nodes, key, it, visits>>

ring == Ring(nodes)

(* What some hash function makes of an address: after the same seed there  *)
(* is the same hash, so a chain may repeat itself.                         *)
Chains ==
    {chain \in [0 .. VirtualNodes -> Hashes] :
        /\ chain[0] = 0
        /\ \A i, j \in 1 .. VirtualNodes :
              chain[i - 1] = chain[j - 1] => chain[i] = chain[j]}

NodeSets == {{chain[i] : i \in 1 .. VirtualNodes} : chain \in Chains}

Ended(i) == IF pool = "ring" THEN AtEnd(i) ELSE ModEqual(i, ModEnd)
Place(i) == IF pool = "ring" THEN i.node ELSE i.value

(* Three visits are as many as it takes to see that there were too many.   *)
Visit(v, i) ==
    IF Ended(i) THEN v ELSE [v EXCEPT ![Place(i)] = IF @ < 3 THEN @ + 1 ELSE 3]

(* The mod pool has no use for hashes of addresses.                        *)
Init ==
    /\ pool \in {"ring", "mod"}
    /\ nodes \in IF pool = "ring" THEN [1 .. Count -> NodeSets]
                ELSE {[i \in 1 .. Count |-> {}]}
    /\ key \in Hashes
    /\ it = IF pool = "ring" THEN Choose(ring, key) ELSE ModChoose(key, Count)
    /\ visits = Visit([p \in Hashes |-> 0], it)

Step ==
    /\ ~Ended(it)
    /\ it' = IF pool = "ring" THEN Increment(ring, it) ELSE ModIncrement(it)
    /\ visits' = Visit(visits, it')
    /\ UNCHANGED <<pool, nodes, key>>

Spec == Init /\ [][Step]_vars /\ WF_vars(Step)

-----------------------------------------------------------------------------
(* Types of the variables; the iterator is at a node of the ring, at an    *)
(* address or at the end.                                                  *)
TypeOK ==
    /\ pool \in {"ring", "mod"}
    /\ nodes \in [1 .. Count -> SUBSET Hashes]
    /\ key \in Hashes
    /\ it \in IF pool = "ring" THEN [node : DOMAIN ring \cup {End}, stop : BOOLEAN]
             ELSE [value : 0 .. Count - 1, stop : BOOLEAN]
    /\ visits \in [Hashes -> 0 .. 2]

(* A finished walk has been twice at the nodes from the key on, and once   *)
(* at those before it; a key past the last node walks the ring twice.  So  *)
(* it has offered every server that has a node, from every key.            *)
WholeRing ==
    pool = "ring" /\ Ended(it) =>
        \A p \in DOMAIN ring :
            visits[p] = IF p < key /\ \E q \in DOMAIN ring : key <= q
                        THEN 1 ELSE 2

(* A walk comes to its end.                                                *)
WalkEnds == <>Ended(it)

(* "Pool that using mod without key traveling": a walk of it has been at   *)
(* one address, once, and walks of keys with equal hashes at the same one. *)
NoKeyTravels ==
    pool = "mod" =>
        visits = [p \in Hashes |-> IF p = key % Count THEN 1 ELSE 0]

(* Appending a server to the addresses takes keys over to it and moves no  *)
(* key between the servers that were there.                                *)
AddMovesOnlyToNew ==
    LET before == Ring(SubSeq(nodes, 1, Count - 1))
    IN  pool = "ring" =>
            Owner(ring, key) \in {Owner(before, key), Count - 1}

(* The ring without the nodes of one server.                               *)
Without(r, s) == [p \in {q \in DOMAIN r : r[q] # s} |-> r[p]]

(* The first server a walk offers after the owner of the key is the one    *)
(* that owns the key in the ring without that owner: the keys of a dead    *)
(* server travel as if it had been taken out of the ring.                  *)
FailoverIsRemoval ==
    LET owner == Owner(ring, key)
        passed == \A p \in DOMAIN ring \ {it.node} :
                      visits[p] > 0 => ring[p] = owner
    IN  pool = "ring" /\ ~AtEnd(it) /\ Deref(ring, it) # owner /\ passed
          => Deref(ring, it) = Owner(Without(ring, owner), key)

=============================================================================
