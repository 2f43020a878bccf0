------------------------------ MODULE HashRing ------------------------------
(***************************************************************************)
(* The consistent hashing pool (pool/consistent-hashing.h): a ring of      *)
(* virtual nodes that maps the hash of a key to the index of a server, and *)
(* the iterator client_t::run walks over it.                               *)
(*                                                                         *)
(* A ring is the function std::map<uint32_t, uint32_t> is: its domain are  *)
(* the hashes of the virtual nodes, its values indexes into the addresses. *)
(* MaxHash + 1 stands for ring.end().                                      *)
(***************************************************************************)
EXTENDS Integers, Sequences

CONSTANTS
    MaxHash,       \* the largest hash, 2^32 - 1 in the code
    VirtualNodes   \* consistent_hashing_pool_config_t::virtual_nodes

ASSUME HashAssumption == MaxHash \in Nat /\ VirtualNodes \in Nat

Hashes == 0 .. MaxHash
End == MaxHash + 1

-----------------------------------------------------------------------------
(* The hashes of an address: each one seeds the next.  hashf is the hash   *)
(* function applied to that address, as a function of the seed.            *)
NodesOf(hashf) ==
    LET chain[i \in 0 .. VirtualNodes] ==
          IF i = 0 THEN 0 ELSE hashf[chain[i - 1]]
    IN  {chain[i] : i \in 1 .. VirtualNodes}

(* Fault: the addresses are numbered from the last to the first.           *)
RingBackwards(nodes) ==
    [p \in UNION {nodes[i] : i \in DOMAIN nodes} |->
        Len(nodes) - (CHOOSE i \in DOMAIN nodes :
                          p \in nodes[i] /\ \A j \in 1 .. i - 1 : p \notin nodes[j])]

(* The ring of a sequence of node sets, one for each address in order:     *)
(* map::insert leaves a node alone that is there already.                  *)
Ring(nodes) ==
    [p \in UNION {nodes[i] : i \in DOMAIN nodes} |->
        (CHOOSE i \in DOMAIN nodes :
             p \in nodes[i] /\ \A j \in 1 .. i - 1 : p \notin nodes[j]) - 1]

-----------------------------------------------------------------------------
IsLowerBound(ring, h, p) ==
    /\ p \in DOMAIN ring
    /\ h <= p
    /\ \A q \in DOMAIN ring : h <= q => p <= q

LowerBound(ring, h) ==
    IF \E p \in DOMAIN ring : h <= p
    THEN CHOOSE p \in DOMAIN ring : IsLowerBound(ring, h, p)
    ELSE End

Begin(ring) == LowerBound(ring, 0)

(* The iterator starts at the first node when it is given the end.         *)
Iter(ring, node) ==
    [node |-> IF node = End THEN Begin(ring) ELSE node, stop |-> FALSE]

Choose(ring, h) == Iter(ring, LowerBound(ring, h))

AtEnd(it) == it.node = End

(* Fault: the second round is left out.                                    *)
IncrementOnce(ring, it) == [it EXCEPT !.node = LowerBound(ring, it.node + 1)]

(* Fault: the first node is stepped over when the walk wraps.              *)
IncrementPastFirst(ring, it) ==
    LET next == LowerBound(ring, it.node + 1)
    IN  IF next = End /\ ~it.stop
        THEN [node |-> LowerBound(ring, Begin(ring) + 1), stop |-> TRUE]
        ELSE [it EXCEPT !.node = next]

(* Fault: that the walk has wrapped is not remembered.                     *)
IncrementForever(ring, it) ==
    LET next == LowerBound(ring, it.node + 1)
    IN  [it EXCEPT !.node = IF next = End THEN Begin(ring) ELSE next]

(* The walk wraps once: from the start node to the end, then once through  *)
(* the whole ring.                                                         *)
Increment(ring, it) ==
    LET next == LowerBound(ring, it.node + 1)
    IN  IF next = End /\ ~it.stop
        THEN [node |-> Begin(ring), stop |-> TRUE]
        ELSE [it EXCEPT !.node = next]

Deref(ring, it) == ring[it.node]

(* The server a key is stored at while all servers are alive.              *)
Owner(ring, h) == Deref(ring, Choose(ring, h))

=============================================================================
