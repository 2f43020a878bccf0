------------------------------ MODULE PoolTests ------------------------------
(***************************************************************************)
(* The unit tests of the pools (src/pool/test-pool.cc and                  *)
(* src/pool/test-consistent-hashing.cc) on the model of them.  A test is   *)
(* an assumption, which TLC evaluates.                                     *)
(***************************************************************************)
EXTENDS ModPool, SequencesExt

(* mod_pool_iteration, whatever the hash of "b" is.                        *)
ModPoolIteration ==
    \A b \in 0 .. 9 :
        /\ ~ModEqual(ModChoose(b, 3), ModEnd)
        /\ ModEqual(ModIncrement(ModChoose(b, 3)), ModEnd)

ASSUME ModPoolIteration

-----------------------------------------------------------------------------
(* Hash functions whose chains do not meet, in place of murmur3, for nine  *)
(* servers at most.                                                        *)
Apart(s) == [seed \in 0 .. 50 |-> IF seed = 0 THEN s ELSE seed + 10]

Five == INSTANCE HashRing WITH MaxHash <- 50, VirtualNodes <- 5

(* The ring of servers with five virtual nodes each; the tests have 20 and *)
(* 200.                                                                    *)
RingOf(servers) ==
    Five!Ring(FoldLeft(LAMBDA nodes, s : Append(nodes, Five!NodesOf(Apart(s))),
                       <<>>, [s \in 1 .. servers |-> s]))

(* What a loop over the whole pool is given: indexes in turn.              *)
Walk(ring) ==
    FoldLeft(LAMBDA seen, i :
                 IF Five!AtEnd(seen.it) THEN seen
                 ELSE [it |-> Five!Increment(ring, seen.it),
                       indexes |-> Append(seen.indexes, Five!Deref(ring, seen.it))],
             [it |-> Five!Iter(ring, Five!Begin(ring)), indexes |-> <<>>],
             [i \in 1 .. 40 |-> i]).indexes

Occurrences(indexes, idx) == Cardinality({i \in DOMAIN indexes : indexes[i] = idx})

(* consistent_hashing_pool_iteration: the walk goes through all nodes      *)
(* twice.                                                                  *)
ConsistentHashingPoolIteration ==
    LET indexes == Walk(RingOf(3))
    IN  /\ Len(indexes) = 30
        /\ \A idx \in 0 .. 2 : Occurrences(indexes, idx) = 10

ASSUME ConsistentHashingPoolIteration

-----------------------------------------------------------------------------
(* The fake hash function: it adds to the seed what depends on the server. *)
Steps == <<1000, 10000, 100000>>
FakeHash == [a |-> 333, b |-> 3333, c |-> 33333, server1 |-> 1000]

Fake == INSTANCE HashRing WITH MaxHash <- 400000, VirtualNodes <- 3

FakeRing ==
    Fake!Ring(FoldLeft(LAMBDA nodes, step :
                           Append(nodes, Fake!NodesOf([seed \in 0 .. 400000 |-> seed + step])),
                       <<>>, Steps))

(* The n-th server that is offered for a key.                              *)
Offered(key, n) ==
    Fake!Deref(FakeRing,
               FoldLeft(LAMBDA it, i : Fake!Increment(FakeRing, it),
                        Fake!Choose(FakeRing, FakeHash[key]), [i \in 1 .. n - 1 |-> i]))

(* consistent_hashing_pool_distribution                                    *)
ConsistentHashingPoolDistribution ==
    /\ \A n \in 1 .. 3 : /\ Offered("a", n) = 0
                         /\ Offered("b", n) = 1
                         /\ Offered("c", n) = 2
    /\ Offered("c", 4) = 0
    /\ Offered("server1", 1) = 0

ASSUME ConsistentHashingPoolDistribution

-----------------------------------------------------------------------------
(* The program that prints how many keys migrate when a server is removed, *)
(* and when a ninth is added: here, that no key does but those of the      *)
(* removed server, and those that go to the ninth.                         *)
Owners(ring) == [key \in 0 .. 50 |-> Five!Owner(ring, key)]

Removed(ring, idx) == [p \in {q \in DOMAIN ring : ring[q] # idx} |-> ring[p]]

MigrationOfKeys ==
    LET before == Owners(RingOf(8))
        less   == Owners(Removed(RingOf(8), 2))
        more   == Owners(RingOf(9))
    IN  \A key \in 0 .. 50 :
            /\ less[key] = before[key] \/ before[key] = 2
            /\ more[key] = before[key] \/ more[key] = 8

ASSUME MigrationOfKeys

=============================================================================
