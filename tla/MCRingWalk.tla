----------------------------- MODULE MCRingWalk -----------------------------
(* Every small ring and mod pool.                                          *)
EXTENDS RingWalk

(* The sets of virtual nodes a walk starts from are those that the hash    *)
(* functions make.                                                         *)
ASSUME ChainsAreOfHashes ==
    NodeSets = {NodesOf(hashf) : hashf \in [Hashes -> Hashes]}

=============================================================================
