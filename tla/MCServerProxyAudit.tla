------------------------- MODULE MCServerProxyAudit -------------------------
(* An instance of ServerProxyAudit: thread::client has one process whose   *)
(* threads share a pool.                                                   *)
EXTENDS ServerProxyAudit, TLC

OneProc == [t \in Threads |-> CHOOSE p \in Procs : TRUE]

Symmetry == Permutations(Threads) \cup Permutations(Conns)

=============================================================================
