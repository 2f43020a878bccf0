---------------------------- MODULE MCClientRun ----------------------------
(* Two servers and two keys.  From the last node of the ring the walk wraps*)
(* and meets the server it comes from again; it ends after three visits.   *)
(* From the first node it would make five.                                 *)
EXTENDS ClientRunAudit, TLC

CONSTANTS d, k

TwoServers == <<{1, 3}, {2}>>
OneDatum == {d}
OneToken == {k}
GetSet == {[kind |-> "get"], [kind |-> "set", data |-> d]}

Symmetry == Permutations(Clients)

=============================================================================
