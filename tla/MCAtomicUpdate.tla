--------------------------- MODULE MCAtomicUpdate ---------------------------
(* Updates that count modulo two, against one server.                      *)
EXTENDS AtomicUpdate, TLC

Numbers == 0 .. 1
CountUp(data) == IF data = NoItem THEN 0 ELSE (data + 1) % 2

OneServer == <<{1}>>

Symmetry == Permutations(Clients)

=============================================================================
