-------------------------- MODULE MCConnectionPool --------------------------
(* Connection pools of a few connections; and the unit tests of the pools  *)
(* of addresses, whose assumptions are evaluated along with this instance. *)
EXTENDS ConnectionPool, PoolTests

=============================================================================
