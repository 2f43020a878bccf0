------------------------------- MODULE ModPool -------------------------------
(***************************************************************************)
(* The mod pool (pool/mod.h): the hash of a key modulo the number of       *)
(* addresses is the index of its server, and the iterator offers no other. *)
(***************************************************************************)
EXTENDS Integers

(* mod_pool_const_iterator: one that is made of a value, and end().        *)
ModIter(value) == [value |-> value, stop |-> FALSE]
ModEnd == [value |-> 0, stop |-> TRUE]

ModBegin == ModIter(0)

ModChoose(hash, max) == ModIter(hash % max)

(* equal(): one that has stopped still has its value.                      *)
ModEqual(it, other) == IF other.stop THEN it.stop ELSE it.value = other.value

(* Fault: it goes on to the next address.                                  *)
ModIncrementOn(it) == [value |-> it.value + 1, stop |-> it.value > 0]

ModIncrement(it) == [it EXCEPT !.stop = TRUE]

=============================================================================
