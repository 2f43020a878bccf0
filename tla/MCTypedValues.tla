---------------------------- MODULE MCTypedValues ----------------------------
(* Bounds for TLC, and the unit tests of the protocols.                    *)
EXTENDS TypedValues, ProtocolTests

MCStrings == {<<>>, <<"a">>}
MCLongs == {-1, 5}
MCUserFlags == {{"LONG"}, {"compress"}, {}}
=============================================================================
