---------------------------- MODULE MCByteArray -----------------------------
(* ByteArray with arrays of the tests, counting up from 0, and stacks that *)
(* start with the address of an array.                                     *)
EXTENDS ByteArray

SomeArrays == {[k \in 1..n |-> k - 1] : n \in {1, 57, 128}}

SomeAddresses ==
  {<<16, 218, 255, 255, 255, 127, 0, 0>> \o [k \in 1..120 |-> junk] : junk \in {0, 255}}

=============================================================================
