------------------------------ MODULE MCCodec -------------------------------
(* Codec over all the types of the repository.                             *)
EXTENDS Codec, DsdlReg

AllTypes == DsdlUavcanTypes \o DsdlSiTypes \o DsdlRegTypes

(* the largest unsigned number (and a NaN), 65520.0, which rounds to more  *)
(* than the largest half, and the half 2^-24, the smallest; the objects    *)
(* that X_initialize_ makes are zero                                       *)
SomePatterns == {<<255, 255, 255, 255>>, <<0, 240, 127, 71>>, <<0, 0, 128, 51>>}

=============================================================================
