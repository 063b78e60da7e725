----------------------------- MODULE TypeShape ------------------------------
(***************************************************************************)
(* What the descriptions of types (Dsdl) and their objects are made of.    *)
(* An array in memory is the sequence of its elements, a struct the        *)
(* sequence of its members, a union a tag and a value.                     *)
(***************************************************************************)
EXTENDS Scalars

(* A type in a type is sealed, or delimited by a header.                   *)
Composite(e) == IF e.kind = "delimited" THEN e.of ELSE e

Array(e) == e.kind \in {"fixed", "upto"}

(* only an array of variable length has a length prefix *)
PrefixWidth(e) == IF e.kind = "upto" THEN LengthWidth(e.capacity) ELSE 0

(* the members that are there: one of a union *)
Present(t, tag) == IF t.kind = "struct" THEN t.members ELSE <<t.members[tag]>>
Values(t, v) == IF t.kind = "struct" THEN v ELSE <<v.value>>

(* what has a length, and so many elements *)
Sequence(s) == Len(s) \in Nat /\ s = [i \in 1..Len(s) |-> s[i]]

(* The statements for n members or elements one after the other, until one *)
(* of them returns an error.                                               *)
InTurn(n, begin, Step(_, _)) ==
  LET after[k \in 0..n] ==
        IF k = 0 THEN begin
        ELSE LET so_far == after[k - 1]
             IN IF so_far.err = "SUCCESS" THEN Step(k, so_far) ELSE so_far
  IN after[n]

=============================================================================
