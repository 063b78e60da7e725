----------------------------- MODULE TypeSchema -----------------------------
(***************************************************************************)
(* Which descriptions of a DSDL type X there are, how large its objects    *)
(* may be on the wire, and whether it has halves, given the same of the    *)
(* types that X is made of.                                                *)
(***************************************************************************)
EXTENDS TypeShape

CONSTANTS NestedSchema(_),   \* a type Y in X
          NestedLargest(_),  \* bits of the largest object of Y
          NestedExact(_)     \* Y has no halves

-----------------------------------------------------------------------------
(* Bits of the largest object of a member, from where it begins, *)
ElementLargest(e) ==
  IF Scalar(e) THEN e.width
  ELSE IF e.kind = "delimited" THEN 32 + 8 * e.of.extent   \* of a later version
  ELSE NestedLargest(e)

ElementBegin(e, off) == IF Scalar(e) THEN off ELSE Align(off)

(* and where the largest ends of one that begins at bit off.               *)
MemberEnd(e, off) ==
  CASE e.kind = "void" -> off + e.width
    [] Array(e)        -> ElementBegin(e.of, off + PrefixWidth(e))
                          + e.capacity * ElementLargest(e.of)
    [] OTHER           -> ElementBegin(e, off) + ElementLargest(e)

(* Bits of the largest object.                                             *)
Largest(t) ==
  IF t.kind = "struct"
  THEN LET end[k \in 0..Len(t.members)] ==
             IF k = 0 THEN 0 ELSE MemberEnd(t.members[k], end[k - 1])
       IN Align(end[Len(t.members)])
  ELSE LET sizes == {Align(MemberEnd(t.members[k], 8)) : k \in DOMAIN t.members}
       IN CHOOSE n \in sizes : \A m \in sizes : m <= n

-----------------------------------------------------------------------------
(* Which descriptions there are.  A delimited type has room to grow; two   *)
(* bytes can tell the elements of an array and the bytes of an extent.     *)
MaxSize == 65535

Element(e) ==
  \/ e \in Numbers \cup Halves
  \/ /\ e.kind \in {"struct", "union", "delimited"}
     /\ NestedSchema(Composite(e))
     /\ e.kind = "delimited" => NestedLargest(e.of) <= 8 * e.of.extent

Member(e) ==
  \/ Element(e)
  \/ Array(e) /\ e.capacity \in 1..MaxSize /\ Element(e.of)
  \/ e.kind = "void" /\ e.width \in 1..64

(* A struct, or a union of options that a byte can tell.  The bytes of an  *)
(* object can be counted in the 31 bits of a delimiter header.             *)
Schema(t) ==
  /\ t.kind \in {"struct", "union"}
  /\ t.kind = "union" => Len(t.members) \in 1..256
  /\ Len(t.members) \in Nat /\ DOMAIN t.members = 1..Len(t.members)
  /\ \A k \in DOMAIN t.members : Member(t.members[k])
  /\ t.buffer \in Nat /\ t.extent \in 0..MaxSize

(* There is no half in it.                                                 *)
ExactElement(e) == IF Scalar(e) THEN e \in Numbers ELSE NestedExact(Composite(e))

ExactMember(e) ==
  CASE e.kind = "void" -> TRUE
    [] Array(e)        -> ExactElement(e.of)
    [] OTHER           -> ExactElement(e)

Exact(t) == \A k \in DOMAIN t.members : ExactMember(t.members[k])

=============================================================================
