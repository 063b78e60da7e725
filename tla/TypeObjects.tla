---------------------------- MODULE TypeObjects -----------------------------
(***************************************************************************)
(* The objects of a DSDL type X: what they are in memory, how a publisher  *)
(* may fill one in, and when one is what another was, given all that for   *)
(* the types that X is made of.                                            *)
(***************************************************************************)
EXTENDS TypeShape

CONSTANTS NestedObject(_, _),       \* an object of a type Y in X
          NestedSurvives(_, _, _),  \* one that is what another was
          NestedFilled(_, _, _, _)  \* one made of a pattern

-----------------------------------------------------------------------------
(* What is in memory.  An array of up to so many elements may claim more.  *)
ElementObject(e, v) ==
  IF Scalar(e) THEN v \in InC(e) ELSE NestedObject(Composite(e), v)

MemberObject(e, v) ==
  CASE e.kind = "void" -> v = <<>>
    [] Array(e)        -> /\ Sequence(v)
                          /\ e.kind = "fixed" => Len(v) = e.capacity
                          /\ \A k \in DOMAIN v : ElementObject(e.of, v[k])
    [] OTHER           -> ElementObject(e, v)

Object(t, v) ==
  LET present == Present(t, v.tag)
      values == Values(t, v)
  IN /\ t.kind = "union" => v.tag \in DOMAIN t.members
     /\ DOMAIN values = DOMAIN present
     /\ \A k \in DOMAIN present : MemberObject(present[k], values[k])

(* w is v as far as the type can express its numbers.                      *)
ElementSurvives(e, v, w) ==
  IF Scalar(e) THEN SurvivesScalar(e, v, w) ELSE NestedSurvives(Composite(e), v, w)

MemberSurvives(e, v, w) ==
  CASE e.kind = "void" -> w = v
    [] Array(e)        -> /\ DOMAIN v = DOMAIN w
                          /\ \A k \in DOMAIN v : ElementSurvives(e.of, v[k], w[k])
    [] OTHER           -> ElementSurvives(e, v, w)

Survives(t, v, w) ==
  LET present == Present(t, v.tag)
  IN /\ t.kind = "union" => v.tag = w.tag
     /\ \A k \in DOMAIN present : MemberSurvives(present[k], Values(t, v)[k], Values(t, w)[k])

-----------------------------------------------------------------------------
(* Every number is filled with the bytes of pattern p, turned by a byte    *)
(* from one element to the next.                                           *)
Turned(p, k) == [i \in 1..4 |-> p[((i + k - 1) % 4) + 1]]

Bits(p, w) ==
  [i \in 1..w |-> (p[(((i - 1) \div 8) % 4) + 1] \div 2^((i - 1) % 8)) % 2]

Fillings == {"empty", "one", "full", "over"}

Count(filling, capacity) ==
  CASE filling = "empty" -> 0
    [] filling = "one"   -> 1
    [] filling = "full"  -> capacity
    [] filling = "over"  -> capacity + 1

ElementFilled(e, p, filling, o) ==
  IF Scalar(e) THEN Bits(p, MemoryWidth(e)) ELSE NestedFilled(Composite(e), p, filling, o)

MemberFilled(e, p, filling, o) ==
  CASE e.kind = "void" -> <<>>
    [] Array(e)        ->
         [k \in 1..(IF e.kind = "fixed" THEN e.capacity ELSE Count(filling, e.capacity)) |->
            ElementFilled(e.of, Turned(p, k - 1), filling, o)]
    [] OTHER           -> ElementFilled(e, p, filling, o)

(* in a union the option is the one that o says, cyclically *)
Filled(t, p, filling, o) ==
  IF t.kind = "struct"
  THEN [k \in DOMAIN t.members |-> MemberFilled(t.members[k], Turned(p, k - 1), filling, o)]
  ELSE LET tag == (o % Len(t.members)) + 1
       IN [tag |-> tag, value |-> MemberFilled(t.members[tag], p, filling, o)]

=============================================================================
