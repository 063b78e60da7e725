----------------------------- MODULE TypeWriter -----------------------------
(***************************************************************************)
(* The function X_serialize_ that nunavut generates for a DSDL type X      *)
(* (src/Lib/cyphal_public_regulated_data_types_compiled), as an operator   *)
(* over a description of X (Dsdl), given what the functions of the types   *)
(* that X is made of do.                                                   *)
(***************************************************************************)
EXTENDS TypeShape

CONSTANT NestedSerialize(_, _)  \* Y_serialize_ of a type Y in X, of a value

-----------------------------------------------------------------------------
(* out is the return code and the buffer written so far.                   *)
Put(out, bits) == [out EXCEPT !.bits = @ \o bits]
Fail(out, error) == [out EXCEPT !.err = error]
PutAligned(out) == Put(out, Zeros(Align(Len(out.bits)) - Len(out.bits)))
Blank == [err |-> "SUCCESS", bits |-> <<>>]

(* fault: the count is compared as an index *)
TooManyByOne(n, capacity) == n > capacity + 1

(* the object claims more elements than its array has *)
TooMany(n, capacity) == n > capacity

(* a composite, from the next byte on; a delimited one after its header *)
WriteNested(e, v, out) ==
  LET nested == NestedSerialize(Composite(e), v)
      header == IF e.kind = "delimited" THEN BitsOf(Len(nested.bits) \div 8, 31) \o <<0>>
                ELSE <<>>
  IN IF nested.err # "SUCCESS" THEN Fail(out, nested.err)
     ELSE Put(PutAligned(out), header \o nested.bits)

(* numbers without a gap, composites one after the other *)
WriteArray(e, v, out) ==
  IF Scalar(e) THEN Put(out, ArrayOnWire(e, v))
  ELSE InTurn(Len(v), out, LAMBDA k, so_far : WriteNested(e, v[k], so_far))

Write(e, v, out) ==
  CASE Scalar(e)       -> Put(out, OnWire(e, v))
    [] e.kind = "void" -> Put(out, Zeros(e.width))
    [] Array(e)        ->
         IF TooMany(Len(v), e.capacity) THEN Fail(out, "BAD_ARRAY_LENGTH")
         ELSE WriteArray(e.of, v, Put(out, BitsOf(Len(v), PrefixWidth(e))))
    [] OTHER           -> WriteNested(e, v, out)

(* X_serialize_ once it has room: a composite from the start of its buffer *)
WriteMembers(t, tag, values) ==
  InTurn(Len(Present(t, tag)),
         IF t.kind = "union" THEN Put(Blank, BitsOf(tag - 1, 8)) ELSE Blank,
         LAMBDA k, so_far : Write(Present(t, tag)[k], values[k], so_far))

Serialized(t, v) ==
  IF t.kind = "union" /\ v.tag \notin DOMAIN t.members THEN Fail(Blank, "BAD_UNION_TAG")
  ELSE PutAligned(WriteMembers(t, v.tag, Values(t, v)))

=============================================================================
