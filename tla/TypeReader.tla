----------------------------- MODULE TypeReader -----------------------------
(***************************************************************************)
(* The function X_deserialize_ that nunavut generates for a DSDL type X,   *)
(* as an operator over a description of X (Dsdl), given what the functions *)
(* of the types that X is made of do.                                      *)
(***************************************************************************)
EXTENDS TypeShape

CONSTANT NestedDeserialize(_, _)  \* Y_deserialize_ of a type Y in X, of a buffer

-----------------------------------------------------------------------------
(* at is the return code, offset_bits, and the members read so far.        *)
Got(at, w, v) == [at EXCEPT !.off = @ + w, !.obj = Append(@, v)]
Bad(at, error) == [at EXCEPT !.err = error]
Start == [err |-> "SUCCESS", off |-> 0, obj |-> <<>>]

(* fault: an empty object is taken for one that is not all there *)
BeyondOrAtEnd(size, rest) == size >= rest

(* the delimiter header says more than there is *)
Beyond(size, rest) == size > rest

(* fault: the count that was read is compared as an index *)
OverfullByOne(n, capacity) == n > capacity + 1

(* the payload claims more elements than the array holds *)
Overfull(n, capacity) == n > capacity

(* what a composite from bit off on was read as *)
GotNested(at, off, size, nested) ==
  IF nested.err # "SUCCESS" THEN Bad(at, nested.err)
  ELSE Got([at EXCEPT !.off = off], size * 8, nested.obj)

(* a composite of which the rest of the buffer may hold only a part *)
ReadSealed(t, buf, off, at) ==
  LET nested == NestedDeserialize(t, SubSeq(buf, off + 1, Len(buf)))
  IN GotNested(at, off, nested.size, nested)

(* One after its delimiter header: the object need not use up what the     *)
(* header says.                                                            *)
ReadDelimited(t, buf, off, size, at) ==
  IF Beyond(size, (Len(buf) - Lesser(off, Len(buf))) \div 8)
  THEN Bad(at, "BAD_DELIMITER_HEADER")
  ELSE GotNested(at, off, size, NestedDeserialize(t, SubSeq(buf, off + 1, off + size * 8)))

SizeInHeader(buf, off) ==
  LET header == Taken(buf, off, 32)
  IN IF header[32] = 1 THEN Len(buf) ELSE NumberOf(header)

ReadNested(e, buf, at) ==
  IF e.kind = "delimited"
  THEN ReadDelimited(e.of, buf, Align(at.off) + 32, SizeInHeader(buf, Align(at.off)), at)
  ELSE ReadSealed(e, buf, Align(at.off), at)

(* n elements, as one member *)
ReadArray(e, n, buf, at) ==
  IF Scalar(e)
  THEN Got(at, n * e.width, ReadScalars(e, n, buf, at.off))
  ELSE [InTurn(n, [at EXCEPT !.obj = <<>>],
               LAMBDA k, so_far : ReadNested(e, buf, so_far))
          EXCEPT !.obj = Append(at.obj, @)]

(* an array and the length prefix it may have *)
ReadCounted(e, n, buf, at) ==
  IF Overfull(n, e.capacity) THEN Bad(at, "BAD_ARRAY_LENGTH")
  ELSE ReadArray(e.of, n, buf, [at EXCEPT !.off = @ + PrefixWidth(e)])

CountRead(e, buf, off) ==
  IF e.kind = "upto" THEN NumberOf(Taken(buf, off, PrefixWidth(e))) ELSE e.capacity

Read(e, buf, at) ==
  CASE Scalar(e)       -> Got(at, e.width, ReadScalar(e, buf, at.off))
    [] e.kind = "void" -> Got(at, e.width, <<>>)
    [] Array(e)        -> ReadCounted(e, CountRead(e, buf, at.off), buf, at)
    [] OTHER           -> ReadNested(e, buf, at)

(* what X_deserialize_ returns, the bytes it used, and the object *)
Result(t, tag, buf, at) ==
  [err  |-> at.err,
   size |-> Lesser(Align(at.off), Len(buf)) \div 8,
   obj  |-> IF at.err # "SUCCESS" THEN <<>>
            ELSE IF t.kind = "struct" THEN at.obj
            ELSE [tag |-> tag, value |-> at.obj[1]]]

ReadMembers(t, tag, buf) ==
  IF t.kind = "union" /\ tag \notin DOMAIN t.members THEN Bad(Start, "BAD_UNION_TAG")
  ELSE InTurn(Len(Present(t, tag)), [Start EXCEPT !.off = IF t.kind = "union" THEN 8 ELSE 0],
              LAMBDA k, so_far : Read(Present(t, tag)[k], buf, so_far))

TagRead(buf) == NumberOf(Taken(buf, 0, 8)) + 1

(* X_deserialize_ *)
Deserialized(t, buf) ==
  LET tag == IF t.kind = "union" THEN TagRead(buf) ELSE 0
  IN Result(t, tag, buf, ReadMembers(t, tag, buf))

=============================================================================
