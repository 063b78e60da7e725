----------------------------- MODULE TypeProofs -----------------------------
(***************************************************************************)
(* The functions of a DSDL type X (TypeWriter, TypeReader, TypeSchema,     *)
(* TypeObjects), and what is proved of them given the same of the types    *)
(* that X is made of: whatever X is, whatever its object and whatever the  *)
(* payload, what X_serialize_ writes is whole and no larger than X says    *)
(* (Writes), what X_deserialize_ makes of any payload is an object of X or *)
(* an error (Reads), what a publisher fills in is an object (Fills), and   *)
(* without halves in X what was written is read back (Rounds) and what was *)
(* read is written as the same bits (Again).  A payload that ends early is *)
(* read like one with zeros after it (Short).  CodecProofs takes an        *)
(* instance for every level of types, each the premise of the next.        *)
(***************************************************************************)
EXTENDS TypeWriter, TypeReader, TypeSchema, TypeObjects, ScalarsProofs

-----------------------------------------------------------------------------
(* The statements in turn: what one of them makes of what the one before   *)
(* it left.                                                                *)
Turn(what, k, so_far) ==
  IF what.do = "end" THEN MemberEnd(what.of[k], so_far)
  ELSE IF so_far.err # "SUCCESS" THEN so_far
  ELSE CASE what.do = "write members"  -> Write(what.of[k], what.v[k], so_far)
         [] what.do = "write elements" -> WriteNested(what.of, what.v[k], so_far)
         [] what.do = "read members"   -> Read(what.of[k], what.buf, so_far)
         [] what.do = "read elements"  -> ReadNested(what.of, what.buf, so_far)

(* f is what is left after each of n *)
Turns(f, n, begin, what) ==
  f = [k \in 0..n |-> IF k = 0 THEN begin ELSE Turn(what, k, f[k - 1])]

(* There is such a function. *)
LEMMA TurnsTaken ==
  ASSUME NEW n \in Nat, NEW begin, NEW what
  PROVE  \E f : Turns(f, n, begin, what)
<1> DEFINE after(f, k) == IF k = 0 THEN begin ELSE Turn(what, k, f[k - 1])
           A == {m \in 0..n : \E f : f = [k \in 0..m |-> after(f, k)]}
<1>1. 0 \in A
  <2> DEFINE f == [k \in 0..0 |-> begin]
  <2>1. f = [k \in 0..0 |-> after(f, k)]
    OBVIOUS
  <2> HIDE DEF f
  <2>2. 0 \in 0..n
    OBVIOUS
  <2> QED
    BY <2>1, <2>2
<1>2. ASSUME NEW m \in 0..(n - 1), m \in A
      PROVE  m + 1 \in A
  <2>1. PICK f : f = [k \in 0..m |-> after(f, k)]
    BY <1>2
  <2> DEFINE g == [k \in 0..(m + 1) |-> IF k = m + 1 THEN Turn(what, m + 1, f[m]) ELSE f[k]]
  <2>2. ASSUME NEW k \in 0..(m + 1)
        PROVE  g[k] = after(g, k)
    <3>1. CASE k = 0
      <4>1. f[0] = begin
        BY <2>1
      <4> QED
        BY <3>1, <4>1
    <3>2. CASE k \in 1..m
      <4>1. k - 1 \in 0..m /\ k - 1 \in 0..(m + 1) /\ k \in 0..m /\ k # m + 1 /\ k - 1 # m + 1
        BY <3>2
      <4>2. f[k] = Turn(what, k, f[k - 1])
        BY ONLY <2>1, <3>2, <4>1
      <4>3. g[k] = f[k] /\ g[k - 1] = f[k - 1]
        BY ONLY <4>1, k \in 0..(m + 1)
      <4> QED
        BY ONLY <3>2, <4>2, <4>3
    <3>3. CASE k = m + 1
      <4>1. k - 1 = m /\ m \in 0..(m + 1) /\ m # m + 1 /\ k # 0
        BY <3>3
      <4>2. g[m] = f[m] /\ g[m + 1] = Turn(what, m + 1, f[m])
        BY <4>1
      <4> HIDE DEF g
      <4> QED
        BY <3>3, <4>1, <4>2
    <3> QED
      BY <3>1, <3>2, <3>3
  <2>3. g = [k \in 0..(m + 1) |-> g[k]]
    OBVIOUS
  <2> HIDE DEF g
  <2>4. g = [k \in 0..(m + 1) |-> after(g, k)]
    BY <2>2, <2>3
  <2>5. m + 1 \in 0..n
    OBVIOUS
  <2> QED
    BY <2>4, <2>5
<1> HIDE DEF A
<1>3. \A k \in 0..n : k \in A
  BY <1>1, <1>2, InductionUpTo
<1>4. n \in A
  BY <1>3
<1> QED
  BY <1>4 DEF A, Turns

(* where the members of an object begin *)
ReadTag(t) == [Start EXCEPT !.off = IF t.kind = "union" THEN 8 ELSE 0]

(* The members of an object that is read, one after the other;             *)
LEMMA MembersReadInTurn ==
  ASSUME NEW t, NEW tag, NEW buf, Len(Present(t, tag)) \in Nat,
         ~(t.kind = "union" /\ tag \notin DOMAIN t.members)
  PROVE  \E f : /\ f[0] = ReadTag(t)
                /\ \A k \in 1..Len(Present(t, tag)) :
                     f[k] = IF f[k - 1].err = "SUCCESS"
                            THEN Read(Present(t, tag)[k], buf, f[k - 1]) ELSE f[k - 1]
                /\ ReadMembers(t, tag, buf) = f[Len(Present(t, tag))]
<1> DEFINE n == Len(Present(t, tag))
           begin == ReadTag(t)
           after(f, k) == IF k = 0 THEN begin
                          ELSE LET so_far == f[k - 1]
                               IN IF so_far.err = "SUCCESS"
                                  THEN Read(Present(t, tag)[k], buf, so_far) ELSE so_far
           taken == CHOOSE f : f = [k \in 0..n |-> after(f, k)]
           what == [do |-> "read members", of |-> Present(t, tag), buf |-> buf]
<1>1. ReadMembers(t, tag, buf) = taken[n]
  BY DEF ReadMembers, InTurn, ReadTag
<1>2. \A k, so_far : Turn(what, k, so_far) = IF so_far.err = "SUCCESS"
                                            THEN Read(Present(t, tag)[k], buf, so_far)
                                            ELSE so_far
  BY DEF Turn
<1> HIDE DEF what, begin, n
<1>3. \E f : Turns(f, n, begin, what)
  <2>1. n \in Nat
    BY DEF n
  <2> QED
    BY ONLY <2>1, TurnsTaken, Zenon
<1>4. \E f : f = [k \in 0..n |-> after(f, k)]
  <2>1. PICK f : f = [k \in 0..n |-> IF k = 0 THEN begin ELSE Turn(what, k, f[k - 1])]
    BY <1>3, Zenon DEF Turns
  <2>2. \A k : (IF k = 0 THEN begin ELSE Turn(what, k, f[k - 1])) = after(f, k)
    BY ONLY <1>2
  <2>3. f = [k \in 0..n |-> after(f, k)]
    BY ONLY <2>1, <2>2, Zenon
  <2> QED
    BY <2>3, Zenon
<1>5. taken = [k \in 0..n |-> after(taken, k)]
  BY ONLY <1>4, Zenon
<1> HIDE DEF taken
<1>6. taken[0] = begin
  <2>1. 0 \in 0..n
    BY DEF n
  <2> QED
    BY ONLY <1>5, <2>1
<1>7. ASSUME NEW k \in 1..n
      PROVE  taken[k] = IF taken[k - 1].err = "SUCCESS"
                        THEN Read(Present(t, tag)[k], buf, taken[k - 1]) ELSE taken[k - 1]
  <2>1. k \in 0..n /\ k # 0
    BY DEF n
  <2> QED
    BY ONLY <1>5, <2>1
<1> QED
  BY <1>1, <1>6, <1>7 DEF begin, n

(* the elements of an array that is read;                                  *)
LEMMA ElementsReadInTurn ==
  ASSUME NEW e, NEW n \in Nat, NEW buf, NEW at, ~Scalar(e)
  PROVE  \E f : /\ f[0] = [at EXCEPT !.obj = <<>>]
                /\ \A k \in 1..n :
                     f[k] = IF f[k - 1].err = "SUCCESS"
                            THEN ReadNested(e, buf, f[k - 1]) ELSE f[k - 1]
                /\ ReadArray(e, n, buf, at) = [f[n] EXCEPT !.obj = Append(at.obj, @)]
<1> DEFINE begin == [at EXCEPT !.obj = <<>>]
           after(f, k) == IF k = 0 THEN begin
                          ELSE LET so_far == f[k - 1]
                               IN IF so_far.err = "SUCCESS"
                                  THEN ReadNested(e, buf, so_far) ELSE so_far
           taken == CHOOSE f : f = [k \in 0..n |-> after(f, k)]
           what == [do |-> "read elements", of |-> e, buf |-> buf]
<1>1. ReadArray(e, n, buf, at) = [taken[n] EXCEPT !.obj = Append(at.obj, @)]
  BY DEF ReadArray, InTurn
<1>2. \A k, so_far : Turn(what, k, so_far) = IF so_far.err = "SUCCESS"
                                            THEN ReadNested(e, buf, so_far)
                                            ELSE so_far
  BY DEF Turn
<1> HIDE DEF what, begin
<1>3. \E f : Turns(f, n, begin, what)
  <2>1. n \in Nat
    OBVIOUS
  <2> QED
    BY ONLY <2>1, TurnsTaken, Zenon
<1>4. \E f : f = [k \in 0..n |-> after(f, k)]
  <2>1. PICK f : f = [k \in 0..n |-> IF k = 0 THEN begin ELSE Turn(what, k, f[k - 1])]
    BY <1>3, Zenon DEF Turns
  <2>2. \A k : (IF k = 0 THEN begin ELSE Turn(what, k, f[k - 1])) = after(f, k)
    BY ONLY <1>2
  <2>3. f = [k \in 0..n |-> after(f, k)]
    BY ONLY <2>1, <2>2, Zenon
  <2> QED
    BY <2>3, Zenon
<1>5. taken = [k \in 0..n |-> after(taken, k)]
  BY ONLY <1>4, Zenon
<1> HIDE DEF taken
<1>6. taken[0] = begin
  <2>1. 0 \in 0..n
    OBVIOUS
  <2> QED
    BY ONLY <1>5, <2>1
<1>7. ASSUME NEW k \in 1..n
      PROVE  taken[k] = IF taken[k - 1].err = "SUCCESS"
                        THEN ReadNested(e, buf, taken[k - 1]) ELSE taken[k - 1]
  <2>1. k \in 0..n /\ k # 0
    OBVIOUS
  <2> QED
    BY ONLY <1>5, <2>1
<1> QED
  BY <1>1, <1>6, <1>7 DEF begin

(* the members of an object that is written,                               *)
LEMMA MembersWrittenInTurn ==
  ASSUME NEW t, NEW tag, NEW v, Len(Present(t, tag)) \in Nat
  PROVE  \E f : /\ f[0] = IF t.kind = "union" THEN Put(Blank, BitsOf(tag - 1, 8)) ELSE Blank
                /\ \A k \in 1..Len(Present(t, tag)) :
                     f[k] = IF f[k - 1].err = "SUCCESS"
                            THEN Write(Present(t, tag)[k], v[k], f[k - 1]) ELSE f[k - 1]
                /\ WriteMembers(t, tag, v) = f[Len(Present(t, tag))]
<1> DEFINE n == Len(Present(t, tag))
           begin == IF t.kind = "union" THEN Put(Blank, BitsOf(tag - 1, 8)) ELSE Blank
           after(f, k) == IF k = 0 THEN begin
                          ELSE LET so_far == f[k - 1]
                               IN IF so_far.err = "SUCCESS"
                                  THEN Write(Present(t, tag)[k], v[k], so_far) ELSE so_far
           taken == CHOOSE f : f = [k \in 0..n |-> after(f, k)]
           what == [do |-> "write members", of |-> Present(t, tag), v |-> v]
<1>1. WriteMembers(t, tag, v) = taken[n]
  BY DEF WriteMembers, InTurn
<1>2. \A k, so_far : Turn(what, k, so_far) = IF so_far.err = "SUCCESS"
                                            THEN Write(Present(t, tag)[k], v[k], so_far)
                                            ELSE so_far
  BY DEF Turn
<1> HIDE DEF what, begin, n
<1>3. \E f : Turns(f, n, begin, what)
  <2>1. n \in Nat
    BY DEF n
  <2> QED
    BY ONLY <2>1, TurnsTaken, Zenon
<1>4. \E f : f = [k \in 0..n |-> after(f, k)]
  <2>1. PICK f : f = [k \in 0..n |-> IF k = 0 THEN begin ELSE Turn(what, k, f[k - 1])]
    BY <1>3, Zenon DEF Turns
  <2>2. \A k : (IF k = 0 THEN begin ELSE Turn(what, k, f[k - 1])) = after(f, k)
    BY ONLY <1>2
  <2>3. f = [k \in 0..n |-> after(f, k)]
    BY ONLY <2>1, <2>2, Zenon
  <2> QED
    BY <2>3, Zenon
<1>5. taken = [k \in 0..n |-> after(taken, k)]
  BY ONLY <1>4, Zenon
<1> HIDE DEF taken
<1>6. taken[0] = begin
  <2>1. 0 \in 0..n
    BY DEF n
  <2> QED
    BY ONLY <1>5, <2>1
<1>7. ASSUME NEW k \in 1..n
      PROVE  taken[k] = IF taken[k - 1].err = "SUCCESS"
                        THEN Write(Present(t, tag)[k], v[k], taken[k - 1]) ELSE taken[k - 1]
  <2>1. k \in 0..n /\ k # 0
    BY DEF n
  <2> QED
    BY ONLY <1>5, <2>1
<1> QED
  BY <1>1, <1>6, <1>7 DEF begin, n

(* and the elements of an array that is written.                           *)
LEMMA ElementsWrittenInTurn ==
  ASSUME NEW e, NEW v, NEW out, Len(v) \in Nat, ~Scalar(e)
  PROVE  \E f : /\ f[0] = out
                /\ \A k \in 1..Len(v) :
                     f[k] = IF f[k - 1].err = "SUCCESS"
                            THEN WriteNested(e, v[k], f[k - 1]) ELSE f[k - 1]
                /\ WriteArray(e, v, out) = f[Len(v)]
<1> DEFINE n == Len(v)
           begin == out
           after(f, k) == IF k = 0 THEN begin
                          ELSE LET so_far == f[k - 1]
                               IN IF so_far.err = "SUCCESS"
                                  THEN WriteNested(e, v[k], so_far) ELSE so_far
           taken == CHOOSE f : f = [k \in 0..n |-> after(f, k)]
           what == [do |-> "write elements", of |-> e, v |-> v]
<1>1. WriteArray(e, v, out) = taken[n]
  BY DEF WriteArray, InTurn
<1>2. \A k, so_far : Turn(what, k, so_far) = IF so_far.err = "SUCCESS"
                                            THEN WriteNested(e, v[k], so_far)
                                            ELSE so_far
  BY DEF Turn
<1> HIDE DEF what, begin, n
<1>3. \E f : Turns(f, n, begin, what)
  <2>1. n \in Nat
    BY DEF n
  <2> QED
    BY ONLY <2>1, TurnsTaken, Zenon
<1>4. \E f : f = [k \in 0..n |-> after(f, k)]
  <2>1. PICK f : f = [k \in 0..n |-> IF k = 0 THEN begin ELSE Turn(what, k, f[k - 1])]
    BY <1>3, Zenon DEF Turns
  <2>2. \A k : (IF k = 0 THEN begin ELSE Turn(what, k, f[k - 1])) = after(f, k)
    BY ONLY <1>2
  <2>3. f = [k \in 0..n |-> after(f, k)]
    BY ONLY <2>1, <2>2, Zenon
  <2> QED
    BY <2>3, Zenon
<1>5. taken = [k \in 0..n |-> after(taken, k)]
  BY ONLY <1>4, Zenon
<1> HIDE DEF taken
<1>6. taken[0] = begin
  <2>1. 0 \in 0..n
    BY DEF n
  <2> QED
    BY ONLY <1>5, <2>1
<1>7. ASSUME NEW k \in 1..n
      PROVE  taken[k] = IF taken[k - 1].err = "SUCCESS"
                        THEN WriteNested(e, v[k], taken[k - 1]) ELSE taken[k - 1]
  <2>1. k \in 0..n /\ k # 0
    BY DEF n
  <2> QED
    BY ONLY <1>5, <2>1
<1> QED
  BY <1>1, <1>6, <1>7 DEF begin, n

-----------------------------------------------------------------------------
(* One more at the end of a sequence leaves the others where they are. *)
LEMMA AppendTo ==
  ASSUME NEW s, NEW x, Sequence(s)
  PROVE  /\ Sequence(Append(s, x)) /\ Len(Append(s, x)) = Len(s) + 1
         /\ Append(s, x)[Len(s) + 1] = x
         /\ \A i \in 1..Len(s) : Append(s, x)[i] = s[i]
<1> DEFINE S == {s[i] : i \in 1..Len(s)} \cup {x}
           a == Append(s, x)
<1>1. s \in Seq(S)
  BY SeqDef DEF Sequence
<1>2. x \in S
  OBVIOUS
<1> HIDE DEF S
<1>3. /\ a \in Seq(S) /\ Len(a) = Len(s) + 1 /\ a[Len(s) + 1] = x
      /\ \A i \in 1..Len(s) : a[i] = s[i]
  BY <1>1, <1>2, AppendProperties
<1>4. Len(a) \in Nat /\ a \in [1..Len(a) -> S]
  BY <1>3, LenProperties
<1> QED
  BY <1>3, <1>4 DEF Sequence

(* A function on 1..n is a sequence of n. *)
LEMMA SequenceOf ==
  ASSUME NEW n \in Nat, NEW f, f = [i \in 1..n |-> f[i]]
  PROVE  Sequence(f) /\ Len(f) = n
<1> DEFINE S == {f[i] : i \in 1..n}
<1>1. f \in Seq(S)
  BY SeqDef
<1>2. DOMAIN f = 1..n
  OBVIOUS
<1> HIDE DEF S
<1>3. Len(f) \in Nat /\ DOMAIN f = 1..Len(f)
  BY <1>1, LenProperties
<1>4. Len(f) = n
  BY <1>2, <1>3
<1> QED
  BY <1>4 DEF Sequence

(* What a member of a type is: a number, bits that mean nothing, an array, *)
(* or a type of its own.                                                   *)
IsNumber(e) == Scalar(e) /\ e \in Numbers \cup Halves
IsVoid(e) == e.kind = "void" /\ e.width \in 1..64
IsArray(e) == Array(e) /\ e.capacity \in 1..MaxSize /\ Element(e.of)
IsNested(e) ==
  /\ e.kind \in {"struct", "union", "delimited"}
  /\ NestedSchema(Composite(e))
  /\ e.kind = "delimited" => NestedLargest(e.of) <= 8 * e.of.extent

(* An element is a number or a type in X, *)
LEMMA ElementKinds ==
  ASSUME NEW e, Element(e)
  PROVE  IsNumber(e) \/ (IsNested(e) /\ ~Scalar(e))
<1>1. CASE e \in Numbers \cup Halves
  BY <1>1 DEF IsNumber, Scalar, Numbers, Halves, Float
<1>2. CASE e \notin Numbers \cup Halves
  BY <1>2 DEF Element, IsNested, Scalar
<1> QED
  BY <1>1, <1>2

(* and a member is one of the four. *)
LEMMA MemberKinds ==
  ASSUME NEW e, Member(e)
  PROVE  \/ IsNumber(e) /\ ~Array(e) /\ e.kind # "void"
         \/ IsVoid(e) /\ ~Scalar(e) /\ ~Array(e)
         \/ IsArray(e) /\ ~Scalar(e) /\ e.kind # "void"
         \/ IsNested(e) /\ ~Scalar(e) /\ ~Array(e) /\ e.kind # "void"
<1>1. CASE Element(e)
  <2>1. CASE IsNumber(e)
    BY ONLY <2>1 DEF IsNumber, Scalar, Array
  <2>2. CASE IsNested(e) /\ ~Scalar(e)
    BY ONLY <2>2 DEF IsNested, Array
  <2> QED
    BY <1>1, <2>1, <2>2, ElementKinds
<1>2. CASE Array(e) /\ e.capacity \in 1..MaxSize /\ Element(e.of)
  <2>1. IsArray(e)
    BY <1>2, Zenon DEF IsArray
  <2>2. ~Scalar(e) /\ e.kind # "void"
    BY ONLY <1>2 DEF Array, Scalar
  <2> QED
    BY <2>1, <2>2
<1>3. CASE e.kind = "void" /\ e.width \in 1..64
  BY ONLY <1>3 DEF IsVoid, Array, Scalar
<1> QED
  BY <1>1, <1>2, <1>3, Zenon DEF Member

(* The members that are there. *)
LEMMA PresentMembers ==
  ASSUME NEW t, NEW tag, Schema(t), t.kind = "union" => tag \in DOMAIN t.members
  PROVE  /\ Len(Present(t, tag)) \in Nat /\ DOMAIN Present(t, tag) = 1..Len(Present(t, tag))
         /\ \A k \in 1..Len(Present(t, tag)) : Member(Present(t, tag)[k])
         /\ t.kind # "struct" => Len(Present(t, tag)) = 1
<1>1. CASE t.kind = "struct"
  <2>1. Present(t, tag) = t.members
    BY <1>1, Zenon DEF Present
  <2>2. /\ Len(t.members) \in Nat /\ DOMAIN t.members = 1..Len(t.members)
        /\ \A k \in DOMAIN t.members : Member(t.members[k])
    BY Zenon DEF Schema
  <2> QED
    BY ONLY <1>1, <2>1, <2>2
<1>2. CASE t.kind # "struct"
  <2>1. t.kind = "union" /\ Member(t.members[tag])
    <3>1. t.kind = "union"
      BY ONLY <1>2, Schema(t) DEF Schema
    <3>2. \A k \in DOMAIN t.members : Member(t.members[k])
      BY Zenon DEF Schema
    <3> QED
      BY <3>1, <3>2, SMTT(30)
  <2>3. Present(t, tag) = <<t.members[tag]>>
    BY <1>2, Zenon DEF Present
  <2>2. Len(<<t.members[tag]>>) = 1 /\ DOMAIN <<t.members[tag]>> = 1..1
    OBVIOUS
  <2> QED
    BY ONLY <2>1, <2>2, <2>3
<1> QED
  BY <1>1, <1>2

(* A number takes up so many bits of memory. *)
LEMMA NumberInMemory ==
  ASSUME NEW e, IsNumber(e)
  PROVE  /\ e.width \in Nat \ {0} /\ MemoryWidth(e) \in Nat
         /\ e \in Numbers \/ (e = Float(16) /\ e.kind = "float" /\ e.width = 16 /\ MemoryWidth(e) = 32)
<1>1. CASE e \in Numbers
  BY <1>1, WidthInMemory
<1>2. CASE e = Float(16)
  BY <1>2 DEF Float, MemoryWidth
<1> QED
  BY <1>1, <1>2 DEF IsNumber, Halves

(* A number read from any payload is a number. *)
LEMMA NumberRead ==
  ASSUME NEW e, IsNumber(e), NEW buf \in Buffers, NEW off \in Nat
  PROVE  ReadScalar(e, buf, off) \in InC(e)
<1> DEFINE bits == Taken(buf, off, e.width)
<1>1. e.width \in Nat \ {0} /\ MemoryWidth(e) \in Nat
  BY NumberInMemory
<1>2. bits \in Buffers /\ Len(bits) = e.width
  BY <1>1, TakenBits
<1>3. SUFFICES InMemory(e, bits) \in Buffers /\ Len(InMemory(e, bits)) = MemoryWidth(e)
  BY LenProperties DEF ReadScalar, InC, Buffers
<1> HIDE DEF bits
<1>4. CASE e \in Numbers
  <2>1. ~(e.kind = "float" /\ e.width = 16) /\ MemoryWidth(e) - e.width \in Nat
    <3>1. ~(e.kind = "float" /\ e.width = 16) /\ e.width <= MemoryWidth(e)
      BY <1>4, WidthInMemory
    <3> QED
      BY ONLY <1>1, <3>1
  <2>2. InMemory(e, bits) = bits \o Zeros(MemoryWidth(e) - e.width)
    BY <2>1 DEF InMemory
  <2>3. /\ Zeros(MemoryWidth(e) - e.width) \in Buffers
        /\ Len(Zeros(MemoryWidth(e) - e.width)) = MemoryWidth(e) - e.width
    BY <2>1, ZerosType
  <2> DEFINE more == Zeros(MemoryWidth(e) - e.width)
  <2> HIDE DEF more
  <2>4. bits \o more \in Buffers /\ Len(bits \o more) = Len(bits) + Len(more)
    BY <1>2, <2>3, PutAfter DEF more
  <2> QED
    BY <1>1, <1>2, <2>2, <2>3, <2>4 DEF more
<1>5. CASE e = Float(16) /\ e.kind = "float" /\ e.width = 16 /\ MemoryWidth(e) = 32
  BY <1>2, <1>5, UnpackedIsFloat DEF InMemory
<1> QED
  BY <1>4, <1>5, NumberInMemory

-----------------------------------------------------------------------------
(* What X_deserialize_ has read so far. *)
ReadErrors == {"SUCCESS", "BAD_ARRAY_LENGTH", "BAD_UNION_TAG", "BAD_DELIMITER_HEADER"}

Reading(at) ==
  /\ at = [err |-> at.err, off |-> at.off, obj |-> at.obj]
  /\ at.err \in ReadErrors /\ at.off \in Nat /\ Sequence(at.obj)

(* an object that can be written again *)
ElementGood(e, v) ==
  /\ ElementObject(e, v)
  /\ ~Scalar(e) => NestedSerialize(Composite(e), v).err = "SUCCESS"

MemberGood(e, v) ==
  /\ MemberObject(e, v)
  /\ IF e.kind = "void" THEN TRUE
     ELSE IF Array(e) THEN Len(v) <= e.capacity /\ \A k \in DOMAIN v : ElementGood(e.of, v[k])
     ELSE ElementGood(e, v)

(* One more was read, unless there was an error. *)
ReadOneMore(at, after) ==
  /\ Reading(after)
  /\ after.err = "SUCCESS" => /\ Len(after.obj) = Len(at.obj) + 1
                              /\ \A i \in 1..Len(at.obj) : after.obj[i] = at.obj[i]

(* Got appends what was read and moves on. *)
LEMMA GotOneMore ==
  ASSUME NEW at, Reading(at), NEW w \in Nat, NEW v
  PROVE  /\ ReadOneMore(at, Got(at, w, v)) /\ Got(at, w, v).obj[Len(at.obj) + 1] = v
         /\ Got(at, w, v).err = at.err /\ Got(at, w, v).off = at.off + w
<1> DEFINE after == Got(at, w, v)
           obj == Append(at.obj, v)
<1>1. /\ Sequence(obj) /\ Len(obj) = Len(at.obj) + 1 /\ obj[Len(at.obj) + 1] = v
      /\ \A i \in 1..Len(at.obj) : obj[i] = at.obj[i]
  <2>1. Sequence(at.obj)
    BY Zenon DEF Reading
  <2> QED
    BY ONLY <2>1, AppendTo, ZenonT(60)
<1>2. after = [err |-> at.err, off |-> at.off + w, obj |-> obj]
  <2> DEFINE moved == [at EXCEPT !.off = at.off + w]
  <2>1. moved = [err |-> at.err, off |-> at.off + w, obj |-> at.obj]
    BY ONLY Reading(at) DEF Reading
  <2>2. after = [moved EXCEPT !.obj = Append(moved.obj, v)]
    BY DEF Got
  <2> HIDE DEF moved, after
  <2>3. ASSUME NEW s
        PROVE  [moved EXCEPT !.obj = s] = [err |-> at.err, off |-> at.off + w, obj |-> s]
    BY ONLY <2>1
  <2>4. moved.obj = at.obj
    BY ONLY <2>1
  <2> QED
    BY ONLY <2>2, <2>3, <2>4, Zenon DEF obj
<1>3. at.err \in ReadErrors /\ at.off + w \in Nat
  BY DEF Reading
<1> HIDE DEF after, obj
<1>4. after.err = at.err /\ after.off = at.off + w /\ after.obj = obj
  BY ONLY <1>2
<1>5. Reading(after)
  BY ONLY <1>1, <1>2, <1>3, <1>4 DEF Reading
<1> QED
  BY ONLY <1>1, <1>4, <1>5 DEF ReadOneMore, after

(* Bad leaves what was read before. *)
LEMMA BadIsRead ==
  ASSUME NEW at, Reading(at), NEW error \in ReadErrors
  PROVE  /\ Reading(Bad(at, error)) /\ Bad(at, error).err = error
         /\ Bad(at, error).obj = at.obj /\ Bad(at, error).off = at.off
<1>1. Bad(at, error) = [err |-> error, off |-> at.off, obj |-> at.obj]
  BY ONLY Reading(at) DEF Reading, Bad
<1> QED
  BY <1>1 DEF Reading

(* What was skipped is not in what was read. *)
LEMMA MovedIsRead ==
  ASSUME NEW at, Reading(at), NEW off \in Nat
  PROVE  LET moved == [at EXCEPT !.off = off]
         IN /\ Reading(moved) /\ moved.err = at.err /\ moved.obj = at.obj /\ moved.off = off
<1> DEFINE moved == [at EXCEPT !.off = off]
<1>1. moved = [err |-> at.err, off |-> off, obj |-> at.obj]
  BY ONLY Reading(at) DEF Reading
<1> QED
  BY <1>1 DEF Reading

-----------------------------------------------------------------------------
(* Of the types in X: any payload is an object of the type, that can be    *)
(* written again, or it is an error; it is not if there is nothing in it   *)
(* but zeros.                                                              *)
NestedReads ==
  \A t, buf : NestedSchema(t) /\ buf \in Buffers =>
    LET read == NestedDeserialize(t, buf)
    IN /\ read.err \in ReadErrors /\ read.size \in Nat
       /\ read.err = "SUCCESS" => /\ NestedObject(t, read.obj)
                                  /\ NestedSerialize(t, read.obj).err = "SUCCESS"
       /\ AllZero(buf) => read.err = "SUCCESS"

(* What was read of a type in X is a good element. *)
LEMMA NestedGot ==
  ASSUME NestedReads, NEW at, Reading(at), at.err = "SUCCESS", NEW off \in Nat,
         NEW e, ~Scalar(e), NestedSchema(Composite(e)), NEW buf \in Buffers, NEW size \in Nat
  PROVE  LET after == GotNested(at, off, size, NestedDeserialize(Composite(e), buf))
         IN /\ ReadOneMore(at, after)
            /\ after.err = "SUCCESS" => ElementGood(e, after.obj[Len(at.obj) + 1])
            /\ AllZero(buf) => after.err = "SUCCESS"
<1> DEFINE nested == NestedDeserialize(Composite(e), buf)
           moved == [at EXCEPT !.off = off]
<1>1. /\ nested.err \in ReadErrors
      /\ nested.err = "SUCCESS" => /\ NestedObject(Composite(e), nested.obj)
                                   /\ NestedSerialize(Composite(e), nested.obj).err = "SUCCESS"
      /\ AllZero(buf) => nested.err = "SUCCESS"
  BY Zenon DEF NestedReads
<1>2. nested.err = "SUCCESS" => ElementGood(e, nested.obj)
  BY <1>1 DEF ElementGood, ElementObject
<1> HIDE DEF nested
<1>3. CASE nested.err # "SUCCESS"
  <2>1. GotNested(at, off, size, nested) = Bad(at, nested.err)
    BY <1>3, Zenon DEF GotNested
  <2>2. Reading(Bad(at, nested.err)) /\ Bad(at, nested.err).err = nested.err
    BY <1>1, BadIsRead
  <2> QED
    BY <1>1, <1>3, <2>1, <2>2 DEF ReadOneMore, nested
<1>4. CASE nested.err = "SUCCESS"
  <2>1. GotNested(at, off, size, nested) = Got(moved, size * 8, nested.obj)
    BY <1>4 DEF GotNested
  <2>2. Reading(moved) /\ moved.err = at.err /\ moved.obj = at.obj /\ size * 8 \in Nat
    BY MovedIsRead
  <2> DEFINE bits == size * 8
  <2> HIDE DEF moved, bits
  <2> DEFINE after == Got(moved, bits, nested.obj)
  <2>3. /\ ReadOneMore(moved, after) /\ after.err = moved.err
        /\ after.obj[Len(moved.obj) + 1] = nested.obj
    <3>1. bits \in Nat
      BY DEF bits
    <3>2. Reading(moved)
      BY <2>2
    <3>3. ASSUME NEW v
          PROVE  /\ ReadOneMore(moved, Got(moved, bits, v))
                 /\ Got(moved, bits, v).obj[Len(moved.obj) + 1] = v
                 /\ Got(moved, bits, v).err = moved.err
      BY ONLY <3>1, <3>2, GotOneMore
    <3> QED
      BY ONLY <3>3
  <2> HIDE DEF after
  <2>4. ReadOneMore(at, after) /\ after.err = "SUCCESS" /\ after.obj[Len(at.obj) + 1] = nested.obj
    BY <2>2, <2>3 DEF ReadOneMore
  <2>5. GotNested(at, off, size, nested) = after
    BY <2>1 DEF after, bits
  <2> QED
    BY ONLY <1>2, <1>4, <2>4, <2>5, Zenon DEF nested
<1> QED
  BY <1>3, <1>4

(* Zeros are zero wherever they are taken from. *)
LEMMA ZerosTaken ==
  ASSUME NEW buf \in Buffers, AllZero(buf), NEW off \in Nat, NEW w \in Nat
  PROVE  /\ AllZero(Taken(buf, off, w)) /\ NumberOf(Taken(buf, off, w)) = 0
<1> DEFINE bits == Taken(buf, off, w)
<1>1. /\ bits \in Buffers /\ Len(bits) = w
      /\ \A i \in 1..w : bits[i] = IF off + i <= Len(buf) THEN buf[off + i] ELSE 0
  BY TakenBits
<1>2. Len(buf) \in Nat
  BY LenProperties DEF Buffers
<1> HIDE DEF bits
<1>3. AllZero(bits)
  BY <1>1, <1>2 DEF AllZero
<1>4. NumberOf(bits) = 0
  BY <1>1, <1>3, NumberOfIsNat
<1> QED
  BY <1>3, <1>4 DEF bits

(* One of a type in X is read like that, sealed or delimited. *)
OneMoreGood(e, buf, at, after) ==
  /\ ReadOneMore(at, after)
  /\ after.err = "SUCCESS" => ElementGood(e, after.obj[Len(at.obj) + 1])
  /\ AllZero(buf) => after.err = "SUCCESS"

(* What was read of a type in X is one more element. *)
LEMMA NestedGotOf ==
  ASSUME NestedReads, NEW at, Reading(at), at.err = "SUCCESS", NEW off \in Nat,
         NEW e, ~Scalar(e), NestedSchema(Composite(e)), NEW buf \in Buffers, NEW size \in Nat
  PROVE  OneMoreGood(e, buf, at, GotNested(at, off, size, NestedDeserialize(Composite(e), buf)))
  BY NestedGot, Zenon DEF OneMoreGood

(* Part of a buffer is zero if all of it is. *)
LEMMA PartOfZeros ==
  ASSUME NEW buf \in Buffers, NEW off \in Nat, NEW end \in Nat,
         end <= Len(buf) \/ end <= off
  PROVE  LET part == SubSeq(buf, off + 1, end)
         IN part \in Buffers /\ (AllZero(buf) => AllZero(part))
<1> DEFINE part == SubSeq(buf, off + 1, end)
<1>1. /\ part \in Buffers
      /\ Len(part) = IF off <= end THEN end - off ELSE 0
      /\ \A i \in 1..Len(part) : part[i] = buf[off + i]
  BY PartOfBuffer
<1> HIDE DEF part
<1>2. ASSUME AllZero(buf), NEW i \in 1..Len(part)
      PROVE  part[i] = 0
  <2>1. off + i \in 1..Len(buf)
    BY ONLY <1>1, i \in 1..Len(part), off \in Nat, end \in Nat, end <= Len(buf) \/ end <= off
  <2> QED
    BY <1>1, <1>2, <2>1 DEF AllZero
<1> QED
  BY <1>1, <1>2 DEF AllZero, part

(* A type in X whose size is its own, read from the rest of the payload, *)
LEMMA SealedRead ==
  ASSUME NestedReads, NEW at, Reading(at), at.err = "SUCCESS", NEW off \in Nat,
         NEW e, ~Scalar(e), e.kind # "delimited", NestedSchema(e), NEW buf \in Buffers
  PROVE  OneMoreGood(e, buf, at, ReadSealed(e, buf, off, at))
<1> DEFINE rest == SubSeq(buf, off + 1, Len(buf))
           nested == NestedDeserialize(e, rest)
<1>1. Composite(e) = e
  BY DEF Composite
<1>2. rest \in Buffers /\ (AllZero(buf) => AllZero(rest))
  <2>1. Len(buf) \in Nat
    BY LenProperties DEF Buffers
  <2> QED
    BY <2>1, PartOfZeros
<1> HIDE DEF rest
<1>3. nested.size \in Nat
  BY <1>2, Zenon DEF NestedReads
<1>4. OneMoreGood(e, rest, at, GotNested(at, off, nested.size, NestedDeserialize(Composite(e), rest)))
  <2> HIDE DEF nested
  <2> DEFINE size == nested.size
  <2>1. size \in Nat /\ NestedSchema(Composite(e))
    BY <1>1, <1>3
  <2> HIDE DEF size
  <2>2. OneMoreGood(e, rest, at, GotNested(at, off, size, NestedDeserialize(Composite(e), rest)))
    BY <1>2, <2>1, NestedGotOf
  <2> QED
    BY <2>2 DEF size
<1>5. ReadSealed(e, buf, off, at)
      = GotNested(at, off, nested.size, NestedDeserialize(Composite(e), rest))
  BY <1>1, Zenon DEF ReadSealed, rest
<1> HIDE DEF nested
<1> QED
  BY ONLY <1>2, <1>4, <1>5 DEF OneMoreGood

(* A delimiter header tells a size, and zeros no size. *)
LEMMA HeaderSize ==
  ASSUME NEW buf \in Buffers, NEW off \in Nat
  PROVE  /\ SizeInHeader(buf, off) \in Nat
         /\ AllZero(buf) => SizeInHeader(buf, off) = 0
<1> DEFINE header == Taken(buf, off, 32)
<1>1. header \in Buffers /\ Len(header) = 32 /\ Len(buf) \in Nat
  <2>1. 32 \in Nat
    OBVIOUS
  <2> QED
    BY <2>1, TakenBits, LenProperties DEF Buffers
<1>2. AllZero(buf) => AllZero(header) /\ NumberOf(header) = 0
  <2>1. 32 \in Nat
    OBVIOUS
  <2> QED
    BY <2>1, ZerosTaken
<1>3. NumberOf(header) \in Nat
  BY <1>1, NumberOfIsNat
<1>4. SizeInHeader(buf, off) = IF header[32] = 1 THEN Len(buf) ELSE NumberOf(header)
  BY DEF SizeInHeader
<1> HIDE DEF header
<1>5. AllZero(buf) => header[32] # 1
  BY <1>1, <1>2 DEF AllZero
<1> QED
  BY <1>1, <1>2, <1>3, <1>4, <1>5

(* a type in X that follows a delimiter header, read from so many bytes, *)
LEMMA DelimitedRead ==
  ASSUME NestedReads, NEW at, Reading(at), at.err = "SUCCESS", NEW off \in Nat,
         NEW e, e.kind = "delimited", NestedSchema(e.of), NEW buf \in Buffers,
         NEW size \in Nat, AllZero(buf) => size = 0
  PROVE  OneMoreGood(e, buf, at, ReadDelimited(e.of, buf, off, size, at))
<1> DEFINE part == SubSeq(buf, off + 1, off + size * 8)
<1>1. Composite(e) = e.of /\ ~Scalar(e) /\ Len(buf) \in Nat
  BY LenProperties DEF Composite, Scalar, Buffers
<1> DEFINE left == Len(buf) - Lesser(off, Len(buf))
<1>4. left \in Nat /\ left \div 8 \in Nat /\ (left \div 8) * 8 <= left
  <2>1. left \in Nat
    BY <1>1 DEF Lesser
  <2>2. ASSUME NEW n \in Nat
        PROVE  n \div 8 \in Nat /\ (n \div 8) * 8 <= n
    OBVIOUS
  <2> HIDE DEF left
  <2> QED
    BY <2>1, <2>2
<1>5. left = IF off < Len(buf) THEN Len(buf) - off ELSE 0
  BY <1>1 DEF Lesser
<1> HIDE DEF left
<1>6. (Len(buf) - Lesser(off, Len(buf))) \div 8 = left \div 8
  BY DEF left
<1>2. CASE Beyond(size, (Len(buf) - Lesser(off, Len(buf))) \div 8)
  <2>1. ReadDelimited(e.of, buf, off, size, at) = Bad(at, "BAD_DELIMITER_HEADER")
    BY <1>2, Zenon DEF ReadDelimited
  <2>2. ~AllZero(buf)
    BY ONLY <1>2, <1>4, <1>6, AllZero(buf) => size = 0 DEF Beyond
  <2>3. "BAD_DELIMITER_HEADER" \in ReadErrors
    BY DEF ReadErrors
  <2>4. /\ Reading(Bad(at, "BAD_DELIMITER_HEADER"))
        /\ Bad(at, "BAD_DELIMITER_HEADER").err = "BAD_DELIMITER_HEADER"
    BY <2>3, BadIsRead
  <2> QED
    BY ONLY <2>1, <2>2, <2>4 DEF OneMoreGood, ReadOneMore
<1>3. CASE ~Beyond(size, (Len(buf) - Lesser(off, Len(buf))) \div 8)
  <2>1. /\ off + size * 8 \in Nat
        /\ off + size * 8 <= Len(buf) \/ off + size * 8 <= off
    <3>1. size <= left \div 8
      BY ONLY <1>3, <1>4, <1>6, size \in Nat DEF Beyond
    <3>2. size * 8 \in Nat /\ size * 8 <= left
      BY ONLY <1>4, <3>1, size \in Nat
    <3> QED
      BY ONLY <1>1, <1>5, <3>2, off \in Nat
  <2>2. part \in Buffers /\ (AllZero(buf) => AllZero(part))
    <3> DEFINE end == off + size * 8
    <3> HIDE DEF end
    <3>1. end \in Nat /\ (end <= Len(buf) \/ end <= off)
      BY <2>1 DEF end
    <3>2. LET p == SubSeq(buf, off + 1, end) IN p \in Buffers /\ (AllZero(buf) => AllZero(p))
      BY <3>1, PartOfZeros
    <3> QED
      BY <3>2 DEF end
  <2> HIDE DEF part
  <2>3. OneMoreGood(e, part, at, GotNested(at, off, size, NestedDeserialize(Composite(e), part)))
    BY <1>1, <2>2, NestedGotOf
  <2>4. ReadDelimited(e.of, buf, off, size, at)
        = GotNested(at, off, size, NestedDeserialize(Composite(e), part))
    BY <1>1, <1>3, Zenon DEF ReadDelimited, part
  <2> QED
    BY ONLY <2>2, <2>3, <2>4 DEF OneMoreGood
<1> QED
  BY <1>2, <1>3

(* and either of them where the next byte begins, are one more element. *)
LEMMA NestedRead ==
  ASSUME NestedReads, NEW at, Reading(at), at.err = "SUCCESS",
         NEW e, IsNested(e), ~Scalar(e), NEW buf \in Buffers
  PROVE  OneMoreGood(e, buf, at, ReadNested(e, buf, at))
<1> DEFINE off == Align(at.off)
<1>1. off \in Nat /\ off + 32 \in Nat
  BY AlignIsNextByte DEF Reading
<1> HIDE DEF off
<1>2. CASE e.kind = "delimited"
  <2> DEFINE size == SizeInHeader(buf, off)
  <2>1. size \in Nat /\ (AllZero(buf) => size = 0)
    BY <1>1, HeaderSize
  <2>2. NestedSchema(e.of)
    BY <1>2 DEF IsNested, Composite
  <2> HIDE DEF size
  <2> DEFINE next == off + 32
  <2>3. next \in Nat
    BY <1>1
  <2> HIDE DEF next
  <2>4. OneMoreGood(e, buf, at, ReadDelimited(e.of, buf, next, size, at))
    BY <1>2, <2>1, <2>2, <2>3, DelimitedRead
  <2>5. ReadNested(e, buf, at) = ReadDelimited(e.of, buf, next, size, at)
    BY <1>2, Zenon DEF ReadNested, off, size, next
  <2> QED
    BY <2>4, <2>5
<1>3. CASE e.kind # "delimited"
  <2>1. NestedSchema(e)
    BY <1>3 DEF IsNested, Composite
  <2>2. OneMoreGood(e, buf, at, ReadSealed(e, buf, off, at))
    BY <1>1, <1>3, <2>1, SealedRead
  <2>3. ReadNested(e, buf, at) = ReadSealed(e, buf, off, at)
    BY <1>3, Zenon DEF ReadNested, off
  <2> QED
    BY <2>2, <2>3
<1> QED
  BY <1>2, <1>3

(* An array of n elements that are good. *)
ArrayGood(e, n, v) == Sequence(v) /\ Len(v) = n /\ \A k \in 1..n : ElementGood(e, v[k])

OneMoreArray(e, n, buf, at, after) ==
  /\ ReadOneMore(at, after)
  /\ after.err = "SUCCESS" => ArrayGood(e, n, after.obj[Len(at.obj) + 1])
  /\ AllZero(buf) => after.err = "SUCCESS"

(* Numbers make an array, *)
LEMMA NumbersRead ==
  ASSUME NEW at, Reading(at), at.err = "SUCCESS", NEW e, IsNumber(e), NEW n \in Nat,
         NEW buf \in Buffers
  PROVE  OneMoreArray(e, n, buf, at, ReadArray(e, n, buf, at))
<1> DEFINE v == ReadScalars(e, n, buf, at.off)
<1>1. e.width \in Nat /\ n * e.width \in Nat /\ Scalar(e) /\ at.off \in Nat
  <2>1. e.width \in Nat
    BY NumberInMemory
  <2> QED
    BY <2>1 DEF IsNumber, Reading
<1>2. ASSUME NEW k \in 1..n
      PROVE  ElementGood(e, v[k])
  <2> DEFINE off == at.off + (k - 1) * e.width
  <2>1. off \in Nat
    <3>1. k - 1 \in Nat
      OBVIOUS
    <3> QED
      BY <1>1, <3>1
  <2>2. v[k] = ReadScalar(e, buf, off)
    BY DEF ReadScalars
  <2> HIDE DEF off
  <2>3. ReadScalar(e, buf, off) \in InC(e)
    BY <2>1, NumberRead
  <2> QED
    BY <1>1, <2>2, <2>3, Zenon DEF ElementGood, ElementObject
<1>3. v = [k \in 1..n |-> v[k]]
  BY DEF ReadScalars
<1> HIDE DEF v
<1>4. ArrayGood(e, n, v)
  BY <1>2, <1>3, SequenceOf DEF ArrayGood
<1> DEFINE bits == n * e.width
           after == Got(at, bits, v)
<1>5. bits \in Nat
  BY <1>1
<1>6. ReadArray(e, n, buf, at) = after
  BY <1>1, Zenon DEF ReadArray, v
<1> HIDE DEF bits
<1>7. /\ ReadOneMore(at, after) /\ after.obj[Len(at.obj) + 1] = v /\ after.err = at.err
  BY <1>5, GotOneMore
<1> HIDE DEF after
<1> QED
  BY <1>4, <1>6, <1>7 DEF OneMoreArray

(* and so do types in X, read one after the other; *)
LEMMA ElementsRead ==
  ASSUME NestedReads, NEW at, Reading(at), at.err = "SUCCESS",
         NEW e, IsNested(e), ~Scalar(e), NEW n \in Nat, NEW buf \in Buffers
  PROVE  OneMoreArray(e, n, buf, at, ReadArray(e, n, buf, at))
<1>1. PICK f : /\ f[0] = [at EXCEPT !.obj = <<>>]
               /\ \A k \in 1..n : f[k] = IF f[k - 1].err = "SUCCESS"
                                         THEN ReadNested(e, buf, f[k - 1]) ELSE f[k - 1]
               /\ ReadArray(e, n, buf, at) = [f[n] EXCEPT !.obj = Append(at.obj, @)]
  BY ElementsReadInTurn
<1> DEFINE Good(k) == /\ Reading(f[k])
                      /\ f[k].err = "SUCCESS" => /\ Len(f[k].obj) = k
                                                 /\ \A i \in 1..k : ElementGood(e, f[k].obj[i])
                      /\ AllZero(buf) => f[k].err = "SUCCESS"
           A == {k \in 0..n : Good(k)}
<1>2. 0 \in A
  <2> DEFINE begin == [at EXCEPT !.obj = <<>>]
  <2>1. begin = [err |-> at.err, off |-> at.off, obj |-> <<>>]
    BY ONLY Reading(at) DEF Reading
  <2>2. Sequence(<<>>) /\ Len(<<>>) = 0
    BY DEF Sequence
  <2>3. at.err \in ReadErrors /\ at.off \in Nat
    BY DEF Reading
  <2> HIDE DEF begin
  <2>4. begin.err = at.err /\ begin.off = at.off /\ begin.obj = <<>>
    BY ONLY <2>1
  <2>5. Reading(begin)
    BY ONLY <2>1, <2>2, <2>3, <2>4 DEF Reading
  <2>6. f[0] = begin
    BY <1>1 DEF begin
  <2>7. Good(0)
    BY ONLY <2>2, <2>4, <2>5, <2>6, at.err = "SUCCESS"
  <2> HIDE DEF Good
  <2> QED
    BY <2>7
<1>3. ASSUME NEW k \in 0..(n - 1), k \in A
      PROVE  k + 1 \in A
  <2>1. Good(k) /\ k + 1 \in 0..n /\ k + 1 \in 1..n /\ (k + 1) - 1 = k
    BY <1>3
  <2>2. f[k + 1] = IF f[k].err = "SUCCESS" THEN ReadNested(e, buf, f[k]) ELSE f[k]
    BY ONLY <1>1, <2>1
  <2>3. CASE f[k].err = "SUCCESS"
    <3>1. OneMoreGood(e, buf, f[k], ReadNested(e, buf, f[k]))
      BY <2>1, <2>3, NestedRead
    <3>2. OneMoreGood(e, buf, f[k], f[k + 1])
      BY ONLY <2>2, <2>3, <3>1
    <3>3. Reading(f[k + 1]) /\ (AllZero(buf) => f[k + 1].err = "SUCCESS")
      BY ONLY <3>2 DEF OneMoreGood, ReadOneMore
    <3>4. ASSUME f[k + 1].err = "SUCCESS"
          PROVE  /\ Len(f[k + 1].obj) = k + 1
                 /\ \A i \in 1..(k + 1) : ElementGood(e, f[k + 1].obj[i])
      <4>1. Len(f[k].obj) = k /\ \A i \in 1..k : ElementGood(e, f[k].obj[i])
        BY ONLY <2>1, <2>3
      <4>2. /\ Len(f[k + 1].obj) = Len(f[k].obj) + 1
            /\ \A i \in 1..Len(f[k].obj) : f[k + 1].obj[i] = f[k].obj[i]
            /\ ElementGood(e, f[k + 1].obj[Len(f[k].obj) + 1])
        BY ONLY <3>2, <3>4 DEF OneMoreGood, ReadOneMore
      <4>3. \A i \in 1..(k + 1) : i \in 1..k \/ i = k + 1
        OBVIOUS
      <4> QED
        BY ONLY <4>1, <4>2, <4>3
    <3>5. Good(k + 1)
      BY ONLY <3>3, <3>4
    <3> HIDE DEF Good
    <3> QED
      BY ONLY <2>1, <3>5
  <2>4. CASE f[k].err # "SUCCESS"
    <3>1. f[k + 1] = f[k]
      BY ONLY <2>2, <2>4
    <3>2. Good(k + 1)
      BY ONLY <2>1, <2>4, <3>1
    <3> HIDE DEF Good
    <3> QED
      BY ONLY <2>1, <3>2
  <2> QED
    BY <2>3, <2>4
<1> HIDE DEF A
<1>4. n \in A
  <2>1. \A k \in 0..n : k \in A
    BY <1>2, <1>3, InductionUpTo
  <2> QED
    BY <2>1
<1>5. Good(n)
  BY <1>4 DEF A
<1> DEFINE last == f[n]
           after == [last EXCEPT !.obj = Append(at.obj, last.obj)]
<1>6. ReadArray(e, n, buf, at) = after
  BY <1>1
<1>7. /\ Reading(last)
      /\ last.err = "SUCCESS" => /\ Len(last.obj) = n
                                 /\ \A i \in 1..n : ElementGood(e, last.obj[i])
      /\ AllZero(buf) => last.err = "SUCCESS"
  BY <1>5
<1> HIDE DEF last
<1> DEFINE obj == Append(at.obj, last.obj)
<1>8. /\ Sequence(obj) /\ Len(obj) = Len(at.obj) + 1 /\ obj[Len(at.obj) + 1] = last.obj
      /\ \A i \in 1..Len(at.obj) : obj[i] = at.obj[i]
  <2>1. Sequence(at.obj)
    BY Zenon DEF Reading
  <2> QED
    BY ONLY <2>1, AppendTo, ZenonT(60)
<1>9. after = [err |-> last.err, off |-> last.off, obj |-> obj]
  <2> HIDE DEF obj
  <2>1. after = [last EXCEPT !.obj = obj]
    BY DEF obj
  <2> HIDE DEF after
  <2> QED
    BY ONLY <1>7, <2>1 DEF Reading
<1> HIDE DEF obj, after
<1>10. after.err = last.err /\ after.off = last.off /\ after.obj = obj
  BY ONLY <1>9
<1>11. last.err \in ReadErrors /\ last.off \in Nat /\ Sequence(last.obj)
  BY ONLY <1>7 DEF Reading
<1>12. Reading(after)
  BY ONLY <1>8, <1>9, <1>10, <1>11 DEF Reading
<1>13. ReadOneMore(at, after)
  BY ONLY <1>8, <1>10, <1>12 DEF ReadOneMore
<1>14. after.err = "SUCCESS" => ArrayGood(e, n, after.obj[Len(at.obj) + 1])
  BY ONLY <1>7, <1>8, <1>10, <1>11 DEF ArrayGood
<1> QED
  BY ONLY <1>6, <1>7, <1>10, <1>13, <1>14 DEF OneMoreArray

(* there is no other array. *)
LEMMA ArrayRead ==
  ASSUME NestedReads, NEW at, Reading(at), at.err = "SUCCESS",
         NEW e, Element(e), NEW n \in Nat, NEW buf \in Buffers
  PROVE  OneMoreArray(e, n, buf, at, ReadArray(e, n, buf, at))
<1>1. CASE IsNumber(e)
  BY <1>1, NumbersRead
<1>2. CASE IsNested(e) /\ ~Scalar(e)
  BY <1>2, ElementsRead
<1> QED
  BY <1>1, <1>2, ElementKinds

(* A member is read like that, whatever it is: *)
OneMoreMember(e, buf, at, after) ==
  /\ ReadOneMore(at, after)
  /\ after.err = "SUCCESS" => MemberGood(e, after.obj[Len(at.obj) + 1])
  /\ AllZero(buf) => after.err = "SUCCESS"

(* an array has a capacity, *)
LEMMA CapacityIsNat ==
  ASSUME NEW e, IsArray(e)
  PROVE  e.capacity \in Nat /\ e.capacity <= MaxSize /\ MaxSize \in Nat
<1>1. e.capacity \in 1..MaxSize
  BY Zenon DEF IsArray
<1>2. MaxSize \in Nat
  BY DEF MaxSize
<1> QED
  BY <1>1, <1>2

(* so many elements, *)
LEMMA CountIsNat ==
  ASSUME NEW e, IsArray(e), NEW buf \in Buffers, NEW off \in Nat
  PROVE  /\ PrefixWidth(e) \in Nat /\ CountRead(e, buf, off) \in Nat
         /\ e.kind = "fixed" => CountRead(e, buf, off) = e.capacity
         /\ AllZero(buf) => CountRead(e, buf, off) <= e.capacity
<1>1. PrefixWidth(e) \in Nat
  BY DEF PrefixWidth, LengthWidth
<1>2. e.capacity \in Nat
  BY CapacityIsNat
<1>3. CASE e.kind = "upto"
  <2> DEFINE bits == Taken(buf, off, PrefixWidth(e))
  <2>1. bits \in Buffers /\ (AllZero(buf) => NumberOf(bits) = 0)
    BY <1>1, TakenBits, ZerosTaken
  <2>2. CountRead(e, buf, off) = NumberOf(bits)
    BY <1>3 DEF CountRead
  <2> HIDE DEF bits
  <2> QED
    BY <1>1, <1>2, <1>3, <2>1, <2>2, NumberOfIsNat
<1>4. CASE e.kind # "upto"
  <2>1. CountRead(e, buf, off) = e.capacity
    BY <1>4 DEF CountRead
  <2> QED
    BY <1>1, <1>2, <2>1
<1> QED
  BY <1>3, <1>4

(* that are read, *)
LEMMA CountedRead ==
  ASSUME NestedReads, NEW at, Reading(at), at.err = "SUCCESS",
         NEW e, IsArray(e), NEW n \in Nat, NEW buf \in Buffers,
         e.kind = "fixed" => n = e.capacity, AllZero(buf) => n <= e.capacity
  PROVE  OneMoreMember(e, buf, at, ReadCounted(e, n, buf, at))
<1>1. e.capacity \in Nat
  BY CapacityIsNat
<1>2. CASE Overfull(n, e.capacity)
  <2>1. ReadCounted(e, n, buf, at) = Bad(at, "BAD_ARRAY_LENGTH")
    BY <1>2, Zenon DEF ReadCounted
  <2>2. ~AllZero(buf)
    BY ONLY <1>1, <1>2, n \in Nat, AllZero(buf) => n <= e.capacity DEF Overfull
  <2>3. "BAD_ARRAY_LENGTH" \in ReadErrors
    BY DEF ReadErrors
  <2>4. /\ Reading(Bad(at, "BAD_ARRAY_LENGTH"))
        /\ Bad(at, "BAD_ARRAY_LENGTH").err = "BAD_ARRAY_LENGTH"
    BY <2>3, BadIsRead
  <2> QED
    BY ONLY <2>1, <2>2, <2>4 DEF OneMoreMember, ReadOneMore
<1>3. CASE ~Overfull(n, e.capacity)
  <2> DEFINE moved == [at EXCEPT !.off = @ + PrefixWidth(e)]
             after == ReadArray(e.of, n, buf, moved)
             v == after.obj[Len(at.obj) + 1]
  <2>1. /\ Reading(moved) /\ moved.err = at.err /\ moved.obj = at.obj
    <3> DEFINE off == at.off + PrefixWidth(e)
    <3>1. off \in Nat
      <4>1. at.off \in Nat /\ PrefixWidth(e) \in Nat
        BY DEF Reading, PrefixWidth, LengthWidth
      <4> QED
        BY <4>1
    <3> HIDE DEF off
    <3> DEFINE there == [at EXCEPT !.off = off]
    <3>2. Reading(there) /\ there.err = at.err /\ there.obj = at.obj
      BY <3>1, MovedIsRead
    <3>3. moved = there
      BY DEF off
    <3> HIDE DEF there, moved
    <3> QED
      BY <3>2, <3>3
  <2>2. ReadCounted(e, n, buf, at) = after
    BY <1>3, Zenon DEF ReadCounted
  <2> HIDE DEF moved
  <2>3. OneMoreArray(e.of, n, buf, moved, after)
    <3>1. Element(e.of)
      BY Zenon DEF IsArray
    <3> QED
      BY <2>1, <3>1, ArrayRead
  <2> HIDE DEF after
  <2>4. ReadOneMore(at, after) /\ (AllZero(buf) => after.err = "SUCCESS")
    BY ONLY <2>1, <2>3 DEF OneMoreArray, ReadOneMore
  <2>5. ASSUME after.err = "SUCCESS"
        PROVE  MemberGood(e, v)
    <3>1. ArrayGood(e.of, n, v)
      BY ONLY <2>1, <2>3, <2>5 DEF OneMoreArray
    <3>2. n <= e.capacity
      BY ONLY <1>1, <1>3, n \in Nat DEF Overfull
    <3> HIDE DEF v
    <3>3. /\ Sequence(v) /\ Len(v) = n /\ DOMAIN v = 1..n /\ \A k \in 1..n : ElementGood(e.of, v[k])
      BY ONLY <3>1 DEF ArrayGood, Sequence
    <3>4. MemberObject(e, v)
      <4>1. \A k \in DOMAIN v : ElementObject(e.of, v[k])
        BY ONLY <3>3 DEF ElementGood
      <4>2. Array(e) /\ e.kind # "void"
        BY ONLY IsArray(e) DEF IsArray, Array
      <4>3. MemberObject(e, v) = (/\ Sequence(v)
                                  /\ e.kind = "fixed" => Len(v) = e.capacity
                                  /\ \A k \in DOMAIN v : ElementObject(e.of, v[k]))
        BY ONLY <4>2 DEF MemberObject
      <4> QED
        BY <3>3, <4>1, <4>3
    <3>5. Array(e) /\ e.kind # "void"
      BY ONLY IsArray(e) DEF IsArray, Array
    <3> QED
      BY ONLY <3>2, <3>3, <3>4, <3>5 DEF MemberGood
  <2> QED
    BY ONLY <2>2, <2>4, <2>5 DEF OneMoreMember, v
<1> QED
  BY <1>2, <1>3

(* and any member. *)
LEMMA MemberRead ==
  ASSUME NestedReads, NEW at, Reading(at), at.err = "SUCCESS",
         NEW e, Member(e), NEW buf \in Buffers
  PROVE  OneMoreMember(e, buf, at, Read(e, buf, at))
<1>0. at.off \in Nat
  BY DEF Reading
<1>1. CASE IsNumber(e) /\ ~Array(e) /\ e.kind # "void"
  <2> DEFINE v == ReadScalar(e, buf, at.off)
             after == Got(at, e.width, v)
  <2>1. v \in InC(e) /\ e.width \in Nat /\ Scalar(e)
    <3>1. v \in InC(e)
      BY <1>0, <1>1, NumberRead
    <3>2. e.width \in Nat
      BY <1>1, NumberInMemory
    <3> HIDE DEF v
    <3> QED
      BY ONLY <1>1, <3>1, <3>2 DEF IsNumber
  <2>3. Read(e, buf, at) = after
    <3>1. Scalar(e)
      BY <2>1
    <3> QED
      BY ONLY <1>1, <3>1 DEF Read
  <2> HIDE DEF v
  <2>2. MemberGood(e, v)
    <3>1. ElementObject(e, v) /\ ElementGood(e, v)
      BY ONLY <2>1 DEF ElementGood, ElementObject
    <3>2. MemberObject(e, v)
      BY ONLY <1>1, <3>1 DEF MemberObject
    <3> QED
      BY ONLY <1>1, <3>1, <3>2 DEF MemberGood
  <2>4. ReadOneMore(at, after) /\ after.obj[Len(at.obj) + 1] = v /\ after.err = at.err
    BY <2>1, GotOneMore
  <2> HIDE DEF after
  <2> QED
    BY <2>2, <2>3, <2>4 DEF OneMoreMember
<1>2. CASE IsVoid(e) /\ ~Scalar(e) /\ ~Array(e)
  <2> DEFINE after == Got(at, e.width, <<>>)
  <2>1. e.width \in Nat /\ e.kind = "void"
    BY <1>2 DEF IsVoid
  <2>2. MemberGood(e, <<>>)
    BY ONLY <1>2, <2>1 DEF MemberGood, MemberObject
  <2>3. Read(e, buf, at) = after
    BY <1>2, <2>1 DEF Read
  <2>4. ReadOneMore(at, after) /\ after.obj[Len(at.obj) + 1] = <<>> /\ after.err = at.err
    BY <2>1, GotOneMore
  <2> HIDE DEF after
  <2> QED
    BY <2>2, <2>3, <2>4 DEF OneMoreMember
<1>3. CASE IsArray(e) /\ ~Scalar(e) /\ e.kind # "void"
  <2> DEFINE n == CountRead(e, buf, at.off)
  <2>1. /\ n \in Nat /\ (e.kind = "fixed" => n = e.capacity)
        /\ AllZero(buf) => n <= e.capacity
    BY <1>0, <1>3, CountIsNat
  <2>2. Array(e)
    BY <1>3 DEF IsArray
  <2>3. Read(e, buf, at) = ReadCounted(e, n, buf, at)
    BY <1>3, <2>2 DEF Read
  <2> HIDE DEF n
  <2>4. OneMoreMember(e, buf, at, ReadCounted(e, n, buf, at))
    BY <1>3, <2>1, CountedRead
  <2> QED
    BY <2>3, <2>4
<1>4. CASE IsNested(e) /\ ~Scalar(e) /\ ~Array(e) /\ e.kind # "void"
  <2>1. Read(e, buf, at) = ReadNested(e, buf, at)
    BY <1>4 DEF Read
  <2>2. OneMoreGood(e, buf, at, ReadNested(e, buf, at))
    BY <1>4, NestedRead
  <2>3. \A v : ElementGood(e, v) => MemberGood(e, v)
    BY <1>4 DEF MemberGood, MemberObject, ElementGood
  <2> QED
    BY <2>1, <2>2, <2>3 DEF OneMoreGood, OneMoreMember
<1> QED
  BY <1>1, <1>2, <1>3, <1>4, MemberKinds

-----------------------------------------------------------------------------
(* Bits and bytes. *)
LEMMA BytesOfBits ==
  ASSUME NEW n \in Nat
  PROVE  /\ n \div 8 \in Nat /\ (n \div 8) * 8 <= n
         /\ n % 8 = 0 => (n \div 8) * 8 = n /\ 8 * (n \div 8) = n
  OBVIOUS

(* Whole bytes after whole bytes are whole bytes. *)
LEMMA WholeBytes ==
  ASSUME NEW m \in Nat, NEW n \in Nat, m % 8 = 0, n % 8 = 0
  PROVE  m + n \in Nat /\ (m + n) % 8 = 0
  OBVIOUS

(* What is no longer than the largest does not end after it, *)
LEMMA LongestEnd ==
  ASSUME NEW a \in Nat, NEW b \in Nat, NEW c \in Nat, NEW m \in Nat, b <= m
  PROVE  a + (c + b) <= a + (c + m)
  OBVIOUS

(* nor what begins earlier. *)
LEMMA FartherEnd ==
  ASSUME NEW len \in Nat, NEW a \in Nat, NEW here \in Nat, NEW there, NEW L \in Nat,
         len <= a + L, a <= here, there = here + L
  PROVE  len <= there
  OBVIOUS

-----------------------------------------------------------------------------
(* What X_serialize_ has written so far. *)
WriteErrors == {"SUCCESS", "BAD_ARRAY_LENGTH"}

Writing(out) ==
  /\ out = [err |-> out.err, bits |-> out.bits]
  /\ out.err \in WriteErrors /\ out.bits \in Buffers

(* Put appends to what was written, *)
LEMMA PutIsWritten ==
  ASSUME NEW out, Writing(out), NEW bits \in Buffers
  PROVE  /\ Writing(Put(out, bits)) /\ Put(out, bits).err = out.err
         /\ Put(out, bits).bits = out.bits \o bits
         /\ Len(Put(out, bits).bits) = Len(out.bits) + Len(bits)
<1>1. Put(out, bits) = [err |-> out.err, bits |-> out.bits \o bits]
  <2>1. ASSUME NEW b
        PROVE  [out EXCEPT !.bits = b] = [err |-> out.err, bits |-> b]
    BY ONLY Writing(out) DEF Writing
  <2> QED
    BY <2>1, Zenon DEF Put
<1>2. out.err \in WriteErrors /\ out.bits \in Buffers
  BY DEF Writing
<1>3. out.bits \o bits \in Buffers /\ Len(out.bits \o bits) = Len(out.bits) + Len(bits)
  BY <1>2, PutAfter
<1> QED
  BY <1>1, <1>2, <1>3 DEF Writing

(* and Fail leaves it as it was. *)
LEMMA FailIsWritten ==
  ASSUME NEW out, Writing(out), NEW error \in WriteErrors
  PROVE  /\ Writing(Fail(out, error)) /\ Fail(out, error).err = error
         /\ Fail(out, error).bits = out.bits
<1>1. Fail(out, error) = [err |-> error, bits |-> out.bits]
  BY ONLY Writing(out) DEF Writing, Fail
<1> QED
  BY <1>1 DEF Writing

(* Up to the next byte. *)
LEMMA AlignedIsWritten ==
  ASSUME NEW out, Writing(out)
  PROVE  /\ Writing(PutAligned(out)) /\ PutAligned(out).err = out.err
         /\ PutAligned(out).bits = out.bits \o Zeros(Align(Len(out.bits)) - Len(out.bits))
         /\ Zeros(Align(Len(out.bits)) - Len(out.bits)) \in Buffers
         /\ Len(PutAligned(out).bits) = Align(Len(out.bits))
<1> DEFINE gap == Align(Len(out.bits)) - Len(out.bits)
<1>1. Len(out.bits) \in Nat
  BY LenProperties DEF Writing, Buffers
<1>2. Align(Len(out.bits)) \in Nat /\ Len(out.bits) <= Align(Len(out.bits))
  BY <1>1, AlignIsNextByte
<1>3. gap \in Nat /\ Len(out.bits) + gap = Align(Len(out.bits))
  BY ONLY <1>1, <1>2
<1>4. PutAligned(out) = Put(out, Zeros(gap))
  BY DEF PutAligned
<1> HIDE DEF gap
<1>5. Zeros(gap) \in Buffers /\ Len(Zeros(gap)) = gap
  BY <1>3, ZerosType
<1> DEFINE more == Zeros(gap)
<1> HIDE DEF more
<1>6. more \in Buffers /\ Len(more) = gap
  BY <1>5 DEF more
<1>7. /\ Writing(Put(out, more)) /\ Put(out, more).err = out.err
      /\ Put(out, more).bits = out.bits \o more
      /\ Len(Put(out, more).bits) = Len(out.bits) + Len(more)
  BY <1>6, PutIsWritten
<1>8. /\ Writing(PutAligned(out)) /\ PutAligned(out).err = out.err
      /\ PutAligned(out).bits = out.bits \o Zeros(gap) /\ Zeros(gap) \in Buffers
      /\ Len(PutAligned(out).bits) = Align(Len(out.bits))
  BY ONLY <1>3, <1>4, <1>5, <1>6, <1>7 DEF more
<1> QED
  BY ONLY <1>8 DEF gap

-----------------------------------------------------------------------------
(* A buffer that begins with another. *)
Begins(buf, p) == \E more \in Buffers : buf = p \o more

(* Every buffer begins with itself, *)
LEMMA BeginsItself ==
  ASSUME NEW p \in Buffers
  PROVE  Begins(p, p)
<1>1. p \o <<>> = p /\ <<>> \in Buffers
  BY DEF Buffers
<1> QED
  BY <1>1 DEF Begins

(* and with all that what it begins with begins with. *)
LEMMA BeginsTransitive ==
  ASSUME NEW a \in Buffers, NEW b, NEW c, Begins(b, a), Begins(c, b)
  PROVE  Begins(c, a) /\ b \in Buffers /\ c \in Buffers
<1>1. PICK m \in Buffers : b = a \o m
  BY DEF Begins
<1>2. b \in Buffers
  BY <1>1, PutAfter
<1>3. PICK n \in Buffers : c = b \o n
  BY DEF Begins
<1>4. c \in Buffers
  BY <1>2, <1>3, PutAfter
<1>5. m \o n \in Buffers
  BY PutAfter
<1>6. (a \o m) \o n = a \o (m \o n)
  BY ConcatAssociative DEF Buffers
<1> QED
  BY <1>1, <1>2, <1>3, <1>4, <1>5, <1>6 DEF Begins

(* Something more was written, up to some bit, unless there was an error. *)
WroteMore(out, after, end) ==
  /\ Writing(after)
  /\ after.err = "SUCCESS" => Begins(after.bits, out.bits) /\ Len(after.bits) <= end

(* What is put is something more, *)
LEMMA PutIsMore ==
  ASSUME NEW out, Writing(out), NEW bits \in Buffers, NEW end, Len(out.bits) + Len(bits) <= end
  PROVE  WroteMore(out, Put(out, bits), end)
  BY PutIsWritten DEF WroteMore, Begins

(* an error is nothing less, *)
LEMMA FailIsMore ==
  ASSUME NEW out, Writing(out), NEW end
  PROVE  WroteMore(out, Fail(out, "BAD_ARRAY_LENGTH"), end)
<1>1. "BAD_ARRAY_LENGTH" \in WriteErrors
  BY DEF WriteErrors
<1> QED
  BY <1>1, FailIsWritten DEF WroteMore

(* and more after more is more. *)
LEMMA MoreAndMore ==
  ASSUME NEW out, Writing(out), NEW between, NEW after, NEW end, NEW last,
         WroteMore(out, between, end), between.err = "SUCCESS", WroteMore(between, after, last)
  PROVE  WroteMore(out, after, last)
<1>1. out.bits \in Buffers
  BY DEF Writing
<1> QED
  BY <1>1, BeginsTransitive DEF WroteMore

-----------------------------------------------------------------------------
(* Of the types in X: an object is written as whole bytes, no more than    *)
(* its type says, or it has an array that claims too many elements.        *)
NestedWrites ==
  \A t : NestedSchema(t) =>
    /\ NestedLargest(t) \in Nat /\ t.extent \in 0..MaxSize
    /\ \A v : NestedObject(t, v) =>
         LET out == NestedSerialize(t, v)
         IN /\ out.err \in WriteErrors /\ out.bits \in Buffers
            /\ out.err = "SUCCESS" => /\ Len(out.bits) % 8 = 0
                                      /\ Len(out.bits) <= NestedLargest(t)

(* Where elements begin and how long they are. *)
LEMMA ElementEnds ==
  ASSUME NestedWrites, NEW e, Element(e)
  PROVE  /\ ElementLargest(e) \in Nat
         /\ \A off \in Nat : ElementBegin(e, off) \in Nat /\ off <= ElementBegin(e, off)
         /\ \A a, b \in Nat : a <= b => ElementBegin(e, a) <= ElementBegin(e, b)
<1>1. ElementLargest(e) \in Nat
  <2>1. CASE IsNumber(e)
    <3>1. e.width \in Nat
      BY <2>1, NumberInMemory
    <3> QED
      BY <2>1, <3>1 DEF IsNumber, ElementLargest
  <2>2. CASE IsNested(e) /\ ~Scalar(e)
    <3>1. CASE e.kind = "delimited"
      <4>1. NestedLargest(e.of) \in Nat /\ NestedLargest(e.of) <= 8 * e.of.extent
        BY <2>2, <3>1 DEF IsNested, NestedWrites, Composite
      <4>2. e.of.extent \in Nat
        <5>1. NestedSchema(e.of)
          BY <2>2, <3>1 DEF IsNested, Composite
        <5>2. e.of.extent \in 0..MaxSize
          BY <5>1, Zenon DEF NestedWrites
        <5> QED
          BY ONLY <5>2
      <4> QED
        BY ONLY <2>2, <3>1, <4>2 DEF ElementLargest
    <3>2. CASE e.kind # "delimited"
      BY <2>2, <3>2 DEF IsNested, NestedWrites, Composite, ElementLargest
    <3> QED
      BY <3>1, <3>2
  <2> QED
    BY <2>1, <2>2, ElementKinds
<1>2. \A off \in Nat : ElementBegin(e, off) \in Nat /\ off <= ElementBegin(e, off)
  BY AlignIsNextByte DEF ElementBegin
<1>3. \A a, b \in Nat : a <= b => ElementBegin(e, a) <= ElementBegin(e, b)
  <2>1. \A a, b \in Nat : a <= b => Align(a) <= Align(b)
    BY DEF Align
  <2> QED
    BY <2>1 DEF ElementBegin
<1> QED
  BY <1>1, <1>2, <1>3

(* The delimiter header of an object of so many bytes. *)
Header(e, n) == IF e.kind = "delimited" THEN BitsOf(n, 31) \o << 0 >> ELSE <<>>

(* It has 32 bits, or there is none. *)
LEMMA HeaderType ==
  ASSUME NEW e, NEW n \in Nat
  PROVE  /\ Header(e, n) \in Buffers
         /\ Len(Header(e, n)) = IF e.kind = "delimited" THEN 32 ELSE 0
<1>1. CASE e.kind = "delimited"
  <2>1. 31 \in 0..31 /\ 0 \in {0, 1} /\ 31 + 1 = 32
    OBVIOUS
  <2>2. BitsOf(n, 31) \o << 0 >> \in Buffers /\ Len(BitsOf(n, 31) \o << 0 >>) = 31 + 1
    BY ONLY <2>1, n \in Nat, NumberAndSign, Zenon
  <2>3. Header(e, n) = BitsOf(n, 31) \o << 0 >>
    BY <1>1 DEF Header
  <2> QED
    BY ONLY <1>1, <2>1, <2>2, <2>3
<1>2. CASE e.kind # "delimited"
  BY <1>2 DEF Header, Buffers
<1> QED
  BY <1>1, <1>2

(* An object of a type in X is written from the next byte on, and ends     *)
(* with one.                                                               *)
ElementWritten(e, v, out, after) ==
  /\ WroteMore(out, after, Align(Len(out.bits)) + ElementLargest(e))
  /\ after.err = "SUCCESS" => Len(after.bits) % 8 = 0
  /\ ElementGood(e, v) => after.err = "SUCCESS"

(* so much is written of it, when it is *)
NestedBits(e, v, out) ==
  PutAligned(out).bits \o (Header(e, Len(NestedSerialize(Composite(e), v).bits) \div 8)
                           \o NestedSerialize(Composite(e), v).bits)

(* A type in X is written up to the end of the largest at most. *)
LEMMA NestedIsWritten ==
  ASSUME NestedWrites, NEW out, Writing(out), out.err = "SUCCESS",
         NEW e, IsNested(e), ~Scalar(e), NEW v, ElementObject(e, v)
  PROVE  /\ ElementWritten(e, v, out, WriteNested(e, v, out))
         /\ WriteNested(e, v, out).err = "SUCCESS" =>
              /\ WriteNested(e, v, out).bits = NestedBits(e, v, out)
              /\ NestedSerialize(Composite(e), v).err = "SUCCESS"
<1> DEFINE nested == NestedSerialize(Composite(e), v)
           n == Len(nested.bits) \div 8
           after == WriteNested(e, v, out)
<1>1. /\ nested.err \in WriteErrors /\ nested.bits \in Buffers
      /\ nested.err = "SUCCESS" => /\ Len(nested.bits) % 8 = 0
                                   /\ Len(nested.bits) <= NestedLargest(Composite(e))
      /\ NestedLargest(Composite(e)) \in Nat
  BY Zenon DEF NestedWrites, IsNested, ElementObject
<1>2. ElementGood(e, v) => nested.err = "SUCCESS"
  BY DEF ElementGood
<1>3. after = IF nested.err # "SUCCESS" THEN Fail(out, nested.err)
              ELSE Put(PutAligned(out), Header(e, n) \o nested.bits)
  BY DEF WriteNested, Header
<1> HIDE DEF nested, after
<1>4. CASE nested.err # "SUCCESS"
  <2>1. Writing(after) /\ after.err # "SUCCESS"
    BY <1>1, <1>3, <1>4, FailIsWritten
  <2> QED
    BY <1>2, <1>4, <2>1 DEF ElementWritten, WroteMore, nested, after
<1>5. CASE nested.err = "SUCCESS"
  <2> DEFINE aligned == PutAligned(out)
             begin == Align(Len(out.bits))
             header == Header(e, n)
  <2>1. Len(nested.bits) \in Nat /\ n \in Nat /\ Len(out.bits) \in Nat
    <3>1. Len(nested.bits) \in Nat /\ Len(out.bits) \in Nat
      BY <1>1, LenProperties DEF Buffers, Writing
    <3> QED
      BY <3>1, BytesOfBits
  <2>2. begin \in Nat /\ begin % 8 = 0
    BY <2>1, AlignIsNextByte
  <2>3. /\ Writing(aligned) /\ aligned.err = "SUCCESS" /\ Len(aligned.bits) = begin
        /\ Begins(aligned.bits, out.bits)
    BY AlignedIsWritten DEF Begins
  <2>4. header \in Buffers /\ Len(header) = IF e.kind = "delimited" THEN 32 ELSE 0
    <3> HIDE DEF n
    <3> QED
      BY <2>1, HeaderType
  <2> DEFINE bits == header \o nested.bits
  <2> HIDE DEF aligned, begin, header, n
  <2>5. bits \in Buffers /\ Len(bits) = Len(header) + Len(nested.bits)
    BY <1>1, <2>4, PutAfter
  <2> HIDE DEF bits
  <2>6. /\ Writing(after) /\ after.err = "SUCCESS" /\ after.bits = aligned.bits \o bits
        /\ Len(after.bits) = begin + Len(bits)
    <3>1. after = Put(aligned, bits)
      BY <1>3, <1>5 DEF aligned, bits, header
    <3> QED
      BY <2>3, <2>5, <3>1, PutIsWritten
  <2>7. Len(after.bits) <= begin + ElementLargest(e)
    <3>1. CASE e.kind = "delimited"
      <4>1. /\ NestedLargest(Composite(e)) <= 8 * e.of.extent
            /\ ElementLargest(e) = 32 + 8 * e.of.extent /\ e.of.extent \in Nat
        <5>1. NestedSchema(e.of) /\ Composite(e) = e.of
          BY <3>1 DEF IsNested, Composite
        <5>2. e.of.extent \in 0..MaxSize
          BY <5>1, Zenon DEF NestedWrites
        <5>3. NestedLargest(e.of) <= 8 * e.of.extent
          BY <3>1, Zenon DEF IsNested
        <5>4. ElementLargest(e) = 32 + 8 * e.of.extent
          BY <3>1 DEF ElementLargest
        <5>5. e.of.extent \in Nat
          BY ONLY <5>2
        <5> QED
          BY <5>1, <5>3, <5>4, <5>5
      <4>2. Len(after.bits) = begin + (32 + Len(nested.bits)) /\ Len(nested.bits) <= 8 * e.of.extent
        <5>1. Len(nested.bits) <= NestedLargest(Composite(e)) /\ NestedLargest(Composite(e)) \in Nat
          BY ONLY <1>1, <1>5
        <5>2. Len(header) = 32
          BY ONLY <2>4, <3>1
        <5> QED
          BY ONLY <2>1, <2>5, <2>6, <4>1, <5>1, <5>2
      <4>3. 32 \in Nat /\ 8 * e.of.extent \in Nat
        BY ONLY <4>1
      <4> DEFINE most == 8 * e.of.extent
                 least == Len(nested.bits)
      <4>4. least \in Nat /\ most \in Nat /\ least <= most
        BY ONLY <2>1, <4>2, <4>3
      <4>5. Len(after.bits) = begin + (32 + least) /\ ElementLargest(e) = 32 + most
        BY ONLY <4>1, <4>2
      <4> HIDE DEF most, least
      <4>6. begin + (32 + least) <= begin + (32 + most)
        BY ONLY <2>2, <4>3, <4>4, LongestEnd
      <4> QED
        BY ONLY <4>5, <4>6
    <3>2. CASE e.kind # "delimited"
      <4>1. ElementLargest(e) = NestedLargest(Composite(e))
        BY ONLY <3>2, ~Scalar(e) DEF ElementLargest, Composite
      <4>2. /\ Len(after.bits) = begin + (0 + Len(nested.bits))
            /\ Len(nested.bits) <= NestedLargest(Composite(e))
            /\ NestedLargest(Composite(e)) \in Nat /\ 0 \in Nat
        <5>1. Len(header) = 0
          BY ONLY <2>4, <3>2
        <5> QED
          BY ONLY <1>1, <1>5, <2>1, <2>5, <2>6, <5>1
      <4>3. Len(after.bits) <= begin + (0 + NestedLargest(Composite(e)))
        BY ONLY <2>1, <2>2, <4>2, LongestEnd
      <4>4. 0 + NestedLargest(Composite(e)) = NestedLargest(Composite(e))
        BY ONLY <4>2
      <4> QED
        BY ONLY <4>1, <4>3, <4>4
    <3> QED
      BY <3>1, <3>2
  <2>8. Len(after.bits) % 8 = 0
    <3>1. Len(header) \in Nat /\ Len(header) % 8 = 0
      BY ONLY <2>4
    <3>2. Len(bits) \in Nat /\ Len(bits) % 8 = 0
      BY ONLY <1>1, <1>5, <2>1, <2>5, <3>1, WholeBytes
    <3> QED
      BY ONLY <2>2, <2>6, <3>2, WholeBytes
  <2>9. Begins(after.bits, out.bits)
    <3>1. Begins(after.bits, aligned.bits)
      BY <2>5, <2>6 DEF Begins
    <3>2. out.bits \in Buffers
      BY DEF Writing
    <3> QED
      BY <2>3, <3>1, <3>2, BeginsTransitive
  <2>10. after.bits = NestedBits(e, v, out)
    BY <2>6 DEF aligned, bits, header, n, nested, NestedBits
  <2>11. ElementWritten(e, v, out, after)
    BY ONLY <2>6, <2>7, <2>8, <2>9 DEF ElementWritten, WroteMore, begin
  <2> QED
    BY ONLY <1>5, <2>10, <2>11 DEF nested, after
<1> QED
  BY <1>4, <1>5

(* So is an array of numbers or of types in X, up to the end of the largest. *)
ArrayWritten(e, v, out, after) ==
  /\ WroteMore(out, after, ElementBegin(e, Len(out.bits)) + Len(v) * ElementLargest(e))
  /\ (\A k \in 1..Len(v) : ElementGood(e, v[k])) => after.err = "SUCCESS"

(* An array of numbers is, *)
LEMMA NumbersWritten ==
  ASSUME NEW out, Writing(out), out.err = "SUCCESS", NEW e, IsNumber(e),
         NEW v, Sequence(v), \A k \in 1..Len(v) : ElementObject(e, v[k])
  PROVE  ArrayWritten(e, v, out, WriteArray(e, v, out))
<1>1. Scalar(e) /\ e \in Numbers \cup Halves
  BY DEF IsNumber
<1>2. v \in Seq(InC(e)) /\ Len(v) \in Nat
  <2>1. \A k \in 1..Len(v) : v[k] \in InC(e)
    BY <1>1 DEF ElementObject
  <2> QED
    BY <2>1, SeqDef DEF Sequence
<1> DEFINE bits == ArrayOnWire(e, v)
           begin == Len(out.bits)
           end == begin + Len(v) * e.width
           after == Put(out, bits)
<1>3. bits \in Buffers /\ Len(bits) = Len(v) * e.width
  BY <1>1, <1>2, ArrayBits
<1>4. ElementBegin(e, begin) = begin /\ ElementLargest(e) = e.width
  BY <1>1 DEF ElementBegin, ElementLargest
<1>5. WriteArray(e, v, out) = after
  BY <1>1 DEF WriteArray
<1> HIDE DEF bits
<1>6. Len(out.bits) + Len(bits) <= end
  <2>1. begin \in Nat
    BY LenProperties DEF Writing, Buffers
  <2>2. Len(bits) \in Nat
    BY <1>3, LenProperties DEF Buffers
  <2> QED
    BY ONLY <1>3, <2>1, <2>2
<1> HIDE DEF end
<1>7. WroteMore(out, after, end) /\ after.err = "SUCCESS"
  BY <1>3, <1>6, PutIsMore, PutIsWritten
<1> HIDE DEF after
<1> QED
  BY ONLY <1>4, <1>5, <1>7 DEF ArrayWritten, end, begin

(* an array of types in X is, one after the other, *)
LEMMA ElementsWritten ==
  ASSUME NestedWrites, NEW out, Writing(out), out.err = "SUCCESS",
         NEW e, IsNested(e), ~Scalar(e), Element(e),
         NEW v, Sequence(v), \A k \in 1..Len(v) : ElementObject(e, v[k])
  PROVE  ArrayWritten(e, v, out, WriteArray(e, v, out))
<1> DEFINE n == Len(v)
           begin == ElementBegin(e, Len(out.bits))
           L == ElementLargest(e)
           good == \A k \in 1..n : ElementGood(e, v[k])
<1>1. n \in Nat
  BY DEF Sequence
<1>2. PICK f : /\ f[0] = out
               /\ \A k \in 1..n : f[k] = IF f[k - 1].err = "SUCCESS"
                                         THEN WriteNested(e, v[k], f[k - 1]) ELSE f[k - 1]
               /\ WriteArray(e, v, out) = f[n]
  BY <1>1, ElementsWrittenInTurn
<1>3. Len(out.bits) \in Nat /\ out.bits \in Buffers
  BY LenProperties DEF Writing, Buffers
<1>4. begin \in Nat /\ Len(out.bits) <= begin /\ begin = Align(Len(out.bits)) /\ L \in Nat
  BY <1>3, ElementEnds DEF ElementBegin
<1> DEFINE Good(k) == /\ WroteMore(out, f[k], begin + k * L)
                      /\ f[k].err = "SUCCESS" => Align(Len(f[k].bits)) <= begin + k * L
                      /\ good => f[k].err = "SUCCESS"
           A == {k \in 0..n : Good(k)}
<1> HIDE DEF begin, L
<1>5. 0 \in A
  <2>1. begin + 0 * L = begin
    BY <1>4
  <2>2. WroteMore(out, out, begin)
    BY <1>3, <1>4, BeginsItself DEF WroteMore
  <2>3. Good(0)
    BY <1>2, <1>4, <2>1, <2>2
  <2> HIDE DEF Good
  <2> QED
    BY <1>1, <2>3
<1>6. ASSUME NEW k \in 0..(n - 1), k \in A
      PROVE  k + 1 \in A
  <2>1. Good(k) /\ k + 1 \in 0..n /\ k + 1 \in 1..n /\ (k + 1) - 1 = k
    BY <1>1, <1>6
  <2>2. f[k + 1] = IF f[k].err = "SUCCESS" THEN WriteNested(e, v[k + 1], f[k]) ELSE f[k]
    BY ONLY <1>2, <2>1
  <2>3. /\ begin + k * L \in Nat /\ begin + (k + 1) * L \in Nat
        /\ begin + (k + 1) * L = (begin + k * L) + L
    BY ONLY <1>1, <1>4, k \in 0..(n - 1)
  <2>4. CASE f[k].err = "SUCCESS"
    <3>1. ElementWritten(e, v[k + 1], f[k], f[k + 1])
      <4>1. ElementObject(e, v[k + 1]) /\ Writing(f[k])
        BY <2>1 DEF WroteMore
      <4>2. ElementWritten(e, v[k + 1], f[k], WriteNested(e, v[k + 1], f[k]))
        BY <2>4, <4>1, NestedIsWritten
      <4> QED
        BY ONLY <2>2, <2>4, <4>2
    <3>2. WroteMore(f[k], f[k + 1], Align(Len(f[k].bits)) + L)
      BY ONLY <3>1 DEF ElementWritten, L
    <3>3. WroteMore(out, f[k + 1], Align(Len(f[k].bits)) + L)
      <4>1. WroteMore(out, f[k], begin + k * L)
        BY ONLY <2>1
      <4> QED
        BY <2>4, <3>2, <4>1, MoreAndMore
    <3>4. f[k + 1].err = "SUCCESS" => /\ Len(f[k + 1].bits) <= begin + (k + 1) * L
                                      /\ Align(Len(f[k + 1].bits)) = Len(f[k + 1].bits)
      <4>1. SUFFICES ASSUME f[k + 1].err = "SUCCESS"
                     PROVE  /\ Len(f[k + 1].bits) <= begin + (k + 1) * L
                            /\ Align(Len(f[k + 1].bits)) = Len(f[k + 1].bits)
        OBVIOUS
      <4>2. Len(f[k + 1].bits) \in Nat /\ Len(f[k].bits) \in Nat
        <5>1. f[k + 1].bits \in Buffers /\ f[k].bits \in Buffers
          BY <2>1, <3>2 DEF WroteMore, Writing
        <5> QED
          BY <5>1, LenProperties DEF Buffers
      <4>3. Len(f[k + 1].bits) <= Align(Len(f[k].bits)) + L
        BY ONLY <3>2, <4>1 DEF WroteMore
      <4>4. Align(Len(f[k].bits)) \in Nat /\ Align(Len(f[k].bits)) <= begin + k * L
        BY <2>1, <2>4, <4>2, AlignIsNextByte
      <4>5. Len(f[k + 1].bits) % 8 = 0
        BY ONLY <3>1, <4>1 DEF ElementWritten
      <4> QED
        <5>1. Align(Len(f[k + 1].bits)) = Len(f[k + 1].bits)
          BY <4>2, <4>5, AlignIsNextByte
        <5> DEFINE len == Len(f[k + 1].bits)
                   a == Align(Len(f[k].bits))
                   here == begin + k * L
                   there == begin + (k + 1) * L
        <5>3. /\ len \in Nat /\ a \in Nat /\ here \in Nat /\ L \in Nat /\ len <= a + L
              /\ a <= here /\ there = here + L
          BY ONLY <1>4, <2>3, <4>2, <4>3, <4>4
        <5> HIDE DEF len, a, here, there
        <5>4. len <= there
          BY ONLY <5>3, FartherEnd
        <5>2. Len(f[k + 1].bits) <= begin + (k + 1) * L
          BY ONLY <5>4 DEF len, there
        <5> QED
          BY ONLY <5>1, <5>2
    <3>5. WroteMore(out, f[k + 1], begin + (k + 1) * L)
      BY ONLY <3>3, <3>4 DEF WroteMore
    <3>6. good => f[k + 1].err = "SUCCESS"
      BY ONLY <2>1, <3>1 DEF ElementWritten
    <3>7. Good(k + 1)
      BY ONLY <3>4, <3>5, <3>6
    <3> HIDE DEF Good
    <3> QED
      BY ONLY <2>1, <3>7
  <2>5. CASE f[k].err # "SUCCESS"
    <3>1. f[k + 1] = f[k]
      BY ONLY <2>2, <2>5
    <3>2. Good(k + 1)
      BY ONLY <2>1, <2>5, <3>1 DEF WroteMore
    <3> HIDE DEF Good
    <3> QED
      BY ONLY <2>1, <3>2
  <2> QED
    BY <2>4, <2>5
<1> HIDE DEF A
<1>7. n \in A
  <2>1. \A k \in 0..n : k \in A
    BY <1>1, <1>5, <1>6, InductionUpTo
  <2> QED
    BY <1>1, <2>1
<1>8. Good(n)
  BY <1>7 DEF A
<1> QED
  BY ONLY <1>2, <1>8 DEF ArrayWritten, begin, L

(* and there is no other array. *)
LEMMA ArrayIsWritten ==
  ASSUME NestedWrites, NEW out, Writing(out), out.err = "SUCCESS", NEW e, Element(e),
         NEW v, Sequence(v), \A k \in 1..Len(v) : ElementObject(e, v[k])
  PROVE  ArrayWritten(e, v, out, WriteArray(e, v, out))
<1>1. CASE IsNumber(e)
  BY <1>1, NumbersWritten
<1>2. CASE IsNested(e) /\ ~Scalar(e)
  BY <1>2, ElementsWritten
<1> QED
  BY <1>1, <1>2, ElementKinds

-----------------------------------------------------------------------------
(* More elements are not shorter.                                          *)
LEMMA MoreElements ==
  ASSUME NEW m \in Nat, NEW n \in Nat, NEW L \in Nat, m <= n
  PROVE  m * L \in Nat /\ n * L \in Nat /\ m * L <= n * L
<1>1. PICK d \in Nat : n = m + d
  <2>1. n = m + (n - m) /\ n - m \in Nat
    OBVIOUS
  <2> QED
    BY <2>1
<1>2. n * L = m * L + d * L
  BY <1>1
<1>3. m * L \in Nat /\ d * L \in Nat
  OBVIOUS
<1> QED
  BY <1>2, <1>3

(* The prefix of an array is shorter than an array, *)
LEMMA PrefixBits ==
  ASSUME NEW e, NEW n \in Nat
  PROVE  /\ PrefixWidth(e) \in Nat
         /\ BitsOf(n, PrefixWidth(e)) \in Buffers
         /\ Len(BitsOf(n, PrefixWidth(e))) = PrefixWidth(e)
<1>1. PrefixWidth(e) \in Nat /\ PrefixWidth(e) \in 0..31
  BY DEF PrefixWidth, LengthWidth
<1> QED
  BY <1>1, BitsOfNumber

(* and a member that begins later does not end before.                     *)
LEMMA MemberEnds ==
  ASSUME NestedWrites, NEW e, Member(e)
  PROVE  /\ \A off \in Nat : MemberEnd(e, off) \in Nat
         /\ \A a, b \in Nat : a <= b => MemberEnd(e, a) <= MemberEnd(e, b)
<1>1. CASE e.kind = "void"
  <2>1. e.width \in Nat
    <3>1. ~Element(e) /\ ~Array(e)
      BY ONLY <1>1 DEF Element, Array, Numbers, Halves, Float
    <3>2. e.width \in 1..64
      BY <3>1, Zenon DEF Member
    <3> QED
      BY <3>2
  <2>2. \A off : MemberEnd(e, off) = off + e.width
    BY ONLY <1>1 DEF MemberEnd, Array
  <2> QED
    BY ONLY <2>1, <2>2
<1>2. CASE IsArray(e) /\ e.kind # "void"
  <2> DEFINE w == PrefixWidth(e)
             L == e.capacity * ElementLargest(e.of)
  <2>1. \A off : MemberEnd(e, off) = ElementBegin(e.of, off + w) + L
    BY ONLY <1>2 DEF MemberEnd, IsArray
  <2>2. e.capacity \in Nat /\ w \in Nat
    <3>1. 0 \in Nat
      OBVIOUS
    <3> QED
      BY <1>2, <3>1, CapacityIsNat, PrefixBits
  <2>3. /\ ElementLargest(e.of) \in Nat
        /\ \A off \in Nat : ElementBegin(e.of, off) \in Nat
        /\ \A a, b \in Nat : a <= b => ElementBegin(e.of, a) <= ElementBegin(e.of, b)
    BY <1>2, ElementEnds DEF IsArray
  <2>4. L \in Nat
    BY ONLY <2>2, <2>3
  <2> HIDE DEF w, L
  <2>5. \A a \in Nat : a + w \in Nat
    BY ONLY <2>2
  <2>6. \A a, b \in Nat : a <= b => a + w <= b + w
    BY ONLY <2>2
  <2>7. ASSUME NEW a \in Nat, NEW b \in Nat, a <= b
        PROVE  MemberEnd(e, a) <= MemberEnd(e, b)
    <3>1. /\ ElementBegin(e.of, a + w) \in Nat /\ ElementBegin(e.of, b + w) \in Nat
          /\ ElementBegin(e.of, a + w) <= ElementBegin(e.of, b + w)
      BY ONLY <2>3, <2>5, <2>6, <2>7
    <3> QED
      BY ONLY <2>1, <2>4, <3>1
  <2>8. ASSUME NEW off \in Nat
        PROVE  MemberEnd(e, off) \in Nat
    BY ONLY <2>1, <2>3, <2>4, <2>5
  <2> QED
    BY <2>7, <2>8
<1>3. CASE Element(e) /\ ~Array(e) /\ e.kind # "void"
  <2>1. \A off : MemberEnd(e, off) = ElementBegin(e, off) + ElementLargest(e)
    BY ONLY <1>3 DEF MemberEnd
  <2>2. /\ ElementLargest(e) \in Nat
        /\ \A off \in Nat : ElementBegin(e, off) \in Nat
        /\ \A a, b \in Nat : a <= b => ElementBegin(e, a) <= ElementBegin(e, b)
    BY <1>3, ElementEnds
  <2> QED
    BY ONLY <2>1, <2>2
<1> QED
  <2>1. Element(e) => (Element(e) /\ ~Array(e) /\ e.kind # "void")
    BY ONLY TRUE DEF Element, Array, Numbers, Halves, Float
  <2> QED
    BY ONLY <1>1, <1>2, <1>3, <2>1, Member(e) DEF Member, IsArray

(* A member is written up to its end at most, or it is an array that       *)
(* claims too many elements.                                               *)
MemberWritten(e, v, out, after) ==
  /\ WroteMore(out, after, MemberEnd(e, Len(out.bits)))
  /\ MemberGood(e, v) => after.err = "SUCCESS"

(* what is in an array                                                     *)
LEMMA ArrayMember ==
  ASSUME NEW e, IsArray(e), NEW v
  PROVE  /\ MemberObject(e, v) <=> /\ Sequence(v)
                                   /\ e.kind = "fixed" => Len(v) = e.capacity
                                   /\ \A k \in 1..Len(v) : ElementObject(e.of, v[k])
         /\ MemberGood(e, v) => /\ MemberObject(e, v) /\ Len(v) <= e.capacity
                                /\ \A k \in 1..Len(v) : ElementGood(e.of, v[k])
<1>1. Array(e) /\ e.kind # "void"
  BY ONLY IsArray(e) DEF IsArray, Array
<1>2. MemberObject(e, v) = (/\ Sequence(v)
                            /\ e.kind = "fixed" => Len(v) = e.capacity
                            /\ \A k \in DOMAIN v : ElementObject(e.of, v[k]))
  BY ONLY <1>1 DEF MemberObject
<1>3. Sequence(v) => DOMAIN v = 1..Len(v)
  BY ONLY TRUE DEF Sequence
<1>4. MemberGood(e, v) => /\ MemberObject(e, v) /\ Len(v) <= e.capacity
                          /\ \A k \in DOMAIN v : ElementGood(e.of, v[k])
  BY ONLY <1>1 DEF MemberGood
<1> QED
  BY ONLY <1>2, <1>3, <1>4

(* An array with its length before it is written so, *)
LEMMA CountedIsWritten ==
  ASSUME NestedWrites, NEW out, Writing(out), out.err = "SUCCESS",
         NEW e, IsArray(e), ~Scalar(e), e.kind # "void", NEW v, MemberObject(e, v)
  PROVE  MemberWritten(e, v, out, Write(e, v, out))
<1> DEFINE prefix == BitsOf(Len(v), PrefixWidth(e))
           counted == Put(out, prefix)
           after == WriteArray(e.of, v, counted)
           off == Len(out.bits)
           w == PrefixWidth(e)
           L == ElementLargest(e.of)
<1>1. Write(e, v, out) = IF TooMany(Len(v), e.capacity) THEN Fail(out, "BAD_ARRAY_LENGTH")
                         ELSE after
  BY ONLY IsArray(e), ~Scalar(e), e.kind # "void" DEF Write, IsArray
<1>2. /\ Sequence(v) /\ \A k \in 1..Len(v) : ElementObject(e.of, v[k])
      /\ MemberGood(e, v) => /\ Len(v) <= e.capacity
                             /\ \A k \in 1..Len(v) : ElementGood(e.of, v[k])
  BY ArrayMember
<1>3. Len(v) \in Nat /\ e.capacity \in Nat /\ off \in Nat
  BY <1>2, CapacityIsNat, LenProperties DEF Sequence, Writing, Buffers
<1>4. CASE TooMany(Len(v), e.capacity)
  <2>1. ~MemberGood(e, v)
    BY ONLY <1>2, <1>3, <1>4 DEF TooMany
  <2>2. WroteMore(out, Fail(out, "BAD_ARRAY_LENGTH"), MemberEnd(e, Len(out.bits)))
    BY FailIsMore
  <2> QED
    BY ONLY <1>1, <1>4, <2>1, <2>2 DEF MemberWritten
<1>5. CASE ~TooMany(Len(v), e.capacity)
  <2>1. prefix \in Buffers /\ Len(prefix) = w /\ w \in Nat
    BY <1>3, PrefixBits
  <2> HIDE DEF prefix, w
  <2>2. /\ Writing(counted) /\ counted.err = "SUCCESS" /\ Len(counted.bits) = off + w
        /\ WroteMore(out, counted, off + w)
    <3>1. off + w = Len(out.bits) + Len(prefix) /\ Len(out.bits) + Len(prefix) <= off + w
      BY ONLY <1>3, <2>1
    <3> QED
      BY <2>1, <3>1, PutIsWritten, PutIsMore
  <2>3. Element(e.of)
    BY Zenon DEF IsArray
  <2> HIDE DEF counted
  <2>4. ArrayWritten(e.of, v, counted, after)
    BY <1>2, <2>2, <2>3, ArrayIsWritten
  <2>5. WroteMore(out, after, ElementBegin(e.of, off + w) + Len(v) * L)
    <3>1. WroteMore(counted, after, ElementBegin(e.of, off + w) + Len(v) * L)
      BY ONLY <2>2, <2>4 DEF ArrayWritten
    <3> QED
      BY <2>2, <3>1, MoreAndMore
  <2>6. ElementBegin(e.of, off + w) + Len(v) * L <= MemberEnd(e, off)
    <3> DEFINE begin == ElementBegin(e.of, off + w)
    <3>1. begin \in Nat /\ L \in Nat
      <4>1. off + w \in Nat
        BY ONLY <1>3, <2>1
      <4> QED
        BY <2>3, <4>1, ElementEnds
    <3>2. Len(v) <= e.capacity
      BY ONLY <1>3, <1>5 DEF TooMany
    <3>3. MemberEnd(e, off) = begin + e.capacity * L
      BY ONLY IsArray(e), e.kind # "void" DEF MemberEnd, IsArray, w
    <3> HIDE DEF begin, L
    <3>4. Len(v) * L \in Nat /\ e.capacity * L \in Nat /\ Len(v) * L <= e.capacity * L
      BY ONLY <1>3, <3>1, <3>2, MoreElements
    <3> DEFINE here == Len(v) * L
               there == e.capacity * L
    <3>5. here \in Nat /\ there \in Nat /\ here <= there /\ MemberEnd(e, off) = begin + there
      BY ONLY <3>3, <3>4
    <3> HIDE DEF here, there
    <3>6. begin + here <= MemberEnd(e, off)
      BY ONLY <3>1, <3>5
    <3> QED
      BY ONLY <3>6 DEF begin, here, L
  <2> HIDE DEF after, off, L
  <2>7. WroteMore(out, after, MemberEnd(e, off))
    <3>1. after.err = "SUCCESS" => /\ Len(after.bits) \in Nat
                                   /\ Len(after.bits) <= ElementBegin(e.of, off + w) + Len(v) * L
      <4>1. after.bits \in Buffers
        BY ONLY <2>5 DEF WroteMore, Writing
      <4> QED
        BY <2>5, <4>1, LenProperties DEF WroteMore, Buffers
    <3>2. /\ ElementBegin(e.of, off + w) + Len(v) * L \in Nat
          /\ MemberEnd(e, off) \in Nat
      <4>1. off + w \in Nat
        BY ONLY <1>3, <2>1
      <4>2. ElementBegin(e.of, off + w) \in Nat /\ L \in Nat
        BY <2>3, <4>1, ElementEnds DEF L
      <4>3. Member(e)
        BY DEF Member, IsArray
      <4>4. MemberEnd(e, off) \in Nat
        BY <1>3, <4>3, MemberEnds
      <4> QED
        BY ONLY <1>3, <4>2, <4>4
    <3> DEFINE end == ElementBegin(e.of, off + w) + Len(v) * L
    <3> HIDE DEF end
    <3>3. after.err = "SUCCESS" => Len(after.bits) <= MemberEnd(e, off)
      BY ONLY <2>6, <3>1, <3>2 DEF end
    <3> QED
      BY ONLY <2>5, <3>3 DEF WroteMore
  <2>8. MemberGood(e, v) => after.err = "SUCCESS"
    BY ONLY <1>2, <2>4 DEF ArrayWritten
  <2>9. Write(e, v, out) = after
    BY ONLY <1>1, <1>5
  <2> QED
    BY ONLY <2>7, <2>8, <2>9 DEF MemberWritten, off
<1> QED
  BY <1>4, <1>5

(* and every other member. *)
LEMMA MemberIsWritten ==
  ASSUME NestedWrites, NEW out, Writing(out), out.err = "SUCCESS",
         NEW e, Member(e), NEW v, MemberObject(e, v)
  PROVE  MemberWritten(e, v, out, Write(e, v, out))
<1> DEFINE off == Len(out.bits)
<1>0. off \in Nat
  BY LenProperties DEF Writing, Buffers
<1>1. CASE IsNumber(e) /\ ~Array(e) /\ e.kind # "void"
  <2> DEFINE bits == OnWire(e, v)
  <2>1. Scalar(e) /\ Write(e, v, out) = Put(out, bits)
    <3>1. Scalar(e)
      BY <1>1 DEF IsNumber
    <3> QED
      BY ONLY <1>1, <3>1 DEF Write
  <2>2. bits \in Buffers /\ Len(bits) = e.width
    <3>1. v \in InC(e)
      BY ONLY <1>1, <2>1, MemberObject(e, v) DEF MemberObject, ElementObject
    <3>2. e \in Numbers \cup Halves
      BY ONLY <1>1 DEF IsNumber
    <3> QED
      BY <3>1, <3>2, WireBits
  <2>3. MemberEnd(e, off) = off + e.width
    BY ONLY <1>1, <2>1 DEF MemberEnd, ElementBegin, ElementLargest
  <2> HIDE DEF bits
  <2>4. Len(out.bits) + Len(bits) <= MemberEnd(e, off)
    <3>1. Len(bits) \in Nat
      BY <2>2, LenProperties DEF Buffers
    <3> QED
      BY ONLY <1>0, <2>2, <2>3, <3>1
  <2>5. WroteMore(out, Put(out, bits), MemberEnd(e, off)) /\ Put(out, bits).err = "SUCCESS"
    BY <2>2, <2>4, PutIsMore, PutIsWritten
  <2> QED
    BY ONLY <2>1, <2>5 DEF MemberWritten
<1>2. CASE IsVoid(e) /\ ~Scalar(e) /\ ~Array(e)
  <2> DEFINE bits == Zeros(e.width)
  <2>1. e.width \in Nat /\ e.kind = "void"
    BY <1>2 DEF IsVoid
  <2>2. Write(e, v, out) = Put(out, bits)
    BY ONLY <1>2, <2>1 DEF Write
  <2>3. bits \in Buffers /\ Len(bits) = e.width
    BY <2>1, ZerosType
  <2>4. MemberEnd(e, off) = off + e.width
    BY ONLY <1>2, <2>1 DEF MemberEnd
  <2> HIDE DEF bits
  <2>5. Len(out.bits) + Len(bits) <= MemberEnd(e, off)
    BY ONLY <1>0, <2>1, <2>3, <2>4
  <2>6. WroteMore(out, Put(out, bits), MemberEnd(e, off)) /\ Put(out, bits).err = "SUCCESS"
    BY <2>3, <2>5, PutIsMore, PutIsWritten
  <2> QED
    BY ONLY <2>2, <2>6 DEF MemberWritten
<1>3. CASE IsArray(e) /\ ~Scalar(e) /\ e.kind # "void"
  BY <1>3, CountedIsWritten
<1>4. CASE IsNested(e) /\ ~Scalar(e) /\ ~Array(e) /\ e.kind # "void"
  <2>1. Write(e, v, out) = WriteNested(e, v, out)
    BY ONLY <1>4 DEF Write
  <2>2. ElementObject(e, v) /\ (MemberGood(e, v) => ElementGood(e, v))
    BY ONLY <1>4, MemberObject(e, v) DEF MemberObject, MemberGood
  <2>3. ElementWritten(e, v, out, WriteNested(e, v, out))
    BY <1>4, <2>2, NestedIsWritten
  <2>4. MemberEnd(e, off) = Align(off) + ElementLargest(e)
    BY ONLY <1>4 DEF MemberEnd, ElementBegin
  <2> QED
    BY ONLY <2>1, <2>2, <2>3, <2>4 DEF ElementWritten, MemberWritten
<1> QED
  BY <1>1, <1>2, <1>3, <1>4, MemberKinds
-----------------------------------------------------------------------------
(* The largest of some numbers.                                            *)
LEMMA LargestOf ==
  ASSUME NEW n \in Nat \ {0}, NEW f, \A k \in 1..n : f[k] \in Nat
  PROVE  \E j \in 1..n : \A k \in 1..n : f[k] <= f[j]
<1> DEFINE Good(m) == \E j \in 1..(m + 1) : \A k \in 1..(m + 1) : f[k] <= f[j]
           A == {m \in 0..(n - 1) : Good(m)}
<1>1. 0 \in A
  <2>1. f[1] <= f[1] /\ 1 \in 1..(0 + 1) /\ 0 \in 0..(n - 1)
    OBVIOUS
  <2>2. \A k \in 1..(0 + 1) : k = 1
    OBVIOUS
  <2> QED
    BY ONLY <2>1, <2>2
<1>2. ASSUME NEW m \in 0..((n - 1) - 1), m \in A
      PROVE  m + 1 \in A
  <2>1. m + 1 \in 0..(n - 1) /\ (m + 1) + 1 \in 1..n
    OBVIOUS
  <2>2. PICK j \in 1..(m + 1) : \A k \in 1..(m + 1) : f[k] <= f[j]
    BY <1>2
  <2>3. \A k \in 1..((m + 1) + 1) : k \in 1..(m + 1) \/ k = (m + 1) + 1
    OBVIOUS
  <2>4. \A k \in 1..(m + 1) : k \in 1..((m + 1) + 1) /\ k \in 1..n
    OBVIOUS
  <2>5. (m + 1) + 1 \in 1..((m + 1) + 1)
    OBVIOUS
  <2> DEFINE last == (m + 1) + 1
  <2>6. f[j] \in Nat /\ f[last] \in Nat /\ \A k \in 1..(m + 1) : f[k] \in Nat
    BY <2>1, <2>4
  <2>7. CASE f[last] <= f[j]
    <3>1. \A k \in 1..last : f[k] <= f[j]
      BY ONLY <2>2, <2>3, <2>7
    <3>2. Good(m + 1)
      BY ONLY <2>2, <2>4, <3>1
    <3> QED
      BY ONLY <2>1, <3>2
  <2>8. CASE ~(f[last] <= f[j])
    <3>1. f[j] <= f[last] /\ f[last] <= f[last]
      BY ONLY <2>6, <2>8
    <3>2. \A k \in 1..last : f[k] <= f[last]
      <4>1. ASSUME NEW k \in 1..(m + 1)
            PROVE  f[k] <= f[last]
        <5>1. f[k] <= f[j] /\ f[k] \in Nat
          BY ONLY <2>2, <2>6, k \in 1..(m + 1)
        <5> QED
          BY ONLY <2>6, <3>1, <5>1
      <4> QED
        BY ONLY <2>3, <3>1, <4>1
    <3>3. Good(m + 1)
      BY ONLY <2>5, <3>2
    <3> QED
      BY ONLY <2>1, <3>3
  <2> QED
    BY <2>7, <2>8
<1> HIDE DEF A
<1>3. \A k \in 0..(n - 1) : k \in A
  <2>1. n - 1 \in Nat
    OBVIOUS
  <2> QED
    BY ONLY <1>1, <1>2, <2>1, InductionUpTo
<1>4. Good(n - 1)
  <2>1. n - 1 \in 0..(n - 1)
    OBVIOUS
  <2>2. n - 1 \in A
    BY ONLY <1>3, <2>1
  <2> QED
    BY ONLY <2>2 DEF A
<1>5. (n - 1) + 1 = n
  OBVIOUS
<1> QED
  BY ONLY <1>4, <1>5

(* The members of the largest struct end one after the other.              *)
LEMMA EndsInTurn ==
  ASSUME NEW t, Len(t.members) \in Nat, t.kind = "struct"
  PROVE  \E f : /\ f[0] = 0
                /\ \A k \in 1..Len(t.members) : f[k] = MemberEnd(t.members[k], f[k - 1])
                /\ Largest(t) = Align(f[Len(t.members)])
<1> DEFINE n == Len(t.members)
           after(f, k) == IF k = 0 THEN 0 ELSE MemberEnd(t.members[k], f[k - 1])
           taken == CHOOSE f : f = [k \in 0..n |-> after(f, k)]
           what == [do |-> "end", of |-> t.members]
<1>1. Largest(t) = Align(taken[n])
  BY DEF Largest
<1>2. \A k, so_far : Turn(what, k, so_far) = MemberEnd(t.members[k], so_far)
  BY DEF Turn
<1> HIDE DEF what, n
<1>3. \E f : Turns(f, n, 0, what)
  <2>1. n \in Nat
    BY DEF n
  <2> QED
    BY ONLY <2>1, TurnsTaken, Zenon
<1>4. \E f : f = [k \in 0..n |-> after(f, k)]
  <2>1. PICK f : f = [k \in 0..n |-> IF k = 0 THEN 0 ELSE Turn(what, k, f[k - 1])]
    BY <1>3, Zenon DEF Turns
  <2>2. \A k : (IF k = 0 THEN 0 ELSE Turn(what, k, f[k - 1])) = after(f, k)
    BY ONLY <1>2
  <2>3. f = [k \in 0..n |-> after(f, k)]
    BY ONLY <2>1, <2>2, Zenon
  <2> QED
    BY <2>3, Zenon
<1>5. taken = [k \in 0..n |-> after(taken, k)]
  BY ONLY <1>4, Zenon
<1> HIDE DEF taken
<1>6. taken[0] = 0
  <2>1. 0 \in 0..n
    BY DEF n
  <2> QED
    BY ONLY <1>5, <2>1
<1>7. ASSUME NEW k \in 1..n
      PROVE  taken[k] = MemberEnd(t.members[k], taken[k - 1])
  <2>1. k \in 0..n /\ k # 0
    BY DEF n
  <2> QED
    BY ONLY <1>5, <2>1
<1> QED
  BY <1>1, <1>6, <1>7 DEF n

(* and the largest union is that of its largest option.                    *)
LEMMA UnionEnds ==
  ASSUME NestedWrites, NEW t, Schema(t), t.kind = "union"
  PROVE  /\ Largest(t) \in Nat
         /\ \A k \in DOMAIN t.members : Align(MemberEnd(t.members[k], 8)) <= Largest(t)
<1> DEFINE n == Len(t.members)
           f == [k \in 1..n |-> Align(MemberEnd(t.members[k], 8))]
           sizes == {Align(MemberEnd(t.members[k], 8)) : k \in DOMAIN t.members}
<1>1. /\ n \in Nat \ {0} /\ DOMAIN t.members = 1..n
      /\ \A k \in 1..n : Member(t.members[k])
  <2>1. n \in 1..256
    BY Zenon DEF Schema
  <2>3. DOMAIN t.members = 1..n /\ \A k \in DOMAIN t.members : Member(t.members[k])
    BY Zenon DEF Schema
  <2> HIDE DEF n
  <2>4. n \in Nat \ {0}
    BY ONLY <2>1
  <2> QED
    BY ONLY <2>3, <2>4
<1>2. \A k \in 1..n : f[k] \in Nat /\ f[k] = Align(MemberEnd(t.members[k], 8))
  <2>1. ASSUME NEW k \in 1..n
        PROVE  Align(MemberEnd(t.members[k], 8)) \in Nat
    <3>1. Member(t.members[k]) /\ 8 \in Nat
      BY <1>1
    <3>2. MemberEnd(t.members[k], 8) \in Nat
      BY <3>1, MemberEnds
    <3> QED
      BY <3>2, AlignIsNextByte
  <2> QED
    BY <2>1
<1>3. Largest(t) = CHOOSE m \in sizes : \A o \in sizes : o <= m
  BY ONLY t.kind = "union" DEF Largest
<1> HIDE DEF n, f
<1>4. sizes = {f[k] : k \in 1..n}
  BY ONLY <1>1, <1>2
<1>5. PICK j \in 1..n : \A k \in 1..n : f[k] <= f[j]
  BY ONLY <1>1, <1>2, LargestOf
<1> HIDE DEF sizes
<1>6. \E m \in sizes : \A o \in sizes : o <= m
  BY ONLY <1>4, <1>5
<1>7. Largest(t) \in sizes /\ \A o \in sizes : o <= Largest(t)
  BY ONLY <1>3, <1>6
<1> QED
  BY ONLY <1>1, <1>2, <1>4, <1>7

(* So there is an end for every member that is there.                      *)
LEMMA MembersEnd ==
  ASSUME NestedWrites, NEW t, Schema(t), NEW tag, t.kind = "union" => tag \in DOMAIN t.members
  PROVE  \E end : /\ end[0] = IF t.kind = "union" THEN 8 ELSE 0
                  /\ \A k \in 0..Len(Present(t, tag)) : end[k] \in Nat
                  /\ \A k \in 1..Len(Present(t, tag)) :
                       end[k] = MemberEnd(Present(t, tag)[k], end[k - 1])
                  /\ Largest(t) \in Nat /\ Align(end[Len(Present(t, tag))]) <= Largest(t)
<1> DEFINE n == Len(Present(t, tag))
<1>1. n \in Nat /\ \A k \in 1..n : Member(Present(t, tag)[k])
  BY PresentMembers
<1>2. CASE t.kind = "struct"
  <2>1. Present(t, tag) = t.members
    BY <1>2, Zenon DEF Present
  <2>2. PICK f : /\ f[0] = 0
                 /\ \A k \in 1..n : f[k] = MemberEnd(t.members[k], f[k - 1])
                 /\ Largest(t) = Align(f[n])
    BY <1>1, <1>2, <2>1, EndsInTurn
  <2> DEFINE A == {k \in 0..n : f[k] \in Nat}
  <2>3. 0 \in A
    BY <1>1, <2>2
  <2>4. ASSUME NEW k \in 0..(n - 1), k \in A
        PROVE  k + 1 \in A
    <3>1. k + 1 \in 0..n /\ k + 1 \in 1..n /\ (k + 1) - 1 = k /\ f[k] \in Nat
      BY <1>1, <2>4
    <3>2. f[k + 1] = MemberEnd(t.members[k + 1], f[k]) /\ Member(t.members[k + 1])
      BY ONLY <1>1, <2>1, <2>2, <3>1
    <3>3. f[k + 1] \in Nat
      BY <3>1, <3>2, MemberEnds
    <3> QED
      BY ONLY <3>1, <3>3
  <2> HIDE DEF A
  <2>5. \A k \in 0..n : k \in A
    BY ONLY <1>1, <2>3, <2>4, InductionUpTo
  <2>6. \A k \in 0..n : f[k] \in Nat
    BY ONLY <2>5 DEF A
  <2>7. Largest(t) \in Nat /\ Align(f[n]) <= Largest(t)
    <3>1. f[n] \in Nat
      BY ONLY <1>1, <2>6
    <3>2. Align(f[n]) \in Nat
      BY ONLY <3>1, AlignIsNextByte
    <3> QED
      BY ONLY <2>2, <3>2
  <2> QED
    BY ONLY <1>2, <2>1, <2>2, <2>6, <2>7
<1>3. CASE t.kind # "struct"
  <2>1. t.kind = "union" /\ tag \in DOMAIN t.members /\ n = 1
    <3>1. t.kind = "union"
      BY ONLY Schema(t), <1>3 DEF Schema
    <3> QED
      BY <1>3, <3>1, PresentMembers, SMTT(30)
  <2>2. Present(t, tag)[1] = t.members[tag]
    BY ONLY <1>3 DEF Present
  <2> DEFINE last == MemberEnd(t.members[tag], 8)
             end == [k \in 0..1 |-> IF k = 0 THEN 8 ELSE last]
  <2>3. last \in Nat /\ Align(last) <= Largest(t) /\ Largest(t) \in Nat
    <3>1. Member(t.members[tag]) /\ 8 \in Nat
      BY <1>1, <2>1, <2>2
    <3> QED
      BY <2>1, <3>1, MemberEnds, UnionEnds
  <2>4. end[0] = 8 /\ end[1] = last
    BY ONLY TRUE
  <2> HIDE DEF end
  <2>5. \A k \in 0..1 : end[k] \in Nat
    <3>1. \A k \in 0..1 : k = 0 \/ k = 1
      BY ONLY TRUE
    <3> HIDE DEF last
    <3> QED
      BY ONLY <2>3, <2>4, <3>1
  <2>6. \A k \in 1..1 : end[k] = MemberEnd(Present(t, tag)[k], end[k - 1])
    <3>1. \A k \in 1..1 : k = 1 /\ k - 1 = 0
      BY ONLY TRUE
    <3> QED
      BY ONLY <2>2, <2>4, <3>1
  <2>7. end[0] = IF t.kind = "union" THEN 8 ELSE 0
    BY ONLY <2>1, <2>4
  <2> HIDE DEF last
  <2> QED
    BY ONLY <2>1, <2>3, <2>4, <2>5, <2>6, <2>7
<1> QED
  BY <1>2, <1>3
-----------------------------------------------------------------------------
(* The members that are there, as an object has them.                      *)
ObjectMembers(t, v) ==
  \A k \in 1..Len(Present(t, v.tag)) : MemberObject(Present(t, v.tag)[k], Values(t, v)[k])

GoodMembers(t, v) ==
  \A k \in 1..Len(Present(t, v.tag)) : MemberGood(Present(t, v.tag)[k], Values(t, v)[k])

(* An object has the members of its type. *)
LEMMA ObjectHasMembers ==
  ASSUME NEW t, Schema(t), NEW v, Object(t, v)
  PROVE  ObjectMembers(t, v) /\ (t.kind = "union" => v.tag \in DOMAIN t.members)
<1>1. t.kind = "union" => v.tag \in DOMAIN t.members
  BY Zenon DEF Object
<1>2. DOMAIN Present(t, v.tag) = 1..Len(Present(t, v.tag))
  BY <1>1, PresentMembers
<1>3. \A k \in DOMAIN Present(t, v.tag) : MemberObject(Present(t, v.tag)[k], Values(t, v)[k])
  BY Zenon DEF Object
<1> QED
  BY ONLY <1>1, <1>2, <1>3 DEF ObjectMembers

(* The tag of a union is a byte before its member.                         *)
WrittenTag(t, tag) == IF t.kind = "union" THEN Put(Blank, BitsOf(tag - 1, 8)) ELSE Blank

(* That is where writing begins. *)
LEMMA WritingBegins ==
  ASSUME NEW t, NEW tag, Schema(t), t.kind = "union" => tag \in DOMAIN t.members
  PROVE  /\ Writing(WrittenTag(t, tag)) /\ WrittenTag(t, tag).err = "SUCCESS"
         /\ Len(WrittenTag(t, tag).bits) = IF t.kind = "union" THEN 8 ELSE 0
         /\ WrittenTag(t, tag).bits = IF t.kind = "union" THEN BitsOf(tag - 1, 8) ELSE <<>>
<1>1. Writing(Blank) /\ Blank.err = "SUCCESS" /\ Len(Blank.bits) = 0 /\ Blank.bits = <<>>
  BY DEF Writing, Blank, WriteErrors, Buffers
<1>2. CASE t.kind = "union"
  <2>1. tag - 1 \in Nat
    <3>1. DOMAIN t.members = 1..Len(t.members)
      BY Zenon DEF Schema
    <3> QED
      BY ONLY <1>2, <3>1, t.kind = "union" => tag \in DOMAIN t.members
  <2> DEFINE bits == BitsOf(tag - 1, 8)
  <2>2. bits \in Buffers /\ Len(bits) = 8
    <3>1. 8 \in 0..31
      OBVIOUS
    <3> QED
      BY ONLY <2>1, <3>1, BitsOfNumber
  <2> HIDE DEF bits
  <2>3. /\ Writing(Put(Blank, bits)) /\ Put(Blank, bits).err = "SUCCESS"
        /\ Len(Put(Blank, bits).bits) = Len(Blank.bits) + Len(bits)
        /\ Put(Blank, bits).bits = Blank.bits \o bits
    BY <1>1, <2>2, PutIsWritten, Zenon
  <2>4. Blank.bits \o bits = bits
    <3>1. <<>> \o bits = bits
      BY <2>2, ConcatEmptySeq DEF Buffers
    <3> QED
      BY ONLY <1>1, <3>1
  <2>5. WrittenTag(t, tag) = Put(Blank, bits)
    BY <1>2 DEF WrittenTag, bits
  <2>6. BitsOf(tag - 1, 8) = bits
    BY DEF bits
  <2> QED
    BY ONLY <1>1, <1>2, <2>2, <2>3, <2>4, <2>5, <2>6
<1>3. CASE t.kind # "union"
  <2>1. WrittenTag(t, tag) = Blank
    BY <1>3 DEF WrittenTag
  <2> QED
    BY ONLY <1>1, <1>3, <2>1
<1> QED
  BY <1>2, <1>3

(* The members are written up to the end of the largest object at most.    *)
LEMMA MembersWritten ==
  ASSUME NestedWrites, NEW t, Schema(t), NEW v, Object(t, v)
  PROVE  LET out == WriteMembers(t, v.tag, Values(t, v))
         IN /\ Writing(out)
            /\ out.err = "SUCCESS" => Align(Len(out.bits)) <= Largest(t)
            /\ GoodMembers(t, v) => out.err = "SUCCESS"
<1> DEFINE present == Present(t, v.tag)
           n == Len(present)
           values == Values(t, v)
           begin == WrittenTag(t, v.tag)
<1>1. ObjectMembers(t, v) /\ (t.kind = "union" => v.tag \in DOMAIN t.members)
  BY ObjectHasMembers
<1>2. n \in Nat /\ \A k \in 1..n : Member(present[k])
  BY <1>1, PresentMembers
<1>3. \A k \in 1..n : MemberObject(present[k], values[k])
  BY <1>1, Zenon DEF ObjectMembers
<1>4. Writing(begin) /\ begin.err = "SUCCESS" /\ Len(begin.bits) = IF t.kind = "union" THEN 8 ELSE 0
  BY <1>1, WritingBegins
<1>5. PICK f : /\ f[0] = begin
               /\ \A k \in 1..n : f[k] = IF f[k - 1].err = "SUCCESS"
                                         THEN Write(present[k], values[k], f[k - 1]) ELSE f[k - 1]
               /\ WriteMembers(t, v.tag, values) = f[n]
  BY <1>2, MembersWrittenInTurn DEF WrittenTag
<1>6. PICK end : /\ end[0] = IF t.kind = "union" THEN 8 ELSE 0
                 /\ \A k \in 0..n : end[k] \in Nat
                 /\ \A k \in 1..n : end[k] = MemberEnd(present[k], end[k - 1])
                 /\ Largest(t) \in Nat /\ Align(end[n]) <= Largest(t)
  BY <1>1, MembersEnd
<1> DEFINE good == \A k \in 1..n : MemberGood(present[k], values[k])
           Good(k) == /\ Writing(f[k])
                      /\ f[k].err = "SUCCESS" => Len(f[k].bits) <= end[k]
                      /\ good => f[k].err = "SUCCESS"
           A == {k \in 0..n : Good(k)}
<1>7. GoodMembers(t, v) <=> good
  BY Zenon DEF GoodMembers
<1> HIDE DEF present, values, n, begin
<1>8. 0 \in A
  <2>1. Good(0)
    BY ONLY <1>4, <1>5, <1>6
  <2> HIDE DEF Good
  <2> QED
    BY ONLY <1>2, <2>1
<1>9. ASSUME NEW k \in 0..(n - 1), k \in A
      PROVE  k + 1 \in A
  <2>1. Good(k) /\ k + 1 \in 0..n /\ k + 1 \in 1..n /\ (k + 1) - 1 = k
    BY ONLY <1>2, <1>9, k \in 0..(n - 1)
  <2> DEFINE e == present[k + 1]
             w == values[k + 1]
  <2>2. /\ f[k + 1] = IF f[k].err = "SUCCESS" THEN Write(e, w, f[k]) ELSE f[k]
        /\ end[k + 1] = MemberEnd(e, end[k]) /\ Member(e) /\ MemberObject(e, w)
    BY ONLY <1>2, <1>3, <1>5, <1>6, <2>1
  <2>3. good => MemberGood(e, w)
    BY ONLY <2>1
  <2> HIDE DEF e, w
  <2>4. CASE f[k].err = "SUCCESS"
    <3>1. MemberWritten(e, w, f[k], f[k + 1])
      <4>1. Writing(f[k])
        BY ONLY <2>1
      <4>2. MemberWritten(e, w, f[k], Write(e, w, f[k]))
        BY <2>2, <2>4, <4>1, MemberIsWritten
      <4> QED
        BY ONLY <2>2, <2>4, <4>2
    <3>2. WroteMore(f[k], f[k + 1], MemberEnd(e, Len(f[k].bits)))
      BY ONLY <3>1 DEF MemberWritten
    <3>3. Writing(f[k + 1])
      BY ONLY <3>2 DEF WroteMore
    <3>4. f[k + 1].err = "SUCCESS" => Len(f[k + 1].bits) <= end[k + 1]
      <4>1. Len(f[k].bits) \in Nat /\ Len(f[k + 1].bits) \in Nat
        <5>1. f[k].bits \in Buffers /\ f[k + 1].bits \in Buffers
          BY ONLY <2>1, <3>3 DEF Writing
        <5> QED
          BY <5>1, LenProperties DEF Buffers
      <4>2. Len(f[k].bits) <= end[k] /\ end[k] \in Nat
        BY ONLY <1>6, <2>1, <2>4, k \in 0..(n - 1), <1>2
      <4>3. /\ MemberEnd(e, Len(f[k].bits)) \in Nat /\ MemberEnd(e, end[k]) \in Nat
            /\ MemberEnd(e, Len(f[k].bits)) <= MemberEnd(e, end[k])
        BY <2>2, <4>1, <4>2, MemberEnds
      <4>4. f[k + 1].err = "SUCCESS" => Len(f[k + 1].bits) <= MemberEnd(e, Len(f[k].bits))
        BY ONLY <3>2 DEF WroteMore
      <4> QED
        BY ONLY <2>2, <4>1, <4>3, <4>4
    <3>5. good => f[k + 1].err = "SUCCESS"
      BY ONLY <2>3, <3>1 DEF MemberWritten
    <3>6. Good(k + 1)
      BY ONLY <3>3, <3>4, <3>5
    <3> HIDE DEF Good
    <3> QED
      BY ONLY <2>1, <3>6
  <2>5. CASE f[k].err # "SUCCESS"
    <3>1. f[k + 1] = f[k]
      BY ONLY <2>2, <2>5
    <3>2. Good(k + 1)
      BY ONLY <2>1, <2>5, <3>1
    <3> HIDE DEF Good
    <3> QED
      BY ONLY <2>1, <3>2
  <2> QED
    BY <2>4, <2>5
<1> HIDE DEF A
<1>10. Good(n)
  <2>1. \A k \in 0..n : k \in A
    BY ONLY <1>2, <1>8, <1>9, InductionUpTo
  <2>2. n \in A
    BY ONLY <1>2, <2>1
  <2> QED
    BY ONLY <2>2 DEF A
<1>11. f[n].err = "SUCCESS" => Align(Len(f[n].bits)) <= Largest(t)
  <2>1. SUFFICES ASSUME f[n].err = "SUCCESS"
                 PROVE  Align(Len(f[n].bits)) <= Largest(t)
    OBVIOUS
  <2> DEFINE len == Len(f[n].bits)
             last == end[n]
  <2>2. len \in Nat /\ last \in Nat /\ len <= last /\ Align(last) <= Largest(t) /\ Largest(t) \in Nat
    <3>1. f[n].bits \in Buffers
      BY ONLY <1>10 DEF Writing
    <3>2. len \in Nat
      BY <3>1, LenProperties DEF Buffers
    <3> QED
      BY ONLY <1>2, <1>6, <1>10, <2>1, <3>2
  <2> HIDE DEF len, last
  <2>3. Align(len) \in Nat /\ Align(last) \in Nat /\ Align(len) <= Align(last)
    BY ONLY <2>2 DEF Align
  <2> QED
    BY ONLY <2>2, <2>3 DEF len
<1> QED
  BY ONLY <1>5, <1>7, <1>10, <1>11 DEF values

-----------------------------------------------------------------------------
(* What the types in X promise, X promises as well: an object is written   *)
(* as whole bytes, no more than its type says, or it has an array that     *)
(* claims too many elements.                                               *)
Writes ==
  \A t : Schema(t) =>
    /\ Largest(t) \in Nat /\ t.extent \in 0..MaxSize
    /\ \A v : Object(t, v) =>
         LET out == Serialized(t, v)
         IN /\ out.err \in WriteErrors /\ out.bits \in Buffers
            /\ out.err = "SUCCESS" => /\ Len(out.bits) % 8 = 0
                                      /\ Len(out.bits) <= Largest(t)

(* An object of X is written whole; it is if its arrays are short enough. *)
LEMMA SerializedWhole ==
  ASSUME NestedWrites, NEW t, Schema(t), NEW v, Object(t, v)
  PROVE  LET out == Serialized(t, v)
         IN /\ out.err \in WriteErrors /\ out.bits \in Buffers
            /\ out.err = "SUCCESS" => /\ Len(out.bits) % 8 = 0
                                      /\ Len(out.bits) <= Largest(t)
            /\ GoodMembers(t, v) => out.err = "SUCCESS"
<1> DEFINE out == WriteMembers(t, v.tag, Values(t, v))
<1>1. ~(t.kind = "union" /\ v.tag \notin DOMAIN t.members)
  BY ObjectHasMembers
<1>2. Serialized(t, v) = PutAligned(out)
  BY <1>1, Zenon DEF Serialized
<1>3. /\ Writing(out)
      /\ out.err = "SUCCESS" => Align(Len(out.bits)) <= Largest(t)
      /\ GoodMembers(t, v) => out.err = "SUCCESS"
  BY MembersWritten
<1> HIDE DEF out
<1>4. /\ Writing(PutAligned(out)) /\ PutAligned(out).err = out.err
      /\ Len(PutAligned(out).bits) = Align(Len(out.bits))
  BY <1>3, AlignedIsWritten
<1>5. Align(Len(out.bits)) % 8 = 0
  <2>1. Len(out.bits) \in Nat
    BY <1>3, LenProperties DEF Writing, Buffers
  <2> QED
    BY <2>1, AlignIsNextByte
<1> QED
  BY ONLY <1>2, <1>3, <1>4, <1>5 DEF Writing

(* By SerializedWhole, and as large as the largest is. *)
THEOREM SerializedWrites == NestedWrites => Writes
<1> SUFFICES ASSUME NestedWrites, NEW t, Schema(t)
             PROVE  /\ Largest(t) \in Nat /\ t.extent \in 0..MaxSize
                    /\ \A v : Object(t, v) =>
                         LET out == Serialized(t, v)
                         IN /\ out.err \in WriteErrors /\ out.bits \in Buffers
                            /\ out.err = "SUCCESS" => /\ Len(out.bits) % 8 = 0
                                                      /\ Len(out.bits) <= Largest(t)
  BY Zenon DEF Writes
<1>1. t.extent \in 0..MaxSize
  BY Zenon DEF Schema
<1>2. Largest(t) \in Nat
  <2>1. CASE t.kind = "union"
    BY <2>1, UnionEnds
  <2>2. CASE t.kind # "union"
    <3>1. t.kind = "union" => t.kind \in DOMAIN t.members
      BY <2>2
    <3> QED
      BY <2>2, MembersEnd
  <2> QED
    BY <2>1, <2>2
<1>3. ASSUME NEW v, Object(t, v)
      PROVE  LET out == Serialized(t, v)
             IN /\ out.err \in WriteErrors /\ out.bits \in Buffers
                /\ out.err = "SUCCESS" => /\ Len(out.bits) % 8 = 0
                                          /\ Len(out.bits) <= Largest(t)
  BY ONLY <1>3, NestedWrites, Schema(t), SerializedWhole
<1> QED
  BY <1>1, <1>2, <1>3, Zenon
-----------------------------------------------------------------------------
(* The members of an object are read after the tag, if it has one.         *)
LEMMA ReadingBegins ==
  ASSUME NEW t
  PROVE  /\ Reading(Start) /\ Start.err = "SUCCESS" /\ Start.obj = <<>> /\ Start.off = 0
         /\ Reading(ReadTag(t)) /\ ReadTag(t).err = "SUCCESS" /\ ReadTag(t).obj = <<>>
         /\ ReadTag(t).off = IF t.kind = "union" THEN 8 ELSE 0
<1>1. Sequence(<<>>) /\ Len(<<>>) = 0
  BY DEF Sequence
<1>2. "SUCCESS" \in ReadErrors
  BY DEF ReadErrors
<1>3. Reading(Start) /\ Start.err = "SUCCESS" /\ Start.obj = <<>> /\ Start.off = 0
  BY ONLY <1>1, <1>2 DEF Reading, Start
<1> DEFINE off == IF t.kind = "union" THEN 8 ELSE 0
<1>4. off \in Nat
  OBVIOUS
<1> HIDE DEF off
<1>5. ReadTag(t) = [Start EXCEPT !.off = off]
  BY DEF ReadTag, off
<1>6. Reading(ReadTag(t)) /\ ReadTag(t).err = "SUCCESS" /\ ReadTag(t).obj = <<>> /\ ReadTag(t).off = off
  BY <1>3, <1>4, <1>5, MovedIsRead
<1> QED
  BY <1>3, <1>6 DEF off

(* All of them are good members, *)
MembersGood(t, tag, buf, at) ==
  /\ Reading(at)
  /\ at.err = "SUCCESS" =>
       /\ Len(at.obj) = Len(Present(t, tag))
       /\ \A k \in 1..Len(Present(t, tag)) : MemberGood(Present(t, tag)[k], at.obj[k])
  /\ AllZero(buf) => at.err = "SUCCESS"

(* The members are read, one after the other, *)
LEMMA MembersRead ==
  ASSUME NestedReads, NEW t, Schema(t), NEW tag, t.kind = "union" => tag \in DOMAIN t.members,
         NEW buf \in Buffers
  PROVE  MembersGood(t, tag, buf, ReadMembers(t, tag, buf))
<1> DEFINE present == Present(t, tag)
           n == Len(present)
<1>1. n \in Nat /\ \A k \in 1..n : Member(present[k])
  BY PresentMembers
<1>0. ~(t.kind = "union" /\ tag \notin DOMAIN t.members)
  OBVIOUS
<1>2. PICK f : /\ f[0] = ReadTag(t)
               /\ \A k \in 1..n : f[k] = IF f[k - 1].err = "SUCCESS"
                                         THEN Read(present[k], buf, f[k - 1]) ELSE f[k - 1]
               /\ ReadMembers(t, tag, buf) = f[n]
  BY <1>0, <1>1, MembersReadInTurn
<1>3. Reading(ReadTag(t)) /\ ReadTag(t).err = "SUCCESS" /\ ReadTag(t).obj = <<>>
  BY ReadingBegins
<1> DEFINE Good(k) == /\ Reading(f[k])
                      /\ f[k].err = "SUCCESS" =>
                           /\ Len(f[k].obj) = k
                           /\ \A i \in 1..k : MemberGood(present[i], f[k].obj[i])
                      /\ AllZero(buf) => f[k].err = "SUCCESS"
           A == {k \in 0..n : Good(k)}
<1> HIDE DEF present, n
<1>4. 0 \in A
  <2>1. Len(<<>>) = 0
    OBVIOUS
  <2>2. Good(0)
    BY ONLY <1>2, <1>3, <2>1
  <2> HIDE DEF Good
  <2> QED
    BY ONLY <1>1, <2>2
<1>5. ASSUME NEW k \in 0..(n - 1), k \in A
      PROVE  k + 1 \in A
  <2>1. Good(k) /\ k + 1 \in 0..n /\ k + 1 \in 1..n /\ (k + 1) - 1 = k
    BY ONLY <1>1, <1>5, k \in 0..(n - 1)
  <2> DEFINE e == present[k + 1]
  <2>2. /\ f[k + 1] = IF f[k].err = "SUCCESS" THEN Read(e, buf, f[k]) ELSE f[k]
        /\ Member(e)
    BY ONLY <1>1, <1>2, <2>1
  <2>3. CASE f[k].err = "SUCCESS"
    <3>1. OneMoreMember(e, buf, f[k], f[k + 1])
      <4> HIDE DEF e
      <4>1. OneMoreMember(e, buf, f[k], Read(e, buf, f[k]))
        BY <2>1, <2>2, <2>3, MemberRead
      <4> QED
        BY ONLY <2>2, <2>3, <4>1
    <3>2. Reading(f[k + 1]) /\ (AllZero(buf) => f[k + 1].err = "SUCCESS")
      BY ONLY <3>1 DEF OneMoreMember, ReadOneMore
    <3>3. ASSUME f[k + 1].err = "SUCCESS"
          PROVE  /\ Len(f[k + 1].obj) = k + 1
                 /\ \A i \in 1..(k + 1) : MemberGood(present[i], f[k + 1].obj[i])
      <4>1. Len(f[k].obj) = k /\ \A i \in 1..k : MemberGood(present[i], f[k].obj[i])
        BY ONLY <2>1, <2>3
      <4>2. /\ Len(f[k + 1].obj) = Len(f[k].obj) + 1
            /\ \A i \in 1..Len(f[k].obj) : f[k + 1].obj[i] = f[k].obj[i]
            /\ MemberGood(e, f[k + 1].obj[Len(f[k].obj) + 1])
        BY ONLY <3>1, <3>3 DEF OneMoreMember, ReadOneMore
      <4>3. \A i \in 1..(k + 1) : i \in 1..k \/ i = k + 1
        BY <1>1
      <4> QED
        BY ONLY <4>1, <4>2, <4>3
    <3>4. Good(k + 1)
      BY ONLY <3>2, <3>3
    <3> HIDE DEF Good
    <3> QED
      BY ONLY <2>1, <3>4
  <2>4. CASE f[k].err # "SUCCESS"
    <3>1. f[k + 1] = f[k]
      BY ONLY <2>2, <2>4
    <3>2. Good(k + 1)
      BY ONLY <2>1, <2>4, <3>1
    <3> HIDE DEF Good
    <3> QED
      BY ONLY <2>1, <3>2
  <2> QED
    BY <2>3, <2>4
<1> HIDE DEF A
<1>6. Good(n)
  <2>1. \A k \in 0..n : k \in A
    BY ONLY <1>1, <1>4, <1>5, InductionUpTo
  <2>2. n \in A
    BY ONLY <1>1, <2>1
  <2> QED
    BY ONLY <2>2 DEF A
<1> QED
  BY ONLY <1>2, <1>6 DEF MembersGood, present, n

(* so that they make an object.                                            *)
ObjectRead(t, tag, at) == IF t.kind = "struct" THEN at.obj ELSE [tag |-> tag, value |-> at.obj[1]]

(* What was read has the members that were read. *)
LEMMA MembersMakeObject ==
  ASSUME NEW t, Schema(t), NEW tag, t.kind = "union" => tag \in DOMAIN t.members,
         NEW at, Reading(at), Len(at.obj) = Len(Present(t, tag)),
         \A k \in 1..Len(Present(t, tag)) : MemberGood(Present(t, tag)[k], at.obj[k])
  PROVE  /\ Object(t, ObjectRead(t, tag, at)) /\ GoodMembers(t, ObjectRead(t, tag, at))
         /\ Present(t, ObjectRead(t, tag, at).tag) = Present(t, tag)
         /\ \A k \in 1..Len(Present(t, tag)) : Values(t, ObjectRead(t, tag, at))[k] = at.obj[k]
         /\ t.kind = "union" => ObjectRead(t, tag, at).tag = tag
<1> DEFINE v == ObjectRead(t, tag, at)
           present == Present(t, tag)
           n == Len(present)
<1>1. n \in Nat /\ DOMAIN present = 1..n /\ (t.kind # "struct" => n = 1)
  BY PresentMembers
<1>2. Present(t, v.tag) = present /\ (t.kind = "union" => v.tag \in DOMAIN t.members /\ v.tag = tag)
  <2>1. CASE t.kind = "struct"
    BY ONLY <2>1 DEF Present
  <2>2. CASE t.kind # "struct"
    <3>1. v.tag = tag
      BY ONLY <2>2 DEF ObjectRead
    <3> QED
      BY <3>1
  <2> QED
    BY <2>1, <2>2
<1>3. DOMAIN Values(t, v) = 1..n /\ \A k \in 1..n : Values(t, v)[k] = at.obj[k]
  <2>1. CASE t.kind = "struct"
    <3>1. Values(t, v) = at.obj
      BY ONLY <2>1 DEF Values, ObjectRead
    <3>2. DOMAIN at.obj = 1..Len(at.obj)
      BY ONLY Reading(at) DEF Reading, Sequence
    <3> QED
      BY <3>1, <3>2
  <2>2. CASE t.kind # "struct"
    <3>1. Values(t, v) = <<at.obj[1]>>
      BY ONLY <2>2 DEF Values, ObjectRead
    <3> DEFINE x == at.obj[1]
    <3>2. DOMAIN <<x>> = 1..1 /\ <<x>>[1] = x
      BY ONLY TRUE
    <3>3. n = 1
      BY ONLY <1>1, <2>2
    <3>4. \A k \in 1..1 : k = 1
      BY ONLY TRUE
    <3> HIDE DEF n, v
    <3> QED
      BY ONLY <3>1, <3>2, <3>3, <3>4
  <2> QED
    BY <2>1, <2>2
<1>4. \A k \in 1..n : MemberGood(present[k], Values(t, v)[k])
  BY ONLY <1>3, \A k \in 1..Len(Present(t, tag)) : MemberGood(Present(t, tag)[k], at.obj[k])
<1> HIDE DEF v, present, n
<1>5. GoodMembers(t, v)
  BY ONLY <1>2, <1>4 DEF GoodMembers, n
<1>6. Object(t, v)
  <2>1. \A k \in DOMAIN present : MemberObject(present[k], Values(t, v)[k])
    BY ONLY <1>1, <1>4 DEF MemberGood
  <2> QED
    BY ONLY <1>1, <1>2, <1>3, <2>1 DEF Object
<1> QED
  BY ONLY <1>2, <1>3, <1>5, <1>6 DEF v, present, n

-----------------------------------------------------------------------------
(* What the types in X promise, X promises as well: any payload is an      *)
(* object of the type, that can be written again, or it is an error; it is *)
(* not if there is nothing in it but zeros.                                *)
Reads ==
  \A t, buf : Schema(t) /\ buf \in Buffers =>
    LET read == Deserialized(t, buf)
    IN /\ read.err \in ReadErrors /\ read.size \in Nat
       /\ read.err = "SUCCESS" => /\ Object(t, read.obj)
                                  /\ Serialized(t, read.obj).err = "SUCCESS"
       /\ AllZero(buf) => read.err = "SUCCESS"

(* What is read are the members of the tag that is read. *)
THEOREM DeserializedReads == NestedReads /\ NestedWrites => Reads
<1> SUFFICES ASSUME NestedReads, NestedWrites, NEW t, NEW buf, Schema(t), buf \in Buffers
             PROVE  LET read == Deserialized(t, buf)
                    IN /\ read.err \in ReadErrors /\ read.size \in Nat
                       /\ read.err = "SUCCESS" => /\ Object(t, read.obj)
                                                  /\ Serialized(t, read.obj).err = "SUCCESS"
                       /\ AllZero(buf) => read.err = "SUCCESS"
  BY Zenon DEF Reads
<1> DEFINE tag == IF t.kind = "union" THEN TagRead(buf) ELSE 0
           at == ReadMembers(t, tag, buf)
           read == Deserialized(t, buf)
<1>1. /\ read.err = at.err /\ read.size = Lesser(Align(at.off), Len(buf)) \div 8
      /\ read.err = "SUCCESS" => read.obj = ObjectRead(t, tag, at)
  BY DEF Deserialized, Result, ObjectRead
<1>2. /\ Reading(at) /\ (AllZero(buf) => at.err = "SUCCESS")
      /\ at.err = "SUCCESS" => (t.kind = "union" => tag \in DOMAIN t.members) /\ MembersGood(t, tag, buf, at)
  <2>1. CASE t.kind = "union" => tag \in DOMAIN t.members
    <3> HIDE DEF tag, at, read
    <3>1. MembersGood(t, tag, buf, at)
      BY <2>1, MembersRead DEF at
    <3> QED
      BY ONLY <2>1, <3>1 DEF MembersGood
  <2>2. CASE ~(t.kind = "union" => tag \in DOMAIN t.members)
    <3>1. ~AllZero(buf)
      <4>1. SUFFICES ASSUME AllZero(buf)
                     PROVE  tag \in DOMAIN t.members
        BY <2>2
      <4>2. 0 \in Nat /\ 8 \in Nat
        OBVIOUS
      <4>3. NumberOf(Taken(buf, 0, 8)) = 0
        BY <4>1, <4>2, ZerosTaken
      <4>4. tag = 1
        <5>1. tag = NumberOf(Taken(buf, 0, 8)) + 1
          BY <2>2, Zenon DEF TagRead
        <5> QED
          BY ONLY <4>3, <5>1
      <4> DEFINE n == Len(t.members)
      <4>5. n \in 1..256
        BY <2>2, Zenon DEF Schema
      <4>6. DOMAIN t.members = 1..n
        BY Zenon DEF Schema
      <4> HIDE DEF n, tag
      <4>7. 1 \in 1..n
        BY ONLY <4>5
      <4> QED
        BY ONLY <4>4, <4>6, <4>7
    <3> HIDE DEF tag
    <3>2. at = Bad(Start, "BAD_UNION_TAG")
      BY <2>2 DEF ReadMembers
    <3> HIDE DEF at, read
    <3>3. "BAD_UNION_TAG" \in ReadErrors
      BY DEF ReadErrors
    <3>4. Reading(at) /\ at.err = "BAD_UNION_TAG"
      BY <3>2, <3>3, ReadingBegins, BadIsRead
    <3> QED
      BY ONLY <3>1, <3>4
  <2> QED
    BY <2>1, <2>2
<1> HIDE DEF tag, at, read
<1>3. read.size \in Nat
  <2> DEFINE end == Lesser(Align(at.off), Len(buf))
  <2>1. Align(at.off) \in Nat /\ Len(buf) \in Nat
    BY <1>2, AlignIsNextByte, LenProperties DEF Reading, Buffers
  <2>2. end \in Nat
    BY ONLY <2>1 DEF Lesser
  <2> HIDE DEF end
  <2>3. end \div 8 \in Nat
    BY <2>2, BytesOfBits
  <2> QED
    BY ONLY <1>1, <2>3 DEF end
<1>4. ASSUME read.err = "SUCCESS"
      PROVE  Object(t, read.obj) /\ Serialized(t, read.obj).err = "SUCCESS"
  <2>1. /\ Len(at.obj) = Len(Present(t, tag))
        /\ \A k \in 1..Len(Present(t, tag)) : MemberGood(Present(t, tag)[k], at.obj[k])
    BY ONLY <1>1, <1>2, <1>4 DEF MembersGood
  <2>2. Object(t, ObjectRead(t, tag, at)) /\ GoodMembers(t, ObjectRead(t, tag, at))
    BY <1>1, <1>2, <1>4, <2>1, MembersMakeObject
  <2>3. Object(t, read.obj) /\ GoodMembers(t, read.obj)
    BY ONLY <1>1, <1>4, <2>2
  <2> QED
    BY <2>3, SerializedWhole
<1>5. read.err \in ReadErrors
  BY ONLY <1>1, <1>2, SMTT(30) DEF Reading
<1> QED
  BY ONLY <1>1, <1>2, <1>3, <1>4, <1>5 DEF read

-----------------------------------------------------------------------------
(* Of the types in X: what a publisher fills in is an object.              *)
Pattern == [1..4 -> 0..255]

NestedFills ==
  \A t : NestedSchema(t) =>
    \A p \in Pattern, filling \in Fillings, o \in Nat :
      NestedObject(t, NestedFilled(t, p, filling, o))

(* A pattern turned is a pattern, *)
LEMMA TurnedPattern ==
  ASSUME NEW p \in Pattern, NEW k \in Nat
  PROVE  Turned(p, k) \in Pattern
<1>1. ASSUME NEW i \in 1..4
      PROVE  p[((i + k - 1) % 4) + 1] \in 0..255
  <2> DEFINE j == ((i + k - 1) % 4) + 1
  <2>1. j \in 1..4
    <3>1. i + k - 1 \in Nat
      OBVIOUS
    <3>2. \A n \in Nat : (n % 4) + 1 \in 1..4
      OBVIOUS
    <3> QED
      BY <3>1, <3>2
  <2> HIDE DEF j
  <2>2. p[j] \in 0..255
    BY <2>1 DEF Pattern
  <2> QED
    BY <2>2 DEF j
<1> QED
  BY ONLY <1>1 DEF Turned, Pattern

(* whose bits are bits. *)
LEMMA PatternBits ==
  ASSUME NEW p \in Pattern, NEW w \in Nat
  PROVE  Bits(p, w) \in [1..w -> {0, 1}]
<1>1. ASSUME NEW i \in 1..w
      PROVE  (p[(((i - 1) \div 8) % 4) + 1] \div 2^((i - 1) % 8)) % 2 \in {0, 1}
  <2> DEFINE j == (((i - 1) \div 8) % 4) + 1
             b == 2^((i - 1) % 8)
             byte == p[j]
  <2>1. i - 1 \in Nat
    OBVIOUS
  <2>2. j \in 1..4
    <3>1. (i - 1) \div 8 \in Nat
      BY <2>1, BytesOfBits
    <3>2. \A n \in Nat : (n % 4) + 1 \in 1..4
      OBVIOUS
    <3> QED
      BY <3>1, <3>2
  <2>3. b \in Nat \ {0}
    <3>1. (i - 1) % 8 \in 0..30
      BY <2>1
    <3> DEFINE k == (i - 1) % 8
    <3> HIDE DEF k
    <3>2. k \in 0..30
      BY <3>1 DEF k
    <3>3. 2^k \in Nat \ {0}
      BY <3>2, PowerOfTwo
    <3> QED
      BY <3>3 DEF k
  <2> HIDE DEF j
  <2>4. byte \in Nat
    <3>1. byte \in 0..255
      BY <2>2 DEF Pattern
    <3> QED
      BY <3>1
  <2> HIDE DEF b, byte
  <2>5. byte \div b \in Nat
    BY ONLY <2>3, <2>4
  <2>6. \A n \in Nat : n % 2 \in {0, 1}
    OBVIOUS
  <2>7. (byte \div b) % 2 \in {0, 1}
    BY ONLY <2>5, <2>6
  <2> QED
    BY ONLY <2>7 DEF b, byte, j
<1> QED
  BY ONLY <1>1 DEF Bits

(* A number filled in is one in memory, a type in X an object of it, *)
LEMMA ElementIsFilled ==
  ASSUME NestedFills, NEW e, Element(e), NEW p \in Pattern, NEW filling \in Fillings, NEW o \in Nat
  PROVE  ElementObject(e, ElementFilled(e, p, filling, o))
<1>1. CASE IsNumber(e)
  <2>1. Scalar(e) /\ MemoryWidth(e) \in Nat
    BY <1>1, NumberInMemory DEF IsNumber
  <2> DEFINE w == MemoryWidth(e)
  <2> HIDE DEF w
  <2>2. Bits(p, w) \in [1..w -> {0, 1}]
    BY <2>1, PatternBits DEF w
  <2> QED
    BY ONLY <2>1, <2>2 DEF ElementObject, ElementFilled, InC, w
<1>2. CASE IsNested(e) /\ ~Scalar(e)
  <2>1. NestedObject(Composite(e), NestedFilled(Composite(e), p, filling, o))
    BY <1>2, Zenon DEF IsNested, NestedFills
  <2> QED
    BY ONLY <1>2, <2>1 DEF ElementObject, ElementFilled
<1> QED
  BY <1>1, <1>2, ElementKinds

(* and an array filled in has elements that are. *)
LEMMA MemberIsFilled ==
  ASSUME NestedFills, NEW e, Member(e), NEW p \in Pattern, NEW filling \in Fillings, NEW o \in Nat
  PROVE  MemberObject(e, MemberFilled(e, p, filling, o))
<1>1. CASE IsVoid(e)
  <2>1. e.kind = "void" /\ ~Array(e)
    BY ONLY <1>1 DEF IsVoid, Array
  <2> QED
    BY ONLY <2>1 DEF MemberObject, MemberFilled
<1>2. CASE IsArray(e) /\ ~Scalar(e) /\ e.kind # "void"
  <2> DEFINE n == IF e.kind = "fixed" THEN e.capacity ELSE Count(filling, e.capacity)
             v == [k \in 1..n |-> ElementFilled(e.of, Turned(p, k - 1), filling, o)]
  <2>1. MemberFilled(e, p, filling, o) = v
    <3>1. Array(e)
      BY <1>2 DEF IsArray
    <3> QED
      BY ONLY <1>2, <3>1 DEF MemberFilled
  <2>2. n \in Nat /\ (e.kind = "fixed" => n = e.capacity)
    <3>1. e.capacity \in Nat
      BY <1>2, CapacityIsNat
    <3>2. Count(filling, e.capacity) \in Nat
      BY <3>1 DEF Count, Fillings
    <3> QED
      BY <3>1, <3>2
  <2> HIDE DEF n
  <2>3. \A k \in 1..n : ElementObject(e.of, v[k])
    <3>1. ASSUME NEW k \in 1..n
          PROVE  ElementObject(e.of, ElementFilled(e.of, Turned(p, k - 1), filling, o))
      <4>1. k - 1 \in Nat
        BY <2>2
      <4>2. Turned(p, k - 1) \in Pattern
        BY <4>1, TurnedPattern
      <4>3. Element(e.of)
        BY <1>2, Zenon DEF IsArray
      <4> QED
        BY <4>2, <4>3, ElementIsFilled
    <3> QED
      BY ONLY <3>1
  <2>4. v = [k \in 1..n |-> v[k]]
    BY ONLY TRUE
  <2> HIDE DEF v
  <2>5. Sequence(v) /\ Len(v) = n
    BY <2>2, <2>4, SequenceOf
  <2>6. MemberObject(e, v)
    BY <1>2, <2>2, <2>3, <2>5, ArrayMember
  <2> QED
    BY ONLY <2>1, <2>6
<1>3. CASE Element(e) /\ ~Array(e) /\ e.kind # "void"
  <2>1. ElementObject(e, ElementFilled(e, p, filling, o))
    BY <1>3, ElementIsFilled
  <2> QED
    BY ONLY <1>3, <2>1 DEF MemberObject, MemberFilled
<1> QED
  <2>1. IsNumber(e) => Element(e)
    BY Zenon DEF IsNumber, Element
  <2>2. IsNested(e) => Element(e)
    BY Zenon DEF IsNested, Element
  <2> QED
    BY <1>1, <1>2, <1>3, <2>1, <2>2, MemberKinds

(* What the types in X promise, X promises as well. *)
Fills ==
  \A t : Schema(t) =>
    \A p \in Pattern, filling \in Fillings, o \in Nat :
      Object(t, Filled(t, p, filling, o))

(* A publisher cannot make anything else than an object. *)
THEOREM FilledIsObject == NestedFills => Fills
<1> SUFFICES ASSUME NestedFills, NEW t, Schema(t), NEW p \in Pattern, NEW filling \in Fillings,
                    NEW o \in Nat
             PROVE  Object(t, Filled(t, p, filling, o))
  BY Zenon DEF Fills
<1> DEFINE n == Len(t.members)
<1>1. n \in Nat /\ DOMAIN t.members = 1..n /\ \A k \in 1..n : Member(t.members[k])
  <2>1. n \in Nat /\ DOMAIN t.members = 1..n /\ \A k \in DOMAIN t.members : Member(t.members[k])
    BY Zenon DEF Schema
  <2> QED
    BY <2>1
<1>2. CASE t.kind = "struct"
  <2> DEFINE v == [k \in DOMAIN t.members |-> MemberFilled(t.members[k], Turned(p, k - 1), filling, o)]
  <2>1. Filled(t, p, filling, o) = v
    BY <1>2, Zenon DEF Filled
  <2>2. \A k \in 1..n : MemberObject(t.members[k], v[k])
    <3>1. ASSUME NEW k \in 1..n
          PROVE  MemberObject(t.members[k], MemberFilled(t.members[k], Turned(p, k - 1), filling, o))
      <4>1. k - 1 \in Nat
        BY <1>1
      <4>2. Turned(p, k - 1) \in Pattern
        BY <4>1, TurnedPattern
      <4> QED
        BY <1>1, <4>2, MemberIsFilled
    <3> QED
      BY ONLY <1>1, <3>1
  <2>3. DOMAIN v = 1..n
    BY ONLY <1>1
  <2> HIDE DEF v
  <2>4. Object(t, v)
    BY ONLY <1>1, <1>2, <2>2, <2>3 DEF Object, Present, Values
  <2> QED
    BY ONLY <2>1, <2>4
<1>3. CASE t.kind # "struct"
  <2> DEFINE tag == (o % n) + 1
             x == MemberFilled(t.members[tag], p, filling, o)
             v == [tag |-> tag, value |-> x]
  <2>1. Filled(t, p, filling, o) = v
    BY <1>3, Zenon DEF Filled
  <2>2. tag \in DOMAIN t.members
    <3>1. t.kind = "union"
      BY ONLY Schema(t), <1>3 DEF Schema
    <3>2. n \in 1..256
      BY <3>1, Zenon DEF Schema
    <3> HIDE DEF n
    <3>3. n \in Nat \ {0}
      BY ONLY <3>2
    <3>4. (o % n) + 1 \in 1..n
      BY ONLY <3>3, o \in Nat
    <3> QED
      BY ONLY <1>1, <3>4, SMTT(30)
  <2> HIDE DEF n, tag
  <2>3. MemberObject(t.members[tag], x)
    BY <1>1, <2>2, MemberIsFilled
  <2> HIDE DEF x
  <2>4. v.tag = tag /\ v.value = x
    BY ONLY TRUE
  <2> HIDE DEF v
  <2>5. Present(t, v.tag) = <<t.members[tag]>> /\ Values(t, v) = <<x>>
    BY ONLY <1>3, <2>4 DEF Present, Values
  <2>6. /\ DOMAIN <<t.members[tag]>> = 1..1 /\ DOMAIN <<x>> = 1..1
        /\ <<t.members[tag]>>[1] = t.members[tag] /\ <<x>>[1] = x
    BY ONLY TRUE
  <2>7. \A k \in 1..1 : k = 1
    BY ONLY TRUE
  <2>8. \A k \in DOMAIN Present(t, v.tag) : MemberObject(Present(t, v.tag)[k], Values(t, v)[k])
    BY ONLY <2>3, <2>5, <2>6, <2>7
  <2>9. DOMAIN Values(t, v) = DOMAIN Present(t, v.tag) /\ v.tag \in DOMAIN t.members
    BY ONLY <2>2, <2>4, <2>5, <2>6
  <2>10. Object(t, v)
    BY ONLY <2>8, <2>9, Zenon DEF Object
  <2> QED
    BY ONLY <2>1, <2>10
<1> QED
  BY <1>2, <1>3
-----------------------------------------------------------------------------
(* What is between two buffers, and what is after one.                     *)
LEMMA PartBetween ==
  ASSUME NEW before \in Buffers, NEW bits \in Buffers, NEW after \in Buffers
  PROVE  /\ (before \o bits) \o after \in Buffers
         /\ SubSeq((before \o bits) \o after, Len(before) + 1, Len(before) + Len(bits)) = bits
         /\ Len((before \o bits) \o after) = (Len(before) + Len(bits)) + Len(after)
<1> DEFINE a == before \o bits
           buf == a \o after
           m == Len(before)
           n == Len(bits)
           part == SubSeq(buf, m + 1, m + n)
<1>1. /\ a \in Buffers /\ m \in Nat /\ n \in Nat /\ Len(a) = m + n
      /\ \A i \in 1..(m + n) : a[i] = IF i <= m THEN before[i] ELSE bits[i - m]
  BY PutAfter
<1> HIDE DEF a, m, n
<1>2. /\ buf \in Buffers /\ Len(after) \in Nat /\ Len(buf) = Len(a) + Len(after)
      /\ \A i \in 1..(Len(a) + Len(after)) : buf[i] = IF i <= Len(a) THEN a[i] ELSE after[i - Len(a)]
  BY <1>1, PutAfter
<1> HIDE DEF buf
<1>3. /\ part \in Buffers /\ Len(part) = n
      /\ \A i \in 1..n : part[i] = buf[m + i]
  <2> DEFINE end == m + n
  <2>1. end \in Nat /\ end <= Len(buf) /\ m <= end /\ end - m = n
    BY ONLY <1>1, <1>2
  <2> HIDE DEF end
  <2>2. /\ SubSeq(buf, m + 1, end) \in Buffers
        /\ Len(SubSeq(buf, m + 1, end)) = IF m <= end THEN end - m ELSE 0
        /\ \A i \in 1..Len(SubSeq(buf, m + 1, end)) : SubSeq(buf, m + 1, end)[i] = buf[m + i]
    BY <1>1, <1>2, <2>1, PartOfBuffer
  <2>3. Len(SubSeq(buf, m + 1, end)) = n
    BY ONLY <2>1, <2>2
  <2> QED
    BY ONLY <2>2, <2>3 DEF end
<1> HIDE DEF part
<1>4. \A i \in 1..n : part[i] = bits[i]
  <2>1. ASSUME NEW i \in 1..n
        PROVE  part[i] = bits[i]
    <3>1. /\ m + i \in 1..(m + n) /\ m + i \in 1..(Len(a) + Len(after)) /\ m + i <= Len(a)
          /\ ~(m + i <= m) /\ (m + i) - m = i
      BY ONLY <1>1, <1>2, i \in 1..n
    <3>2. part[i] = a[m + i]
      BY ONLY <1>2, <1>3, <3>1, i \in 1..n
    <3>3. a[m + i] = bits[i]
      BY ONLY <1>1, <3>1
    <3> QED
      BY ONLY <3>2, <3>3
  <2> QED
    BY ONLY <2>1
<1>5. part = bits
  BY ONLY <1>3, <1>4, bits \in Buffers, SameBits DEF n
<1> QED
  BY ONLY <1>1, <1>2, <1>5 DEF part, buf, a, m, n

(* What comes after the first part of a buffer is the second. *)
LEMMA RestAfter ==
  ASSUME NEW before \in Buffers, NEW bits \in Buffers
  PROVE  SubSeq(before \o bits, Len(before) + 1, Len(before \o bits)) = bits
<1>1. <<>> \in Buffers
  BY DEF Buffers
<1>2. (before \o bits) \o <<>> = before \o bits /\ Len(before \o bits) = Len(before) + Len(bits)
  <2>1. before \o bits \in Buffers /\ Len(before \o bits) = Len(before) + Len(bits)
    BY PutAfter
  <2> QED
    BY <2>1, ConcatEmptySeq DEF Buffers
<1>3. SubSeq((before \o bits) \o <<>>, Len(before) + 1, Len(before) + Len(bits)) = bits
  BY <1>1, PartBetween
<1> QED
  BY ONLY <1>2, <1>3

(* Buffers that follow one another. *)
InARow(a, b, c) ==
  /\ (a \o b) \o c = a \o (b \o c)
  /\ a \o b \in Buffers /\ b \o c \in Buffers

(* Three parts make the same buffer in whichever order they are joined. *)
LEMMA ConcatAgain ==
  ASSUME NEW a \in Buffers, NEW b \in Buffers, NEW c \in Buffers
  PROVE  InARow(a, b, c)
<1>1. a \o b \in Buffers /\ b \o c \in Buffers
  BY PutAfter
<1>2. (a \o b) \o c = a \o (b \o c)
  BY ConcatAssociative DEF Buffers
<1> QED
  BY ONLY <1>1, <1>2 DEF InARow

-----------------------------------------------------------------------------
(* Of the types in X without halves: what was written is read back,        *)
(* whatever comes after it, and no more than that is read.                 *)
NestedRounds ==
  \A t, v, after :
    /\ NestedSchema(t) /\ NestedExact(t) /\ NestedObject(t, v) /\ after \in Buffers
    /\ NestedSerialize(t, v).err = "SUCCESS"
    => LET out == NestedSerialize(t, v)
           read == NestedDeserialize(t, out.bits \o after)
       IN /\ read.err = "SUCCESS" /\ read.size = Len(out.bits) \div 8
          /\ NestedSurvives(t, v, read.obj)

(* One more was read that is what was written up to here.                  *)
ElementBack(e, v, end, at, got) ==
  /\ got.err = "SUCCESS" /\ got.off = end
  /\ ElementSurvives(e, v, got.obj[Len(at.obj) + 1])

(* A type in X whose bytes begin at bit off. *)
NestedBack(e, v, off, at, after) ==
  LET bits == NestedSerialize(Composite(e), v).bits
      read == NestedDeserialize(Composite(e), bits \o after)
  IN /\ ElementBack(e, v, off + Len(bits), at, GotNested(at, off, read.size, read))
     /\ read.size = Len(bits) \div 8 /\ bits \in Buffers
     /\ Len(bits) \in Nat /\ Len(bits) % 8 = 0

(* Such a type is read back where it lies. *)
LEMMA NestedGotBack ==
  ASSUME NestedWrites, NestedRounds, NEW at, Reading(at), at.err = "SUCCESS", NEW off \in Nat,
         NEW e, IsNested(e), ~Scalar(e), ExactElement(e), NEW v, ElementObject(e, v),
         NestedSerialize(Composite(e), v).err = "SUCCESS", NEW after \in Buffers
  PROVE  NestedBack(e, v, off, at, after)
<1> DEFINE bits == NestedSerialize(Composite(e), v).bits
           read == NestedDeserialize(Composite(e), bits \o after)
<1>1. NestedSchema(Composite(e)) /\ NestedExact(Composite(e)) /\ NestedObject(Composite(e), v)
  BY Zenon DEF IsNested, ExactElement, ElementObject
<1>2. /\ bits \in Buffers /\ Len(bits) % 8 = 0
  BY <1>1, Zenon DEF NestedWrites
<1>3. Len(bits) \in Nat
  BY <1>2, LenProperties DEF Buffers
<1>4. /\ read.err = "SUCCESS" /\ read.size = Len(bits) \div 8
      /\ NestedSurvives(Composite(e), v, read.obj)
  BY <1>1, Zenon DEF NestedRounds
<1> HIDE DEF read, bits
<1> DEFINE moved == [at EXCEPT !.off = off]
           size == read.size
           used == size * 8
           w == read.obj
<1>5. used = Len(bits) /\ used \in Nat
  <2>1. (Len(bits) \div 8) * 8 = Len(bits)
    BY <1>2, <1>3, BytesOfBits
  <2> QED
    BY ONLY <1>3, <1>4, <2>1
<1>6. Reading(moved) /\ moved.err = at.err /\ moved.obj = at.obj /\ moved.off = off
  BY MovedIsRead
<1>7. GotNested(at, off, size, read) = Got(moved, used, w)
  BY ONLY <1>4, Zenon DEF GotNested
<1>8. ElementSurvives(e, v, w)
  BY ONLY <1>4, ~Scalar(e) DEF ElementSurvives
<1> HIDE DEF moved, used, w, size
<1>9. /\ Got(moved, used, w).obj[Len(moved.obj) + 1] = w
      /\ Got(moved, used, w).err = moved.err /\ Got(moved, used, w).off = moved.off + used
  BY <1>5, <1>6, GotOneMore
<1>10. ElementBack(e, v, off + Len(bits), at, Got(moved, used, w))
  BY ONLY <1>5, <1>6, <1>8, <1>9, at.err = "SUCCESS" DEF ElementBack
<1>11. ElementBack(e, v, off + Len(bits), at, GotNested(at, off, read.size, read))
  BY ONLY <1>7, <1>10 DEF size
<1> QED
  BY ONLY <1>2, <1>3, <1>4, <1>11 DEF bits, read, NestedBack

(* The size in the header of one that was written. *)
LEMMA HeaderBack ==
  ASSUME NEW before \in Buffers, NEW n \in Nat, n <= MaxSize, NEW after \in Buffers
  PROVE  LET header == BitsOf(n, 31) \o << 0 >>
         IN SizeInHeader((before \o header) \o after, Len(before)) = n
<1> DEFINE header == BitsOf(n, 31) \o << 0 >>
           buf == (before \o header) \o after
<1>1. /\ header \in Buffers /\ Len(header) = 32
      /\ header[32] = 0 /\ NumberOf(header) = n
  <2>1. Fits(n, 16)
    BY DEF MaxSize, Fits
  <2> DEFINE bits == BitsOf(n, 31) \o << 0 >>
  <2>2. bits = BitsOf(n, 31) \o << 0 >>
    OBVIOUS
  <2> HIDE DEF bits
  <2>3. bits \in Buffers /\ Len(bits) = 32 /\ bits[32] = 0 /\ NumberOf(bits) = n
    BY ONLY <2>1, <2>2, NumberOfHeader, Zenon
  <2> QED
    BY ONLY <2>3 DEF bits
<1> HIDE DEF header
<1>2. Taken(buf, Len(before), 32) = header
  <2>1. 32 \in Nat
    OBVIOUS
  <2> QED
    BY <1>1, <2>1, TakenBack
<1> HIDE DEF buf
<1>3. SizeInHeader(buf, Len(before)) = NumberOf(header)
  BY ONLY <1>1, <1>2, SMTT(30) DEF SizeInHeader
<1> QED
  BY ONLY <1>1, <1>3 DEF buf, header

(* A size that a header can say. *)
LEMMA SizeOfNested ==
  ASSUME NEW n \in Nat, NEW len \in Nat, n * 8 = len, NEW largest \in Nat, len <= largest,
         NEW extent \in 0..MaxSize, largest <= 8 * extent
  PROVE  n <= MaxSize
<1>1. MaxSize \in Nat
  BY DEF MaxSize
<1>2. \A m \in Nat : \A k \in 0..m : k \in Nat /\ k <= m
  OBVIOUS
<1>3. extent \in Nat /\ extent <= MaxSize
  BY <1>1, <1>2, Zenon
<1>4. \A k, a, b, m \in Nat : k * 8 = a /\ a <= b /\ b <= 8 * m => k <= m
  OBVIOUS
<1>5. n <= extent
  BY <1>3, <1>4, Zenon
<1>6. \A a, b, c \in Nat : a <= b /\ b <= c => a <= c
  OBVIOUS
<1> QED
  BY <1>1, <1>3, <1>5, <1>6, ZenonT(60)

(* A type in X that was written is read back from where it was written, *)
LEMMA NestedReadBack ==
  ASSUME NestedWrites, NestedRounds,
         NEW out, Writing(out), out.err = "SUCCESS",
         NEW e, IsNested(e), ~Scalar(e), ExactElement(e), NEW v, ElementObject(e, v),
         WriteNested(e, v, out).err = "SUCCESS",
         NEW buf, Begins(buf, WriteNested(e, v, out).bits),
         NEW at, Reading(at), at.err = "SUCCESS", at.off = Len(out.bits)
  PROVE  ElementBack(e, v, Len(WriteNested(e, v, out).bits), at, ReadNested(e, buf, at))
<1> DEFINE bits == NestedSerialize(Composite(e), v).bits
           n == Len(bits) \div 8
           written == WriteNested(e, v, out)
           aligned == PutAligned(out).bits
           off == Align(at.off)
<1>1. written.bits = NestedBits(e, v, out) /\ NestedSerialize(Composite(e), v).err = "SUCCESS"
  BY NestedIsWritten
<1>2. written.bits = aligned \o (Header(e, n) \o bits)
  BY ONLY <1>1 DEF NestedBits
<1>3. PICK after \in Buffers : buf = written.bits \o after
  BY DEF Begins
<1>4. aligned \in Buffers /\ Len(aligned) = off /\ off \in Nat
  <2>1. Writing(PutAligned(out)) /\ Len(PutAligned(out).bits) = Align(Len(out.bits))
    BY AlignedIsWritten
  <2>2. aligned \in Buffers
    BY ONLY <2>1 DEF Writing
  <2>3. Len(aligned) \in Nat
    BY <2>2, LenProperties DEF Buffers
  <2> QED
    BY ONLY <2>1, <2>2, <2>3, at.off = Len(out.bits)
<1> DEFINE read(more) == NestedDeserialize(Composite(e), bits \o more)
<1>5. ASSUME NEW more \in Buffers, NEW begin \in Nat
      PROVE  /\ ElementBack(e, v, begin + Len(bits), at, GotNested(at, begin, read(more).size, read(more)))
             /\ read(more).size = n /\ bits \in Buffers
             /\ Len(bits) \in Nat /\ Len(bits) % 8 = 0
  <2>1. NestedBack(e, v, begin, at, more)
    BY <1>1, NestedGotBack
  <2> QED
    BY ONLY <2>1 DEF NestedBack
<1>6. bits \in Buffers /\ Len(bits) \in Nat /\ Len(bits) % 8 = 0
  BY <1>3, <1>4, <1>5
<1>7. n \in Nat /\ n * 8 = Len(bits)
  BY <1>6, BytesOfBits
<1> HIDE DEF bits, n, aligned, off, written
<1>8. CASE e.kind # "delimited"
  <2>1. Header(e, n) = <<>> /\ Composite(e) = e
    BY ONLY <1>8 DEF Header, Composite
  <2>2. written.bits = aligned \o bits
    <3>1. <<>> \o bits = bits
      BY <1>6, ConcatEmptySeq DEF Buffers
    <3> QED
      BY ONLY <1>2, <2>1, <3>1
  <2>3. buf = aligned \o (bits \o after) /\ bits \o after \in Buffers
    <3>1. after \in Buffers
      BY <1>3
    <3>2. InARow(aligned, bits, after)
      BY ONLY <1>4, <1>6, <3>1, ConcatAgain, Zenon
    <3> QED
      BY ONLY <1>3, <2>2, <3>2 DEF InARow
  <2> DEFINE rest == bits \o after
  <2> HIDE DEF rest
  <2>4. SubSeq(buf, off + 1, Len(buf)) = rest
    <3>1. SubSeq(aligned \o rest, Len(aligned) + 1, Len(aligned \o rest)) = rest
      BY <1>4, <2>3, RestAfter DEF rest
    <3> QED
      BY ONLY <1>4, <2>3, <3>1 DEF rest
  <2>5. ReadNested(e, buf, at) = GotNested(at, off, read(after).size, read(after))
    <3>1. ReadNested(e, buf, at) = ReadSealed(e, buf, off, at)
      BY <1>8, Zenon DEF ReadNested, off
    <3>2. ReadSealed(e, buf, off, at)
          = GotNested(at, off, NestedDeserialize(e, SubSeq(buf, off + 1, Len(buf))).size,
                      NestedDeserialize(e, SubSeq(buf, off + 1, Len(buf))))
      BY Zenon DEF ReadSealed
    <3> QED
      BY ONLY <2>1, <2>4, <3>1, <3>2 DEF rest
  <2>6. Len(written.bits) = off + Len(bits)
    BY <1>4, <1>6, <2>2, PutAfter, ZenonT(60)
  <2>7. ElementBack(e, v, off + Len(bits), at, GotNested(at, off, read(after).size, read(after)))
    BY <1>4, <1>5
  <2> HIDE DEF read
  <2>8. ElementBack(e, v, Len(written.bits), at, ReadNested(e, buf, at))
    BY ONLY <2>5, <2>6, <2>7
  <2> QED
    BY ONLY <2>8 DEF written
<1>9. CASE e.kind = "delimited"
  <2> DEFINE header == BitsOf(n, 31) \o << 0 >>
  <2>1. Header(e, n) = header /\ Composite(e) = e.of
    BY ONLY <1>9 DEF Header, Composite
  <2>2. header \in Buffers /\ Len(header) = 32
    BY <1>7, <1>9, <2>1, HeaderType
  <2>3. n <= MaxSize
    <3>1. NestedSchema(e.of) /\ NestedLargest(e.of) <= 8 * e.of.extent /\ NestedObject(e.of, v)
      BY <1>9, <2>1, Zenon DEF IsNested, ElementObject
    <3>2. Len(bits) <= NestedLargest(e.of) /\ NestedLargest(e.of) \in Nat
      BY <1>1, <2>1, <3>1, Zenon DEF NestedWrites, bits
    <3>3. e.of.extent \in 0..MaxSize
      BY <3>1, Zenon DEF NestedWrites
    <3> DEFINE extent == e.of.extent
               largest == NestedLargest(e.of)
               len == Len(bits)
    <3>4. extent \in 0..MaxSize /\ largest \in Nat /\ largest <= 8 * extent /\ len <= largest /\ len \in Nat
          /\ n \in Nat /\ n * 8 = len
      BY ONLY <1>6, <1>7, <3>1, <3>2, <3>3
    <3> HIDE DEF extent, largest, len
    <3> QED
      <4> HIDE DEF n
      <4> QED
        BY ONLY <3>4, SizeOfNested
  <2> DEFINE begin == off + 32
             before == aligned \o header
             rest == bits \o after
  <2> HIDE DEF header
  <2>4. /\ before \in Buffers /\ Len(before) = begin /\ rest \in Buffers
    <3>1. after \in Buffers
      BY <1>3
    <3>2. bits \o after \in Buffers
      BY ONLY <1>6, <3>1, PutAfter, Zenon
    <3>3. aligned \o header \in Buffers /\ Len(aligned \o header) = Len(aligned) + Len(header)
      BY ONLY <1>4, <2>2, PutAfter, Zenon
    <3> QED
      BY ONLY <1>4, <2>2, <3>2, <3>3
  <2>5. InARow(aligned, header, bits)
    BY ONLY <1>4, <1>6, <2>2, ConcatAgain, Zenon
  <2>6. buf = before \o rest /\ buf = (aligned \o header) \o rest /\ buf = (before \o bits) \o after
    <3>1. written.bits = aligned \o (header \o bits)
      BY ONLY <1>2, <2>1
    <3>2. aligned \o (header \o bits) = before \o bits
      BY ONLY <2>5 DEF InARow, before
    <3>3. (before \o bits) \o after = before \o rest
      <4>1. after \in Buffers
        BY <1>3
      <4> HIDE DEF before
      <4>2. InARow(before, bits, after)
        BY ONLY <1>6, <2>4, <4>1, ConcatAgain, Zenon
      <4> QED
        BY ONLY <4>2 DEF rest, InARow
    <3> QED
      BY ONLY <1>3, <3>1, <3>2, <3>3
  <2>7. SizeInHeader(buf, off) = n
    <3> HIDE DEF rest
    <3>1. SizeInHeader((aligned \o header) \o rest, Len(aligned)) = n
      BY <1>4, <1>7, <2>3, <2>4, HeaderBack DEF header
    <3> QED
      BY ONLY <1>4, <2>6, <3>1 DEF header
  <2> HIDE DEF before, rest
  <2>8. /\ Len(buf) = (begin + Len(bits)) + Len(after) /\ Len(after) \in Nat /\ begin \in Nat
        /\ SubSeq(buf, begin + 1, begin + Len(bits)) = bits
    <3>1. Len(after) \in Nat
      BY <1>3, LenProperties DEF Buffers
    <3> QED
      <4>1. after \in Buffers /\ buf = (before \o bits) \o after
        BY <1>3, <2>6
      <4>2. /\ Len((before \o bits) \o after) = (Len(before) + Len(bits)) + Len(after)
            /\ SubSeq((before \o bits) \o after, Len(before) + 1, Len(before) + Len(bits)) = bits
        BY ONLY <1>6, <2>4, <4>1, PartBetween, ZenonT(60)
      <4> QED
        BY ONLY <1>4, <2>4, <3>1, <4>1, <4>2
  <2>9. ~Beyond(n, (Len(buf) - Lesser(begin, Len(buf))) \div 8)
    <3> DEFINE left == Len(buf) - Lesser(begin, Len(buf))
    <3>1. left \in Nat /\ Len(bits) <= left
      <4>1. begin \in Nat /\ Len(bits) \in Nat /\ Len(after) \in Nat
        BY ONLY <1>6, <2>8
      <4> HIDE DEF begin
      <4>2. Lesser(begin, Len(buf)) = begin
        BY ONLY <2>8, <4>1 DEF Lesser
      <4> QED
        BY ONLY <2>8, <4>1, <4>2
    <3> HIDE DEF left
    <3>2. n <= left \div 8
      <4> DEFINE len == Len(bits)
      <4>1. len \in Nat /\ left \in Nat /\ len <= left /\ n \in Nat /\ n * 8 = len
        BY ONLY <1>6, <1>7, <3>1
      <4> HIDE DEF len
      <4> QED
        BY ONLY <4>1
    <3>3. left \div 8 \in Nat
      BY <3>1, BytesOfBits
    <3>4. ~Beyond(n, left \div 8)
      BY ONLY <1>7, <3>2, <3>3 DEF Beyond
    <3> QED
      BY ONLY <3>4 DEF left
  <2>10. <<>> \in Buffers /\ bits \o <<>> = bits
    BY <1>6, ConcatEmptySeq DEF Buffers
  <2>11. ReadNested(e, buf, at) = GotNested(at, begin, n, NestedDeserialize(e.of, bits))
    <3>1. ReadNested(e, buf, at) = ReadDelimited(e.of, buf, begin, n, at)
      BY <1>9, <2>7, Zenon DEF ReadNested, off
    <3>2. ReadDelimited(e.of, buf, begin, n, at)
          = GotNested(at, begin, n, NestedDeserialize(e.of, SubSeq(buf, begin + 1, begin + n * 8)))
      BY <2>9, Zenon DEF ReadDelimited
    <3> HIDE DEF begin
    <3> QED
      BY ONLY <1>7, <2>8, <3>1, <3>2
  <2>12. /\ ElementBack(e, v, begin + Len(bits), at, GotNested(at, begin, read(<<>>).size, read(<<>>)))
         /\ read(<<>>).size = n
    BY <1>5, <2>8, <2>10
  <2>13. Len(written.bits) = begin + Len(bits)
    <3>1. written.bits = before \o bits
      BY ONLY <1>2, <2>1, <2>5 DEF before, InARow
    <3> QED
      <4>1. Len(before \o bits) = Len(before) + Len(bits)
        BY ONLY <1>6, <2>4, PutAfter, Zenon
      <4> QED
        BY ONLY <2>4, <3>1, <4>1
  <2>14. read(<<>>) = NestedDeserialize(e.of, bits)
    BY ONLY <2>1, <2>10
  <2> HIDE DEF read
  <2>15. ElementBack(e, v, Len(written.bits), at, ReadNested(e, buf, at))
    BY ONLY <2>11, <2>12, <2>13, <2>14
  <2> QED
    BY ONLY <2>15 DEF written
<1> QED
  BY <1>8, <1>9

-----------------------------------------------------------------------------
(* Statements that write one after the other, of which the last succeeded: *)
(* so did all of them, and the last buffer begins with the others.         *)
WroteSome(out, after) ==
  /\ Writing(after)
  /\ after.err = "SUCCESS" => Begins(after.bits, out.bits)

WrittenInTurn(f, n) ==
  /\ Writing(f[0])
  /\ \A k \in 1..n :
       /\ f[k - 1].err # "SUCCESS" => f[k] = f[k - 1]
       /\ f[k - 1].err = "SUCCESS" /\ Writing(f[k - 1]) => WroteSome(f[k - 1], f[k])

AllSucceeded(f, n) ==
  \A k \in 0..n : /\ f[k].err = "SUCCESS" /\ Writing(f[k])
                  /\ Begins(f[n].bits, f[k].bits)

(* If all went well at the end, it went well on the way. *)
LEMMA AllWritten ==
  ASSUME NEW n \in Nat, NEW f, WrittenInTurn(f, n), f[n].err = "SUCCESS"
  PROVE  AllSucceeded(f, n)
<1> DEFINE A == {k \in 0..n : Writing(f[k])}
<1>1. 0 \in A
  BY DEF WrittenInTurn
<1>2. ASSUME NEW k \in 0..(n - 1), k \in A
      PROVE  k + 1 \in A
  <2>1. k + 1 \in 0..n /\ k + 1 \in 1..n /\ (k + 1) - 1 = k /\ Writing(f[k])
    BY <1>2
  <2>2. /\ f[k].err # "SUCCESS" => f[k + 1] = f[k]
        /\ f[k].err = "SUCCESS" => WroteSome(f[k], f[k + 1])
    BY ONLY <2>1, WrittenInTurn(f, n) DEF WrittenInTurn
  <2>3. Writing(f[k + 1])
    BY ONLY <2>1, <2>2 DEF WroteSome
  <2> QED
    BY ONLY <2>1, <2>3
<1>3. \A k \in 0..n : k \in A
  <2> HIDE DEF A
  <2> QED
    BY <1>1, <1>2, InductionUpTo
<1>4. \A k \in 0..n : Writing(f[k])
  BY <1>3
<1> HIDE DEF A
<1> DEFINE Good(k) == f[k].err = "SUCCESS" /\ Begins(f[n].bits, f[k].bits)
           B == {j \in 0..n : Good(n - j)}
<1>5. 0 \in B
  <2>1. Good(n)
    <3>1. f[n].bits \in Buffers
      <4>1. Writing(f[n])
        BY ONLY <1>4, n \in Nat
      <4> QED
        BY ONLY <4>1 DEF Writing
    <3>2. Begins(f[n].bits, f[n].bits)
      BY ONLY <3>1, BeginsItself
    <3> QED
      BY ONLY <3>2, f[n].err = "SUCCESS"
  <2> HIDE DEF Good
  <2>2. n - 0 = n /\ 0 \in 0..n
    OBVIOUS
  <2> QED
    BY ONLY <2>1, <2>2
<1>6. ASSUME NEW j \in 0..(n - 1), j \in B
      PROVE  j + 1 \in B
  <2> DEFINE k == n - j
  <2>1. Good(k) /\ k \in 1..n /\ k \in 0..n /\ k - 1 \in 0..n /\ n - (j + 1) = k - 1 /\ j + 1 \in 0..n
    BY <1>6
  <2> HIDE DEF k
  <2>2. /\ f[k - 1].err # "SUCCESS" => f[k] = f[k - 1]
        /\ f[k - 1].err = "SUCCESS" /\ Writing(f[k - 1]) => WroteSome(f[k - 1], f[k])
    BY ONLY <2>1, WrittenInTurn(f, n) DEF WrittenInTurn
  <2>3. f[k - 1].err = "SUCCESS" /\ Writing(f[k - 1]) /\ Writing(f[k])
    BY ONLY <1>4, <2>1, <2>2
  <2>4. Begins(f[k].bits, f[k - 1].bits)
    BY ONLY <2>1, <2>2, <2>3 DEF WroteSome
  <2>5. Begins(f[n].bits, f[k - 1].bits)
    <3>1. f[k - 1].bits \in Buffers
      BY ONLY <2>3 DEF Writing
    <3>2. Begins(f[n].bits, f[k].bits)
      BY ONLY <2>1
    <3> QED
      BY ONLY <2>4, <3>1, <3>2, BeginsTransitive
  <2>6. Good(k - 1)
    BY ONLY <2>3, <2>5
  <2> HIDE DEF Good
  <2> QED
    BY ONLY <2>1, <2>6
<1>7. \A j \in 0..n : j \in B
  <2> HIDE DEF B
  <2> QED
    BY <1>5, <1>6, InductionUpTo
<1>8. ASSUME NEW k \in 0..n
      PROVE  Good(k)
  <2>1. n - k \in 0..n /\ n - (n - k) = k
    OBVIOUS
  <2>2. n - k \in B
    BY ONLY <1>7, <2>1
  <2> HIDE DEF Good
  <2> QED
    BY ONLY <2>1, <2>2
<1> QED
  BY ONLY <1>4, <1>8 DEF AllSucceeded

(* An array in X that was written is read back from where it was written:  *)
ArrayBack(e, v, end, at, got) ==
  /\ got.err = "SUCCESS" /\ got.off = end
  /\ DOMAIN v = DOMAIN got.obj[Len(at.obj) + 1]
  /\ \A k \in 1..Len(v) : ElementSurvives(e, v[k], got.obj[Len(at.obj) + 1][k])

(* one of numbers, *)
LEMMA NumbersBack ==
  ASSUME NEW out, Writing(out), out.err = "SUCCESS", NEW e, IsNumber(e), ExactElement(e),
         NEW v, Sequence(v), \A k \in 1..Len(v) : ElementObject(e, v[k]),
         NEW buf, Begins(buf, WriteArray(e, v, out).bits),
         NEW at, Reading(at), at.err = "SUCCESS", at.off = Len(out.bits)
  PROVE  ArrayBack(e, v, Len(WriteArray(e, v, out).bits), at, ReadArray(e, Len(v), buf, at))
<1>1. Scalar(e) /\ e \in Numbers
  BY DEF IsNumber, ExactElement
<1>2. v \in Seq(InC(e)) /\ Len(v) \in Nat /\ DOMAIN v = 1..Len(v)
  <2>1. \A k \in 1..Len(v) : v[k] \in InC(e)
    BY <1>1 DEF ElementObject
  <2>2. v \in Seq(InC(e)) /\ Len(v) \in Nat
    BY <2>1, SeqDef DEF Sequence
  <2> QED
    BY <2>2
<1> DEFINE bits == ArrayOnWire(e, v)
           n == Len(v)
           size == n * e.width
           w == ReadScalars(e, n, buf, at.off)
           written == WriteArray(e, v, out)
<1>3. bits \in Buffers /\ Len(bits) = size /\ size \in Nat
  <2>1. e \in Numbers \cup Halves
    BY <1>1
  <2>2. bits \in Buffers /\ Len(bits) = Len(v) * e.width
    BY <1>2, <2>1, ArrayBits
  <2> QED
    BY <2>2, LenProperties DEF Buffers
<1>4. written = Put(out, bits)
  BY <1>1 DEF WriteArray
<1>5. ReadArray(e, n, buf, at) = Got(at, size, w)
  BY <1>1, Zenon DEF ReadArray
<1> HIDE DEF bits, size, written
<1>6. written.bits = out.bits \o bits /\ Len(written.bits) = Len(out.bits) + size
  BY <1>3, <1>4, PutIsWritten
<1>7. PICK after \in Buffers : buf = (out.bits \o bits) \o after
  BY <1>6 DEF Begins, written
<1>8. DOMAIN w = DOMAIN v /\ \A k \in DOMAIN v : SurvivesScalar(e, v[k], w[k])
  <2> DEFINE read == ReadScalars(e, Len(v), (out.bits \o ArrayOnWire(e, v)) \o after, Len(out.bits))
  <2>1. out.bits \in Buffers
    BY DEF Writing
  <2>2. DOMAIN read = DOMAIN v /\ \A k \in DOMAIN v : SurvivesScalar(e, v[k], read[k])
    BY <1>1, <1>2, <2>1, ArrayReadBack
  <2>3. read = w
    BY ONLY <1>7, at.off = Len(out.bits) DEF bits
  <2> QED
    BY ONLY <2>2, <2>3
<1> HIDE DEF w
<1>9. /\ Got(at, size, w).obj[Len(at.obj) + 1] = w
      /\ Got(at, size, w).err = at.err /\ Got(at, size, w).off = at.off + size
  BY ONLY <1>3, Reading(at), GotOneMore
<1>10. \A k \in 1..n : ElementSurvives(e, v[k], w[k])
  BY ONLY <1>1, <1>2, <1>8 DEF ElementSurvives
<1>11. ArrayBack(e, v, Len(written.bits), at, Got(at, size, w))
  BY ONLY <1>6, <1>8, <1>9, <1>10, at.err = "SUCCESS", at.off = Len(out.bits) DEF ArrayBack
<1> QED
  BY ONLY <1>5, <1>11 DEF written, n

(* one of types in X, element by element, *)
LEMMA ElementsBack ==
  ASSUME NestedWrites, NestedReads, NestedRounds,
         NEW out, Writing(out), out.err = "SUCCESS",
         NEW e, IsNested(e), ~Scalar(e), ExactElement(e),
         NEW v, Sequence(v), \A k \in 1..Len(v) : ElementObject(e, v[k]),
         WriteArray(e, v, out).err = "SUCCESS",
         NEW buf \in Buffers, Begins(buf, WriteArray(e, v, out).bits),
         NEW at, Reading(at), at.err = "SUCCESS", at.off = Len(out.bits)
  PROVE  ArrayBack(e, v, Len(WriteArray(e, v, out).bits), at, ReadArray(e, Len(v), buf, at))
<1> DEFINE n == Len(v)
<1>1. n \in Nat
  BY DEF Sequence
<1>2. PICK f : /\ f[0] = out
               /\ \A k \in 1..n : f[k] = IF f[k - 1].err = "SUCCESS"
                                         THEN WriteNested(e, v[k], f[k - 1]) ELSE f[k - 1]
               /\ WriteArray(e, v, out) = f[n]
  BY <1>1, ElementsWrittenInTurn
<1>3. PICK g : /\ g[0] = [at EXCEPT !.obj = <<>>]
               /\ \A k \in 1..n : g[k] = IF g[k - 1].err = "SUCCESS"
                                         THEN ReadNested(e, buf, g[k - 1]) ELSE g[k - 1]
               /\ ReadArray(e, n, buf, at) = [g[n] EXCEPT !.obj = Append(at.obj, @)]
  <2> HIDE DEF n
  <2> QED
    BY <1>1, ElementsReadInTurn
<1>4. AllSucceeded(f, n)
  <2>1. ASSUME NEW k \in 1..n, f[k - 1].err = "SUCCESS", Writing(f[k - 1])
        PROVE  WroteSome(f[k - 1], f[k])
    <3>1. f[k] = WriteNested(e, v[k], f[k - 1]) /\ ElementObject(e, v[k])
      BY <1>2, <2>1
    <3>2. ElementWritten(e, v[k], f[k - 1], WriteNested(e, v[k], f[k - 1]))
      BY <2>1, <3>1, NestedIsWritten
    <3> QED
      BY ONLY <3>1, <3>2 DEF ElementWritten, WroteMore, WroteSome
  <2>2. WrittenInTurn(f, n)
    <3>1. Writing(f[0])
      BY ONLY <1>2, Writing(out)
    <3>2. \A k \in 1..n : f[k - 1].err # "SUCCESS" => f[k] = f[k - 1]
      BY ONLY <1>2
    <3> QED
      BY ONLY <2>1, <3>1, <3>2 DEF WrittenInTurn
  <2>3. f[n].err = "SUCCESS"
    BY ONLY <1>2, WriteArray(e, v, out).err = "SUCCESS"
  <2> HIDE DEF n
  <2> QED
    BY <1>1, <2>2, <2>3, AllWritten
<1>5. ASSUME NEW k \in 0..n
      PROVE  /\ f[k].err = "SUCCESS" /\ Writing(f[k]) /\ Begins(buf, f[k].bits)
  <2>1. f[k].err = "SUCCESS" /\ Writing(f[k]) /\ Begins(f[n].bits, f[k].bits)
    BY ONLY <1>4, <1>5 DEF AllSucceeded
  <2>2. Begins(buf, f[n].bits) /\ f[k].bits \in Buffers
    BY ONLY <1>2, <2>1, Begins(buf, WriteArray(e, v, out).bits) DEF Writing
  <2> QED
    BY ONLY <2>1, <2>2, BeginsTransitive
<1> DEFINE Good(k) == /\ Reading(g[k]) /\ g[k].err = "SUCCESS" /\ g[k].off = Len(f[k].bits)
                      /\ Len(g[k].obj) = k
                      /\ \A i \in 1..k : ElementSurvives(e, v[i], g[k].obj[i])
           A == {k \in 0..n : Good(k)}
<1>6. 0 \in A
  <2> DEFINE begin == [at EXCEPT !.obj = <<>>]
  <2>1. begin = [err |-> at.err, off |-> at.off, obj |-> <<>>]
    BY ONLY Reading(at) DEF Reading
  <2>2. Sequence(<<>>) /\ Len(<<>>) = 0
    BY DEF Sequence
  <2>3. at.err \in ReadErrors /\ at.off \in Nat
    BY DEF Reading
  <2> HIDE DEF begin
  <2>4. begin.err = at.err /\ begin.off = at.off /\ begin.obj = <<>>
    BY ONLY <2>1
  <2>5. Reading(begin)
    BY ONLY <2>1, <2>2, <2>3, <2>4 DEF Reading
  <2>6. g[0] = begin /\ f[0] = out
    BY ONLY <1>2, <1>3 DEF begin
  <2>7. Good(0)
    BY ONLY <2>2, <2>4, <2>5, <2>6, at.err = "SUCCESS", at.off = Len(out.bits)
  <2> HIDE DEF Good
  <2> QED
    BY ONLY <1>1, <2>7
<1>7. ASSUME NEW k \in 0..(n - 1), k \in A
      PROVE  k + 1 \in A
  <2>1. Good(k) /\ k \in 0..n /\ k + 1 \in 0..n /\ k + 1 \in 1..n /\ (k + 1) - 1 = k
    BY <1>1, <1>7
  <2>2. f[k].err = "SUCCESS" /\ Writing(f[k])
    BY ONLY <1>5, <2>1
  <2>3. f[k + 1] = WriteNested(e, v[k + 1], f[k])
    BY ONLY <1>2, <2>1, <2>2
  <2>4. g[k + 1] = ReadNested(e, buf, g[k])
    BY ONLY <1>3, <2>1
  <2>5. f[k + 1].err = "SUCCESS" /\ Begins(buf, f[k + 1].bits)
    BY ONLY <1>5, <2>1
  <2>6. ElementObject(e, v[k + 1])
    BY <2>1
  <2>7. ElementBack(e, v[k + 1], Len(f[k + 1].bits), g[k], g[k + 1])
    <3>1. /\ WriteNested(e, v[k + 1], f[k]).err = "SUCCESS"
          /\ Begins(buf, WriteNested(e, v[k + 1], f[k]).bits)
      BY ONLY <2>3, <2>5
    <3>2. Reading(g[k]) /\ g[k].err = "SUCCESS" /\ g[k].off = Len(f[k].bits)
      BY ONLY <2>1
    <3>3. ElementBack(e, v[k + 1], Len(WriteNested(e, v[k + 1], f[k]).bits), g[k], ReadNested(e, buf, g[k]))
      BY <2>2, <2>6, <3>1, <3>2, NestedReadBack
    <3> QED
      BY ONLY <2>3, <2>4, <3>3
  <2>8. OneMoreGood(e, buf, g[k], g[k + 1])
    <3>1. Reading(g[k]) /\ g[k].err = "SUCCESS"
      BY ONLY <2>1
    <3>2. OneMoreGood(e, buf, g[k], ReadNested(e, buf, g[k]))
      BY <3>1, NestedRead
    <3> QED
      BY ONLY <2>4, <3>2
  <2>9. /\ Reading(g[k + 1]) /\ g[k + 1].err = "SUCCESS" /\ g[k + 1].off = Len(f[k + 1].bits)
        /\ Len(g[k + 1].obj) = Len(g[k].obj) + 1
        /\ \A i \in 1..Len(g[k].obj) : g[k + 1].obj[i] = g[k].obj[i]
        /\ ElementSurvives(e, v[k + 1], g[k + 1].obj[Len(g[k].obj) + 1])
    BY ONLY <2>7, <2>8 DEF ElementBack, OneMoreGood, ReadOneMore
  <2>10. Len(g[k].obj) = k /\ \A i \in 1..k : ElementSurvives(e, v[i], g[k].obj[i])
    BY ONLY <2>1
  <2>11. \A i \in 1..(k + 1) : i \in 1..k \/ i = k + 1
    OBVIOUS
  <2>12. \A i \in 1..(k + 1) : ElementSurvives(e, v[i], g[k + 1].obj[i])
    BY ONLY <2>9, <2>10, <2>11
  <2>13. Good(k + 1)
    BY ONLY <2>9, <2>10, <2>12
  <2> HIDE DEF Good
  <2> QED
    BY ONLY <2>1, <2>13
<1> HIDE DEF A
<1>8. n \in A
  <2>1. \A k \in 0..n : k \in A
    BY <1>1, <1>6, <1>7, InductionUpTo
  <2> QED
    BY <1>1, <2>1
<1>9. Good(n)
  BY <1>8 DEF A
<1> DEFINE last == g[n]
           after == [last EXCEPT !.obj = Append(at.obj, last.obj)]
           end == Len(f[n].bits)
<1>10. ReadArray(e, n, buf, at) = after /\ Len(WriteArray(e, v, out).bits) = end
  BY ONLY <1>2, <1>3
<1>11. /\ Reading(last) /\ last.err = "SUCCESS" /\ last.off = end /\ Len(last.obj) = n
       /\ \A i \in 1..n : ElementSurvives(e, v[i], last.obj[i])
  BY ONLY <1>9
<1> HIDE DEF last, end
<1> DEFINE obj == Append(at.obj, last.obj)
<1>12. obj[Len(at.obj) + 1] = last.obj
  <2>1. Sequence(at.obj)
    BY Zenon DEF Reading
  <2> QED
    BY ONLY <2>1, AppendTo, ZenonT(60)
<1>13. after = [err |-> last.err, off |-> last.off, obj |-> obj]
  <2> HIDE DEF obj
  <2>1. after = [last EXCEPT !.obj = obj]
    BY DEF obj
  <2> HIDE DEF after
  <2> QED
    BY ONLY <1>11, <2>1 DEF Reading
<1> HIDE DEF obj, after
<1>14. after.err = last.err /\ after.off = last.off /\ after.obj = obj
  BY ONLY <1>13
<1>15. DOMAIN v = 1..n /\ DOMAIN last.obj = 1..n
  BY ONLY <1>1, <1>11, Sequence(v) DEF Reading, Sequence, n
<1>16. ArrayBack(e, v, end, at, after)
  BY ONLY <1>11, <1>12, <1>14, <1>15 DEF ArrayBack, n
<1> QED
  BY ONLY <1>10, <1>16 DEF n

(* and any array. *)
LEMMA ArrayIsBack ==
  ASSUME NestedWrites, NestedReads, NestedRounds,
         NEW out, Writing(out), out.err = "SUCCESS",
         NEW e, Element(e), ExactElement(e),
         NEW v, Sequence(v), \A k \in 1..Len(v) : ElementObject(e, v[k]),
         WriteArray(e, v, out).err = "SUCCESS",
         NEW buf \in Buffers, Begins(buf, WriteArray(e, v, out).bits),
         NEW at, Reading(at), at.err = "SUCCESS", at.off = Len(out.bits)
  PROVE  ArrayBack(e, v, Len(WriteArray(e, v, out).bits), at, ReadArray(e, Len(v), buf, at))
<1>1. CASE IsNumber(e)
  BY <1>1, NumbersBack
<1>2. CASE IsNested(e) /\ ~Scalar(e)
  BY <1>2, ElementsBack
<1> QED
  BY <1>1, <1>2, ElementKinds

(* A member that was written is read back from where it was written:       *)
MemberBack(e, v, end, at, got) ==
  /\ got.err = "SUCCESS" /\ got.off = end
  /\ MemberSurvives(e, v, got.obj[Len(at.obj) + 1])

(* an array with its length, *)
LEMMA CountBack ==
  ASSUME NEW before \in Buffers, NEW e, IsArray(e), NEW n \in Nat, n <= e.capacity,
         e.kind = "fixed" => n = e.capacity,
         NEW buf, Begins(buf, before \o BitsOf(n, PrefixWidth(e)))
  PROVE  CountRead(e, buf, Len(before)) = n
<1> DEFINE w == PrefixWidth(e)
<1>1. CASE e.kind = "upto"
  <2>1. PICK after \in Buffers : buf = (before \o BitsOf(n, w)) \o after
    BY DEF Begins
  <2>2. w = LengthWidth(e.capacity)
    BY ONLY <1>1 DEF PrefixWidth
  <2>3. CountRead(e, buf, Len(before)) = NumberOf(Taken(buf, Len(before), w))
    BY ONLY <1>1 DEF CountRead
  <2> HIDE DEF w
  <2> DEFINE capacity == e.capacity
  <2>4. capacity \in Nat /\ capacity <= 65535 /\ n \in 0..capacity
    <3>1. capacity \in Nat /\ capacity <= MaxSize
      BY CapacityIsNat
    <3> HIDE DEF capacity
    <3>2. n <= capacity
      BY DEF capacity
    <3> QED
      BY ONLY <3>1, <3>2, n \in Nat DEF MaxSize
  <2> HIDE DEF capacity
  <2>5. NumberOf(Taken((before \o BitsOf(n, LengthWidth(capacity))) \o after,
                       Len(before), LengthWidth(capacity))) = n
    BY ONLY <2>4, before \in Buffers, after \in Buffers, CountReadBack
  <2> QED
    BY ONLY <2>1, <2>2, <2>3, <2>5 DEF capacity
<1>2. CASE e.kind # "upto"
  BY <1>2 DEF CountRead, IsArray, Array
<1> QED
  BY <1>1, <1>2

(* An array is read back with its length before it. *)
LEMMA CountedIsBack ==
  ASSUME NestedWrites, NestedReads, NestedRounds,
         NEW out, Writing(out), out.err = "SUCCESS",
         NEW e, IsArray(e), ~Scalar(e), e.kind # "void", ExactMember(e), NEW v, MemberObject(e, v),
         Write(e, v, out).err = "SUCCESS",
         NEW buf \in Buffers, Begins(buf, Write(e, v, out).bits),
         NEW at, Reading(at), at.err = "SUCCESS", at.off = Len(out.bits)
  PROVE  MemberBack(e, v, Len(Write(e, v, out).bits), at, Read(e, buf, at))
<1> DEFINE n == Len(v)
           w == PrefixWidth(e)
           prefix == BitsOf(n, w)
           counted == Put(out, prefix)
           after == WriteArray(e.of, v, counted)
           moved == [at EXCEPT !.off = at.off + w]
<1>1. Write(e, v, out) = IF TooMany(n, e.capacity) THEN Fail(out, "BAD_ARRAY_LENGTH")
                         ELSE after
  BY ONLY IsArray(e), ~Scalar(e), e.kind # "void" DEF Write, IsArray
<1>2. /\ Sequence(v) /\ \A k \in 1..n : ElementObject(e.of, v[k])
      /\ e.kind = "fixed" => n = e.capacity
  BY ArrayMember
<1>3. n \in Nat /\ e.capacity \in Nat
  BY <1>2, CapacityIsNat DEF Sequence
<1>4. ~TooMany(n, e.capacity)
  <2>1. Fail(out, "BAD_ARRAY_LENGTH").err = "BAD_ARRAY_LENGTH"
    BY FailIsWritten DEF WriteErrors
  <2> HIDE DEF after
  <2> QED
    BY ONLY <1>1, <2>1, Write(e, v, out).err = "SUCCESS"
<1>5. Write(e, v, out) = after /\ n <= e.capacity
  BY ONLY <1>1, <1>3, <1>4 DEF TooMany
<1>6. Element(e.of) /\ ExactElement(e.of)
  <2>1. Element(e.of) /\ Array(e)
    BY Zenon DEF IsArray
  <2>2. ExactElement(e.of)
    BY ONLY <2>1, e.kind # "void", ExactMember(e) DEF ExactMember
  <2> QED
    BY <2>1, <2>2
<1>7. prefix \in Buffers /\ Len(prefix) = w /\ w \in Nat
  BY <1>3, PrefixBits
<1>8. Read(e, buf, at) = ReadCounted(e, CountRead(e, buf, at.off), buf, at)
  BY ONLY IsArray(e), ~Scalar(e), e.kind # "void" DEF Read, IsArray
<1> HIDE DEF prefix, w
<1>9. /\ Writing(counted) /\ counted.err = "SUCCESS" /\ counted.bits = out.bits \o prefix
      /\ Len(counted.bits) = Len(out.bits) + w
  BY <1>7, PutIsWritten
<1> HIDE DEF counted, n
<1>10. ArrayWritten(e.of, v, counted, after)
  BY <1>2, <1>6, <1>9, ArrayIsWritten DEF n
<1>11. after.err = "SUCCESS" /\ Begins(buf, after.bits)
  BY ONLY <1>5, Write(e, v, out).err = "SUCCESS", Begins(buf, Write(e, v, out).bits)
<1>12. Begins(buf, counted.bits)
  <2>1. Begins(after.bits, counted.bits)
    BY ONLY <1>10, <1>11 DEF ArrayWritten, WroteMore
  <2>2. counted.bits \in Buffers
    BY ONLY <1>9 DEF Writing
  <2> QED
    BY ONLY <1>11, <2>1, <2>2, BeginsTransitive
<1>13. CountRead(e, buf, at.off) = n
  <2>1. Begins(buf, out.bits \o BitsOf(n, PrefixWidth(e))) /\ out.bits \in Buffers
    BY ONLY <1>9, <1>12, Writing(out) DEF prefix, w, Writing
  <2>2. CountRead(e, buf, Len(out.bits)) = n
    BY <1>2, <1>3, <1>5, <2>1, CountBack DEF n
  <2> QED
    BY ONLY <2>2, at.off = Len(out.bits)
<1>14. Reading(moved) /\ moved.err = "SUCCESS" /\ moved.obj = at.obj /\ moved.off = Len(counted.bits)
  <2>1. at.off + w \in Nat
    BY <1>7 DEF Reading
  <2>2. Reading(moved) /\ moved.err = at.err /\ moved.obj = at.obj /\ moved.off = at.off + w
    BY <2>1, MovedIsRead
  <2> HIDE DEF moved
  <2> QED
    BY ONLY <1>9, <2>2, at.err = "SUCCESS", at.off = Len(out.bits)
<1>15. Read(e, buf, at) = ReadArray(e.of, n, buf, moved)
  <2>1. ~Overfull(n, e.capacity)
    BY ONLY <1>3, <1>5 DEF Overfull
  <2>2. ReadCounted(e, n, buf, at) = ReadArray(e.of, n, buf, moved)
    BY ONLY <2>1, Zenon DEF ReadCounted, moved, w
  <2> QED
    BY ONLY <1>8, <1>13, <2>2
<1> HIDE DEF moved
<1>16. ArrayBack(e.of, v, Len(after.bits), moved, ReadArray(e.of, n, buf, moved))
  BY <1>2, <1>6, <1>9, <1>11, <1>14, ArrayIsBack DEF n
<1> HIDE DEF after
<1> DEFINE got == ReadArray(e.of, n, buf, moved)
           x == got.obj[Len(at.obj) + 1]
<1>17. /\ got.err = "SUCCESS" /\ got.off = Len(after.bits) /\ DOMAIN v = DOMAIN x
       /\ \A k \in 1..n : ElementSurvives(e.of, v[k], x[k])
  BY ONLY <1>14, <1>16 DEF ArrayBack, n
<1> HIDE DEF got, x
<1>18. MemberSurvives(e, v, x)
  <2>1. Array(e) /\ e.kind # "void"
    BY ONLY IsArray(e) DEF IsArray, Array
  <2>2. DOMAIN v = 1..n
    BY ONLY <1>2 DEF Sequence, n
  <2> QED
    BY ONLY <1>17, <2>1, <2>2 DEF MemberSurvives
<1>19. MemberBack(e, v, Len(after.bits), at, got)
  BY ONLY <1>17, <1>18 DEF MemberBack, x
<1> QED
  BY ONLY <1>5, <1>15, <1>19 DEF got

(* and any member. *)
LEMMA MemberIsBack ==
  ASSUME NestedWrites, NestedReads, NestedRounds,
         NEW out, Writing(out), out.err = "SUCCESS",
         NEW e, Member(e), ExactMember(e), NEW v, MemberObject(e, v),
         Write(e, v, out).err = "SUCCESS",
         NEW buf \in Buffers, Begins(buf, Write(e, v, out).bits),
         NEW at, Reading(at), at.err = "SUCCESS", at.off = Len(out.bits)
  PROVE  MemberBack(e, v, Len(Write(e, v, out).bits), at, Read(e, buf, at))
<1>1. CASE IsNumber(e) /\ ~Array(e) /\ e.kind # "void"
  <2> DEFINE bits == OnWire(e, v)
             x == ReadScalar(e, buf, at.off)
  <2>1. Scalar(e) /\ e \in Numbers /\ v \in InC(e)
    <3>1. Scalar(e)
      BY <1>1 DEF IsNumber
    <3>2. e \in Numbers
      BY ONLY <1>1, <3>1, ExactMember(e) DEF ExactMember, ExactElement
    <3>3. v \in InC(e)
      BY ONLY <1>1, <3>1, MemberObject(e, v) DEF MemberObject, ElementObject
    <3> QED
      BY <3>1, <3>2, <3>3
  <2>2. Write(e, v, out) = Put(out, bits) /\ Read(e, buf, at) = Got(at, e.width, x)
    BY ONLY <1>1, <2>1 DEF Write, Read
  <2>3. bits \in Buffers /\ Len(bits) = e.width /\ e.width \in Nat
    <3>1. e \in Numbers \cup Halves
      BY <2>1
    <3> QED
      BY <2>1, <3>1, WireBits
  <2>4. out.bits \in Buffers
    BY DEF Writing
  <2> HIDE DEF bits
  <2>5. Put(out, bits).bits = out.bits \o bits /\ Len(Put(out, bits).bits) = Len(out.bits) + e.width
    BY <2>3, PutIsWritten
  <2>6. PICK after \in Buffers : buf = (out.bits \o bits) \o after
    BY ONLY <2>2, <2>5, Begins(buf, Write(e, v, out).bits) DEF Begins
  <2>7. SurvivesScalar(e, v, x)
    <3>1. SurvivesScalar(e, v, ReadScalar(e, (out.bits \o OnWire(e, v)) \o after, Len(out.bits)))
      BY <2>1, <2>4, NumberReadBack
    <3> QED
      BY ONLY <2>6, <3>1, at.off = Len(out.bits) DEF bits
  <2> HIDE DEF x
  <2>8. /\ Got(at, e.width, x).obj[Len(at.obj) + 1] = x
        /\ Got(at, e.width, x).err = at.err /\ Got(at, e.width, x).off = at.off + e.width
    BY ONLY <2>3, Reading(at), GotOneMore
  <2>9. MemberSurvives(e, v, x)
    BY ONLY <1>1, <2>1, <2>7 DEF MemberSurvives, ElementSurvives
  <2> QED
    BY ONLY <2>2, <2>5, <2>8, <2>9, at.err = "SUCCESS", at.off = Len(out.bits) DEF MemberBack
<1>2. CASE IsVoid(e) /\ ~Scalar(e) /\ ~Array(e)
  <2> DEFINE bits == Zeros(e.width)
             x == <<>>
  <2>1. e.width \in Nat /\ e.kind = "void"
    BY ONLY <1>2 DEF IsVoid
  <2>2. Write(e, v, out) = Put(out, bits) /\ Read(e, buf, at) = Got(at, e.width, x)
    BY ONLY <1>2, <2>1 DEF Write, Read
  <2>3. bits \in Buffers /\ Len(bits) = e.width
    BY <2>1, ZerosType
  <2> HIDE DEF bits
  <2>4. Len(Put(out, bits).bits) = Len(out.bits) + e.width
    BY <2>3, PutIsWritten
  <2>5. MemberSurvives(e, v, x)
    BY ONLY <1>2, <2>1, MemberObject(e, v) DEF MemberObject, MemberSurvives
  <2> HIDE DEF x
  <2>6. /\ Got(at, e.width, x).obj[Len(at.obj) + 1] = x
        /\ Got(at, e.width, x).err = at.err /\ Got(at, e.width, x).off = at.off + e.width
    BY ONLY <2>1, Reading(at), GotOneMore
  <2> QED
    BY ONLY <2>2, <2>4, <2>5, <2>6, at.err = "SUCCESS", at.off = Len(out.bits) DEF MemberBack
<1>3. CASE IsArray(e) /\ ~Scalar(e) /\ e.kind # "void"
  BY <1>3, CountedIsBack
<1>4. CASE IsNested(e) /\ ~Scalar(e) /\ ~Array(e) /\ e.kind # "void"
  <2>1. Write(e, v, out) = WriteNested(e, v, out) /\ Read(e, buf, at) = ReadNested(e, buf, at)
    BY ONLY <1>4 DEF Write, Read
  <2>2. ElementObject(e, v) /\ ExactElement(e)
    BY ONLY <1>4, MemberObject(e, v), ExactMember(e) DEF MemberObject, ExactMember
  <2>3. WriteNested(e, v, out).err = "SUCCESS" /\ Begins(buf, WriteNested(e, v, out).bits)
    BY ONLY <2>1, Write(e, v, out).err = "SUCCESS", Begins(buf, Write(e, v, out).bits)
  <2>4. ElementBack(e, v, Len(WriteNested(e, v, out).bits), at, ReadNested(e, buf, at))
    BY <1>4, <2>2, <2>3, NestedReadBack
  <2>5. \A w : ElementSurvives(e, v, w) => MemberSurvives(e, v, w)
    BY ONLY <1>4 DEF MemberSurvives
  <2> QED
    BY ONLY <2>1, <2>4, <2>5 DEF ElementBack, MemberBack
<1> QED
  BY <1>1, <1>2, <1>3, <1>4, MemberKinds

-----------------------------------------------------------------------------
(* The option of a union is read back. *)
LEMMA TagBack ==
  ASSUME NEW t, Schema(t), t.kind = "union", NEW tag, tag \in DOMAIN t.members,
         NEW buf, Begins(buf, WrittenTag(t, tag).bits)
  PROVE  TagRead(buf) = tag
<1> DEFINE n == Len(t.members)
<1>1. n \in 1..256 /\ DOMAIN t.members = 1..n
  <2>1. t.kind = "union" => n \in 1..256
    BY Zenon DEF Schema
  <2>2. DOMAIN t.members = 1..n
    BY Zenon DEF Schema
  <2> QED
    BY ONLY <2>1, <2>2, t.kind = "union"
<1> HIDE DEF n
<1>2. tag \in Nat /\ tag - 1 \in 0..255
  <2>1. tag \in 1..n
    BY ONLY <1>1, tag \in DOMAIN t.members, Zenon
  <2> QED
    BY ONLY <1>1, <2>1
<1>3. WrittenTag(t, tag).bits = BitsOf(tag - 1, 8)
  <2>1. t.kind = "union" => tag \in DOMAIN t.members
    OBVIOUS
  <2> QED
    BY <2>1, WritingBegins
<1>4. PICK after \in Buffers : buf = BitsOf(tag - 1, 8) \o after
  BY ONLY <1>3, Begins(buf, WrittenTag(t, tag).bits) DEF Begins
<1> DEFINE count == tag - 1
<1>5. BitsOf(count, 8) \in Buffers /\ <<>> \in Buffers
  <2>1. count \in Nat /\ 8 \in 0..31
    BY ONLY <1>2
  <2>2. BitsOf(count, 8) \in Buffers
    BY <2>1, BitsOfNumber
  <2> QED
    BY <2>2 DEF Buffers
<1>6. count \in 0..255 /\ tag = count + 1
  BY ONLY <1>2
<1> HIDE DEF count
<1>7. <<>> \o BitsOf(count, 8) = BitsOf(count, 8) /\ Len(<<>>) = 0
  BY <1>5, ConcatEmptySeq DEF Buffers
<1>8. NumberOf(Taken((<<>> \o BitsOf(count, 8)) \o after, Len(<<>>), 8)) = count
  <2> DEFINE capacity == 255
             before == <<>>
  <2>1. capacity \in Nat /\ capacity <= 65535 /\ count \in 0..capacity /\ LengthWidth(capacity) = 8
    BY ONLY <1>6 DEF LengthWidth
  <2>2. before \in Buffers
    BY ONLY <1>5, Zenon
  <2> HIDE DEF capacity, before
  <2>3. NumberOf(Taken((before \o BitsOf(count, LengthWidth(capacity))) \o after, Len(before),
                       LengthWidth(capacity))) = count
    BY ONLY <2>1, <2>2, after \in Buffers, CountReadBack
  <2>4. NumberOf(Taken((before \o BitsOf(count, 8)) \o after, Len(before), 8)) = count
    BY ONLY <2>1, <2>3
  <2> QED
    BY ONLY <2>4 DEF before
<1>9. NumberOf(Taken(buf, 0, 8)) = count
  BY ONLY <1>4, <1>7, <1>8 DEF count
<1> QED
  BY ONLY <1>6, <1>9, SMTT(30) DEF TagRead

(* All the members that were written are read back.                        *)
MembersBack(t, v, at) ==
  LET present == Present(t, v.tag)
  IN /\ Reading(at) /\ at.err = "SUCCESS"
     /\ at.off = Len(WriteMembers(t, v.tag, Values(t, v)).bits)
     /\ Len(at.obj) = Len(present)
     /\ \A k \in 1..Len(present) : MemberSurvives(present[k], Values(t, v)[k], at.obj[k])

(* They are, one after the other. *)
LEMMA MembersAreBack ==
  ASSUME NestedWrites, NestedReads, NestedRounds,
         NEW t, Schema(t), Exact(t), NEW v, Object(t, v),
         WriteMembers(t, v.tag, Values(t, v)).err = "SUCCESS",
         NEW buf \in Buffers, Begins(buf, WriteMembers(t, v.tag, Values(t, v)).bits),
         NEW tag, Present(t, tag) = Present(t, v.tag), t.kind = "union" => tag = v.tag
  PROVE  /\ MembersBack(t, v, ReadMembers(t, tag, buf))
         /\ Begins(buf, WrittenTag(t, v.tag).bits)
<1> DEFINE present == Present(t, v.tag)
           n == Len(present)
           values == Values(t, v)
           begin == WrittenTag(t, v.tag)
           written == WriteMembers(t, v.tag, values)
<1>1. ObjectMembers(t, v) /\ (t.kind = "union" => v.tag \in DOMAIN t.members)
  BY ObjectHasMembers
<1>2. n \in Nat /\ DOMAIN present = 1..n /\ \A k \in 1..n : Member(present[k])
  BY <1>1, PresentMembers
<1>3. \A k \in 1..n : MemberObject(present[k], values[k])
  BY <1>1, Zenon DEF ObjectMembers
<1>4. \A k \in 1..n : ExactMember(present[k])
  <2>1. CASE t.kind = "struct"
    <3>1. present = t.members
      BY ONLY <2>1 DEF Present
    <3> HIDE DEF present
    <3> QED
      BY ONLY <1>2, <3>1, Exact(t) DEF Exact
  <2>2. CASE t.kind # "struct"
    <3>1. t.kind = "union"
      BY <2>2, Zenon DEF Schema
    <3>2. present = <<t.members[v.tag]>> /\ v.tag \in DOMAIN t.members
      BY ONLY <1>1, <2>2, <3>1 DEF Present
    <3> DEFINE x == t.members[v.tag]
    <3>3. ExactMember(x)
      BY ONLY <3>2, Exact(t) DEF Exact
    <3>4. n = 1
      BY <1>1, <2>2, PresentMembers
    <3>5. present = <<x>>
      BY ONLY <3>2
    <3> HIDE DEF x, n, present
    <3>6. \A k \in 1..n : k = 1
      BY ONLY <3>4
    <3> QED
      BY ONLY <3>3, <3>5, <3>6
  <2> QED
    BY <2>1, <2>2
<1>5. Writing(begin) /\ begin.err = "SUCCESS" /\ Len(begin.bits) = IF t.kind = "union" THEN 8 ELSE 0
  BY <1>1, WritingBegins
<1>6. PICK f : /\ f[0] = begin
               /\ \A k \in 1..n : f[k] = IF f[k - 1].err = "SUCCESS"
                                         THEN Write(present[k], values[k], f[k - 1]) ELSE f[k - 1]
               /\ written = f[n]
  BY <1>2, MembersWrittenInTurn DEF WrittenTag
<1>7. PICK g : /\ g[0] = ReadTag(t)
               /\ \A k \in 1..n : g[k] = IF g[k - 1].err = "SUCCESS"
                                         THEN Read(present[k], buf, g[k - 1]) ELSE g[k - 1]
               /\ ReadMembers(t, tag, buf) = g[n]
  <2>1. ~(t.kind = "union" /\ tag \notin DOMAIN t.members)
    BY ONLY <1>1, t.kind = "union" => tag = v.tag
  <2>2. Len(Present(t, tag)) \in Nat
    BY <1>2
  <2> QED
    BY <2>1, <2>2, MembersReadInTurn
<1>8. Reading(ReadTag(t)) /\ ReadTag(t).err = "SUCCESS" /\ ReadTag(t).obj = <<>>
      /\ ReadTag(t).off = IF t.kind = "union" THEN 8 ELSE 0
  BY ReadingBegins
<1>9. written.err = "SUCCESS" /\ Begins(buf, written.bits)
  BY Zenon
<1> HIDE DEF present, values, n, begin, written
<1>10. AllSucceeded(f, n)
  <2>1. ASSUME NEW k \in 1..n, f[k - 1].err = "SUCCESS", Writing(f[k - 1])
        PROVE  WroteSome(f[k - 1], f[k])
    <3>1. f[k] = Write(present[k], values[k], f[k - 1]) /\ MemberObject(present[k], values[k])
          /\ Member(present[k])
      BY ONLY <1>2, <1>3, <1>6, <2>1
    <3>2. MemberWritten(present[k], values[k], f[k - 1], Write(present[k], values[k], f[k - 1]))
      BY <2>1, <3>1, MemberIsWritten
    <3> QED
      BY ONLY <3>1, <3>2 DEF MemberWritten, WroteMore, WroteSome
  <2>2. WrittenInTurn(f, n)
    <3>1. Writing(f[0])
      BY ONLY <1>5, <1>6
    <3>2. \A k \in 1..n : f[k - 1].err # "SUCCESS" => f[k] = f[k - 1]
      BY ONLY <1>6
    <3> QED
      BY ONLY <2>1, <3>1, <3>2 DEF WrittenInTurn
  <2>3. f[n].err = "SUCCESS"
    BY ONLY <1>6, <1>9
  <2> QED
    BY ONLY <1>2, <2>2, <2>3, AllWritten
<1>11. ASSUME NEW k \in 0..n
       PROVE  f[k].err = "SUCCESS" /\ Writing(f[k]) /\ Begins(buf, f[k].bits)
  <2>1. f[k].err = "SUCCESS" /\ Writing(f[k]) /\ Begins(f[n].bits, f[k].bits)
    BY ONLY <1>10, <1>11 DEF AllSucceeded
  <2>2. Begins(buf, f[n].bits) /\ f[k].bits \in Buffers
    BY ONLY <1>6, <1>9, <2>1 DEF Writing
  <2> QED
    BY ONLY <2>1, <2>2, BeginsTransitive
<1> DEFINE Good(k) == /\ Reading(g[k]) /\ g[k].err = "SUCCESS" /\ g[k].off = Len(f[k].bits)
                      /\ Len(g[k].obj) = k
                      /\ \A i \in 1..k : MemberSurvives(present[i], values[i], g[k].obj[i])
           A == {k \in 0..n : Good(k)}
<1>12. 0 \in A
  <2>1. Len(<<>>) = 0
    OBVIOUS
  <2>2. Good(0)
    BY ONLY <1>5, <1>6, <1>7, <1>8, <2>1
  <2> HIDE DEF Good
  <2> QED
    BY ONLY <1>2, <2>2
<1>13. ASSUME NEW k \in 0..(n - 1), k \in A
       PROVE  k + 1 \in A
  <2>1. Good(k) /\ k \in 0..n /\ k + 1 \in 0..n /\ k + 1 \in 1..n /\ (k + 1) - 1 = k
    BY ONLY <1>2, <1>13, k \in 0..(n - 1)
  <2> DEFINE e == present[k + 1]
             x == values[k + 1]
  <2>2. Member(e) /\ ExactMember(e) /\ MemberObject(e, x)
    BY ONLY <1>2, <1>3, <1>4, <2>1
  <2>3. f[k].err = "SUCCESS" /\ Writing(f[k])
    BY ONLY <1>11, <2>1
  <2>4. f[k + 1] = Write(e, x, f[k])
    BY ONLY <1>6, <2>1, <2>3
  <2>5. Reading(g[k]) /\ g[k].err = "SUCCESS" /\ g[k].off = Len(f[k].bits)
    BY ONLY <2>1
  <2>6. g[k + 1] = Read(e, buf, g[k])
    BY ONLY <1>7, <2>1, <2>5
  <2>7. f[k + 1].err = "SUCCESS" /\ Begins(buf, f[k + 1].bits)
    BY ONLY <1>11, <2>1
  <2> HIDE DEF e, x
  <2>8. MemberBack(e, x, Len(f[k + 1].bits), g[k], g[k + 1])
    <3>1. Write(e, x, f[k]).err = "SUCCESS" /\ Begins(buf, Write(e, x, f[k]).bits)
      BY ONLY <2>4, <2>7
    <3>2. MemberBack(e, x, Len(Write(e, x, f[k]).bits), g[k], Read(e, buf, g[k]))
      BY <2>2, <2>3, <2>5, <3>1, MemberIsBack
    <3> QED
      BY ONLY <2>4, <2>6, <3>2
  <2>9. OneMoreMember(e, buf, g[k], g[k + 1])
    <3>1. OneMoreMember(e, buf, g[k], Read(e, buf, g[k]))
      BY <2>2, <2>5, MemberRead
    <3> QED
      BY ONLY <2>6, <3>1
  <2>10. /\ Reading(g[k + 1]) /\ g[k + 1].err = "SUCCESS" /\ g[k + 1].off = Len(f[k + 1].bits)
         /\ Len(g[k + 1].obj) = Len(g[k].obj) + 1
         /\ \A i \in 1..Len(g[k].obj) : g[k + 1].obj[i] = g[k].obj[i]
         /\ MemberSurvives(e, x, g[k + 1].obj[Len(g[k].obj) + 1])
    BY ONLY <2>8, <2>9 DEF MemberBack, OneMoreMember, ReadOneMore
  <2>11. Len(g[k].obj) = k /\ \A i \in 1..k : MemberSurvives(present[i], values[i], g[k].obj[i])
    BY ONLY <2>1
  <2>12. \A i \in 1..(k + 1) : i \in 1..k \/ i = k + 1
    BY ONLY <1>2, k \in 0..(n - 1)
  <2>13. \A i \in 1..(k + 1) : MemberSurvives(present[i], values[i], g[k + 1].obj[i])
    BY ONLY <2>10, <2>11, <2>12 DEF e, x
  <2>14. Good(k + 1)
    BY ONLY <2>10, <2>11, <2>13
  <2> HIDE DEF Good
  <2> QED
    BY ONLY <2>1, <2>14
<1> HIDE DEF A
<1>14. Good(n)
  <2>1. \A k \in 0..n : k \in A
    BY ONLY <1>2, <1>12, <1>13, InductionUpTo
  <2>2. n \in A
    BY ONLY <1>2, <2>1
  <2> QED
    BY ONLY <2>2 DEF A
<1>15. MembersBack(t, v, ReadMembers(t, tag, buf))
  BY ONLY <1>6, <1>7, <1>14 DEF MembersBack, present, n, values, written
<1>16. Begins(buf, begin.bits)
  <2>1. 0 \in 0..n
    BY ONLY <1>2
  <2> QED
    BY ONLY <1>6, <1>11, <2>1
<1> QED
  BY ONLY <1>15, <1>16 DEF begin

-----------------------------------------------------------------------------
(* What the types in X promise, X promises as well: an object of a type    *)
(* without halves is read back from what it was written as, whatever comes *)
(* after it, and the reader is told the bytes it was written in.           *)
Rounds ==
  \A t, v, after :
    /\ Schema(t) /\ Exact(t) /\ Object(t, v) /\ after \in Buffers
    /\ Serialized(t, v).err = "SUCCESS"
    => LET out == Serialized(t, v)
           read == Deserialized(t, out.bits \o after)
       IN /\ read.err = "SUCCESS" /\ read.size = Len(out.bits) \div 8
          /\ Survives(t, v, read.obj)

(* A union is read back by its tag, a struct member by member. *)
THEOREM SerializedIsRead == NestedWrites /\ NestedReads /\ NestedRounds => Rounds
<1> SUFFICES ASSUME NestedWrites, NestedReads, NestedRounds,
                    NEW t, NEW v, NEW after, Schema(t), Exact(t), Object(t, v), after \in Buffers,
                    Serialized(t, v).err = "SUCCESS"
             PROVE  LET out == Serialized(t, v)
                        read == Deserialized(t, out.bits \o after)
                    IN /\ read.err = "SUCCESS" /\ read.size = Len(out.bits) \div 8
                       /\ Survives(t, v, read.obj)
  BY Zenon DEF Rounds
<1> DEFINE out == Serialized(t, v)
           buf == out.bits \o after
           written == WriteMembers(t, v.tag, Values(t, v))
           tag == IF t.kind = "union" THEN TagRead(buf) ELSE 0
           at == ReadMembers(t, tag, buf)
           read == Deserialized(t, buf)
<1>1. t.kind = "union" => v.tag \in DOMAIN t.members
  BY ObjectHasMembers
<1>2. out = PutAligned(written)
  BY <1>1, Zenon DEF Serialized
<1>3. Writing(written)
  BY MembersWritten
<1> HIDE DEF written
<1>4. /\ Writing(out) /\ out.err = written.err /\ Len(out.bits) = Align(Len(written.bits))
      /\ Begins(out.bits, written.bits)
  <2> DEFINE zeros == Zeros(Align(Len(written.bits)) - Len(written.bits))
  <2>1. /\ Writing(PutAligned(written)) /\ PutAligned(written).err = written.err
        /\ PutAligned(written).bits = written.bits \o zeros /\ zeros \in Buffers
        /\ Len(PutAligned(written).bits) = Align(Len(written.bits))
    BY <1>3, AlignedIsWritten
  <2> HIDE DEF zeros
  <2> QED
    BY ONLY <1>2, <2>1 DEF Begins
<1>5. written.err = "SUCCESS"
  BY ONLY <1>4, Serialized(t, v).err = "SUCCESS"
<1> HIDE DEF out
<1>6. /\ buf \in Buffers /\ Begins(buf, written.bits) /\ Len(buf) = Len(out.bits) + Len(after)
      /\ Len(out.bits) \in Nat /\ Len(after) \in Nat
  <2>1. out.bits \in Buffers /\ written.bits \in Buffers
    BY ONLY <1>3, <1>4 DEF Writing
  <2>2. buf \in Buffers /\ Len(buf) = Len(out.bits) + Len(after) /\ Len(out.bits) \in Nat /\ Len(after) \in Nat
    BY <2>1, PutAfter
  <2>3. Begins(buf, out.bits)
    BY after \in Buffers DEF Begins
  <2> HIDE DEF buf
  <2>4. Begins(buf, written.bits)
    BY ONLY <1>4, <2>1, <2>3, BeginsTransitive
  <2> QED
    BY ONLY <2>2, <2>4
<1> HIDE DEF buf
<1>7. Begins(buf, WrittenTag(t, v.tag).bits)
  <2>1. Present(t, v.tag) = Present(t, v.tag) /\ (t.kind = "union" => v.tag = v.tag)
    OBVIOUS
  <2> QED
    BY <1>5, <1>6, <2>1, MembersAreBack DEF written
<1>8. Present(t, tag) = Present(t, v.tag) /\ (t.kind = "union" => tag = v.tag)
  <2>1. CASE t.kind = "union"
    <3>1. TagRead(buf) = v.tag
      BY <1>1, <1>7, <2>1, TagBack
    <3> QED
      BY <2>1, <3>1
  <2>2. CASE t.kind # "union"
    <3>1. t.kind = "struct"
      BY <2>2, Zenon DEF Schema
    <3> QED
      BY ONLY <3>1 DEF Present
  <2> QED
    BY <2>1, <2>2
<1>9. /\ read.err = at.err /\ read.size = Lesser(Align(at.off), Len(buf)) \div 8
      /\ read.err = "SUCCESS" => read.obj = ObjectRead(t, tag, at)
  BY DEF Deserialized, Result, ObjectRead
<1> HIDE DEF tag, read
<1>10. MembersBack(t, v, at)
  BY <1>5, <1>6, <1>8, MembersAreBack DEF written
<1>11. MembersGood(t, tag, buf, at)
  <2>1. t.kind = "union" => tag \in DOMAIN t.members
    BY <1>1, <1>8
  <2> QED
    BY <1>6, <2>1, MembersRead
<1> HIDE DEF at
<1>12. at.err = "SUCCESS" /\ at.off = Len(written.bits) /\ Reading(at)
  BY ONLY <1>10 DEF MembersBack, written
<1>13. read.size = Len(out.bits) \div 8
  <2>1. Lesser(Len(out.bits), Len(buf)) = Len(out.bits)
    BY ONLY <1>6 DEF Lesser
  <2> QED
    BY ONLY <1>4, <1>9, <1>12, <2>1
<1> DEFINE w == ObjectRead(t, tag, at)
<1>14. Survives(t, v, w)
  <2> DEFINE present == Present(t, v.tag)
  <2>1. /\ Len(at.obj) = Len(present)
        /\ \A k \in 1..Len(present) : MemberSurvives(present[k], Values(t, v)[k], at.obj[k])
    BY ONLY <1>10 DEF MembersBack
  <2>2. /\ \A k \in 1..Len(Present(t, tag)) : MemberGood(Present(t, tag)[k], at.obj[k])
        /\ Len(at.obj) = Len(Present(t, tag))
    BY ONLY <1>11, <1>12 DEF MembersGood
  <2>3. /\ \A k \in 1..Len(Present(t, tag)) : Values(t, w)[k] = at.obj[k]
        /\ t.kind = "union" => w.tag = tag
    <3>1. t.kind = "union" => tag \in DOMAIN t.members
      BY <1>1, <1>8
    <3> QED
      BY <1>12, <2>2, <3>1, MembersMakeObject
  <2>4. DOMAIN present = 1..Len(present)
    BY <1>1, PresentMembers
  <2> HIDE DEF w
  <2>5. \A k \in DOMAIN present : MemberSurvives(present[k], Values(t, v)[k], Values(t, w)[k])
    BY ONLY <1>8, <2>1, <2>3, <2>4
  <2> QED
    BY ONLY <1>8, <2>3, <2>5 DEF Survives
<1> QED
  BY ONLY <1>9, <1>12, <1>13, <1>14 DEF read, buf, out

-----------------------------------------------------------------------------
(* Of the types in X without halves: an object that is what another was is *)
(* written as the same bits.                                               *)
NestedAgain ==
  \A t, v, w :
    /\ NestedSchema(t) /\ NestedExact(t) /\ NestedObject(t, v) /\ NestedObject(t, w)
    /\ NestedSurvives(t, v, w)
    => NestedSerialize(t, w) = NestedSerialize(t, v)

(* What is done in turn has one result. *)
LEMMA InTurnAlike ==
  ASSUME NEW n \in Nat, NEW f, NEW g, f[0] = g[0],
         \A k \in 1..n : f[k - 1] = g[k - 1] => f[k] = g[k]
  PROVE  f[n] = g[n]
<1> DEFINE A == {k \in 0..n : f[k] = g[k]}
<1>1. 0 \in A
  OBVIOUS
<1>2. \A k \in 0..(n - 1) : k \in A => k + 1 \in A
  <2>1. ASSUME NEW k \in 0..(n - 1), f[k] = g[k]
        PROVE  f[k + 1] = g[k + 1] /\ k + 1 \in 0..n
    <3>1. k + 1 \in 1..n /\ (k + 1) - 1 = k /\ k + 1 \in 0..n
      OBVIOUS
    <3> QED
      BY ONLY <2>1, <3>1, \A j \in 1..n : f[j - 1] = g[j - 1] => f[j] = g[j]
  <2> QED
    BY <2>1
<1> HIDE DEF A
<1>3. \A k \in 0..n : k \in A
  BY <1>1, <1>2, InductionUpTo
<1>4. n \in A
  BY <1>3
<1> QED
  BY <1>4 DEF A

(* A type in X, *)
LEMMA NestedAlike ==
  ASSUME NestedAgain, NEW e, IsNested(e), ~Scalar(e), ExactElement(e),
         NEW v, ElementObject(e, v), NEW w, ElementObject(e, w), ElementSurvives(e, v, w), NEW out
  PROVE  WriteNested(e, w, out) = WriteNested(e, v, out)
<1>1. NestedSerialize(Composite(e), w) = NestedSerialize(Composite(e), v)
  <2>1. NestedObject(Composite(e), v) /\ NestedObject(Composite(e), w)
    BY Zenon DEF ElementObject
  <2>2. NestedSurvives(Composite(e), v, w) /\ NestedExact(Composite(e))
    BY Zenon DEF ElementSurvives, ExactElement
  <2>3. NestedSchema(Composite(e))
    BY Zenon DEF IsNested
  <2> QED
    BY ONLY NestedAgain, <2>1, <2>2, <2>3, Zenon DEF NestedAgain
<1> QED
  BY ONLY <1>1, Zenon DEF WriteNested

(* an array,                                                               *)
LEMMA ArrayAlike ==
  ASSUME NestedAgain, NEW e, Element(e), ExactElement(e), NEW v, Sequence(v), NEW w, Sequence(w),
         Len(w) = Len(v),
         \A k \in 1..Len(v) : ElementObject(e, v[k]) /\ ElementObject(e, w[k])
                              /\ ElementSurvives(e, v[k], w[k]),
         NEW out
  PROVE  WriteArray(e, w, out) = WriteArray(e, v, out)
<1> DEFINE n == Len(v)
<1>1. n \in Nat
  BY DEF Sequence
<1>2. CASE IsNumber(e)
  <2>1. Scalar(e) /\ e \in Numbers
    BY <1>2 DEF IsNumber, ExactElement
  <2>2. \A k \in 1..n : v[k] \in InC(e) /\ w[k] \in InC(e) /\ SurvivesScalar(e, v[k], w[k])
    BY <2>1 DEF ElementObject, ElementSurvives
  <2>3. v \in Seq(InC(e)) /\ w \in Seq(InC(e))
    <3>1. v \in Seq(InC(e))
      BY <2>2, SeqDef DEF Sequence
    <3>2. \A k \in 1..Len(w) : w[k] \in InC(e)
      BY ONLY <2>2, Len(w) = Len(v)
    <3>3. w \in Seq(InC(e))
      BY <3>2, SeqDef DEF Sequence
    <3> QED
      BY ONLY <3>1, <3>3
  <2>4. ArrayOnWire(e, w) = ArrayOnWire(e, v)
    BY ONLY <2>1, <2>2, <2>3, Len(w) = Len(v), NumbersAlike
  <2>5. /\ WriteArray(e, w, out) = Put(out, ArrayOnWire(e, w))
        /\ WriteArray(e, v, out) = Put(out, ArrayOnWire(e, v))
    BY <2>1, Zenon DEF WriteArray
  <2> QED
    BY ONLY <2>4, <2>5
<1>3. CASE IsNested(e) /\ ~Scalar(e)
  <2>1. PICK f : /\ f[0] = out
                 /\ \A k \in 1..Len(v) :
                      f[k] = IF f[k - 1].err = "SUCCESS"
                             THEN WriteNested(e, v[k], f[k - 1]) ELSE f[k - 1]
                 /\ WriteArray(e, v, out) = f[Len(v)]
    <3>1. Len(v) \in Nat
      BY ONLY <1>1, Len(w) = Len(v)
    <3>2. ~Scalar(e)
      BY ONLY <1>3
    <3> QED
      BY ONLY <3>1, <3>2, ElementsWrittenInTurn
  <2>2. PICK g : /\ g[0] = out
                 /\ \A k \in 1..Len(w) :
                      g[k] = IF g[k - 1].err = "SUCCESS"
                             THEN WriteNested(e, w[k], g[k - 1]) ELSE g[k - 1]
                 /\ WriteArray(e, w, out) = g[Len(w)]
    <3>1. Len(w) \in Nat
      BY ONLY <1>1, Len(w) = Len(v)
    <3>2. ~Scalar(e)
      BY ONLY <1>3
    <3> QED
      BY ONLY <3>1, <3>2, ElementsWrittenInTurn
  <2>3. ASSUME NEW k \in 1..n, f[k - 1] = g[k - 1]
        PROVE  f[k] = g[k]
    <3>1. WriteNested(e, w[k], f[k - 1]) = WriteNested(e, v[k], f[k - 1])
      BY <1>3, NestedAlike
    <3>2. f[k] = IF f[k - 1].err = "SUCCESS" THEN WriteNested(e, v[k], f[k - 1]) ELSE f[k - 1]
      BY ONLY <2>1, k \in 1..n
    <3>3. g[k] = IF g[k - 1].err = "SUCCESS" THEN WriteNested(e, w[k], g[k - 1]) ELSE g[k - 1]
      BY ONLY <2>2, k \in 1..n, Len(w) = Len(v)
    <3> QED
      BY ONLY <2>3, <3>1, <3>2, <3>3
  <2>4. f[0] = g[0]
    BY ONLY <2>1, <2>2
  <2>5. f[n] = g[n]
    BY ONLY <1>1, <2>3, <2>4, InTurnAlike
  <2> QED
    BY ONLY <2>1, <2>2, <2>5, Len(w) = Len(v)
<1> QED
  BY <1>2, <1>3, ElementKinds

(* a member,                                                               *)
LEMMA MemberAlike ==
  ASSUME NestedAgain, NEW e, Member(e), ExactMember(e), NEW v, MemberObject(e, v),
         NEW w, MemberObject(e, w), MemberSurvives(e, v, w), NEW out
  PROVE  Write(e, w, out) = Write(e, v, out)
<1>1. CASE IsNumber(e) /\ ~Array(e) /\ e.kind # "void"
  <2>1. Scalar(e) /\ e \in Numbers
    BY ONLY <1>1, ExactMember(e) DEF IsNumber, ExactMember, ExactElement
  <2>2. v \in InC(e) /\ w \in InC(e)
    BY ONLY <1>1, <2>1, MemberObject(e, v), MemberObject(e, w) DEF MemberObject, ElementObject
  <2>3. SurvivesScalar(e, v, w)
    BY ONLY <1>1, <2>1, MemberSurvives(e, v, w) DEF MemberSurvives, ElementSurvives
  <2>4. OnWire(e, w) = OnWire(e, v)
    BY ONLY <2>1, <2>2, <2>3, NumberAlike
  <2>5. Write(e, w, out) = Put(out, OnWire(e, w)) /\ Write(e, v, out) = Put(out, OnWire(e, v))
    BY ONLY <1>1, <2>1 DEF Write
  <2> QED
    BY ONLY <2>4, <2>5
<1>2. CASE IsVoid(e) /\ ~Scalar(e) /\ ~Array(e)
  <2>1. e.kind = "void"
    BY ONLY <1>2 DEF IsVoid
  <2> QED
    BY ONLY <1>2, <2>1 DEF Write
<1>3. CASE IsArray(e) /\ ~Scalar(e) /\ e.kind # "void"
  <2>1. Sequence(v) /\ \A k \in 1..Len(v) : ElementObject(e.of, v[k])
    BY <1>3, ArrayMember
  <2>2. Sequence(w) /\ \A k \in 1..Len(w) : ElementObject(e.of, w[k])
    BY <1>3, ArrayMember
  <2>3. Array(e) /\ Element(e.of)
    BY <1>3, Zenon DEF IsArray
  <2>4. ExactElement(e.of)
    BY ONLY <1>3, <2>3, ExactMember(e) DEF ExactMember
  <2>5. DOMAIN v = DOMAIN w /\ \A k \in DOMAIN v : ElementSurvives(e.of, v[k], w[k])
    BY ONLY <1>3, <2>3, MemberSurvives(e, v, w) DEF MemberSurvives
  <2>6. /\ Len(v) \in Nat /\ DOMAIN v = 1..Len(v)
        /\ Len(w) \in Nat /\ DOMAIN w = 1..Len(w)
    BY ONLY <2>1, <2>2 DEF Sequence
  <2>7. Len(w) = Len(v)
    <3>1. \A a, b \in Nat : 1..a = 1..b => a = b
      OBVIOUS
    <3>2. 1..Len(v) = 1..Len(w)
      BY ONLY <2>5, <2>6, Zenon
    <3>3. Len(v) \in Nat /\ Len(w) \in Nat
      BY ONLY <2>6, Zenon
    <3> QED
      BY ONLY <3>1, <3>2, <3>3, Zenon
  <2>8. \A k \in 1..Len(v) : ElementObject(e.of, v[k]) /\ ElementObject(e.of, w[k])
                             /\ ElementSurvives(e.of, v[k], w[k])
    BY ONLY <2>1, <2>2, <2>5, <2>6, <2>7
  <2> DEFINE counted == Put(out, BitsOf(Len(v), PrefixWidth(e)))
  <2>9. WriteArray(e.of, w, counted) = WriteArray(e.of, v, counted)
    <3> HIDE DEF counted
    <3> QED
      BY ONLY NestedAgain, <2>1, <2>2, <2>3, <2>4, <2>7, <2>8, ArrayAlike
  <2>10. /\ Write(e, v, out) = IF TooMany(Len(v), e.capacity) THEN Fail(out, "BAD_ARRAY_LENGTH")
                               ELSE WriteArray(e.of, v, Put(out, BitsOf(Len(v), PrefixWidth(e))))
         /\ Write(e, w, out) = IF TooMany(Len(w), e.capacity) THEN Fail(out, "BAD_ARRAY_LENGTH")
                               ELSE WriteArray(e.of, w, Put(out, BitsOf(Len(w), PrefixWidth(e))))
    BY ONLY <1>3, <2>3 DEF Write
  <2> QED
    BY ONLY <2>7, <2>9, <2>10
<1>4. CASE IsNested(e) /\ ~Scalar(e) /\ ~Array(e) /\ e.kind # "void"
  <2>1. Write(e, v, out) = WriteNested(e, v, out) /\ Write(e, w, out) = WriteNested(e, w, out)
    BY ONLY <1>4 DEF Write
  <2>2. ElementObject(e, v) /\ ElementObject(e, w) /\ ExactElement(e)
    BY ONLY <1>4, MemberObject(e, v), MemberObject(e, w), ExactMember(e) DEF MemberObject, ExactMember
  <2>3. ElementSurvives(e, v, w)
    BY ONLY <1>4, MemberSurvives(e, v, w) DEF MemberSurvives
  <2>4. WriteNested(e, w, out) = WriteNested(e, v, out)
    BY ONLY NestedAgain, <1>4, <2>2, <2>3, NestedAlike
  <2> QED
    BY ONLY <2>1, <2>4
<1> QED
  BY <1>1, <1>2, <1>3, <1>4, MemberKinds

(* A type without halves has none in a member. *)
LEMMA ExactMembers ==
  ASSUME NEW t, Schema(t), Exact(t), NEW tag, t.kind = "union" => tag \in DOMAIN t.members
  PROVE  \A k \in 1..Len(Present(t, tag)) : ExactMember(Present(t, tag)[k])
<1>1. \A k \in DOMAIN t.members : ExactMember(t.members[k])
  BY Zenon DEF Exact
<1>2. CASE t.kind = "struct"
  <2>1. Present(t, tag) = t.members
    BY ONLY <1>2 DEF Present
  <2>2. DOMAIN t.members = 1..Len(t.members)
    BY Zenon DEF Schema
  <2> QED
    BY ONLY <1>1, <2>1, <2>2
<1>3. CASE t.kind # "struct"
  <2>1. t.kind = "union"
    BY ONLY <1>3, Schema(t) DEF Schema
  <2>2. Present(t, tag) = <<t.members[tag]>>
    BY ONLY <1>3 DEF Present
  <2> DEFINE x == t.members[tag]
  <2>3. ExactMember(x)
    BY <1>1, <2>1
  <2> HIDE DEF x
  <2>4. Len(<<x>>) = 1 /\ <<x>>[1] = x
    OBVIOUS
  <2>5. \A k \in 1..Len(<<x>>) : ExactMember(<<x>>[k])
    BY ONLY <2>3, <2>4
  <2> QED
    BY ONLY <2>2, <2>5 DEF x
<1> QED
  BY <1>2, <1>3

(* What the types in X promise, X promises as well: what was read of a     *)
(* type without halves is written as the bits it was read from.            *)
Again ==
  \A t, v, w :
    /\ Schema(t) /\ Exact(t) /\ Object(t, v) /\ Object(t, w) /\ Survives(t, v, w)
    => Serialized(t, w) = Serialized(t, v)

(* Its members are, one after the other. *)
THEOREM SurvivorIsWrittenAlike == NestedAgain => Again
<1> SUFFICES ASSUME NestedAgain, NEW t, NEW v, NEW w, Schema(t), Exact(t), Object(t, v), Object(t, w),
                    Survives(t, v, w)
             PROVE  Serialized(t, w) = Serialized(t, v)
  BY Zenon DEF Again
<1> DEFINE present == Present(t, v.tag)
           n == Len(present)
           a == Values(t, v)
           b == Values(t, w)
<1>1. ObjectMembers(t, v) /\ (t.kind = "union" => v.tag \in DOMAIN t.members)
  BY ObjectHasMembers
<1>2. ObjectMembers(t, w) /\ (t.kind = "union" => w.tag \in DOMAIN t.members)
  BY ObjectHasMembers
<1>3. t.kind = "union" => v.tag = w.tag
  BY Zenon DEF Survives
<1>4. Present(t, w.tag) = present /\ WrittenTag(t, w.tag) = WrittenTag(t, v.tag)
  <2>1. CASE t.kind = "union"
    BY ONLY <1>3, <2>1
  <2>2. CASE t.kind # "union"
    <3>1. t.kind = "struct"
      BY <2>2, Zenon DEF Schema
    <3> QED
      BY ONLY <2>2, <3>1 DEF Present, WrittenTag
  <2> QED
    BY <2>1, <2>2
<1>5. n \in Nat /\ DOMAIN present = 1..n /\ \A k \in 1..n : Member(present[k])
  BY <1>1, PresentMembers
<1>6. \A k \in 1..n : MemberObject(present[k], a[k]) /\ MemberObject(present[k], b[k])
  <2>1. \A k \in 1..n : MemberObject(present[k], a[k])
    BY ONLY <1>1, Zenon DEF ObjectMembers
  <2>2. \A k \in 1..Len(Present(t, w.tag)) : MemberObject(Present(t, w.tag)[k], b[k])
    BY ONLY <1>2, Zenon DEF ObjectMembers
  <2> HIDE DEF present, a, b
  <2>3. \A k \in 1..Len(present) : MemberObject(present[k], b[k])
    BY ONLY <1>4, <2>2
  <2> QED
    BY ONLY <2>1, <2>3
<1>7. \A k \in 1..n : ExactMember(present[k])
  BY <1>1, ExactMembers
<1>8. \A k \in 1..n : MemberSurvives(present[k], a[k], b[k])
  <2>1. \A k \in DOMAIN present : MemberSurvives(present[k], a[k], b[k])
    BY Zenon DEF Survives
  <2> HIDE DEF present, a, b
  <2> QED
    BY ONLY <1>5, <2>1
<1> HIDE DEF present, a, b
<1>9. \A k \in 1..n : \A out : Write(present[k], b[k], out) = Write(present[k], a[k], out)
  BY ONLY NestedAgain, <1>5, <1>6, <1>7, <1>8, MemberAlike
<1>10. PICK f : /\ f[0] = WrittenTag(t, v.tag)
                /\ \A k \in 1..n : f[k] = IF f[k - 1].err = "SUCCESS"
                                          THEN Write(present[k], a[k], f[k - 1]) ELSE f[k - 1]
                /\ WriteMembers(t, v.tag, a) = f[n]
  <2>1. Len(Present(t, v.tag)) \in Nat
    BY <1>5 DEF present
  <2> QED
    BY ONLY <2>1, MembersWrittenInTurn DEF WrittenTag, present
<1>11. PICK g : /\ g[0] = WrittenTag(t, v.tag)
                /\ \A k \in 1..n : g[k] = IF g[k - 1].err = "SUCCESS"
                                          THEN Write(present[k], b[k], g[k - 1]) ELSE g[k - 1]
                /\ WriteMembers(t, w.tag, b) = g[n]
  <2>1. Len(Present(t, w.tag)) \in Nat
    BY <1>4, <1>5
  <2>2. \E g : /\ g[0] = WrittenTag(t, w.tag)
               /\ \A k \in 1..Len(Present(t, w.tag)) :
                    g[k] = IF g[k - 1].err = "SUCCESS"
                           THEN Write(Present(t, w.tag)[k], b[k], g[k - 1]) ELSE g[k - 1]
               /\ WriteMembers(t, w.tag, b) = g[Len(Present(t, w.tag))]
    BY ONLY <2>1, MembersWrittenInTurn DEF WrittenTag
  <2> QED
    BY ONLY <1>4, <2>2
<1>12. ASSUME NEW k \in 1..n, f[k - 1] = g[k - 1]
       PROVE  f[k] = g[k]
  BY ONLY <1>9, <1>10, <1>11, <1>12
<1>13. f[n] = g[n]
  <2>1. f[0] = g[0]
    BY ONLY <1>10, <1>11
  <2> HIDE DEF n
  <2> QED
    BY ONLY <1>5, <1>12, <2>1, InTurnAlike
<1>14. WriteMembers(t, w.tag, b) = WriteMembers(t, v.tag, a)
  BY ONLY <1>10, <1>11, <1>13
<1>15. /\ Serialized(t, v) = PutAligned(WriteMembers(t, v.tag, a))
       /\ Serialized(t, w) = PutAligned(WriteMembers(t, w.tag, b))
  BY <1>1, <1>2, Zenon DEF Serialized, a, b
<1> QED
  BY ONLY <1>14, <1>15

-----------------------------------------------------------------------------
(* A payload of whole bytes that ends early, and one that goes on with     *)
(* zeros.                                                                  *)
Padded(buf, long) ==
  /\ buf \in Buffers /\ long \in Buffers
  /\ Len(buf) % 8 = 0 /\ Len(buf) <= Len(long)
  /\ \A i \in 1..Len(long) : long[i] = IF i <= Len(buf) THEN buf[i] ELSE 0

(* The same bit of both, or bits beyond the end of the short one. *)
Near(a, b, len) == a = b \/ (len <= a /\ len <= b)

(* What was read so far of the one and of the other. *)
Alike(one, other, len) ==
  \/ one.err = "BAD_DELIMITER_HEADER"
  \/ /\ one.err = other.err
     /\ one.err = "SUCCESS" => one.obj = other.obj /\ Near(one.off, other.off, len)

(* Both have a length. *)
LEMMA PaddedLengths ==
  ASSUME NEW buf, NEW long, Padded(buf, long)
  PROVE  /\ buf \in Buffers /\ long \in Buffers /\ Len(buf) \in Nat /\ Len(long) \in Nat
         /\ Len(buf) % 8 = 0 /\ Len(buf) <= Len(long)
  BY LenProperties DEF Padded, Buffers

(* Bits that are near stay near. *)
LEMMA NearGoesOn ==
  ASSUME NEW a \in Nat, NEW b \in Nat, NEW len \in Nat, Near(a, b, len)
  PROVE  /\ \A k \in Nat : Near(a + k, b + k, len)
         /\ Near(Align(a), Align(b), len)
<1>1. a <= Align(a) /\ b <= Align(b) /\ Align(a) \in Nat /\ Align(b) \in Nat
  BY AlignIsNextByte
<1>2. a = b => Align(a) = Align(b)
  OBVIOUS
<1>3. \A k \in Nat : Near(a + k, b + k, len)
  BY DEF Near
<1> QED
  BY ONLY <1>1, <1>2, <1>3, Near(a, b, len), a \in Nat, b \in Nat, len \in Nat DEF Near

(* The same bits are taken from both. *)
LEMMA TakenNear ==
  ASSUME NEW buf, NEW long, Padded(buf, long), NEW a \in Nat, NEW b \in Nat, NEW w \in Nat,
         Near(a, b, Len(buf))
  PROVE  Taken(buf, a, w) = Taken(long, b, w)
<1> DEFINE one == Taken(buf, a, w)
           other == Taken(long, b, w)
           m == Len(buf)
           n == Len(long)
<1>1. /\ buf \in Buffers /\ long \in Buffers /\ m \in Nat /\ n \in Nat /\ m <= n
      /\ \A i \in 1..n : long[i] = IF i <= m THEN buf[i] ELSE 0
  BY PaddedLengths DEF Padded
<1>2. /\ one \in Buffers /\ Len(one) = w
      /\ \A i \in 1..w : one[i] = IF a + i <= m THEN buf[a + i] ELSE 0
  BY <1>1, TakenBits, ZenonT(60)
<1>3. /\ other \in Buffers /\ Len(other) = w
      /\ \A i \in 1..w : other[i] = IF b + i <= n THEN long[b + i] ELSE 0
  BY <1>1, TakenBits, ZenonT(60)
<1>4. a = b \/ (m <= a /\ m <= b)
  BY DEF Near
<1> HIDE DEF one, other, m, n
<1>5. ASSUME NEW i \in 1..w
      PROVE  one[i] = other[i]
  <2>1. one[i] = (IF a + i <= m THEN buf[a + i] ELSE 0) /\ other[i] = IF b + i <= n THEN long[b + i] ELSE 0
    BY ONLY <1>2, <1>3, i \in 1..w
  <2>2. CASE a + i <= m
    <3>1. a = b /\ b + i \in 1..n /\ b + i <= n /\ b + i <= m
      BY ONLY <1>1, <1>4, <2>2, i \in 1..w, a \in Nat, b \in Nat, w \in Nat
    <3>2. long[b + i] = buf[b + i]
      BY ONLY <1>1, <3>1
    <3> QED
      BY ONLY <2>1, <2>2, <3>1, <3>2
  <2>3. CASE ~(a + i <= m)
    <3>1. CASE b + i <= n
      <4>1. b + i \in 1..n /\ ~(b + i <= m)
        BY ONLY <1>1, <1>4, <2>3, <3>1, i \in 1..w, a \in Nat, b \in Nat, w \in Nat
      <4>2. long[b + i] = 0
        BY ONLY <1>1, <4>1
      <4> QED
        BY ONLY <2>1, <2>3, <4>2
    <3>2. CASE ~(b + i <= n)
      BY ONLY <2>1, <2>3, <3>2
    <3> QED
      BY <3>1, <3>2
  <2> QED
    BY <2>2, <2>3
<1> QED
  BY ONLY <1>2, <1>3, <1>5, SameBits DEF one, other

(* So are the same numbers. *)
LEMMA NumbersNear ==
  ASSUME NEW buf, NEW long, Padded(buf, long), NEW a \in Nat, NEW b \in Nat,
         Near(a, b, Len(buf)), NEW e, e.width \in Nat
  PROVE  /\ ReadScalar(e, buf, a) = ReadScalar(e, long, b)
         /\ \A n \in Nat : ReadScalars(e, n, buf, a) = ReadScalars(e, n, long, b)
<1> DEFINE w == e.width
<1>1. ASSUME NEW k \in Nat
      PROVE  ReadScalar(e, buf, a + k) = ReadScalar(e, long, b + k)
  <2>1. Near(a + k, b + k, Len(buf)) /\ a + k \in Nat /\ b + k \in Nat
    BY PaddedLengths, NearGoesOn
  <2>2. Taken(buf, a + k, w) = Taken(long, b + k, w)
    BY <2>1, TakenNear
  <2> QED
    BY ONLY <2>2 DEF ReadScalar
<1>2. ReadScalar(e, buf, a) = ReadScalar(e, long, b)
  <2>1. a + 0 = a /\ b + 0 = b /\ 0 \in Nat
    OBVIOUS
  <2>2. ReadScalar(e, buf, a + 0) = ReadScalar(e, long, b + 0)
    BY ONLY <1>1, <2>1
  <2> QED
    BY ONLY <2>1, <2>2
<1>3. ASSUME NEW n \in Nat
      PROVE  ReadScalars(e, n, buf, a) = ReadScalars(e, n, long, b)
  <2>1. ASSUME NEW k \in 1..n
        PROVE  ReadScalar(e, buf, a + (k - 1) * w) = ReadScalar(e, long, b + (k - 1) * w)
    <3>1. k - 1 \in Nat
      OBVIOUS
    <3>2. (k - 1) * w \in Nat
      BY <3>1
    <3> QED
      BY ONLY <1>1, <3>2
  <2> QED
    BY ONLY <2>1 DEF ReadScalars
<1> QED
  BY <1>2, <1>3

(* What is left of both from there is the same, but for zeros. *)
LEMMA RestNear ==
  ASSUME NEW buf, NEW long, Padded(buf, long), NEW a \in Nat, NEW b \in Nat, a % 8 = 0,
         Near(a, b, Len(buf))
  PROVE  LET one == SubSeq(buf, a + 1, Len(buf))
         IN /\ Padded(one, SubSeq(long, b + 1, Len(long)))
            /\ Len(one) = IF a <= Len(buf) THEN Len(buf) - a ELSE 0
<1> DEFINE m == Len(buf)
           n == Len(long)
           one == SubSeq(buf, a + 1, m)
           other == SubSeq(long, b + 1, n)
<1>1. /\ buf \in Buffers /\ long \in Buffers /\ m \in Nat /\ n \in Nat /\ m <= n /\ m % 8 = 0
      /\ \A i \in 1..n : long[i] = IF i <= m THEN buf[i] ELSE 0
  BY PaddedLengths DEF Padded
<1>2. /\ one \in Buffers /\ Len(one) = (IF a <= m THEN m - a ELSE 0)
      /\ \A i \in 1..Len(one) : one[i] = buf[a + i]
  BY <1>1, PartOfBuffer
<1>3. /\ other \in Buffers /\ Len(other) = (IF b <= n THEN n - b ELSE 0)
      /\ \A i \in 1..Len(other) : other[i] = long[b + i]
  BY <1>1, PartOfBuffer
<1>4. a = b \/ (m <= a /\ m <= b)
  BY DEF Near
<1> HIDE DEF one, other, m, n
<1>5. Len(one) \in Nat /\ Len(other) \in Nat /\ Len(one) % 8 = 0 /\ Len(one) <= Len(other)
  BY ONLY <1>1, <1>2, <1>3, <1>4, a \in Nat, b \in Nat, a % 8 = 0
<1>6. ASSUME NEW i \in 1..Len(other)
      PROVE  other[i] = IF i <= Len(one) THEN one[i] ELSE 0
  <2>1. other[i] = long[b + i] /\ b + i \in 1..n /\ i \in Nat /\ i >= 1
    BY ONLY <1>1, <1>3, <1>5, b \in Nat, i \in 1..Len(other)
  <2>2. CASE i <= Len(one)
    <3>1. a = b /\ a + i <= m /\ i \in 1..Len(one)
      BY ONLY <1>1, <1>2, <1>4, <1>5, <2>1, <2>2, a \in Nat, b \in Nat
    <3>2. long[b + i] = buf[a + i]
      BY ONLY <1>1, <2>1, <3>1
    <3>3. one[i] = buf[a + i]
      BY ONLY <1>2, <3>1
    <3> QED
      BY ONLY <2>1, <2>2, <3>2, <3>3
  <2>3. CASE ~(i <= Len(one))
    <3>1. ~(b + i <= m)
      BY ONLY <1>1, <1>2, <1>4, <1>5, <2>1, <2>3, a \in Nat, b \in Nat
    <3>2. long[b + i] = 0
      BY ONLY <1>1, <2>1, <3>1
    <3> QED
      BY ONLY <2>1, <2>3, <3>2
  <2> QED
    BY <2>2, <2>3
<1>7. Padded(one, other)
  BY ONLY <1>2, <1>3, <1>5, <1>6 DEF Padded
<1> QED
  BY ONLY <1>2, <1>7 DEF one, other, m, n

(* As many bits as the short one has from there are the same in both. *)
LEMMA PartNear ==
  ASSUME NEW buf, NEW long, Padded(buf, long), NEW a \in Nat, NEW b \in Nat, NEW w \in Nat,
         Near(a, b, Len(buf)), a + w <= Len(buf) \/ w = 0
  PROVE  /\ SubSeq(buf, a + 1, a + w) = SubSeq(long, b + 1, b + w)
         /\ SubSeq(buf, a + 1, a + w) \in Buffers
<1> DEFINE m == Len(buf)
           n == Len(long)
           c == a + w
           d == b + w
           one == SubSeq(buf, a + 1, c)
           other == SubSeq(long, b + 1, d)
<1>1. /\ buf \in Buffers /\ long \in Buffers /\ m \in Nat /\ n \in Nat /\ m <= n /\ m % 8 = 0
      /\ \A i \in 1..n : long[i] = IF i <= m THEN buf[i] ELSE 0
  BY PaddedLengths DEF Padded
<1>2. /\ c \in Nat /\ d \in Nat /\ (c <= m \/ c <= a) /\ (d <= n \/ d <= b)
      /\ a <= c /\ b <= d /\ c - a = w /\ d - b = w
      /\ w # 0 => a = b /\ c <= m
  BY ONLY <1>1, a \in Nat, b \in Nat, w \in Nat, Near(a, b, Len(buf)), a + w <= Len(buf) \/ w = 0 DEF Near
<1> HIDE DEF c, d, m, n
<1>3. one \in Buffers /\ Len(one) = w /\ \A i \in 1..w : one[i] = buf[a + i]
  <2>1. /\ one \in Buffers /\ Len(one) = (IF a <= c THEN c - a ELSE 0)
        /\ \A i \in 1..Len(one) : one[i] = buf[a + i]
    BY <1>1, <1>2, PartOfBuffer DEF m
  <2> QED
    BY ONLY <1>2, <2>1
<1>4. other \in Buffers /\ Len(other) = w /\ \A i \in 1..w : other[i] = long[b + i]
  <2>1. /\ other \in Buffers /\ Len(other) = (IF b <= d THEN d - b ELSE 0)
        /\ \A i \in 1..Len(other) : other[i] = long[b + i]
    BY <1>1, <1>2, PartOfBuffer DEF n
  <2> QED
    BY ONLY <1>2, <2>1
<1> HIDE DEF one, other
<1>5. ASSUME NEW i \in 1..w
      PROVE  one[i] = other[i]
  <2>1. a = b /\ b + i \in 1..n /\ b + i <= m
    BY ONLY <1>1, <1>2, i \in 1..w, a \in Nat, b \in Nat, w \in Nat
  <2>2. long[b + i] = buf[b + i]
    BY ONLY <1>1, <2>1
  <2> QED
    BY ONLY <1>3, <1>4, <2>1, <2>2, i \in 1..w
<1>6. one = other
  BY ONLY <1>3, <1>4, <1>5, SameBits
<1> QED
  BY ONLY <1>3, <1>6 DEF one, other, c, d

(* What Got appends. *)
LEMMA GotIsAppended ==
  ASSUME NEW at, Reading(at), NEW w, NEW v
  PROVE  Got(at, w, v).obj = Append(at.obj, v)
<1> DEFINE moved == [at EXCEPT !.off = at.off + w]
<1>1. moved = [err |-> at.err, off |-> at.off + w, obj |-> at.obj]
  BY ONLY Reading(at) DEF Reading
<1>2. Got(at, w, v) = [moved EXCEPT !.obj = Append(moved.obj, v)]
  BY DEF Got
<1> HIDE DEF moved
<1>3. ASSUME NEW s
      PROVE  [moved EXCEPT !.obj = s].obj = s
  BY ONLY <1>1
<1>4. moved.obj = at.obj
  BY ONLY <1>1
<1> QED
  BY ONLY <1>2, <1>3, <1>4

-----------------------------------------------------------------------------
(* Of the types in X: a payload that ends early stands for the one with    *)
(* zeros after it, unless a delimiter header reaches over its end.         *)
SameRead(one, other, len) ==
  \/ one.err = "BAD_DELIMITER_HEADER"
  \/ /\ one.err = other.err
     /\ one.obj = other.obj
     /\ one.err = "SUCCESS" => Near(one.size * 8, other.size * 8, len)

NestedShort ==
  \A t, buf, long : NestedSchema(t) /\ Padded(buf, long) =>
    SameRead(NestedDeserialize(t, buf), NestedDeserialize(t, long), Len(buf))

(* Got keeps two alike. *)
LEMMA GotAlike ==
  ASSUME NEW len \in Nat, NEW at1, NEW at2, Reading(at1), Reading(at2), at1.err = "SUCCESS",
         at2.err = "SUCCESS", at1.obj = at2.obj, NEW w1 \in Nat, NEW w2 \in Nat,
         Near(at1.off + w1, at2.off + w2, len), NEW v
  PROVE  Alike(Got(at1, w1, v), Got(at2, w2, v), len)
<1> DEFINE one == Got(at1, w1, v)
           other == Got(at2, w2, v)
<1>1. Reading(one) /\ one.err = "SUCCESS" /\ one.off = at1.off + w1
  BY GotOneMore DEF ReadOneMore
<1>2. Reading(other) /\ other.err = "SUCCESS" /\ other.off = at2.off + w2
  BY GotOneMore DEF ReadOneMore
<1>3. one.obj = Append(at1.obj, v)
  BY GotIsAppended
<1>4. other.obj = Append(at2.obj, v)
  BY GotIsAppended
<1> HIDE DEF one, other
<1>5. one.obj = other.obj
  BY ONLY <1>3, <1>4, at1.obj = at2.obj
<1> QED
  BY ONLY <1>1, <1>2, <1>5, Near(at1.off + w1, at2.off + w2, len) DEF Alike, one, other

(* So does what was read of a type in X. *)
LEMMA GotNestedAlike ==
  ASSUME NEW len \in Nat, NEW at1, NEW at2, Reading(at1), Reading(at2), at1.err = "SUCCESS",
         at2.err = "SUCCESS", at1.obj = at2.obj,
         NEW o1 \in Nat, NEW o2 \in Nat, NEW s1 \in Nat, NEW s2 \in Nat, NEW read1, NEW read2,
         read1.err \in ReadErrors, read2.err \in ReadErrors,
         \/ read1.err = "BAD_DELIMITER_HEADER"
         \/ /\ read1.err = read2.err
            /\ read1.err = "SUCCESS" => /\ read1.obj = read2.obj
                                        /\ Near(o1 + s1 * 8, o2 + s2 * 8, len)
  PROVE  Alike(GotNested(at1, o1, s1, read1), GotNested(at2, o2, s2, read2), len)
<1> DEFINE one == GotNested(at1, o1, s1, read1)
           other == GotNested(at2, o2, s2, read2)
<1>1. CASE read1.err # "SUCCESS"
  <2>1. one = Bad(at1, read1.err)
    BY <1>1, Zenon DEF GotNested
  <2>2. one.err = read1.err
    BY <2>1, BadIsRead
  <2>3. CASE read1.err = "BAD_DELIMITER_HEADER"
    BY <2>2, <2>3 DEF Alike
  <2>4. CASE read1.err # "BAD_DELIMITER_HEADER"
    <3>1. read2.err = read1.err
      BY <2>4
    <3>2. other = Bad(at2, read2.err)
      BY <1>1, <3>1, Zenon DEF GotNested
    <3>3. other.err = read1.err
      BY <3>1, <3>2, BadIsRead
    <3> HIDE DEF one, other
    <3> QED
      BY ONLY <1>1, <2>2, <3>3 DEF Alike, one, other
  <2> QED
    BY <2>3, <2>4
<1>2. CASE read1.err = "SUCCESS"
  <2>1. read2.err = "SUCCESS" /\ read1.obj = read2.obj /\ Near(o1 + s1 * 8, o2 + s2 * 8, len)
    BY <1>2
  <2> DEFINE v == read1.obj
             w1 == s1 * 8
             w2 == s2 * 8
             there1 == [at1 EXCEPT !.off = o1]
             there2 == [at2 EXCEPT !.off = o2]
  <2>2. one = Got(there1, w1, v)
    BY <1>2 DEF GotNested
  <2>3. other = Got(there2, w2, v)
    BY <2>1 DEF GotNested
  <2>4. Reading(there1) /\ there1.err = at1.err /\ there1.obj = at1.obj /\ there1.off = o1
    BY MovedIsRead
  <2>5. Reading(there2) /\ there2.err = at2.err /\ there2.obj = at2.obj /\ there2.off = o2
    BY MovedIsRead
  <2>6. w1 \in Nat /\ w2 \in Nat /\ Near(o1 + w1, o2 + w2, len)
    BY <2>1
  <2> HIDE DEF v, w1, w2, there1, there2, one, other
  <2>7. Alike(Got(there1, w1, v), Got(there2, w2, v), len)
    <3>1. there1.err = "SUCCESS" /\ there2.err = "SUCCESS" /\ there1.obj = there2.obj
      BY ONLY <2>4, <2>5, at1.err = "SUCCESS", at2.err = "SUCCESS", at1.obj = at2.obj
    <3>2. Near(there1.off + w1, there2.off + w2, len)
      BY ONLY <2>4, <2>5, <2>6
    <3> QED
      BY ONLY <2>4, <2>5, <2>6, <3>1, <3>2, len \in Nat, GotAlike
  <2> QED
    BY ONLY <2>2, <2>3, <2>7 DEF one, other
<1> QED
  BY <1>1, <1>2

(* A type in X whose size is its own is read alike, *)
LEMMA SealedAlike ==
  ASSUME NestedReads, NestedShort, NEW buf, NEW long, Padded(buf, long), NEW t, NestedSchema(t),
         NEW at1, NEW at2, Reading(at1), Reading(at2), at1.err = "SUCCESS",
         at2.err = "SUCCESS", at1.obj = at2.obj,
         NEW a \in Nat, NEW b \in Nat, a % 8 = 0, Near(a, b, Len(buf))
  PROVE  Alike(ReadSealed(t, buf, a, at1), ReadSealed(t, long, b, at2), Len(buf))
<1> DEFINE one == SubSeq(buf, a + 1, Len(buf))
           other == SubSeq(long, b + 1, Len(long))
           read1 == NestedDeserialize(t, one)
           read2 == NestedDeserialize(t, other)
           s1 == read1.size
           s2 == read2.size
           len == Len(buf)
<1>1. len \in Nat
  BY PaddedLengths
<1>2. Padded(one, other) /\ Len(one) = IF a <= len THEN len - a ELSE 0
  BY RestNear
<1> HIDE DEF one, other
<1>3. SameRead(read1, read2, Len(one))
  BY <1>2, Zenon DEF NestedShort
<1>4. one \in Buffers /\ other \in Buffers
  BY <1>2, PaddedLengths
<1>5. read1.err \in ReadErrors /\ s1 \in Nat
  BY <1>4, Zenon DEF NestedReads
<1>6. read2.err \in ReadErrors /\ s2 \in Nat
  BY <1>4, Zenon DEF NestedReads
<1> HIDE DEF read1, read2, len
<1>7. ASSUME Near(s1 * 8, s2 * 8, Len(one))
      PROVE  Near(a + s1 * 8, b + s2 * 8, len)
  <2> HIDE DEF s1, s2
  <2> DEFINE w1 == s1 * 8
             w2 == s2 * 8
  <2>1. w1 \in Nat /\ w2 \in Nat
    BY <1>5, <1>6
  <2>2. Near(w1, w2, Len(one))
    BY <1>7
  <2>3. a = b \/ (len <= a /\ len <= b)
    BY DEF Near, len
  <2> HIDE DEF w1, w2
  <2>4. Near(a + w1, b + w2, len)
    BY ONLY <1>1, <1>2, <2>1, <2>2, <2>3, a \in Nat, b \in Nat DEF Near
  <2> QED
    BY <2>4 DEF w1, w2
<1>8. \/ read1.err = "BAD_DELIMITER_HEADER"
      \/ /\ read1.err = read2.err
         /\ read1.err = "SUCCESS" => /\ read1.obj = read2.obj
                                     /\ Near(a + s1 * 8, b + s2 * 8, len)
  BY ONLY <1>3, <1>7 DEF SameRead, s1, s2
<1> HIDE DEF s1, s2
<1>9. Alike(GotNested(at1, a, s1, read1), GotNested(at2, b, s2, read2), len)
  BY <1>1, <1>5, <1>6, <1>8, GotNestedAlike
<1>10. ReadSealed(t, buf, a, at1) = GotNested(at1, a, s1, read1)
  BY Zenon DEF ReadSealed, one, read1, s1
<1>11. ReadSealed(t, long, b, at2) = GotNested(at2, b, s2, read2)
  BY Zenon DEF ReadSealed, other, read2, s2
<1> QED
  BY ONLY <1>9, <1>10, <1>11 DEF len

(* and one that follows a delimiter header. *)
LEMMA DelimitedAlike ==
  ASSUME NestedReads, NEW buf, NEW long, Padded(buf, long), NEW t, NestedSchema(t),
         NEW at1, NEW at2, Reading(at1), Reading(at2), at1.err = "SUCCESS",
         at2.err = "SUCCESS", at1.obj = at2.obj,
         NEW a \in Nat, NEW b \in Nat, Near(a, b, Len(buf)), NEW size \in Nat
  PROVE  Alike(ReadDelimited(t, buf, a, size, at1), ReadDelimited(t, long, b, size, at2), Len(buf))
<1> DEFINE m == Len(buf)
           n == Len(long)
           left == (m - Lesser(a, m)) \div 8
           more == (n - Lesser(b, n)) \div 8
<1>1. m \in Nat /\ n \in Nat /\ m <= n
  BY PaddedLengths
<1>2. a = b \/ (m <= a /\ m <= b)
  BY DEF Near
<1>3. CASE Beyond(size, left)
  <2>1. ReadDelimited(t, buf, a, size, at1) = Bad(at1, "BAD_DELIMITER_HEADER")
    BY <1>3, Zenon DEF ReadDelimited
  <2>2. "BAD_DELIMITER_HEADER" \in ReadErrors
    BY DEF ReadErrors
  <2>3. Bad(at1, "BAD_DELIMITER_HEADER").err = "BAD_DELIMITER_HEADER"
    BY <2>2, BadIsRead
  <2> QED
    BY ONLY <2>1, <2>3 DEF Alike
<1>4. CASE ~Beyond(size, left)
  <2> DEFINE w == size * 8
             rest == m - Lesser(a, m)
             further == n - Lesser(b, n)
             one == SubSeq(buf, a + 1, a + w)
             other == SubSeq(long, b + 1, b + w)
             read == NestedDeserialize(t, one)
  <2>1. /\ rest \in Nat /\ further \in Nat /\ rest <= further
        /\ rest = IF a < m THEN m - a ELSE 0
    <3>1. rest = IF a < m THEN m - a ELSE m - m
      BY ONLY TRUE DEF Lesser
    <3>2. further = IF b < n THEN n - b ELSE n - n
      BY ONLY TRUE DEF Lesser
    <3> HIDE DEF rest, further, m, n
    <3> QED
      BY ONLY <1>1, <1>2, <3>1, <3>2, a \in Nat, b \in Nat
  <2>2. left = rest \div 8 /\ more = further \div 8
    OBVIOUS
  <2> HIDE DEF rest, further, left, more
  <2>3. left \in Nat /\ more \in Nat /\ left <= more /\ left * 8 <= rest
    <3>1. \A r \in Nat, f \in Nat : r <= f =>
            r \div 8 \in Nat /\ f \div 8 \in Nat /\ r \div 8 <= f \div 8 /\ (r \div 8) * 8 <= r
      OBVIOUS
    <3> QED
      BY ONLY <2>1, <2>2, <3>1
  <2>4. size <= left
    BY ONLY <1>4, <2>3, size \in Nat DEF Beyond
  <2>5. ~Beyond(size, more)
    BY ONLY <2>3, <2>4, size \in Nat DEF Beyond
  <2>6. w \in Nat /\ (a + w <= m \/ w = 0)
    BY ONLY <1>1, <2>1, <2>3, <2>4, size \in Nat, a \in Nat
  <2> HIDE DEF m, n, w
  <2>7. one = other /\ one \in Buffers
    BY <2>6, PartNear DEF m
  <2> HIDE DEF one, other
  <2>8. read.err \in ReadErrors
    BY <2>7, Zenon DEF NestedReads
  <2>9. Near(a + w, b + w, m)
    BY <1>1, <2>6, NearGoesOn DEF m
  <2>10. ReadDelimited(t, buf, a, size, at1) = GotNested(at1, a, size, read)
    BY <1>4, Zenon DEF ReadDelimited, one, read, w, left, m
  <2>11. ReadDelimited(t, long, b, size, at2) = GotNested(at2, b, size, read)
    <3>1. ReadDelimited(t, long, b, size, at2) = GotNested(at2, b, size, NestedDeserialize(t, other))
      BY <2>5, Zenon DEF ReadDelimited, other, w, more, n
    <3> QED
      BY ONLY <2>7, <3>1 DEF read
  <2> HIDE DEF read
  <2>12. Alike(GotNested(at1, a, size, read), GotNested(at2, b, size, read), m)
    <3>1. Near(a + size * 8, b + size * 8, m)
      BY <2>9 DEF w
    <3>2. \/ read.err = "BAD_DELIMITER_HEADER"
          \/ /\ read.err = read.err
             /\ read.err = "SUCCESS" => /\ read.obj = read.obj
                                        /\ Near(a + size * 8, b + size * 8, m)
      BY <3>1
    <3> QED
      BY <1>1, <2>8, <3>2, GotNestedAlike
  <2> QED
    BY ONLY <2>10, <2>11, <2>12 DEF m
<1> QED
  BY <1>3, <1>4

(* The size in a delimiter header is the same, or more than there is, *)
LEMMA HeaderAlike ==
  ASSUME NEW buf, NEW long, Padded(buf, long), NEW a \in Nat, NEW b \in Nat, Near(a, b, Len(buf))
  PROVE  \/ SizeInHeader(buf, a) = SizeInHeader(long, b)
         \/ \A c \in Nat :
              Beyond(SizeInHeader(buf, a), (Len(buf) - Lesser(c, Len(buf))) \div 8)
<1> DEFINE m == Len(buf)
           header == Taken(buf, a, 32)
           other == Taken(long, b, 32)
<1>1. buf \in Buffers /\ m \in Nat /\ 32 \in Nat
  BY PaddedLengths
<1>2. header = other
  BY <1>1, TakenNear
<1>3. SizeInHeader(buf, a) = IF header[32] = 1 THEN m ELSE NumberOf(header)
  BY DEF SizeInHeader
<1>4. SizeInHeader(long, b) = IF other[32] = 1 THEN Len(long) ELSE NumberOf(other)
  BY DEF SizeInHeader
<1>5. header[32] = IF a + 32 <= m THEN buf[a + 32] ELSE 0
  <2>1. \A i \in 1..32 : header[i] = IF a + i <= m THEN buf[a + i] ELSE 0
    BY <1>1, TakenBits
  <2> HIDE DEF header, m
  <2> QED
    BY ONLY <2>1
<1> HIDE DEF header, other, m
<1>6. CASE header[32] = 1
  <2>1. m > 0 /\ SizeInHeader(buf, a) = m
    BY ONLY <1>1, <1>3, <1>5, <1>6, a \in Nat
  <2>2. ASSUME NEW c \in Nat
        PROVE  Beyond(m, (m - Lesser(c, m)) \div 8)
    <3> DEFINE rest == m - Lesser(c, m)
    <3>1. rest \in Nat /\ rest <= m
      BY ONLY <1>1, c \in Nat DEF Lesser
    <3>2. \A r \in Nat : r <= m => m > r \div 8
      BY ONLY <1>1, <2>1
    <3> HIDE DEF rest
    <3>3. m > rest \div 8
      BY ONLY <3>1, <3>2
    <3> QED
      BY ONLY <3>3 DEF Beyond, rest
  <2> QED
    BY ONLY <2>1, <2>2 DEF m
<1>7. CASE header[32] # 1
  BY ONLY <1>2, <1>3, <1>4, <1>7
<1> QED
  BY <1>6, <1>7

(* and either kind is read alike from where the next byte begins. *)
LEMMA NestedReadAlike ==
  ASSUME NestedReads, NestedShort, NEW buf, NEW long, Padded(buf, long),
         NEW e, IsNested(e), ~Scalar(e),
         NEW at1, NEW at2, Reading(at1), Reading(at2), at1.err = "SUCCESS",
         at2.err = "SUCCESS", at1.obj = at2.obj, Near(at1.off, at2.off, Len(buf))
  PROVE  Alike(ReadNested(e, buf, at1), ReadNested(e, long, at2), Len(buf))
<1> DEFINE a == Align(at1.off)
           b == Align(at2.off)
           len == Len(buf)
<1>1. at1.off \in Nat /\ at2.off \in Nat /\ len \in Nat /\ buf \in Buffers
  BY PaddedLengths DEF Reading
<1>2. a \in Nat /\ b \in Nat /\ a % 8 = 0 /\ Near(a, b, len)
  BY <1>1, AlignIsNextByte, NearGoesOn
<1> HIDE DEF a, b
<1>3. CASE e.kind = "delimited"
  <2> DEFINE one == a + 32
             other == b + 32
             size1 == SizeInHeader(buf, a)
             size2 == SizeInHeader(long, b)
  <2>1. one \in Nat /\ other \in Nat /\ Near(one, other, len)
    <3>1. 32 \in Nat /\ one \in Nat /\ other \in Nat
      BY <1>2
    <3>2. \A k \in Nat : Near(a + k, b + k, len)
      BY <1>1, <1>2, NearGoesOn
    <3> QED
      BY ONLY <3>1, <3>2
  <2>2. NestedSchema(e.of)
    BY <1>3 DEF IsNested, Composite
  <2>3. size1 \in Nat
    BY <1>1, <1>2, HeaderSize
  <2>4. \/ size1 = size2
        \/ \A c \in Nat : Beyond(size1, (len - Lesser(c, len)) \div 8)
    BY <1>2, HeaderAlike
  <2>5. ReadNested(e, buf, at1) = ReadDelimited(e.of, buf, one, size1, at1)
    BY <1>3, Zenon DEF ReadNested, a
  <2>6. ReadNested(e, long, at2) = ReadDelimited(e.of, long, other, size2, at2)
    BY <1>3, Zenon DEF ReadNested, b
  <2> HIDE DEF one, other, size1, size2, len
  <2>7. CASE size1 = size2
    <3>1. Alike(ReadDelimited(e.of, buf, one, size1, at1),
                ReadDelimited(e.of, long, other, size1, at2), len)
      BY <2>1, <2>2, <2>3, DelimitedAlike DEF len
    <3> QED
      BY ONLY <2>5, <2>6, <2>7, <3>1 DEF len
  <2>8. CASE \A c \in Nat : Beyond(size1, (len - Lesser(c, len)) \div 8)
    <3>1. Beyond(size1, (len - Lesser(one, len)) \div 8)
      BY ONLY <2>1, <2>8
    <3>2. ReadDelimited(e.of, buf, one, size1, at1) = Bad(at1, "BAD_DELIMITER_HEADER")
      BY <3>1, Zenon DEF ReadDelimited, len
    <3>3. "BAD_DELIMITER_HEADER" \in ReadErrors
      BY DEF ReadErrors
    <3>4. Bad(at1, "BAD_DELIMITER_HEADER").err = "BAD_DELIMITER_HEADER"
      BY <3>3, BadIsRead
    <3> QED
      BY ONLY <2>5, <3>2, <3>4 DEF Alike
  <2> QED
    BY <2>4, <2>7, <2>8
<1>4. CASE e.kind # "delimited"
  <2>1. NestedSchema(e)
    BY <1>4 DEF IsNested, Composite
  <2>2. Alike(ReadSealed(e, buf, a, at1), ReadSealed(e, long, b, at2), len)
    BY <1>2, <2>1, SealedAlike
  <2>3. ReadNested(e, buf, at1) = ReadSealed(e, buf, a, at1)
    BY <1>4, Zenon DEF ReadNested, a
  <2>4. ReadNested(e, long, at2) = ReadSealed(e, long, b, at2)
    BY <1>4, Zenon DEF ReadNested, b
  <2> QED
    BY ONLY <2>2, <2>3, <2>4 DEF len
<1> QED
  BY <1>3, <1>4

(* Statements that each keep two alike keep them alike one after the other. *)
LEMMA TurnsAlike ==
  ASSUME NEW n \in Nat, NEW f, NEW g, NEW len,
         Reading(f[0]), Reading(g[0]), Alike(f[0], g[0], len),
         \A k \in 1..n : f[k - 1].err # "SUCCESS" => f[k] = f[k - 1],
         \A k \in 1..n : g[k - 1].err # "SUCCESS" => g[k] = g[k - 1],
         \A k \in 1..n : Reading(f[k - 1]) /\ f[k - 1].err = "SUCCESS" => Reading(f[k]),
         \A k \in 1..n : Reading(g[k - 1]) /\ g[k - 1].err = "SUCCESS" => Reading(g[k]),
         \A k \in 1..n : /\ Reading(f[k - 1]) /\ Reading(g[k - 1])
                         /\ f[k - 1].err = "SUCCESS" /\ g[k - 1].err = "SUCCESS"
                         /\ f[k - 1].obj = g[k - 1].obj
                         /\ Near(f[k - 1].off, g[k - 1].off, len)
                         => Alike(f[k], g[k], len)
  PROVE  Reading(f[n]) /\ Reading(g[n]) /\ Alike(f[n], g[n], len)
<1> DEFINE Good(k) == Reading(f[k]) /\ Reading(g[k]) /\ Alike(f[k], g[k], len)
           A == {k \in 0..n : Good(k)}
<1>1. 0 \in A
  <2>1. Good(0)
    OBVIOUS
  <2> HIDE DEF Good
  <2> QED
    BY ONLY n \in Nat, <2>1
<1>2. ASSUME NEW k \in 0..(n - 1), k \in A
      PROVE  k + 1 \in A
  <2> DEFINE j == k + 1
  <2>1. j \in 1..n /\ j \in 0..n /\ j - 1 = k /\ Good(k)
    BY <1>2
  <2> HIDE DEF j
  <2>2. Reading(f[k]) /\ Reading(g[k]) /\ Alike(f[k], g[k], len)
    BY ONLY <2>1
  <2>3. /\ f[k].err # "SUCCESS" => f[j] = f[k]
        /\ g[k].err # "SUCCESS" => g[j] = g[k]
        /\ f[k].err = "SUCCESS" => Reading(f[j])
        /\ g[k].err = "SUCCESS" => Reading(g[j])
    BY <2>1, <2>2
  <2>4. /\ f[k].err = "SUCCESS" /\ g[k].err = "SUCCESS" /\ f[k].obj = g[k].obj
        /\ Near(f[k].off, g[k].off, len)
        => Alike(f[j], g[j], len)
    BY <2>1, <2>2
  <2>5. Reading(f[j]) /\ Reading(g[j])
    BY ONLY <2>2, <2>3
  <2>6. Alike(f[j], g[j], len)
    <3>1. CASE f[k].err = "SUCCESS"
      BY ONLY <2>2, <2>4, <3>1 DEF Alike
    <3>2. CASE f[k].err # "SUCCESS"
      BY ONLY <2>2, <2>3, <3>2 DEF Alike
    <3> QED
      BY <3>1, <3>2
  <2>7. Good(j)
    BY ONLY <2>5, <2>6
  <2> HIDE DEF Good
  <2>8. j \in A
    BY ONLY <2>1, <2>7
  <2> QED
    BY <2>8 DEF j
<1> HIDE DEF A
<1>3. \A k \in 0..n : k \in A
  BY ONLY <1>1, <1>2, n \in Nat, InductionUpTo
<1>4. n \in A
  BY ONLY <1>3, n \in Nat
<1> QED
  BY ONLY <1>4 DEF A

(* An array is read alike. *)
LEMMA ArrayReadAlike ==
  ASSUME NestedReads, NestedShort, NEW buf, NEW long, Padded(buf, long),
         NEW e, Element(e), NEW n \in Nat,
         NEW at1, NEW at2, Reading(at1), Reading(at2), at1.err = "SUCCESS",
         at2.err = "SUCCESS", at1.obj = at2.obj, Near(at1.off, at2.off, Len(buf))
  PROVE  Alike(ReadArray(e, n, buf, at1), ReadArray(e, n, long, at2), Len(buf))
<1> DEFINE len == Len(buf)
<1>1. /\ at1.off \in Nat /\ at2.off \in Nat /\ len \in Nat /\ buf \in Buffers
      /\ long \in Buffers
  BY PaddedLengths DEF Reading
<1>2. CASE IsNumber(e)
  <2> DEFINE w == n * e.width
             v == ReadScalars(e, n, buf, at1.off)
  <2>1. e.width \in Nat /\ Scalar(e)
    <3>1. e.width \in Nat
      BY <1>2, NumberInMemory
    <3> QED
      BY <1>2, <3>1 DEF IsNumber
  <2>2. w \in Nat
    BY <2>1
  <2>3. v = ReadScalars(e, n, long, at2.off)
    BY <1>1, <2>1, NumbersNear
  <2>4. ReadArray(e, n, buf, at1) = Got(at1, w, v)
    BY <2>1, Zenon DEF ReadArray
  <2>5. ReadArray(e, n, long, at2) = Got(at2, w, v)
    BY <2>1, <2>3, Zenon DEF ReadArray
  <2> HIDE DEF w, v, len
  <2>6. Near(at1.off + w, at2.off + w, len)
    BY <1>1, <2>2, NearGoesOn DEF len
  <2>7. Alike(Got(at1, w, v), Got(at2, w, v), len)
    BY <1>1, <2>2, <2>6, GotAlike
  <2> QED
    BY ONLY <2>4, <2>5, <2>7 DEF len
<1>3. CASE IsNested(e) /\ ~Scalar(e)
  <2>1. PICK f : /\ f[0] = [at1 EXCEPT !.obj = <<>>]
                 /\ \A k \in 1..n : f[k] = IF f[k - 1].err = "SUCCESS"
                                           THEN ReadNested(e, buf, f[k - 1]) ELSE f[k - 1]
                 /\ ReadArray(e, n, buf, at1) = [f[n] EXCEPT !.obj = Append(at1.obj, @)]
    BY <1>3, ElementsReadInTurn
  <2>2. PICK g : /\ g[0] = [at2 EXCEPT !.obj = <<>>]
                 /\ \A k \in 1..n : g[k] = IF g[k - 1].err = "SUCCESS"
                                           THEN ReadNested(e, long, g[k - 1]) ELSE g[k - 1]
                 /\ ReadArray(e, n, long, at2) = [g[n] EXCEPT !.obj = Append(at2.obj, @)]
    BY <1>3, ElementsReadInTurn
  <2>3. ASSUME NEW at, Reading(at)
        PROVE  /\ Reading([at EXCEPT !.obj = <<>>])
               /\ [at EXCEPT !.obj = <<>>].err = at.err
               /\ [at EXCEPT !.obj = <<>>].off = at.off
               /\ [at EXCEPT !.obj = <<>>].obj = <<>>
    <3> DEFINE begin == [at EXCEPT !.obj = <<>>]
    <3>1. begin = [err |-> at.err, off |-> at.off, obj |-> <<>>]
      BY ONLY <2>3 DEF Reading
    <3>2. Sequence(<<>>)
      BY DEF Sequence
    <3>3. at.err \in ReadErrors /\ at.off \in Nat
      BY <2>3 DEF Reading
    <3> HIDE DEF begin
    <3>4. begin.err = at.err /\ begin.off = at.off /\ begin.obj = <<>>
      BY ONLY <3>1
    <3>5. Reading(begin)
      BY ONLY <3>1, <3>2, <3>3, <3>4 DEF Reading
    <3> QED
      BY ONLY <3>4, <3>5 DEF begin
  <2>4. Reading(f[0]) /\ Reading(g[0]) /\ Alike(f[0], g[0], len)
    <3>1. Reading(f[0]) /\ f[0].err = at1.err /\ f[0].off = at1.off /\ f[0].obj = <<>>
      BY ONLY <2>1, <2>3, Reading(at1)
    <3>2. Reading(g[0]) /\ g[0].err = at2.err /\ g[0].off = at2.off /\ g[0].obj = <<>>
      BY ONLY <2>2, <2>3, Reading(at2)
    <3> QED
      BY ONLY <3>1, <3>2, at1.err = "SUCCESS", at2.err = "SUCCESS",
              Near(at1.off, at2.off, Len(buf)) DEF Alike
  <2>5. ASSUME NEW k \in 1..n
        PROVE  /\ f[k - 1].err # "SUCCESS" => f[k] = f[k - 1]
               /\ g[k - 1].err # "SUCCESS" => g[k] = g[k - 1]
               /\ Reading(f[k - 1]) /\ f[k - 1].err = "SUCCESS" => Reading(f[k])
               /\ Reading(g[k - 1]) /\ g[k - 1].err = "SUCCESS" => Reading(g[k])
               /\ /\ Reading(f[k - 1]) /\ Reading(g[k - 1])
                  /\ f[k - 1].err = "SUCCESS" /\ g[k - 1].err = "SUCCESS"
                  /\ f[k - 1].obj = g[k - 1].obj
                  /\ Near(f[k - 1].off, g[k - 1].off, len)
                  => Alike(f[k], g[k], len)
    <3> DEFINE before1 == f[k - 1]
               before2 == g[k - 1]
    <3>1. f[k] = IF before1.err = "SUCCESS" THEN ReadNested(e, buf, before1) ELSE before1
      BY ONLY <2>1, <2>5
    <3>2. g[k] = IF before2.err = "SUCCESS" THEN ReadNested(e, long, before2) ELSE before2
      BY ONLY <2>2, <2>5
    <3> HIDE DEF before1, before2
    <3>3. ASSUME Reading(before1), before1.err = "SUCCESS"
          PROVE  Reading(f[k])
      <4>1. OneMoreGood(e, buf, before1, ReadNested(e, buf, before1))
        BY <1>1, <1>3, <3>3, NestedRead
      <4> QED
        BY ONLY <3>1, <3>3, <4>1 DEF OneMoreGood, ReadOneMore
    <3>4. ASSUME Reading(before2), before2.err = "SUCCESS"
          PROVE  Reading(g[k])
      <4>1. OneMoreGood(e, long, before2, ReadNested(e, long, before2))
        BY <1>1, <1>3, <3>4, NestedRead
      <4> QED
        BY ONLY <3>2, <3>4, <4>1 DEF OneMoreGood, ReadOneMore
    <3>5. ASSUME Reading(before1), Reading(before2), before1.err = "SUCCESS",
                 before2.err = "SUCCESS", before1.obj = before2.obj,
                 Near(before1.off, before2.off, len)
          PROVE  Alike(f[k], g[k], len)
      <4>1. Alike(ReadNested(e, buf, before1), ReadNested(e, long, before2), len)
        BY <1>3, <3>5, NestedReadAlike
      <4> QED
        BY ONLY <3>1, <3>2, <3>5, <4>1
    <3> QED
      BY ONLY <3>1, <3>2, <3>3, <3>4, <3>5 DEF before1, before2
  <2> DEFINE one == f[n]
             other == g[n]
  <2> HIDE DEF len
  <2>6. Reading(one) /\ Reading(other) /\ Alike(one, other, len)
    BY ONLY <2>4, <2>5, n \in Nat, TurnsAlike
  <2> DEFINE obj1 == Append(at1.obj, one.obj)
             obj2 == Append(at2.obj, other.obj)
             after1 == [one EXCEPT !.obj = obj1]
             after2 == [other EXCEPT !.obj = obj2]
  <2>7. ReadArray(e, n, buf, at1) = after1 /\ ReadArray(e, n, long, at2) = after2
    BY ONLY <2>1, <2>2
  <2>8. one.obj = other.obj => obj1 = obj2
    BY ONLY at1.obj = at2.obj
  <2> HIDE DEF one, other, obj1, obj2
  <2>9. after1.err = one.err /\ after1.off = one.off /\ after1.obj = obj1
    BY ONLY <2>6 DEF Reading
  <2>10. after2.err = other.err /\ after2.off = other.off /\ after2.obj = obj2
    BY ONLY <2>6 DEF Reading
  <2> HIDE DEF after1, after2
  <2>11. Alike(after1, after2, len)
    BY ONLY <2>6, <2>8, <2>9, <2>10 DEF Alike
  <2> QED
    BY ONLY <2>7, <2>11 DEF len
<1> QED
  BY <1>2, <1>3, ElementKinds

(* So is one of which the payload may say how many elements it has, *)
LEMMA CountedReadAlike ==
  ASSUME NestedReads, NestedShort, NEW buf, NEW long, Padded(buf, long),
         NEW e, IsArray(e), NEW n \in Nat,
         NEW at1, NEW at2, Reading(at1), Reading(at2), at1.err = "SUCCESS",
         at2.err = "SUCCESS", at1.obj = at2.obj, Near(at1.off, at2.off, Len(buf))
  PROVE  Alike(ReadCounted(e, n, buf, at1), ReadCounted(e, n, long, at2), Len(buf))
<1>1. CASE Overfull(n, e.capacity)
  <2>1. ReadCounted(e, n, buf, at1) = Bad(at1, "BAD_ARRAY_LENGTH")
    BY <1>1, Zenon DEF ReadCounted
  <2>2. ReadCounted(e, n, long, at2) = Bad(at2, "BAD_ARRAY_LENGTH")
    BY <1>1, Zenon DEF ReadCounted
  <2>3. "BAD_ARRAY_LENGTH" \in ReadErrors
    BY DEF ReadErrors
  <2>4. Bad(at1, "BAD_ARRAY_LENGTH").err = "BAD_ARRAY_LENGTH"
    BY <2>3, BadIsRead
  <2>5. Bad(at2, "BAD_ARRAY_LENGTH").err = "BAD_ARRAY_LENGTH"
    BY <2>3, BadIsRead
  <2> QED
    BY ONLY <2>1, <2>2, <2>4, <2>5 DEF Alike
<1>2. CASE ~Overfull(n, e.capacity)
  <2> DEFINE w == PrefixWidth(e)
             a == at1.off + w
             b == at2.off + w
             there1 == [at1 EXCEPT !.off = a]
             there2 == [at2 EXCEPT !.off = b]
  <2>1. at1.off \in Nat /\ at2.off \in Nat /\ w \in Nat /\ Len(buf) \in Nat
    BY PaddedLengths DEF Reading, PrefixWidth, LengthWidth
  <2>2. a \in Nat /\ b \in Nat
    BY <2>1
  <2>3. Near(a, b, Len(buf))
    BY <2>1, NearGoesOn
  <2>4. ReadCounted(e, n, buf, at1) = ReadArray(e.of, n, buf, there1)
    BY <1>2 DEF ReadCounted
  <2>5. ReadCounted(e, n, long, at2) = ReadArray(e.of, n, long, there2)
    BY <1>2 DEF ReadCounted
  <2> HIDE DEF w, a, b
  <2>6. Reading(there1) /\ there1.err = at1.err /\ there1.obj = at1.obj /\ there1.off = a
    BY <2>2, MovedIsRead
  <2>7. Reading(there2) /\ there2.err = at2.err /\ there2.obj = at2.obj /\ there2.off = b
    BY <2>2, MovedIsRead
  <2>8. Element(e.of)
    BY Zenon DEF IsArray
  <2> HIDE DEF there1, there2
  <2>9. /\ there1.err = "SUCCESS" /\ there2.err = "SUCCESS" /\ there1.obj = there2.obj
        /\ Near(there1.off, there2.off, Len(buf))
    BY ONLY <2>3, <2>6, <2>7, at1.err = "SUCCESS", at2.err = "SUCCESS", at1.obj = at2.obj
  <2>10. Alike(ReadArray(e.of, n, buf, there1), ReadArray(e.of, n, long, there2), Len(buf))
    BY <2>6, <2>7, <2>8, <2>9, ArrayReadAlike
  <2> QED
    BY ONLY <2>4, <2>5, <2>10
<1> QED
  BY <1>1, <1>2

(* and any member. *)
LEMMA MemberReadAlike ==
  ASSUME NestedReads, NestedShort, NEW buf, NEW long, Padded(buf, long),
         NEW e, Member(e),
         NEW at1, NEW at2, Reading(at1), Reading(at2), at1.err = "SUCCESS",
         at2.err = "SUCCESS", at1.obj = at2.obj, Near(at1.off, at2.off, Len(buf))
  PROVE  Alike(Read(e, buf, at1), Read(e, long, at2), Len(buf))
<1> DEFINE len == Len(buf)
<1>0. /\ at1.off \in Nat /\ at2.off \in Nat /\ len \in Nat /\ buf \in Buffers
  BY PaddedLengths DEF Reading
<1>5. ASSUME NEW w \in Nat, NEW v
      PROVE  Alike(Got(at1, w, v), Got(at2, w, v), len)
  <2>1. Near(at1.off + w, at2.off + w, len)
    BY <1>0, NearGoesOn
  <2> QED
    BY <1>0, <2>1, GotAlike
<1>1. CASE IsNumber(e) /\ ~Array(e) /\ e.kind # "void"
  <2> DEFINE v == ReadScalar(e, buf, at1.off)
             w == e.width
  <2>1. w \in Nat /\ Scalar(e)
    <3>1. e.width \in Nat
      BY <1>1, NumberInMemory
    <3> QED
      BY <1>1, <3>1 DEF IsNumber
  <2>2. v = ReadScalar(e, long, at2.off)
    BY <1>0, <2>1, NumbersNear
  <2>3. Read(e, buf, at1) = Got(at1, w, v)
    BY ONLY <1>1, <2>1 DEF Read
  <2>4. Read(e, long, at2) = Got(at2, w, v)
    BY ONLY <1>1, <2>1, <2>2 DEF Read
  <2> HIDE DEF v, w, len
  <2> QED
    BY ONLY <1>5, <2>1, <2>3, <2>4 DEF len
<1>2. CASE IsVoid(e) /\ ~Scalar(e) /\ ~Array(e)
  <2> DEFINE w == e.width
             none == <<>>
  <2>1. w \in Nat /\ e.kind = "void"
    <3>1. e.width \in 1..64 /\ e.kind = "void"
      BY ONLY <1>2 DEF IsVoid
    <3> QED
      BY ONLY <3>1
  <2>2. Read(e, buf, at1) = Got(at1, w, none)
    BY <1>2, <2>1 DEF Read
  <2>3. Read(e, long, at2) = Got(at2, w, none)
    BY <1>2, <2>1 DEF Read
  <2> HIDE DEF w, none, len
  <2> QED
    BY ONLY <1>5, <2>1, <2>2, <2>3 DEF len
<1>3. CASE IsArray(e) /\ ~Scalar(e) /\ e.kind # "void"
  <2> DEFINE n == CountRead(e, buf, at1.off)
  <2>1. n \in Nat /\ PrefixWidth(e) \in Nat
    BY <1>0, <1>3, CountIsNat
  <2>2. Array(e)
    BY <1>3 DEF IsArray
  <2>3. n = CountRead(e, long, at2.off)
    <3>1. Taken(buf, at1.off, PrefixWidth(e)) = Taken(long, at2.off, PrefixWidth(e))
      BY <1>0, <2>1, TakenNear
    <3> QED
      BY ONLY <3>1 DEF CountRead
  <2>4. Read(e, buf, at1) = ReadCounted(e, n, buf, at1)
    BY <1>3, <2>2 DEF Read
  <2>5. Read(e, long, at2) = ReadCounted(e, n, long, at2)
    BY <1>3, <2>2, <2>3 DEF Read
  <2> HIDE DEF n
  <2>6. Alike(ReadCounted(e, n, buf, at1), ReadCounted(e, n, long, at2), len)
    BY <1>3, <2>1, CountedReadAlike
  <2> QED
    BY ONLY <2>4, <2>5, <2>6
<1>4. CASE IsNested(e) /\ ~Scalar(e) /\ ~Array(e) /\ e.kind # "void"
  <2>1. Read(e, buf, at1) = ReadNested(e, buf, at1)
    BY <1>4 DEF Read
  <2>2. Read(e, long, at2) = ReadNested(e, long, at2)
    BY <1>4 DEF Read
  <2>3. Alike(ReadNested(e, buf, at1), ReadNested(e, long, at2), len)
    BY <1>4, NestedReadAlike
  <2> QED
    BY ONLY <2>1, <2>2, <2>3
<1> QED
  BY <1>1, <1>2, <1>3, <1>4, MemberKinds

(* So are all of them, one after the other, *)
LEMMA MembersReadAlike ==
  ASSUME NestedReads, NestedShort, NEW buf, NEW long, Padded(buf, long),
         NEW t, Schema(t), NEW tag
  PROVE  /\ Alike(ReadMembers(t, tag, buf), ReadMembers(t, tag, long), Len(buf))
         /\ Reading(ReadMembers(t, tag, buf)) /\ Reading(ReadMembers(t, tag, long))
<1> DEFINE len == Len(buf)
<1>1. buf \in Buffers /\ long \in Buffers
  BY PaddedLengths
<1>2. CASE t.kind = "union" /\ tag \notin DOMAIN t.members
  <2> DEFINE at == Bad(Start, "BAD_UNION_TAG")
  <2>1. ReadMembers(t, tag, buf) = at /\ ReadMembers(t, tag, long) = at
    BY ONLY <1>2 DEF ReadMembers
  <2>2. "BAD_UNION_TAG" \in ReadErrors
    BY DEF ReadErrors
  <2>3. Reading(at) /\ at.err = "BAD_UNION_TAG"
    BY <2>2, ReadingBegins, BadIsRead
  <2> HIDE DEF at
  <2> QED
    BY ONLY <2>1, <2>3 DEF Alike
<1>3. CASE ~(t.kind = "union" /\ tag \notin DOMAIN t.members)
  <2> DEFINE present == Present(t, tag)
             n == Len(present)
             begin == ReadTag(t)
  <2>1. n \in Nat /\ \A k \in 1..n : Member(present[k])
    BY <1>3, PresentMembers
  <2>2. PICK f : /\ f[0] = begin
                 /\ \A k \in 1..n : f[k] = IF f[k - 1].err = "SUCCESS"
                                           THEN Read(present[k], buf, f[k - 1]) ELSE f[k - 1]
                 /\ ReadMembers(t, tag, buf) = f[n]
    BY <1>3, <2>1, MembersReadInTurn
  <2>3. PICK g : /\ g[0] = begin
                 /\ \A k \in 1..n : g[k] = IF g[k - 1].err = "SUCCESS"
                                           THEN Read(present[k], long, g[k - 1]) ELSE g[k - 1]
                 /\ ReadMembers(t, tag, long) = g[n]
    BY <1>3, <2>1, MembersReadInTurn
  <2>4. Reading(begin)
    BY ReadingBegins
  <2> HIDE DEF present, n, begin
  <2>5. Reading(f[0]) /\ Reading(g[0]) /\ Alike(f[0], g[0], len)
    BY ONLY <2>2, <2>3, <2>4 DEF Alike, Near
  <2>6. ASSUME NEW k \in 1..n
        PROVE  /\ f[k - 1].err # "SUCCESS" => f[k] = f[k - 1]
               /\ g[k - 1].err # "SUCCESS" => g[k] = g[k - 1]
               /\ Reading(f[k - 1]) /\ f[k - 1].err = "SUCCESS" => Reading(f[k])
               /\ Reading(g[k - 1]) /\ g[k - 1].err = "SUCCESS" => Reading(g[k])
               /\ /\ Reading(f[k - 1]) /\ Reading(g[k - 1])
                  /\ f[k - 1].err = "SUCCESS" /\ g[k - 1].err = "SUCCESS"
                  /\ f[k - 1].obj = g[k - 1].obj
                  /\ Near(f[k - 1].off, g[k - 1].off, len)
                  => Alike(f[k], g[k], len)
    <3> DEFINE before1 == f[k - 1]
               before2 == g[k - 1]
               e == present[k]
    <3>1. f[k] = IF before1.err = "SUCCESS" THEN Read(e, buf, before1) ELSE before1
      BY ONLY <2>2, <2>6
    <3>2. g[k] = IF before2.err = "SUCCESS" THEN Read(e, long, before2) ELSE before2
      BY ONLY <2>3, <2>6
    <3>6. Member(e)
      BY ONLY <2>1, <2>6
    <3> HIDE DEF before1, before2, e
    <3>3. ASSUME Reading(before1), before1.err = "SUCCESS"
          PROVE  Reading(f[k])
      <4>1. OneMoreMember(e, buf, before1, Read(e, buf, before1))
        BY <1>1, <3>3, <3>6, MemberRead
      <4> QED
        BY ONLY <3>1, <3>3, <4>1 DEF OneMoreMember, ReadOneMore
    <3>4. ASSUME Reading(before2), before2.err = "SUCCESS"
          PROVE  Reading(g[k])
      <4>1. OneMoreMember(e, long, before2, Read(e, long, before2))
        BY <1>1, <3>4, <3>6, MemberRead
      <4> QED
        BY ONLY <3>2, <3>4, <4>1 DEF OneMoreMember, ReadOneMore
    <3>5. ASSUME Reading(before1), Reading(before2), before1.err = "SUCCESS",
                 before2.err = "SUCCESS", before1.obj = before2.obj,
                 Near(before1.off, before2.off, len)
          PROVE  Alike(f[k], g[k], len)
      <4>1. Alike(Read(e, buf, before1), Read(e, long, before2), len)
        BY <3>5, <3>6, MemberReadAlike
      <4> QED
        BY ONLY <3>1, <3>2, <3>5, <4>1
    <3> QED
      BY ONLY <3>1, <3>2, <3>3, <3>4, <3>5 DEF before1, before2
  <2> HIDE DEF len
  <2>7. Reading(f[n]) /\ Reading(g[n]) /\ Alike(f[n], g[n], len)
    BY ONLY <2>1, <2>5, <2>6, TurnsAlike
  <2> QED
    BY ONLY <2>2, <2>3, <2>7 DEF len
<1> QED
  BY <1>2, <1>3

(* and the sizes that are reported are near. *)
LEMMA SizesNear ==
  ASSUME NEW a \in Nat, NEW b \in Nat, NEW m \in Nat, NEW n \in Nat, m <= n, m % 8 = 0,
         a % 8 = 0, b % 8 = 0, Near(a, b, m)
  PROVE  Near((Lesser(a, m) \div 8) * 8, (Lesser(b, n) \div 8) * 8, m)
<1> DEFINE one == Lesser(a, m)
           other == Lesser(b, n)
<1>1. \A x \in Nat, y \in Nat : y % 8 = 0 /\ y <= x => y <= (x \div 8) * 8
  OBVIOUS
<1>2. one = IF a < m THEN a ELSE m
  BY ONLY TRUE DEF Lesser
<1>3. other = IF b < n THEN b ELSE n
  BY ONLY TRUE DEF Lesser
<1> HIDE DEF one, other
<1>4. a = b \/ (m <= a /\ m <= b)
  BY DEF Near
<1>5. CASE a = b /\ a < m
  <2>1. one = other
    BY ONLY <1>2, <1>3, <1>5, a \in Nat, m \in Nat, n \in Nat, m <= n
  <2> QED
    BY ONLY <2>1 DEF Near, one, other
<1>6. CASE m <= a /\ m <= b
  <2>1. one \in Nat /\ other \in Nat /\ m <= one /\ m <= other
    BY ONLY <1>2, <1>3, <1>6, a \in Nat, b \in Nat, m \in Nat, n \in Nat, m <= n
  <2>2. m <= (one \div 8) * 8 /\ m <= (other \div 8) * 8
    BY ONLY <1>1, <2>1, m \in Nat, m % 8 = 0
  <2> QED
    BY ONLY <2>2 DEF Near, one, other
<1>7. a = b => a < m \/ (m <= a /\ m <= b)
  OBVIOUS
<1> QED
  BY <1>4, <1>5, <1>6, <1>7

-----------------------------------------------------------------------------
(* What the types in X promise, X promises as well: a payload that ends    *)
(* early, after a whole byte, is read like the same with zeros after it,   *)
(* unless a delimiter header reaches over its end.                         *)
Short ==
  \A t, buf, long : Schema(t) /\ Padded(buf, long) =>
    SameRead(Deserialized(t, buf), Deserialized(t, long), Len(buf))

(* The tag is read alike, and the members after it.                        *)
THEOREM ShortIsZeros == NestedReads /\ NestedShort => Short
<1> SUFFICES ASSUME NestedReads, NestedShort, NEW t, NEW buf, NEW long, Schema(t),
                    Padded(buf, long)
             PROVE  SameRead(Deserialized(t, buf), Deserialized(t, long), Len(buf))
  BY Zenon DEF Short
<1> DEFINE m == Len(buf)
           n == Len(long)
           tag == IF t.kind = "union" THEN TagRead(buf) ELSE 0
           at1 == ReadMembers(t, tag, buf)
           at2 == ReadMembers(t, tag, long)
           read1 == Deserialized(t, buf)
           read2 == Deserialized(t, long)
<1>1. m \in Nat /\ n \in Nat /\ m <= n /\ m % 8 = 0
  BY PaddedLengths
<1>2. tag = IF t.kind = "union" THEN TagRead(long) ELSE 0
  <2>1. 0 \in Nat /\ 8 \in Nat /\ Near(0, 0, Len(buf))
    BY DEF Near
  <2> DEFINE zero == 0
  <2> HIDE DEF zero
  <2>2. Taken(buf, zero, 8) = Taken(long, zero, 8)
    BY <2>1, TakenNear DEF zero
  <2> QED
    BY ONLY <2>2 DEF TagRead, zero
<1>3. read1 = Result(t, tag, buf, at1)
  BY DEF Deserialized
<1>4. read2 = Result(t, tag, long, at2)
  <2> DEFINE other == IF t.kind = "union" THEN TagRead(long) ELSE 0
  <2>1. read2 = Result(t, other, long, ReadMembers(t, other, long))
    BY DEF Deserialized
  <2> HIDE DEF other, tag, read2
  <2> QED
    BY ONLY <1>2, <2>1 DEF other
<1> HIDE DEF tag
<1>5. Alike(at1, at2, m) /\ Reading(at1) /\ Reading(at2)
  BY MembersReadAlike
<1> HIDE DEF at1, at2, read1, read2
<1>6. /\ read1.err = at1.err /\ read1.size = Lesser(Align(at1.off), m) \div 8
      /\ read1.obj = IF at1.err # "SUCCESS" THEN <<>>
                     ELSE IF t.kind = "struct" THEN at1.obj
                     ELSE [tag |-> tag, value |-> at1.obj[1]]
  BY ONLY <1>3 DEF Result
<1>7. /\ read2.err = at2.err /\ read2.size = Lesser(Align(at2.off), n) \div 8
      /\ read2.obj = IF at2.err # "SUCCESS" THEN <<>>
                     ELSE IF t.kind = "struct" THEN at2.obj
                     ELSE [tag |-> tag, value |-> at2.obj[1]]
  BY ONLY <1>4 DEF Result
<1> HIDE DEF m, n
<1>8. ASSUME Near(at1.off, at2.off, m)
      PROVE  Near(read1.size * 8, read2.size * 8, m)
  <2> DEFINE a == Align(at1.off)
             b == Align(at2.off)
  <2>1. at1.off \in Nat /\ at2.off \in Nat
    BY <1>5 DEF Reading
  <2>2. a \in Nat /\ b \in Nat /\ a % 8 = 0 /\ b % 8 = 0 /\ Near(a, b, m)
    BY <1>1, <1>8, <2>1, AlignIsNextByte, NearGoesOn
  <2> HIDE DEF a, b
  <2>3. Near((Lesser(a, m) \div 8) * 8, (Lesser(b, n) \div 8) * 8, m)
    BY <1>1, <2>2, SizesNear
  <2> QED
    BY ONLY <1>6, <1>7, <2>3 DEF a, b
<1>9. CASE at1.err = "BAD_DELIMITER_HEADER"
  BY ONLY <1>6, <1>9 DEF SameRead, read1
<1>10. CASE at1.err # "BAD_DELIMITER_HEADER"
  <2>1. at1.err = at2.err /\ (at1.err = "SUCCESS" => at1.obj = at2.obj /\ Near(at1.off, at2.off, m))
    BY ONLY <1>5, <1>10 DEF Alike
  <2>2. read1.obj = read2.obj
    BY ONLY <1>6, <1>7, <2>1
  <2>3. SameRead(read1, read2, m)
    BY ONLY <1>6, <1>7, <1>8, <2>1, <2>2 DEF SameRead
  <2> QED
    BY ONLY <2>3 DEF read1, read2, m
<1> QED
  BY <1>9, <1>10

=============================================================================
