---------------------------- MODULE CodecProofs -----------------------------
(***************************************************************************)
(* What holds of every message on its way (Codec), whatever the types, the *)
(* objects and the payloads are.  TypeProofs has the functions of one type *)
(* given those of the types in it; here the six levels of types are put    *)
(* on one another.                                                         *)
(*                                                                         *)
(* Dsdl takes an instance of every module of a type for itself, TypeProofs *)
(* extends them all.  So Level2!Serialized and Writer2!Serialized are two  *)
(* operators with one definition, and so on for every operator in them:    *)
(* for each level the lemmas with Alike in their names say so, from the    *)
(* bits up.                                                                *)
(***************************************************************************)
EXTENDS Codec, ScalarsProofs

-----------------------------------------------------------------------------
(* The types of the first level, in which there is no type, *)
Level1 == INSTANCE TypeProofs WITH
  NestedSerialize <- NoneSerialized, NestedDeserialize <- NoneDeserialized,
  NestedSchema <- NoneSchema, NestedLargest <- NoneLargest, NestedExact <- NoneExact,
  NestedObject <- NoneObject, NestedSurvives <- NoneSurvives, NestedFilled <- NoneFilled

(* of which what TypeProofs says of the types in a type holds. *)
LEMMA FirstLevel == /\ Level1!NestedWrites /\ Level1!NestedReads /\ Level1!NestedFills /\ Level1!NestedRounds
                    /\ Level1!NestedAgain /\ Level1!NestedShort
  BY DEF Level1!NestedWrites, Level1!NestedReads, Level1!NestedFills, Level1!NestedRounds,
         Level1!NestedAgain, Level1!NestedShort, NoneSchema

(* What a type of the first level is, and how large its objects are. *)
LEMMA FirstSchemasAlike ==
  /\ \A t : Level1!Schema(t) = Schema1!Schema(t)
  /\ \A t : Level1!Largest(t) = Schema1!Largest(t)
  /\ \A t : Level1!Exact(t) = Schema1!Exact(t)
<1>1. \A t : Level1!Schema(t) = Schema1!Schema(t)
  BY SMTT(60)
  DEF Level1!Schema, Schema1!Schema, Level1!Member, Schema1!Member,
         Level1!Element, Schema1!Element, Level1!Halves, Schema1!Halves,
         Level1!Float, Schema1!Float, Level1!Numbers, Schema1!Numbers,
         Level1!Composite, Schema1!Composite, Level1!Array, Schema1!Array,
         Level1!MaxSize, Schema1!MaxSize
<1>2. \A t : Level1!Largest(t) = Schema1!Largest(t)
  BY Zenon
  DEF Level1!Largest, Schema1!Largest, Level1!Align, Schema1!Align,
         Level1!MemberEnd, Schema1!MemberEnd, Level1!PrefixWidth, Schema1!PrefixWidth,
         Level1!LengthWidth, Schema1!LengthWidth, Level1!Array, Schema1!Array,
         Level1!ElementBegin, Schema1!ElementBegin, Level1!Scalar, Schema1!Scalar,
         Level1!ElementLargest, Schema1!ElementLargest
<1>3. \A t : Level1!Exact(t) = Schema1!Exact(t)
  BY Zenon
  DEF Level1!Exact, Schema1!Exact, Level1!ExactMember, Schema1!ExactMember,
         Level1!Array, Schema1!Array, Level1!ExactElement, Schema1!ExactElement,
         Level1!Numbers, Schema1!Numbers, Level1!Scalar, Schema1!Scalar,
         Level1!Composite, Schema1!Composite
<1> QED
  BY ONLY <1>1, <1>2, <1>3

(* What its objects are. *)
LEMMA FirstObjectsAlike ==
  /\ \A t, v : Level1!Object(t, v) = Objects1!Object(t, v)
  /\ \A t, p, filling, o : Level1!Filled(t, p, filling, o) = Objects1!Filled(t, p, filling, o)
<1>1. /\ \A e : Level1!Scalar(e) = Objects1!Scalar(e) /\ Level1!Array(e) = Objects1!Array(e)
      /\ \A e : Level1!Composite(e) = Objects1!Composite(e)
      /\ \A s : Level1!Sequence(s) = Objects1!Sequence(s)
      /\ \A t, tag : Level1!Present(t, tag) = Objects1!Present(t, tag)
      /\ \A t, v : Level1!Values(t, v) = Objects1!Values(t, v)
  BY Zenon
  DEF Level1!Scalar, Objects1!Scalar, Level1!Array, Objects1!Array,
         Level1!Composite, Objects1!Composite, Level1!Sequence, Objects1!Sequence,
         Level1!Present, Objects1!Present, Level1!Values, Objects1!Values
<1>2. \A e : Level1!MemoryWidth(e) = Objects1!MemoryWidth(e)
  BY Zenon
  DEF Level1!MemoryWidth, Objects1!MemoryWidth
<1>3. \A e : Level1!InC(e) = Objects1!InC(e)
  BY ONLY <1>2, Zenon
  DEF Level1!InC, Objects1!InC
<1>4. \A e, v : Level1!ElementObject(e, v) = Objects1!ElementObject(e, v)
  BY ONLY <1>1, <1>3
  DEF Level1!ElementObject, Objects1!ElementObject
<1>5. \A e, v : Level1!MemberObject(e, v) = Objects1!MemberObject(e, v)
  BY ONLY <1>1, <1>4
  DEF Level1!MemberObject, Objects1!MemberObject
<1>6. \A t, v : Level1!Object(t, v) = Objects1!Object(t, v)
  BY ONLY <1>1, <1>5
  DEF Level1!Object, Objects1!Object
<1>7. /\ \A p, k : Level1!Turned(p, k) = Objects1!Turned(p, k)
      /\ \A p, w : Level1!Bits(p, w) = Objects1!Bits(p, w)
      /\ \A filling, capacity : Level1!Count(filling, capacity) = Objects1!Count(filling, capacity)
  BY Zenon
  DEF Level1!Turned, Objects1!Turned, Level1!Bits, Objects1!Bits,
         Level1!Count, Objects1!Count
<1>8. \A e, p, filling, o : Level1!ElementFilled(e, p, filling, o) = Objects1!ElementFilled(e, p, filling, o)
  BY ONLY <1>1, <1>2, <1>7
  DEF Level1!ElementFilled, Objects1!ElementFilled
<1>9. ASSUME NEW e, NEW p, NEW filling, NEW o
      PROVE  Level1!MemberFilled(e, p, filling, o) = Objects1!MemberFilled(e, p, filling, o)
  <2> DEFINE n == IF e.kind = "fixed" THEN e.capacity ELSE Level1!Count(filling, e.capacity)
             elements == [k \in 1..n |-> Level1!ElementFilled(e.of, Level1!Turned(p, k - 1), filling, o)]
  <2>1. n = IF e.kind = "fixed" THEN e.capacity ELSE Objects1!Count(filling, e.capacity)
    BY ONLY <1>7
  <2> HIDE DEF n
  <2>2. elements = [k \in 1..n |-> Objects1!ElementFilled(e.of, Objects1!Turned(p, k - 1), filling, o)]
    BY ONLY <1>7, <1>8
  <2>3. Level1!MemberFilled(e, p, filling, o) =
          CASE e.kind = "void" -> <<>> [] Level1!Array(e) -> elements
            [] OTHER -> Level1!ElementFilled(e, p, filling, o)
    BY ONLY Zenon DEF Level1!MemberFilled, n
  <2>4. Objects1!MemberFilled(e, p, filling, o) =
          CASE e.kind = "void" -> <<>> [] Objects1!Array(e) -> elements
            [] OTHER -> Objects1!ElementFilled(e, p, filling, o)
    BY ONLY <2>1, <2>2, Zenon DEF Objects1!MemberFilled
  <2> HIDE DEF elements
  <2> QED
    BY ONLY <1>1, <1>8, <2>3, <2>4
<1>10. \A t, p, filling, o : Level1!Filled(t, p, filling, o) = Objects1!Filled(t, p, filling, o)
  BY ONLY <1>7, <1>9
  DEF Level1!Filled, Objects1!Filled
<1> QED
  BY ONLY <1>6, <1>10

(* When one of them is what another was. *)
LEMMA FirstSurvivorsAlike ==
  \A t, v, w : Level1!Survives(t, v, w) = Objects1!Survives(t, v, w)
<1>1. /\ \A e : Level1!Scalar(e) = Objects1!Scalar(e) /\ Level1!Array(e) = Objects1!Array(e)
      /\ \A e : Level1!Composite(e) = Objects1!Composite(e)
      /\ \A t, tag : Level1!Present(t, tag) = Objects1!Present(t, tag)
      /\ \A t, v : Level1!Values(t, v) = Objects1!Values(t, v)
      /\ \A n, w : Level1!BitsOf(n, w) = Objects1!BitsOf(n, w)
  BY Zenon
  DEF Level1!Scalar, Objects1!Scalar, Level1!Array, Objects1!Array,
         Level1!Composite, Objects1!Composite, Level1!Present, Objects1!Present,
         Level1!Values, Objects1!Values, Level1!BitsOf, Objects1!BitsOf
<1>2. \A bits : Level1!NumberOf(bits) = Objects1!NumberOf(bits)
  BY Zenon
  DEF Level1!NumberOf, Objects1!NumberOf
<1>3. ASSUME NEW half
      PROVE  Level1!Unpacked(half) = Objects1!Unpacked(half)
  <2> DEFINE Top(m) == CHOOSE k \in 0..10 : 2^k <= m /\ m < 2^(k + 1)
             Magnitude(e, m) ==
               CASE e \in 1..30 -> (e + 112) * 2^23 + m * 2^13
                 [] e = 31      -> 255 * 2^23 + m * 2^13
                 [] OTHER -> IF m = 0 THEN 0 ELSE (103 + Top(m)) * 2^23 + (m - 2^Top(m)) * 2^(23 - Top(m))
             e1 == Level1!NumberOf(SubSeq(half, 11, 15))
             m1 == Level1!NumberOf(SubSeq(half, 1, 10))
             e2 == Objects1!NumberOf(SubSeq(half, 11, 15))
             m2 == Objects1!NumberOf(SubSeq(half, 1, 10))
  <2>1. Level1!Unpacked(half) = Level1!BitsOf(Magnitude(e1, m1), 31) \o <<half[16]>>
    BY ONLY DEF Level1!Unpacked
  <2>2. Objects1!Unpacked(half) = Objects1!BitsOf(Magnitude(e2, m2), 31) \o <<half[16]>>
    BY ONLY DEF Objects1!Unpacked
  <2>3. e1 = e2 /\ m1 = m2
    BY ONLY <1>2
  <2> HIDE DEF Magnitude, e1, m1, e2, m2
  <2> QED
    BY ONLY <1>1, <2>1, <2>2, <2>3, Zenon
<1>4. ASSUME NEW float, NEW half
      PROVE  Level1!NearestHalf(float, half) = Objects1!NearestHalf(float, half)
  <2> DEFINE Whole(n) == [half EXCEPT ![32] = n]
             One(n) == Level1!Unpacked(Level1!BitsOf(n, 16))
             Other(n) == Objects1!Unpacked(Objects1!BitsOf(n, 16))
             Multiple == CHOOSE n \in 0..1024 : One(n) = Whole(0)
             MultipleToo == CHOOSE n \in 0..1024 : Other(n) = Whole(0)
             Largest1 == 142 * 2^23 + 1023 * 2^13
             Apart(f, m) == 2 * m * 2^(126 - (f \div 2^23)) - 2 * ((f % 2^23) + 2^23)
             Near1(f, h, m) ==
               /\ half[32] = float[32]
               /\ CASE f > 255 * 2^23 -> h > 255 * 2^23
                    [] f \div 2^23 = 255 /\ ~(f > 255 * 2^23) -> h = 255 * 2^23
                    [] f \div 2^23 < 255 /\ f >= Largest1 -> h = Largest1
                    [] f \div 2^23 \in 113..142 /\ f < Largest1 -> h - f \in -4096..4096
                    [] f \div 2^23 \in 102..112 -> Apart(f, m) \in (-(2^(126 - (f \div 2^23))))..2^(126 - (f \div 2^23))
                    [] f \div 2^23 < 102 -> h = 0
             f1 == Level1!NumberOf(SubSeq(float, 1, 31))
             h1 == Level1!NumberOf(SubSeq(half, 1, 31))
             f2 == Objects1!NumberOf(SubSeq(float, 1, 31))
             h2 == Objects1!NumberOf(SubSeq(half, 1, 31))
  <2>1. Level1!NearestHalf(float, half) = Near1(f1, h1, Multiple)
    BY ONLY Zenon DEF Level1!NearestHalf
  <2>2. Objects1!NearestHalf(float, half) = Near1(f2, h2, MultipleToo)
    BY ONLY Zenon DEF Objects1!NearestHalf
  <2>3. f1 = f2 /\ h1 = h2
    BY ONLY <1>2
  <2>4. \A n : One(n) = Other(n)
    BY ONLY <1>1, <1>3, Zenon
  <2> HIDE DEF Near1, f1, f2, h1, h2, One, Other, Whole
  <2>5. Multiple = MultipleToo
    BY ONLY <2>4, ZenonT(60)
  <2> HIDE DEF Multiple, MultipleToo
  <2> QED
    BY ONLY <2>1, <2>2, <2>3, <2>5, ZenonT(60)
<1>5. \A e, v, w : Level1!SurvivesScalar(e, v, w) = Objects1!SurvivesScalar(e, v, w)
  BY ONLY <1>4, Zenon
  DEF Level1!SurvivesScalar, Objects1!SurvivesScalar
<1>6. \A e, v, w : Level1!ElementSurvives(e, v, w) = Objects1!ElementSurvives(e, v, w)
  BY ONLY <1>1, <1>5
  DEF Level1!ElementSurvives, Objects1!ElementSurvives
<1>7. \A e, v, w : Level1!MemberSurvives(e, v, w) = Objects1!MemberSurvives(e, v, w)
  BY ONLY <1>1, <1>6
  DEF Level1!MemberSurvives, Objects1!MemberSurvives
<1> QED
  BY ONLY <1>1, <1>7
  DEF Level1!Survives, Objects1!Survives

(* Numbers of the first level on the wire. *)
LEMMA FirstBitsAlike ==
  /\ \A n : Level1!Zeros(n) = Writer1!Zeros(n)
  /\ \A n, w : Level1!BitsOf(n, w) = Writer1!BitsOf(n, w)
  /\ \A e : Level1!Scalar(e) = Writer1!Scalar(e)
  /\ \A e, v : Level1!OnWire(e, v) = Writer1!OnWire(e, v)
  /\ \A e, v : Level1!ArrayOnWire(e, v) = Writer1!ArrayOnWire(e, v)
<1>1. /\ \A n : Level1!Zeros(n) = Writer1!Zeros(n) /\ Level1!Ones(n) = Writer1!Ones(n)
      /\ \A n, w : Level1!BitsOf(n, w) = Writer1!BitsOf(n, w)
      /\ \A e : Level1!Scalar(e) = Writer1!Scalar(e)
      /\ \A one, other : Level1!Lesser(one, other) = Writer1!Lesser(one, other)
  BY Zenon
  DEF Level1!Zeros, Writer1!Zeros, Level1!Ones, Writer1!Ones, Level1!BitsOf,
      Writer1!BitsOf, Level1!Scalar, Writer1!Scalar, Level1!Lesser, Writer1!Lesser
<1>2. \A bits : Level1!NumberOf(bits) = Writer1!NumberOf(bits)
  BY Zenon DEF Level1!NumberOf, Writer1!NumberOf
<1>3. \A m, n : Level1!Shifted(m, n) = Writer1!Shifted(m, n)
  BY Zenon DEF Level1!Shifted, Writer1!Shifted
<1>4. ASSUME NEW v
      PROVE  Level1!Half(v) = Writer1!Half(v)
  <2> DEFINE Small(m) == 2^23 + (m \div 4096) * 4096
             Down(e) == 113 - e
             Sum(e, m, down) ==
               (IF e > 112 THEN (e - 112) * 2^23 + (m \div 4096) * 4096 ELSE IF e = 0 THEN 0 ELSE down) + 4096
             Most == 31 * 2^23
             Packed(e, m, sum) ==
               IF e < 255 THEN sum \div 2^13 ELSE IF m = 0 THEN 31 * 2^10 ELSE 63 * 2^9
             e1 == Level1!NumberOf(SubSeq(v, 24, 31))
             m1 == Level1!NumberOf(SubSeq(v, 1, 23))
             e2 == Writer1!NumberOf(SubSeq(v, 24, 31))
             m2 == Writer1!NumberOf(SubSeq(v, 1, 23))
  <2>1. Level1!Half(v) = Level1!BitsOf(Packed(e1, m1, Level1!Lesser(Sum(e1, m1, Level1!Shifted(Small(m1), Down(e1))), Most)), 15)
                      \o <<v[32]>>
    BY ONLY DEF Level1!Half
  <2>2. Writer1!Half(v) = Writer1!BitsOf(Packed(e2, m2, Writer1!Lesser(Sum(e2, m2, Writer1!Shifted(Small(m2), Down(e2))), Most)), 15)
                      \o <<v[32]>>
    BY ONLY DEF Writer1!Half
  <2>3. e1 = e2 /\ m1 = m2
    BY ONLY <1>2
  <2> HIDE DEF Small, Down, Sum, Most, Packed, e1, m1, e2, m2
  <2>4. Level1!Lesser(Sum(e1, m1, Level1!Shifted(Small(m1), Down(e1))), Most)
          = Writer1!Lesser(Sum(e2, m2, Writer1!Shifted(Small(m2), Down(e2))), Most)
    BY ONLY <1>1, <1>3, <2>3, Zenon
  <2> QED
    BY ONLY <1>1, <2>1, <2>2, <2>3, <2>4, Zenon
<1>5. \A v : Level1!Saturated(v) = Writer1!Saturated(v)
  BY <1>1, <1>2 DEF Level1!Saturated, Writer1!Saturated
<1>6. \A e, v : Level1!OnWire(e, v) = Writer1!OnWire(e, v)
  BY <1>1, <1>4, <1>5, Zenon DEF Level1!OnWire, Writer1!OnWire
<1>7. \A e, v : Level1!ArrayOnWire(e, v) = Writer1!ArrayOnWire(e, v)
  BY <1>6 DEF Level1!ArrayOnWire, Writer1!ArrayOnWire
<1> QED
  BY ONLY <1>1, <1>6, <1>7

(* What is written into the buffer. *)
LEMMA FirstOutAlike ==
  /\ \A at, bits : Level1!Put(at, bits) = Writer1!Put(at, bits)
  /\ \A at, error : Level1!Fail(at, error) = Writer1!Fail(at, error)
  /\ \A at : Level1!PutAligned(at) = Writer1!PutAligned(at)
  /\ Level1!Blank = Writer1!Blank
<1>1. /\ \A at, bits : Level1!Put(at, bits) = Writer1!Put(at, bits)
      /\ \A at, error : Level1!Fail(at, error) = Writer1!Fail(at, error)
      /\ Level1!Blank = Writer1!Blank
  BY Zenon DEF Level1!Put, Writer1!Put, Level1!Fail, Writer1!Fail, Level1!Blank, Writer1!Blank
<1>2. \A off : Level1!Align(off) = Writer1!Align(off)
  BY Zenon DEF Level1!Align, Writer1!Align
<1>3. \A at : Level1!PutAligned(at) = Writer1!PutAligned(at)
  BY ONLY <1>1, <1>2, FirstBitsAlike, Zenon DEF Level1!PutAligned, Writer1!PutAligned
<1> QED
  BY ONLY <1>1, <1>3

(* The elements of an array, one after the other. *)
LEMMA FirstElementsWrittenAlike ==
  /\ \A e : Level1!Composite(e) = Writer1!Composite(e) /\ Level1!Array(e) = Writer1!Array(e)
  /\ \A e : Level1!PrefixWidth(e) = Writer1!PrefixWidth(e)
  /\ \A m, capacity : Level1!TooMany(m, capacity) = Writer1!TooMany(m, capacity)
  /\ \A e, val, at : Level1!WriteNested(e, val, at) = Writer1!WriteNested(e, val, at)
  /\ \A e, val, at : Level1!WriteArray(e, val, at) = Writer1!WriteArray(e, val, at)
<1>1. /\ \A e : Level1!Composite(e) = Writer1!Composite(e) /\ Level1!Array(e) = Writer1!Array(e)
      /\ \A e : Level1!PrefixWidth(e) = Writer1!PrefixWidth(e)
      /\ \A m, capacity : Level1!TooMany(m, capacity) = Writer1!TooMany(m, capacity)
  BY Zenon
  DEF Level1!Composite, Writer1!Composite, Level1!Array, Writer1!Array,
      Level1!PrefixWidth, Writer1!PrefixWidth, Level1!LengthWidth,
      Writer1!LengthWidth, Level1!TooMany, Writer1!TooMany
<1>2. \A e, val, at : Level1!WriteNested(e, val, at) = Writer1!WriteNested(e, val, at)
  BY ONLY <1>1, FirstBitsAlike, FirstOutAlike DEF Level1!WriteNested, Writer1!WriteNested
<1>3. ASSUME NEW e, NEW val, NEW at
      PROVE  Level1!WriteArray(e, val, at) = Writer1!WriteArray(e, val, at)
  <2> DEFINE F(f) == [k \in 0..Len(val) |-> IF k = 0 THEN at
                  ELSE IF f[k - 1].err = "SUCCESS" THEN Level1!WriteNested(e, val[k], f[k - 1]) ELSE f[k - 1]]
             G(f) == [k \in 0..Len(val) |-> IF k = 0 THEN at
                  ELSE IF f[k - 1].err = "SUCCESS" THEN Writer1!WriteNested(e, val[k], f[k - 1]) ELSE f[k - 1]]
  <2>1. \A f : F(f) = G(f)
    BY ONLY <1>2
  <2>2. Level1!WriteArray(e, val, at) = IF Level1!Scalar(e) THEN Level1!Put(at, Level1!ArrayOnWire(e, val))
                                     ELSE (CHOOSE f : f = F(f))[Len(val)]
    BY ONLY Zenon DEF Level1!WriteArray, Level1!InTurn
  <2>3. Writer1!WriteArray(e, val, at) = IF Writer1!Scalar(e) THEN Writer1!Put(at, Writer1!ArrayOnWire(e, val))
                                     ELSE (CHOOSE f : f = G(f))[Len(val)]
    BY ONLY Zenon DEF Writer1!WriteArray, Writer1!InTurn
  <2> HIDE DEF F, G
  <2>4. (CHOOSE f : f = F(f)) = (CHOOSE f : f = G(f))
    BY ONLY <2>1, Zenon
  <2>5. Level1!Put(at, Level1!ArrayOnWire(e, val)) = Writer1!Put(at, Writer1!ArrayOnWire(e, val))
        /\ Level1!Scalar(e) = Writer1!Scalar(e)
    BY ONLY FirstBitsAlike, FirstOutAlike
  <2> QED
    BY ONLY <2>2, <2>3, <2>4, <2>5, Zenon
<1> QED
  BY ONLY <1>1, <1>2, <1>3

(* X_serialize_ of the first level. *)
LEMMA FirstWriterAlike == \A t, v : Level1!Serialized(t, v) = Writer1!Serialized(t, v)
<1>1. \A e, v, at : Level1!Write(e, v, at) = Writer1!Write(e, v, at)
  BY ONLY FirstBitsAlike, FirstOutAlike, FirstElementsWrittenAlike DEF Level1!Write, Writer1!Write
<1>2. /\ \A t, tag : Level1!Present(t, tag) = Writer1!Present(t, tag)
      /\ \A t, v : Level1!Values(t, v) = Writer1!Values(t, v)
  BY Zenon DEF Level1!Present, Writer1!Present, Level1!Values, Writer1!Values
<1>3. ASSUME NEW t, NEW tag, NEW v
      PROVE  Level1!WriteMembers(t, tag, v) = Writer1!WriteMembers(t, tag, v)
  <2> DEFINE n == Len(Level1!Present(t, tag))
             first == IF t.kind = "union" THEN Level1!Put(Level1!Blank, Level1!BitsOf(tag - 1, 8)) ELSE Level1!Blank
  <2>1. /\ n = Len(Writer1!Present(t, tag))
        /\ first = IF t.kind = "union" THEN Writer1!Put(Writer1!Blank, Writer1!BitsOf(tag - 1, 8)) ELSE Writer1!Blank
    BY ONLY <1>2, FirstBitsAlike, FirstOutAlike
  <2> HIDE DEF n, first
  <2> DEFINE F(f) == [k \in 0..n |-> IF k = 0 THEN first
                  ELSE IF f[k - 1].err = "SUCCESS" THEN Level1!Write(Level1!Present(t, tag)[k], v[k], f[k - 1]) ELSE f[k - 1]]
             G(f) == [k \in 0..n |-> IF k = 0 THEN first
                  ELSE IF f[k - 1].err = "SUCCESS" THEN Writer1!Write(Writer1!Present(t, tag)[k], v[k], f[k - 1]) ELSE f[k - 1]]
  <2>2. \A f : F(f) = G(f)
    BY ONLY <1>1, <1>2
  <2>3. Level1!WriteMembers(t, tag, v) = (CHOOSE f : f = F(f))[n]
    BY ONLY Zenon DEF Level1!WriteMembers, Level1!InTurn, n, first
  <2>4. Writer1!WriteMembers(t, tag, v) = (CHOOSE f : f = G(f))[n]
    BY ONLY <2>1, Zenon DEF Writer1!WriteMembers, Writer1!InTurn
  <2> HIDE DEF F, G
  <2>5. (CHOOSE f : f = F(f)) = (CHOOSE f : f = G(f))
    BY ONLY <2>2, Zenon
  <2> QED
    BY ONLY <2>3, <2>4, <2>5, Zenon
<1> QED
  BY ONLY <1>2, <1>3, FirstOutAlike, Zenon DEF Level1!Serialized, Writer1!Serialized

(* Numbers of the first level in memory. *)
LEMMA FirstNumbersReadAlike ==
  /\ \A e : Level1!Scalar(e) = Reader1!Scalar(e) /\ Level1!Array(e) = Reader1!Array(e)
  /\ \A bits : Level1!NumberOf(bits) = Reader1!NumberOf(bits)
  /\ \A one, other : Level1!Lesser(one, other) = Reader1!Lesser(one, other)
  /\ \A off : Level1!Align(off) = Reader1!Align(off)
  /\ \A buf, off, w : Level1!Taken(buf, off, w) = Reader1!Taken(buf, off, w)
  /\ \A e, buf, off : Level1!ReadScalar(e, buf, off) = Reader1!ReadScalar(e, buf, off)
  /\ \A e, n, buf, off : Level1!ReadScalars(e, n, buf, off) = Reader1!ReadScalars(e, n, buf, off)
<1>1. /\ \A n : Level1!Zeros(n) = Reader1!Zeros(n)
      /\ \A n, w : Level1!BitsOf(n, w) = Reader1!BitsOf(n, w)
      /\ \A e : Level1!Scalar(e) = Reader1!Scalar(e) /\ Level1!Array(e) = Reader1!Array(e)
      /\ \A one, other : Level1!Lesser(one, other) = Reader1!Lesser(one, other)
      /\ \A off : Level1!Align(off) = Reader1!Align(off)
  BY Zenon
  DEF Level1!Zeros, Reader1!Zeros, Level1!BitsOf, Reader1!BitsOf, Level1!Scalar,
      Reader1!Scalar, Level1!Array, Reader1!Array, Level1!Lesser, Reader1!Lesser,
      Level1!Align, Reader1!Align
<1>2. \A bits : Level1!NumberOf(bits) = Reader1!NumberOf(bits)
  BY Zenon DEF Level1!NumberOf, Reader1!NumberOf
<1>3. \A e : Level1!MemoryWidth(e) = Reader1!MemoryWidth(e)
  BY Zenon DEF Level1!MemoryWidth, Reader1!MemoryWidth
<1>4. \A buf, off, w : Level1!Taken(buf, off, w) = Reader1!Taken(buf, off, w)
  BY ONLY <1>1, Zenon DEF Level1!Taken, Reader1!Taken
<1>5. ASSUME NEW half
      PROVE  Level1!Unpacked(half) = Reader1!Unpacked(half)
  <2> DEFINE Top(m) == CHOOSE k \in 0..10 : 2^k <= m /\ m < 2^(k + 1)
             Magnitude(e, m) ==
               CASE e \in 1..30 -> (e + 112) * 2^23 + m * 2^13
                 [] e = 31      -> 255 * 2^23 + m * 2^13
                 [] OTHER -> IF m = 0 THEN 0 ELSE (103 + Top(m)) * 2^23 + (m - 2^Top(m)) * 2^(23 - Top(m))
             e1 == Level1!NumberOf(SubSeq(half, 11, 15))
             m1 == Level1!NumberOf(SubSeq(half, 1, 10))
             e2 == Reader1!NumberOf(SubSeq(half, 11, 15))
             m2 == Reader1!NumberOf(SubSeq(half, 1, 10))
  <2>1. Level1!Unpacked(half) = Level1!BitsOf(Magnitude(e1, m1), 31) \o <<half[16]>>
    BY ONLY DEF Level1!Unpacked
  <2>2. Reader1!Unpacked(half) = Reader1!BitsOf(Magnitude(e2, m2), 31) \o <<half[16]>>
    BY ONLY DEF Reader1!Unpacked
  <2>3. e1 = e2 /\ m1 = m2
    BY ONLY <1>2
  <2> HIDE DEF Magnitude, e1, m1, e2, m2
  <2> QED
    BY ONLY <1>1, <2>1, <2>2, <2>3, Zenon
<1>6. \A e, bits : Level1!InMemory(e, bits) = Reader1!InMemory(e, bits)
  BY ONLY <1>1, <1>3, <1>5 DEF Level1!InMemory, Reader1!InMemory
<1>7. \A e, buf, off : Level1!ReadScalar(e, buf, off) = Reader1!ReadScalar(e, buf, off)
  BY ONLY <1>4, <1>6, Zenon DEF Level1!ReadScalar, Reader1!ReadScalar
<1>8. \A e, n, buf, off : Level1!ReadScalars(e, n, buf, off) = Reader1!ReadScalars(e, n, buf, off)
  BY ONLY <1>7 DEF Level1!ReadScalars, Reader1!ReadScalars
<1> QED
  BY ONLY <1>1, <1>2, <1>4, <1>7, <1>8

(* The elements of an array, one after the other. *)
LEMMA FirstElementsReadAlike ==
  /\ \A at, w, v : Level1!Got(at, w, v) = Reader1!Got(at, w, v)
  /\ \A at, error : Level1!Bad(at, error) = Reader1!Bad(at, error)
  /\ \A e, buf, at : Level1!ReadNested(e, buf, at) = Reader1!ReadNested(e, buf, at)
  /\ \A e, n, buf, at : Level1!ReadArray(e, n, buf, at) = Reader1!ReadArray(e, n, buf, at)
<1>1. /\ \A at, w, v : Level1!Got(at, w, v) = Reader1!Got(at, w, v)
      /\ \A at, error : Level1!Bad(at, error) = Reader1!Bad(at, error)
      /\ \A size, rest : Level1!Beyond(size, rest) = Reader1!Beyond(size, rest)
  BY Zenon DEF Level1!Got, Reader1!Got, Level1!Bad, Reader1!Bad, Level1!Beyond, Reader1!Beyond
<1>2. \A at, off, size, nested : Level1!GotNested(at, off, size, nested) = Reader1!GotNested(at, off, size, nested)
  BY ONLY <1>1 DEF Level1!GotNested, Reader1!GotNested
<1>3. \A t, buf, off, at : Level1!ReadSealed(t, buf, off, at) = Reader1!ReadSealed(t, buf, off, at)
  BY ONLY <1>2 DEF Level1!ReadSealed, Reader1!ReadSealed
<1>4. \A t, buf, off, size, at : Level1!ReadDelimited(t, buf, off, size, at) = Reader1!ReadDelimited(t, buf, off, size, at)
  BY ONLY <1>1, <1>2, FirstNumbersReadAlike DEF Level1!ReadDelimited, Reader1!ReadDelimited
<1>5. \A buf, off : Level1!SizeInHeader(buf, off) = Reader1!SizeInHeader(buf, off)
  BY ONLY FirstNumbersReadAlike DEF Level1!SizeInHeader, Reader1!SizeInHeader
<1>6. \A e, buf, at : Level1!ReadNested(e, buf, at) = Reader1!ReadNested(e, buf, at)
  BY ONLY <1>3, <1>4, <1>5, FirstNumbersReadAlike DEF Level1!ReadNested, Reader1!ReadNested
<1>7. ASSUME NEW e, NEW n, NEW buf, NEW at
      PROVE  Level1!ReadArray(e, n, buf, at) = Reader1!ReadArray(e, n, buf, at)
  <2> DEFINE F(f) == [k \in 0..n |-> IF k = 0 THEN [at EXCEPT !.obj = <<>>]
                  ELSE IF f[k - 1].err = "SUCCESS" THEN Level1!ReadNested(e, buf, f[k - 1]) ELSE f[k - 1]]
             G(f) == [k \in 0..n |-> IF k = 0 THEN [at EXCEPT !.obj = <<>>]
                  ELSE IF f[k - 1].err = "SUCCESS" THEN Reader1!ReadNested(e, buf, f[k - 1]) ELSE f[k - 1]]
             Whole(left) == [left EXCEPT !.obj = Append(at.obj, @)]
  <2>1. \A f : F(f) = G(f)
    BY ONLY <1>6
  <2>2. Level1!ReadArray(e, n, buf, at) = IF Level1!Scalar(e) THEN Level1!Got(at, n * e.width, Level1!ReadScalars(e, n, buf, at.off))
                                       ELSE Whole((CHOOSE f : f = F(f))[n])
    BY ONLY Zenon DEF Level1!ReadArray, Level1!InTurn
  <2>3. Reader1!ReadArray(e, n, buf, at) = IF Reader1!Scalar(e) THEN Reader1!Got(at, n * e.width, Reader1!ReadScalars(e, n, buf, at.off))
                                       ELSE Whole((CHOOSE f : f = G(f))[n])
    BY ONLY Zenon DEF Reader1!ReadArray, Reader1!InTurn
  <2> HIDE DEF F, G, Whole
  <2>4. (CHOOSE f : f = F(f)) = (CHOOSE f : f = G(f))
    BY ONLY <2>1, Zenon
  <2>5. /\ Level1!Got(at, n * e.width, Level1!ReadScalars(e, n, buf, at.off))
             = Reader1!Got(at, n * e.width, Reader1!ReadScalars(e, n, buf, at.off))
        /\ Level1!Scalar(e) = Reader1!Scalar(e)
    BY ONLY <1>1, FirstNumbersReadAlike
  <2> QED
    BY ONLY <2>2, <2>3, <2>4, <2>5, Zenon
<1> QED
  BY ONLY <1>1, <1>6, <1>7

(* X_deserialize_ of the first level. *)
LEMMA FirstReaderAlike == \A t, buf : Level1!Deserialized(t, buf) = Reader1!Deserialized(t, buf)
<1>1. /\ \A e : Level1!PrefixWidth(e) = Reader1!PrefixWidth(e)
      /\ \A n, capacity : Level1!Overfull(n, capacity) = Reader1!Overfull(n, capacity)
      /\ \A t, tag : Level1!Present(t, tag) = Reader1!Present(t, tag)
      /\ Level1!Start = Reader1!Start
  BY Zenon
  DEF Level1!PrefixWidth, Reader1!PrefixWidth, Level1!LengthWidth,
      Reader1!LengthWidth, Level1!Overfull, Reader1!Overfull, Level1!Present,
      Reader1!Present, Level1!Start, Reader1!Start
<1>2. \A e, n, buf, at : Level1!ReadCounted(e, n, buf, at) = Reader1!ReadCounted(e, n, buf, at)
  BY ONLY <1>1, FirstElementsReadAlike DEF Level1!ReadCounted, Reader1!ReadCounted
<1>3. \A e, buf, off : Level1!CountRead(e, buf, off) = Reader1!CountRead(e, buf, off)
  BY ONLY <1>1, FirstNumbersReadAlike DEF Level1!CountRead, Reader1!CountRead
<1>4. \A e, buf, at : Level1!Read(e, buf, at) = Reader1!Read(e, buf, at)
  BY ONLY <1>2, <1>3, FirstNumbersReadAlike, FirstElementsReadAlike DEF Level1!Read, Reader1!Read
<1>5. ASSUME NEW t, NEW tag, NEW buf
      PROVE  Level1!ReadMembers(t, tag, buf) = Reader1!ReadMembers(t, tag, buf)
  <2> DEFINE n == Len(Level1!Present(t, tag))
             Begin(start) == [start EXCEPT !.off = IF t.kind = "union" THEN 8 ELSE 0]
             F(f) == [k \in 0..n |-> IF k = 0 THEN Begin(Level1!Start)
                  ELSE IF f[k - 1].err = "SUCCESS" THEN Level1!Read(Level1!Present(t, tag)[k], buf, f[k - 1]) ELSE f[k - 1]]
             G(f) == [k \in 0..Len(Reader1!Present(t, tag)) |-> IF k = 0 THEN Begin(Reader1!Start)
                  ELSE IF f[k - 1].err = "SUCCESS" THEN Reader1!Read(Reader1!Present(t, tag)[k], buf, f[k - 1]) ELSE f[k - 1]]
             NoOption == t.kind = "union" /\ tag \notin DOMAIN t.members
  <2>1. Level1!ReadMembers(t, tag, buf) =
          IF NoOption THEN Level1!Bad(Level1!Start, "BAD_UNION_TAG") ELSE (CHOOSE f : f = F(f))[n]
    BY ONLY Zenon DEF Level1!ReadMembers, Level1!InTurn
  <2>2. Reader1!ReadMembers(t, tag, buf) =
          IF NoOption THEN Reader1!Bad(Reader1!Start, "BAD_UNION_TAG") ELSE (CHOOSE f : f = G(f))[Len(Reader1!Present(t, tag))]
    BY ONLY Zenon DEF Reader1!ReadMembers, Reader1!InTurn
  <2>3. n = Len(Reader1!Present(t, tag)) /\ Level1!Bad(Level1!Start, "BAD_UNION_TAG") = Reader1!Bad(Reader1!Start, "BAD_UNION_TAG")
    BY ONLY <1>1, FirstElementsReadAlike
  <2> HIDE DEF n, Begin, NoOption
  <2>4. \A f : F(f) = G(f)
    BY ONLY <1>1, <1>4, <2>3
  <2> HIDE DEF F, G
  <2>5. (CHOOSE f : f = F(f)) = (CHOOSE f : f = G(f))
    BY ONLY <2>4, Zenon
  <2> QED
    BY ONLY <2>1, <2>2, <2>3, <2>5, Zenon
<1>6. \A t, tag, buf, at : Level1!Result(t, tag, buf, at) = Reader1!Result(t, tag, buf, at)
  BY ONLY FirstNumbersReadAlike DEF Level1!Result, Reader1!Result
<1>7. \A buf : Level1!TagRead(buf) = Reader1!TagRead(buf)
  BY ONLY FirstNumbersReadAlike DEF Level1!TagRead, Reader1!TagRead
<1> QED
  BY ONLY <1>5, <1>6, <1>7 DEF Level1!Deserialized, Reader1!Deserialized
-----------------------------------------------------------------------------
(* The types of the second level, *)
Level2 == INSTANCE TypeProofs WITH
  NestedSerialize <- Writer1!Serialized, NestedDeserialize <- Reader1!Deserialized,
  NestedSchema <- Schema1!Schema, NestedLargest <- Schema1!Largest, NestedExact <- Schema1!Exact,
  NestedObject <- Objects1!Object, NestedSurvives <- Objects1!Survives, NestedFilled <- Objects1!Filled

(* of which it holds if it holds of those of the level below. *)
LEMMA SecondLevel ==
  ASSUME Level1!NestedWrites, Level1!NestedReads, Level1!NestedFills, Level1!NestedRounds,
         Level1!NestedAgain, Level1!NestedShort
  PROVE  /\ Level2!NestedWrites /\ Level2!NestedReads /\ Level2!NestedFills /\ Level2!NestedRounds
         /\ Level2!NestedAgain /\ Level2!NestedShort
<1>1. /\ Level2!MaxSize = Level1!MaxSize /\ Level2!Buffers = Level1!Buffers
      /\ Level2!WriteErrors = Level1!WriteErrors /\ Level2!ReadErrors = Level1!ReadErrors
      /\ Level2!Pattern = Level1!Pattern /\ Level2!Fillings = Level1!Fillings
      /\ \A buf : Level2!AllZero(buf) = Level1!AllZero(buf)
      /\ \A buf, long : Level2!Padded(buf, long) = Level1!Padded(buf, long)
      /\ \A one, other, len : Level2!SameRead(one, other, len) = Level1!SameRead(one, other, len)
  BY DEF Level2!MaxSize, Level1!MaxSize, Level2!Buffers, Level1!Buffers,
         Level2!WriteErrors, Level1!WriteErrors, Level2!ReadErrors, Level1!ReadErrors,
         Level2!Pattern, Level1!Pattern, Level2!Fillings, Level1!Fillings,
         Level2!AllZero, Level1!AllZero, Level2!Padded, Level1!Padded,
         Level2!SameRead, Level1!SameRead, Level2!Near, Level1!Near
<1>2. /\ Level1!Writes /\ Level1!Reads /\ Level1!Fills /\ Level1!Rounds /\ Level1!Again /\ Level1!Short
  BY Level1!SerializedWrites, Level1!DeserializedReads, Level1!FilledIsObject, Level1!SerializedIsRead,
     Level1!SurvivorIsWrittenAlike, Level1!ShortIsZeros
<1>3. Level2!NestedWrites
  BY ONLY <1>1, <1>2, FirstSchemasAlike, FirstObjectsAlike, FirstWriterAlike
  DEF Level2!NestedWrites, Level1!Writes
<1>4. Level2!NestedReads
  BY ONLY <1>1, <1>2, FirstSchemasAlike, FirstObjectsAlike, FirstWriterAlike, FirstReaderAlike
  DEF Level2!NestedReads, Level1!Reads
<1>5. Level2!NestedFills
  BY ONLY <1>1, <1>2, FirstSchemasAlike, FirstObjectsAlike
  DEF Level2!NestedFills, Level1!Fills
<1>6. Level2!NestedRounds
  BY ONLY <1>1, <1>2, FirstSchemasAlike, FirstObjectsAlike, FirstSurvivorsAlike, FirstWriterAlike, FirstReaderAlike, ZenonT(60)
  DEF Level2!NestedRounds, Level1!Rounds
<1>7. Level2!NestedAgain
  BY ONLY <1>1, <1>2, FirstSchemasAlike, FirstObjectsAlike, FirstSurvivorsAlike, FirstWriterAlike
  DEF Level2!NestedAgain, Level1!Again
<1>8. Level2!NestedShort
  BY ONLY <1>1, <1>2, FirstSchemasAlike, FirstReaderAlike
  DEF Level2!NestedShort, Level1!Short
<1> QED
  BY ONLY <1>3, <1>4, <1>5, <1>6, <1>7, <1>8

(* What a type of the second level is, and how large its objects are. *)
LEMMA SecondSchemasAlike ==
  /\ \A t : Level2!Schema(t) = Schema2!Schema(t)
  /\ \A t : Level2!Largest(t) = Schema2!Largest(t)
  /\ \A t : Level2!Exact(t) = Schema2!Exact(t)
<1>1. \A t : Level2!Schema(t) = Schema2!Schema(t)
  BY SMTT(60)
  DEF Level2!Schema, Schema2!Schema, Level2!Member, Schema2!Member,
         Level2!Element, Schema2!Element, Level2!Halves, Schema2!Halves,
         Level2!Float, Schema2!Float, Level2!Numbers, Schema2!Numbers,
         Level2!Composite, Schema2!Composite, Level2!Array, Schema2!Array,
         Level2!MaxSize, Schema2!MaxSize
<1>2. \A t : Level2!Largest(t) = Schema2!Largest(t)
  BY Zenon
  DEF Level2!Largest, Schema2!Largest, Level2!Align, Schema2!Align,
         Level2!MemberEnd, Schema2!MemberEnd, Level2!PrefixWidth, Schema2!PrefixWidth,
         Level2!LengthWidth, Schema2!LengthWidth, Level2!Array, Schema2!Array,
         Level2!ElementBegin, Schema2!ElementBegin, Level2!Scalar, Schema2!Scalar,
         Level2!ElementLargest, Schema2!ElementLargest
<1>3. \A t : Level2!Exact(t) = Schema2!Exact(t)
  BY Zenon
  DEF Level2!Exact, Schema2!Exact, Level2!ExactMember, Schema2!ExactMember,
         Level2!Array, Schema2!Array, Level2!ExactElement, Schema2!ExactElement,
         Level2!Numbers, Schema2!Numbers, Level2!Scalar, Schema2!Scalar,
         Level2!Composite, Schema2!Composite
<1> QED
  BY ONLY <1>1, <1>2, <1>3

(* What its objects are. *)
LEMMA SecondObjectsAlike ==
  /\ \A t, v : Level2!Object(t, v) = Objects2!Object(t, v)
  /\ \A t, p, filling, o : Level2!Filled(t, p, filling, o) = Objects2!Filled(t, p, filling, o)
<1>1. /\ \A e : Level2!Scalar(e) = Objects2!Scalar(e) /\ Level2!Array(e) = Objects2!Array(e)
      /\ \A e : Level2!Composite(e) = Objects2!Composite(e)
      /\ \A s : Level2!Sequence(s) = Objects2!Sequence(s)
      /\ \A t, tag : Level2!Present(t, tag) = Objects2!Present(t, tag)
      /\ \A t, v : Level2!Values(t, v) = Objects2!Values(t, v)
  BY Zenon
  DEF Level2!Scalar, Objects2!Scalar, Level2!Array, Objects2!Array,
         Level2!Composite, Objects2!Composite, Level2!Sequence, Objects2!Sequence,
         Level2!Present, Objects2!Present, Level2!Values, Objects2!Values
<1>2. \A e : Level2!MemoryWidth(e) = Objects2!MemoryWidth(e)
  BY Zenon
  DEF Level2!MemoryWidth, Objects2!MemoryWidth
<1>3. \A e : Level2!InC(e) = Objects2!InC(e)
  BY ONLY <1>2, Zenon
  DEF Level2!InC, Objects2!InC
<1>4. \A e, v : Level2!ElementObject(e, v) = Objects2!ElementObject(e, v)
  BY ONLY <1>1, <1>3
  DEF Level2!ElementObject, Objects2!ElementObject
<1>5. \A e, v : Level2!MemberObject(e, v) = Objects2!MemberObject(e, v)
  BY ONLY <1>1, <1>4
  DEF Level2!MemberObject, Objects2!MemberObject
<1>6. \A t, v : Level2!Object(t, v) = Objects2!Object(t, v)
  BY ONLY <1>1, <1>5
  DEF Level2!Object, Objects2!Object
<1>7. /\ \A p, k : Level2!Turned(p, k) = Objects2!Turned(p, k)
      /\ \A p, w : Level2!Bits(p, w) = Objects2!Bits(p, w)
      /\ \A filling, capacity : Level2!Count(filling, capacity) = Objects2!Count(filling, capacity)
  BY Zenon
  DEF Level2!Turned, Objects2!Turned, Level2!Bits, Objects2!Bits,
         Level2!Count, Objects2!Count
<1>8. \A e, p, filling, o : Level2!ElementFilled(e, p, filling, o) = Objects2!ElementFilled(e, p, filling, o)
  BY ONLY <1>1, <1>2, <1>7
  DEF Level2!ElementFilled, Objects2!ElementFilled
<1>9. ASSUME NEW e, NEW p, NEW filling, NEW o
      PROVE  Level2!MemberFilled(e, p, filling, o) = Objects2!MemberFilled(e, p, filling, o)
  <2> DEFINE n == IF e.kind = "fixed" THEN e.capacity ELSE Level2!Count(filling, e.capacity)
             elements == [k \in 1..n |-> Level2!ElementFilled(e.of, Level2!Turned(p, k - 1), filling, o)]
  <2>1. n = IF e.kind = "fixed" THEN e.capacity ELSE Objects2!Count(filling, e.capacity)
    BY ONLY <1>7
  <2> HIDE DEF n
  <2>2. elements = [k \in 1..n |-> Objects2!ElementFilled(e.of, Objects2!Turned(p, k - 1), filling, o)]
    BY ONLY <1>7, <1>8
  <2>3. Level2!MemberFilled(e, p, filling, o) =
          CASE e.kind = "void" -> <<>> [] Level2!Array(e) -> elements
            [] OTHER -> Level2!ElementFilled(e, p, filling, o)
    BY ONLY Zenon DEF Level2!MemberFilled, n
  <2>4. Objects2!MemberFilled(e, p, filling, o) =
          CASE e.kind = "void" -> <<>> [] Objects2!Array(e) -> elements
            [] OTHER -> Objects2!ElementFilled(e, p, filling, o)
    BY ONLY <2>1, <2>2, Zenon DEF Objects2!MemberFilled
  <2> HIDE DEF elements
  <2> QED
    BY ONLY <1>1, <1>8, <2>3, <2>4
<1>10. \A t, p, filling, o : Level2!Filled(t, p, filling, o) = Objects2!Filled(t, p, filling, o)
  BY ONLY <1>7, <1>9
  DEF Level2!Filled, Objects2!Filled
<1> QED
  BY ONLY <1>6, <1>10

(* When one of them is what another was. *)
LEMMA SecondSurvivorsAlike ==
  \A t, v, w : Level2!Survives(t, v, w) = Objects2!Survives(t, v, w)
<1>1. /\ \A e : Level2!Scalar(e) = Objects2!Scalar(e) /\ Level2!Array(e) = Objects2!Array(e)
      /\ \A e : Level2!Composite(e) = Objects2!Composite(e)
      /\ \A t, tag : Level2!Present(t, tag) = Objects2!Present(t, tag)
      /\ \A t, v : Level2!Values(t, v) = Objects2!Values(t, v)
      /\ \A n, w : Level2!BitsOf(n, w) = Objects2!BitsOf(n, w)
  BY Zenon
  DEF Level2!Scalar, Objects2!Scalar, Level2!Array, Objects2!Array,
         Level2!Composite, Objects2!Composite, Level2!Present, Objects2!Present,
         Level2!Values, Objects2!Values, Level2!BitsOf, Objects2!BitsOf
<1>2. \A bits : Level2!NumberOf(bits) = Objects2!NumberOf(bits)
  BY Zenon
  DEF Level2!NumberOf, Objects2!NumberOf
<1>3. ASSUME NEW half
      PROVE  Level2!Unpacked(half) = Objects2!Unpacked(half)
  <2> DEFINE Top(m) == CHOOSE k \in 0..10 : 2^k <= m /\ m < 2^(k + 1)
             Magnitude(e, m) ==
               CASE e \in 1..30 -> (e + 112) * 2^23 + m * 2^13
                 [] e = 31      -> 255 * 2^23 + m * 2^13
                 [] OTHER -> IF m = 0 THEN 0 ELSE (103 + Top(m)) * 2^23 + (m - 2^Top(m)) * 2^(23 - Top(m))
             e1 == Level2!NumberOf(SubSeq(half, 11, 15))
             m1 == Level2!NumberOf(SubSeq(half, 1, 10))
             e2 == Objects2!NumberOf(SubSeq(half, 11, 15))
             m2 == Objects2!NumberOf(SubSeq(half, 1, 10))
  <2>1. Level2!Unpacked(half) = Level2!BitsOf(Magnitude(e1, m1), 31) \o <<half[16]>>
    BY ONLY DEF Level2!Unpacked
  <2>2. Objects2!Unpacked(half) = Objects2!BitsOf(Magnitude(e2, m2), 31) \o <<half[16]>>
    BY ONLY DEF Objects2!Unpacked
  <2>3. e1 = e2 /\ m1 = m2
    BY ONLY <1>2
  <2> HIDE DEF Magnitude, e1, m1, e2, m2
  <2> QED
    BY ONLY <1>1, <2>1, <2>2, <2>3, Zenon
<1>4. ASSUME NEW float, NEW half
      PROVE  Level2!NearestHalf(float, half) = Objects2!NearestHalf(float, half)
  <2> DEFINE Whole(n) == [half EXCEPT ![32] = n]
             One(n) == Level2!Unpacked(Level2!BitsOf(n, 16))
             Other(n) == Objects2!Unpacked(Objects2!BitsOf(n, 16))
             Multiple == CHOOSE n \in 0..1024 : One(n) = Whole(0)
             MultipleToo == CHOOSE n \in 0..1024 : Other(n) = Whole(0)
             Largest1 == 142 * 2^23 + 1023 * 2^13
             Apart(f, m) == 2 * m * 2^(126 - (f \div 2^23)) - 2 * ((f % 2^23) + 2^23)
             Near1(f, h, m) ==
               /\ half[32] = float[32]
               /\ CASE f > 255 * 2^23 -> h > 255 * 2^23
                    [] f \div 2^23 = 255 /\ ~(f > 255 * 2^23) -> h = 255 * 2^23
                    [] f \div 2^23 < 255 /\ f >= Largest1 -> h = Largest1
                    [] f \div 2^23 \in 113..142 /\ f < Largest1 -> h - f \in -4096..4096
                    [] f \div 2^23 \in 102..112 -> Apart(f, m) \in (-(2^(126 - (f \div 2^23))))..2^(126 - (f \div 2^23))
                    [] f \div 2^23 < 102 -> h = 0
             f1 == Level2!NumberOf(SubSeq(float, 1, 31))
             h1 == Level2!NumberOf(SubSeq(half, 1, 31))
             f2 == Objects2!NumberOf(SubSeq(float, 1, 31))
             h2 == Objects2!NumberOf(SubSeq(half, 1, 31))
  <2>1. Level2!NearestHalf(float, half) = Near1(f1, h1, Multiple)
    BY ONLY Zenon DEF Level2!NearestHalf
  <2>2. Objects2!NearestHalf(float, half) = Near1(f2, h2, MultipleToo)
    BY ONLY Zenon DEF Objects2!NearestHalf
  <2>3. f1 = f2 /\ h1 = h2
    BY ONLY <1>2
  <2>4. \A n : One(n) = Other(n)
    BY ONLY <1>1, <1>3, Zenon
  <2> HIDE DEF Near1, f1, f2, h1, h2, One, Other, Whole
  <2>5. Multiple = MultipleToo
    BY ONLY <2>4, Zenon
  <2> HIDE DEF Multiple, MultipleToo
  <2> QED
    BY ONLY <2>1, <2>2, <2>3, <2>5, Zenon
<1>5. \A e, v, w : Level2!SurvivesScalar(e, v, w) = Objects2!SurvivesScalar(e, v, w)
  BY ONLY <1>4, Zenon
  DEF Level2!SurvivesScalar, Objects2!SurvivesScalar
<1>6. \A e, v, w : Level2!ElementSurvives(e, v, w) = Objects2!ElementSurvives(e, v, w)
  BY ONLY <1>1, <1>5
  DEF Level2!ElementSurvives, Objects2!ElementSurvives
<1>7. \A e, v, w : Level2!MemberSurvives(e, v, w) = Objects2!MemberSurvives(e, v, w)
  BY ONLY <1>1, <1>6
  DEF Level2!MemberSurvives, Objects2!MemberSurvives
<1> QED
  BY ONLY <1>1, <1>7
  DEF Level2!Survives, Objects2!Survives

(* Numbers of the second level on the wire. *)
LEMMA SecondBitsAlike ==
  /\ \A n : Level2!Zeros(n) = Writer2!Zeros(n)
  /\ \A n, w : Level2!BitsOf(n, w) = Writer2!BitsOf(n, w)
  /\ \A e : Level2!Scalar(e) = Writer2!Scalar(e)
  /\ \A e, v : Level2!OnWire(e, v) = Writer2!OnWire(e, v)
  /\ \A e, v : Level2!ArrayOnWire(e, v) = Writer2!ArrayOnWire(e, v)
<1>1. /\ \A n : Level2!Zeros(n) = Writer2!Zeros(n) /\ Level2!Ones(n) = Writer2!Ones(n)
      /\ \A n, w : Level2!BitsOf(n, w) = Writer2!BitsOf(n, w)
      /\ \A e : Level2!Scalar(e) = Writer2!Scalar(e)
      /\ \A one, other : Level2!Lesser(one, other) = Writer2!Lesser(one, other)
  BY Zenon
  DEF Level2!Zeros, Writer2!Zeros, Level2!Ones, Writer2!Ones, Level2!BitsOf,
      Writer2!BitsOf, Level2!Scalar, Writer2!Scalar, Level2!Lesser, Writer2!Lesser
<1>2. \A bits : Level2!NumberOf(bits) = Writer2!NumberOf(bits)
  BY Zenon DEF Level2!NumberOf, Writer2!NumberOf
<1>3. \A m, n : Level2!Shifted(m, n) = Writer2!Shifted(m, n)
  BY Zenon DEF Level2!Shifted, Writer2!Shifted
<1>4. ASSUME NEW v
      PROVE  Level2!Half(v) = Writer2!Half(v)
  <2> DEFINE Small(m) == 2^23 + (m \div 4096) * 4096
             Down(e) == 113 - e
             Sum(e, m, down) ==
               (IF e > 112 THEN (e - 112) * 2^23 + (m \div 4096) * 4096 ELSE IF e = 0 THEN 0 ELSE down) + 4096
             Most == 31 * 2^23
             Packed(e, m, sum) ==
               IF e < 255 THEN sum \div 2^13 ELSE IF m = 0 THEN 31 * 2^10 ELSE 63 * 2^9
             e1 == Level2!NumberOf(SubSeq(v, 24, 31))
             m1 == Level2!NumberOf(SubSeq(v, 1, 23))
             e2 == Writer2!NumberOf(SubSeq(v, 24, 31))
             m2 == Writer2!NumberOf(SubSeq(v, 1, 23))
  <2>1. Level2!Half(v) = Level2!BitsOf(Packed(e1, m1, Level2!Lesser(Sum(e1, m1, Level2!Shifted(Small(m1), Down(e1))), Most)), 15)
                      \o <<v[32]>>
    BY ONLY DEF Level2!Half
  <2>2. Writer2!Half(v) = Writer2!BitsOf(Packed(e2, m2, Writer2!Lesser(Sum(e2, m2, Writer2!Shifted(Small(m2), Down(e2))), Most)), 15)
                      \o <<v[32]>>
    BY ONLY DEF Writer2!Half
  <2>3. e1 = e2 /\ m1 = m2
    BY ONLY <1>2
  <2> HIDE DEF Small, Down, Sum, Most, Packed, e1, m1, e2, m2
  <2>4. Level2!Lesser(Sum(e1, m1, Level2!Shifted(Small(m1), Down(e1))), Most)
          = Writer2!Lesser(Sum(e2, m2, Writer2!Shifted(Small(m2), Down(e2))), Most)
    BY ONLY <1>1, <1>3, <2>3, Zenon
  <2> QED
    BY ONLY <1>1, <2>1, <2>2, <2>3, <2>4, Zenon
<1>5. \A v : Level2!Saturated(v) = Writer2!Saturated(v)
  BY <1>1, <1>2 DEF Level2!Saturated, Writer2!Saturated
<1>6. \A e, v : Level2!OnWire(e, v) = Writer2!OnWire(e, v)
  BY <1>1, <1>4, <1>5, Zenon DEF Level2!OnWire, Writer2!OnWire
<1>7. \A e, v : Level2!ArrayOnWire(e, v) = Writer2!ArrayOnWire(e, v)
  BY <1>6 DEF Level2!ArrayOnWire, Writer2!ArrayOnWire
<1> QED
  BY ONLY <1>1, <1>6, <1>7

(* What is written into the buffer. *)
LEMMA SecondOutAlike ==
  /\ \A at, bits : Level2!Put(at, bits) = Writer2!Put(at, bits)
  /\ \A at, error : Level2!Fail(at, error) = Writer2!Fail(at, error)
  /\ \A at : Level2!PutAligned(at) = Writer2!PutAligned(at)
  /\ Level2!Blank = Writer2!Blank
<1>1. /\ \A at, bits : Level2!Put(at, bits) = Writer2!Put(at, bits)
      /\ \A at, error : Level2!Fail(at, error) = Writer2!Fail(at, error)
      /\ Level2!Blank = Writer2!Blank
  BY Zenon DEF Level2!Put, Writer2!Put, Level2!Fail, Writer2!Fail, Level2!Blank, Writer2!Blank
<1>2. \A off : Level2!Align(off) = Writer2!Align(off)
  BY Zenon DEF Level2!Align, Writer2!Align
<1>3. \A at : Level2!PutAligned(at) = Writer2!PutAligned(at)
  BY ONLY <1>1, <1>2, SecondBitsAlike, Zenon DEF Level2!PutAligned, Writer2!PutAligned
<1> QED
  BY ONLY <1>1, <1>3

(* The elements of an array, one after the other. *)
LEMMA SecondElementsWrittenAlike ==
  /\ \A e : Level2!Composite(e) = Writer2!Composite(e) /\ Level2!Array(e) = Writer2!Array(e)
  /\ \A e : Level2!PrefixWidth(e) = Writer2!PrefixWidth(e)
  /\ \A m, capacity : Level2!TooMany(m, capacity) = Writer2!TooMany(m, capacity)
  /\ \A e, val, at : Level2!WriteNested(e, val, at) = Writer2!WriteNested(e, val, at)
  /\ \A e, val, at : Level2!WriteArray(e, val, at) = Writer2!WriteArray(e, val, at)
<1>1. /\ \A e : Level2!Composite(e) = Writer2!Composite(e) /\ Level2!Array(e) = Writer2!Array(e)
      /\ \A e : Level2!PrefixWidth(e) = Writer2!PrefixWidth(e)
      /\ \A m, capacity : Level2!TooMany(m, capacity) = Writer2!TooMany(m, capacity)
  BY Zenon
  DEF Level2!Composite, Writer2!Composite, Level2!Array, Writer2!Array,
      Level2!PrefixWidth, Writer2!PrefixWidth, Level2!LengthWidth,
      Writer2!LengthWidth, Level2!TooMany, Writer2!TooMany
<1>2. \A e, val, at : Level2!WriteNested(e, val, at) = Writer2!WriteNested(e, val, at)
  BY ONLY <1>1, SecondBitsAlike, SecondOutAlike DEF Level2!WriteNested, Writer2!WriteNested
<1>3. ASSUME NEW e, NEW val, NEW at
      PROVE  Level2!WriteArray(e, val, at) = Writer2!WriteArray(e, val, at)
  <2> DEFINE F(f) == [k \in 0..Len(val) |-> IF k = 0 THEN at
                  ELSE IF f[k - 1].err = "SUCCESS" THEN Level2!WriteNested(e, val[k], f[k - 1]) ELSE f[k - 1]]
             G(f) == [k \in 0..Len(val) |-> IF k = 0 THEN at
                  ELSE IF f[k - 1].err = "SUCCESS" THEN Writer2!WriteNested(e, val[k], f[k - 1]) ELSE f[k - 1]]
  <2>1. \A f : F(f) = G(f)
    BY ONLY <1>2
  <2>2. Level2!WriteArray(e, val, at) = IF Level2!Scalar(e) THEN Level2!Put(at, Level2!ArrayOnWire(e, val))
                                     ELSE (CHOOSE f : f = F(f))[Len(val)]
    BY ONLY Zenon DEF Level2!WriteArray, Level2!InTurn
  <2>3. Writer2!WriteArray(e, val, at) = IF Writer2!Scalar(e) THEN Writer2!Put(at, Writer2!ArrayOnWire(e, val))
                                     ELSE (CHOOSE f : f = G(f))[Len(val)]
    BY ONLY Zenon DEF Writer2!WriteArray, Writer2!InTurn
  <2> HIDE DEF F, G
  <2>4. (CHOOSE f : f = F(f)) = (CHOOSE f : f = G(f))
    BY ONLY <2>1, Zenon
  <2>5. Level2!Put(at, Level2!ArrayOnWire(e, val)) = Writer2!Put(at, Writer2!ArrayOnWire(e, val))
        /\ Level2!Scalar(e) = Writer2!Scalar(e)
    BY ONLY SecondBitsAlike, SecondOutAlike
  <2> QED
    BY ONLY <2>2, <2>3, <2>4, <2>5, Zenon
<1> QED
  BY ONLY <1>1, <1>2, <1>3

(* X_serialize_ of the second level. *)
LEMMA SecondWriterAlike == \A t, v : Level2!Serialized(t, v) = Writer2!Serialized(t, v)
<1>1. \A e, v, at : Level2!Write(e, v, at) = Writer2!Write(e, v, at)
  BY ONLY SecondBitsAlike, SecondOutAlike, SecondElementsWrittenAlike
  DEF Level2!Write, Writer2!Write
<1>2. /\ \A t, tag : Level2!Present(t, tag) = Writer2!Present(t, tag)
      /\ \A t, v : Level2!Values(t, v) = Writer2!Values(t, v)
  BY Zenon DEF Level2!Present, Writer2!Present, Level2!Values, Writer2!Values
<1>3. ASSUME NEW t, NEW tag, NEW v
      PROVE  Level2!WriteMembers(t, tag, v) = Writer2!WriteMembers(t, tag, v)
  <2> DEFINE n == Len(Level2!Present(t, tag))
             first == IF t.kind = "union" THEN Level2!Put(Level2!Blank, Level2!BitsOf(tag - 1, 8)) ELSE Level2!Blank
  <2>1. /\ n = Len(Writer2!Present(t, tag))
        /\ first = IF t.kind = "union" THEN Writer2!Put(Writer2!Blank, Writer2!BitsOf(tag - 1, 8)) ELSE Writer2!Blank
    BY ONLY <1>2, SecondBitsAlike, SecondOutAlike
  <2> HIDE DEF n, first
  <2> DEFINE F(f) == [k \in 0..n |-> IF k = 0 THEN first
                  ELSE IF f[k - 1].err = "SUCCESS" THEN Level2!Write(Level2!Present(t, tag)[k], v[k], f[k - 1]) ELSE f[k - 1]]
             G(f) == [k \in 0..n |-> IF k = 0 THEN first
                  ELSE IF f[k - 1].err = "SUCCESS" THEN Writer2!Write(Writer2!Present(t, tag)[k], v[k], f[k - 1]) ELSE f[k - 1]]
  <2>2. \A f : F(f) = G(f)
    BY ONLY <1>1, <1>2
  <2>3. Level2!WriteMembers(t, tag, v) = (CHOOSE f : f = F(f))[n]
    BY ONLY Zenon DEF Level2!WriteMembers, Level2!InTurn, n, first
  <2>4. Writer2!WriteMembers(t, tag, v) = (CHOOSE f : f = G(f))[n]
    BY ONLY <2>1, Zenon DEF Writer2!WriteMembers, Writer2!InTurn
  <2> HIDE DEF F, G
  <2>5. (CHOOSE f : f = F(f)) = (CHOOSE f : f = G(f))
    BY ONLY <2>2, Zenon
  <2> QED
    BY ONLY <2>3, <2>4, <2>5, Zenon
<1> QED
  BY ONLY <1>2, <1>3, SecondOutAlike, Zenon DEF Level2!Serialized, Writer2!Serialized

(* Numbers of the second level in memory. *)
LEMMA SecondNumbersReadAlike ==
  /\ \A e : Level2!Scalar(e) = Reader2!Scalar(e) /\ Level2!Array(e) = Reader2!Array(e)
  /\ \A bits : Level2!NumberOf(bits) = Reader2!NumberOf(bits)
  /\ \A one, other : Level2!Lesser(one, other) = Reader2!Lesser(one, other)
  /\ \A off : Level2!Align(off) = Reader2!Align(off)
  /\ \A buf, off, w : Level2!Taken(buf, off, w) = Reader2!Taken(buf, off, w)
  /\ \A e, buf, off : Level2!ReadScalar(e, buf, off) = Reader2!ReadScalar(e, buf, off)
  /\ \A e, n, buf, off : Level2!ReadScalars(e, n, buf, off) = Reader2!ReadScalars(e, n, buf, off)
<1>1. /\ \A n : Level2!Zeros(n) = Reader2!Zeros(n)
      /\ \A n, w : Level2!BitsOf(n, w) = Reader2!BitsOf(n, w)
      /\ \A e : Level2!Scalar(e) = Reader2!Scalar(e) /\ Level2!Array(e) = Reader2!Array(e)
      /\ \A one, other : Level2!Lesser(one, other) = Reader2!Lesser(one, other)
      /\ \A off : Level2!Align(off) = Reader2!Align(off)
  BY Zenon
  DEF Level2!Zeros, Reader2!Zeros, Level2!BitsOf, Reader2!BitsOf, Level2!Scalar,
      Reader2!Scalar, Level2!Array, Reader2!Array, Level2!Lesser, Reader2!Lesser,
      Level2!Align, Reader2!Align
<1>2. \A bits : Level2!NumberOf(bits) = Reader2!NumberOf(bits)
  BY Zenon DEF Level2!NumberOf, Reader2!NumberOf
<1>3. \A e : Level2!MemoryWidth(e) = Reader2!MemoryWidth(e)
  BY Zenon DEF Level2!MemoryWidth, Reader2!MemoryWidth
<1>4. \A buf, off, w : Level2!Taken(buf, off, w) = Reader2!Taken(buf, off, w)
  BY ONLY <1>1, Zenon DEF Level2!Taken, Reader2!Taken
<1>5. ASSUME NEW half
      PROVE  Level2!Unpacked(half) = Reader2!Unpacked(half)
  <2> DEFINE Top(m) == CHOOSE k \in 0..10 : 2^k <= m /\ m < 2^(k + 1)
             Magnitude(e, m) ==
               CASE e \in 1..30 -> (e + 112) * 2^23 + m * 2^13
                 [] e = 31      -> 255 * 2^23 + m * 2^13
                 [] OTHER -> IF m = 0 THEN 0 ELSE (103 + Top(m)) * 2^23 + (m - 2^Top(m)) * 2^(23 - Top(m))
             e1 == Level2!NumberOf(SubSeq(half, 11, 15))
             m1 == Level2!NumberOf(SubSeq(half, 1, 10))
             e2 == Reader2!NumberOf(SubSeq(half, 11, 15))
             m2 == Reader2!NumberOf(SubSeq(half, 1, 10))
  <2>1. Level2!Unpacked(half) = Level2!BitsOf(Magnitude(e1, m1), 31) \o <<half[16]>>
    BY ONLY DEF Level2!Unpacked
  <2>2. Reader2!Unpacked(half) = Reader2!BitsOf(Magnitude(e2, m2), 31) \o <<half[16]>>
    BY ONLY DEF Reader2!Unpacked
  <2>3. e1 = e2 /\ m1 = m2
    BY ONLY <1>2
  <2> HIDE DEF Magnitude, e1, m1, e2, m2
  <2> QED
    BY ONLY <1>1, <2>1, <2>2, <2>3, Zenon
<1>6. \A e, bits : Level2!InMemory(e, bits) = Reader2!InMemory(e, bits)
  BY ONLY <1>1, <1>3, <1>5 DEF Level2!InMemory, Reader2!InMemory
<1>7. \A e, buf, off : Level2!ReadScalar(e, buf, off) = Reader2!ReadScalar(e, buf, off)
  BY ONLY <1>4, <1>6, Zenon DEF Level2!ReadScalar, Reader2!ReadScalar
<1>8. \A e, n, buf, off : Level2!ReadScalars(e, n, buf, off) = Reader2!ReadScalars(e, n, buf, off)
  BY ONLY <1>7 DEF Level2!ReadScalars, Reader2!ReadScalars
<1> QED
  BY ONLY <1>1, <1>2, <1>4, <1>7, <1>8

(* The elements of an array, one after the other. *)
LEMMA SecondElementsReadAlike ==
  /\ \A at, w, v : Level2!Got(at, w, v) = Reader2!Got(at, w, v)
  /\ \A at, error : Level2!Bad(at, error) = Reader2!Bad(at, error)
  /\ \A e, buf, at : Level2!ReadNested(e, buf, at) = Reader2!ReadNested(e, buf, at)
  /\ \A e, n, buf, at : Level2!ReadArray(e, n, buf, at) = Reader2!ReadArray(e, n, buf, at)
<1>1. /\ \A at, w, v : Level2!Got(at, w, v) = Reader2!Got(at, w, v)
      /\ \A at, error : Level2!Bad(at, error) = Reader2!Bad(at, error)
      /\ \A size, rest : Level2!Beyond(size, rest) = Reader2!Beyond(size, rest)
  BY Zenon DEF Level2!Got, Reader2!Got, Level2!Bad, Reader2!Bad, Level2!Beyond, Reader2!Beyond
<1>2. \A at, off, size, nested : Level2!GotNested(at, off, size, nested) = Reader2!GotNested(at, off, size, nested)
  BY ONLY <1>1 DEF Level2!GotNested, Reader2!GotNested
<1>3. \A t, buf, off, at : Level2!ReadSealed(t, buf, off, at) = Reader2!ReadSealed(t, buf, off, at)
  BY ONLY <1>2 DEF Level2!ReadSealed, Reader2!ReadSealed
<1>4. \A t, buf, off, size, at : Level2!ReadDelimited(t, buf, off, size, at) = Reader2!ReadDelimited(t, buf, off, size, at)
  BY ONLY <1>1, <1>2, SecondNumbersReadAlike DEF Level2!ReadDelimited, Reader2!ReadDelimited
<1>5. \A buf, off : Level2!SizeInHeader(buf, off) = Reader2!SizeInHeader(buf, off)
  BY ONLY SecondNumbersReadAlike DEF Level2!SizeInHeader, Reader2!SizeInHeader
<1>6. \A e, buf, at : Level2!ReadNested(e, buf, at) = Reader2!ReadNested(e, buf, at)
  BY ONLY <1>3, <1>4, <1>5, SecondNumbersReadAlike DEF Level2!ReadNested, Reader2!ReadNested
<1>7. ASSUME NEW e, NEW n, NEW buf, NEW at
      PROVE  Level2!ReadArray(e, n, buf, at) = Reader2!ReadArray(e, n, buf, at)
  <2> DEFINE F(f) == [k \in 0..n |-> IF k = 0 THEN [at EXCEPT !.obj = <<>>]
                  ELSE IF f[k - 1].err = "SUCCESS" THEN Level2!ReadNested(e, buf, f[k - 1]) ELSE f[k - 1]]
             G(f) == [k \in 0..n |-> IF k = 0 THEN [at EXCEPT !.obj = <<>>]
                  ELSE IF f[k - 1].err = "SUCCESS" THEN Reader2!ReadNested(e, buf, f[k - 1]) ELSE f[k - 1]]
             Whole(left) == [left EXCEPT !.obj = Append(at.obj, @)]
  <2>1. \A f : F(f) = G(f)
    BY ONLY <1>6
  <2>2. Level2!ReadArray(e, n, buf, at) = IF Level2!Scalar(e) THEN Level2!Got(at, n * e.width, Level2!ReadScalars(e, n, buf, at.off))
                                       ELSE Whole((CHOOSE f : f = F(f))[n])
    BY ONLY Zenon DEF Level2!ReadArray, Level2!InTurn
  <2>3. Reader2!ReadArray(e, n, buf, at) = IF Reader2!Scalar(e) THEN Reader2!Got(at, n * e.width, Reader2!ReadScalars(e, n, buf, at.off))
                                       ELSE Whole((CHOOSE f : f = G(f))[n])
    BY ONLY Zenon DEF Reader2!ReadArray, Reader2!InTurn
  <2> HIDE DEF F, G, Whole
  <2>4. (CHOOSE f : f = F(f)) = (CHOOSE f : f = G(f))
    BY ONLY <2>1, Zenon
  <2>5. /\ Level2!Got(at, n * e.width, Level2!ReadScalars(e, n, buf, at.off))
             = Reader2!Got(at, n * e.width, Reader2!ReadScalars(e, n, buf, at.off))
        /\ Level2!Scalar(e) = Reader2!Scalar(e)
    BY ONLY <1>1, SecondNumbersReadAlike
  <2> QED
    BY ONLY <2>2, <2>3, <2>4, <2>5, Zenon
<1> QED
  BY ONLY <1>1, <1>6, <1>7

(* X_deserialize_ of the second level. *)
LEMMA SecondReaderAlike == \A t, buf : Level2!Deserialized(t, buf) = Reader2!Deserialized(t, buf)
<1>1. /\ \A e : Level2!PrefixWidth(e) = Reader2!PrefixWidth(e)
      /\ \A n, capacity : Level2!Overfull(n, capacity) = Reader2!Overfull(n, capacity)
      /\ \A t, tag : Level2!Present(t, tag) = Reader2!Present(t, tag)
      /\ Level2!Start = Reader2!Start
  BY Zenon
  DEF Level2!PrefixWidth, Reader2!PrefixWidth, Level2!LengthWidth,
      Reader2!LengthWidth, Level2!Overfull, Reader2!Overfull, Level2!Present,
      Reader2!Present, Level2!Start, Reader2!Start
<1>2. \A e, n, buf, at : Level2!ReadCounted(e, n, buf, at) = Reader2!ReadCounted(e, n, buf, at)
  BY ONLY <1>1, SecondElementsReadAlike DEF Level2!ReadCounted, Reader2!ReadCounted
<1>3. \A e, buf, off : Level2!CountRead(e, buf, off) = Reader2!CountRead(e, buf, off)
  BY ONLY <1>1, SecondNumbersReadAlike DEF Level2!CountRead, Reader2!CountRead
<1>4. \A e, buf, at : Level2!Read(e, buf, at) = Reader2!Read(e, buf, at)
  BY ONLY <1>2, <1>3, SecondNumbersReadAlike, SecondElementsReadAlike DEF Level2!Read, Reader2!Read
<1>5. ASSUME NEW t, NEW tag, NEW buf
      PROVE  Level2!ReadMembers(t, tag, buf) = Reader2!ReadMembers(t, tag, buf)
  <2> DEFINE n == Len(Level2!Present(t, tag))
             Begin(start) == [start EXCEPT !.off = IF t.kind = "union" THEN 8 ELSE 0]
             F(f) == [k \in 0..n |-> IF k = 0 THEN Begin(Level2!Start)
                  ELSE IF f[k - 1].err = "SUCCESS" THEN Level2!Read(Level2!Present(t, tag)[k], buf, f[k - 1]) ELSE f[k - 1]]
             G(f) == [k \in 0..Len(Reader2!Present(t, tag)) |-> IF k = 0 THEN Begin(Reader2!Start)
                  ELSE IF f[k - 1].err = "SUCCESS" THEN Reader2!Read(Reader2!Present(t, tag)[k], buf, f[k - 1]) ELSE f[k - 1]]
             NoOption == t.kind = "union" /\ tag \notin DOMAIN t.members
  <2>1. Level2!ReadMembers(t, tag, buf) =
          IF NoOption THEN Level2!Bad(Level2!Start, "BAD_UNION_TAG") ELSE (CHOOSE f : f = F(f))[n]
    BY ONLY Zenon DEF Level2!ReadMembers, Level2!InTurn
  <2>2. Reader2!ReadMembers(t, tag, buf) =
          IF NoOption THEN Reader2!Bad(Reader2!Start, "BAD_UNION_TAG") ELSE (CHOOSE f : f = G(f))[Len(Reader2!Present(t, tag))]
    BY ONLY Zenon DEF Reader2!ReadMembers, Reader2!InTurn
  <2>3. n = Len(Reader2!Present(t, tag)) /\ Level2!Bad(Level2!Start, "BAD_UNION_TAG") = Reader2!Bad(Reader2!Start, "BAD_UNION_TAG")
    BY ONLY <1>1, SecondElementsReadAlike
  <2> HIDE DEF n, Begin, NoOption
  <2>4. \A f : F(f) = G(f)
    BY ONLY <1>1, <1>4, <2>3
  <2> HIDE DEF F, G
  <2>5. (CHOOSE f : f = F(f)) = (CHOOSE f : f = G(f))
    BY ONLY <2>4, Zenon
  <2> QED
    BY ONLY <2>1, <2>2, <2>3, <2>5, Zenon
<1>6. \A t, tag, buf, at : Level2!Result(t, tag, buf, at) = Reader2!Result(t, tag, buf, at)
  BY ONLY SecondNumbersReadAlike DEF Level2!Result, Reader2!Result
<1>7. \A buf : Level2!TagRead(buf) = Reader2!TagRead(buf)
  BY ONLY SecondNumbersReadAlike DEF Level2!TagRead, Reader2!TagRead
<1> QED
  BY ONLY <1>5, <1>6, <1>7 DEF Level2!Deserialized, Reader2!Deserialized
-----------------------------------------------------------------------------
(* The types of the third level, *)
Level3 == INSTANCE TypeProofs WITH
  NestedSerialize <- Writer2!Serialized, NestedDeserialize <- Reader2!Deserialized,
  NestedSchema <- Schema2!Schema, NestedLargest <- Schema2!Largest, NestedExact <- Schema2!Exact,
  NestedObject <- Objects2!Object, NestedSurvives <- Objects2!Survives, NestedFilled <- Objects2!Filled

(* of which it holds if it holds of those of the level below. *)
LEMMA ThirdLevel ==
  ASSUME Level2!NestedWrites, Level2!NestedReads, Level2!NestedFills, Level2!NestedRounds,
         Level2!NestedAgain, Level2!NestedShort
  PROVE  /\ Level3!NestedWrites /\ Level3!NestedReads /\ Level3!NestedFills /\ Level3!NestedRounds
         /\ Level3!NestedAgain /\ Level3!NestedShort
<1>1. /\ Level3!MaxSize = Level2!MaxSize /\ Level3!Buffers = Level2!Buffers
      /\ Level3!WriteErrors = Level2!WriteErrors /\ Level3!ReadErrors = Level2!ReadErrors
      /\ Level3!Pattern = Level2!Pattern /\ Level3!Fillings = Level2!Fillings
      /\ \A buf : Level3!AllZero(buf) = Level2!AllZero(buf)
      /\ \A buf, long : Level3!Padded(buf, long) = Level2!Padded(buf, long)
      /\ \A one, other, len : Level3!SameRead(one, other, len) = Level2!SameRead(one, other, len)
  BY DEF Level3!MaxSize, Level2!MaxSize, Level3!Buffers, Level2!Buffers,
         Level3!WriteErrors, Level2!WriteErrors, Level3!ReadErrors, Level2!ReadErrors,
         Level3!Pattern, Level2!Pattern, Level3!Fillings, Level2!Fillings,
         Level3!AllZero, Level2!AllZero, Level3!Padded, Level2!Padded,
         Level3!SameRead, Level2!SameRead, Level3!Near, Level2!Near
<1>2. /\ Level2!Writes /\ Level2!Reads /\ Level2!Fills /\ Level2!Rounds /\ Level2!Again /\ Level2!Short
  BY Level2!SerializedWrites, Level2!DeserializedReads, Level2!FilledIsObject, Level2!SerializedIsRead,
     Level2!SurvivorIsWrittenAlike, Level2!ShortIsZeros
<1>3. Level3!NestedWrites
  BY ONLY <1>1, <1>2, SecondSchemasAlike, SecondObjectsAlike, SecondWriterAlike
  DEF Level3!NestedWrites, Level2!Writes
<1>4. Level3!NestedReads
  BY ONLY <1>1, <1>2, SecondSchemasAlike, SecondObjectsAlike, SecondWriterAlike, SecondReaderAlike
  DEF Level3!NestedReads, Level2!Reads
<1>5. Level3!NestedFills
  BY ONLY <1>1, <1>2, SecondSchemasAlike, SecondObjectsAlike
  DEF Level3!NestedFills, Level2!Fills
<1>6. Level3!NestedRounds
  BY ONLY <1>1, <1>2, SecondSchemasAlike, SecondObjectsAlike, SecondSurvivorsAlike, SecondWriterAlike, SecondReaderAlike
  DEF Level3!NestedRounds, Level2!Rounds
<1>7. Level3!NestedAgain
  BY ONLY <1>1, <1>2, SecondSchemasAlike, SecondObjectsAlike, SecondSurvivorsAlike, SecondWriterAlike
  DEF Level3!NestedAgain, Level2!Again
<1>8. Level3!NestedShort
  BY ONLY <1>1, <1>2, SecondSchemasAlike, SecondReaderAlike
  DEF Level3!NestedShort, Level2!Short
<1> QED
  BY ONLY <1>3, <1>4, <1>5, <1>6, <1>7, <1>8

(* What a type of the third level is, and how large its objects are. *)
LEMMA ThirdSchemasAlike ==
  /\ \A t : Level3!Schema(t) = Schema3!Schema(t)
  /\ \A t : Level3!Largest(t) = Schema3!Largest(t)
  /\ \A t : Level3!Exact(t) = Schema3!Exact(t)
<1>1. \A t : Level3!Schema(t) = Schema3!Schema(t)
  BY SMTT(60)
  DEF Level3!Schema, Schema3!Schema, Level3!Member, Schema3!Member,
         Level3!Element, Schema3!Element, Level3!Halves, Schema3!Halves,
         Level3!Float, Schema3!Float, Level3!Numbers, Schema3!Numbers,
         Level3!Composite, Schema3!Composite, Level3!Array, Schema3!Array,
         Level3!MaxSize, Schema3!MaxSize
<1>2. \A t : Level3!Largest(t) = Schema3!Largest(t)
  BY Zenon
  DEF Level3!Largest, Schema3!Largest, Level3!Align, Schema3!Align,
         Level3!MemberEnd, Schema3!MemberEnd, Level3!PrefixWidth, Schema3!PrefixWidth,
         Level3!LengthWidth, Schema3!LengthWidth, Level3!Array, Schema3!Array,
         Level3!ElementBegin, Schema3!ElementBegin, Level3!Scalar, Schema3!Scalar,
         Level3!ElementLargest, Schema3!ElementLargest
<1>3. \A t : Level3!Exact(t) = Schema3!Exact(t)
  BY Zenon
  DEF Level3!Exact, Schema3!Exact, Level3!ExactMember, Schema3!ExactMember,
         Level3!Array, Schema3!Array, Level3!ExactElement, Schema3!ExactElement,
         Level3!Numbers, Schema3!Numbers, Level3!Scalar, Schema3!Scalar,
         Level3!Composite, Schema3!Composite
<1> QED
  BY ONLY <1>1, <1>2, <1>3

(* What its objects are. *)
LEMMA ThirdObjectsAlike ==
  /\ \A t, v : Level3!Object(t, v) = Objects3!Object(t, v)
  /\ \A t, p, filling, o : Level3!Filled(t, p, filling, o) = Objects3!Filled(t, p, filling, o)
<1>1. /\ \A e : Level3!Scalar(e) = Objects3!Scalar(e) /\ Level3!Array(e) = Objects3!Array(e)
      /\ \A e : Level3!Composite(e) = Objects3!Composite(e)
      /\ \A s : Level3!Sequence(s) = Objects3!Sequence(s)
      /\ \A t, tag : Level3!Present(t, tag) = Objects3!Present(t, tag)
      /\ \A t, v : Level3!Values(t, v) = Objects3!Values(t, v)
  BY Zenon
  DEF Level3!Scalar, Objects3!Scalar, Level3!Array, Objects3!Array,
         Level3!Composite, Objects3!Composite, Level3!Sequence, Objects3!Sequence,
         Level3!Present, Objects3!Present, Level3!Values, Objects3!Values
<1>2. \A e : Level3!MemoryWidth(e) = Objects3!MemoryWidth(e)
  BY Zenon
  DEF Level3!MemoryWidth, Objects3!MemoryWidth
<1>3. \A e : Level3!InC(e) = Objects3!InC(e)
  BY ONLY <1>2, Zenon
  DEF Level3!InC, Objects3!InC
<1>4. \A e, v : Level3!ElementObject(e, v) = Objects3!ElementObject(e, v)
  BY ONLY <1>1, <1>3
  DEF Level3!ElementObject, Objects3!ElementObject
<1>5. \A e, v : Level3!MemberObject(e, v) = Objects3!MemberObject(e, v)
  BY ONLY <1>1, <1>4
  DEF Level3!MemberObject, Objects3!MemberObject
<1>6. \A t, v : Level3!Object(t, v) = Objects3!Object(t, v)
  BY ONLY <1>1, <1>5
  DEF Level3!Object, Objects3!Object
<1>7. /\ \A p, k : Level3!Turned(p, k) = Objects3!Turned(p, k)
      /\ \A p, w : Level3!Bits(p, w) = Objects3!Bits(p, w)
      /\ \A filling, capacity : Level3!Count(filling, capacity) = Objects3!Count(filling, capacity)
  BY Zenon
  DEF Level3!Turned, Objects3!Turned, Level3!Bits, Objects3!Bits,
         Level3!Count, Objects3!Count
<1>8. \A e, p, filling, o : Level3!ElementFilled(e, p, filling, o) = Objects3!ElementFilled(e, p, filling, o)
  BY ONLY <1>1, <1>2, <1>7
  DEF Level3!ElementFilled, Objects3!ElementFilled
<1>9. ASSUME NEW e, NEW p, NEW filling, NEW o
      PROVE  Level3!MemberFilled(e, p, filling, o) = Objects3!MemberFilled(e, p, filling, o)
  <2> DEFINE n == IF e.kind = "fixed" THEN e.capacity ELSE Level3!Count(filling, e.capacity)
             elements == [k \in 1..n |-> Level3!ElementFilled(e.of, Level3!Turned(p, k - 1), filling, o)]
  <2>1. n = IF e.kind = "fixed" THEN e.capacity ELSE Objects3!Count(filling, e.capacity)
    BY ONLY <1>7
  <2> HIDE DEF n
  <2>2. elements = [k \in 1..n |-> Objects3!ElementFilled(e.of, Objects3!Turned(p, k - 1), filling, o)]
    BY ONLY <1>7, <1>8
  <2>3. Level3!MemberFilled(e, p, filling, o) =
          CASE e.kind = "void" -> <<>> [] Level3!Array(e) -> elements
            [] OTHER -> Level3!ElementFilled(e, p, filling, o)
    BY ONLY Zenon DEF Level3!MemberFilled, n
  <2>4. Objects3!MemberFilled(e, p, filling, o) =
          CASE e.kind = "void" -> <<>> [] Objects3!Array(e) -> elements
            [] OTHER -> Objects3!ElementFilled(e, p, filling, o)
    BY ONLY <2>1, <2>2, Zenon DEF Objects3!MemberFilled
  <2> HIDE DEF elements
  <2> QED
    BY ONLY <1>1, <1>8, <2>3, <2>4
<1>10. \A t, p, filling, o : Level3!Filled(t, p, filling, o) = Objects3!Filled(t, p, filling, o)
  BY ONLY <1>7, <1>9
  DEF Level3!Filled, Objects3!Filled
<1> QED
  BY ONLY <1>6, <1>10

(* When one of them is what another was. *)
LEMMA ThirdSurvivorsAlike ==
  \A t, v, w : Level3!Survives(t, v, w) = Objects3!Survives(t, v, w)
<1>1. /\ \A e : Level3!Scalar(e) = Objects3!Scalar(e) /\ Level3!Array(e) = Objects3!Array(e)
      /\ \A e : Level3!Composite(e) = Objects3!Composite(e)
      /\ \A t, tag : Level3!Present(t, tag) = Objects3!Present(t, tag)
      /\ \A t, v : Level3!Values(t, v) = Objects3!Values(t, v)
      /\ \A n, w : Level3!BitsOf(n, w) = Objects3!BitsOf(n, w)
  BY Zenon
  DEF Level3!Scalar, Objects3!Scalar, Level3!Array, Objects3!Array,
         Level3!Composite, Objects3!Composite, Level3!Present, Objects3!Present,
         Level3!Values, Objects3!Values, Level3!BitsOf, Objects3!BitsOf
<1>2. \A bits : Level3!NumberOf(bits) = Objects3!NumberOf(bits)
  BY Zenon
  DEF Level3!NumberOf, Objects3!NumberOf
<1>3. ASSUME NEW half
      PROVE  Level3!Unpacked(half) = Objects3!Unpacked(half)
  <2> DEFINE Top(m) == CHOOSE k \in 0..10 : 2^k <= m /\ m < 2^(k + 1)
             Magnitude(e, m) ==
               CASE e \in 1..30 -> (e + 112) * 2^23 + m * 2^13
                 [] e = 31      -> 255 * 2^23 + m * 2^13
                 [] OTHER -> IF m = 0 THEN 0 ELSE (103 + Top(m)) * 2^23 + (m - 2^Top(m)) * 2^(23 - Top(m))
             e1 == Level3!NumberOf(SubSeq(half, 11, 15))
             m1 == Level3!NumberOf(SubSeq(half, 1, 10))
             e2 == Objects3!NumberOf(SubSeq(half, 11, 15))
             m2 == Objects3!NumberOf(SubSeq(half, 1, 10))
  <2>1. Level3!Unpacked(half) = Level3!BitsOf(Magnitude(e1, m1), 31) \o <<half[16]>>
    BY ONLY DEF Level3!Unpacked
  <2>2. Objects3!Unpacked(half) = Objects3!BitsOf(Magnitude(e2, m2), 31) \o <<half[16]>>
    BY ONLY DEF Objects3!Unpacked
  <2>3. e1 = e2 /\ m1 = m2
    BY ONLY <1>2
  <2> HIDE DEF Magnitude, e1, m1, e2, m2
  <2> QED
    BY ONLY <1>1, <2>1, <2>2, <2>3, Zenon
<1>4. ASSUME NEW float, NEW half
      PROVE  Level3!NearestHalf(float, half) = Objects3!NearestHalf(float, half)
  <2> DEFINE Whole(n) == [half EXCEPT ![32] = n]
             One(n) == Level3!Unpacked(Level3!BitsOf(n, 16))
             Other(n) == Objects3!Unpacked(Objects3!BitsOf(n, 16))
             Multiple == CHOOSE n \in 0..1024 : One(n) = Whole(0)
             MultipleToo == CHOOSE n \in 0..1024 : Other(n) = Whole(0)
             Largest1 == 142 * 2^23 + 1023 * 2^13
             Apart(f, m) == 2 * m * 2^(126 - (f \div 2^23)) - 2 * ((f % 2^23) + 2^23)
             Near1(f, h, m) ==
               /\ half[32] = float[32]
               /\ CASE f > 255 * 2^23 -> h > 255 * 2^23
                    [] f \div 2^23 = 255 /\ ~(f > 255 * 2^23) -> h = 255 * 2^23
                    [] f \div 2^23 < 255 /\ f >= Largest1 -> h = Largest1
                    [] f \div 2^23 \in 113..142 /\ f < Largest1 -> h - f \in -4096..4096
                    [] f \div 2^23 \in 102..112 -> Apart(f, m) \in (-(2^(126 - (f \div 2^23))))..2^(126 - (f \div 2^23))
                    [] f \div 2^23 < 102 -> h = 0
             f1 == Level3!NumberOf(SubSeq(float, 1, 31))
             h1 == Level3!NumberOf(SubSeq(half, 1, 31))
             f2 == Objects3!NumberOf(SubSeq(float, 1, 31))
             h2 == Objects3!NumberOf(SubSeq(half, 1, 31))
  <2>1. Level3!NearestHalf(float, half) = Near1(f1, h1, Multiple)
    BY ONLY Zenon DEF Level3!NearestHalf
  <2>2. Objects3!NearestHalf(float, half) = Near1(f2, h2, MultipleToo)
    BY ONLY Zenon DEF Objects3!NearestHalf
  <2>3. f1 = f2 /\ h1 = h2
    BY ONLY <1>2
  <2>4. \A n : One(n) = Other(n)
    BY ONLY <1>1, <1>3, Zenon
  <2> HIDE DEF Near1, f1, f2, h1, h2, One, Other, Whole
  <2>5. Multiple = MultipleToo
    BY ONLY <2>4, Zenon
  <2> HIDE DEF Multiple, MultipleToo
  <2> QED
    BY ONLY <2>1, <2>2, <2>3, <2>5, Zenon
<1>5. \A e, v, w : Level3!SurvivesScalar(e, v, w) = Objects3!SurvivesScalar(e, v, w)
  BY ONLY <1>4, Zenon
  DEF Level3!SurvivesScalar, Objects3!SurvivesScalar
<1>6. \A e, v, w : Level3!ElementSurvives(e, v, w) = Objects3!ElementSurvives(e, v, w)
  BY ONLY <1>1, <1>5
  DEF Level3!ElementSurvives, Objects3!ElementSurvives
<1>7. \A e, v, w : Level3!MemberSurvives(e, v, w) = Objects3!MemberSurvives(e, v, w)
  BY ONLY <1>1, <1>6
  DEF Level3!MemberSurvives, Objects3!MemberSurvives
<1> QED
  BY ONLY <1>1, <1>7
  DEF Level3!Survives, Objects3!Survives

(* Numbers of the third level on the wire. *)
LEMMA ThirdBitsAlike ==
  /\ \A n : Level3!Zeros(n) = Writer3!Zeros(n)
  /\ \A n, w : Level3!BitsOf(n, w) = Writer3!BitsOf(n, w)
  /\ \A e : Level3!Scalar(e) = Writer3!Scalar(e)
  /\ \A e, v : Level3!OnWire(e, v) = Writer3!OnWire(e, v)
  /\ \A e, v : Level3!ArrayOnWire(e, v) = Writer3!ArrayOnWire(e, v)
<1>1. /\ \A n : Level3!Zeros(n) = Writer3!Zeros(n) /\ Level3!Ones(n) = Writer3!Ones(n)
      /\ \A n, w : Level3!BitsOf(n, w) = Writer3!BitsOf(n, w)
      /\ \A e : Level3!Scalar(e) = Writer3!Scalar(e)
      /\ \A one, other : Level3!Lesser(one, other) = Writer3!Lesser(one, other)
  BY Zenon
  DEF Level3!Zeros, Writer3!Zeros, Level3!Ones, Writer3!Ones, Level3!BitsOf,
      Writer3!BitsOf, Level3!Scalar, Writer3!Scalar, Level3!Lesser, Writer3!Lesser
<1>2. \A bits : Level3!NumberOf(bits) = Writer3!NumberOf(bits)
  BY Zenon DEF Level3!NumberOf, Writer3!NumberOf
<1>3. \A m, n : Level3!Shifted(m, n) = Writer3!Shifted(m, n)
  BY Zenon DEF Level3!Shifted, Writer3!Shifted
<1>4. ASSUME NEW v
      PROVE  Level3!Half(v) = Writer3!Half(v)
  <2> DEFINE Small(m) == 2^23 + (m \div 4096) * 4096
             Down(e) == 113 - e
             Sum(e, m, down) ==
               (IF e > 112 THEN (e - 112) * 2^23 + (m \div 4096) * 4096 ELSE IF e = 0 THEN 0 ELSE down) + 4096
             Most == 31 * 2^23
             Packed(e, m, sum) ==
               IF e < 255 THEN sum \div 2^13 ELSE IF m = 0 THEN 31 * 2^10 ELSE 63 * 2^9
             e1 == Level3!NumberOf(SubSeq(v, 24, 31))
             m1 == Level3!NumberOf(SubSeq(v, 1, 23))
             e2 == Writer3!NumberOf(SubSeq(v, 24, 31))
             m2 == Writer3!NumberOf(SubSeq(v, 1, 23))
  <2>1. Level3!Half(v) = Level3!BitsOf(Packed(e1, m1, Level3!Lesser(Sum(e1, m1, Level3!Shifted(Small(m1), Down(e1))), Most)), 15)
                      \o <<v[32]>>
    BY ONLY DEF Level3!Half
  <2>2. Writer3!Half(v) = Writer3!BitsOf(Packed(e2, m2, Writer3!Lesser(Sum(e2, m2, Writer3!Shifted(Small(m2), Down(e2))), Most)), 15)
                      \o <<v[32]>>
    BY ONLY DEF Writer3!Half
  <2>3. e1 = e2 /\ m1 = m2
    BY ONLY <1>2
  <2> HIDE DEF Small, Down, Sum, Most, Packed, e1, m1, e2, m2
  <2>4. Level3!Lesser(Sum(e1, m1, Level3!Shifted(Small(m1), Down(e1))), Most)
          = Writer3!Lesser(Sum(e2, m2, Writer3!Shifted(Small(m2), Down(e2))), Most)
    BY ONLY <1>1, <1>3, <2>3, Zenon
  <2> QED
    BY ONLY <1>1, <2>1, <2>2, <2>3, <2>4, Zenon
<1>5. \A v : Level3!Saturated(v) = Writer3!Saturated(v)
  BY <1>1, <1>2 DEF Level3!Saturated, Writer3!Saturated
<1>6. \A e, v : Level3!OnWire(e, v) = Writer3!OnWire(e, v)
  BY <1>1, <1>4, <1>5, Zenon DEF Level3!OnWire, Writer3!OnWire
<1>7. \A e, v : Level3!ArrayOnWire(e, v) = Writer3!ArrayOnWire(e, v)
  BY <1>6 DEF Level3!ArrayOnWire, Writer3!ArrayOnWire
<1> QED
  BY ONLY <1>1, <1>6, <1>7

(* What is written into the buffer. *)
LEMMA ThirdOutAlike ==
  /\ \A at, bits : Level3!Put(at, bits) = Writer3!Put(at, bits)
  /\ \A at, error : Level3!Fail(at, error) = Writer3!Fail(at, error)
  /\ \A at : Level3!PutAligned(at) = Writer3!PutAligned(at)
  /\ Level3!Blank = Writer3!Blank
<1>1. /\ \A at, bits : Level3!Put(at, bits) = Writer3!Put(at, bits)
      /\ \A at, error : Level3!Fail(at, error) = Writer3!Fail(at, error)
      /\ Level3!Blank = Writer3!Blank
  BY Zenon DEF Level3!Put, Writer3!Put, Level3!Fail, Writer3!Fail, Level3!Blank, Writer3!Blank
<1>2. \A off : Level3!Align(off) = Writer3!Align(off)
  BY Zenon DEF Level3!Align, Writer3!Align
<1>3. \A at : Level3!PutAligned(at) = Writer3!PutAligned(at)
  BY ONLY <1>1, <1>2, ThirdBitsAlike, Zenon DEF Level3!PutAligned, Writer3!PutAligned
<1> QED
  BY ONLY <1>1, <1>3

(* The elements of an array, one after the other. *)
LEMMA ThirdElementsWrittenAlike ==
  /\ \A e : Level3!Composite(e) = Writer3!Composite(e) /\ Level3!Array(e) = Writer3!Array(e)
  /\ \A e : Level3!PrefixWidth(e) = Writer3!PrefixWidth(e)
  /\ \A m, capacity : Level3!TooMany(m, capacity) = Writer3!TooMany(m, capacity)
  /\ \A e, val, at : Level3!WriteNested(e, val, at) = Writer3!WriteNested(e, val, at)
  /\ \A e, val, at : Level3!WriteArray(e, val, at) = Writer3!WriteArray(e, val, at)
<1>1. /\ \A e : Level3!Composite(e) = Writer3!Composite(e) /\ Level3!Array(e) = Writer3!Array(e)
      /\ \A e : Level3!PrefixWidth(e) = Writer3!PrefixWidth(e)
      /\ \A m, capacity : Level3!TooMany(m, capacity) = Writer3!TooMany(m, capacity)
  BY Zenon
  DEF Level3!Composite, Writer3!Composite, Level3!Array, Writer3!Array,
      Level3!PrefixWidth, Writer3!PrefixWidth, Level3!LengthWidth,
      Writer3!LengthWidth, Level3!TooMany, Writer3!TooMany
<1>2. \A e, val, at : Level3!WriteNested(e, val, at) = Writer3!WriteNested(e, val, at)
  BY ONLY <1>1, ThirdBitsAlike, ThirdOutAlike DEF Level3!WriteNested, Writer3!WriteNested
<1>3. ASSUME NEW e, NEW val, NEW at
      PROVE  Level3!WriteArray(e, val, at) = Writer3!WriteArray(e, val, at)
  <2> DEFINE F(f) == [k \in 0..Len(val) |-> IF k = 0 THEN at
                  ELSE IF f[k - 1].err = "SUCCESS" THEN Level3!WriteNested(e, val[k], f[k - 1]) ELSE f[k - 1]]
             G(f) == [k \in 0..Len(val) |-> IF k = 0 THEN at
                  ELSE IF f[k - 1].err = "SUCCESS" THEN Writer3!WriteNested(e, val[k], f[k - 1]) ELSE f[k - 1]]
  <2>1. \A f : F(f) = G(f)
    BY ONLY <1>2
  <2>2. Level3!WriteArray(e, val, at) = IF Level3!Scalar(e) THEN Level3!Put(at, Level3!ArrayOnWire(e, val))
                                     ELSE (CHOOSE f : f = F(f))[Len(val)]
    BY ONLY Zenon DEF Level3!WriteArray, Level3!InTurn
  <2>3. Writer3!WriteArray(e, val, at) = IF Writer3!Scalar(e) THEN Writer3!Put(at, Writer3!ArrayOnWire(e, val))
                                     ELSE (CHOOSE f : f = G(f))[Len(val)]
    BY ONLY Zenon DEF Writer3!WriteArray, Writer3!InTurn
  <2> HIDE DEF F, G
  <2>4. (CHOOSE f : f = F(f)) = (CHOOSE f : f = G(f))
    BY ONLY <2>1, Zenon
  <2>5. Level3!Put(at, Level3!ArrayOnWire(e, val)) = Writer3!Put(at, Writer3!ArrayOnWire(e, val))
        /\ Level3!Scalar(e) = Writer3!Scalar(e)
    BY ONLY ThirdBitsAlike, ThirdOutAlike
  <2> QED
    BY ONLY <2>2, <2>3, <2>4, <2>5, Zenon
<1> QED
  BY ONLY <1>1, <1>2, <1>3

(* X_serialize_ of the third level. *)
LEMMA ThirdWriterAlike == \A t, v : Level3!Serialized(t, v) = Writer3!Serialized(t, v)
<1>1. \A e, v, at : Level3!Write(e, v, at) = Writer3!Write(e, v, at)
  BY ONLY ThirdBitsAlike, ThirdOutAlike, ThirdElementsWrittenAlike DEF Level3!Write, Writer3!Write
<1>2. /\ \A t, tag : Level3!Present(t, tag) = Writer3!Present(t, tag)
      /\ \A t, v : Level3!Values(t, v) = Writer3!Values(t, v)
  BY Zenon DEF Level3!Present, Writer3!Present, Level3!Values, Writer3!Values
<1>3. ASSUME NEW t, NEW tag, NEW v
      PROVE  Level3!WriteMembers(t, tag, v) = Writer3!WriteMembers(t, tag, v)
  <2> DEFINE n == Len(Level3!Present(t, tag))
             first == IF t.kind = "union" THEN Level3!Put(Level3!Blank, Level3!BitsOf(tag - 1, 8)) ELSE Level3!Blank
  <2>1. /\ n = Len(Writer3!Present(t, tag))
        /\ first = IF t.kind = "union" THEN Writer3!Put(Writer3!Blank, Writer3!BitsOf(tag - 1, 8)) ELSE Writer3!Blank
    BY ONLY <1>2, ThirdBitsAlike, ThirdOutAlike
  <2> HIDE DEF n, first
  <2> DEFINE F(f) == [k \in 0..n |-> IF k = 0 THEN first
                  ELSE IF f[k - 1].err = "SUCCESS" THEN Level3!Write(Level3!Present(t, tag)[k], v[k], f[k - 1]) ELSE f[k - 1]]
             G(f) == [k \in 0..n |-> IF k = 0 THEN first
                  ELSE IF f[k - 1].err = "SUCCESS" THEN Writer3!Write(Writer3!Present(t, tag)[k], v[k], f[k - 1]) ELSE f[k - 1]]
  <2>2. \A f : F(f) = G(f)
    BY ONLY <1>1, <1>2
  <2>3. Level3!WriteMembers(t, tag, v) = (CHOOSE f : f = F(f))[n]
    BY ONLY Zenon DEF Level3!WriteMembers, Level3!InTurn, n, first
  <2>4. Writer3!WriteMembers(t, tag, v) = (CHOOSE f : f = G(f))[n]
    BY ONLY <2>1, Zenon DEF Writer3!WriteMembers, Writer3!InTurn
  <2> HIDE DEF F, G
  <2>5. (CHOOSE f : f = F(f)) = (CHOOSE f : f = G(f))
    BY ONLY <2>2, Zenon
  <2> QED
    BY ONLY <2>3, <2>4, <2>5, Zenon
<1> QED
  BY ONLY <1>2, <1>3, ThirdOutAlike, Zenon DEF Level3!Serialized, Writer3!Serialized

(* Numbers of the third level in memory. *)
LEMMA ThirdNumbersReadAlike ==
  /\ \A e : Level3!Scalar(e) = Reader3!Scalar(e) /\ Level3!Array(e) = Reader3!Array(e)
  /\ \A bits : Level3!NumberOf(bits) = Reader3!NumberOf(bits)
  /\ \A one, other : Level3!Lesser(one, other) = Reader3!Lesser(one, other)
  /\ \A off : Level3!Align(off) = Reader3!Align(off)
  /\ \A buf, off, w : Level3!Taken(buf, off, w) = Reader3!Taken(buf, off, w)
  /\ \A e, buf, off : Level3!ReadScalar(e, buf, off) = Reader3!ReadScalar(e, buf, off)
  /\ \A e, n, buf, off : Level3!ReadScalars(e, n, buf, off) = Reader3!ReadScalars(e, n, buf, off)
<1>1. /\ \A n : Level3!Zeros(n) = Reader3!Zeros(n)
      /\ \A n, w : Level3!BitsOf(n, w) = Reader3!BitsOf(n, w)
      /\ \A e : Level3!Scalar(e) = Reader3!Scalar(e) /\ Level3!Array(e) = Reader3!Array(e)
      /\ \A one, other : Level3!Lesser(one, other) = Reader3!Lesser(one, other)
      /\ \A off : Level3!Align(off) = Reader3!Align(off)
  BY Zenon
  DEF Level3!Zeros, Reader3!Zeros, Level3!BitsOf, Reader3!BitsOf, Level3!Scalar,
      Reader3!Scalar, Level3!Array, Reader3!Array, Level3!Lesser, Reader3!Lesser,
      Level3!Align, Reader3!Align
<1>2. \A bits : Level3!NumberOf(bits) = Reader3!NumberOf(bits)
  BY Zenon DEF Level3!NumberOf, Reader3!NumberOf
<1>3. \A e : Level3!MemoryWidth(e) = Reader3!MemoryWidth(e)
  BY Zenon DEF Level3!MemoryWidth, Reader3!MemoryWidth
<1>4. \A buf, off, w : Level3!Taken(buf, off, w) = Reader3!Taken(buf, off, w)
  BY ONLY <1>1, Zenon DEF Level3!Taken, Reader3!Taken
<1>5. ASSUME NEW half
      PROVE  Level3!Unpacked(half) = Reader3!Unpacked(half)
  <2> DEFINE Top(m) == CHOOSE k \in 0..10 : 2^k <= m /\ m < 2^(k + 1)
             Magnitude(e, m) ==
               CASE e \in 1..30 -> (e + 112) * 2^23 + m * 2^13
                 [] e = 31      -> 255 * 2^23 + m * 2^13
                 [] OTHER -> IF m = 0 THEN 0 ELSE (103 + Top(m)) * 2^23 + (m - 2^Top(m)) * 2^(23 - Top(m))
             e1 == Level3!NumberOf(SubSeq(half, 11, 15))
             m1 == Level3!NumberOf(SubSeq(half, 1, 10))
             e2 == Reader3!NumberOf(SubSeq(half, 11, 15))
             m2 == Reader3!NumberOf(SubSeq(half, 1, 10))
  <2>1. Level3!Unpacked(half) = Level3!BitsOf(Magnitude(e1, m1), 31) \o <<half[16]>>
    BY ONLY DEF Level3!Unpacked
  <2>2. Reader3!Unpacked(half) = Reader3!BitsOf(Magnitude(e2, m2), 31) \o <<half[16]>>
    BY ONLY DEF Reader3!Unpacked
  <2>3. e1 = e2 /\ m1 = m2
    BY ONLY <1>2
  <2> HIDE DEF Magnitude, e1, m1, e2, m2
  <2> QED
    BY ONLY <1>1, <2>1, <2>2, <2>3, Zenon
<1>6. \A e, bits : Level3!InMemory(e, bits) = Reader3!InMemory(e, bits)
  BY ONLY <1>1, <1>3, <1>5 DEF Level3!InMemory, Reader3!InMemory
<1>7. \A e, buf, off : Level3!ReadScalar(e, buf, off) = Reader3!ReadScalar(e, buf, off)
  BY ONLY <1>4, <1>6, Zenon DEF Level3!ReadScalar, Reader3!ReadScalar
<1>8. \A e, n, buf, off : Level3!ReadScalars(e, n, buf, off) = Reader3!ReadScalars(e, n, buf, off)
  BY ONLY <1>7 DEF Level3!ReadScalars, Reader3!ReadScalars
<1> QED
  BY ONLY <1>1, <1>2, <1>4, <1>7, <1>8

(* The elements of an array, one after the other. *)
LEMMA ThirdElementsReadAlike ==
  /\ \A at, w, v : Level3!Got(at, w, v) = Reader3!Got(at, w, v)
  /\ \A at, error : Level3!Bad(at, error) = Reader3!Bad(at, error)
  /\ \A e, buf, at : Level3!ReadNested(e, buf, at) = Reader3!ReadNested(e, buf, at)
  /\ \A e, n, buf, at : Level3!ReadArray(e, n, buf, at) = Reader3!ReadArray(e, n, buf, at)
<1>1. /\ \A at, w, v : Level3!Got(at, w, v) = Reader3!Got(at, w, v)
      /\ \A at, error : Level3!Bad(at, error) = Reader3!Bad(at, error)
      /\ \A size, rest : Level3!Beyond(size, rest) = Reader3!Beyond(size, rest)
  BY Zenon DEF Level3!Got, Reader3!Got, Level3!Bad, Reader3!Bad, Level3!Beyond, Reader3!Beyond
<1>2. \A at, off, size, nested : Level3!GotNested(at, off, size, nested) = Reader3!GotNested(at, off, size, nested)
  BY ONLY <1>1 DEF Level3!GotNested, Reader3!GotNested
<1>3. \A t, buf, off, at : Level3!ReadSealed(t, buf, off, at) = Reader3!ReadSealed(t, buf, off, at)
  BY ONLY <1>2 DEF Level3!ReadSealed, Reader3!ReadSealed
<1>4. \A t, buf, off, size, at : Level3!ReadDelimited(t, buf, off, size, at) = Reader3!ReadDelimited(t, buf, off, size, at)
  BY ONLY <1>1, <1>2, ThirdNumbersReadAlike DEF Level3!ReadDelimited, Reader3!ReadDelimited
<1>5. \A buf, off : Level3!SizeInHeader(buf, off) = Reader3!SizeInHeader(buf, off)
  BY ONLY ThirdNumbersReadAlike DEF Level3!SizeInHeader, Reader3!SizeInHeader
<1>6. \A e, buf, at : Level3!ReadNested(e, buf, at) = Reader3!ReadNested(e, buf, at)
  BY ONLY <1>3, <1>4, <1>5, ThirdNumbersReadAlike DEF Level3!ReadNested, Reader3!ReadNested
<1>7. ASSUME NEW e, NEW n, NEW buf, NEW at
      PROVE  Level3!ReadArray(e, n, buf, at) = Reader3!ReadArray(e, n, buf, at)
  <2> DEFINE F(f) == [k \in 0..n |-> IF k = 0 THEN [at EXCEPT !.obj = <<>>]
                  ELSE IF f[k - 1].err = "SUCCESS" THEN Level3!ReadNested(e, buf, f[k - 1]) ELSE f[k - 1]]
             G(f) == [k \in 0..n |-> IF k = 0 THEN [at EXCEPT !.obj = <<>>]
                  ELSE IF f[k - 1].err = "SUCCESS" THEN Reader3!ReadNested(e, buf, f[k - 1]) ELSE f[k - 1]]
             Whole(left) == [left EXCEPT !.obj = Append(at.obj, @)]
  <2>1. \A f : F(f) = G(f)
    BY ONLY <1>6
  <2>2. Level3!ReadArray(e, n, buf, at) = IF Level3!Scalar(e) THEN Level3!Got(at, n * e.width, Level3!ReadScalars(e, n, buf, at.off))
                                       ELSE Whole((CHOOSE f : f = F(f))[n])
    BY ONLY Zenon DEF Level3!ReadArray, Level3!InTurn
  <2>3. Reader3!ReadArray(e, n, buf, at) = IF Reader3!Scalar(e) THEN Reader3!Got(at, n * e.width, Reader3!ReadScalars(e, n, buf, at.off))
                                       ELSE Whole((CHOOSE f : f = G(f))[n])
    BY ONLY Zenon DEF Reader3!ReadArray, Reader3!InTurn
  <2> HIDE DEF F, G, Whole
  <2>4. (CHOOSE f : f = F(f)) = (CHOOSE f : f = G(f))
    BY ONLY <2>1, Zenon
  <2>5. /\ Level3!Got(at, n * e.width, Level3!ReadScalars(e, n, buf, at.off))
             = Reader3!Got(at, n * e.width, Reader3!ReadScalars(e, n, buf, at.off))
        /\ Level3!Scalar(e) = Reader3!Scalar(e)
    BY ONLY <1>1, ThirdNumbersReadAlike
  <2> QED
    BY ONLY <2>2, <2>3, <2>4, <2>5, Zenon
<1> QED
  BY ONLY <1>1, <1>6, <1>7

(* X_deserialize_ of the third level. *)
LEMMA ThirdReaderAlike == \A t, buf : Level3!Deserialized(t, buf) = Reader3!Deserialized(t, buf)
<1>1. /\ \A e : Level3!PrefixWidth(e) = Reader3!PrefixWidth(e)
      /\ \A n, capacity : Level3!Overfull(n, capacity) = Reader3!Overfull(n, capacity)
      /\ \A t, tag : Level3!Present(t, tag) = Reader3!Present(t, tag)
      /\ Level3!Start = Reader3!Start
  BY Zenon
  DEF Level3!PrefixWidth, Reader3!PrefixWidth, Level3!LengthWidth,
      Reader3!LengthWidth, Level3!Overfull, Reader3!Overfull, Level3!Present,
      Reader3!Present, Level3!Start, Reader3!Start
<1>2. \A e, n, buf, at : Level3!ReadCounted(e, n, buf, at) = Reader3!ReadCounted(e, n, buf, at)
  BY ONLY <1>1, ThirdElementsReadAlike DEF Level3!ReadCounted, Reader3!ReadCounted
<1>3. \A e, buf, off : Level3!CountRead(e, buf, off) = Reader3!CountRead(e, buf, off)
  BY ONLY <1>1, ThirdNumbersReadAlike DEF Level3!CountRead, Reader3!CountRead
<1>4. \A e, buf, at : Level3!Read(e, buf, at) = Reader3!Read(e, buf, at)
  BY ONLY <1>2, <1>3, ThirdNumbersReadAlike, ThirdElementsReadAlike DEF Level3!Read, Reader3!Read
<1>5. ASSUME NEW t, NEW tag, NEW buf
      PROVE  Level3!ReadMembers(t, tag, buf) = Reader3!ReadMembers(t, tag, buf)
  <2> DEFINE n == Len(Level3!Present(t, tag))
             Begin(start) == [start EXCEPT !.off = IF t.kind = "union" THEN 8 ELSE 0]
             F(f) == [k \in 0..n |-> IF k = 0 THEN Begin(Level3!Start)
                  ELSE IF f[k - 1].err = "SUCCESS" THEN Level3!Read(Level3!Present(t, tag)[k], buf, f[k - 1]) ELSE f[k - 1]]
             G(f) == [k \in 0..Len(Reader3!Present(t, tag)) |-> IF k = 0 THEN Begin(Reader3!Start)
                  ELSE IF f[k - 1].err = "SUCCESS" THEN Reader3!Read(Reader3!Present(t, tag)[k], buf, f[k - 1]) ELSE f[k - 1]]
             NoOption == t.kind = "union" /\ tag \notin DOMAIN t.members
  <2>1. Level3!ReadMembers(t, tag, buf) =
          IF NoOption THEN Level3!Bad(Level3!Start, "BAD_UNION_TAG") ELSE (CHOOSE f : f = F(f))[n]
    BY ONLY Zenon DEF Level3!ReadMembers, Level3!InTurn
  <2>2. Reader3!ReadMembers(t, tag, buf) =
          IF NoOption THEN Reader3!Bad(Reader3!Start, "BAD_UNION_TAG") ELSE (CHOOSE f : f = G(f))[Len(Reader3!Present(t, tag))]
    BY ONLY Zenon DEF Reader3!ReadMembers, Reader3!InTurn
  <2>3. n = Len(Reader3!Present(t, tag)) /\ Level3!Bad(Level3!Start, "BAD_UNION_TAG") = Reader3!Bad(Reader3!Start, "BAD_UNION_TAG")
    BY ONLY <1>1, ThirdElementsReadAlike
  <2> HIDE DEF n, Begin, NoOption
  <2>4. \A f : F(f) = G(f)
    BY ONLY <1>1, <1>4, <2>3
  <2> HIDE DEF F, G
  <2>5. (CHOOSE f : f = F(f)) = (CHOOSE f : f = G(f))
    BY ONLY <2>4, Zenon
  <2> QED
    BY ONLY <2>1, <2>2, <2>3, <2>5, Zenon
<1>6. \A t, tag, buf, at : Level3!Result(t, tag, buf, at) = Reader3!Result(t, tag, buf, at)
  BY ONLY ThirdNumbersReadAlike DEF Level3!Result, Reader3!Result
<1>7. \A buf : Level3!TagRead(buf) = Reader3!TagRead(buf)
  BY ONLY ThirdNumbersReadAlike DEF Level3!TagRead, Reader3!TagRead
<1> QED
  BY ONLY <1>5, <1>6, <1>7 DEF Level3!Deserialized, Reader3!Deserialized
-----------------------------------------------------------------------------
(* The types of the fourth level, *)
Level4 == INSTANCE TypeProofs WITH
  NestedSerialize <- Writer3!Serialized, NestedDeserialize <- Reader3!Deserialized,
  NestedSchema <- Schema3!Schema, NestedLargest <- Schema3!Largest, NestedExact <- Schema3!Exact,
  NestedObject <- Objects3!Object, NestedSurvives <- Objects3!Survives, NestedFilled <- Objects3!Filled

(* of which it holds if it holds of those of the level below. *)
LEMMA FourthLevel ==
  ASSUME Level3!NestedWrites, Level3!NestedReads, Level3!NestedFills, Level3!NestedRounds,
         Level3!NestedAgain, Level3!NestedShort
  PROVE  /\ Level4!NestedWrites /\ Level4!NestedReads /\ Level4!NestedFills /\ Level4!NestedRounds
         /\ Level4!NestedAgain /\ Level4!NestedShort
<1>1. /\ Level4!MaxSize = Level3!MaxSize /\ Level4!Buffers = Level3!Buffers
      /\ Level4!WriteErrors = Level3!WriteErrors /\ Level4!ReadErrors = Level3!ReadErrors
      /\ Level4!Pattern = Level3!Pattern /\ Level4!Fillings = Level3!Fillings
      /\ \A buf : Level4!AllZero(buf) = Level3!AllZero(buf)
      /\ \A buf, long : Level4!Padded(buf, long) = Level3!Padded(buf, long)
      /\ \A one, other, len : Level4!SameRead(one, other, len) = Level3!SameRead(one, other, len)
  BY DEF Level4!MaxSize, Level3!MaxSize, Level4!Buffers, Level3!Buffers,
         Level4!WriteErrors, Level3!WriteErrors, Level4!ReadErrors, Level3!ReadErrors,
         Level4!Pattern, Level3!Pattern, Level4!Fillings, Level3!Fillings,
         Level4!AllZero, Level3!AllZero, Level4!Padded, Level3!Padded,
         Level4!SameRead, Level3!SameRead, Level4!Near, Level3!Near
<1>2. /\ Level3!Writes /\ Level3!Reads /\ Level3!Fills /\ Level3!Rounds /\ Level3!Again /\ Level3!Short
  BY Level3!SerializedWrites, Level3!DeserializedReads, Level3!FilledIsObject, Level3!SerializedIsRead,
     Level3!SurvivorIsWrittenAlike, Level3!ShortIsZeros
<1>3. Level4!NestedWrites
  BY ONLY <1>1, <1>2, ThirdSchemasAlike, ThirdObjectsAlike, ThirdWriterAlike
  DEF Level4!NestedWrites, Level3!Writes
<1>4. Level4!NestedReads
  BY ONLY <1>1, <1>2, ThirdSchemasAlike, ThirdObjectsAlike, ThirdWriterAlike, ThirdReaderAlike
  DEF Level4!NestedReads, Level3!Reads
<1>5. Level4!NestedFills
  BY ONLY <1>1, <1>2, ThirdSchemasAlike, ThirdObjectsAlike
  DEF Level4!NestedFills, Level3!Fills
<1>6. Level4!NestedRounds
  BY ONLY <1>1, <1>2, ThirdSchemasAlike, ThirdObjectsAlike, ThirdSurvivorsAlike, ThirdWriterAlike, ThirdReaderAlike
  DEF Level4!NestedRounds, Level3!Rounds
<1>7. Level4!NestedAgain
  BY ONLY <1>1, <1>2, ThirdSchemasAlike, ThirdObjectsAlike, ThirdSurvivorsAlike, ThirdWriterAlike
  DEF Level4!NestedAgain, Level3!Again
<1>8. Level4!NestedShort
  BY ONLY <1>1, <1>2, ThirdSchemasAlike, ThirdReaderAlike
  DEF Level4!NestedShort, Level3!Short
<1> QED
  BY ONLY <1>3, <1>4, <1>5, <1>6, <1>7, <1>8

(* What a type of the fourth level is, and how large its objects are. *)
LEMMA FourthSchemasAlike ==
  /\ \A t : Level4!Schema(t) = Schema4!Schema(t)
  /\ \A t : Level4!Largest(t) = Schema4!Largest(t)
  /\ \A t : Level4!Exact(t) = Schema4!Exact(t)
<1>1. \A t : Level4!Schema(t) = Schema4!Schema(t)
  BY SMTT(60)
  DEF Level4!Schema, Schema4!Schema, Level4!Member, Schema4!Member,
         Level4!Element, Schema4!Element, Level4!Halves, Schema4!Halves,
         Level4!Float, Schema4!Float, Level4!Numbers, Schema4!Numbers,
         Level4!Composite, Schema4!Composite, Level4!Array, Schema4!Array,
         Level4!MaxSize, Schema4!MaxSize
<1>2. \A t : Level4!Largest(t) = Schema4!Largest(t)
  BY Zenon
  DEF Level4!Largest, Schema4!Largest, Level4!Align, Schema4!Align,
         Level4!MemberEnd, Schema4!MemberEnd, Level4!PrefixWidth, Schema4!PrefixWidth,
         Level4!LengthWidth, Schema4!LengthWidth, Level4!Array, Schema4!Array,
         Level4!ElementBegin, Schema4!ElementBegin, Level4!Scalar, Schema4!Scalar,
         Level4!ElementLargest, Schema4!ElementLargest
<1>3. \A t : Level4!Exact(t) = Schema4!Exact(t)
  BY Zenon
  DEF Level4!Exact, Schema4!Exact, Level4!ExactMember, Schema4!ExactMember,
         Level4!Array, Schema4!Array, Level4!ExactElement, Schema4!ExactElement,
         Level4!Numbers, Schema4!Numbers, Level4!Scalar, Schema4!Scalar,
         Level4!Composite, Schema4!Composite
<1> QED
  BY ONLY <1>1, <1>2, <1>3

(* What its objects are. *)
LEMMA FourthObjectsAlike ==
  /\ \A t, v : Level4!Object(t, v) = Objects4!Object(t, v)
  /\ \A t, p, filling, o : Level4!Filled(t, p, filling, o) = Objects4!Filled(t, p, filling, o)
<1>1. /\ \A e : Level4!Scalar(e) = Objects4!Scalar(e) /\ Level4!Array(e) = Objects4!Array(e)
      /\ \A e : Level4!Composite(e) = Objects4!Composite(e)
      /\ \A s : Level4!Sequence(s) = Objects4!Sequence(s)
      /\ \A t, tag : Level4!Present(t, tag) = Objects4!Present(t, tag)
      /\ \A t, v : Level4!Values(t, v) = Objects4!Values(t, v)
  BY Zenon
  DEF Level4!Scalar, Objects4!Scalar, Level4!Array, Objects4!Array,
         Level4!Composite, Objects4!Composite, Level4!Sequence, Objects4!Sequence,
         Level4!Present, Objects4!Present, Level4!Values, Objects4!Values
<1>2. \A e : Level4!MemoryWidth(e) = Objects4!MemoryWidth(e)
  BY Zenon
  DEF Level4!MemoryWidth, Objects4!MemoryWidth
<1>3. \A e : Level4!InC(e) = Objects4!InC(e)
  BY ONLY <1>2, Zenon
  DEF Level4!InC, Objects4!InC
<1>4. \A e, v : Level4!ElementObject(e, v) = Objects4!ElementObject(e, v)
  BY ONLY <1>1, <1>3
  DEF Level4!ElementObject, Objects4!ElementObject
<1>5. \A e, v : Level4!MemberObject(e, v) = Objects4!MemberObject(e, v)
  BY ONLY <1>1, <1>4
  DEF Level4!MemberObject, Objects4!MemberObject
<1>6. \A t, v : Level4!Object(t, v) = Objects4!Object(t, v)
  BY ONLY <1>1, <1>5
  DEF Level4!Object, Objects4!Object
<1>7. /\ \A p, k : Level4!Turned(p, k) = Objects4!Turned(p, k)
      /\ \A p, w : Level4!Bits(p, w) = Objects4!Bits(p, w)
      /\ \A filling, capacity : Level4!Count(filling, capacity) = Objects4!Count(filling, capacity)
  BY Zenon
  DEF Level4!Turned, Objects4!Turned, Level4!Bits, Objects4!Bits,
         Level4!Count, Objects4!Count
<1>8. \A e, p, filling, o : Level4!ElementFilled(e, p, filling, o) = Objects4!ElementFilled(e, p, filling, o)
  BY ONLY <1>1, <1>2, <1>7
  DEF Level4!ElementFilled, Objects4!ElementFilled
<1>9. ASSUME NEW e, NEW p, NEW filling, NEW o
      PROVE  Level4!MemberFilled(e, p, filling, o) = Objects4!MemberFilled(e, p, filling, o)
  <2> DEFINE n == IF e.kind = "fixed" THEN e.capacity ELSE Level4!Count(filling, e.capacity)
             elements == [k \in 1..n |-> Level4!ElementFilled(e.of, Level4!Turned(p, k - 1), filling, o)]
  <2>1. n = IF e.kind = "fixed" THEN e.capacity ELSE Objects4!Count(filling, e.capacity)
    BY ONLY <1>7
  <2> HIDE DEF n
  <2>2. elements = [k \in 1..n |-> Objects4!ElementFilled(e.of, Objects4!Turned(p, k - 1), filling, o)]
    BY ONLY <1>7, <1>8
  <2>3. Level4!MemberFilled(e, p, filling, o) =
          CASE e.kind = "void" -> <<>> [] Level4!Array(e) -> elements
            [] OTHER -> Level4!ElementFilled(e, p, filling, o)
    BY ONLY Zenon DEF Level4!MemberFilled, n
  <2>4. Objects4!MemberFilled(e, p, filling, o) =
          CASE e.kind = "void" -> <<>> [] Objects4!Array(e) -> elements
            [] OTHER -> Objects4!ElementFilled(e, p, filling, o)
    BY ONLY <2>1, <2>2, Zenon DEF Objects4!MemberFilled
  <2> HIDE DEF elements
  <2> QED
    BY ONLY <1>1, <1>8, <2>3, <2>4
<1>10. \A t, p, filling, o : Level4!Filled(t, p, filling, o) = Objects4!Filled(t, p, filling, o)
  BY ONLY <1>7, <1>9
  DEF Level4!Filled, Objects4!Filled
<1> QED
  BY ONLY <1>6, <1>10

(* When one of them is what another was. *)
LEMMA FourthSurvivorsAlike ==
  \A t, v, w : Level4!Survives(t, v, w) = Objects4!Survives(t, v, w)
<1>1. /\ \A e : Level4!Scalar(e) = Objects4!Scalar(e) /\ Level4!Array(e) = Objects4!Array(e)
      /\ \A e : Level4!Composite(e) = Objects4!Composite(e)
      /\ \A t, tag : Level4!Present(t, tag) = Objects4!Present(t, tag)
      /\ \A t, v : Level4!Values(t, v) = Objects4!Values(t, v)
      /\ \A n, w : Level4!BitsOf(n, w) = Objects4!BitsOf(n, w)
  BY Zenon
  DEF Level4!Scalar, Objects4!Scalar, Level4!Array, Objects4!Array,
         Level4!Composite, Objects4!Composite, Level4!Present, Objects4!Present,
         Level4!Values, Objects4!Values, Level4!BitsOf, Objects4!BitsOf
<1>2. \A bits : Level4!NumberOf(bits) = Objects4!NumberOf(bits)
  BY Zenon
  DEF Level4!NumberOf, Objects4!NumberOf
<1>3. ASSUME NEW half
      PROVE  Level4!Unpacked(half) = Objects4!Unpacked(half)
  <2> DEFINE Top(m) == CHOOSE k \in 0..10 : 2^k <= m /\ m < 2^(k + 1)
             Magnitude(e, m) ==
               CASE e \in 1..30 -> (e + 112) * 2^23 + m * 2^13
                 [] e = 31      -> 255 * 2^23 + m * 2^13
                 [] OTHER -> IF m = 0 THEN 0 ELSE (103 + Top(m)) * 2^23 + (m - 2^Top(m)) * 2^(23 - Top(m))
             e1 == Level4!NumberOf(SubSeq(half, 11, 15))
             m1 == Level4!NumberOf(SubSeq(half, 1, 10))
             e2 == Objects4!NumberOf(SubSeq(half, 11, 15))
             m2 == Objects4!NumberOf(SubSeq(half, 1, 10))
  <2>1. Level4!Unpacked(half) = Level4!BitsOf(Magnitude(e1, m1), 31) \o <<half[16]>>
    BY ONLY DEF Level4!Unpacked
  <2>2. Objects4!Unpacked(half) = Objects4!BitsOf(Magnitude(e2, m2), 31) \o <<half[16]>>
    BY ONLY DEF Objects4!Unpacked
  <2>3. e1 = e2 /\ m1 = m2
    BY ONLY <1>2
  <2> HIDE DEF Magnitude, e1, m1, e2, m2
  <2> QED
    BY ONLY <1>1, <2>1, <2>2, <2>3, Zenon
<1>4. ASSUME NEW float, NEW half
      PROVE  Level4!NearestHalf(float, half) = Objects4!NearestHalf(float, half)
  <2> DEFINE Whole(n) == [half EXCEPT ![32] = n]
             One(n) == Level4!Unpacked(Level4!BitsOf(n, 16))
             Other(n) == Objects4!Unpacked(Objects4!BitsOf(n, 16))
             Multiple == CHOOSE n \in 0..1024 : One(n) = Whole(0)
             MultipleToo == CHOOSE n \in 0..1024 : Other(n) = Whole(0)
             Largest1 == 142 * 2^23 + 1023 * 2^13
             Apart(f, m) == 2 * m * 2^(126 - (f \div 2^23)) - 2 * ((f % 2^23) + 2^23)
             Near1(f, h, m) ==
               /\ half[32] = float[32]
               /\ CASE f > 255 * 2^23 -> h > 255 * 2^23
                    [] f \div 2^23 = 255 /\ ~(f > 255 * 2^23) -> h = 255 * 2^23
                    [] f \div 2^23 < 255 /\ f >= Largest1 -> h = Largest1
                    [] f \div 2^23 \in 113..142 /\ f < Largest1 -> h - f \in -4096..4096
                    [] f \div 2^23 \in 102..112 -> Apart(f, m) \in (-(2^(126 - (f \div 2^23))))..2^(126 - (f \div 2^23))
                    [] f \div 2^23 < 102 -> h = 0
             f1 == Level4!NumberOf(SubSeq(float, 1, 31))
             h1 == Level4!NumberOf(SubSeq(half, 1, 31))
             f2 == Objects4!NumberOf(SubSeq(float, 1, 31))
             h2 == Objects4!NumberOf(SubSeq(half, 1, 31))
  <2>1. Level4!NearestHalf(float, half) = Near1(f1, h1, Multiple)
    BY ONLY Zenon DEF Level4!NearestHalf
  <2>2. Objects4!NearestHalf(float, half) = Near1(f2, h2, MultipleToo)
    BY ONLY Zenon DEF Objects4!NearestHalf
  <2>3. f1 = f2 /\ h1 = h2
    BY ONLY <1>2
  <2>4. \A n : One(n) = Other(n)
    BY ONLY <1>1, <1>3, Zenon
  <2> HIDE DEF Near1, f1, f2, h1, h2, One, Other, Whole
  <2>5. Multiple = MultipleToo
    BY ONLY <2>4, Zenon
  <2> HIDE DEF Multiple, MultipleToo
  <2> QED
    BY ONLY <2>1, <2>2, <2>3, <2>5, Zenon
<1>5. \A e, v, w : Level4!SurvivesScalar(e, v, w) = Objects4!SurvivesScalar(e, v, w)
  BY ONLY <1>4, Zenon
  DEF Level4!SurvivesScalar, Objects4!SurvivesScalar
<1>6. \A e, v, w : Level4!ElementSurvives(e, v, w) = Objects4!ElementSurvives(e, v, w)
  BY ONLY <1>1, <1>5
  DEF Level4!ElementSurvives, Objects4!ElementSurvives
<1>7. \A e, v, w : Level4!MemberSurvives(e, v, w) = Objects4!MemberSurvives(e, v, w)
  BY ONLY <1>1, <1>6
  DEF Level4!MemberSurvives, Objects4!MemberSurvives
<1> QED
  BY ONLY <1>1, <1>7
  DEF Level4!Survives, Objects4!Survives

(* Numbers of the fourth level on the wire. *)
LEMMA FourthBitsAlike ==
  /\ \A n : Level4!Zeros(n) = Writer4!Zeros(n)
  /\ \A n, w : Level4!BitsOf(n, w) = Writer4!BitsOf(n, w)
  /\ \A e : Level4!Scalar(e) = Writer4!Scalar(e)
  /\ \A e, v : Level4!OnWire(e, v) = Writer4!OnWire(e, v)
  /\ \A e, v : Level4!ArrayOnWire(e, v) = Writer4!ArrayOnWire(e, v)
<1>1. /\ \A n : Level4!Zeros(n) = Writer4!Zeros(n) /\ Level4!Ones(n) = Writer4!Ones(n)
      /\ \A n, w : Level4!BitsOf(n, w) = Writer4!BitsOf(n, w)
      /\ \A e : Level4!Scalar(e) = Writer4!Scalar(e)
      /\ \A one, other : Level4!Lesser(one, other) = Writer4!Lesser(one, other)
  BY Zenon
  DEF Level4!Zeros, Writer4!Zeros, Level4!Ones, Writer4!Ones, Level4!BitsOf,
      Writer4!BitsOf, Level4!Scalar, Writer4!Scalar, Level4!Lesser, Writer4!Lesser
<1>2. \A bits : Level4!NumberOf(bits) = Writer4!NumberOf(bits)
  BY Zenon DEF Level4!NumberOf, Writer4!NumberOf
<1>3. \A m, n : Level4!Shifted(m, n) = Writer4!Shifted(m, n)
  BY Zenon DEF Level4!Shifted, Writer4!Shifted
<1>4. ASSUME NEW v
      PROVE  Level4!Half(v) = Writer4!Half(v)
  <2> DEFINE Small(m) == 2^23 + (m \div 4096) * 4096
             Down(e) == 113 - e
             Sum(e, m, down) ==
               (IF e > 112 THEN (e - 112) * 2^23 + (m \div 4096) * 4096 ELSE IF e = 0 THEN 0 ELSE down) + 4096
             Most == 31 * 2^23
             Packed(e, m, sum) ==
               IF e < 255 THEN sum \div 2^13 ELSE IF m = 0 THEN 31 * 2^10 ELSE 63 * 2^9
             e1 == Level4!NumberOf(SubSeq(v, 24, 31))
             m1 == Level4!NumberOf(SubSeq(v, 1, 23))
             e2 == Writer4!NumberOf(SubSeq(v, 24, 31))
             m2 == Writer4!NumberOf(SubSeq(v, 1, 23))
  <2>1. Level4!Half(v) = Level4!BitsOf(Packed(e1, m1, Level4!Lesser(Sum(e1, m1, Level4!Shifted(Small(m1), Down(e1))), Most)), 15)
                      \o <<v[32]>>
    BY ONLY DEF Level4!Half
  <2>2. Writer4!Half(v) = Writer4!BitsOf(Packed(e2, m2, Writer4!Lesser(Sum(e2, m2, Writer4!Shifted(Small(m2), Down(e2))), Most)), 15)
                      \o <<v[32]>>
    BY ONLY DEF Writer4!Half
  <2>3. e1 = e2 /\ m1 = m2
    BY ONLY <1>2
  <2> HIDE DEF Small, Down, Sum, Most, Packed, e1, m1, e2, m2
  <2>4. Level4!Lesser(Sum(e1, m1, Level4!Shifted(Small(m1), Down(e1))), Most)
          = Writer4!Lesser(Sum(e2, m2, Writer4!Shifted(Small(m2), Down(e2))), Most)
    BY ONLY <1>1, <1>3, <2>3, Zenon
  <2> QED
    BY ONLY <1>1, <2>1, <2>2, <2>3, <2>4, Zenon
<1>5. \A v : Level4!Saturated(v) = Writer4!Saturated(v)
  BY <1>1, <1>2 DEF Level4!Saturated, Writer4!Saturated
<1>6. \A e, v : Level4!OnWire(e, v) = Writer4!OnWire(e, v)
  BY <1>1, <1>4, <1>5, Zenon DEF Level4!OnWire, Writer4!OnWire
<1>7. \A e, v : Level4!ArrayOnWire(e, v) = Writer4!ArrayOnWire(e, v)
  BY <1>6 DEF Level4!ArrayOnWire, Writer4!ArrayOnWire
<1> QED
  BY ONLY <1>1, <1>6, <1>7

(* What is written into the buffer. *)
LEMMA FourthOutAlike ==
  /\ \A at, bits : Level4!Put(at, bits) = Writer4!Put(at, bits)
  /\ \A at, error : Level4!Fail(at, error) = Writer4!Fail(at, error)
  /\ \A at : Level4!PutAligned(at) = Writer4!PutAligned(at)
  /\ Level4!Blank = Writer4!Blank
<1>1. /\ \A at, bits : Level4!Put(at, bits) = Writer4!Put(at, bits)
      /\ \A at, error : Level4!Fail(at, error) = Writer4!Fail(at, error)
      /\ Level4!Blank = Writer4!Blank
  BY Zenon DEF Level4!Put, Writer4!Put, Level4!Fail, Writer4!Fail, Level4!Blank, Writer4!Blank
<1>2. \A off : Level4!Align(off) = Writer4!Align(off)
  BY Zenon DEF Level4!Align, Writer4!Align
<1>3. \A at : Level4!PutAligned(at) = Writer4!PutAligned(at)
  BY ONLY <1>1, <1>2, FourthBitsAlike, Zenon DEF Level4!PutAligned, Writer4!PutAligned
<1> QED
  BY ONLY <1>1, <1>3

(* The elements of an array, one after the other. *)
LEMMA FourthElementsWrittenAlike ==
  /\ \A e : Level4!Composite(e) = Writer4!Composite(e) /\ Level4!Array(e) = Writer4!Array(e)
  /\ \A e : Level4!PrefixWidth(e) = Writer4!PrefixWidth(e)
  /\ \A m, capacity : Level4!TooMany(m, capacity) = Writer4!TooMany(m, capacity)
  /\ \A e, val, at : Level4!WriteNested(e, val, at) = Writer4!WriteNested(e, val, at)
  /\ \A e, val, at : Level4!WriteArray(e, val, at) = Writer4!WriteArray(e, val, at)
<1>1. /\ \A e : Level4!Composite(e) = Writer4!Composite(e) /\ Level4!Array(e) = Writer4!Array(e)
      /\ \A e : Level4!PrefixWidth(e) = Writer4!PrefixWidth(e)
      /\ \A m, capacity : Level4!TooMany(m, capacity) = Writer4!TooMany(m, capacity)
  BY Zenon
  DEF Level4!Composite, Writer4!Composite, Level4!Array, Writer4!Array,
      Level4!PrefixWidth, Writer4!PrefixWidth, Level4!LengthWidth,
      Writer4!LengthWidth, Level4!TooMany, Writer4!TooMany
<1>2. \A e, val, at : Level4!WriteNested(e, val, at) = Writer4!WriteNested(e, val, at)
  BY ONLY <1>1, FourthBitsAlike, FourthOutAlike DEF Level4!WriteNested, Writer4!WriteNested
<1>3. ASSUME NEW e, NEW val, NEW at
      PROVE  Level4!WriteArray(e, val, at) = Writer4!WriteArray(e, val, at)
  <2> DEFINE F(f) == [k \in 0..Len(val) |-> IF k = 0 THEN at
                  ELSE IF f[k - 1].err = "SUCCESS" THEN Level4!WriteNested(e, val[k], f[k - 1]) ELSE f[k - 1]]
             G(f) == [k \in 0..Len(val) |-> IF k = 0 THEN at
                  ELSE IF f[k - 1].err = "SUCCESS" THEN Writer4!WriteNested(e, val[k], f[k - 1]) ELSE f[k - 1]]
  <2>1. \A f : F(f) = G(f)
    BY ONLY <1>2
  <2>2. Level4!WriteArray(e, val, at) = IF Level4!Scalar(e) THEN Level4!Put(at, Level4!ArrayOnWire(e, val))
                                     ELSE (CHOOSE f : f = F(f))[Len(val)]
    BY ONLY Zenon DEF Level4!WriteArray, Level4!InTurn
  <2>3. Writer4!WriteArray(e, val, at) = IF Writer4!Scalar(e) THEN Writer4!Put(at, Writer4!ArrayOnWire(e, val))
                                     ELSE (CHOOSE f : f = G(f))[Len(val)]
    BY ONLY Zenon DEF Writer4!WriteArray, Writer4!InTurn
  <2> HIDE DEF F, G
  <2>4. (CHOOSE f : f = F(f)) = (CHOOSE f : f = G(f))
    BY ONLY <2>1, Zenon
  <2>5. Level4!Put(at, Level4!ArrayOnWire(e, val)) = Writer4!Put(at, Writer4!ArrayOnWire(e, val))
        /\ Level4!Scalar(e) = Writer4!Scalar(e)
    BY ONLY FourthBitsAlike, FourthOutAlike
  <2> QED
    BY ONLY <2>2, <2>3, <2>4, <2>5, Zenon
<1> QED
  BY ONLY <1>1, <1>2, <1>3

(* X_serialize_ of the fourth level. *)
LEMMA FourthWriterAlike == \A t, v : Level4!Serialized(t, v) = Writer4!Serialized(t, v)
<1>1. \A e, v, at : Level4!Write(e, v, at) = Writer4!Write(e, v, at)
  BY ONLY FourthBitsAlike, FourthOutAlike, FourthElementsWrittenAlike
  DEF Level4!Write, Writer4!Write
<1>2. /\ \A t, tag : Level4!Present(t, tag) = Writer4!Present(t, tag)
      /\ \A t, v : Level4!Values(t, v) = Writer4!Values(t, v)
  BY Zenon DEF Level4!Present, Writer4!Present, Level4!Values, Writer4!Values
<1>3. ASSUME NEW t, NEW tag, NEW v
      PROVE  Level4!WriteMembers(t, tag, v) = Writer4!WriteMembers(t, tag, v)
  <2> DEFINE n == Len(Level4!Present(t, tag))
             first == IF t.kind = "union" THEN Level4!Put(Level4!Blank, Level4!BitsOf(tag - 1, 8)) ELSE Level4!Blank
  <2>1. /\ n = Len(Writer4!Present(t, tag))
        /\ first = IF t.kind = "union" THEN Writer4!Put(Writer4!Blank, Writer4!BitsOf(tag - 1, 8)) ELSE Writer4!Blank
    BY ONLY <1>2, FourthBitsAlike, FourthOutAlike
  <2> HIDE DEF n, first
  <2> DEFINE F(f) == [k \in 0..n |-> IF k = 0 THEN first
                  ELSE IF f[k - 1].err = "SUCCESS" THEN Level4!Write(Level4!Present(t, tag)[k], v[k], f[k - 1]) ELSE f[k - 1]]
             G(f) == [k \in 0..n |-> IF k = 0 THEN first
                  ELSE IF f[k - 1].err = "SUCCESS" THEN Writer4!Write(Writer4!Present(t, tag)[k], v[k], f[k - 1]) ELSE f[k - 1]]
  <2>2. \A f : F(f) = G(f)
    BY ONLY <1>1, <1>2
  <2>3. Level4!WriteMembers(t, tag, v) = (CHOOSE f : f = F(f))[n]
    BY ONLY Zenon DEF Level4!WriteMembers, Level4!InTurn, n, first
  <2>4. Writer4!WriteMembers(t, tag, v) = (CHOOSE f : f = G(f))[n]
    BY ONLY <2>1, Zenon DEF Writer4!WriteMembers, Writer4!InTurn
  <2> HIDE DEF F, G
  <2>5. (CHOOSE f : f = F(f)) = (CHOOSE f : f = G(f))
    BY ONLY <2>2, Zenon
  <2> QED
    BY ONLY <2>3, <2>4, <2>5, Zenon
<1> QED
  BY ONLY <1>2, <1>3, FourthOutAlike, Zenon DEF Level4!Serialized, Writer4!Serialized

(* Numbers of the fourth level in memory. *)
LEMMA FourthNumbersReadAlike ==
  /\ \A e : Level4!Scalar(e) = Reader4!Scalar(e) /\ Level4!Array(e) = Reader4!Array(e)
  /\ \A bits : Level4!NumberOf(bits) = Reader4!NumberOf(bits)
  /\ \A one, other : Level4!Lesser(one, other) = Reader4!Lesser(one, other)
  /\ \A off : Level4!Align(off) = Reader4!Align(off)
  /\ \A buf, off, w : Level4!Taken(buf, off, w) = Reader4!Taken(buf, off, w)
  /\ \A e, buf, off : Level4!ReadScalar(e, buf, off) = Reader4!ReadScalar(e, buf, off)
  /\ \A e, n, buf, off : Level4!ReadScalars(e, n, buf, off) = Reader4!ReadScalars(e, n, buf, off)
<1>1. /\ \A n : Level4!Zeros(n) = Reader4!Zeros(n)
      /\ \A n, w : Level4!BitsOf(n, w) = Reader4!BitsOf(n, w)
      /\ \A e : Level4!Scalar(e) = Reader4!Scalar(e) /\ Level4!Array(e) = Reader4!Array(e)
      /\ \A one, other : Level4!Lesser(one, other) = Reader4!Lesser(one, other)
      /\ \A off : Level4!Align(off) = Reader4!Align(off)
  BY Zenon
  DEF Level4!Zeros, Reader4!Zeros, Level4!BitsOf, Reader4!BitsOf, Level4!Scalar,
      Reader4!Scalar, Level4!Array, Reader4!Array, Level4!Lesser, Reader4!Lesser,
      Level4!Align, Reader4!Align
<1>2. \A bits : Level4!NumberOf(bits) = Reader4!NumberOf(bits)
  BY Zenon DEF Level4!NumberOf, Reader4!NumberOf
<1>3. \A e : Level4!MemoryWidth(e) = Reader4!MemoryWidth(e)
  BY Zenon DEF Level4!MemoryWidth, Reader4!MemoryWidth
<1>4. \A buf, off, w : Level4!Taken(buf, off, w) = Reader4!Taken(buf, off, w)
  BY ONLY <1>1, Zenon DEF Level4!Taken, Reader4!Taken
<1>5. ASSUME NEW half
      PROVE  Level4!Unpacked(half) = Reader4!Unpacked(half)
  <2> DEFINE Top(m) == CHOOSE k \in 0..10 : 2^k <= m /\ m < 2^(k + 1)
             Magnitude(e, m) ==
               CASE e \in 1..30 -> (e + 112) * 2^23 + m * 2^13
                 [] e = 31      -> 255 * 2^23 + m * 2^13
                 [] OTHER -> IF m = 0 THEN 0 ELSE (103 + Top(m)) * 2^23 + (m - 2^Top(m)) * 2^(23 - Top(m))
             e1 == Level4!NumberOf(SubSeq(half, 11, 15))
             m1 == Level4!NumberOf(SubSeq(half, 1, 10))
             e2 == Reader4!NumberOf(SubSeq(half, 11, 15))
             m2 == Reader4!NumberOf(SubSeq(half, 1, 10))
  <2>1. Level4!Unpacked(half) = Level4!BitsOf(Magnitude(e1, m1), 31) \o <<half[16]>>
    BY ONLY DEF Level4!Unpacked
  <2>2. Reader4!Unpacked(half) = Reader4!BitsOf(Magnitude(e2, m2), 31) \o <<half[16]>>
    BY ONLY DEF Reader4!Unpacked
  <2>3. e1 = e2 /\ m1 = m2
    BY ONLY <1>2
  <2> HIDE DEF Magnitude, e1, m1, e2, m2
  <2> QED
    BY ONLY <1>1, <2>1, <2>2, <2>3, Zenon
<1>6. \A e, bits : Level4!InMemory(e, bits) = Reader4!InMemory(e, bits)
  BY ONLY <1>1, <1>3, <1>5 DEF Level4!InMemory, Reader4!InMemory
<1>7. \A e, buf, off : Level4!ReadScalar(e, buf, off) = Reader4!ReadScalar(e, buf, off)
  BY ONLY <1>4, <1>6, Zenon DEF Level4!ReadScalar, Reader4!ReadScalar
<1>8. \A e, n, buf, off : Level4!ReadScalars(e, n, buf, off) = Reader4!ReadScalars(e, n, buf, off)
  BY ONLY <1>7 DEF Level4!ReadScalars, Reader4!ReadScalars
<1> QED
  BY ONLY <1>1, <1>2, <1>4, <1>7, <1>8

(* The elements of an array, one after the other. *)
LEMMA FourthElementsReadAlike ==
  /\ \A at, w, v : Level4!Got(at, w, v) = Reader4!Got(at, w, v)
  /\ \A at, error : Level4!Bad(at, error) = Reader4!Bad(at, error)
  /\ \A e, buf, at : Level4!ReadNested(e, buf, at) = Reader4!ReadNested(e, buf, at)
  /\ \A e, n, buf, at : Level4!ReadArray(e, n, buf, at) = Reader4!ReadArray(e, n, buf, at)
<1>1. /\ \A at, w, v : Level4!Got(at, w, v) = Reader4!Got(at, w, v)
      /\ \A at, error : Level4!Bad(at, error) = Reader4!Bad(at, error)
      /\ \A size, rest : Level4!Beyond(size, rest) = Reader4!Beyond(size, rest)
  BY Zenon DEF Level4!Got, Reader4!Got, Level4!Bad, Reader4!Bad, Level4!Beyond, Reader4!Beyond
<1>2. \A at, off, size, nested : Level4!GotNested(at, off, size, nested) = Reader4!GotNested(at, off, size, nested)
  BY ONLY <1>1 DEF Level4!GotNested, Reader4!GotNested
<1>3. \A t, buf, off, at : Level4!ReadSealed(t, buf, off, at) = Reader4!ReadSealed(t, buf, off, at)
  BY ONLY <1>2 DEF Level4!ReadSealed, Reader4!ReadSealed
<1>4. \A t, buf, off, size, at : Level4!ReadDelimited(t, buf, off, size, at) = Reader4!ReadDelimited(t, buf, off, size, at)
  BY ONLY <1>1, <1>2, FourthNumbersReadAlike DEF Level4!ReadDelimited, Reader4!ReadDelimited
<1>5. \A buf, off : Level4!SizeInHeader(buf, off) = Reader4!SizeInHeader(buf, off)
  BY ONLY FourthNumbersReadAlike DEF Level4!SizeInHeader, Reader4!SizeInHeader
<1>6. \A e, buf, at : Level4!ReadNested(e, buf, at) = Reader4!ReadNested(e, buf, at)
  BY ONLY <1>3, <1>4, <1>5, FourthNumbersReadAlike DEF Level4!ReadNested, Reader4!ReadNested
<1>7. ASSUME NEW e, NEW n, NEW buf, NEW at
      PROVE  Level4!ReadArray(e, n, buf, at) = Reader4!ReadArray(e, n, buf, at)
  <2> DEFINE F(f) == [k \in 0..n |-> IF k = 0 THEN [at EXCEPT !.obj = <<>>]
                  ELSE IF f[k - 1].err = "SUCCESS" THEN Level4!ReadNested(e, buf, f[k - 1]) ELSE f[k - 1]]
             G(f) == [k \in 0..n |-> IF k = 0 THEN [at EXCEPT !.obj = <<>>]
                  ELSE IF f[k - 1].err = "SUCCESS" THEN Reader4!ReadNested(e, buf, f[k - 1]) ELSE f[k - 1]]
             Whole(left) == [left EXCEPT !.obj = Append(at.obj, @)]
  <2>1. \A f : F(f) = G(f)
    BY ONLY <1>6
  <2>2. Level4!ReadArray(e, n, buf, at) = IF Level4!Scalar(e) THEN Level4!Got(at, n * e.width, Level4!ReadScalars(e, n, buf, at.off))
                                       ELSE Whole((CHOOSE f : f = F(f))[n])
    BY ONLY Zenon DEF Level4!ReadArray, Level4!InTurn
  <2>3. Reader4!ReadArray(e, n, buf, at) = IF Reader4!Scalar(e) THEN Reader4!Got(at, n * e.width, Reader4!ReadScalars(e, n, buf, at.off))
                                       ELSE Whole((CHOOSE f : f = G(f))[n])
    BY ONLY Zenon DEF Reader4!ReadArray, Reader4!InTurn
  <2> HIDE DEF F, G, Whole
  <2>4. (CHOOSE f : f = F(f)) = (CHOOSE f : f = G(f))
    BY ONLY <2>1, Zenon
  <2>5. /\ Level4!Got(at, n * e.width, Level4!ReadScalars(e, n, buf, at.off))
             = Reader4!Got(at, n * e.width, Reader4!ReadScalars(e, n, buf, at.off))
        /\ Level4!Scalar(e) = Reader4!Scalar(e)
    BY ONLY <1>1, FourthNumbersReadAlike
  <2> QED
    BY ONLY <2>2, <2>3, <2>4, <2>5, Zenon
<1> QED
  BY ONLY <1>1, <1>6, <1>7

(* X_deserialize_ of the fourth level. *)
LEMMA FourthReaderAlike == \A t, buf : Level4!Deserialized(t, buf) = Reader4!Deserialized(t, buf)
<1>1. /\ \A e : Level4!PrefixWidth(e) = Reader4!PrefixWidth(e)
      /\ \A n, capacity : Level4!Overfull(n, capacity) = Reader4!Overfull(n, capacity)
      /\ \A t, tag : Level4!Present(t, tag) = Reader4!Present(t, tag)
      /\ Level4!Start = Reader4!Start
  BY Zenon
  DEF Level4!PrefixWidth, Reader4!PrefixWidth, Level4!LengthWidth,
      Reader4!LengthWidth, Level4!Overfull, Reader4!Overfull, Level4!Present,
      Reader4!Present, Level4!Start, Reader4!Start
<1>2. \A e, n, buf, at : Level4!ReadCounted(e, n, buf, at) = Reader4!ReadCounted(e, n, buf, at)
  BY ONLY <1>1, FourthElementsReadAlike DEF Level4!ReadCounted, Reader4!ReadCounted
<1>3. \A e, buf, off : Level4!CountRead(e, buf, off) = Reader4!CountRead(e, buf, off)
  BY ONLY <1>1, FourthNumbersReadAlike DEF Level4!CountRead, Reader4!CountRead
<1>4. \A e, buf, at : Level4!Read(e, buf, at) = Reader4!Read(e, buf, at)
  BY ONLY <1>2, <1>3, FourthNumbersReadAlike, FourthElementsReadAlike DEF Level4!Read, Reader4!Read
<1>5. ASSUME NEW t, NEW tag, NEW buf
      PROVE  Level4!ReadMembers(t, tag, buf) = Reader4!ReadMembers(t, tag, buf)
  <2> DEFINE n == Len(Level4!Present(t, tag))
             Begin(start) == [start EXCEPT !.off = IF t.kind = "union" THEN 8 ELSE 0]
             F(f) == [k \in 0..n |-> IF k = 0 THEN Begin(Level4!Start)
                  ELSE IF f[k - 1].err = "SUCCESS" THEN Level4!Read(Level4!Present(t, tag)[k], buf, f[k - 1]) ELSE f[k - 1]]
             G(f) == [k \in 0..Len(Reader4!Present(t, tag)) |-> IF k = 0 THEN Begin(Reader4!Start)
                  ELSE IF f[k - 1].err = "SUCCESS" THEN Reader4!Read(Reader4!Present(t, tag)[k], buf, f[k - 1]) ELSE f[k - 1]]
             NoOption == t.kind = "union" /\ tag \notin DOMAIN t.members
  <2>1. Level4!ReadMembers(t, tag, buf) =
          IF NoOption THEN Level4!Bad(Level4!Start, "BAD_UNION_TAG") ELSE (CHOOSE f : f = F(f))[n]
    BY ONLY Zenon DEF Level4!ReadMembers, Level4!InTurn
  <2>2. Reader4!ReadMembers(t, tag, buf) =
          IF NoOption THEN Reader4!Bad(Reader4!Start, "BAD_UNION_TAG") ELSE (CHOOSE f : f = G(f))[Len(Reader4!Present(t, tag))]
    BY ONLY Zenon DEF Reader4!ReadMembers, Reader4!InTurn
  <2>3. n = Len(Reader4!Present(t, tag)) /\ Level4!Bad(Level4!Start, "BAD_UNION_TAG") = Reader4!Bad(Reader4!Start, "BAD_UNION_TAG")
    BY ONLY <1>1, FourthElementsReadAlike
  <2> HIDE DEF n, Begin, NoOption
  <2>4. \A f : F(f) = G(f)
    BY ONLY <1>1, <1>4, <2>3
  <2> HIDE DEF F, G
  <2>5. (CHOOSE f : f = F(f)) = (CHOOSE f : f = G(f))
    BY ONLY <2>4, Zenon
  <2> QED
    BY ONLY <2>1, <2>2, <2>3, <2>5, Zenon
<1>6. \A t, tag, buf, at : Level4!Result(t, tag, buf, at) = Reader4!Result(t, tag, buf, at)
  BY ONLY FourthNumbersReadAlike DEF Level4!Result, Reader4!Result
<1>7. \A buf : Level4!TagRead(buf) = Reader4!TagRead(buf)
  BY ONLY FourthNumbersReadAlike DEF Level4!TagRead, Reader4!TagRead
<1> QED
  BY ONLY <1>5, <1>6, <1>7 DEF Level4!Deserialized, Reader4!Deserialized
-----------------------------------------------------------------------------
(* The types of the fifth level, *)
Level5 == INSTANCE TypeProofs WITH
  NestedSerialize <- Writer4!Serialized, NestedDeserialize <- Reader4!Deserialized,
  NestedSchema <- Schema4!Schema, NestedLargest <- Schema4!Largest, NestedExact <- Schema4!Exact,
  NestedObject <- Objects4!Object, NestedSurvives <- Objects4!Survives, NestedFilled <- Objects4!Filled

(* of which it holds if it holds of those of the level below. *)
LEMMA FifthLevel ==
  ASSUME Level4!NestedWrites, Level4!NestedReads, Level4!NestedFills, Level4!NestedRounds,
         Level4!NestedAgain, Level4!NestedShort
  PROVE  /\ Level5!NestedWrites /\ Level5!NestedReads /\ Level5!NestedFills /\ Level5!NestedRounds
         /\ Level5!NestedAgain /\ Level5!NestedShort
<1>1. /\ Level5!MaxSize = Level4!MaxSize /\ Level5!Buffers = Level4!Buffers
      /\ Level5!WriteErrors = Level4!WriteErrors /\ Level5!ReadErrors = Level4!ReadErrors
      /\ Level5!Pattern = Level4!Pattern /\ Level5!Fillings = Level4!Fillings
      /\ \A buf : Level5!AllZero(buf) = Level4!AllZero(buf)
      /\ \A buf, long : Level5!Padded(buf, long) = Level4!Padded(buf, long)
      /\ \A one, other, len : Level5!SameRead(one, other, len) = Level4!SameRead(one, other, len)
  BY DEF Level5!MaxSize, Level4!MaxSize, Level5!Buffers, Level4!Buffers,
         Level5!WriteErrors, Level4!WriteErrors, Level5!ReadErrors, Level4!ReadErrors,
         Level5!Pattern, Level4!Pattern, Level5!Fillings, Level4!Fillings,
         Level5!AllZero, Level4!AllZero, Level5!Padded, Level4!Padded,
         Level5!SameRead, Level4!SameRead, Level5!Near, Level4!Near
<1>2. /\ Level4!Writes /\ Level4!Reads /\ Level4!Fills /\ Level4!Rounds /\ Level4!Again /\ Level4!Short
  BY Level4!SerializedWrites, Level4!DeserializedReads, Level4!FilledIsObject, Level4!SerializedIsRead,
     Level4!SurvivorIsWrittenAlike, Level4!ShortIsZeros
<1>3. Level5!NestedWrites
  BY ONLY <1>1, <1>2, FourthSchemasAlike, FourthObjectsAlike, FourthWriterAlike
  DEF Level5!NestedWrites, Level4!Writes
<1>4. Level5!NestedReads
  BY ONLY <1>1, <1>2, FourthSchemasAlike, FourthObjectsAlike, FourthWriterAlike, FourthReaderAlike
  DEF Level5!NestedReads, Level4!Reads
<1>5. Level5!NestedFills
  BY ONLY <1>1, <1>2, FourthSchemasAlike, FourthObjectsAlike
  DEF Level5!NestedFills, Level4!Fills
<1>6. Level5!NestedRounds
  BY ONLY <1>1, <1>2, FourthSchemasAlike, FourthObjectsAlike, FourthSurvivorsAlike, FourthWriterAlike, FourthReaderAlike
  DEF Level5!NestedRounds, Level4!Rounds
<1>7. Level5!NestedAgain
  BY ONLY <1>1, <1>2, FourthSchemasAlike, FourthObjectsAlike, FourthSurvivorsAlike, FourthWriterAlike
  DEF Level5!NestedAgain, Level4!Again
<1>8. Level5!NestedShort
  BY ONLY <1>1, <1>2, FourthSchemasAlike, FourthReaderAlike
  DEF Level5!NestedShort, Level4!Short
<1> QED
  BY ONLY <1>3, <1>4, <1>5, <1>6, <1>7, <1>8

(* What a type of the fifth level is, and how large its objects are. *)
LEMMA FifthSchemasAlike ==
  /\ \A t : Level5!Schema(t) = Schema5!Schema(t)
  /\ \A t : Level5!Largest(t) = Schema5!Largest(t)
  /\ \A t : Level5!Exact(t) = Schema5!Exact(t)
<1>1. \A t : Level5!Schema(t) = Schema5!Schema(t)
  BY SMTT(60)
  DEF Level5!Schema, Schema5!Schema, Level5!Member, Schema5!Member,
         Level5!Element, Schema5!Element, Level5!Halves, Schema5!Halves,
         Level5!Float, Schema5!Float, Level5!Numbers, Schema5!Numbers,
         Level5!Composite, Schema5!Composite, Level5!Array, Schema5!Array,
         Level5!MaxSize, Schema5!MaxSize
<1>2. \A t : Level5!Largest(t) = Schema5!Largest(t)
  BY Zenon
  DEF Level5!Largest, Schema5!Largest, Level5!Align, Schema5!Align,
         Level5!MemberEnd, Schema5!MemberEnd, Level5!PrefixWidth, Schema5!PrefixWidth,
         Level5!LengthWidth, Schema5!LengthWidth, Level5!Array, Schema5!Array,
         Level5!ElementBegin, Schema5!ElementBegin, Level5!Scalar, Schema5!Scalar,
         Level5!ElementLargest, Schema5!ElementLargest
<1>3. \A t : Level5!Exact(t) = Schema5!Exact(t)
  BY Zenon
  DEF Level5!Exact, Schema5!Exact, Level5!ExactMember, Schema5!ExactMember,
         Level5!Array, Schema5!Array, Level5!ExactElement, Schema5!ExactElement,
         Level5!Numbers, Schema5!Numbers, Level5!Scalar, Schema5!Scalar,
         Level5!Composite, Schema5!Composite
<1> QED
  BY ONLY <1>1, <1>2, <1>3

(* What its objects are. *)
LEMMA FifthObjectsAlike ==
  /\ \A t, v : Level5!Object(t, v) = Objects5!Object(t, v)
  /\ \A t, p, filling, o : Level5!Filled(t, p, filling, o) = Objects5!Filled(t, p, filling, o)
<1>1. /\ \A e : Level5!Scalar(e) = Objects5!Scalar(e) /\ Level5!Array(e) = Objects5!Array(e)
      /\ \A e : Level5!Composite(e) = Objects5!Composite(e)
      /\ \A s : Level5!Sequence(s) = Objects5!Sequence(s)
      /\ \A t, tag : Level5!Present(t, tag) = Objects5!Present(t, tag)
      /\ \A t, v : Level5!Values(t, v) = Objects5!Values(t, v)
  BY Zenon
  DEF Level5!Scalar, Objects5!Scalar, Level5!Array, Objects5!Array,
         Level5!Composite, Objects5!Composite, Level5!Sequence, Objects5!Sequence,
         Level5!Present, Objects5!Present, Level5!Values, Objects5!Values
<1>2. \A e : Level5!MemoryWidth(e) = Objects5!MemoryWidth(e)
  BY Zenon
  DEF Level5!MemoryWidth, Objects5!MemoryWidth
<1>3. \A e : Level5!InC(e) = Objects5!InC(e)
  BY ONLY <1>2, Zenon
  DEF Level5!InC, Objects5!InC
<1>4. \A e, v : Level5!ElementObject(e, v) = Objects5!ElementObject(e, v)
  BY ONLY <1>1, <1>3
  DEF Level5!ElementObject, Objects5!ElementObject
<1>5. \A e, v : Level5!MemberObject(e, v) = Objects5!MemberObject(e, v)
  BY ONLY <1>1, <1>4
  DEF Level5!MemberObject, Objects5!MemberObject
<1>6. \A t, v : Level5!Object(t, v) = Objects5!Object(t, v)
  BY ONLY <1>1, <1>5
  DEF Level5!Object, Objects5!Object
<1>7. /\ \A p, k : Level5!Turned(p, k) = Objects5!Turned(p, k)
      /\ \A p, w : Level5!Bits(p, w) = Objects5!Bits(p, w)
      /\ \A filling, capacity : Level5!Count(filling, capacity) = Objects5!Count(filling, capacity)
  BY Zenon
  DEF Level5!Turned, Objects5!Turned, Level5!Bits, Objects5!Bits,
         Level5!Count, Objects5!Count
<1>8. \A e, p, filling, o : Level5!ElementFilled(e, p, filling, o) = Objects5!ElementFilled(e, p, filling, o)
  BY ONLY <1>1, <1>2, <1>7
  DEF Level5!ElementFilled, Objects5!ElementFilled
<1>9. ASSUME NEW e, NEW p, NEW filling, NEW o
      PROVE  Level5!MemberFilled(e, p, filling, o) = Objects5!MemberFilled(e, p, filling, o)
  <2> DEFINE n == IF e.kind = "fixed" THEN e.capacity ELSE Level5!Count(filling, e.capacity)
             elements == [k \in 1..n |-> Level5!ElementFilled(e.of, Level5!Turned(p, k - 1), filling, o)]
  <2>1. n = IF e.kind = "fixed" THEN e.capacity ELSE Objects5!Count(filling, e.capacity)
    BY ONLY <1>7
  <2> HIDE DEF n
  <2>2. elements = [k \in 1..n |-> Objects5!ElementFilled(e.of, Objects5!Turned(p, k - 1), filling, o)]
    BY ONLY <1>7, <1>8
  <2>3. Level5!MemberFilled(e, p, filling, o) =
          CASE e.kind = "void" -> <<>> [] Level5!Array(e) -> elements
            [] OTHER -> Level5!ElementFilled(e, p, filling, o)
    BY ONLY Zenon DEF Level5!MemberFilled, n
  <2>4. Objects5!MemberFilled(e, p, filling, o) =
          CASE e.kind = "void" -> <<>> [] Objects5!Array(e) -> elements
            [] OTHER -> Objects5!ElementFilled(e, p, filling, o)
    BY ONLY <2>1, <2>2, Zenon DEF Objects5!MemberFilled
  <2> HIDE DEF elements
  <2> QED
    BY ONLY <1>1, <1>8, <2>3, <2>4
<1>10. \A t, p, filling, o : Level5!Filled(t, p, filling, o) = Objects5!Filled(t, p, filling, o)
  BY ONLY <1>7, <1>9
  DEF Level5!Filled, Objects5!Filled
<1> QED
  BY ONLY <1>6, <1>10

(* When one of them is what another was. *)
LEMMA FifthSurvivorsAlike ==
  \A t, v, w : Level5!Survives(t, v, w) = Objects5!Survives(t, v, w)
<1>1. /\ \A e : Level5!Scalar(e) = Objects5!Scalar(e) /\ Level5!Array(e) = Objects5!Array(e)
      /\ \A e : Level5!Composite(e) = Objects5!Composite(e)
      /\ \A t, tag : Level5!Present(t, tag) = Objects5!Present(t, tag)
      /\ \A t, v : Level5!Values(t, v) = Objects5!Values(t, v)
      /\ \A n, w : Level5!BitsOf(n, w) = Objects5!BitsOf(n, w)
  BY Zenon
  DEF Level5!Scalar, Objects5!Scalar, Level5!Array, Objects5!Array,
         Level5!Composite, Objects5!Composite, Level5!Present, Objects5!Present,
         Level5!Values, Objects5!Values, Level5!BitsOf, Objects5!BitsOf
<1>2. \A bits : Level5!NumberOf(bits) = Objects5!NumberOf(bits)
  BY Zenon
  DEF Level5!NumberOf, Objects5!NumberOf
<1>3. ASSUME NEW half
      PROVE  Level5!Unpacked(half) = Objects5!Unpacked(half)
  <2> DEFINE Top(m) == CHOOSE k \in 0..10 : 2^k <= m /\ m < 2^(k + 1)
             Magnitude(e, m) ==
               CASE e \in 1..30 -> (e + 112) * 2^23 + m * 2^13
                 [] e = 31      -> 255 * 2^23 + m * 2^13
                 [] OTHER -> IF m = 0 THEN 0 ELSE (103 + Top(m)) * 2^23 + (m - 2^Top(m)) * 2^(23 - Top(m))
             e1 == Level5!NumberOf(SubSeq(half, 11, 15))
             m1 == Level5!NumberOf(SubSeq(half, 1, 10))
             e2 == Objects5!NumberOf(SubSeq(half, 11, 15))
             m2 == Objects5!NumberOf(SubSeq(half, 1, 10))
  <2>1. Level5!Unpacked(half) = Level5!BitsOf(Magnitude(e1, m1), 31) \o <<half[16]>>
    BY ONLY DEF Level5!Unpacked
  <2>2. Objects5!Unpacked(half) = Objects5!BitsOf(Magnitude(e2, m2), 31) \o <<half[16]>>
    BY ONLY DEF Objects5!Unpacked
  <2>3. e1 = e2 /\ m1 = m2
    BY ONLY <1>2
  <2> HIDE DEF Magnitude, e1, m1, e2, m2
  <2> QED
    BY ONLY <1>1, <2>1, <2>2, <2>3, Zenon
<1>4. ASSUME NEW float, NEW half
      PROVE  Level5!NearestHalf(float, half) = Objects5!NearestHalf(float, half)
  <2> DEFINE Whole(n) == [half EXCEPT ![32] = n]
             One(n) == Level5!Unpacked(Level5!BitsOf(n, 16))
             Other(n) == Objects5!Unpacked(Objects5!BitsOf(n, 16))
             Multiple == CHOOSE n \in 0..1024 : One(n) = Whole(0)
             MultipleToo == CHOOSE n \in 0..1024 : Other(n) = Whole(0)
             Largest1 == 142 * 2^23 + 1023 * 2^13
             Apart(f, m) == 2 * m * 2^(126 - (f \div 2^23)) - 2 * ((f % 2^23) + 2^23)
             Near1(f, h, m) ==
               /\ half[32] = float[32]
               /\ CASE f > 255 * 2^23 -> h > 255 * 2^23
                    [] f \div 2^23 = 255 /\ ~(f > 255 * 2^23) -> h = 255 * 2^23
                    [] f \div 2^23 < 255 /\ f >= Largest1 -> h = Largest1
                    [] f \div 2^23 \in 113..142 /\ f < Largest1 -> h - f \in -4096..4096
                    [] f \div 2^23 \in 102..112 -> Apart(f, m) \in (-(2^(126 - (f \div 2^23))))..2^(126 - (f \div 2^23))
                    [] f \div 2^23 < 102 -> h = 0
             f1 == Level5!NumberOf(SubSeq(float, 1, 31))
             h1 == Level5!NumberOf(SubSeq(half, 1, 31))
             f2 == Objects5!NumberOf(SubSeq(float, 1, 31))
             h2 == Objects5!NumberOf(SubSeq(half, 1, 31))
  <2>1. Level5!NearestHalf(float, half) = Near1(f1, h1, Multiple)
    BY ONLY Zenon DEF Level5!NearestHalf
  <2>2. Objects5!NearestHalf(float, half) = Near1(f2, h2, MultipleToo)
    BY ONLY Zenon DEF Objects5!NearestHalf
  <2>3. f1 = f2 /\ h1 = h2
    BY ONLY <1>2
  <2>4. \A n : One(n) = Other(n)
    BY ONLY <1>1, <1>3, Zenon
  <2> HIDE DEF Near1, f1, f2, h1, h2, One, Other, Whole
  <2>5. Multiple = MultipleToo
    BY ONLY <2>4, Zenon
  <2> HIDE DEF Multiple, MultipleToo
  <2> QED
    BY ONLY <2>1, <2>2, <2>3, <2>5, Zenon
<1>5. \A e, v, w : Level5!SurvivesScalar(e, v, w) = Objects5!SurvivesScalar(e, v, w)
  BY ONLY <1>4, Zenon
  DEF Level5!SurvivesScalar, Objects5!SurvivesScalar
<1>6. \A e, v, w : Level5!ElementSurvives(e, v, w) = Objects5!ElementSurvives(e, v, w)
  BY ONLY <1>1, <1>5
  DEF Level5!ElementSurvives, Objects5!ElementSurvives
<1>7. \A e, v, w : Level5!MemberSurvives(e, v, w) = Objects5!MemberSurvives(e, v, w)
  BY ONLY <1>1, <1>6
  DEF Level5!MemberSurvives, Objects5!MemberSurvives
<1> QED
  BY ONLY <1>1, <1>7
  DEF Level5!Survives, Objects5!Survives

(* Numbers of the fifth level on the wire. *)
LEMMA FifthBitsAlike ==
  /\ \A n : Level5!Zeros(n) = Writer5!Zeros(n)
  /\ \A n, w : Level5!BitsOf(n, w) = Writer5!BitsOf(n, w)
  /\ \A e : Level5!Scalar(e) = Writer5!Scalar(e)
  /\ \A e, v : Level5!OnWire(e, v) = Writer5!OnWire(e, v)
  /\ \A e, v : Level5!ArrayOnWire(e, v) = Writer5!ArrayOnWire(e, v)
<1>1. /\ \A n : Level5!Zeros(n) = Writer5!Zeros(n) /\ Level5!Ones(n) = Writer5!Ones(n)
      /\ \A n, w : Level5!BitsOf(n, w) = Writer5!BitsOf(n, w)
      /\ \A e : Level5!Scalar(e) = Writer5!Scalar(e)
      /\ \A one, other : Level5!Lesser(one, other) = Writer5!Lesser(one, other)
  BY Zenon
  DEF Level5!Zeros, Writer5!Zeros, Level5!Ones, Writer5!Ones, Level5!BitsOf,
      Writer5!BitsOf, Level5!Scalar, Writer5!Scalar, Level5!Lesser, Writer5!Lesser
<1>2. \A bits : Level5!NumberOf(bits) = Writer5!NumberOf(bits)
  BY Zenon DEF Level5!NumberOf, Writer5!NumberOf
<1>3. \A m, n : Level5!Shifted(m, n) = Writer5!Shifted(m, n)
  BY Zenon DEF Level5!Shifted, Writer5!Shifted
<1>4. ASSUME NEW v
      PROVE  Level5!Half(v) = Writer5!Half(v)
  <2> DEFINE Small(m) == 2^23 + (m \div 4096) * 4096
             Down(e) == 113 - e
             Sum(e, m, down) ==
               (IF e > 112 THEN (e - 112) * 2^23 + (m \div 4096) * 4096 ELSE IF e = 0 THEN 0 ELSE down) + 4096
             Most == 31 * 2^23
             Packed(e, m, sum) ==
               IF e < 255 THEN sum \div 2^13 ELSE IF m = 0 THEN 31 * 2^10 ELSE 63 * 2^9
             e1 == Level5!NumberOf(SubSeq(v, 24, 31))
             m1 == Level5!NumberOf(SubSeq(v, 1, 23))
             e2 == Writer5!NumberOf(SubSeq(v, 24, 31))
             m2 == Writer5!NumberOf(SubSeq(v, 1, 23))
  <2>1. Level5!Half(v) = Level5!BitsOf(Packed(e1, m1, Level5!Lesser(Sum(e1, m1, Level5!Shifted(Small(m1), Down(e1))), Most)), 15)
                      \o <<v[32]>>
    BY ONLY DEF Level5!Half
  <2>2. Writer5!Half(v) = Writer5!BitsOf(Packed(e2, m2, Writer5!Lesser(Sum(e2, m2, Writer5!Shifted(Small(m2), Down(e2))), Most)), 15)
                      \o <<v[32]>>
    BY ONLY DEF Writer5!Half
  <2>3. e1 = e2 /\ m1 = m2
    BY ONLY <1>2
  <2> HIDE DEF Small, Down, Sum, Most, Packed, e1, m1, e2, m2
  <2>4. Level5!Lesser(Sum(e1, m1, Level5!Shifted(Small(m1), Down(e1))), Most)
          = Writer5!Lesser(Sum(e2, m2, Writer5!Shifted(Small(m2), Down(e2))), Most)
    BY ONLY <1>1, <1>3, <2>3, Zenon
  <2> QED
    BY ONLY <1>1, <2>1, <2>2, <2>3, <2>4, Zenon
<1>5. \A v : Level5!Saturated(v) = Writer5!Saturated(v)
  BY <1>1, <1>2 DEF Level5!Saturated, Writer5!Saturated
<1>6. \A e, v : Level5!OnWire(e, v) = Writer5!OnWire(e, v)
  BY <1>1, <1>4, <1>5, Zenon DEF Level5!OnWire, Writer5!OnWire
<1>7. \A e, v : Level5!ArrayOnWire(e, v) = Writer5!ArrayOnWire(e, v)
  BY <1>6 DEF Level5!ArrayOnWire, Writer5!ArrayOnWire
<1> QED
  BY ONLY <1>1, <1>6, <1>7

(* What is written into the buffer. *)
LEMMA FifthOutAlike ==
  /\ \A at, bits : Level5!Put(at, bits) = Writer5!Put(at, bits)
  /\ \A at, error : Level5!Fail(at, error) = Writer5!Fail(at, error)
  /\ \A at : Level5!PutAligned(at) = Writer5!PutAligned(at)
  /\ Level5!Blank = Writer5!Blank
<1>1. /\ \A at, bits : Level5!Put(at, bits) = Writer5!Put(at, bits)
      /\ \A at, error : Level5!Fail(at, error) = Writer5!Fail(at, error)
      /\ Level5!Blank = Writer5!Blank
  BY Zenon DEF Level5!Put, Writer5!Put, Level5!Fail, Writer5!Fail, Level5!Blank, Writer5!Blank
<1>2. \A off : Level5!Align(off) = Writer5!Align(off)
  BY Zenon DEF Level5!Align, Writer5!Align
<1>3. \A at : Level5!PutAligned(at) = Writer5!PutAligned(at)
  BY ONLY <1>1, <1>2, FifthBitsAlike, Zenon DEF Level5!PutAligned, Writer5!PutAligned
<1> QED
  BY ONLY <1>1, <1>3

(* The elements of an array, one after the other. *)
LEMMA FifthElementsWrittenAlike ==
  /\ \A e : Level5!Composite(e) = Writer5!Composite(e) /\ Level5!Array(e) = Writer5!Array(e)
  /\ \A e : Level5!PrefixWidth(e) = Writer5!PrefixWidth(e)
  /\ \A m, capacity : Level5!TooMany(m, capacity) = Writer5!TooMany(m, capacity)
  /\ \A e, val, at : Level5!WriteNested(e, val, at) = Writer5!WriteNested(e, val, at)
  /\ \A e, val, at : Level5!WriteArray(e, val, at) = Writer5!WriteArray(e, val, at)
<1>1. /\ \A e : Level5!Composite(e) = Writer5!Composite(e) /\ Level5!Array(e) = Writer5!Array(e)
      /\ \A e : Level5!PrefixWidth(e) = Writer5!PrefixWidth(e)
      /\ \A m, capacity : Level5!TooMany(m, capacity) = Writer5!TooMany(m, capacity)
  BY Zenon
  DEF Level5!Composite, Writer5!Composite, Level5!Array, Writer5!Array,
      Level5!PrefixWidth, Writer5!PrefixWidth, Level5!LengthWidth,
      Writer5!LengthWidth, Level5!TooMany, Writer5!TooMany
<1>2. \A e, val, at : Level5!WriteNested(e, val, at) = Writer5!WriteNested(e, val, at)
  BY ONLY <1>1, FifthBitsAlike, FifthOutAlike DEF Level5!WriteNested, Writer5!WriteNested
<1>3. ASSUME NEW e, NEW val, NEW at
      PROVE  Level5!WriteArray(e, val, at) = Writer5!WriteArray(e, val, at)
  <2> DEFINE F(f) == [k \in 0..Len(val) |-> IF k = 0 THEN at
                  ELSE IF f[k - 1].err = "SUCCESS" THEN Level5!WriteNested(e, val[k], f[k - 1]) ELSE f[k - 1]]
             G(f) == [k \in 0..Len(val) |-> IF k = 0 THEN at
                  ELSE IF f[k - 1].err = "SUCCESS" THEN Writer5!WriteNested(e, val[k], f[k - 1]) ELSE f[k - 1]]
  <2>1. \A f : F(f) = G(f)
    BY ONLY <1>2
  <2>2. Level5!WriteArray(e, val, at) = IF Level5!Scalar(e) THEN Level5!Put(at, Level5!ArrayOnWire(e, val))
                                     ELSE (CHOOSE f : f = F(f))[Len(val)]
    BY ONLY Zenon DEF Level5!WriteArray, Level5!InTurn
  <2>3. Writer5!WriteArray(e, val, at) = IF Writer5!Scalar(e) THEN Writer5!Put(at, Writer5!ArrayOnWire(e, val))
                                     ELSE (CHOOSE f : f = G(f))[Len(val)]
    BY ONLY Zenon DEF Writer5!WriteArray, Writer5!InTurn
  <2> HIDE DEF F, G
  <2>4. (CHOOSE f : f = F(f)) = (CHOOSE f : f = G(f))
    BY ONLY <2>1, Zenon
  <2>5. Level5!Put(at, Level5!ArrayOnWire(e, val)) = Writer5!Put(at, Writer5!ArrayOnWire(e, val))
        /\ Level5!Scalar(e) = Writer5!Scalar(e)
    BY ONLY FifthBitsAlike, FifthOutAlike
  <2> QED
    BY ONLY <2>2, <2>3, <2>4, <2>5, Zenon
<1> QED
  BY ONLY <1>1, <1>2, <1>3

(* X_serialize_ of the fifth level. *)
LEMMA FifthWriterAlike == \A t, v : Level5!Serialized(t, v) = Writer5!Serialized(t, v)
<1>1. \A e, v, at : Level5!Write(e, v, at) = Writer5!Write(e, v, at)
  BY ONLY FifthBitsAlike, FifthOutAlike, FifthElementsWrittenAlike DEF Level5!Write, Writer5!Write
<1>2. /\ \A t, tag : Level5!Present(t, tag) = Writer5!Present(t, tag)
      /\ \A t, v : Level5!Values(t, v) = Writer5!Values(t, v)
  BY Zenon DEF Level5!Present, Writer5!Present, Level5!Values, Writer5!Values
<1>3. ASSUME NEW t, NEW tag, NEW v
      PROVE  Level5!WriteMembers(t, tag, v) = Writer5!WriteMembers(t, tag, v)
  <2> DEFINE n == Len(Level5!Present(t, tag))
             first == IF t.kind = "union" THEN Level5!Put(Level5!Blank, Level5!BitsOf(tag - 1, 8)) ELSE Level5!Blank
  <2>1. /\ n = Len(Writer5!Present(t, tag))
        /\ first = IF t.kind = "union" THEN Writer5!Put(Writer5!Blank, Writer5!BitsOf(tag - 1, 8)) ELSE Writer5!Blank
    BY ONLY <1>2, FifthBitsAlike, FifthOutAlike
  <2> HIDE DEF n, first
  <2> DEFINE F(f) == [k \in 0..n |-> IF k = 0 THEN first
                  ELSE IF f[k - 1].err = "SUCCESS" THEN Level5!Write(Level5!Present(t, tag)[k], v[k], f[k - 1]) ELSE f[k - 1]]
             G(f) == [k \in 0..n |-> IF k = 0 THEN first
                  ELSE IF f[k - 1].err = "SUCCESS" THEN Writer5!Write(Writer5!Present(t, tag)[k], v[k], f[k - 1]) ELSE f[k - 1]]
  <2>2. \A f : F(f) = G(f)
    BY ONLY <1>1, <1>2
  <2>3. Level5!WriteMembers(t, tag, v) = (CHOOSE f : f = F(f))[n]
    BY ONLY Zenon DEF Level5!WriteMembers, Level5!InTurn, n, first
  <2>4. Writer5!WriteMembers(t, tag, v) = (CHOOSE f : f = G(f))[n]
    BY ONLY <2>1, Zenon DEF Writer5!WriteMembers, Writer5!InTurn
  <2> HIDE DEF F, G
  <2>5. (CHOOSE f : f = F(f)) = (CHOOSE f : f = G(f))
    BY ONLY <2>2, Zenon
  <2> QED
    BY ONLY <2>3, <2>4, <2>5, Zenon
<1> QED
  BY ONLY <1>2, <1>3, FifthOutAlike, Zenon DEF Level5!Serialized, Writer5!Serialized

(* Numbers of the fifth level in memory. *)
LEMMA FifthNumbersReadAlike ==
  /\ \A e : Level5!Scalar(e) = Reader5!Scalar(e) /\ Level5!Array(e) = Reader5!Array(e)
  /\ \A bits : Level5!NumberOf(bits) = Reader5!NumberOf(bits)
  /\ \A one, other : Level5!Lesser(one, other) = Reader5!Lesser(one, other)
  /\ \A off : Level5!Align(off) = Reader5!Align(off)
  /\ \A buf, off, w : Level5!Taken(buf, off, w) = Reader5!Taken(buf, off, w)
  /\ \A e, buf, off : Level5!ReadScalar(e, buf, off) = Reader5!ReadScalar(e, buf, off)
  /\ \A e, n, buf, off : Level5!ReadScalars(e, n, buf, off) = Reader5!ReadScalars(e, n, buf, off)
<1>1. /\ \A n : Level5!Zeros(n) = Reader5!Zeros(n)
      /\ \A n, w : Level5!BitsOf(n, w) = Reader5!BitsOf(n, w)
      /\ \A e : Level5!Scalar(e) = Reader5!Scalar(e) /\ Level5!Array(e) = Reader5!Array(e)
      /\ \A one, other : Level5!Lesser(one, other) = Reader5!Lesser(one, other)
      /\ \A off : Level5!Align(off) = Reader5!Align(off)
  BY Zenon
  DEF Level5!Zeros, Reader5!Zeros, Level5!BitsOf, Reader5!BitsOf, Level5!Scalar,
      Reader5!Scalar, Level5!Array, Reader5!Array, Level5!Lesser, Reader5!Lesser,
      Level5!Align, Reader5!Align
<1>2. \A bits : Level5!NumberOf(bits) = Reader5!NumberOf(bits)
  BY Zenon DEF Level5!NumberOf, Reader5!NumberOf
<1>3. \A e : Level5!MemoryWidth(e) = Reader5!MemoryWidth(e)
  BY Zenon DEF Level5!MemoryWidth, Reader5!MemoryWidth
<1>4. \A buf, off, w : Level5!Taken(buf, off, w) = Reader5!Taken(buf, off, w)
  BY ONLY <1>1, Zenon DEF Level5!Taken, Reader5!Taken
<1>5. ASSUME NEW half
      PROVE  Level5!Unpacked(half) = Reader5!Unpacked(half)
  <2> DEFINE Top(m) == CHOOSE k \in 0..10 : 2^k <= m /\ m < 2^(k + 1)
             Magnitude(e, m) ==
               CASE e \in 1..30 -> (e + 112) * 2^23 + m * 2^13
                 [] e = 31      -> 255 * 2^23 + m * 2^13
                 [] OTHER -> IF m = 0 THEN 0 ELSE (103 + Top(m)) * 2^23 + (m - 2^Top(m)) * 2^(23 - Top(m))
             e1 == Level5!NumberOf(SubSeq(half, 11, 15))
             m1 == Level5!NumberOf(SubSeq(half, 1, 10))
             e2 == Reader5!NumberOf(SubSeq(half, 11, 15))
             m2 == Reader5!NumberOf(SubSeq(half, 1, 10))
  <2>1. Level5!Unpacked(half) = Level5!BitsOf(Magnitude(e1, m1), 31) \o <<half[16]>>
    BY ONLY DEF Level5!Unpacked
  <2>2. Reader5!Unpacked(half) = Reader5!BitsOf(Magnitude(e2, m2), 31) \o <<half[16]>>
    BY ONLY DEF Reader5!Unpacked
  <2>3. e1 = e2 /\ m1 = m2
    BY ONLY <1>2
  <2> HIDE DEF Magnitude, e1, m1, e2, m2
  <2> QED
    BY ONLY <1>1, <2>1, <2>2, <2>3, Zenon
<1>6. \A e, bits : Level5!InMemory(e, bits) = Reader5!InMemory(e, bits)
  BY ONLY <1>1, <1>3, <1>5 DEF Level5!InMemory, Reader5!InMemory
<1>7. \A e, buf, off : Level5!ReadScalar(e, buf, off) = Reader5!ReadScalar(e, buf, off)
  BY ONLY <1>4, <1>6, Zenon DEF Level5!ReadScalar, Reader5!ReadScalar
<1>8. \A e, n, buf, off : Level5!ReadScalars(e, n, buf, off) = Reader5!ReadScalars(e, n, buf, off)
  BY ONLY <1>7 DEF Level5!ReadScalars, Reader5!ReadScalars
<1> QED
  BY ONLY <1>1, <1>2, <1>4, <1>7, <1>8

(* The elements of an array, one after the other. *)
LEMMA FifthElementsReadAlike ==
  /\ \A at, w, v : Level5!Got(at, w, v) = Reader5!Got(at, w, v)
  /\ \A at, error : Level5!Bad(at, error) = Reader5!Bad(at, error)
  /\ \A e, buf, at : Level5!ReadNested(e, buf, at) = Reader5!ReadNested(e, buf, at)
  /\ \A e, n, buf, at : Level5!ReadArray(e, n, buf, at) = Reader5!ReadArray(e, n, buf, at)
<1>1. /\ \A at, w, v : Level5!Got(at, w, v) = Reader5!Got(at, w, v)
      /\ \A at, error : Level5!Bad(at, error) = Reader5!Bad(at, error)
      /\ \A size, rest : Level5!Beyond(size, rest) = Reader5!Beyond(size, rest)
  BY Zenon DEF Level5!Got, Reader5!Got, Level5!Bad, Reader5!Bad, Level5!Beyond, Reader5!Beyond
<1>2. \A at, off, size, nested : Level5!GotNested(at, off, size, nested) = Reader5!GotNested(at, off, size, nested)
  BY ONLY <1>1 DEF Level5!GotNested, Reader5!GotNested
<1>3. \A t, buf, off, at : Level5!ReadSealed(t, buf, off, at) = Reader5!ReadSealed(t, buf, off, at)
  BY ONLY <1>2 DEF Level5!ReadSealed, Reader5!ReadSealed
<1>4. \A t, buf, off, size, at : Level5!ReadDelimited(t, buf, off, size, at) = Reader5!ReadDelimited(t, buf, off, size, at)
  BY ONLY <1>1, <1>2, FifthNumbersReadAlike DEF Level5!ReadDelimited, Reader5!ReadDelimited
<1>5. \A buf, off : Level5!SizeInHeader(buf, off) = Reader5!SizeInHeader(buf, off)
  BY ONLY FifthNumbersReadAlike DEF Level5!SizeInHeader, Reader5!SizeInHeader
<1>6. \A e, buf, at : Level5!ReadNested(e, buf, at) = Reader5!ReadNested(e, buf, at)
  BY ONLY <1>3, <1>4, <1>5, FifthNumbersReadAlike DEF Level5!ReadNested, Reader5!ReadNested
<1>7. ASSUME NEW e, NEW n, NEW buf, NEW at
      PROVE  Level5!ReadArray(e, n, buf, at) = Reader5!ReadArray(e, n, buf, at)
  <2> DEFINE F(f) == [k \in 0..n |-> IF k = 0 THEN [at EXCEPT !.obj = <<>>]
                  ELSE IF f[k - 1].err = "SUCCESS" THEN Level5!ReadNested(e, buf, f[k - 1]) ELSE f[k - 1]]
             G(f) == [k \in 0..n |-> IF k = 0 THEN [at EXCEPT !.obj = <<>>]
                  ELSE IF f[k - 1].err = "SUCCESS" THEN Reader5!ReadNested(e, buf, f[k - 1]) ELSE f[k - 1]]
             Whole(left) == [left EXCEPT !.obj = Append(at.obj, @)]
  <2>1. \A f : F(f) = G(f)
    BY ONLY <1>6
  <2>2. Level5!ReadArray(e, n, buf, at) = IF Level5!Scalar(e) THEN Level5!Got(at, n * e.width, Level5!ReadScalars(e, n, buf, at.off))
                                       ELSE Whole((CHOOSE f : f = F(f))[n])
    BY ONLY Zenon DEF Level5!ReadArray, Level5!InTurn
  <2>3. Reader5!ReadArray(e, n, buf, at) = IF Reader5!Scalar(e) THEN Reader5!Got(at, n * e.width, Reader5!ReadScalars(e, n, buf, at.off))
                                       ELSE Whole((CHOOSE f : f = G(f))[n])
    BY ONLY Zenon DEF Reader5!ReadArray, Reader5!InTurn
  <2> HIDE DEF F, G, Whole
  <2>4. (CHOOSE f : f = F(f)) = (CHOOSE f : f = G(f))
    BY ONLY <2>1, Zenon
  <2>5. /\ Level5!Got(at, n * e.width, Level5!ReadScalars(e, n, buf, at.off))
             = Reader5!Got(at, n * e.width, Reader5!ReadScalars(e, n, buf, at.off))
        /\ Level5!Scalar(e) = Reader5!Scalar(e)
    BY ONLY <1>1, FifthNumbersReadAlike
  <2> QED
    BY ONLY <2>2, <2>3, <2>4, <2>5, Zenon
<1> QED
  BY ONLY <1>1, <1>6, <1>7

(* X_deserialize_ of the fifth level. *)
LEMMA FifthReaderAlike == \A t, buf : Level5!Deserialized(t, buf) = Reader5!Deserialized(t, buf)
<1>1. /\ \A e : Level5!PrefixWidth(e) = Reader5!PrefixWidth(e)
      /\ \A n, capacity : Level5!Overfull(n, capacity) = Reader5!Overfull(n, capacity)
      /\ \A t, tag : Level5!Present(t, tag) = Reader5!Present(t, tag)
      /\ Level5!Start = Reader5!Start
  BY Zenon
  DEF Level5!PrefixWidth, Reader5!PrefixWidth, Level5!LengthWidth,
      Reader5!LengthWidth, Level5!Overfull, Reader5!Overfull, Level5!Present,
      Reader5!Present, Level5!Start, Reader5!Start
<1>2. \A e, n, buf, at : Level5!ReadCounted(e, n, buf, at) = Reader5!ReadCounted(e, n, buf, at)
  BY ONLY <1>1, FifthElementsReadAlike DEF Level5!ReadCounted, Reader5!ReadCounted
<1>3. \A e, buf, off : Level5!CountRead(e, buf, off) = Reader5!CountRead(e, buf, off)
  BY ONLY <1>1, FifthNumbersReadAlike DEF Level5!CountRead, Reader5!CountRead
<1>4. \A e, buf, at : Level5!Read(e, buf, at) = Reader5!Read(e, buf, at)
  BY ONLY <1>2, <1>3, FifthNumbersReadAlike, FifthElementsReadAlike DEF Level5!Read, Reader5!Read
<1>5. ASSUME NEW t, NEW tag, NEW buf
      PROVE  Level5!ReadMembers(t, tag, buf) = Reader5!ReadMembers(t, tag, buf)
  <2> DEFINE n == Len(Level5!Present(t, tag))
             Begin(start) == [start EXCEPT !.off = IF t.kind = "union" THEN 8 ELSE 0]
             F(f) == [k \in 0..n |-> IF k = 0 THEN Begin(Level5!Start)
                  ELSE IF f[k - 1].err = "SUCCESS" THEN Level5!Read(Level5!Present(t, tag)[k], buf, f[k - 1]) ELSE f[k - 1]]
             G(f) == [k \in 0..Len(Reader5!Present(t, tag)) |-> IF k = 0 THEN Begin(Reader5!Start)
                  ELSE IF f[k - 1].err = "SUCCESS" THEN Reader5!Read(Reader5!Present(t, tag)[k], buf, f[k - 1]) ELSE f[k - 1]]
             NoOption == t.kind = "union" /\ tag \notin DOMAIN t.members
  <2>1. Level5!ReadMembers(t, tag, buf) =
          IF NoOption THEN Level5!Bad(Level5!Start, "BAD_UNION_TAG") ELSE (CHOOSE f : f = F(f))[n]
    BY ONLY Zenon DEF Level5!ReadMembers, Level5!InTurn
  <2>2. Reader5!ReadMembers(t, tag, buf) =
          IF NoOption THEN Reader5!Bad(Reader5!Start, "BAD_UNION_TAG") ELSE (CHOOSE f : f = G(f))[Len(Reader5!Present(t, tag))]
    BY ONLY Zenon DEF Reader5!ReadMembers, Reader5!InTurn
  <2>3. n = Len(Reader5!Present(t, tag)) /\ Level5!Bad(Level5!Start, "BAD_UNION_TAG") = Reader5!Bad(Reader5!Start, "BAD_UNION_TAG")
    BY ONLY <1>1, FifthElementsReadAlike
  <2> HIDE DEF n, Begin, NoOption
  <2>4. \A f : F(f) = G(f)
    BY ONLY <1>1, <1>4, <2>3
  <2> HIDE DEF F, G
  <2>5. (CHOOSE f : f = F(f)) = (CHOOSE f : f = G(f))
    BY ONLY <2>4, Zenon
  <2> QED
    BY ONLY <2>1, <2>2, <2>3, <2>5, Zenon
<1>6. \A t, tag, buf, at : Level5!Result(t, tag, buf, at) = Reader5!Result(t, tag, buf, at)
  BY ONLY FifthNumbersReadAlike DEF Level5!Result, Reader5!Result
<1>7. \A buf : Level5!TagRead(buf) = Reader5!TagRead(buf)
  BY ONLY FifthNumbersReadAlike DEF Level5!TagRead, Reader5!TagRead
<1> QED
  BY ONLY <1>5, <1>6, <1>7 DEF Level5!Deserialized, Reader5!Deserialized
-----------------------------------------------------------------------------
(* The types of the sixth level, *)
Level6 == INSTANCE TypeProofs WITH
  NestedSerialize <- Writer5!Serialized, NestedDeserialize <- Reader5!Deserialized,
  NestedSchema <- Schema5!Schema, NestedLargest <- Schema5!Largest, NestedExact <- Schema5!Exact,
  NestedObject <- Objects5!Object, NestedSurvives <- Objects5!Survives, NestedFilled <- Objects5!Filled

(* of which it holds if it holds of those of the level below. *)
LEMMA SixthLevel ==
  ASSUME Level5!NestedWrites, Level5!NestedReads, Level5!NestedFills, Level5!NestedRounds,
         Level5!NestedAgain, Level5!NestedShort
  PROVE  /\ Level6!NestedWrites /\ Level6!NestedReads /\ Level6!NestedFills /\ Level6!NestedRounds
         /\ Level6!NestedAgain /\ Level6!NestedShort
<1>1. /\ Level6!MaxSize = Level5!MaxSize /\ Level6!Buffers = Level5!Buffers
      /\ Level6!WriteErrors = Level5!WriteErrors /\ Level6!ReadErrors = Level5!ReadErrors
      /\ Level6!Pattern = Level5!Pattern /\ Level6!Fillings = Level5!Fillings
      /\ \A buf : Level6!AllZero(buf) = Level5!AllZero(buf)
      /\ \A buf, long : Level6!Padded(buf, long) = Level5!Padded(buf, long)
      /\ \A one, other, len : Level6!SameRead(one, other, len) = Level5!SameRead(one, other, len)
  BY DEF Level6!MaxSize, Level5!MaxSize, Level6!Buffers, Level5!Buffers,
         Level6!WriteErrors, Level5!WriteErrors, Level6!ReadErrors, Level5!ReadErrors,
         Level6!Pattern, Level5!Pattern, Level6!Fillings, Level5!Fillings,
         Level6!AllZero, Level5!AllZero, Level6!Padded, Level5!Padded,
         Level6!SameRead, Level5!SameRead, Level6!Near, Level5!Near
<1>2. /\ Level5!Writes /\ Level5!Reads /\ Level5!Fills /\ Level5!Rounds /\ Level5!Again /\ Level5!Short
  BY Level5!SerializedWrites, Level5!DeserializedReads, Level5!FilledIsObject, Level5!SerializedIsRead,
     Level5!SurvivorIsWrittenAlike, Level5!ShortIsZeros
<1>3. Level6!NestedWrites
  BY ONLY <1>1, <1>2, FifthSchemasAlike, FifthObjectsAlike, FifthWriterAlike
  DEF Level6!NestedWrites, Level5!Writes
<1>4. Level6!NestedReads
  BY ONLY <1>1, <1>2, FifthSchemasAlike, FifthObjectsAlike, FifthWriterAlike, FifthReaderAlike
  DEF Level6!NestedReads, Level5!Reads
<1>5. Level6!NestedFills
  BY ONLY <1>1, <1>2, FifthSchemasAlike, FifthObjectsAlike
  DEF Level6!NestedFills, Level5!Fills
<1>6. Level6!NestedRounds
  BY ONLY <1>1, <1>2, FifthSchemasAlike, FifthObjectsAlike, FifthSurvivorsAlike, FifthWriterAlike, FifthReaderAlike
  DEF Level6!NestedRounds, Level5!Rounds
<1>7. Level6!NestedAgain
  BY ONLY <1>1, <1>2, FifthSchemasAlike, FifthObjectsAlike, FifthSurvivorsAlike, FifthWriterAlike
  DEF Level6!NestedAgain, Level5!Again
<1>8. Level6!NestedShort
  BY ONLY <1>1, <1>2, FifthSchemasAlike, FifthReaderAlike
  DEF Level6!NestedShort, Level5!Short
<1> QED
  BY ONLY <1>3, <1>4, <1>5, <1>6, <1>7, <1>8

(* What a type of the sixth level is, and how large its objects are. *)
LEMMA SixthSchemasAlike ==
  /\ \A t : Level6!Schema(t) = Schema6!Schema(t)
  /\ \A t : Level6!Largest(t) = Schema6!Largest(t)
  /\ \A t : Level6!Exact(t) = Schema6!Exact(t)
<1>1. \A t : Level6!Schema(t) = Schema6!Schema(t)
  BY SMTT(60)
  DEF Level6!Schema, Schema6!Schema, Level6!Member, Schema6!Member,
         Level6!Element, Schema6!Element, Level6!Halves, Schema6!Halves,
         Level6!Float, Schema6!Float, Level6!Numbers, Schema6!Numbers,
         Level6!Composite, Schema6!Composite, Level6!Array, Schema6!Array,
         Level6!MaxSize, Schema6!MaxSize
<1>2. \A t : Level6!Largest(t) = Schema6!Largest(t)
  BY Zenon
  DEF Level6!Largest, Schema6!Largest, Level6!Align, Schema6!Align,
         Level6!MemberEnd, Schema6!MemberEnd, Level6!PrefixWidth, Schema6!PrefixWidth,
         Level6!LengthWidth, Schema6!LengthWidth, Level6!Array, Schema6!Array,
         Level6!ElementBegin, Schema6!ElementBegin, Level6!Scalar, Schema6!Scalar,
         Level6!ElementLargest, Schema6!ElementLargest
<1>3. \A t : Level6!Exact(t) = Schema6!Exact(t)
  BY Zenon
  DEF Level6!Exact, Schema6!Exact, Level6!ExactMember, Schema6!ExactMember,
         Level6!Array, Schema6!Array, Level6!ExactElement, Schema6!ExactElement,
         Level6!Numbers, Schema6!Numbers, Level6!Scalar, Schema6!Scalar,
         Level6!Composite, Schema6!Composite
<1> QED
  BY ONLY <1>1, <1>2, <1>3

(* What its objects are. *)
LEMMA SixthObjectsAlike ==
  /\ \A t, v : Level6!Object(t, v) = Objects6!Object(t, v)
  /\ \A t, p, filling, o : Level6!Filled(t, p, filling, o) = Objects6!Filled(t, p, filling, o)
<1>1. /\ \A e : Level6!Scalar(e) = Objects6!Scalar(e) /\ Level6!Array(e) = Objects6!Array(e)
      /\ \A e : Level6!Composite(e) = Objects6!Composite(e)
      /\ \A s : Level6!Sequence(s) = Objects6!Sequence(s)
      /\ \A t, tag : Level6!Present(t, tag) = Objects6!Present(t, tag)
      /\ \A t, v : Level6!Values(t, v) = Objects6!Values(t, v)
  BY Zenon
  DEF Level6!Scalar, Objects6!Scalar, Level6!Array, Objects6!Array,
         Level6!Composite, Objects6!Composite, Level6!Sequence, Objects6!Sequence,
         Level6!Present, Objects6!Present, Level6!Values, Objects6!Values
<1>2. \A e : Level6!MemoryWidth(e) = Objects6!MemoryWidth(e)
  BY Zenon
  DEF Level6!MemoryWidth, Objects6!MemoryWidth
<1>3. \A e : Level6!InC(e) = Objects6!InC(e)
  BY ONLY <1>2, Zenon
  DEF Level6!InC, Objects6!InC
<1>4. \A e, v : Level6!ElementObject(e, v) = Objects6!ElementObject(e, v)
  BY ONLY <1>1, <1>3
  DEF Level6!ElementObject, Objects6!ElementObject
<1>5. \A e, v : Level6!MemberObject(e, v) = Objects6!MemberObject(e, v)
  BY ONLY <1>1, <1>4
  DEF Level6!MemberObject, Objects6!MemberObject
<1>6. \A t, v : Level6!Object(t, v) = Objects6!Object(t, v)
  BY ONLY <1>1, <1>5
  DEF Level6!Object, Objects6!Object
<1>7. /\ \A p, k : Level6!Turned(p, k) = Objects6!Turned(p, k)
      /\ \A p, w : Level6!Bits(p, w) = Objects6!Bits(p, w)
      /\ \A filling, capacity : Level6!Count(filling, capacity) = Objects6!Count(filling, capacity)
  BY Zenon
  DEF Level6!Turned, Objects6!Turned, Level6!Bits, Objects6!Bits,
         Level6!Count, Objects6!Count
<1>8. \A e, p, filling, o : Level6!ElementFilled(e, p, filling, o) = Objects6!ElementFilled(e, p, filling, o)
  BY ONLY <1>1, <1>2, <1>7
  DEF Level6!ElementFilled, Objects6!ElementFilled
<1>9. ASSUME NEW e, NEW p, NEW filling, NEW o
      PROVE  Level6!MemberFilled(e, p, filling, o) = Objects6!MemberFilled(e, p, filling, o)
  <2> DEFINE n == IF e.kind = "fixed" THEN e.capacity ELSE Level6!Count(filling, e.capacity)
             elements == [k \in 1..n |-> Level6!ElementFilled(e.of, Level6!Turned(p, k - 1), filling, o)]
  <2>1. n = IF e.kind = "fixed" THEN e.capacity ELSE Objects6!Count(filling, e.capacity)
    BY ONLY <1>7
  <2> HIDE DEF n
  <2>2. elements = [k \in 1..n |-> Objects6!ElementFilled(e.of, Objects6!Turned(p, k - 1), filling, o)]
    BY ONLY <1>7, <1>8
  <2>3. Level6!MemberFilled(e, p, filling, o) =
          CASE e.kind = "void" -> <<>> [] Level6!Array(e) -> elements
            [] OTHER -> Level6!ElementFilled(e, p, filling, o)
    BY ONLY Zenon DEF Level6!MemberFilled, n
  <2>4. Objects6!MemberFilled(e, p, filling, o) =
          CASE e.kind = "void" -> <<>> [] Objects6!Array(e) -> elements
            [] OTHER -> Objects6!ElementFilled(e, p, filling, o)
    BY ONLY <2>1, <2>2, Zenon DEF Objects6!MemberFilled
  <2> HIDE DEF elements
  <2> QED
    BY ONLY <1>1, <1>8, <2>3, <2>4
<1>10. \A t, p, filling, o : Level6!Filled(t, p, filling, o) = Objects6!Filled(t, p, filling, o)
  BY ONLY <1>7, <1>9
  DEF Level6!Filled, Objects6!Filled
<1> QED
  BY ONLY <1>6, <1>10

(* When one of them is what another was. *)
LEMMA SixthSurvivorsAlike ==
  \A t, v, w : Level6!Survives(t, v, w) = Objects6!Survives(t, v, w)
<1>1. /\ \A e : Level6!Scalar(e) = Objects6!Scalar(e) /\ Level6!Array(e) = Objects6!Array(e)
      /\ \A e : Level6!Composite(e) = Objects6!Composite(e)
      /\ \A t, tag : Level6!Present(t, tag) = Objects6!Present(t, tag)
      /\ \A t, v : Level6!Values(t, v) = Objects6!Values(t, v)
      /\ \A n, w : Level6!BitsOf(n, w) = Objects6!BitsOf(n, w)
  BY Zenon
  DEF Level6!Scalar, Objects6!Scalar, Level6!Array, Objects6!Array,
         Level6!Composite, Objects6!Composite, Level6!Present, Objects6!Present,
         Level6!Values, Objects6!Values, Level6!BitsOf, Objects6!BitsOf
<1>2. \A bits : Level6!NumberOf(bits) = Objects6!NumberOf(bits)
  BY Zenon
  DEF Level6!NumberOf, Objects6!NumberOf
<1>3. ASSUME NEW half
      PROVE  Level6!Unpacked(half) = Objects6!Unpacked(half)
  <2> DEFINE Top(m) == CHOOSE k \in 0..10 : 2^k <= m /\ m < 2^(k + 1)
             Magnitude(e, m) ==
               CASE e \in 1..30 -> (e + 112) * 2^23 + m * 2^13
                 [] e = 31      -> 255 * 2^23 + m * 2^13
                 [] OTHER -> IF m = 0 THEN 0 ELSE (103 + Top(m)) * 2^23 + (m - 2^Top(m)) * 2^(23 - Top(m))
             e1 == Level6!NumberOf(SubSeq(half, 11, 15))
             m1 == Level6!NumberOf(SubSeq(half, 1, 10))
             e2 == Objects6!NumberOf(SubSeq(half, 11, 15))
             m2 == Objects6!NumberOf(SubSeq(half, 1, 10))
  <2>1. Level6!Unpacked(half) = Level6!BitsOf(Magnitude(e1, m1), 31) \o <<half[16]>>
    BY ONLY DEF Level6!Unpacked
  <2>2. Objects6!Unpacked(half) = Objects6!BitsOf(Magnitude(e2, m2), 31) \o <<half[16]>>
    BY ONLY DEF Objects6!Unpacked
  <2>3. e1 = e2 /\ m1 = m2
    BY ONLY <1>2
  <2> HIDE DEF Magnitude, e1, m1, e2, m2
  <2> QED
    BY ONLY <1>1, <2>1, <2>2, <2>3, Zenon
<1>4. ASSUME NEW float, NEW half
      PROVE  Level6!NearestHalf(float, half) = Objects6!NearestHalf(float, half)
  <2> DEFINE Whole(n) == [half EXCEPT ![32] = n]
             One(n) == Level6!Unpacked(Level6!BitsOf(n, 16))
             Other(n) == Objects6!Unpacked(Objects6!BitsOf(n, 16))
             Multiple == CHOOSE n \in 0..1024 : One(n) = Whole(0)
             MultipleToo == CHOOSE n \in 0..1024 : Other(n) = Whole(0)
             Largest1 == 142 * 2^23 + 1023 * 2^13
             Apart(f, m) == 2 * m * 2^(126 - (f \div 2^23)) - 2 * ((f % 2^23) + 2^23)
             Near1(f, h, m) ==
               /\ half[32] = float[32]
               /\ CASE f > 255 * 2^23 -> h > 255 * 2^23
                    [] f \div 2^23 = 255 /\ ~(f > 255 * 2^23) -> h = 255 * 2^23
                    [] f \div 2^23 < 255 /\ f >= Largest1 -> h = Largest1
                    [] f \div 2^23 \in 113..142 /\ f < Largest1 -> h - f \in -4096..4096
                    [] f \div 2^23 \in 102..112 -> Apart(f, m) \in (-(2^(126 - (f \div 2^23))))..2^(126 - (f \div 2^23))
                    [] f \div 2^23 < 102 -> h = 0
             f1 == Level6!NumberOf(SubSeq(float, 1, 31))
             h1 == Level6!NumberOf(SubSeq(half, 1, 31))
             f2 == Objects6!NumberOf(SubSeq(float, 1, 31))
             h2 == Objects6!NumberOf(SubSeq(half, 1, 31))
  <2>1. Level6!NearestHalf(float, half) = Near1(f1, h1, Multiple)
    BY ONLY Zenon DEF Level6!NearestHalf
  <2>2. Objects6!NearestHalf(float, half) = Near1(f2, h2, MultipleToo)
    BY ONLY Zenon DEF Objects6!NearestHalf
  <2>3. f1 = f2 /\ h1 = h2
    BY ONLY <1>2
  <2>4. \A n : One(n) = Other(n)
    BY ONLY <1>1, <1>3, Zenon
  <2> HIDE DEF Near1, f1, f2, h1, h2, One, Other, Whole
  <2>5. Multiple = MultipleToo
    BY ONLY <2>4, Zenon
  <2> HIDE DEF Multiple, MultipleToo
  <2> QED
    BY ONLY <2>1, <2>2, <2>3, <2>5, Zenon
<1>5. \A e, v, w : Level6!SurvivesScalar(e, v, w) = Objects6!SurvivesScalar(e, v, w)
  BY ONLY <1>4, Zenon
  DEF Level6!SurvivesScalar, Objects6!SurvivesScalar
<1>6. \A e, v, w : Level6!ElementSurvives(e, v, w) = Objects6!ElementSurvives(e, v, w)
  BY ONLY <1>1, <1>5
  DEF Level6!ElementSurvives, Objects6!ElementSurvives
<1>7. \A e, v, w : Level6!MemberSurvives(e, v, w) = Objects6!MemberSurvives(e, v, w)
  BY ONLY <1>1, <1>6
  DEF Level6!MemberSurvives, Objects6!MemberSurvives
<1> QED
  BY ONLY <1>1, <1>7
  DEF Level6!Survives, Objects6!Survives

(* Numbers of the sixth level on the wire. *)
LEMMA SixthBitsAlike ==
  /\ \A n : Level6!Zeros(n) = Writer6!Zeros(n)
  /\ \A n, w : Level6!BitsOf(n, w) = Writer6!BitsOf(n, w)
  /\ \A e : Level6!Scalar(e) = Writer6!Scalar(e)
  /\ \A e, v : Level6!OnWire(e, v) = Writer6!OnWire(e, v)
  /\ \A e, v : Level6!ArrayOnWire(e, v) = Writer6!ArrayOnWire(e, v)
<1>1. /\ \A n : Level6!Zeros(n) = Writer6!Zeros(n) /\ Level6!Ones(n) = Writer6!Ones(n)
      /\ \A n, w : Level6!BitsOf(n, w) = Writer6!BitsOf(n, w)
      /\ \A e : Level6!Scalar(e) = Writer6!Scalar(e)
      /\ \A one, other : Level6!Lesser(one, other) = Writer6!Lesser(one, other)
  BY Zenon
  DEF Level6!Zeros, Writer6!Zeros, Level6!Ones, Writer6!Ones, Level6!BitsOf,
      Writer6!BitsOf, Level6!Scalar, Writer6!Scalar, Level6!Lesser, Writer6!Lesser
<1>2. \A bits : Level6!NumberOf(bits) = Writer6!NumberOf(bits)
  BY Zenon DEF Level6!NumberOf, Writer6!NumberOf
<1>3. \A m, n : Level6!Shifted(m, n) = Writer6!Shifted(m, n)
  BY Zenon DEF Level6!Shifted, Writer6!Shifted
<1>4. ASSUME NEW v
      PROVE  Level6!Half(v) = Writer6!Half(v)
  <2> DEFINE Small(m) == 2^23 + (m \div 4096) * 4096
             Down(e) == 113 - e
             Sum(e, m, down) ==
               (IF e > 112 THEN (e - 112) * 2^23 + (m \div 4096) * 4096 ELSE IF e = 0 THEN 0 ELSE down) + 4096
             Most == 31 * 2^23
             Packed(e, m, sum) ==
               IF e < 255 THEN sum \div 2^13 ELSE IF m = 0 THEN 31 * 2^10 ELSE 63 * 2^9
             e1 == Level6!NumberOf(SubSeq(v, 24, 31))
             m1 == Level6!NumberOf(SubSeq(v, 1, 23))
             e2 == Writer6!NumberOf(SubSeq(v, 24, 31))
             m2 == Writer6!NumberOf(SubSeq(v, 1, 23))
  <2>1. Level6!Half(v) = Level6!BitsOf(Packed(e1, m1, Level6!Lesser(Sum(e1, m1, Level6!Shifted(Small(m1), Down(e1))), Most)), 15)
                      \o <<v[32]>>
    BY ONLY DEF Level6!Half
  <2>2. Writer6!Half(v) = Writer6!BitsOf(Packed(e2, m2, Writer6!Lesser(Sum(e2, m2, Writer6!Shifted(Small(m2), Down(e2))), Most)), 15)
                      \o <<v[32]>>
    BY ONLY DEF Writer6!Half
  <2>3. e1 = e2 /\ m1 = m2
    BY ONLY <1>2
  <2> HIDE DEF Small, Down, Sum, Most, Packed, e1, m1, e2, m2
  <2>4. Level6!Lesser(Sum(e1, m1, Level6!Shifted(Small(m1), Down(e1))), Most)
          = Writer6!Lesser(Sum(e2, m2, Writer6!Shifted(Small(m2), Down(e2))), Most)
    BY ONLY <1>1, <1>3, <2>3, Zenon
  <2> QED
    BY ONLY <1>1, <2>1, <2>2, <2>3, <2>4, Zenon
<1>5. \A v : Level6!Saturated(v) = Writer6!Saturated(v)
  BY <1>1, <1>2 DEF Level6!Saturated, Writer6!Saturated
<1>6. \A e, v : Level6!OnWire(e, v) = Writer6!OnWire(e, v)
  BY <1>1, <1>4, <1>5, Zenon DEF Level6!OnWire, Writer6!OnWire
<1>7. \A e, v : Level6!ArrayOnWire(e, v) = Writer6!ArrayOnWire(e, v)
  BY <1>6 DEF Level6!ArrayOnWire, Writer6!ArrayOnWire
<1> QED
  BY ONLY <1>1, <1>6, <1>7

(* What is written into the buffer. *)
LEMMA SixthOutAlike ==
  /\ \A at, bits : Level6!Put(at, bits) = Writer6!Put(at, bits)
  /\ \A at, error : Level6!Fail(at, error) = Writer6!Fail(at, error)
  /\ \A at : Level6!PutAligned(at) = Writer6!PutAligned(at)
  /\ Level6!Blank = Writer6!Blank
<1>1. /\ \A at, bits : Level6!Put(at, bits) = Writer6!Put(at, bits)
      /\ \A at, error : Level6!Fail(at, error) = Writer6!Fail(at, error)
      /\ Level6!Blank = Writer6!Blank
  BY Zenon DEF Level6!Put, Writer6!Put, Level6!Fail, Writer6!Fail, Level6!Blank, Writer6!Blank
<1>2. \A off : Level6!Align(off) = Writer6!Align(off)
  BY Zenon DEF Level6!Align, Writer6!Align
<1>3. \A at : Level6!PutAligned(at) = Writer6!PutAligned(at)
  BY ONLY <1>1, <1>2, SixthBitsAlike, Zenon DEF Level6!PutAligned, Writer6!PutAligned
<1> QED
  BY ONLY <1>1, <1>3

(* The elements of an array, one after the other. *)
LEMMA SixthElementsWrittenAlike ==
  /\ \A e : Level6!Composite(e) = Writer6!Composite(e) /\ Level6!Array(e) = Writer6!Array(e)
  /\ \A e : Level6!PrefixWidth(e) = Writer6!PrefixWidth(e)
  /\ \A m, capacity : Level6!TooMany(m, capacity) = Writer6!TooMany(m, capacity)
  /\ \A e, val, at : Level6!WriteNested(e, val, at) = Writer6!WriteNested(e, val, at)
  /\ \A e, val, at : Level6!WriteArray(e, val, at) = Writer6!WriteArray(e, val, at)
<1>1. /\ \A e : Level6!Composite(e) = Writer6!Composite(e) /\ Level6!Array(e) = Writer6!Array(e)
      /\ \A e : Level6!PrefixWidth(e) = Writer6!PrefixWidth(e)
      /\ \A m, capacity : Level6!TooMany(m, capacity) = Writer6!TooMany(m, capacity)
  BY Zenon
  DEF Level6!Composite, Writer6!Composite, Level6!Array, Writer6!Array,
      Level6!PrefixWidth, Writer6!PrefixWidth, Level6!LengthWidth,
      Writer6!LengthWidth, Level6!TooMany, Writer6!TooMany
<1>2. \A e, val, at : Level6!WriteNested(e, val, at) = Writer6!WriteNested(e, val, at)
  BY ONLY <1>1, SixthBitsAlike, SixthOutAlike DEF Level6!WriteNested, Writer6!WriteNested
<1>3. ASSUME NEW e, NEW val, NEW at
      PROVE  Level6!WriteArray(e, val, at) = Writer6!WriteArray(e, val, at)
  <2> DEFINE F(f) == [k \in 0..Len(val) |-> IF k = 0 THEN at
                  ELSE IF f[k - 1].err = "SUCCESS" THEN Level6!WriteNested(e, val[k], f[k - 1]) ELSE f[k - 1]]
             G(f) == [k \in 0..Len(val) |-> IF k = 0 THEN at
                  ELSE IF f[k - 1].err = "SUCCESS" THEN Writer6!WriteNested(e, val[k], f[k - 1]) ELSE f[k - 1]]
  <2>1. \A f : F(f) = G(f)
    BY ONLY <1>2
  <2>2. Level6!WriteArray(e, val, at) = IF Level6!Scalar(e) THEN Level6!Put(at, Level6!ArrayOnWire(e, val))
                                     ELSE (CHOOSE f : f = F(f))[Len(val)]
    BY ONLY Zenon DEF Level6!WriteArray, Level6!InTurn
  <2>3. Writer6!WriteArray(e, val, at) = IF Writer6!Scalar(e) THEN Writer6!Put(at, Writer6!ArrayOnWire(e, val))
                                     ELSE (CHOOSE f : f = G(f))[Len(val)]
    BY ONLY Zenon DEF Writer6!WriteArray, Writer6!InTurn
  <2> HIDE DEF F, G
  <2>4. (CHOOSE f : f = F(f)) = (CHOOSE f : f = G(f))
    BY ONLY <2>1, Zenon
  <2>5. Level6!Put(at, Level6!ArrayOnWire(e, val)) = Writer6!Put(at, Writer6!ArrayOnWire(e, val))
        /\ Level6!Scalar(e) = Writer6!Scalar(e)
    BY ONLY SixthBitsAlike, SixthOutAlike
  <2> QED
    BY ONLY <2>2, <2>3, <2>4, <2>5, Zenon
<1> QED
  BY ONLY <1>1, <1>2, <1>3

(* X_serialize_ of the sixth level. *)
LEMMA SixthWriterAlike == \A t, v : Level6!Serialized(t, v) = Writer6!Serialized(t, v)
<1>1. \A e, v, at : Level6!Write(e, v, at) = Writer6!Write(e, v, at)
  BY ONLY SixthBitsAlike, SixthOutAlike, SixthElementsWrittenAlike DEF Level6!Write, Writer6!Write
<1>2. /\ \A t, tag : Level6!Present(t, tag) = Writer6!Present(t, tag)
      /\ \A t, v : Level6!Values(t, v) = Writer6!Values(t, v)
  BY Zenon DEF Level6!Present, Writer6!Present, Level6!Values, Writer6!Values
<1>3. ASSUME NEW t, NEW tag, NEW v
      PROVE  Level6!WriteMembers(t, tag, v) = Writer6!WriteMembers(t, tag, v)
  <2> DEFINE n == Len(Level6!Present(t, tag))
             first == IF t.kind = "union" THEN Level6!Put(Level6!Blank, Level6!BitsOf(tag - 1, 8)) ELSE Level6!Blank
  <2>1. /\ n = Len(Writer6!Present(t, tag))
        /\ first = IF t.kind = "union" THEN Writer6!Put(Writer6!Blank, Writer6!BitsOf(tag - 1, 8)) ELSE Writer6!Blank
    BY ONLY <1>2, SixthBitsAlike, SixthOutAlike
  <2> HIDE DEF n, first
  <2> DEFINE F(f) == [k \in 0..n |-> IF k = 0 THEN first
                  ELSE IF f[k - 1].err = "SUCCESS" THEN Level6!Write(Level6!Present(t, tag)[k], v[k], f[k - 1]) ELSE f[k - 1]]
             G(f) == [k \in 0..n |-> IF k = 0 THEN first
                  ELSE IF f[k - 1].err = "SUCCESS" THEN Writer6!Write(Writer6!Present(t, tag)[k], v[k], f[k - 1]) ELSE f[k - 1]]
  <2>2. \A f : F(f) = G(f)
    BY ONLY <1>1, <1>2
  <2>3. Level6!WriteMembers(t, tag, v) = (CHOOSE f : f = F(f))[n]
    BY ONLY Zenon DEF Level6!WriteMembers, Level6!InTurn, n, first
  <2>4. Writer6!WriteMembers(t, tag, v) = (CHOOSE f : f = G(f))[n]
    BY ONLY <2>1, Zenon DEF Writer6!WriteMembers, Writer6!InTurn
  <2> HIDE DEF F, G
  <2>5. (CHOOSE f : f = F(f)) = (CHOOSE f : f = G(f))
    BY ONLY <2>2, Zenon
  <2> QED
    BY ONLY <2>3, <2>4, <2>5, Zenon
<1> QED
  BY ONLY <1>2, <1>3, SixthOutAlike, Zenon DEF Level6!Serialized, Writer6!Serialized

(* Numbers of the sixth level in memory. *)
LEMMA SixthNumbersReadAlike ==
  /\ \A e : Level6!Scalar(e) = Reader6!Scalar(e) /\ Level6!Array(e) = Reader6!Array(e)
  /\ \A bits : Level6!NumberOf(bits) = Reader6!NumberOf(bits)
  /\ \A one, other : Level6!Lesser(one, other) = Reader6!Lesser(one, other)
  /\ \A off : Level6!Align(off) = Reader6!Align(off)
  /\ \A buf, off, w : Level6!Taken(buf, off, w) = Reader6!Taken(buf, off, w)
  /\ \A e, buf, off : Level6!ReadScalar(e, buf, off) = Reader6!ReadScalar(e, buf, off)
  /\ \A e, n, buf, off : Level6!ReadScalars(e, n, buf, off) = Reader6!ReadScalars(e, n, buf, off)
<1>1. /\ \A n : Level6!Zeros(n) = Reader6!Zeros(n)
      /\ \A n, w : Level6!BitsOf(n, w) = Reader6!BitsOf(n, w)
      /\ \A e : Level6!Scalar(e) = Reader6!Scalar(e) /\ Level6!Array(e) = Reader6!Array(e)
      /\ \A one, other : Level6!Lesser(one, other) = Reader6!Lesser(one, other)
      /\ \A off : Level6!Align(off) = Reader6!Align(off)
  BY Zenon
  DEF Level6!Zeros, Reader6!Zeros, Level6!BitsOf, Reader6!BitsOf, Level6!Scalar,
      Reader6!Scalar, Level6!Array, Reader6!Array, Level6!Lesser, Reader6!Lesser,
      Level6!Align, Reader6!Align
<1>2. \A bits : Level6!NumberOf(bits) = Reader6!NumberOf(bits)
  BY Zenon DEF Level6!NumberOf, Reader6!NumberOf
<1>3. \A e : Level6!MemoryWidth(e) = Reader6!MemoryWidth(e)
  BY Zenon DEF Level6!MemoryWidth, Reader6!MemoryWidth
<1>4. \A buf, off, w : Level6!Taken(buf, off, w) = Reader6!Taken(buf, off, w)
  BY ONLY <1>1, Zenon DEF Level6!Taken, Reader6!Taken
<1>5. ASSUME NEW half
      PROVE  Level6!Unpacked(half) = Reader6!Unpacked(half)
  <2> DEFINE Top(m) == CHOOSE k \in 0..10 : 2^k <= m /\ m < 2^(k + 1)
             Magnitude(e, m) ==
               CASE e \in 1..30 -> (e + 112) * 2^23 + m * 2^13
                 [] e = 31      -> 255 * 2^23 + m * 2^13
                 [] OTHER -> IF m = 0 THEN 0 ELSE (103 + Top(m)) * 2^23 + (m - 2^Top(m)) * 2^(23 - Top(m))
             e1 == Level6!NumberOf(SubSeq(half, 11, 15))
             m1 == Level6!NumberOf(SubSeq(half, 1, 10))
             e2 == Reader6!NumberOf(SubSeq(half, 11, 15))
             m2 == Reader6!NumberOf(SubSeq(half, 1, 10))
  <2>1. Level6!Unpacked(half) = Level6!BitsOf(Magnitude(e1, m1), 31) \o <<half[16]>>
    BY ONLY DEF Level6!Unpacked
  <2>2. Reader6!Unpacked(half) = Reader6!BitsOf(Magnitude(e2, m2), 31) \o <<half[16]>>
    BY ONLY DEF Reader6!Unpacked
  <2>3. e1 = e2 /\ m1 = m2
    BY ONLY <1>2
  <2> HIDE DEF Magnitude, e1, m1, e2, m2
  <2> QED
    BY ONLY <1>1, <2>1, <2>2, <2>3, Zenon
<1>6. \A e, bits : Level6!InMemory(e, bits) = Reader6!InMemory(e, bits)
  BY ONLY <1>1, <1>3, <1>5 DEF Level6!InMemory, Reader6!InMemory
<1>7. \A e, buf, off : Level6!ReadScalar(e, buf, off) = Reader6!ReadScalar(e, buf, off)
  BY ONLY <1>4, <1>6, Zenon DEF Level6!ReadScalar, Reader6!ReadScalar
<1>8. \A e, n, buf, off : Level6!ReadScalars(e, n, buf, off) = Reader6!ReadScalars(e, n, buf, off)
  BY ONLY <1>7 DEF Level6!ReadScalars, Reader6!ReadScalars
<1> QED
  BY ONLY <1>1, <1>2, <1>4, <1>7, <1>8

(* The elements of an array, one after the other. *)
LEMMA SixthElementsReadAlike ==
  /\ \A at, w, v : Level6!Got(at, w, v) = Reader6!Got(at, w, v)
  /\ \A at, error : Level6!Bad(at, error) = Reader6!Bad(at, error)
  /\ \A e, buf, at : Level6!ReadNested(e, buf, at) = Reader6!ReadNested(e, buf, at)
  /\ \A e, n, buf, at : Level6!ReadArray(e, n, buf, at) = Reader6!ReadArray(e, n, buf, at)
<1>1. /\ \A at, w, v : Level6!Got(at, w, v) = Reader6!Got(at, w, v)
      /\ \A at, error : Level6!Bad(at, error) = Reader6!Bad(at, error)
      /\ \A size, rest : Level6!Beyond(size, rest) = Reader6!Beyond(size, rest)
  BY Zenon DEF Level6!Got, Reader6!Got, Level6!Bad, Reader6!Bad, Level6!Beyond, Reader6!Beyond
<1>2. \A at, off, size, nested : Level6!GotNested(at, off, size, nested) = Reader6!GotNested(at, off, size, nested)
  BY ONLY <1>1 DEF Level6!GotNested, Reader6!GotNested
<1>3. \A t, buf, off, at : Level6!ReadSealed(t, buf, off, at) = Reader6!ReadSealed(t, buf, off, at)
  BY ONLY <1>2 DEF Level6!ReadSealed, Reader6!ReadSealed
<1>4. \A t, buf, off, size, at : Level6!ReadDelimited(t, buf, off, size, at) = Reader6!ReadDelimited(t, buf, off, size, at)
  BY ONLY <1>1, <1>2, SixthNumbersReadAlike DEF Level6!ReadDelimited, Reader6!ReadDelimited
<1>5. \A buf, off : Level6!SizeInHeader(buf, off) = Reader6!SizeInHeader(buf, off)
  BY ONLY SixthNumbersReadAlike DEF Level6!SizeInHeader, Reader6!SizeInHeader
<1>6. \A e, buf, at : Level6!ReadNested(e, buf, at) = Reader6!ReadNested(e, buf, at)
  BY ONLY <1>3, <1>4, <1>5, SixthNumbersReadAlike DEF Level6!ReadNested, Reader6!ReadNested
<1>7. ASSUME NEW e, NEW n, NEW buf, NEW at
      PROVE  Level6!ReadArray(e, n, buf, at) = Reader6!ReadArray(e, n, buf, at)
  <2> DEFINE F(f) == [k \in 0..n |-> IF k = 0 THEN [at EXCEPT !.obj = <<>>]
                  ELSE IF f[k - 1].err = "SUCCESS" THEN Level6!ReadNested(e, buf, f[k - 1]) ELSE f[k - 1]]
             G(f) == [k \in 0..n |-> IF k = 0 THEN [at EXCEPT !.obj = <<>>]
                  ELSE IF f[k - 1].err = "SUCCESS" THEN Reader6!ReadNested(e, buf, f[k - 1]) ELSE f[k - 1]]
             Whole(left) == [left EXCEPT !.obj = Append(at.obj, @)]
  <2>1. \A f : F(f) = G(f)
    BY ONLY <1>6
  <2>2. Level6!ReadArray(e, n, buf, at) = IF Level6!Scalar(e) THEN Level6!Got(at, n * e.width, Level6!ReadScalars(e, n, buf, at.off))
                                       ELSE Whole((CHOOSE f : f = F(f))[n])
    BY ONLY Zenon DEF Level6!ReadArray, Level6!InTurn
  <2>3. Reader6!ReadArray(e, n, buf, at) = IF Reader6!Scalar(e) THEN Reader6!Got(at, n * e.width, Reader6!ReadScalars(e, n, buf, at.off))
                                       ELSE Whole((CHOOSE f : f = G(f))[n])
    BY ONLY Zenon DEF Reader6!ReadArray, Reader6!InTurn
  <2> HIDE DEF F, G, Whole
  <2>4. (CHOOSE f : f = F(f)) = (CHOOSE f : f = G(f))
    BY ONLY <2>1, Zenon
  <2>5. /\ Level6!Got(at, n * e.width, Level6!ReadScalars(e, n, buf, at.off))
             = Reader6!Got(at, n * e.width, Reader6!ReadScalars(e, n, buf, at.off))
        /\ Level6!Scalar(e) = Reader6!Scalar(e)
    BY ONLY <1>1, SixthNumbersReadAlike
  <2> QED
    BY ONLY <2>2, <2>3, <2>4, <2>5, Zenon
<1> QED
  BY ONLY <1>1, <1>6, <1>7

(* X_deserialize_ of the sixth level. *)
LEMMA SixthReaderAlike == \A t, buf : Level6!Deserialized(t, buf) = Reader6!Deserialized(t, buf)
<1>1. /\ \A e : Level6!PrefixWidth(e) = Reader6!PrefixWidth(e)
      /\ \A n, capacity : Level6!Overfull(n, capacity) = Reader6!Overfull(n, capacity)
      /\ \A t, tag : Level6!Present(t, tag) = Reader6!Present(t, tag)
      /\ Level6!Start = Reader6!Start
  BY Zenon
  DEF Level6!PrefixWidth, Reader6!PrefixWidth, Level6!LengthWidth,
      Reader6!LengthWidth, Level6!Overfull, Reader6!Overfull, Level6!Present,
      Reader6!Present, Level6!Start, Reader6!Start
<1>2. \A e, n, buf, at : Level6!ReadCounted(e, n, buf, at) = Reader6!ReadCounted(e, n, buf, at)
  BY ONLY <1>1, SixthElementsReadAlike DEF Level6!ReadCounted, Reader6!ReadCounted
<1>3. \A e, buf, off : Level6!CountRead(e, buf, off) = Reader6!CountRead(e, buf, off)
  BY ONLY <1>1, SixthNumbersReadAlike DEF Level6!CountRead, Reader6!CountRead
<1>4. \A e, buf, at : Level6!Read(e, buf, at) = Reader6!Read(e, buf, at)
  BY ONLY <1>2, <1>3, SixthNumbersReadAlike, SixthElementsReadAlike DEF Level6!Read, Reader6!Read
<1>5. ASSUME NEW t, NEW tag, NEW buf
      PROVE  Level6!ReadMembers(t, tag, buf) = Reader6!ReadMembers(t, tag, buf)
  <2> DEFINE n == Len(Level6!Present(t, tag))
             Begin(start) == [start EXCEPT !.off = IF t.kind = "union" THEN 8 ELSE 0]
             F(f) == [k \in 0..n |-> IF k = 0 THEN Begin(Level6!Start)
                  ELSE IF f[k - 1].err = "SUCCESS" THEN Level6!Read(Level6!Present(t, tag)[k], buf, f[k - 1]) ELSE f[k - 1]]
             G(f) == [k \in 0..Len(Reader6!Present(t, tag)) |-> IF k = 0 THEN Begin(Reader6!Start)
                  ELSE IF f[k - 1].err = "SUCCESS" THEN Reader6!Read(Reader6!Present(t, tag)[k], buf, f[k - 1]) ELSE f[k - 1]]
             NoOption == t.kind = "union" /\ tag \notin DOMAIN t.members
  <2>1. Level6!ReadMembers(t, tag, buf) =
          IF NoOption THEN Level6!Bad(Level6!Start, "BAD_UNION_TAG") ELSE (CHOOSE f : f = F(f))[n]
    BY ONLY Zenon DEF Level6!ReadMembers, Level6!InTurn
  <2>2. Reader6!ReadMembers(t, tag, buf) =
          IF NoOption THEN Reader6!Bad(Reader6!Start, "BAD_UNION_TAG") ELSE (CHOOSE f : f = G(f))[Len(Reader6!Present(t, tag))]
    BY ONLY Zenon DEF Reader6!ReadMembers, Reader6!InTurn
  <2>3. n = Len(Reader6!Present(t, tag)) /\ Level6!Bad(Level6!Start, "BAD_UNION_TAG") = Reader6!Bad(Reader6!Start, "BAD_UNION_TAG")
    BY ONLY <1>1, SixthElementsReadAlike
  <2> HIDE DEF n, Begin, NoOption
  <2>4. \A f : F(f) = G(f)
    BY ONLY <1>1, <1>4, <2>3
  <2> HIDE DEF F, G
  <2>5. (CHOOSE f : f = F(f)) = (CHOOSE f : f = G(f))
    BY ONLY <2>4, Zenon
  <2> QED
    BY ONLY <2>1, <2>2, <2>3, <2>5, Zenon
<1>6. \A t, tag, buf, at : Level6!Result(t, tag, buf, at) = Reader6!Result(t, tag, buf, at)
  BY ONLY SixthNumbersReadAlike DEF Level6!Result, Reader6!Result
<1>7. \A buf : Level6!TagRead(buf) = Reader6!TagRead(buf)
  BY ONLY SixthNumbersReadAlike DEF Level6!TagRead, Reader6!TagRead
<1> QED
  BY ONLY <1>5, <1>6, <1>7 DEF Level6!Deserialized, Reader6!Deserialized
-----------------------------------------------------------------------------
(* What TypeProofs says of the types in a type says it of all of them, *)
All == INSTANCE TypeProofs WITH
  NestedSerialize <- Writer6!Serialized, NestedDeserialize <- Reader6!Deserialized,
  NestedSchema <- Schema6!Schema, NestedLargest <- Schema6!Largest, NestedExact <- Schema6!Exact,
  NestedObject <- Objects6!Object, NestedSurvives <- Objects6!Survives, NestedFilled <- Objects6!Filled

(* as it does of those of the sixth level. *)
LEMMA EveryType ==
  ASSUME Level6!NestedWrites, Level6!NestedReads, Level6!NestedFills, Level6!NestedRounds,
         Level6!NestedAgain, Level6!NestedShort
  PROVE  /\ All!NestedWrites /\ All!NestedReads /\ All!NestedFills /\ All!NestedRounds
         /\ All!NestedAgain /\ All!NestedShort
<1>1. /\ All!MaxSize = Level6!MaxSize /\ All!Buffers = Level6!Buffers
      /\ All!WriteErrors = Level6!WriteErrors /\ All!ReadErrors = Level6!ReadErrors
      /\ All!Pattern = Level6!Pattern /\ All!Fillings = Level6!Fillings
      /\ \A buf : All!AllZero(buf) = Level6!AllZero(buf)
      /\ \A buf, long : All!Padded(buf, long) = Level6!Padded(buf, long)
      /\ \A one, other, len : All!SameRead(one, other, len) = Level6!SameRead(one, other, len)
  BY DEF All!MaxSize, Level6!MaxSize, All!Buffers, Level6!Buffers,
         All!WriteErrors, Level6!WriteErrors, All!ReadErrors, Level6!ReadErrors,
         All!Pattern, Level6!Pattern, All!Fillings, Level6!Fillings,
         All!AllZero, Level6!AllZero, All!Padded, Level6!Padded,
         All!SameRead, Level6!SameRead, All!Near, Level6!Near
<1>2. /\ Level6!Writes /\ Level6!Reads /\ Level6!Fills /\ Level6!Rounds /\ Level6!Again /\ Level6!Short
  BY Level6!SerializedWrites, Level6!DeserializedReads, Level6!FilledIsObject, Level6!SerializedIsRead,
     Level6!SurvivorIsWrittenAlike, Level6!ShortIsZeros
<1>3. All!NestedWrites
  BY ONLY <1>1, <1>2, SixthSchemasAlike, SixthObjectsAlike, SixthWriterAlike
  DEF All!NestedWrites, Level6!Writes
<1>4. All!NestedReads
  BY ONLY <1>1, <1>2, SixthSchemasAlike, SixthObjectsAlike, SixthWriterAlike, SixthReaderAlike
  DEF All!NestedReads, Level6!Reads
<1>5. All!NestedFills
  BY ONLY <1>1, <1>2, SixthSchemasAlike, SixthObjectsAlike
  DEF All!NestedFills, Level6!Fills
<1>6. All!NestedRounds
  BY ONLY <1>1, <1>2, SixthSchemasAlike, SixthObjectsAlike, SixthSurvivorsAlike, SixthWriterAlike, SixthReaderAlike
  DEF All!NestedRounds, Level6!Rounds
<1>7. All!NestedAgain
  BY ONLY <1>1, <1>2, SixthSchemasAlike, SixthObjectsAlike, SixthSurvivorsAlike, SixthWriterAlike
  DEF All!NestedAgain, Level6!Again
<1>8. All!NestedShort
  BY ONLY <1>1, <1>2, SixthSchemasAlike, SixthReaderAlike
  DEF All!NestedShort, Level6!Short
<1> QED
  BY ONLY <1>3, <1>4, <1>5, <1>6, <1>7, <1>8

(* So all of them do, without a premise. *)
LEMMA EveryLevel == /\ All!NestedWrites /\ All!NestedReads /\ All!NestedFills /\ All!NestedRounds
                    /\ All!NestedAgain /\ All!NestedShort
  BY FirstLevel, SecondLevel, ThirdLevel, FourthLevel, FifthLevel, SixthLevel, EveryType

-----------------------------------------------------------------------------
(* X_serialize_ and X_deserialize_ of all the types. *)
LEMMA SerializeDoes ==
  ASSUME NEW t, Schema(t), NEW v, Object(t, v), NEW capacity
  PROVE  LET out1 == Serialize(t, v, capacity)
         IN /\ out1.err \in {"SUCCESS", "BUFFER_TOO_SMALL", "BAD_ARRAY_LENGTH"}
            /\ out1.bits \in Buffers
            /\ out1.err = "SUCCESS" => /\ out1 = Writer6!Serialized(t, v)
                                       /\ Len(out1.bits) % 8 = 0
                                       /\ Len(out1.bits) <= Largest(t)
<1> DEFINE whole == Writer6!Serialized(t, v)
<1>1. /\ whole.err \in {"SUCCESS", "BAD_ARRAY_LENGTH"} /\ whole.bits \in Buffers
      /\ whole.err = "SUCCESS" => Len(whole.bits) % 8 = 0 /\ Len(whole.bits) <= Schema6!Largest(t)
  BY EveryLevel, Zenon DEF All!NestedWrites, All!WriteErrors, All!Buffers, Buffers, Schema, Object
<1> HIDE DEF whole
<1>2. <<>> \in Buffers
  BY DEF Buffers
<1>3. CASE capacity < t.buffer
  BY <1>2, <1>3 DEF Serialize, Unwritten
<1>4. CASE ~(capacity < t.buffer)
  <2>1. Serialize(t, v, capacity) = whole
    BY <1>4 DEF Serialize, whole
  <2> QED
    BY ONLY <1>1, <2>1, Zenon DEF Largest, whole
<1> QED
  BY <1>3, <1>4, Zenon

(* Any payload is an object that can be written again, or an error. *)
LEMMA DeserializeDoes ==
  ASSUME NEW t, Schema(t), NEW buf \in Buffers
  PROVE  LET read == Deserialize(t, buf)
         IN /\ read.err \in {"SUCCESS", "BAD_ARRAY_LENGTH", "BAD_UNION_TAG", "BAD_DELIMITER_HEADER"}
            /\ read.err = "SUCCESS" => /\ Object(t, read.obj)
                                       /\ Writer6!Serialized(t, read.obj).err = "SUCCESS"
  BY EveryLevel DEF All!NestedReads, All!ReadErrors, All!Buffers, Buffers, Schema, Object, Deserialize

(* An empty payload is an object. *)
LEMMA EmptyDoes ==
  ASSUME NEW t, Schema(t)
  PROVE  <<>> \in Buffers /\ Deserialize(t, <<>>).err = "SUCCESS"
<1>1. <<>> \in Buffers /\ All!AllZero(<<>>)
  BY DEF Buffers, All!AllZero
<1> QED
  BY <1>1, EveryLevel, Zenon DEF All!NestedReads, All!Buffers, Buffers, Schema, Deserialize

(* What a publisher fills in is an object. *)
LEMMA FilledDoes ==
  ASSUME NEW t, Schema(t), NEW p \in Patterns, NEW o \in Options(t), NEW filling \in Counts
  PROVE  Object(t, Filled(t, p, filling, o))
<1>1. p \in [1..4 -> 0..255] /\ filling \in {"empty", "one", "full", "over"}
  BY CodecAssumption
<1>2. o \in Nat
  <2>1. DOMAIN t.members = 1..Len(t.members) /\ Len(t.members) \in Nat
    BY Zenon DEF Schema, Schema6!Schema
  <2> QED
    BY <2>1 DEF Options
<1> QED
  BY <1>1, <1>2, EveryLevel DEF All!NestedFills, All!Pattern, All!Fillings, Schema, Object, Filled

-----------------------------------------------------------------------------
(* What else there is between the object and what was written, and between *)
(* what was read and the payload.                                          *)
Underway ==
  /\ phase = "object" => out = NotYet
  /\ out.err = "SUCCESS" => out = Writer6!Serialized(Types[type], object)
  /\ phase = "read" => in = Deserialize(Types[reader], wire)

CodecInv == TypeOK /\ EmptyIsAnObject /\ Underway

(* It holds of what X_initialize_ makes, *)
LEMMA InitCodec == Init => CodecInv
<1> SUFFICES ASSUME Init
             PROVE  CodecInv
  OBVIOUS
<1>1. type \in DOMAIN Types /\ Schema(Types[type])
  BY CodecAssumption DEF Init
<1>2. <<>> \in Buffers /\ in.err = "SUCCESS" /\ Object(Types[type], in.obj)
  BY <1>1, EmptyDoes, DeserializeDoes DEF Init
<1>3. NotYet.err = "NOTHING" /\ NotYet.bits = <<>>
  BY DEF NotYet, Unwritten
<1>4. Len(<<>>) % 8 = 0
  OBVIOUS
<1>5. TypeOK
  BY <1>1, <1>2, <1>3, <1>4 DEF TypeOK, Init
<1>6. EmptyIsAnObject /\ Underway
  BY <1>2, <1>3 DEF EmptyIsAnObject, Underway, Init
<1> QED
  BY <1>5, <1>6 DEF CodecInv

(* Payloads are whole bytes. *)
LEMMA BytesAreBuffers ==
  ASSUME NEW b \in 0..255, NEW n \in Nat
  PROVE  Bytes(b, n) \in Buffers /\ Len(Bytes(b, n)) % 8 = 0
<1> DEFINE w == 8 * n
<1>1. w \in Nat /\ w % 8 = 0
  OBVIOUS
<1> HIDE DEF w
<1>2. Bytes(b, n) \in [1..w -> {0, 1}]
  <2>1. ASSUME NEW i \in 1..w
        PROVE  (b \div 2^((i - 1) % 8)) % 2 \in {0, 1}
    <3> DEFINE k == (i - 1) % 8
    <3>1. k \in 0..7
      BY <1>1
    <3> HIDE DEF k
    <3>2. 2^k \in Nat \ {0}
      <4>1. k \in 0..30
        BY <3>1
      <4> QED
        BY <4>1, PowerOfTwo, Zenon
    <3>3. b \div 2^k \in Nat
      BY <3>2
    <3> QED
      BY <3>3 DEF k
  <2> QED
    BY <2>1, SMTT(30) DEF Bytes, w
<1>3. Bytes(b, n) \in Buffers /\ Len(Bytes(b, n)) = w
  BY <1>1, <1>2, SeqDef, LenProperties DEF Buffers
<1> QED
  BY <1>1, <1>3

(* A type's extent is a number. *)
LEMMA ExtentIsNat ==
  ASSUME NEW t, Schema(t)
  PROVE  t.extent \in Nat
<1>1. t.extent \in 0..Schema6!MaxSize
  BY Zenon DEF Schema, Schema6!Schema
<1>2. \A m \in Nat : 0..m \subseteq Nat
  OBVIOUS
<1>3. Schema6!MaxSize \in Nat
  BY DEF Schema6!MaxSize
<1> QED
  BY <1>1, <1>2, <1>3, Zenon

(* What is sent, padded and cut off at the extent, is whole bytes. *)
LEMMA SentIsBuffer ==
  ASSUME NEW bits \in Buffers, NEW n \in Nat, 8 * n <= Len(bits), NEW pad \in Nat, NEW extent \in Nat
  PROVE  LET sent == SubSeq(bits, 1, 8 * n) \o Zeros(8 * pad)
             cut == SubSeq(sent, 1, Lesser(Len(sent), 8 * extent))
         IN cut \in Buffers /\ Len(cut) % 8 = 0
<1> DEFINE part == SubSeq(bits, 1, 8 * n)
           sent == part \o Zeros(8 * pad)
           end == Lesser(Len(sent), 8 * extent)
           cut == SubSeq(sent, 1, end)
<1>1. part \in Buffers /\ Len(part) = 8 * n
  <2>1. SubSeq(bits, 0 + 1, 8 * n) \in Buffers /\ Len(SubSeq(bits, 0 + 1, 8 * n)) = 8 * n
    <3> DEFINE w == 8 * n
    <3>1. w \in Nat /\ 0 <= w /\ w - 0 = w /\ w <= Len(bits)
      OBVIOUS
    <3> HIDE DEF w
    <3>2. 0 \in Nat
      OBVIOUS
    <3>3. /\ SubSeq(bits, 0 + 1, w) \in Buffers
          /\ Len(SubSeq(bits, 0 + 1, w)) = IF 0 <= w THEN w - 0 ELSE 0
      BY ONLY <3>1, <3>2, bits \in Buffers, PartOfBuffer
    <3> QED
      BY ONLY <3>1, <3>3 DEF w
  <2> QED
    BY <2>1
<1>2. Zeros(8 * pad) \in Buffers /\ Len(Zeros(8 * pad)) = 8 * pad
  <2>1. 8 * pad \in Nat
    OBVIOUS
  <2> QED
    BY <2>1, ZerosType
<1>3. sent \in Buffers /\ Len(sent) = 8 * n + 8 * pad
  BY <1>1, <1>2, PutAfter, Zenon
<1> HIDE DEF sent
<1>4. end \in Nat /\ end % 8 = 0 /\ end <= Len(sent)
  BY <1>3 DEF Lesser
<1> HIDE DEF end
<1>5. SubSeq(sent, 0 + 1, end) \in Buffers /\ Len(SubSeq(sent, 0 + 1, end)) = end
  <2>1. 0 <= end /\ end - 0 = end /\ 0 \in Nat
    BY <1>4
  <2>2. /\ SubSeq(sent, 0 + 1, end) \in Buffers
        /\ Len(SubSeq(sent, 0 + 1, end)) = IF 0 <= end THEN end - 0 ELSE 0
    BY ONLY <1>3, <1>4, <2>1, PartOfBuffer, SMTT(30)
  <2> QED
    BY ONLY <2>1, <2>2, Zenon
<1>6. cut \in Buffers /\ Len(cut) % 8 = 0
  BY <1>4, <1>5
<1> QED
  BY ONLY <1>6, Zenon DEF cut, end, sent, part

(* A payload is what was written and what comes after it. *)
LEMMA CutAndJoined ==
  ASSUME NEW buf \in Buffers, NEW end \in Nat, end <= Len(buf)
  PROVE  /\ SubSeq(buf, end + 1, Len(buf)) \in Buffers
         /\ buf = SubSeq(buf, 1, end) \o SubSeq(buf, end + 1, Len(buf))
<1> DEFINE head == SubSeq(buf, 0 + 1, end)
           tail == SubSeq(buf, end + 1, Len(buf))
           len == Len(buf)
<1>1. len \in Nat /\ buf \in Seq({0, 1})
  BY LenProperties DEF Buffers
<1>2. head \in Buffers /\ Len(head) = end /\ \A i \in 1..Len(head) : head[i] = buf[0 + i]
  <2>1. 0 \in Nat /\ 0 <= end /\ end - 0 = end
    OBVIOUS
  <2>2. /\ head \in Buffers
        /\ Len(head) = IF 0 <= end THEN end - 0 ELSE 0
        /\ \A i \in 1..Len(head) : head[i] = buf[0 + i]
    BY <2>1, PartOfBuffer, SMTT(30)
  <2> QED
    BY <2>1, <2>2
<1>3. tail \in Buffers /\ Len(tail) = len - end /\ \A i \in 1..Len(tail) : tail[i] = buf[end + i]
  BY <1>1, PartOfBuffer
<1> HIDE DEF head, tail
<1>4. buf = head \o tail
  <2>1. head \in Seq({0, 1}) /\ tail \in Seq({0, 1})
    BY <1>2, <1>3 DEF Buffers
  <2> DEFINE both == head \o tail
  <2>2. both \in Seq({0, 1}) /\ Len(both) = len
    <3>1. both \in Seq({0, 1}) /\ Len(both) = Len(head) + Len(tail)
      BY <2>1, ConcatProperties
    <3> HIDE DEF len
    <3>2. end <= len
      BY DEF len
    <3> QED
      BY ONLY <1>1, <1>2, <1>3, <3>1, <3>2, end \in Nat
  <2>3. ASSUME NEW i \in 1..len
        PROVE  both[i] = buf[i]
    <3>1. CASE i <= end
      BY <1>2, <2>1, <3>1, ConcatProperties
    <3>2. CASE i > end
      <4>1. i - end \in 1..Len(tail) /\ i = end + (i - end)
        BY <1>1, <1>3, <3>2
      <4>2. both[i] = tail[i - end]
        BY <1>1, <1>2, <1>3, <2>1, <3>2, ConcatProperties, SMTT(30)
      <4> QED
        BY <1>3, <4>1, <4>2, SMTT(30)
    <3>3. i \in Nat
      BY <1>1
    <3>4. i <= end \/ i > end
      BY ONLY <3>3, end \in Nat
    <3> QED
      BY ONLY <3>1, <3>2, <3>4, Zenon
  <2> HIDE DEF both
  <2>4. both = buf
    BY <1>1, <2>2, <2>3, SeqEqual
  <2> QED
    BY <2>4 DEF both
<1>5. head = SubSeq(buf, 1, end)
  BY DEF head
<1> QED
  BY ONLY <1>3, <1>4, <1>5, Zenon DEF tail

(* and after each step. *)
LEMMA NextCodec == CodecInv /\ [Next]_vars => CodecInv'
<1> SUFFICES ASSUME CodecInv, [Next]_vars
             PROVE  CodecInv'
  OBVIOUS
<1>1. /\ type \in DOMAIN Types /\ reader \in DOMAIN Types
      /\ Schema(Types[type]) /\ Schema(Types[reader])
  BY CodecAssumption DEF CodecInv, TypeOK
<1>2. NotYet.err = "NOTHING" /\ NotYet.bits = <<>> /\ <<>> \in Buffers /\ Len(<<>>) % 8 = 0
  BY DEF NotYet, Unwritten, Buffers
<1>3. CASE Initialize
  <2>1. type' = type /\ reader' = type /\ in' = Deserialize(Types[type], <<>>) /\ object' = in'.obj
        /\ out' = NotYet /\ wire' = <<>> /\ phase' = "object"
    BY <1>3, SMTT(30) DEF Initialize
  <2>2. in'.err = "SUCCESS" /\ Object(Types[type], in'.obj)
    BY <1>1, <2>1, EmptyDoes, DeserializeDoes
  <2>3. TypeOK'
    BY <1>1, <1>2, <2>1, <2>2, Zenon DEF TypeOK
  <2>4. EmptyIsAnObject' /\ Underway'
    BY <1>2, <2>1, <2>2 DEF EmptyIsAnObject, Underway
  <2> QED
    BY <2>3, <2>4 DEF CodecInv
<1>4. CASE Fill
  <2>1. PICK p \in Patterns, o \in Options(Types[type]), filling \in Counts :
          object' = Filled(Types[type], p, filling, o)
    BY <1>4 DEF Fill
  <2>2. Object(Types[type], object')
    BY <1>1, <2>1, FilledDoes
  <2>3. phase = "object" /\ UNCHANGED <<type, out, wire, reader, in, phase>>
    BY <1>4 DEF Fill
  <2>4. TypeOK'
    BY <2>2, <2>3, Zenon DEF TypeOK, CodecInv
  <2>5. EmptyIsAnObject' /\ Underway'
    BY <1>2, <2>3 DEF EmptyIsAnObject, Underway, CodecInv
  <2> QED
    BY <2>4, <2>5 DEF CodecInv
<1>5. CASE Publish
  <2>1. PICK capacity : out' = Serialize(Types[type], object, capacity)
    BY <1>5, SMTT(30) DEF Publish
  <2>2. phase = "object" /\ phase' = "written" /\ UNCHANGED <<type, object, wire, reader, in>>
    BY <1>5 DEF Publish
  <2>3. Object(Types[type], object)
    BY DEF TypeOK, CodecInv
  <2>4. /\ out'.err \in {"SUCCESS", "BUFFER_TOO_SMALL", "BAD_ARRAY_LENGTH"}
        /\ out'.bits \in Buffers
        /\ out'.err = "SUCCESS" => /\ out' = Writer6!Serialized(Types[type], object)
                                   /\ Len(out'.bits) % 8 = 0
    BY <1>1, <2>1, <2>3, SerializeDoes, Zenon
  <2>5. TypeOK'
    BY <2>2, <2>4, Zenon DEF TypeOK, CodecInv
  <2>6. EmptyIsAnObject' /\ Underway'
    BY <2>2, <2>4, Zenon DEF EmptyIsAnObject, Underway
  <2> QED
    BY <2>5, <2>6 DEF CodecInv
<1>6. CASE Carry
  <2>1. PICK r \in Readers(type), pad \in Padding :
          LET size == Len(out.bits) \div 8
          IN \E n \in {0, 1, size \div 2, size - 1, size} \cap 0..size :
               LET sent == SubSeq(out.bits, 1, 8 * n) \o Zeros(8 * pad)
               IN /\ wire' = SubSeq(sent, 1, Lesser(Len(sent), 8 * Types[r].extent))
                  /\ reader' = r
    BY <1>6, Zenon DEF Carry
  <2>2. PICK n \in 0..(Len(out.bits) \div 8) :
          LET sent == SubSeq(out.bits, 1, 8 * n) \o Zeros(8 * pad)
          IN /\ wire' = SubSeq(sent, 1, Lesser(Len(sent), 8 * Types[r].extent))
             /\ reader' = r
    BY <2>1, Zenon
  <2>3. /\ phase = "written" /\ out.err = "SUCCESS" /\ phase' = "carried"
        /\ UNCHANGED <<type, object, out, in>>
    BY <1>6, SMTT(30) DEF Carry
  <2>4. r \in DOMAIN Types /\ Types[r].extent \in Nat
    <3>1. r \in DOMAIN Types /\ Schema(Types[r])
      BY CodecAssumption DEF Readers
    <3> QED
      BY <3>1, ExtentIsNat
  <2>5. out.bits \in Buffers /\ Len(out.bits) \in Nat /\ Len(out.bits) % 8 = 0
    <3>1. out.bits \in Buffers /\ Len(out.bits) % 8 = 0
      BY <2>3, Zenon DEF TypeOK, CodecInv
    <3> QED
      BY <3>1, LenProperties, Zenon DEF Buffers
  <2>6. n \in Nat /\ 8 * n <= Len(out.bits)
    <3> DEFINE len == Len(out.bits)
    <3>1. len \in Nat /\ n \in 0..(len \div 8)
      BY <2>2, <2>5, Zenon
    <3> HIDE DEF len
    <3>2. n \in Nat /\ 8 * n <= len
      BY ONLY <3>1
    <3> QED
      BY ONLY <3>2 DEF len
  <2>7. wire' \in Buffers /\ Len(wire') % 8 = 0
    <3>1. pad \in Nat
      BY CodecAssumption
    <3> QED
      BY <2>2, <2>4, <2>5, <2>6, <3>1, SentIsBuffer, ZenonT(60)
  <2>8. TypeOK'
    BY <2>2, <2>3, <2>4, <2>7, ZenonT(60) DEF TypeOK, CodecInv
  <2>9. EmptyIsAnObject' /\ Underway'
    BY <2>3 DEF EmptyIsAnObject, Underway, CodecInv
  <2> QED
    BY <2>8, <2>9 DEF CodecInv
<1>7. CASE CarryForeign
  <2>1. PICK b \in Foreign, n \in {1, Types[type].buffer \div 2, Types[type].buffer} :
          wire' = Bytes(b, Lesser(n, MaxFull))
    BY <1>7, SMTT(30) DEF CarryForeign
  <2>2. phase = "object" /\ phase' = "carried" /\ UNCHANGED <<type, object, out, reader, in>>
    BY <1>7 DEF CarryForeign
  <2>3. Lesser(n, MaxFull) \in Nat /\ b \in 0..255
    <3>1. Types[type].buffer \in Nat
      BY <1>1, Zenon DEF Schema, Schema6!Schema
    <3>2. n \in Nat
      BY <2>1, <3>1
    <3> QED
      BY <3>2, CodecAssumption DEF Lesser
  <2>4. wire' \in Buffers /\ Len(wire') % 8 = 0
    BY <2>1, <2>3, BytesAreBuffers, Zenon
  <2>5. TypeOK'
    BY <2>2, <2>4, Zenon DEF TypeOK, CodecInv
  <2>6. EmptyIsAnObject' /\ Underway'
    BY <1>2, <2>2 DEF EmptyIsAnObject, Underway, CodecInv
  <2> QED
    BY <2>5, <2>6 DEF CodecInv
<1>8. CASE Receive
  <2>1. /\ in' = Deserialize(Types[reader], wire) /\ phase' = "read"
        /\ UNCHANGED <<type, object, out, wire, reader>>
    BY <1>8 DEF Receive
  <2>2. wire \in Buffers
    BY DEF TypeOK, CodecInv
  <2>3. /\ in'.err \in {"SUCCESS", "BAD_ARRAY_LENGTH", "BAD_UNION_TAG", "BAD_DELIMITER_HEADER"}
        /\ in'.err = "SUCCESS" => Object(Types[reader], in'.obj)
    BY <1>1, <2>1, <2>2, DeserializeDoes
  <2>4. TypeOK'
    BY <2>1, <2>3, Zenon DEF TypeOK, CodecInv
  <2>5. EmptyIsAnObject' /\ Underway'
    BY <2>1 DEF EmptyIsAnObject, Underway, CodecInv
  <2> QED
    BY <2>4, <2>5 DEF CodecInv
<1>9. CASE UNCHANGED vars
  BY <1>9, Zenon DEF vars, CodecInv, TypeOK, EmptyIsAnObject, Underway
<1> QED
  BY <1>3, <1>4, <1>5, <1>6, <1>7, <1>8, <1>9 DEF Next

(* Whatever arrives, what X_deserialize_ makes of it is an object of the   *)
(* type or one of its errors; payloads are whole bytes; X_initialize_ has  *)
(* an object to start from.                                                *)
THEOREM CodecInvariant == Spec => []CodecInv
<1>1. Init => CodecInv
  BY InitCodec
<1>2. CodecInv /\ [Next]_vars => CodecInv'
  BY NextCodec
<1> QED
  BY <1>1, <1>2, PTL DEF Spec

(* The types of the message and of its payload: TypeOK of Codec. *)
THEOREM CodecTypeCorrect == Spec => []TypeOK
<1>1. CodecInv => TypeOK
  BY DEF CodecInv
<1> QED
  BY <1>1, CodecInvariant, PTL

(* An empty payload is an object of every type, so that the assertion of   *)
(* X_initialize_ cannot fail.                                              *)
THEOREM EmptyPayloadIsAnObject == Spec => []EmptyIsAnObject
<1>1. CodecInv => EmptyIsAnObject
  BY DEF CodecInv
<1> QED
  BY <1>1, CodecInvariant, PTL

(* Where the macros of the types are right, as the run finds them all,     *)
(* nothing that X_serialize_ writes is larger than the buffer.             *)
THEOREM PayloadFitsBuffer ==
  (\A i \in DOMAIN Types : MacrosRight(Types[i])) => (Spec => []FitsBuffer)
<1> SUFFICES ASSUME \A i \in DOMAIN Types : MacrosRight(Types[i])
             PROVE  Spec => []FitsBuffer
  OBVIOUS
<1>1. CodecInv => FitsBuffer
  <2> SUFFICES ASSUME CodecInv
               PROVE  FitsBuffer
    OBVIOUS
  <2>1. type \in DOMAIN Types /\ Schema(Types[type]) /\ Object(Types[type], object)
    BY CodecAssumption DEF CodecInv, TypeOK
  <2>2. MacrosRight(Types[type])
    BY <2>1
  <2>3. ASSUME out.err = "SUCCESS"
        PROVE  Len(out.bits) <= Largest(Types[type])
    <3>1. out = Writer6!Serialized(Types[type], object)
      BY <2>3 DEF CodecInv, Underway
    <3> QED
      BY <2>1, <2>3, <3>1, EveryLevel, Zenon DEF All!NestedWrites, Schema, Object, Largest
  <2> QED
    BY <2>2, <2>3 DEF FitsBuffer, MacrosRight
<1> QED
  BY <1>1, CodecInvariant, PTL

(* What the publisher serialized is what the subscriber gets, whatever the *)
(* object is, however full its arrays, and whatever comes after it in the  *)
(* payload, if there is no half in the type.                               *)
THEOREM WrittenIsRead ==
  Spec => [](Schema6!Exact(Types[type]) => RoundTrip)
<1>1. CodecInv => (Schema6!Exact(Types[type]) => RoundTrip)
  <2> SUFFICES ASSUME CodecInv, Schema6!Exact(Types[type]), Intact, reader = type
               PROVE  /\ in.err = "SUCCESS"
                      /\ in.size = Len(out.bits) \div 8
                      /\ Survives(Types[type], object, in.obj)
    BY Zenon DEF RoundTrip
  <2> DEFINE t == Types[type]
             bits == out.bits
             len == Len(bits)
             after == SubSeq(wire, len + 1, Len(wire))
  <2>1. Schema6!Schema(t) /\ Objects6!Object(t, object) /\ wire \in Buffers /\ bits \in Buffers
    BY CodecAssumption DEF CodecInv, TypeOK, Schema, Object
  <2>2. out = Writer6!Serialized(t, object) /\ out.err = "SUCCESS"
    BY DEF CodecInv, Underway, Intact
  <2>3. in = Reader6!Deserialized(t, wire)
    BY DEF CodecInv, Underway, Intact, Deserialize
  <2>4. SubSeq(wire, 1, len) = bits /\ len <= Len(wire)
    BY DEF Intact
  <2>5. len \in Nat /\ Len(wire) \in Nat
    BY <2>1, LenProperties DEF Buffers
  <2> HIDE DEF len
  <2>6. after \in Buffers /\ wire = SubSeq(wire, 1, len) \o after
    BY ONLY <2>1, <2>4, <2>5, CutAndJoined, Zenon
  <2>7. wire = bits \o after
    BY ONLY <2>4, <2>6, Zenon
  <2>8. All!NestedRounds /\ after \in All!Buffers
    BY <2>6, EveryLevel DEF Buffers, All!Buffers
  <2> HIDE DEF t, after
  <2>9. LET out1 == Writer6!Serialized(t, object)
            read == Reader6!Deserialized(t, out1.bits \o after)
        IN /\ read.err = "SUCCESS" /\ read.size = Len(out1.bits) \div 8
           /\ Objects6!Survives(t, object, read.obj)
    <3>1. Writer6!Serialized(t, object).err = "SUCCESS"
      BY ONLY <2>2
    <3> QED
      BY ONLY <2>1, <2>8, <3>1, Schema6!Exact(Types[type]), Zenon DEF All!NestedRounds, t
  <2>10. in = Reader6!Deserialized(t, Writer6!Serialized(t, object).bits \o after)
    BY ONLY <2>2, <2>3, <2>7
  <2> QED
    BY ONLY <2>2, <2>9, <2>10, Zenon DEF Survives, t
<1> QED
  BY <1>1, CodecInvariant, PTL

(* Whatever was read can be written again: of every type, halves included, *)
(* no payload makes an object that the node could not relay.               *)
Rewritable ==
  phase = "read" /\ in.err = "SUCCESS" =>
    LET t == Types[reader]
    IN /\ Serialize(t, in.obj, t.buffer) = Writer6!Serialized(t, in.obj)
       /\ Writer6!Serialized(t, in.obj).err = "SUCCESS"

(* It is what every payload makes an object of, and no buffer is too small. *)
LEMMA ReadIsRewritable == CodecInv => Rewritable
<1> SUFFICES ASSUME CodecInv, phase = "read", in.err = "SUCCESS"
             PROVE  LET t == Types[reader]
                    IN /\ Serialize(t, in.obj, t.buffer) = Writer6!Serialized(t, in.obj)
                       /\ Writer6!Serialized(t, in.obj).err = "SUCCESS"
  BY DEF Rewritable
<1> DEFINE t == Types[reader]
           capacity == t.buffer
<1>1. Schema(t) /\ wire \in Buffers /\ in = Deserialize(t, wire)
  BY CodecAssumption DEF CodecInv, TypeOK, Underway
<1>2. Writer6!Serialized(t, in.obj).err = "SUCCESS"
  BY <1>1, DeserializeDoes
<1>3. capacity \in Nat
  BY <1>1, Zenon DEF Schema, Schema6!Schema
<1> HIDE DEF capacity
<1>4. ~(capacity < capacity)
  BY ONLY <1>3
<1>5. Serialize(t, in.obj, capacity) = Writer6!Serialized(t, in.obj)
  BY <1>4 DEF Serialize, capacity
<1> QED
  BY ONLY <1>2, <1>5 DEF capacity

(* The error is never that there is no room or that an array is too long. *)
THEOREM EveryReadIsRewritable == Spec => []Rewritable
  BY CodecInvariant, ReadIsRewritable, PTL

(* What is written then is read as the same bytes again, if there is no    *)
(* half in the type.                                                       *)
THEOREM ReadIsRelayable ==
  Spec => [](Schema6!Exact(Types[reader]) => Relayable)
<1>1. CodecInv => (Schema6!Exact(Types[reader]) => Relayable)
  <2> SUFFICES ASSUME CodecInv, Schema6!Exact(Types[reader]), phase = "read", in.err = "SUCCESS"
               PROVE  LET t == Types[reader]
                          again == Serialize(t, in.obj, t.buffer)
                      IN /\ again.err = "SUCCESS"
                         /\ Serialize(t, Deserialize(t, again.bits).obj, t.buffer) = again
    BY DEF Relayable
  <2> DEFINE t == Types[reader]
             capacity == t.buffer
             v == in.obj
             again == Writer6!Serialized(t, v)
             read == Reader6!Deserialized(t, again.bits \o <<>>)
             w == read.obj
  <2>1. Schema6!Schema(t) /\ Objects6!Object(t, v)
    BY CodecAssumption DEF CodecInv, TypeOK, Schema, Object
  <2>2. Serialize(t, v, capacity) = again /\ again.err = "SUCCESS"
    BY ReadIsRewritable DEF Rewritable
  <2>3. again.bits \in Buffers
    BY <2>1, EveryLevel, Zenon DEF All!NestedWrites, All!Buffers, Buffers
  <2>4. <<>> \in All!Buffers /\ again.bits \o <<>> = again.bits /\ again.bits \in All!Buffers
    BY <2>3, ConcatEmptySeq DEF Buffers, All!Buffers
  <2>5. read.err = "SUCCESS" /\ Objects6!Survives(t, v, w)
    <3> DEFINE none == <<>>
               got == Reader6!Deserialized(t, again.bits \o none)
    <3>1. none \in All!Buffers
      BY ONLY <2>4
    <3> HIDE DEF none
    <3>2. got.err = "SUCCESS" /\ Objects6!Survives(t, v, got.obj)
      <4>1. Schema6!Exact(t) /\ Writer6!Serialized(t, v).err = "SUCCESS" /\ All!NestedRounds
        BY <2>2, EveryLevel
      <4> HIDE DEF t, v
      <4>2. LET out1 == Writer6!Serialized(t, v)
                read1 == Reader6!Deserialized(t, out1.bits \o none)
            IN /\ read1.err = "SUCCESS" /\ read1.size = Len(out1.bits) \div 8
               /\ Objects6!Survives(t, v, read1.obj)
        BY ONLY <2>1, <3>1, <4>1, Zenon DEF All!NestedRounds
      <4> QED
        BY ONLY <4>2
    <3> QED
      BY ONLY <3>2 DEF none
  <2>6. Objects6!Object(t, w)
    <3> DEFINE bits == again.bits \o <<>>
               got == Reader6!Deserialized(t, bits)
    <3>1. bits \in All!Buffers
      BY ONLY <2>4
    <3> HIDE DEF bits
    <3>2. got.err = "SUCCESS" => Objects6!Object(t, got.obj)
      BY ONLY <2>1, <3>1, EveryLevel, Zenon DEF All!NestedReads
    <3> QED
      BY ONLY <2>5, <3>2 DEF bits
  <2>7. Writer6!Serialized(t, w) = again
    BY <2>1, <2>5, <2>6, EveryLevel, Schema6!Exact(Types[reader]) DEF All!NestedAgain
  <2>8. Serialize(t, w, capacity) = Writer6!Serialized(t, w)
    <3>1. capacity \in Nat
      BY <2>1, Zenon DEF Schema6!Schema
    <3> HIDE DEF capacity
    <3>2. ~(capacity < capacity)
      BY ONLY <3>1
    <3> QED
      BY <3>2 DEF Serialize, capacity
  <2>9. Deserialize(t, again.bits) = read
    BY <2>4 DEF Deserialize
  <2> HIDE DEF read, again
  <2> QED
    BY ONLY <2>2, <2>7, <2>8, <2>9
<1> QED
  BY <1>1, CodecInvariant, PTL

(* Wherever a payload of any type is cut, X_deserialize_ says the same of  *)
(* it as of one that goes on with zeros, but for a delimiter header that   *)
(* reaches over the end: ShortMeansZeros of Codec.                         *)
THEOREM ShortPayloadMeansZeros == Spec => []ShortMeansZeros
<1>1. CodecInv => ShortMeansZeros
  <2> SUFFICES ASSUME CodecInv, phase = "read"
               PROVE  LET long == wire \o Zeros(8 * Types[reader].buffer)
                          other == Deserialize(Types[reader], long)
                      IN \/ in.err = other.err /\ in.obj = other.obj
                         \/ in.err = "BAD_DELIMITER_HEADER"
    BY DEF ShortMeansZeros
  <2> DEFINE t == Types[reader]
             n == 8 * t.buffer
             zeros == Zeros(n)
             long == wire \o zeros
             len == Len(wire)
  <2>1. Schema6!Schema(t) /\ wire \in Buffers /\ len % 8 = 0 /\ in = Deserialize(t, wire)
    BY CodecAssumption DEF CodecInv, TypeOK, Underway, Schema
  <2>2. n \in Nat
    <3>1. t.buffer \in Nat
      BY <2>1, Zenon DEF Schema6!Schema
    <3> QED
      BY <3>1
  <2> HIDE DEF n, t
  <2>3. zeros \in Buffers /\ Len(zeros) = n /\ \A i \in 1..n : zeros[i] = 0
    BY <2>2, ZerosType DEF Zeros
  <2>4. len \in Nat
    BY <2>1, LenProperties DEF Buffers
  <2> HIDE DEF zeros
  <2>5. /\ long \in Buffers /\ Len(long) = len + n
        /\ \A i \in 1..(len + n) : long[i] = IF i <= len THEN wire[i] ELSE zeros[i - len]
    BY <2>1, <2>2, <2>3, ConcatProperties, Zenon DEF Buffers
  <2> HIDE DEF long, len
  <2>6. ASSUME NEW i \in 1..Len(long)
        PROVE  long[i] = IF i <= len THEN wire[i] ELSE 0
    <3>1. i \in 1..(len + n)
      BY ONLY <2>5, i \in 1..Len(long)
    <3>2. long[i] = IF i <= len THEN wire[i] ELSE zeros[i - len]
      BY ONLY <2>5, <3>1
    <3>3. ~(i <= len) => i - len \in 1..n
      BY ONLY <2>2, <2>4, <3>1
    <3> QED
      BY ONLY <2>3, <3>2, <3>3
  <2>7. All!Padded(wire, long)
    <3>1. wire \in All!Buffers /\ long \in All!Buffers
      BY ONLY <2>1, <2>5 DEF Buffers, All!Buffers
    <3>2. len <= Len(long)
      BY ONLY <2>2, <2>4, <2>5
    <3> QED
      BY ONLY <2>1, <2>6, <3>1, <3>2 DEF All!Padded, len
  <2>8. All!SameRead(Reader6!Deserialized(t, wire), Reader6!Deserialized(t, long), len)
    BY ONLY <2>1, <2>7, EveryLevel, Zenon DEF All!NestedShort, len
  <2>9. \/ in.err = Deserialize(t, long).err /\ in.obj = Deserialize(t, long).obj
        \/ in.err = "BAD_DELIMITER_HEADER"
    BY ONLY <2>1, <2>8 DEF All!SameRead, Deserialize
  <2> QED
    BY ONLY <2>9 DEF long, zeros, n, t
<1> QED
  BY <1>1, CodecInvariant, PTL

=============================================================================
