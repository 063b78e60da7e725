--------------------------- MODULE ScalarsProofs ----------------------------
(***************************************************************************)
(* Theorems about Scalars: for every buffer, every offset in it and every  *)
(* number, alone or in an array.                                           *)
(***************************************************************************)
EXTENDS Scalars, SequenceTheorems, WellFoundedInduction, TLAPS

-----------------------------------------------------------------------------
(* A function from 1..n to bits is a buffer. *)
LEMMA BufferOfBits ==
  ASSUME NEW n \in Nat, NEW s \in [1..n -> {0, 1}]
  PROVE  s \in Buffers /\ Len(s) = n
  BY SeqDef, LenProperties DEF Buffers

(* Zeros are a buffer of their own. *)
LEMMA ZerosType ==
  ASSUME NEW n \in Nat
  PROVE  /\ Zeros(n) \in Buffers /\ Len(Zeros(n)) = n
         /\ \A i \in 1..n : Zeros(n)[i] = 0
<1>1. Zeros(n) \in [1..n -> {0, 1}]
  BY DEF Zeros
<1> QED
  BY <1>1, BufferOfBits DEF Zeros

(* What is put after a buffer follows it. *)
LEMMA PutAfter ==
  ASSUME NEW a \in Buffers, NEW b \in Buffers
  PROVE  /\ a \o b \in Buffers /\ Len(a) \in Nat /\ Len(b) \in Nat
         /\ Len(a \o b) = Len(a) + Len(b)
         /\ \A i \in 1..(Len(a) + Len(b)) :
              (a \o b)[i] = IF i <= Len(a) THEN a[i] ELSE b[i - Len(a)]
  BY ConcatProperties, LenProperties DEF Buffers

(* What is taken of a buffer, bit by bit. *)
LEMMA TakenBits ==
  ASSUME NEW buf \in Buffers, NEW off \in Nat, NEW w \in Nat
  PROVE  /\ Taken(buf, off, w) \in Buffers /\ Len(Taken(buf, off, w)) = w
         /\ \A i \in 1..w : Taken(buf, off, w)[i] = IF off + i <= Len(buf) THEN buf[off + i] ELSE 0
<1> DEFINE there == Lesser(w, Len(buf) - Lesser(Len(buf), off))
           part == SubSeq(buf, off + 1, off + there)
<1>1. /\ Len(buf) \in Nat /\ there \in Nat /\ there <= w
      /\ off + there <= Len(buf) \/ there = 0
      /\ there < w => off + there >= Len(buf)
      /\ \A j \in 1..Len(buf) : buf[j] \in {0, 1}
  BY DEF Lesser, Buffers
<1>2. Taken(buf, off, w) = part \o Zeros(w - there)
  BY DEF Taken
<1> HIDE DEF there
<1>3. \A j \in (off + 1)..(off + there) : buf[j] \in {0, 1}
  BY <1>1
<1>4. /\ part \in Buffers /\ Len(part) = there
      /\ \A i \in 1..there : part[i] = buf[off + i]
  <2>1. /\ part \in Seq({0, 1})
        /\ Len(part) = IF off + 1 <= off + there THEN off + there - (off + 1) + 1 ELSE 0
        /\ \A i \in 1..(off + there - (off + 1) + 1) : part[i] = buf[off + 1 + i - 1]
    BY <1>1, <1>3, SubSeqProperties
  <2> HIDE DEF part
  <2>2. Len(part) = there
    BY <1>1, <2>1
  <2>3. \A i \in 1..there : part[i] = buf[off + i]
    BY <1>1, <2>1
  <2> QED
    BY <2>1, <2>2, <2>3 DEF Buffers
<1> HIDE DEF part
<1>5. /\ Zeros(w - there) \in Buffers /\ Len(Zeros(w - there)) = w - there
      /\ \A i \in 1..(w - there) : Zeros(w - there)[i] = 0
  BY <1>1, ZerosType
<1> DEFINE rest == Zeros(w - there)
<1> HIDE DEF rest
<1>6. /\ part \o rest \in Buffers /\ Len(part \o rest) = w
      /\ \A i \in 1..w : (part \o rest)[i] = IF i <= there THEN part[i] ELSE rest[i - there]
  <2>1. rest \in Buffers /\ Len(rest) = w - there /\ Len(part) + Len(rest) = w
    BY <1>1, <1>4, <1>5 DEF rest
  <2> QED
    BY <1>4, <2>1, PutAfter
<1>7. ASSUME NEW i \in 1..w
      PROVE  (part \o rest)[i] = IF off + i <= Len(buf) THEN buf[off + i] ELSE 0
  <2>1. CASE i <= there
    <3>1. i \in 1..there /\ off + i <= Len(buf)
      BY <1>1, <2>1
    <3> QED
      BY <1>4, <1>6, <2>1, <3>1
  <2>2. CASE i > there
    <3>1. i - there \in 1..(w - there) /\ ~(off + i <= Len(buf)) /\ ~(i <= there)
      BY <1>1, <2>2
    <3>2. rest[i - there] = 0
      BY <1>5, <3>1 DEF rest
    <3> QED
      BY <1>6, <3>1, <3>2
  <2>3. i <= there \/ i > there
    BY <1>1
  <2> QED
    BY <2>1, <2>2, <2>3
<1> QED
  BY <1>2, <1>6, <1>7 DEF rest

(* Two buffers with the same bits are the same. *)
LEMMA SameBits ==
  ASSUME NEW a \in Buffers, NEW b \in Buffers, Len(a) = Len(b),
         \A i \in 1..Len(a) : a[i] = b[i]
  PROVE  a = b
  BY SeqEqual DEF Buffers

(* A payload that ends early stands for the one with zeros after it: every *)
(* number of it is the same, wherever the end is (nunavutGetBits).         *)
THEOREM ShortTakenIsZeros ==
  ASSUME NEW buf \in Buffers, NEW n \in Nat, NEW off \in Nat, NEW w \in Nat
  PROVE  Taken(buf \o Zeros(n), off, w) = Taken(buf, off, w)
<1> DEFINE long == buf \o Zeros(n)
<1>1. /\ Zeros(n) \in Buffers /\ Len(Zeros(n)) = n
      /\ \A i \in 1..n : Zeros(n)[i] = 0
  BY ZerosType
<1>2. /\ long \in Buffers /\ Len(long) = Len(buf) + n /\ Len(buf) \in Nat
      /\ \A i \in 1..(Len(buf) + n) :
           long[i] = IF i <= Len(buf) THEN buf[i] ELSE Zeros(n)[i - Len(buf)]
  BY <1>1, PutAfter
<1> HIDE DEF long
<1>3. ASSUME NEW i \in 1..w
      PROVE  (IF off + i <= Len(long) THEN long[off + i] ELSE 0)
             = (IF off + i <= Len(buf) THEN buf[off + i] ELSE 0)
  <2>1. CASE off + i <= Len(buf)
    BY <1>2, <2>1
  <2>2. CASE off + i > Len(buf) /\ off + i <= Len(long)
    <3>1. off + i - Len(buf) \in 1..n
      BY <1>2, <2>2
    <3> QED
      BY <1>1, <1>2, <2>2, <3>1
  <2>3. CASE off + i > Len(long)
    BY <1>2, <2>3
  <2> QED
    BY <1>2, <2>1, <2>2, <2>3
<1>4. \A i \in 1..w : Taken(long, off, w)[i] = Taken(buf, off, w)[i]
  <2>1. \A i \in 1..w : Taken(long, off, w)[i] = IF off + i <= Len(long) THEN long[off + i] ELSE 0
    BY <1>2, TakenBits
  <2>2. \A i \in 1..w : Taken(buf, off, w)[i] = IF off + i <= Len(buf) THEN buf[off + i] ELSE 0
    BY TakenBits
  <2> QED
    BY <1>3, <2>1, <2>2
<1>5. Taken(long, off, w) = Taken(buf, off, w)
  <2>1. Taken(long, off, w) \in Buffers /\ Len(Taken(long, off, w)) = w
    BY <1>2, TakenBits
  <2>2. Taken(buf, off, w) \in Buffers /\ Len(Taken(buf, off, w)) = w
    BY TakenBits
  <2> QED
    BY <1>4, <2>1, <2>2, SameBits
<1> QED
  BY <1>5 DEF long

(* ... and so is every array of numbers (ReadArray). *)
THEOREM ShortArrayIsZeros ==
  ASSUME NEW e \in Numbers \cup {Float(16)}, NEW buf \in Buffers, NEW n \in Nat,
         NEW count \in Nat, NEW off \in Nat
  PROVE  ReadScalars(e, count, buf \o Zeros(n), off) = ReadScalars(e, count, buf, off)
<1>1. e.width \in Nat
  BY DEF Numbers, Float
<1>2. ASSUME NEW k \in 1..count
      PROVE  ReadScalar(e, buf \o Zeros(n), off + (k - 1) * e.width)
             = ReadScalar(e, buf, off + (k - 1) * e.width)
  <2>1. k - 1 \in Nat
    OBVIOUS
  <2>2. off + (k - 1) * e.width \in Nat
    BY <1>1, <2>1
  <2> QED
    BY <1>1, <2>2, ShortTakenIsZeros DEF ReadScalar
<1> QED
  BY <1>2 DEF ReadScalars

-----------------------------------------------------------------------------
(* Memory has a type that is wide enough. *)
LEMMA WidthInMemory ==
  ASSUME NEW e \in Numbers
  PROVE  /\ e.width \in Nat \ {0} /\ MemoryWidth(e) \in Nat
         /\ e.width <= MemoryWidth(e)
         /\ e.kind # "uint" => MemoryWidth(e) = e.width
         /\ e.kind \in {"uint", "int", "float"} /\ ~(e.kind = "float" /\ e.width = 16)
         /\ e.kind = "uint" => e.truncated \in BOOLEAN
<1>1. /\ e.width \in 1..64 /\ e.kind \in {"uint", "int", "float"}
      /\ e.kind # "uint" => e.width \in {8, 16, 32, 64}
      /\ ~(e.kind = "float" /\ e.width = 16)
      /\ e.kind = "uint" => e.truncated \in BOOLEAN
  BY DEF Numbers
<1>2. CASE e.width = 1
  BY <1>1, <1>2 DEF MemoryWidth
<1>3. CASE e.width # 1
  <2> DEFINE fits(w) == e.width <= w /\ (w = 8 \/ w < 2 * e.width)
             width == CHOOSE w \in {8, 16, 32, 64} : fits(w)
  <2>1. MemoryWidth(e) = width
    BY <1>1, <1>3 DEF MemoryWidth
  <2>2. \E w \in {8, 16, 32, 64} : fits(w)
    BY <1>1
  <2>3. width \in {8, 16, 32, 64} /\ fits(width)
    BY <2>2
  <2> HIDE DEF width
  <2> QED
    BY <1>1, <2>1, <2>3
<1> QED
  BY <1>2, <1>3

(* Bits that lie inside of a buffer are taken as they are. *)
TakenFrom(before, bits, after, o, w) ==
  \A i \in 1..w : Taken((before \o bits) \o after, Len(before) + o, w)[i] = bits[o + i]

(* That is so wherever they lie in it. *)
LEMMA TakenInside ==
  ASSUME NEW before \in Buffers, NEW bits \in Buffers, NEW after \in Buffers,
         NEW o \in Nat, NEW w \in Nat, o + w <= Len(bits)
  PROVE  TakenFrom(before, bits, after, o, w)
<1> DEFINE front == before \o bits
           all == front \o after
<1>1. /\ front \in Buffers /\ Len(front) = Len(before) + Len(bits)
      /\ Len(before) \in Nat /\ Len(bits) \in Nat
      /\ \A i \in 1..(Len(before) + Len(bits)) :
           front[i] = IF i <= Len(before) THEN before[i] ELSE bits[i - Len(before)]
  BY PutAfter
<1> HIDE DEF front
<1>2. /\ all \in Buffers /\ Len(all) = Len(front) + Len(after) /\ Len(after) \in Nat
      /\ \A i \in 1..(Len(front) + Len(after)) :
           all[i] = IF i <= Len(front) THEN front[i] ELSE after[i - Len(front)]
  BY <1>1, PutAfter
<1> HIDE DEF all
<1>3. \A i \in 1..w : Taken(all, Len(before) + o, w)[i]
        = IF Len(before) + o + i <= Len(all) THEN all[Len(before) + o + i] ELSE 0
  <2>1. Len(before) + o \in Nat
    BY <1>1
  <2>2. ASSUME NEW x \in Nat
        PROVE  \A i \in 1..w : Taken(all, x, w)[i] = IF x + i <= Len(all) THEN all[x + i] ELSE 0
    <3>1. all \in Buffers
      BY <1>2
    <3> QED
      BY ONLY <3>1, x \in Nat, w \in Nat, TakenBits
  <2> QED
    BY <2>1, <2>2
<1>4. ASSUME NEW i \in 1..w
      PROVE  Taken(all, Len(before) + o, w)[i] = bits[o + i]
  <2> DEFINE p == Len(before) + o + i
  <2>1. /\ p \in 1..(Len(before) + Len(bits)) /\ ~(p <= Len(before)) /\ p - Len(before) = o + i
        /\ p <= Len(front) /\ p \in 1..(Len(front) + Len(after)) /\ p <= Len(all)
    BY <1>1, <1>2
  <2> HIDE DEF p
  <2>2. front[p] = bits[o + i]
    BY <1>1, <2>1
  <2>3. all[p] = front[p]
    BY <1>2, <2>1
  <2>4. Taken(all, Len(before) + o, w)[i] = all[p]
    BY <1>3, <2>1 DEF p
  <2> QED
    BY <2>2, <2>3, <2>4
<1> QED
  BY <1>4 DEF all, front, TakenFrom

(* A number takes its width on the wire: its lower bits, or all ones. *)
LEMMA OnWireBits ==
  ASSUME NEW e \in Numbers, NEW v \in InC(e)
  PROVE  /\ OnWire(e, v) \in Buffers /\ Len(OnWire(e, v)) = e.width
         /\ \/ OnWire(e, v) = Ones(e.width) /\ e.kind = "uint" /\ ~e.truncated
               /\ \E i \in (e.width + 1)..MemoryWidth(e) : v[i] = 1
            \/ /\ \A i \in 1..e.width : OnWire(e, v)[i] = v[i]
               /\ e.kind = "uint" /\ ~e.truncated =>
                    \A i \in (e.width + 1)..MemoryWidth(e) : v[i] = 0
<1>1. /\ e.width \in Nat \ {0} /\ MemoryWidth(e) \in Nat /\ e.width <= MemoryWidth(e)
      /\ ~(e.kind = "float" /\ e.width = 16)
  BY WidthInMemory
<1>2. v \in Buffers /\ Len(v) = MemoryWidth(e) /\ \A i \in 1..MemoryWidth(e) : v[i] \in {0, 1}
  BY <1>1, SeqDef, LenProperties DEF InC, Buffers
<1>3. /\ Ones(e.width) \in Buffers /\ Len(Ones(e.width)) = e.width
  <2>1. Ones(e.width) \in [1..e.width -> {0, 1}]
    BY DEF Ones
  <2> QED
    BY <1>1, <2>1, BufferOfBits
<1>4. /\ SubSeq(v, 1, e.width) \in Buffers /\ Len(SubSeq(v, 1, e.width)) = e.width
      /\ \A i \in 1..e.width : SubSeq(v, 1, e.width)[i] = v[i]
  <2>1. \A i \in 1..e.width : v[i] \in {0, 1}
    BY <1>1, <1>2
  <2>2. /\ SubSeq(v, 1, e.width) \in Seq({0, 1})
        /\ Len(SubSeq(v, 1, e.width)) = IF 1 <= e.width THEN e.width - 1 + 1 ELSE 0
        /\ \A i \in 1..(e.width - 1 + 1) : SubSeq(v, 1, e.width)[i] = v[1 + i - 1]
    BY <1>1, <2>1, SubSeqProperties
  <2>3. e.width - 1 + 1 = e.width /\ 1 <= e.width
    BY <1>1
  <2>4. \A i \in 1..e.width : SubSeq(v, 1, e.width)[i] = v[i]
    BY <2>2, <2>3
  <2> QED
    BY <2>2, <2>3, <2>4 DEF Buffers
<1> DEFINE tooLarge == /\ e.kind = "uint" /\ ~e.truncated
                       /\ \E i \in (e.width + 1)..Len(v) : v[i] = 1
<1>5. CASE tooLarge
  <2>1. OnWire(e, v) = Ones(e.width)
    BY <1>1, <1>5 DEF OnWire
  <2> QED
    BY <1>2, <1>3, <1>5, <2>1
<1>6. CASE ~tooLarge
  <2>1. OnWire(e, v) = SubSeq(v, 1, e.width)
    BY <1>1, <1>6 DEF OnWire
  <2>2. ASSUME e.kind = "uint" /\ ~e.truncated, NEW i \in (e.width + 1)..MemoryWidth(e)
        PROVE  v[i] = 0
    <3>1. i \in 1..MemoryWidth(e) /\ i \in (e.width + 1)..Len(v)
      BY <1>1, <1>2
    <3>2. v[i] # 1
      BY <1>6, <2>2, <3>1
    <3> QED
      BY <1>2, <3>1, <3>2
  <2> QED
    BY <1>4, <2>1, <2>2
<1> QED
  BY <1>5, <1>6

(* Read back, these bits are the number again, as far as it fits. *)
LEMMA ReadOfWritten ==
  ASSUME NEW e \in Numbers, NEW v \in InC(e)
  PROVE  SurvivesScalar(e, v, InMemory(e, OnWire(e, v)))
<1> DEFINE bits == OnWire(e, v)
           more == Zeros(MemoryWidth(e) - e.width)
           w == InMemory(e, bits)
<1>1. /\ e.width \in Nat \ {0} /\ MemoryWidth(e) \in Nat /\ e.width <= MemoryWidth(e)
      /\ ~(e.kind = "float" /\ e.width = 16) /\ e.kind \in {"uint", "int", "float"}
      /\ e.kind # "uint" => MemoryWidth(e) = e.width
      /\ e.kind = "uint" => e.truncated \in BOOLEAN
  BY WidthInMemory
<1>2. v \in Buffers /\ Len(v) = MemoryWidth(e) /\ DOMAIN v = 1..MemoryWidth(e)
  BY <1>1, SeqDef, LenProperties DEF InC, Buffers
<1>3. w = bits \o more
  BY <1>1 DEF InMemory
<1>4. bits \in Buffers /\ Len(bits) = e.width
  BY OnWireBits
<1>5. /\ more \in Buffers /\ Len(more) = MemoryWidth(e) - e.width
      /\ \A i \in 1..(MemoryWidth(e) - e.width) : more[i] = 0
  BY <1>1, ZerosType
<1>6. \/ bits = Ones(e.width) /\ e.kind = "uint" /\ ~e.truncated
         /\ \E i \in (e.width + 1)..MemoryWidth(e) : v[i] = 1
      \/ /\ \A i \in 1..e.width : bits[i] = v[i]
         /\ e.kind = "uint" /\ ~e.truncated =>
              \A i \in (e.width + 1)..MemoryWidth(e) : v[i] = 0
  BY OnWireBits
<1> HIDE DEF bits, more, w
<1>7. /\ w \in Buffers /\ Len(w) = MemoryWidth(e)
      /\ \A i \in 1..MemoryWidth(e) : w[i] = IF i <= e.width THEN bits[i] ELSE more[i - e.width]
  <2>1. /\ bits \o more \in Buffers
        /\ Len(bits \o more) = Len(bits) + Len(more)
        /\ \A i \in 1..(Len(bits) + Len(more)) :
             (bits \o more)[i] = IF i <= Len(bits) THEN bits[i] ELSE more[i - Len(bits)]
    BY <1>4, <1>5, PutAfter
  <2>2. Len(bits) + Len(more) = MemoryWidth(e)
    BY <1>1, <1>4, <1>5
  <2> QED
    BY <1>3, <1>4, <2>1, <2>2
<1>8. \A i \in 1..MemoryWidth(e) : w[i] = IF i <= e.width THEN bits[i] ELSE 0
  <2>1. ASSUME NEW i \in 1..MemoryWidth(e), ~(i <= e.width)
        PROVE  w[i] = 0
    <3>1. i - e.width \in 1..(MemoryWidth(e) - e.width)
      BY <1>1, <2>1
    <3> QED
      BY <1>5, <1>7, <2>1, <3>1
  <2> QED
    BY <1>7, <2>1
<1>9. w = [i \in 1..MemoryWidth(e) |-> IF i <= e.width THEN bits[i] ELSE 0]
  <2>1. w = [i \in 1..MemoryWidth(e) |-> w[i]]
    BY <1>7, LenProperties DEF Buffers
  <2> QED
    BY <1>8, <2>1
<1> DEFINE fits == e.truncated \/ \A i \in DOMAIN v : i > e.width => v[i] = 0
<1>10. CASE e.kind = "uint" /\ fits
  <2>1. \A i \in 1..e.width : bits[i] = v[i]
    <3>1. ASSUME NEW i \in (e.width + 1)..MemoryWidth(e), v[i] = 1
          PROVE  e.truncated
      <4>1. i \in DOMAIN v /\ i > e.width
        BY <1>1, <1>2
      <4> QED
        BY <1>10, <3>1, <4>1
    <3> QED
      BY <1>6, <3>1
  <2>2. \A i \in 1..MemoryWidth(e) :
          (IF i <= e.width THEN bits[i] ELSE 0) = (IF i > e.width THEN 0 ELSE v[i])
    BY <1>1, <2>1
  <2>3. w = [i \in DOMAIN v |-> IF i > e.width THEN 0 ELSE v[i]]
    BY <1>2, <1>9, <2>2
  <2> QED
    BY <1>10, <2>3 DEF SurvivesScalar, w, bits
<1>11. CASE e.kind = "uint" /\ ~fits
  <2>1. PICK j \in DOMAIN v : j > e.width /\ v[j] # 0
    BY <1>11
  <2>2. bits = Ones(e.width)
    <3>1. j \in (e.width + 1)..MemoryWidth(e)
      BY <1>1, <1>2, <2>1
    <3> QED
      BY <1>6, <1>11, <2>1, <3>1
  <2>3. \A i \in 1..MemoryWidth(e) :
          (IF i <= e.width THEN bits[i] ELSE 0) = (IF i > e.width THEN 0 ELSE 1)
    BY <1>1, <2>2 DEF Ones
  <2>4. w = [i \in DOMAIN v |-> IF i > e.width THEN 0 ELSE 1]
    BY <1>2, <1>9, <2>3
  <2> QED
    BY <1>11, <2>4 DEF SurvivesScalar, w, bits
<1>12. CASE e.kind # "uint"
  <2>1. \A i \in 1..MemoryWidth(e) : w[i] = v[i]
    BY <1>1, <1>6, <1>8, <1>12
  <2>2. w = v
    BY <1>2, <1>7, <2>1, SameBits
  <2> QED
    BY <1>1, <1>12, <2>2 DEF SurvivesScalar, w, bits
<1> QED
  BY <1>10, <1>11, <1>12

(* What is written at any bit of a buffer is read back from there, with    *)
(* nothing of what lies before or after it: a number that fits its width   *)
(* as it was, another saturated or cut off as its type says.               *)
THEOREM NumberReadBack ==
  ASSUME NEW e \in Numbers, NEW v \in InC(e), NEW before \in Buffers, NEW after \in Buffers
  PROVE  SurvivesScalar(e, v, ReadScalar(e, (before \o OnWire(e, v)) \o after, Len(before)))
<1> DEFINE bits == OnWire(e, v)
           all == (before \o bits) \o after
<1>1. bits \in Buffers /\ Len(bits) = e.width /\ e.width \in Nat /\ Len(before) \in Nat
  BY OnWireBits, WidthInMemory, LenProperties DEF Buffers
<1> HIDE DEF bits
<1>2. all \in Buffers
  BY <1>1, PutAfter
<1>3. \A i \in 1..e.width : Taken(all, Len(before), e.width)[i] = bits[i]
  <2>1. \A i \in 1..e.width : Taken(all, Len(before) + 0, e.width)[i] = bits[0 + i]
    BY <1>1, TakenInside, SMTT(30) DEF TakenFrom
  <2>2. Len(before) + 0 = Len(before) /\ \A i \in 1..e.width : 0 + i = i
    BY <1>1
  <2> QED
    BY <2>1, <2>2
<1> HIDE DEF all
<1>4. Taken(all, Len(before), e.width) = bits
  <2>1. /\ Taken(all, Len(before), e.width) \in Buffers
        /\ Len(Taken(all, Len(before), e.width)) = e.width
    BY <1>1, <1>2, TakenBits
  <2> QED
    BY <1>1, <1>3, <2>1, SameBits
<1> QED
  BY <1>4, ReadOfWritten DEF ReadScalar, all, bits

-----------------------------------------------------------------------------
(* NumberOf counts its bits from the last one down, for every buffer. *)
AddsUp(bits, from) ==
  /\ from[Len(bits) + 1] = 0
  /\ \A i \in 1..Len(bits) : from[i] = bits[i] + 2 * from[i + 1]
  /\ NumberOf(bits) = from[1]

(* The counts exist: the least length for which they do not has none. *)
LEMMA NumberAddsUp ==
  ASSUME NEW bits \in Buffers
  PROVE  \E from : AddsUp(bits, from)
<1> DEFINE n == Len(bits)
           upper(f, i) == IF i > n THEN 0 ELSE bits[i] + 2 * f[i + 1]
           solves(f) == f = [i \in 1..(n + 1) |-> upper(f, i)]
           begun(m) == \E f : /\ f = [i \in (n + 1 - m)..(n + 1) |-> f[i]]
                              /\ \A i \in (n + 1 - m)..(n + 1) : f[i] = upper(f, i)
           failing == {m \in 0..n : ~begun(m)}
<1>1. n \in Nat
  BY LenProperties DEF Buffers
<1> HIDE DEF n
<1>2. failing = {}
  <2>1. SUFFICES ASSUME failing # {} PROVE FALSE
    OBVIOUS
  <2>2. PICK m \in failing : \A k \in failing : ~(<<k, m>> \in OpToRel(<, Nat))
    <3>1. failing \subseteq Nat
      BY <1>1
    <3> HIDE DEF failing
    <3> QED
      BY <2>1, <3>1, NatLessThanWellFounded, WFMin
  <2>3. m \in 0..n /\ ~begun(m)
    BY <2>2
  <2>4. CASE m = 0
    <3> DEFINE f == [i \in {n + 1} |-> 0]
    <3>1. (n + 1 - 0)..(n + 1) = {n + 1}
      BY <1>1
    <3>2. f = [i \in (n + 1 - 0)..(n + 1) |-> f[i]]
      BY <3>1
    <3>3. \A i \in (n + 1 - 0)..(n + 1) : f[i] = upper(f, i)
      BY <1>1, <3>1
    <3> HIDE DEF f
    <3> QED
      BY <2>3, <2>4, <3>2, <3>3
  <2>5. CASE m # 0
    <3>1. m - 1 \in 0..n /\ m - 1 \in Nat /\ m \in Nat /\ m - 1 < m
      BY <1>1, <2>3, <2>5
    <3>2. begun(m - 1)
      <4>1. <<m - 1, m>> \in OpToRel(<, Nat)
        BY <3>1 DEF OpToRel
      <4> QED
        BY <2>2, <3>1, <4>1
    <3>3. PICK f : /\ f = [i \in (n + 1 - (m - 1))..(n + 1) |-> f[i]]
                   /\ \A i \in (n + 1 - (m - 1))..(n + 1) : f[i] = upper(f, i)
      BY <3>2
    <3> DEFINE first == n + 1 - m
               g == [i \in first..(n + 1) |->
                       IF i = first THEN bits[i] + 2 * f[i + 1] ELSE f[i]]
    <3>4. /\ first \in 1..n /\ n + 1 - (m - 1) = first + 1
          /\ first..(n + 1) = {first} \cup ((first + 1)..(n + 1))
      BY <1>1, <2>3, <3>1
    <3> HIDE DEF first
    <3>5. ASSUME NEW i \in first..(n + 1)
          PROVE  g[i] = upper(g, i)
      <4>1. CASE i = first
        <5>1. first + 1 \in first..(n + 1) /\ first + 1 # first /\ ~(first > n)
          BY <1>1, <3>4
        <5> QED
          BY <4>1, <5>1
      <4>2. CASE i # first
        <5>1. i \in (first + 1)..(n + 1) /\ g[i] = f[i]
          BY <3>4, <3>5, <4>2
        <5>2. CASE i > n
          BY <3>3, <3>4, <5>1, <5>2
        <5>3. CASE ~(i > n)
          <6>1. i + 1 \in first..(n + 1) /\ i + 1 # first
            BY <1>1, <3>4, <3>5, <5>1, <5>3
          <6>2. g[i + 1] = f[i + 1]
            BY <6>1
          <6> QED
            BY <3>3, <3>4, <5>1, <5>3, <6>2
        <5> QED
          BY <5>2, <5>3
      <4> QED
        BY <4>1, <4>2
    <3>6. g = [i \in first..(n + 1) |-> g[i]]
      OBVIOUS
    <3>7. first = n + 1 - m
      BY DEF first
    <3> HIDE DEF g
    <3>8. begun(m)
      BY <3>5, <3>6, <3>7
    <3> QED
      BY <2>3, <3>8
  <2> QED
    BY <2>4, <2>5
<1>3. \E f : solves(f)
  <2>1. begun(n)
    <3>1. n \in 0..n /\ ~(n \in failing)
      BY <1>1, <1>2
    <3> HIDE DEF begun
    <3> QED
      BY <3>1
  <2>2. PICK f : /\ f = [i \in (n + 1 - n)..(n + 1) |-> f[i]]
                 /\ \A i \in (n + 1 - n)..(n + 1) : f[i] = upper(f, i)
    BY <2>1
  <2>3. n + 1 - n = 1
    BY <1>1
  <2>4. f = [i \in 1..(n + 1) |-> upper(f, i)]
    BY <2>2, <2>3
  <2> QED
    BY <2>4
<1> DEFINE from == CHOOSE f : solves(f)
<1>4. from = [i \in 1..(n + 1) |-> upper(from, i)]
  BY <1>3
<1>5. NumberOf(bits) = from[1]
  BY DEF NumberOf, n
<1> HIDE DEF from
<1>6. from[n + 1] = 0 /\ \A i \in 1..n : from[i] = bits[i] + 2 * from[i + 1]
  BY <1>1, <1>4
<1> QED
  BY <1>5, <1>6 DEF AddsUp, n

(* One bit after the other is taken of a number. *)
LEMMA HalvesOfNumber ==
  ASSUME NEW n \in Nat
  PROVE  /\ n = (n % 2) + 2 * (n \div 2)
         /\ n \div 2 = ((n \div 2) % 2) + 2 * (n \div 4)
         /\ n \div 4 = ((n \div 4) % 2) + 2 * (n \div 8)
         /\ n \div 8 = ((n \div 8) % 2) + 2 * (n \div 16)
         /\ n \div 16 = ((n \div 16) % 2) + 2 * (n \div 32)
         /\ n \div 32 = ((n \div 32) % 2) + 2 * (n \div 64)
         /\ n \div 64 = ((n \div 64) % 2) + 2 * (n \div 128)
         /\ n \div 128 = ((n \div 128) % 2) + 2 * (n \div 256)
         /\ n \div 256 = ((n \div 256) % 2) + 2 * (n \div 512)
         /\ n \div 512 = ((n \div 512) % 2) + 2 * (n \div 1024)
         /\ n \div 1024 = ((n \div 1024) % 2) + 2 * (n \div 2048)
         /\ n \div 2048 = ((n \div 2048) % 2) + 2 * (n \div 4096)
         /\ n \div 4096 = ((n \div 4096) % 2) + 2 * (n \div 8192)
         /\ n \div 8192 = ((n \div 8192) % 2) + 2 * (n \div 16384)
         /\ n \div 16384 = ((n \div 16384) % 2) + 2 * (n \div 32768)
         /\ n \div 32768 = ((n \div 32768) % 2) + 2 * (n \div 65536)
  OBVIOUS

(* A number that w bits are enough for. *)
Fits(n, w) == n \in Nat /\ n <= 65535 /\ (w = 8 => n <= 255)

(* Such bits count up to the number. *)
LEMMA NumberOfBits ==
  ASSUME NEW w \in {8, 16}, NEW n, Fits(n, w)
  PROVE  /\ BitsOf(n, w) \in Buffers /\ Len(BitsOf(n, w)) = w
         /\ NumberOf(BitsOf(n, w)) = n
<1> USE DEF Fits
<1> DEFINE bits == BitsOf(n, w)
<1>1. bits \in Buffers /\ Len(bits) = w
  <2>1. bits \in [1..w -> {0, 1}]
    BY DEF BitsOf
  <2> QED
    BY <2>1, BufferOfBits
<1>2. PICK from : AddsUp(bits, from)
  BY <1>1, NumberAddsUp
<1>3. /\ from[w + 1] = 0 /\ NumberOf(bits) = from[1]
      /\ \A i \in 1..w : from[i] = bits[i] + 2 * from[i + 1]
  BY <1>1, <1>2 DEF AddsUp
<1>4. /\ bits[1] = n % 2
      /\ bits[2] = (n \div 2) % 2
      /\ bits[3] = (n \div 4) % 2
      /\ bits[4] = (n \div 8) % 2
      /\ bits[5] = (n \div 16) % 2
      /\ bits[6] = (n \div 32) % 2
      /\ bits[7] = (n \div 64) % 2
      /\ bits[8] = (n \div 128) % 2
  BY ONLY w \in {8, 16}, Fits(n, w) DEF BitsOf, bits
<1>5. w = 16 => /\ bits[9] = (n \div 256) % 2
                 /\ bits[10] = (n \div 512) % 2
                 /\ bits[11] = (n \div 1024) % 2
                 /\ bits[12] = (n \div 2048) % 2
                 /\ bits[13] = (n \div 4096) % 2
                 /\ bits[14] = (n \div 8192) % 2
                 /\ bits[15] = (n \div 16384) % 2
                 /\ bits[16] = (n \div 32768) % 2
  BY ONLY Fits(n, w) DEF BitsOf, bits
<1> HIDE DEF bits
<1>6. /\ from[1] = (n % 2) + 2 * from[2]
      /\ from[2] = ((n \div 2) % 2) + 2 * from[3]
      /\ from[3] = ((n \div 4) % 2) + 2 * from[4]
      /\ from[4] = ((n \div 8) % 2) + 2 * from[5]
      /\ from[5] = ((n \div 16) % 2) + 2 * from[6]
      /\ from[6] = ((n \div 32) % 2) + 2 * from[7]
      /\ from[7] = ((n \div 64) % 2) + 2 * from[8]
      /\ from[8] = ((n \div 128) % 2) + 2 * from[9]
  BY ONLY <1>3, <1>4, w \in {8, 16}
<1>7. ASSUME w = 8 PROVE NumberOf(bits) = n
  <2>1. from[9] = 0 /\ n \div 256 = 0
    BY <1>3, <1>7
  <2> QED
    BY ONLY <1>3, <1>6, <2>1, HalvesOfNumber, Fits(n, w)
<1>8. ASSUME w = 16 PROVE NumberOf(bits) = n
  <2>1. /\ from[9] = ((n \div 256) % 2) + 2 * from[10]
        /\ from[10] = ((n \div 512) % 2) + 2 * from[11]
        /\ from[11] = ((n \div 1024) % 2) + 2 * from[12]
        /\ from[12] = ((n \div 2048) % 2) + 2 * from[13]
        /\ from[13] = ((n \div 4096) % 2) + 2 * from[14]
        /\ from[14] = ((n \div 8192) % 2) + 2 * from[15]
        /\ from[15] = ((n \div 16384) % 2) + 2 * from[16]
        /\ from[16] = ((n \div 32768) % 2) + 2 * from[17]
    BY ONLY <1>3, <1>5, <1>8
  <2>2. from[17] = 0 /\ n \div 65536 = 0
    BY <1>3, <1>8
  <2> QED
    BY ONLY <1>3, <1>6, <2>1, <2>2, HalvesOfNumber, Fits(n, w)
<1> QED
  BY <1>1, <1>7, <1>8 DEF bits

(* What is put between two buffers is taken out again. *)
LEMMA TakenBack ==
  ASSUME NEW bits \in Buffers, NEW before \in Buffers, NEW after \in Buffers,
         NEW w \in Nat, Len(bits) = w
  PROVE  Taken((before \o bits) \o after, Len(before), w) = bits
<1> DEFINE all == (before \o bits) \o after
           taken == Taken(all, Len(before), w)
<1>1. all \in Buffers /\ Len(before) \in Nat
  BY PutAfter
<1>2. TakenFrom(before, bits, after, 0, w)
  BY TakenInside
<1>3. \A i \in 1..w : taken[i] = bits[i]
  <2>1. Len(before) + 0 = Len(before)
    BY <1>1
  <2> QED
    BY <1>2, <2>1 DEF TakenFrom
<1> HIDE DEF all
<1>4. taken \in Buffers /\ Len(taken) = w
  BY <1>1, TakenBits
<1> QED
  BY <1>3, <1>4, SameBits DEF all

(* The number of elements written before an array is read back, wherever   *)
(* the array lies and however many elements it may have: no count up to    *)
(* the capacity loses a bit.                                               *)
THEOREM CountReadBack ==
  ASSUME NEW capacity \in Nat, capacity <= 65535, NEW n \in 0..capacity,
         NEW before \in Buffers, NEW after \in Buffers
  PROVE  LET w == LengthWidth(capacity)
         IN NumberOf(Taken((before \o BitsOf(n, w)) \o after, Len(before), w)) = n
<1>1. SUFFICES ASSUME NEW w, w = LengthWidth(capacity)
               PROVE  NumberOf(Taken((before \o BitsOf(n, w)) \o after, Len(before), w)) = n
  OBVIOUS
<1>2. w \in {8, 16} /\ Fits(n, w)
  BY <1>1 DEF LengthWidth, Fits
<1>3. BitsOf(n, w) \in Buffers /\ Len(BitsOf(n, w)) = w /\ NumberOf(BitsOf(n, w)) = n
  BY ONLY <1>2, NumberOfBits
<1>4. Taken((before \o BitsOf(n, w)) \o after, Len(before), w) = BitsOf(n, w)
  <2>1. w \in Nat
    BY <1>2
  <2> QED
    BY <1>3, <2>1, TakenBack
<1> QED
  BY <1>3, <1>4

(* offset_bits goes on at the next byte, and no further.                   *)
LEMMA AlignIsNextByte ==
  ASSUME NEW off \in Nat
  PROVE  /\ Align(off) \in Nat /\ Align(off) % 8 = 0
         /\ off <= Align(off) /\ Align(off) < off + 8
         /\ off % 8 = 0 => Align(off) = off
  BY DEF Align

-----------------------------------------------------------------------------
(* Induction up to n, said of a set.                                       *)
LEMMA InductionUpTo ==
  ASSUME NEW n \in Nat, NEW A, 0 \in A, \A k \in 0..(n - 1) : k \in A => k + 1 \in A
  PROVE  \A k \in 0..n : k \in A
<1> DEFINE failing == {k \in 0..n : ~(k \in A)}
<1>1. SUFFICES ASSUME failing # {} PROVE FALSE
  OBVIOUS
<1>2. PICK m \in failing : \A k \in failing : ~(<<k, m>> \in OpToRel(<, Nat))
  <2>1. failing \subseteq Nat
    OBVIOUS
  <2> HIDE DEF failing
  <2> QED
    BY <1>1, <2>1, NatLessThanWellFounded, WFMin
<1>3. /\ m \in 0..n /\ ~(m \in A) /\ m # 0 /\ m - 1 \in 0..(n - 1)
      /\ (m - 1) + 1 = m /\ m - 1 \in 0..n
  <2>1. m \in 0..n /\ ~(m \in A)
    BY <1>2
  <2>2. m # 0
    BY <2>1
  <2> QED
    BY ONLY <2>1, <2>2, n \in Nat
<1>4. <<m - 1, m>> \in OpToRel(<, Nat)
  BY <1>3 DEF OpToRel
<1>5. m - 1 \in A
  BY <1>2, <1>3, <1>4
<1> QED
  BY <1>3, <1>5

(* bits that are all zero *)
AllZero(bits) == \A i \in 1..Len(bits) : bits[i] = 0

(* Bits count up to a natural number, zeros to zero.                       *)
LEMMA NumberOfIsNat ==
  ASSUME NEW bits \in Buffers
  PROVE  NumberOf(bits) \in Nat /\ (AllZero(bits) => NumberOf(bits) = 0)
<1> DEFINE n == Len(bits)
<1>1. n \in Nat /\ \A i \in 1..n : bits[i] \in {0, 1}
  BY DEF Buffers
<1>2. PICK from : AddsUp(bits, from)
  BY NumberAddsUp
<1>3. /\ from[n + 1] = 0 /\ NumberOf(bits) = from[1]
      /\ \A i \in 1..n : from[i] = bits[i] + 2 * from[i + 1]
  BY <1>2 DEF AddsUp
<1> DEFINE A == {k \in 0..n : /\ from[n + 1 - k] \in Nat
                              /\ AllZero(bits) => from[n + 1 - k] = 0}
<1>4. 0 \in A
  BY <1>1, <1>3
<1>5. ASSUME NEW k \in 0..(n - 1), k \in A
      PROVE  k + 1 \in A
  <2>1. n - k \in 1..n /\ (n - k) + 1 = n + 1 - k /\ n + 1 - (k + 1) = n - k /\ k + 1 \in 0..n
    BY <1>1
  <2>2. from[n - k] = bits[n - k] + 2 * from[n + 1 - k]
    BY <1>3, <2>1
  <2>3. AllZero(bits) => bits[n - k] = 0
    BY <2>1 DEF AllZero
  <2> QED
    BY <1>1, <1>5, <2>1, <2>2, <2>3, SMTT(30)
<1> HIDE DEF A
<1>6. n \in A
  <2>1. \A k \in 0..n : k \in A
    BY <1>1, <1>4, <1>5, InductionUpTo
  <2> QED
    BY <1>1, <2>1
<1>7. n + 1 - n = 1
  BY <1>1
<1> QED
  BY <1>3, <1>6, <1>7 DEF A

(* A part of a buffer. *)
LEMMA PartOfBuffer ==
  ASSUME NEW buf \in Buffers, NEW off \in Nat, NEW end \in Nat,
         end <= Len(buf) \/ end <= off
  PROVE  LET part == SubSeq(buf, off + 1, end)
         IN /\ part \in Buffers
            /\ Len(part) = IF off <= end THEN end - off ELSE 0
            /\ \A i \in 1..Len(part) : part[i] = buf[off + i]
<1> DEFINE part == SubSeq(buf, off + 1, end)
<1>1. Len(buf) \in Nat /\ \A i \in 1..Len(buf) : buf[i] \in {0, 1}
  BY DEF Buffers
<1>2. \A i \in (off + 1)..end : buf[i] \in {0, 1}
  BY <1>1
<1>3. /\ part \in Seq({0, 1})
      /\ Len(part) = IF off + 1 <= end THEN end - (off + 1) + 1 ELSE 0
      /\ \A i \in 1..(end - (off + 1) + 1) : part[i] = buf[(off + 1) + i - 1]
  <2>1. off + 1 \in Int /\ end \in Int
    OBVIOUS
  <2> HIDE DEF part
  <2> QED
    BY <1>2, <2>1, SubSeqProperties DEF part
<1> HIDE DEF part
<1>4. Len(part) = IF off <= end THEN end - off ELSE 0
  BY <1>3
<1>5. ASSUME NEW i \in 1..Len(part)
      PROVE  part[i] = buf[off + i]
  <2>1. i \in 1..(end - (off + 1) + 1) /\ (off + 1) + i - 1 = off + i
    BY <1>4
  <2> QED
    BY <1>3, <2>1
<1> QED
  BY <1>3, <1>4, <1>5 DEF part, Buffers

(* Powers of two are positive. *)
LEMMA PowerOfTwo ==
  ASSUME NEW k \in 0..30
  PROVE  2^k \in Nat \ {0}
<1> DEFINE P(i) == 2^i \in Nat \ {0}
<1>1. /\ P(0) /\ P(1) /\ P(2) /\ P(3) /\ P(4) /\ P(5)
      /\ P(6) /\ P(7) /\ P(8) /\ P(9) /\ P(10)
  OBVIOUS
<1>2. /\ P(11) /\ P(12) /\ P(13) /\ P(14) /\ P(15)
      /\ P(16) /\ P(17) /\ P(18) /\ P(19) /\ P(20)
  OBVIOUS
<1>3. /\ P(21) /\ P(22) /\ P(23) /\ P(24) /\ P(25)
      /\ P(26) /\ P(27) /\ P(28) /\ P(29) /\ P(30)
  OBVIOUS
<1>4. \/ k = 0 \/ k = 1 \/ k = 2 \/ k = 3 \/ k = 4 \/ k = 5
      \/ k = 6 \/ k = 7 \/ k = 8 \/ k = 9 \/ k = 10
      \/ k = 11 \/ k = 12 \/ k = 13 \/ k = 14 \/ k = 15
      \/ k = 16 \/ k = 17 \/ k = 18 \/ k = 19 \/ k = 20
      \/ k = 21 \/ k = 22 \/ k = 23 \/ k = 24 \/ k = 25
      \/ k = 26 \/ k = 27 \/ k = 28 \/ k = 29 \/ k = 30
  OBVIOUS
<1> HIDE DEF P
<1>5. P(k)
  BY ONLY <1>1, <1>2, <1>3, <1>4, ZenonT(60)
<1> QED
  BY <1>5 DEF P

(* Any number is so many bits. *)
LEMMA BitsOfNumber ==
  ASSUME NEW n \in Nat, NEW w \in 0..31
  PROVE  BitsOf(n, w) \in Buffers /\ Len(BitsOf(n, w)) = w
<1>1. ASSUME NEW i \in 1..w
      PROVE  (n \div 2^(i - 1)) % 2 \in {0, 1}
  <2>1. i - 1 \in 0..30
    OBVIOUS
  <2>2. 2^(i - 1) \in Nat \ {0}
    BY <2>1, PowerOfTwo
  <2>3. ASSUME NEW p \in Nat \ {0}
        PROVE  (n \div p) % 2 \in {0, 1}
    OBVIOUS
  <2> QED
    BY <2>2, <2>3
<1>2. BitsOf(n, w) \in [1..w -> {0, 1}]
  BY <1>1 DEF BitsOf
<1> QED
  BY <1>2, BufferOfBits

(* Some of the bits of a buffer are a number. *)
LEMMA NumberOfPart ==
  ASSUME NEW bits \in Buffers, NEW first \in Nat \ {0}, NEW end \in Nat,
         first <= end, end <= Len(bits)
  PROVE  NumberOf(SubSeq(bits, first, end)) \in Nat
<1>1. first - 1 \in Nat /\ (first - 1) + 1 = first
  OBVIOUS
<1>2. SubSeq(bits, first, end) \in Buffers
  BY <1>1, PartOfBuffer
<1> QED
  BY <1>2, NumberOfIsNat

(* A bit of a buffer. *)
LEMMA BitOfBuffer ==
  ASSUME NEW bits \in Buffers, NEW i \in 1..Len(bits)
  PROVE  bits[i] \in {0, 1}
  BY ElementOfSeq DEF Buffers

(* One bit more after a buffer. *)
LEMMA OneBitMore ==
  ASSUME NEW bits \in Buffers, NEW bit \in {0, 1}
  PROVE  bits \o <<bit>> \in Buffers /\ Len(bits \o <<bit>>) = Len(bits) + 1
<1>1. <<bit>> \in Buffers /\ Len(<<bit>>) = 1
  BY DEF Buffers
<1> QED
  BY <1>1, PutAfter

(* A number and its sign. *)
LEMMA NumberAndSign ==
  ASSUME NEW n \in Nat, NEW w \in 0..31, NEW bit \in {0, 1}
  PROVE  /\ BitsOf(n, w) \o <<bit>> \in Buffers
         /\ Len(BitsOf(n, w) \o <<bit>>) = w + 1
<1>1. BitsOf(n, w) \in Buffers /\ Len(BitsOf(n, w)) = w
  BY BitsOfNumber
<1> QED
  BY <1>1, OneBitMore

(* The size in a delimiter header counts up to the size again, and its     *)
(* last bit is not set.                                                    *)
LEMMA NumberOfHeader ==
  ASSUME NEW n, Fits(n, 16), NEW header, header = BitsOf(n, 31) \o << 0 >>
  PROVE  /\ header \in Buffers /\ Len(header) = 32
         /\ header[32] = 0 /\ NumberOf(header) = n
<1> DEFINE number == BitsOf(n, 31)
<1>0. n \in Nat /\ n <= 65535
  BY ONLY Fits(n, 16) DEF Fits
<1>14. n \in Nat
  BY <1>0
<1>1. 31 \in 0..31 /\ 0 \in {0, 1} /\ 31 + 1 = 32
  OBVIOUS
<1>2. header \in Buffers /\ Len(header) = 32
  <2>1. header \in Buffers /\ Len(header) = 31 + 1
    BY ONLY <1>1, <1>14, header = BitsOf(n, 31) \o << 0 >>, NumberAndSign, Zenon
  <2> QED
    BY ONLY <1>1, <2>1
<1>3. number \in Buffers /\ Len(number) = 31
  BY ONLY <1>1, <1>14, BitsOfNumber, Zenon
<1>4. /\ \A i \in 1..31 : header[i] = number[i]
      /\ header[32] = 0
  <2> DEFINE last == << 0 >>
  <2>1. last \in Seq({0, 1}) /\ Len(last) = 1 /\ last[1] = 0
    OBVIOUS
  <2>6. header = number \o last
    OBVIOUS
  <2> HIDE DEF number, last
  <2>2. number \in Seq({0, 1}) /\ Len(number) = 31
    BY <1>3 DEF Buffers
  <2>3. \A i \in 1..(Len(number) + Len(last)) :
          (number \o last)[i] = IF i <= Len(number) THEN number[i] ELSE last[i - Len(number)]
    BY ONLY <2>1, <2>2, ConcatProperties
  <2>4. \A i \in 1..(31 + 1) : header[i] = IF i <= 31 THEN number[i] ELSE last[i - 31]
    BY ONLY <2>1, <2>2, <2>3, <2>6
  <2> QED
    BY ONLY <2>1, <2>4
<1>5. PICK from : AddsUp(header, from)
  BY <1>2, NumberAddsUp
<1>6. /\ from[33] = 0 /\ NumberOf(header) = from[1]
      /\ \A i \in 1..32 : from[i] = header[i] + 2 * from[i + 1]
  BY ONLY <1>2, <1>5 DEF AddsUp
<1>7. /\ number[1] = n % 2
      /\ number[2] = (n \div 2) % 2
      /\ number[3] = (n \div 4) % 2
      /\ number[4] = (n \div 8) % 2
      /\ number[5] = (n \div 16) % 2
      /\ number[6] = (n \div 32) % 2
      /\ number[7] = (n \div 64) % 2
      /\ number[8] = (n \div 128) % 2
      /\ number[9] = (n \div 256) % 2
      /\ number[10] = (n \div 512) % 2
      /\ number[11] = (n \div 1024) % 2
      /\ number[12] = (n \div 2048) % 2
      /\ number[13] = (n \div 4096) % 2
      /\ number[14] = (n \div 8192) % 2
      /\ number[15] = (n \div 16384) % 2
      /\ number[16] = (n \div 32768) % 2
  BY ONLY <1>0 DEF BitsOf, number
<1>8. /\ number[17] = (n \div 65536) % 2
      /\ number[18] = (n \div 131072) % 2
      /\ number[19] = (n \div 262144) % 2
      /\ number[20] = (n \div 524288) % 2
      /\ number[21] = (n \div 1048576) % 2
      /\ number[22] = (n \div 2097152) % 2
      /\ number[23] = (n \div 4194304) % 2
      /\ number[24] = (n \div 8388608) % 2
      /\ number[25] = (n \div 16777216) % 2
      /\ number[26] = (n \div 33554432) % 2
      /\ number[27] = (n \div 67108864) % 2
      /\ number[28] = (n \div 134217728) % 2
      /\ number[29] = (n \div 268435456) % 2
      /\ number[30] = (n \div 536870912) % 2
      /\ number[31] = (n \div 1073741824) % 2
  BY ONLY <1>0 DEF BitsOf, number
<1>9. /\ n \div 65536 = 0
      /\ n \div 131072 = 0
      /\ n \div 262144 = 0
      /\ n \div 524288 = 0
      /\ n \div 1048576 = 0
      /\ n \div 2097152 = 0
      /\ n \div 4194304 = 0
      /\ n \div 8388608 = 0
      /\ n \div 16777216 = 0
      /\ n \div 33554432 = 0
      /\ n \div 67108864 = 0
      /\ n \div 134217728 = 0
      /\ n \div 268435456 = 0
      /\ n \div 536870912 = 0
      /\ n \div 1073741824 = 0
  BY ONLY <1>0
<1> HIDE DEF number
<1>10. /\ header[17] = 0
       /\ header[18] = 0
       /\ header[19] = 0
       /\ header[20] = 0
       /\ header[21] = 0
       /\ header[22] = 0
       /\ header[23] = 0
       /\ header[24] = 0
       /\ header[25] = 0
       /\ header[26] = 0
       /\ header[27] = 0
       /\ header[28] = 0
       /\ header[29] = 0
       /\ header[30] = 0
       /\ header[31] = 0
       /\ header[32] = 0
  BY ONLY <1>4, <1>8, <1>9
<1>11. /\ from[32] = 0
       /\ from[31] = 0
       /\ from[30] = 0
       /\ from[29] = 0
       /\ from[28] = 0
       /\ from[27] = 0
       /\ from[26] = 0
       /\ from[25] = 0
       /\ from[24] = 0
       /\ from[23] = 0
       /\ from[22] = 0
       /\ from[21] = 0
       /\ from[20] = 0
       /\ from[19] = 0
       /\ from[18] = 0
       /\ from[17] = 0
  BY ONLY <1>6, <1>10
<1>12. /\ from[1] = (n % 2) + 2 * from[2]
       /\ from[2] = ((n \div 2) % 2) + 2 * from[3]
       /\ from[3] = ((n \div 4) % 2) + 2 * from[4]
       /\ from[4] = ((n \div 8) % 2) + 2 * from[5]
       /\ from[5] = ((n \div 16) % 2) + 2 * from[6]
       /\ from[6] = ((n \div 32) % 2) + 2 * from[7]
       /\ from[7] = ((n \div 64) % 2) + 2 * from[8]
       /\ from[8] = ((n \div 128) % 2) + 2 * from[9]
       /\ from[9] = ((n \div 256) % 2) + 2 * from[10]
       /\ from[10] = ((n \div 512) % 2) + 2 * from[11]
       /\ from[11] = ((n \div 1024) % 2) + 2 * from[12]
       /\ from[12] = ((n \div 2048) % 2) + 2 * from[13]
       /\ from[13] = ((n \div 4096) % 2) + 2 * from[14]
       /\ from[14] = ((n \div 8192) % 2) + 2 * from[15]
       /\ from[15] = ((n \div 16384) % 2) + 2 * from[16]
       /\ from[16] = ((n \div 32768) % 2) + 2 * from[17]
  BY ONLY <1>4, <1>6, <1>7
<1>13. from[1] = n
  BY ONLY <1>9, <1>11, <1>12, HalvesOfNumber, <1>0, SMTT(30)
<1> QED
  BY ONLY <1>2, <1>4, <1>6, <1>13

(* Ten bits are less than 1024. *)
LEMMA TenBits ==
  ASSUME NEW bits \in Buffers, Len(bits) = 10
  PROVE  NumberOf(bits) \in Nat /\ NumberOf(bits) <= 1023
<1>1. PICK from : AddsUp(bits, from)
  BY NumberAddsUp
<1>2. /\ from[11] = 0 /\ NumberOf(bits) = from[1]
      /\ \A i \in 1..10 : from[i] = bits[i] + 2 * from[i + 1]
  BY <1>1 DEF AddsUp
<1>3. \A i \in 1..10 : bits[i] \in {0, 1}
  BY ElementOfSeq DEF Buffers
<1>4. \A b \in {0, 1}, f, most \in Nat : f <= most => b + 2 * f \in Nat /\ b + 2 * f <= 2 * most + 1
  OBVIOUS
<1>5. from[11] \in Nat /\ from[11] <= 0
  BY <1>2
<1>6. from[10] \in Nat /\ from[10] <= 1
  <2>1. bits[10] \in {0, 1} /\ from[10] = bits[10] + 2 * from[11]
    BY <1>2, <1>3
  <2> QED
    BY ONLY <2>1, <1>4, <1>5
<1>7. from[9] \in Nat /\ from[9] <= 3
  <2>1. bits[9] \in {0, 1} /\ from[9] = bits[9] + 2 * from[10]
    BY <1>2, <1>3
  <2> QED
    BY ONLY <2>1, <1>4, <1>6
<1>8. from[8] \in Nat /\ from[8] <= 7
  <2>1. bits[8] \in {0, 1} /\ from[8] = bits[8] + 2 * from[9]
    BY <1>2, <1>3
  <2> QED
    BY ONLY <2>1, <1>4, <1>7
<1>9. from[7] \in Nat /\ from[7] <= 15
  <2>1. bits[7] \in {0, 1} /\ from[7] = bits[7] + 2 * from[8]
    BY <1>2, <1>3
  <2> QED
    BY ONLY <2>1, <1>4, <1>8
<1>10. from[6] \in Nat /\ from[6] <= 31
  <2>1. bits[6] \in {0, 1} /\ from[6] = bits[6] + 2 * from[7]
    BY <1>2, <1>3
  <2> QED
    BY ONLY <2>1, <1>4, <1>9
<1>11. from[5] \in Nat /\ from[5] <= 63
  <2>1. bits[5] \in {0, 1} /\ from[5] = bits[5] + 2 * from[6]
    BY <1>2, <1>3
  <2> QED
    BY ONLY <2>1, <1>4, <1>10
<1>12. from[4] \in Nat /\ from[4] <= 127
  <2>1. bits[4] \in {0, 1} /\ from[4] = bits[4] + 2 * from[5]
    BY <1>2, <1>3
  <2> QED
    BY ONLY <2>1, <1>4, <1>11
<1>13. from[3] \in Nat /\ from[3] <= 255
  <2>1. bits[3] \in {0, 1} /\ from[3] = bits[3] + 2 * from[4]
    BY <1>2, <1>3
  <2> QED
    BY ONLY <2>1, <1>4, <1>12
<1>14. from[2] \in Nat /\ from[2] <= 511
  <2>1. bits[2] \in {0, 1} /\ from[2] = bits[2] + 2 * from[3]
    BY <1>2, <1>3
  <2> QED
    BY ONLY <2>1, <1>4, <1>13
<1>15. from[1] \in Nat /\ from[1] <= 1023
  <2>1. bits[1] \in {0, 1} /\ from[1] = bits[1] + 2 * from[2]
    BY <1>2, <1>3
  <2> QED
    BY ONLY <2>1, <1>4, <1>14
<1> QED
  BY ONLY <1>2, <1>15

(* The highest bit of such a number. *)
LEMMA HighestOfTen ==
  ASSUME NEW n \in Nat, n <= 1023, n # 0
  PROVE  LET top == CHOOSE k \in 0..10 : 2^k <= n /\ n < 2^(k + 1)
         IN top \in 0..10 /\ 2^top <= n
<1> DEFINE highest(k) == 2^k <= n /\ n < 2^(k + 1)
<1>1. /\ 2^0 = 1 /\ 2^1 = 2 /\ 2^2 = 4 /\ 2^3 = 8 /\ 2^4 = 16 /\ 2^5 = 32 /\ 2^6 = 64
      /\ 2^7 = 128 /\ 2^8 = 256 /\ 2^9 = 512 /\ 2^10 = 1024
  OBVIOUS
<1>2. \/ highest(0) \/ highest(1) \/ highest(2) \/ highest(3) \/ highest(4)
      \/ highest(5) \/ highest(6) \/ highest(7) \/ highest(8) \/ highest(9)
  BY <1>1
<1> HIDE DEF highest
<1>3. \E k \in 0..10 : highest(k)
  BY <1>2
<1>4. \E k \in 0..10 : 2^k <= n /\ n < 2^(k + 1)
  BY <1>3 DEF highest
<1> QED
  BY ONLY <1>4, ZenonT(60)

(* A half read from the wire is a float. *)
LEMMA UnpackedIsFloat ==
  ASSUME NEW half \in Buffers, Len(half) = 16
  PROVE  Unpacked(half) \in Buffers /\ Len(Unpacked(half)) = 32
<1> DEFINE exponent == NumberOf(SubSeq(half, 11, 15))
           mantissa == NumberOf(SubSeq(half, 1, 10))
           top == CHOOSE k \in 0..10 : 2^k <= mantissa /\ mantissa < 2^(k + 1)
           magnitude ==
             CASE exponent \in 1..30 -> (exponent + 112) * 2^23 + mantissa * 2^13
               [] exponent = 31      -> 255 * 2^23 + mantissa * 2^13
               [] OTHER -> IF mantissa = 0 THEN 0
                           ELSE (103 + top) * 2^23 + (mantissa - 2^top) * 2^(23 - top)
<1>1. exponent \in Nat
  <2>1. 11 \in Nat \ {0} /\ 15 \in Nat /\ 11 <= 15 /\ 15 <= Len(half)
    OBVIOUS
  <2> QED
    BY ONLY <2>1, half \in Buffers, NumberOfPart, Zenon DEF exponent
<1>2. mantissa \in Nat /\ mantissa <= 1023
  <2>1. 0 \in Nat /\ 10 \in Nat /\ 10 <= Len(half)
    OBVIOUS
  <2>2. SubSeq(half, 0 + 1, 10) \in Buffers /\ Len(SubSeq(half, 0 + 1, 10)) = 10
    <3>1. /\ SubSeq(half, 0 + 1, 10) \in Buffers
          /\ Len(SubSeq(half, 0 + 1, 10)) = IF 0 <= 10 THEN 10 - 0 ELSE 0
      BY ONLY <2>1, half \in Buffers, PartOfBuffer, Zenon
    <3> QED
      BY ONLY <3>1
  <2>3. 0 + 1 = 1
    OBVIOUS
  <2> QED
    BY ONLY <2>2, <2>3, TenBits, ZenonT(60)
<1>3. mantissa # 0 => /\ top \in 0..10 /\ 2^top <= mantissa
  BY <1>2, HighestOfTen
<1> HIDE DEF exponent, mantissa, top
<1>4. mantissa # 0 => /\ 2^top \in Nat /\ 2^(23 - top) \in Nat /\ top \in Nat
                      /\ mantissa - 2^top \in Nat
  <2>1. mantissa # 0 => top \in 0..30 /\ 23 - top \in 0..30 /\ top \in Nat
    BY <1>3
  <2>2. mantissa # 0 => 2^top \in Nat /\ 2^(23 - top) \in Nat
    BY <2>1, PowerOfTwo
  <2> QED
    BY <1>2, <1>3, <2>1, <2>2
<1>5. ASSUME mantissa # 0
      PROVE  (103 + top) * 2^23 + (mantissa - 2^top) * 2^(23 - top) \in Nat
  <2>1. ASSUME NEW a \in Nat, NEW b \in Nat, NEW c \in Nat
        PROVE  (103 + a) * 2^23 + b * c \in Nat
    <3>1. b * c \in Nat /\ (103 + a) * 2^23 \in Nat
      OBVIOUS
    <3> QED
      BY <3>1
  <2> QED
    BY <1>4, <1>5, <2>1
<1>6. /\ (exponent + 112) * 2^23 + mantissa * 2^13 \in Nat
      /\ 255 * 2^23 + mantissa * 2^13 \in Nat
  BY <1>1, <1>2
<1>7. magnitude \in Nat
  BY <1>5, <1>6, Zenon
<1>9. half[16] \in {0, 1}
  <2>1. 16 \in 1..Len(half)
    OBVIOUS
  <2> QED
    BY <2>1, BitOfBuffer, Zenon
<1>10. Unpacked(half) = BitsOf(magnitude, 31) \o <<half[16]>>
  BY DEF Unpacked, exponent, mantissa, top
<1> HIDE DEF magnitude
<1>11. 31 \in 0..31 /\ 31 + 1 = 32
  OBVIOUS
<1>12. /\ BitsOf(magnitude, 31) \o <<half[16]>> \in Buffers
       /\ Len(BitsOf(magnitude, 31) \o <<half[16]>>) = 31 + 1
  BY ONLY <1>7, <1>9, <1>11, NumberAndSign, Zenon
<1> QED
  BY ONLY <1>10, <1>11, <1>12

(* The mantissa of a small number is a number when it is shifted. *)
LEMMA ShiftedIsNat ==
  ASSUME NEW m \in Nat, NEW n \in Nat
  PROVE  Shifted(m, n) \in Nat
<1>1. CASE n > 26
  BY <1>1 DEF Shifted
<1>2. CASE ~(n > 26)
  <2>1. n \in 0..30
    BY <1>2
  <2>4. 2^n \in Nat \ {0}
    BY <2>1, PowerOfTwo, Zenon
  <2>2. ASSUME NEW p \in Nat \ {0}
        PROVE  m \div p \in Nat
    OBVIOUS
  <2>3. m \div 2^n \in Nat /\ (m \div 2^n) + 1 \in Nat
    BY <2>4, <2>2
  <2> QED
    BY <1>2, <2>3 DEF Shifted
<1> QED
  BY <1>1, <1>2

(* A float is a half on the wire, ... *)
LEMMA HalfIsBits ==
  ASSUME NEW float \in Buffers, Len(float) = 32
  PROVE  Half(float) \in Buffers /\ Len(Half(float)) = 16
<1> DEFINE exponent == NumberOf(SubSeq(float, 24, 31))
           mantissa == NumberOf(SubSeq(float, 1, 23))
           masked == (mantissa \div 4096) * 4096
           scaled == IF exponent > 112 THEN (exponent - 112) * 2^23 + masked
                     ELSE IF exponent = 0 THEN 0 ELSE Shifted(2^23 + masked, 113 - exponent)
           magnitude == IF exponent < 255 THEN Lesser(scaled + 4096, 31 * 2^23) \div 2^13
                        ELSE IF mantissa = 0 THEN 31 * 2^10 ELSE 63 * 2^9
<1>1. exponent \in Nat /\ mantissa \in Nat
  <2>1. /\ 24 \in Nat \ {0} /\ 31 \in Nat /\ 24 <= 31 /\ 31 <= Len(float)
        /\ 1 \in Nat \ {0} /\ 23 \in Nat /\ 1 <= 23 /\ 23 <= Len(float)
    OBVIOUS
  <2>2. exponent \in Nat
    BY ONLY <2>1, float \in Buffers, NumberOfPart, Zenon DEF exponent
  <2>3. mantissa \in Nat
    BY ONLY <2>1, float \in Buffers, NumberOfPart, Zenon DEF mantissa
  <2> QED
    BY <2>2, <2>3
<1> HIDE DEF exponent, mantissa
<1>2. masked \in Nat
  BY <1>1
<1> HIDE DEF masked
<1>3. scaled \in Nat
  <2>1. CASE exponent > 112
    BY <1>1, <1>2, <2>1
  <2>2. CASE ~(exponent > 112)
    <3>1. 2^23 + masked \in Nat /\ 113 - exponent \in Nat
      BY <1>1, <1>2, <2>2
    <3>2. Shifted(2^23 + masked, 113 - exponent) \in Nat
      BY <3>1, ShiftedIsNat
    <3> QED
      BY <2>2, <3>2
  <2> QED
    BY <2>1, <2>2
<1> HIDE DEF scaled
<1>4. magnitude \in Nat
  BY <1>1, <1>3 DEF Lesser
<1>6. float[32] \in {0, 1}
  <2>1. 32 \in 1..Len(float)
    OBVIOUS
  <2> QED
    BY <2>1, BitOfBuffer, Zenon
<1>7. Half(float) = BitsOf(magnitude, 15) \o <<float[32]>>
  BY DEF Half, exponent, mantissa, masked, scaled
<1> HIDE DEF magnitude
<1>11. 15 \in 0..31 /\ 15 + 1 = 16
  OBVIOUS
<1>12. /\ BitsOf(magnitude, 15) \o <<float[32]>> \in Buffers
       /\ Len(BitsOf(magnitude, 15) \o <<float[32]>>) = 15 + 1
  BY ONLY <1>4, <1>6, <1>11, NumberAndSign, Zenon
<1> QED
  BY ONLY <1>7, <1>11, <1>12

(* ... and so is one that had to be brought back to the largest first. *)
LEMMA SaturatedIsFloat ==
  ASSUME NEW float \in Buffers, Len(float) = 32
  PROVE  Saturated(float) \in Buffers /\ Len(Saturated(float)) = 32
<1>1. PICK most \in Nat : \/ Saturated(float) = BitsOf(most, 31) \o <<float[32]>>
                        \/ Saturated(float) = float
  <2> DEFINE largest == 142 * 2^23 + 1023 * 2^13
  <2>1. largest \in Nat
    OBVIOUS
  <2>2. \/ Saturated(float) = BitsOf(largest, 31) \o <<float[32]>>
        \/ Saturated(float) = float
    BY DEF Saturated
  <2> HIDE DEF largest
  <2> QED
    BY <2>1, <2>2
<1>2. float[32] \in {0, 1}
  <2>1. 32 \in 1..Len(float)
    OBVIOUS
  <2> QED
    BY <2>1, BitOfBuffer, Zenon
<1>3. 31 \in 0..31 /\ 31 + 1 = 32
  OBVIOUS
<1>4. /\ BitsOf(most, 31) \o <<float[32]>> \in Buffers
      /\ Len(BitsOf(most, 31) \o <<float[32]>>) = 31 + 1
  BY ONLY most \in Nat, <1>2, <1>3, NumberAndSign, Zenon
<1> QED
  BY ONLY <1>1, <1>3, <1>4, float \in Buffers, Len(float) = 32

-----------------------------------------------------------------------------
(* Where bit i of element k lies in an array of n elements of w bits. *)
Place(n, w, k, i) ==
  /\ (k - 1) * w \in Nat /\ (k - 1) * w + w <= n * w
  /\ (k - 1) * w + i \in 1..(n * w)
  /\ ((k - 1) * w + i - 1) \div w = k - 1
  /\ ((k - 1) * w + i - 1) % w = i - 1

(* Bit i of element k, of w bits each, has a place of its own. *)
LEMMA PlaceInArray ==
  ASSUME NEW n \in Nat, NEW w \in Nat \ {0}, NEW k \in 1..n, NEW i \in 1..w
  PROVE  Place(n, w, k, i)
<1> DEFINE q == k - 1
           r == i - 1
           before == n - k
<1>1. q \in Nat /\ r \in 0..(w - 1) /\ before \in Nat /\ n = q + 1 + before
  OBVIOUS
<1>2. q * w + r = (k - 1) * w + i - 1
  OBVIOUS
<1> HIDE DEF q, r, before
<1>3. (q * w + r) \div w = q /\ (q * w + r) % w = r
  BY <1>1
<1>4. q * w \in Nat /\ before * w \in Nat /\ n * w = q * w + w + before * w
  BY <1>1
<1> QED
  BY <1>1, <1>2, <1>3, <1>4 DEF q, r, Place

(* Any number has so many bits in memory, and so many on the wire. *)
LEMMA WireBits ==
  ASSUME NEW e \in Numbers \cup Halves
  PROVE  /\ e.width \in Nat \ {0} /\ MemoryWidth(e) \in Nat
         /\ \A v \in InC(e) : OnWire(e, v) \in Buffers /\ Len(OnWire(e, v)) = e.width
<1>1. CASE e \in Numbers
  BY <1>1, WidthInMemory, OnWireBits
<1>2. CASE e = Float(16)
  <2>1. e.kind = "float" /\ e.width = 16 /\ MemoryWidth(e) = 32
    BY <1>2 DEF Float, MemoryWidth
  <2>2. ASSUME NEW v \in InC(e)
        PROVE  OnWire(e, v) \in Buffers /\ Len(OnWire(e, v)) = 16
    <3>1. v \in Buffers /\ Len(v) = 32
      <4>1. v \in [1..32 -> {0, 1}] /\ 32 \in Nat
        BY <2>1 DEF InC
      <4> QED
        BY <4>1, BufferOfBits
    <3>2. Saturated(v) \in Buffers /\ Len(Saturated(v)) = 32
      BY <3>1, SaturatedIsFloat
    <3>3. OnWire(e, v) = Half(Saturated(v))
      BY <2>1 DEF OnWire
    <3> QED
      BY <3>2, <3>3, HalfIsBits
  <2> QED
    BY <2>1, <2>2
<1> QED
  BY <1>1, <1>2 DEF Halves

(* An array on the wire has the bits of its elements one after the other. *)
LEMMA ArrayBits ==
  ASSUME NEW e \in Numbers \cup Halves, NEW v \in Seq(InC(e))
  PROVE  /\ ArrayOnWire(e, v) \in Buffers /\ Len(v) \in Nat
         /\ Len(ArrayOnWire(e, v)) = Len(v) * e.width
         /\ \A k \in 1..Len(v), i \in 1..e.width :
              ArrayOnWire(e, v)[(k - 1) * e.width + i] = OnWire(e, v[k])[i]
<1>1. e.width \in Nat \ {0} /\ Len(v) \in Nat /\ Len(v) * e.width \in Nat
  BY WireBits
<1> DEFINE w == e.width
           l == Len(v) * w
<1>2. ASSUME NEW j \in 1..l
      PROVE  /\ (j - 1) \div w \in 0..(Len(v) - 1) /\ (j - 1) % w \in 0..(w - 1)
  <2> DEFINE d == (j - 1) \div w
             r == (j - 1) % w
  <2>1. w \in Nat \ {0} /\ Len(v) \in Nat /\ j - 1 \in Nat /\ j - 1 < Len(v) * w
    BY <1>1
  <2> HIDE DEF w, l
  <2>2. d \in Nat /\ r \in 0..(w - 1) /\ j - 1 = d * w + r
    BY <2>1
  <2> HIDE DEF d, r
  <2>3. d < Len(v)
    <3>1. SUFFICES ASSUME d >= Len(v) PROVE FALSE
      BY <2>1, <2>2
    <3>2. d * w >= Len(v) * w
      BY <2>1, <2>2, <3>1
    <3>3. d * w \in Nat /\ Len(v) * w \in Nat
      BY <2>1, <2>2
    <3> QED
      BY <2>1, <2>2, <3>2, <3>3
  <2> QED
    BY <2>1, <2>2, <2>3 DEF d, r
<1>3. ASSUME NEW j \in 1..l
      PROVE  OnWire(e, v[((j - 1) \div w) + 1])[((j - 1) % w) + 1] \in {0, 1}
  <2> DEFINE d == (j - 1) \div w
             r == (j - 1) % w
  <2>0. d \in 0..(Len(v) - 1) /\ r \in 0..(w - 1) /\ Len(v) \in Nat /\ w \in Nat \ {0}
    BY <1>1, <1>2
  <2> HIDE DEF d, r, w
  <2>1. d + 1 \in 1..Len(v) /\ r + 1 \in 1..w
    BY <2>0
  <2>2. v[d + 1] \in InC(e)
    BY <2>1, ElementOfSeq
  <2>3. OnWire(e, v[d + 1]) \in Buffers /\ Len(OnWire(e, v[d + 1])) = w
    BY <2>2, WireBits DEF w
  <2> QED
    BY <2>1, <2>3, ElementOfSeq DEF Buffers, d, r
<1>4. ArrayOnWire(e, v) \in [1..l -> {0, 1}]
  BY <1>3 DEF ArrayOnWire
<1>5. ArrayOnWire(e, v) \in Buffers /\ Len(ArrayOnWire(e, v)) = l
  <2>1. l \in Nat
    BY <1>1
  <2> HIDE DEF l
  <2> QED
    BY <1>4, <2>1, BufferOfBits
<1>6. ASSUME NEW k \in 1..Len(v), NEW i \in 1..w
      PROVE  ArrayOnWire(e, v)[(k - 1) * w + i] = OnWire(e, v[k])[i]
  <2> DEFINE j == (k - 1) * w + i
  <2>1. j \in 1..l /\ (j - 1) \div w = k - 1 /\ (j - 1) % w = i - 1
    <3>1. Len(v) \in Nat /\ w \in Nat \ {0}
      BY <1>1
    <3>2. Place(Len(v), w, k, i)
      BY <3>1, PlaceInArray
    <3> QED
      BY <3>2 DEF Place
  <2>2. k - 1 + 1 = k /\ i - 1 + 1 = i
    BY <1>1
  <2> HIDE DEF j
  <2>3. ArrayOnWire(e, v)[j] = OnWire(e, v[((j - 1) \div w) + 1])[((j - 1) % w) + 1]
    BY <2>1 DEF ArrayOnWire
  <2>4. ArrayOnWire(e, v)[j] = OnWire(e, v[k - 1 + 1])[i - 1 + 1]
    BY <2>1, <2>3
  <2> QED
    BY <2>2, <2>4 DEF j
<1> QED
  BY <1>1, <1>5, <1>6

(* The elements of an array, written without a gap at any bit of a buffer, *)
(* are read back one by one, each as it was or as its type limits it.      *)
THEOREM ArrayReadBack ==
  ASSUME NEW e \in Numbers, NEW v \in Seq(InC(e)), NEW before \in Buffers, NEW after \in Buffers
  PROVE  LET read == ReadScalars(e, Len(v), (before \o ArrayOnWire(e, v)) \o after, Len(before))
         IN DOMAIN read = DOMAIN v /\ \A k \in DOMAIN v : SurvivesScalar(e, v[k], read[k])
<1> DEFINE bits == ArrayOnWire(e, v)
           all == (before \o bits) \o after
           read == ReadScalars(e, Len(v), all, Len(before))
<1>1. /\ bits \in Buffers /\ Len(v) \in Nat /\ Len(bits) = Len(v) * e.width
      /\ \A k \in 1..Len(v), i \in 1..e.width :
           bits[(k - 1) * e.width + i] = OnWire(e, v[k])[i]
  BY ArrayBits
<1>2. e.width \in Nat \ {0} /\ Len(before) \in Nat /\ DOMAIN v = 1..Len(v)
  BY WidthInMemory, LenProperties DEF Buffers
<1> HIDE DEF bits
<1>3. all \in Buffers
  BY <1>1, PutAfter
<1>4. ASSUME NEW k \in 1..Len(v)
      PROVE  SurvivesScalar(e, v[k], ReadScalar(e, all, Len(before) + (k - 1) * e.width))
  <2> DEFINE o == (k - 1) * e.width
             taken == Taken(all, Len(before) + o, e.width)
  <2>1. o \in Nat /\ o + e.width <= Len(bits)
    <3>1. 1 \in 1..e.width
      BY <1>2
    <3>2. Place(Len(v), e.width, k, 1)
      BY <1>1, <1>2, <3>1, PlaceInArray
    <3> QED
      BY <1>1, <3>2 DEF Place
  <2>2. v[k] \in InC(e)
    BY ElementOfSeq
  <2>3. \A i \in 1..e.width : bits[o + i] = OnWire(e, v[k])[i]
    BY <1>1
  <2> HIDE DEF o
  <2>4. \A i \in 1..e.width : taken[i] = bits[o + i]
    <3>1. o \in Nat /\ e.width \in Nat /\ o + e.width <= Len(bits) /\ bits \in Buffers
      BY <1>1, <1>2, <2>1
    <3>2. TakenFrom(before, bits, after, o, e.width)
      BY <3>1, TakenInside
    <3> QED
      BY <3>2 DEF TakenFrom
  <2>5. Len(before) + o \in Nat
    BY <1>2, <2>1
  <2> HIDE DEF all
  <2>6. taken \in Buffers /\ Len(taken) = e.width
    BY <1>2, <1>3, <2>5, TakenBits
  <2>7. OnWire(e, v[k]) \in Buffers /\ Len(OnWire(e, v[k])) = e.width
    BY <2>2, OnWireBits
  <2>8. taken = OnWire(e, v[k])
    BY <2>3, <2>4, <2>6, <2>7, SameBits
  <2>9. SurvivesScalar(e, v[k], InMemory(e, taken))
    BY <2>2, <2>8, ReadOfWritten
  <2> QED
    BY <2>9 DEF ReadScalar, o
<1> HIDE DEF all
<1>5. /\ DOMAIN read = 1..Len(v)
      /\ \A k \in 1..Len(v) : read[k] = ReadScalar(e, all, Len(before) + (k - 1) * e.width)
  BY DEF ReadScalars
<1>6. DOMAIN read = DOMAIN v /\ \A k \in DOMAIN v : SurvivesScalar(e, v[k], read[k])
  BY <1>2, <1>4, <1>5
<1> QED
  BY <1>6 DEF all, bits

-----------------------------------------------------------------------------
(* A number that is what another was is written as the same bits. *)
LEMMA NumberAlike ==
  ASSUME NEW e \in Numbers, NEW v \in InC(e), NEW w \in InC(e), SurvivesScalar(e, v, w)
  PROVE  OnWire(e, w) = OnWire(e, v)
<1> DEFINE M == MemoryWidth(e)
           n == e.width
           one == OnWire(e, v)
           other == OnWire(e, w)
<1>1. /\ n \in Nat \ {0} /\ M \in Nat /\ n <= M /\ DOMAIN v = 1..M
      /\ ~(e.kind = "float" /\ e.width = 16)
      /\ e.kind = "uint" => e.truncated \in BOOLEAN
  BY WidthInMemory DEF InC
<1>2. /\ one \in Buffers /\ Len(one) = n
      /\ \/ /\ one = Ones(n) /\ e.kind = "uint" /\ ~e.truncated
            /\ \E i \in (n + 1)..M : v[i] = 1
         \/ /\ \A i \in 1..n : one[i] = v[i]
            /\ e.kind = "uint" /\ ~e.truncated => \A i \in (n + 1)..M : v[i] = 0
  BY OnWireBits
<1>3. /\ other \in Buffers /\ Len(other) = n
      /\ \/ /\ other = Ones(n) /\ e.kind = "uint" /\ ~e.truncated
            /\ \E i \in (n + 1)..M : w[i] = 1
         \/ /\ \A i \in 1..n : other[i] = w[i]
            /\ e.kind = "uint" /\ ~e.truncated => \A i \in (n + 1)..M : w[i] = 0
  BY OnWireBits
<1> DEFINE fits == e.truncated \/ \A i \in DOMAIN v : i > e.width => v[i] = 0
<1>4. CASE e.kind # "uint"
  BY <1>1, <1>4 DEF SurvivesScalar
<1>5. CASE e.kind = "uint" /\ fits
  <2>1. w = [i \in DOMAIN v |-> IF i > n THEN 0 ELSE v[i]]
    BY <1>5 DEF SurvivesScalar
  <2>2. \A i \in 1..M : w[i] = IF i > n THEN 0 ELSE v[i]
    BY <1>1, <2>1
  <2>3. \A i \in 1..n : other[i] = v[i]
    <3>1. ~ \E i \in (n + 1)..M : w[i] = 1
      BY <1>1, <2>2
    <3>2. \A i \in 1..n : w[i] = v[i]
      BY <1>1, <2>2
    <3> QED
      BY ONLY <1>3, <3>1, <3>2
  <2>4. \A i \in 1..n : one[i] = v[i]
    <3>1. ~e.truncated => ~ \E i \in (n + 1)..M : v[i] = 1
      BY <1>1, <1>5
    <3> QED
      BY ONLY <1>2, <3>1
  <2> HIDE DEF one, other, n
  <2>5. \A i \in 1..n : other[i] = one[i]
    BY ONLY <2>3, <2>4
  <2> QED
    BY ONLY <1>1, <1>2, <1>3, <2>5, SameBits DEF one, other
<1>6. CASE e.kind = "uint" /\ ~fits
  <2>1. w = [i \in DOMAIN v |-> IF i > n THEN 0 ELSE 1]
    BY <1>6 DEF SurvivesScalar
  <2>2. \A i \in 1..M : w[i] = IF i > n THEN 0 ELSE 1
    BY <1>1, <2>1
  <2>3. \A i \in 1..n : other[i] = 1
    <3>1. ~ \E i \in (n + 1)..M : w[i] = 1
      BY <1>1, <2>2
    <3>2. \A i \in 1..n : w[i] = 1
      BY <1>1, <2>2
    <3> QED
      BY ONLY <1>3, <3>1, <3>2
  <2>4. \A i \in 1..n : one[i] = 1
    <3>1. PICK j \in DOMAIN v : j > n /\ v[j] # 0
      BY <1>6
    <3>2. j \in (n + 1)..M
      BY <1>1, <3>1
    <3>3. ~e.truncated
      BY <1>6
    <3>4. one = Ones(n)
      BY ONLY <1>2, <1>6, <3>1, <3>2, <3>3
    <3> QED
      BY ONLY <3>4 DEF Ones
  <2> HIDE DEF one, other, n
  <2>5. \A i \in 1..n : other[i] = one[i]
    BY ONLY <2>3, <2>4
  <2> QED
    BY ONLY <1>1, <1>2, <1>3, <2>5, SameBits DEF one, other
<1> QED
  BY <1>4, <1>5, <1>6

(* So is an array of such numbers. *)
LEMMA NumbersAlike ==
  ASSUME NEW e \in Numbers, NEW v \in Seq(InC(e)), NEW w \in Seq(InC(e)), Len(w) = Len(v),
         \A k \in 1..Len(v) : SurvivesScalar(e, v[k], w[k])
  PROVE  ArrayOnWire(e, w) = ArrayOnWire(e, v)
<1> DEFINE n == Len(v)
           width == e.width
           one == ArrayOnWire(e, v)
           other == ArrayOnWire(e, w)
<1>1. n \in Nat /\ width \in Nat \ {0}
  BY WidthInMemory
<1>2. \A k \in 1..n : OnWire(e, w[k]) = OnWire(e, v[k])
  <2>1. ASSUME NEW k \in 1..n
        PROVE  v[k] \in InC(e) /\ w[k] \in InC(e)
    BY ElementOfSeq
  <2> QED
    BY <2>1, NumberAlike
<1>3. \A j \in 1..(n * width) : (j - 1) \div width + 1 \in 1..n
  <2>1. ASSUME NEW j \in 1..(n * width)
        PROVE  (j - 1) \div width + 1 \in 1..n
    <3> HIDE DEF n, width
    <3> DEFINE d == (j - 1) \div width
               r == (j - 1) % width
    <3>1. n * width \in Nat
      BY <1>1
    <3>2. d \in Nat /\ r \in 0..(width - 1) /\ j - 1 = d * width + r /\ j - 1 < n * width
      BY <1>1, <3>1
    <3> HIDE DEF d, r
    <3>3. d < n
      <4>1. SUFFICES ASSUME d >= n PROVE FALSE
        BY <1>1, <3>2
      <4>2. d * width >= n * width /\ d * width \in Nat
        BY <1>1, <3>2, <4>1
      <4> QED
        BY <1>1, <3>1, <3>2, <4>2
    <3> QED
      BY <1>1, <3>2, <3>3 DEF d
  <2> QED
    BY <2>1
<1>4. \A j \in 1..(n * width) :
        OnWire(e, w[((j - 1) \div width) + 1])[((j - 1) % width) + 1]
          = OnWire(e, v[((j - 1) \div width) + 1])[((j - 1) % width) + 1]
  BY ONLY <1>2, <1>3
<1>5. other = [j \in 1..(n * width) |->
                 OnWire(e, w[((j - 1) \div width) + 1])[((j - 1) % width) + 1]]
  BY DEF ArrayOnWire
<1>6. one = [j \in 1..(n * width) |->
               OnWire(e, v[((j - 1) \div width) + 1])[((j - 1) % width) + 1]]
  BY Zenon DEF ArrayOnWire
<1> QED
  BY ONLY <1>4, <1>5, <1>6

=============================================================================
