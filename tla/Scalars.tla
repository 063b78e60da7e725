------------------------------ MODULE Scalars -------------------------------
(***************************************************************************)
(* Numbers in memory and on the wire: the primitives of nunavut/support    *)
(* that the generated code calls, and the statements it generates for a    *)
(* number or an array of numbers, at whatever bit of the buffer it lies.   *)
(*                                                                         *)
(* A buffer is a sequence of bits, the least significant bit of the first  *)
(* byte first.  A number in memory is the sequence of its bits.            *)
(***************************************************************************)
EXTENDS Integers, Sequences

-----------------------------------------------------------------------------
(* The descriptions of numbers of so many bits.                            *)
UInt(w) == [kind |-> "uint", width |-> w, truncated |-> FALSE]
Truncated(w) == [kind |-> "uint", width |-> w, truncated |-> TRUE]
Bool == UInt(1)
Signed(w) == [kind |-> "int", width |-> w]
Float(w) == [kind |-> "float", width |-> w]

Scalar(e) == e.kind \in {"uint", "int", "float"}

(* the numbers that the types have; integers with a sign have the widths   *)
(* of C, and only halves have another form in memory than on the wire      *)
Numbers == [kind : {"uint"}, width : 1..64, truncated : BOOLEAN]
           \cup [kind : {"int"}, width : {8, 16, 32, 64}]
           \cup [kind : {"float"}, width : {32, 64}]

Halves == {Float(16)}

-----------------------------------------------------------------------------
(* Bits and numbers *)
Buffers == Seq({0, 1})

Zeros(n) == [i \in 1..n |-> 0]
Ones(n) == [i \in 1..n |-> 1]
BitsOf(n, w) == [i \in 1..w |-> (n \div 2^(i - 1)) % 2]

NumberOf(bits) ==
  LET from[i \in 1..(Len(bits) + 1)] ==
        IF i > Len(bits) THEN 0 ELSE bits[i] + 2 * from[i + 1]
  IN from[1]

Lesser(a, b) == IF a < b THEN a ELSE b

(* fault: the offset is left between two bytes *)
AlignNever(off) == off

(* offset_bits at the next byte *)
Align(off) == ((off + 7) \div 8) * 8

(* fault: a field that is not all there is not read at all *)
TakenWhole(buf, off, w) ==
  IF off + w <= Len(buf) THEN SubSeq(buf, off + 1, off + w) ELSE Zeros(w)

(* nunavutGetBits: what the buffer does not have is zero *)
Taken(buf, off, w) ==
  LET there == Lesser(w, Len(buf) - Lesser(Len(buf), off))
  IN SubSeq(buf, off + 1, off + there) \o Zeros(w - there)

-----------------------------------------------------------------------------
(* nunavutFloat16Pack: the bits of a float, rounded to a half by adding    *)
(* half a unit to the magnitude; what is too large becomes infinite.       *)
(* (4096 is half the unit at the 13th bit; 112 = 127 - 15.)                *)
Shifted(m, n) ==                   \* m / 2^n to the nearest, ties to even
  IF n > 26 THEN 0
  ELSE LET q == m \div 2^n
           r == m % 2^n
       IN IF 2 * r > 2^n \/ (2 * r = 2^n /\ q % 2 = 1) THEN q + 1 ELSE q

Half(float) ==
  LET exponent == NumberOf(SubSeq(float, 24, 31))
      mantissa == NumberOf(SubSeq(float, 1, 23))
      masked == (mantissa \div 4096) * 4096
      scaled == IF exponent > 112 THEN (exponent - 112) * 2^23 + masked
                ELSE IF exponent = 0 THEN 0 ELSE Shifted(2^23 + masked, 113 - exponent)
      magnitude == IF exponent < 255 THEN Lesser(scaled + 4096, 31 * 2^23) \div 2^13
                   ELSE IF mantissa = 0 THEN 31 * 2^10 ELSE 63 * 2^9
  IN BitsOf(magnitude, 15) \o <<float[32]>>

(* nunavutFloat16Unpack *)
Unpacked(half) ==
  LET exponent == NumberOf(SubSeq(half, 11, 15))
      mantissa == NumberOf(SubSeq(half, 1, 10))
      top == CHOOSE k \in 0..10 : 2^k <= mantissa /\ mantissa < 2^(k + 1)
      magnitude ==
        CASE exponent \in 1..30 -> (exponent + 112) * 2^23 + mantissa * 2^13
          [] exponent = 31      -> 255 * 2^23 + mantissa * 2^13
          [] OTHER -> IF mantissa = 0 THEN 0
                      ELSE (103 + top) * 2^23 + (mantissa - 2^top) * 2^(23 - top)
  IN BitsOf(magnitude, 31) \o <<half[16]>>

(* a finite value beyond +-65504 is brought back to it first *)
Saturated(float) ==
  LET exponent == NumberOf(SubSeq(float, 24, 31))
      largest == BitsOf(142 * 2^23 + 1023 * 2^13, 31)
  IN IF \/ exponent \in 143..254
        \/ exponent = 142 /\ NumberOf(SubSeq(float, 1, 23)) > 1023 * 2^13
     THEN largest \o <<float[32]>> ELSE float

(* bits of a scalar in memory *)
MemoryWidth(e) ==
  IF e.kind = "float" /\ e.width = 16 THEN 32
  ELSE IF e.width = 1 THEN 1
  ELSE CHOOSE w \in {8, 16, 32, 64} : e.width <= w /\ (w = 8 \/ w < 2 * e.width)

(* what a number can be in memory *)
InC(e) == [1..MemoryWidth(e) -> {0, 1}]

(* fault: what does not fit loses its upper bits *)
OnWireCut(e, v) == SubSeq(v, 1, e.width)

(* a scalar as it is written: an unsigned number of more bits than memory  *)
(* has no type for is saturated or truncated, a half is packed             *)
OnWire(e, v) ==
  CASE e.kind = "float" /\ e.width = 16 -> Half(Saturated(v))
    [] e.kind = "uint" /\ ~e.truncated
         /\ (\E i \in (e.width + 1)..Len(v) : v[i] = 1) -> Ones(e.width)
    [] OTHER -> SubSeq(v, 1, e.width)

(* a scalar as it is read *)
InMemory(e, bits) ==
  IF e.kind = "float" /\ e.width = 16 THEN Unpacked(bits)
  ELSE bits \o Zeros(MemoryWidth(e) - e.width)

(* an array of numbers, without a gap *)
ArrayOnWire(e, v) ==
  [i \in 1..(Len(v) * e.width) |->
     OnWire(e, v[((i - 1) \div e.width) + 1])[((i - 1) % e.width) + 1]]

(* fault: a length of eight bits only up to 127 *)
LengthWidthSigned(capacity) == IF capacity <= 127 THEN 8 ELSE 16

(* the length prefix of an array *)
LengthWidth(capacity) == IF capacity <= 255 THEN 8 ELSE 16

(* a number, and an array of n numbers, read from bit off of a buffer *)
ReadScalar(e, buf, off) == InMemory(e, Taken(buf, off, e.width))

ReadScalars(e, n, buf, off) ==
  [k \in 1..n |-> ReadScalar(e, buf, off + (k - 1) * e.width)]

-----------------------------------------------------------------------------
(* A half is the nearest to the float it was made from, or the largest     *)
(* half there is; an infinity or a NaN stays one.  The magnitude of a      *)
(* float read as a number counts units of 2^13 for a normal half; below,   *)
(* a half is a multiple of 2^-24.                                          *)
NearestHalf(float, half) ==
  LET Magnitude(f) == NumberOf(SubSeq(f, 1, 31))
      exponent == Magnitude(float) \div 2^23
      nan(f) == Magnitude(f) > 255 * 2^23
      largest == 142 * 2^23 + 1023 * 2^13
      unit == 2^(126 - exponent)
      multiple == CHOOSE n \in 0..1024 : Unpacked(BitsOf(n, 16)) = [half EXCEPT ![32] = 0]
      apart == 2 * multiple * unit - 2 * ((Magnitude(float) % 2^23) + 2^23)
  IN /\ half[32] = float[32]
     /\ CASE nan(float) -> nan(half)
          [] exponent = 255 /\ ~nan(float) -> Magnitude(half) = 255 * 2^23
          [] exponent < 255 /\ Magnitude(float) >= largest -> Magnitude(half) = largest
          [] exponent \in 113..142 /\ Magnitude(float) < largest ->
               Magnitude(half) - Magnitude(float) \in -4096..4096
          [] exponent \in 102..112 -> apart \in (-unit)..unit
          [] exponent < 102 -> Magnitude(half) = 0

(* w is v as far as e can express it: a number too large for its width is  *)
(* brought back to the largest, or loses its upper bits if e says so; a    *)
(* half is rounded; everything else is what it was.                        *)
SurvivesScalar(e, v, w) ==
  CASE e.kind = "uint" ->
         IF e.truncated \/ \A i \in DOMAIN v : i > e.width => v[i] = 0
         THEN w = [i \in DOMAIN v |-> IF i > e.width THEN 0 ELSE v[i]]
         ELSE w = [i \in DOMAIN v |-> IF i > e.width THEN 0 ELSE 1]
    [] e.kind = "float" /\ e.width = 16 -> NearestHalf(v, w)
    [] OTHER                            -> w = v

=============================================================================
