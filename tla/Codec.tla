------------------------------- MODULE Codec --------------------------------
(***************************************************************************)
(* A message on its way: a publisher serializes an object of one type, the *)
(* transport carries the payload, and a subscriber deserializes it, maybe  *)
(* as another version of the type.  On the way the transport may add zero  *)
(* bytes (the padding of a CAN FD frame) and cuts the payload at the       *)
(* extent of the subscription; the payload may also be shorter than this   *)
(* version of the type, or be of some other type.                          *)
(***************************************************************************)
EXTENDS Dsdl

CONSTANTS
  Types,         \* the schemas
  Patterns,      \* the bytes that values in memory are made of, in fours
  Counts,        \* how full variable arrays are: subset of Fillings
  Foreign,       \* the bytes that payloads of other types are made of
  Padding,       \* how many zero bytes the transport may add
  MaxFull        \* arrays are filled in types of buffers up to this many bytes

ASSUME CodecAssumption ==
  /\ \A i \in DOMAIN Types : Schema(Types[i])
  /\ Patterns \subseteq [1..4 -> 0..255]
  /\ Counts \subseteq {"empty", "one", "full", "over"}
  /\ Foreign \subseteq 0..255
  /\ Padding \subseteq Nat
  /\ MaxFull \in Nat

VARIABLES
  type,          \* which type the publisher's object has
  object,        \* the object
  out,           \* what X_serialize_ returned and wrote, "NOTHING" before
  wire,          \* the payload that arrives
  reader,        \* which type the subscriber takes it for
  in,            \* what X_deserialize_ returned and read
  phase          \* "object", "written", "carried", "read"

vars == <<type, object, out, wire, reader, in, phase>>

-----------------------------------------------------------------------------
Options(t) == IF t.kind = "union" THEN DOMAIN t.members ELSE 0..1

Bytes(b, n) == [i \in 1..(8 * n) |-> (b \div 2^((i - 1) % 8)) % 2]

NotYet == Unwritten("NOTHING")

-----------------------------------------------------------------------------
Init ==
  /\ type \in DOMAIN Types
  /\ reader = type
  /\ in = Deserialize(Types[type], <<>>)
  /\ object = in.obj
  /\ out = NotYet
  /\ wire = <<>>
  /\ phase = "object"

(* X_initialize_: an object like the one an empty payload stands for.      *)
Initialize ==
  /\ phase \in {"read", "written"}
  /\ phase = "written" => out.err # "SUCCESS"
  /\ reader' = type
  /\ in' = Deserialize(Types[type], <<>>)
  /\ object' = in'.obj
  /\ out' = NotYet
  /\ wire' = <<>>
  /\ phase' = "object"
  /\ UNCHANGED type

(* The publisher fills its object in, *)
Fill ==
  /\ phase = "object"
  /\ object = in.obj
  /\ \E p \in Patterns, o \in Options(Types[type]), filling \in Counts :
       /\ filling \in {"full", "over"} => Types[type].buffer <= MaxFull
       /\ object' = Filled(Types[type], p, filling, o)
  /\ UNCHANGED <<type, out, wire, reader, in, phase>>

(* and serializes it into a buffer of the size the macro says, or one less *)
Publish ==
  /\ phase = "object"
  /\ \E capacity \in {Types[type].buffer - 1, Types[type].buffer} :
       /\ capacity >= 0
       /\ out' = Serialize(Types[type], object, capacity)
  /\ phase' = "written"
  /\ UNCHANGED <<type, object, wire, reader, in>>

(* The types a subscriber may take the payload for: other versions with    *)
(* the same name and major version number                                  *)
Readers(t) ==
  {r \in DOMAIN Types : /\ Types[r].name = Types[t].name
                        /\ Types[r].version[1] = Types[t].version[1]}

(* The transport carries n bytes of it, and pads it if it carries all.     *)
(* What is beyond the extent the subscriber gave does not reach it.        *)
Carry ==
  /\ phase = "written"
  /\ out.err = "SUCCESS"
  /\ \E r \in Readers(type), pad \in Padding :
     LET size == Len(out.bits) \div 8
     IN \E n \in {0, 1, size \div 2, size - 1, size} \cap 0..size :
          LET sent == SubSeq(out.bits, 1, 8 * n) \o Zeros(8 * pad)
          IN /\ n < size => pad = 0
             /\ wire' = SubSeq(sent, 1, Lesser(Len(sent), 8 * Types[r].extent))
             /\ reader' = r
  /\ phase' = "carried"
  /\ UNCHANGED <<type, object, out, in>>

(* Something else arrives. *)
CarryForeign ==
  /\ phase = "object"
  /\ object = in.obj
  /\ \E b \in Foreign, n \in {1, Types[type].buffer \div 2, Types[type].buffer} :
       wire' = Bytes(b, Lesser(n, MaxFull))
  /\ phase' = "carried"
  /\ UNCHANGED <<type, object, out, reader, in>>

Receive ==
  /\ phase = "carried"
  /\ in' = Deserialize(Types[reader], wire)
  /\ phase' = "read"
  /\ UNCHANGED <<type, object, out, wire, reader>>

Next == Initialize \/ Fill \/ Publish \/ Carry \/ CarryForeign \/ Receive

Spec == Init /\ [][Next]_vars

-----------------------------------------------------------------------------
(* A payload is a whole number of bytes, and so is what was written; what  *)
(* was read is an object of its type, whatever was in the payload.         *)
TypeOK ==
  /\ {type, reader} \subseteq DOMAIN Types
  /\ Object(Types[type], object)
  /\ phase # "carried" /\ in.err = "SUCCESS" => Object(Types[reader], in.obj)
  /\ wire \in Buffers /\ out.bits \in Buffers
  /\ Len(wire) % 8 = 0
  /\ Len(out.bits) % 8 = 0 \/ out.err # "SUCCESS"
  /\ out.err \in {"NOTHING", "SUCCESS", "BUFFER_TOO_SMALL", "BAD_ARRAY_LENGTH"}
  /\ in.err \in {"SUCCESS", "BAD_ARRAY_LENGTH", "BAD_UNION_TAG", "BAD_DELIMITER_HEADER"}
  /\ phase \in {"object", "written", "carried", "read"}

(* the payload has all that was written, possibly padded *)
Intact ==
  /\ phase = "read"
  /\ out.err = "SUCCESS"
  /\ Len(out.bits) <= Len(wire)
  /\ SubSeq(wire, 1, Len(out.bits)) = out.bits

(* What the publisher serialized is what the subscriber gets, padded or    *)
(* not, for all the generated types and however full the arrays, and the   *)
(* subscriber is told the size without the padding.                        *)
RoundTrip ==
  Intact /\ reader = type =>
    /\ in.err = "SUCCESS"
    /\ in.size = Len(out.bits) \div 8
    /\ Survives(Types[type], object, in.obj)

(* A payload that ends early stands for the one with zeros after it, up to *)
(* the extent: wherever it is cut, also inside of a number or of a nested  *)
(* object, X_deserialize_ says the same of both.  (Except that a delimiter *)
(* header must not reach over the end of the payload.)                     *)
ShortMeansZeros ==
  phase = "read" =>
    LET long == wire \o Zeros(8 * Types[reader].buffer)
        other == Deserialize(Types[reader], long)
    IN \/ in.err = other.err /\ in.obj = other.obj
       \/ in.err = "BAD_DELIMITER_HEADER"

(* The macros of a type: a buffer for the largest object, no more and no   *)
(* less, and an extent that it does not exceed.                            *)
MacrosRight(t) == Largest(t) = 8 * t.buffer /\ t.buffer <= t.extent

(* Nothing that X_serialize_ writes is larger than the buffer the macro    *)
(* makes room for, and a subscription with the extent receives all of it.  *)
FitsBuffer ==
  /\ MacrosRight(Types[type])
  /\ out.err = "SUCCESS" => Len(out.bits) <= 8 * Types[type].buffer

(* Versions of a type with the same major number, from 1 on, put the same  *)
(* bytes on the wire.  A reader of an older version may refuse a longer    *)
(* array.  (uavcan.file.Write is left out: the request of version 1.0 puts *)
(* the length of its data in one byte, that of 1.1 in two.)                *)
VersionsAgree ==
  Intact /\ Types[type].version[1] >= 1 /\ Types[type].name # "uavcan.file.Write.Request" =>
    \/ /\ in.err = "SUCCESS"
       /\ Serialize(Types[reader], in.obj, Types[reader].buffer) = out
    \/ /\ in.err = "BAD_ARRAY_LENGTH"
       /\ Types[reader].version[2] < Types[type].version[2]

(* Whatever bytes an object was read from, it can be written again, and    *)
(* what is written then is read as the same bytes: no payload makes an     *)
(* object that the node could not relay.                                   *)
Relayable ==
  phase = "read" /\ in.err = "SUCCESS" =>
    LET t == Types[reader]
        again == Serialize(t, in.obj, t.buffer)
    IN /\ again.err = "SUCCESS"
       /\ Serialize(t, Deserialize(t, again.bits).obj, t.buffer) = again

(* An empty payload is an object of every type, the one X_initialize_      *)
(* makes: the assertion of X_initialize_ (err >= 0) cannot fail.           *)
EmptyIsAnObject == phase = "object" => in.err = "SUCCESS"

=============================================================================
