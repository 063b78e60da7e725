----------------------------- MODULE ByteArray ------------------------------
(***************************************************************************)
(* The task TByteArray: it keeps the array it is to send, and on each run  *)
(* has its message PMessageByteArray serialize and a node publish it.  The *)
(* message is a uavcan.primitive.array.Integer8, serialized and read with  *)
(* the operators of Dsdl.                                                  *)
(***************************************************************************)
EXTENDS DsdlUavcan, SequencesExt

CONSTANTS
  Arrays,        \* the arrays of the caller
  Addresses,     \* what the bytes at &byte_array may be, a pointer first
  MaxRuns        \* bound on the runs of the task

Integer8 == uavcan_primitive_array_Integer8_1_0
Room == 8 * Integer8.buffer

VARIABLES
  data_,         \* of the task: the array
  serialized_,   \* of the message: its whole buffer
  transfer_id,   \* of the message
  sent,          \* the payload published last
  runs           \* how often the task has run

vars == <<data_, serialized_, transfer_id, sent, runs>>

Element(n) == BitsOf(n, 8)

(* TByteArray and PMessageByteArray are constructed. *)
Init ==
  /\ data_ \in {[k \in DOMAIN a |-> Element(a[k])] : a \in Arrays}
  /\ serialized_ = Zeros(Room)
  /\ transfer_id = 0
  /\ sent = <<>>
  /\ runs = 0

(* SerializeMessage: memcpy(array.value.elements, &byte_array, size) takes *)
(* the bytes of the parameter itself, which is a pointer, and of what is   *)
(* on the stack after it.  What is in the buffer after the new message     *)
(* stays from the one before, all of it if the array is too long.          *)
SerializeMessage(size, stack) ==
  IF size > Integer8.members[1].capacity THEN serialized_
  ELSE LET value == [k \in 1..size |-> Element(stack[k])]
           out == Serialize(Integer8, <<value>>, Integer8.buffer).bits
       IN out \o SubSeq(serialized_, Len(out) + 1, Room)

(* Execute: the array is serialized anew, its transfer ID goes up, and the *)
(* whole buffer is published (SerializedSize is its size).                 *)
Execute ==
  /\ runs < MaxRuns
  /\ \E stack \in Addresses :
       serialized_' = SerializeMessage(Len(data_), stack)
  /\ transfer_id' = (transfer_id + 1) % 256
  /\ sent' = serialized_'
  /\ runs' = runs + 1
  /\ UNCHANGED data_

Next == Execute

Spec == Init /\ [][Next]_vars

-----------------------------------------------------------------------------
(* A subscriber of the array reads the data of the task: TByteArray keeps  *)
(* an "Array containing data to send" (TByteArray.h:24), and the message   *)
(* serializes "The byte array to serialize" (PMessageByteArray.h:61).      *)
DataIsSent ==
  sent # <<>> =>
    LET read == Deserialize(Integer8, sent)
    IN read.err = "SUCCESS" /\ read.obj = <<data_>>

=============================================================================
