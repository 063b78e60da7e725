-------------------------------- MODULE Dsdl --------------------------------
(***************************************************************************)
(* The DSDL types as nunavut compiles them: how they are described, and    *)
(* the functions X_serialize_ and X_deserialize_ of all of them.  A type   *)
(* calls the functions of the types it is made of, and no type is made of  *)
(* itself: TypeWriter and TypeReader have the functions of a type given    *)
(* those of the types in it, TypeObjects its objects, and here types are   *)
(* put into types, six levels high as those of the repository are.         *)
(***************************************************************************)
EXTENDS Scalars

-----------------------------------------------------------------------------
(* The descriptions: scalars (Scalars), voids, arrays, composites.         *)
Void(w) == [kind |-> "void", width |-> w]
Fixed(n, e) == [kind |-> "fixed", capacity |-> n, of |-> e]
UpTo(n, e) == [kind |-> "upto", capacity |-> n, of |-> e]
Delimited(t) == [kind |-> "delimited", of |-> t]

(* version is <<major, minor>>; extent and buffer are the bytes of the     *)
(* macros EXTENT_BYTES_ and SERIALIZATION_BUFFER_SIZE_BYTES_               *)
Struct(name, version, extent, buffer, members) ==
  [kind |-> "struct", name |-> name, version |-> version,
   extent |-> extent, buffer |-> buffer, members |-> members]

Union(name, version, extent, buffer, members) ==
  [kind |-> "union", name |-> name, version |-> version,
   extent |-> extent, buffer |-> buffer, members |-> members]

-----------------------------------------------------------------------------
(* There is no type in a type of the first level,                          *)
NoneSerialized(t, v) == [err |-> "NO_TYPE", bits |-> <<>>]
NoneDeserialized(t, buf) == [err |-> "NO_TYPE", size |-> 0, obj |-> <<>>]
NoneSchema(t) == FALSE
NoneLargest(t) == 0
NoneExact(t) == FALSE
NoneObject(t, v) == FALSE
NoneSurvives(t, v, w) == FALSE
NoneFilled(t, p, filling, o) == <<>>

(* whose members are numbers and arrays of numbers.  Those of the second   *)
(* may be types of the first, and so on.                                   *)
Writer1 == INSTANCE TypeWriter WITH NestedSerialize <- NoneSerialized
Writer2 == INSTANCE TypeWriter WITH NestedSerialize <- Writer1!Serialized
Writer3 == INSTANCE TypeWriter WITH NestedSerialize <- Writer2!Serialized
Writer4 == INSTANCE TypeWriter WITH NestedSerialize <- Writer3!Serialized
Writer5 == INSTANCE TypeWriter WITH NestedSerialize <- Writer4!Serialized
Writer6 == INSTANCE TypeWriter WITH NestedSerialize <- Writer5!Serialized

Reader1 == INSTANCE TypeReader WITH NestedDeserialize <- NoneDeserialized
Reader2 == INSTANCE TypeReader WITH NestedDeserialize <- Reader1!Deserialized
Reader3 == INSTANCE TypeReader WITH NestedDeserialize <- Reader2!Deserialized
Reader4 == INSTANCE TypeReader WITH NestedDeserialize <- Reader3!Deserialized
Reader5 == INSTANCE TypeReader WITH NestedDeserialize <- Reader4!Deserialized
Reader6 == INSTANCE TypeReader WITH NestedDeserialize <- Reader5!Deserialized

Schema1 == INSTANCE TypeSchema WITH
  NestedSchema <- NoneSchema, NestedLargest <- NoneLargest,
  NestedExact <- NoneExact
Schema2 == INSTANCE TypeSchema WITH
  NestedSchema <- Schema1!Schema, NestedLargest <- Schema1!Largest,
  NestedExact <- Schema1!Exact
Schema3 == INSTANCE TypeSchema WITH
  NestedSchema <- Schema2!Schema, NestedLargest <- Schema2!Largest,
  NestedExact <- Schema2!Exact
Schema4 == INSTANCE TypeSchema WITH
  NestedSchema <- Schema3!Schema, NestedLargest <- Schema3!Largest,
  NestedExact <- Schema3!Exact
Schema5 == INSTANCE TypeSchema WITH
  NestedSchema <- Schema4!Schema, NestedLargest <- Schema4!Largest,
  NestedExact <- Schema4!Exact
Schema6 == INSTANCE TypeSchema WITH
  NestedSchema <- Schema5!Schema, NestedLargest <- Schema5!Largest,
  NestedExact <- Schema5!Exact

Objects1 == INSTANCE TypeObjects WITH
  NestedObject <- NoneObject, NestedSurvives <- NoneSurvives,
  NestedFilled <- NoneFilled
Objects2 == INSTANCE TypeObjects WITH
  NestedObject <- Objects1!Object, NestedSurvives <- Objects1!Survives,
  NestedFilled <- Objects1!Filled
Objects3 == INSTANCE TypeObjects WITH
  NestedObject <- Objects2!Object, NestedSurvives <- Objects2!Survives,
  NestedFilled <- Objects2!Filled
Objects4 == INSTANCE TypeObjects WITH
  NestedObject <- Objects3!Object, NestedSurvives <- Objects3!Survives,
  NestedFilled <- Objects3!Filled
Objects5 == INSTANCE TypeObjects WITH
  NestedObject <- Objects4!Object, NestedSurvives <- Objects4!Survives,
  NestedFilled <- Objects4!Filled
Objects6 == INSTANCE TypeObjects WITH
  NestedObject <- Objects5!Object, NestedSurvives <- Objects5!Survives,
  NestedFilled <- Objects5!Filled

Unwritten(error) == [err |-> error, bits |-> <<>>]

(* X_serialize_ into a buffer of so many bytes, that must have room for    *)
(* the largest object even if this one is smaller                          *)
Serialize(t, v, capacity) ==
  IF capacity < t.buffer THEN Unwritten("BUFFER_TOO_SMALL") ELSE Writer6!Serialized(t, v)

(* X_deserialize_ *)
Deserialize(t, buf) == Reader6!Deserialized(t, buf)

(* the types, and their objects *)
Schema(t) == Schema6!Schema(t)
Object(t, v) == Objects6!Object(t, v)
Survives(t, v, w) == Objects6!Survives(t, v, w)
Largest(t) == Schema6!Largest(t)
Filled(t, p, filling, o) == Objects6!Filled(t, p, filling, o)

=============================================================================
