------------------------------ MODULE PtrByte ------------------------------
(***************************************************************************)
(* The byte behind a Ptr.  KeyValueTypes says what a pointer means: a type *)
(* and an index.  Here is what the class stores, and what its operations   *)
(* do to the byte.                                                         *)
(***************************************************************************)
EXTENDS KeyValueTypes

CONSTANT
  VALUE_SIZE    \* bytes of a record of the values file

ASSUME ValueSizeAssumption == VALUE_SIZE \in Nat \ {0}

EMPTY_PTR_V == 127

NONEXISTENT_V == 126

(***************************************************************************)
(* The highest bit of the byte, CONTROL_MASK, and the seven bits below.    *)
(***************************************************************************)
CONTROL_MASK == 128

IsValuePresent(raw) == raw \div CONTROL_MASK = 1

GetIndex(raw) == raw % CONTROL_MASK

GetOffset(raw) == GetIndex(raw) * VALUE_SIZE

GetType(raw) ==
  IF raw = EMPTY_PTR_V THEN "EMPTY_PTR"
  ELSE IF raw = NONEXISTENT_V THEN "NONEXISTENT"
  ELSE IF IsValuePresent(raw) THEN "PRESENT" ELSE "DELETED"

Decode(raw) == [type |-> GetType(raw), index |-> GetIndex(raw)]

(***************************************************************************)
(* The byte that getRaw() of a pointer returns.                            *)
(***************************************************************************)
Encode(p) == p.index + (IF p.type = "PRESENT" THEN CONTROL_MASK ELSE 0)

SetRawPresent(raw, isPresent) ==
  GetIndex(raw) + (IF isPresent THEN CONTROL_MASK ELSE 0)

(***************************************************************************)
(* Ptr(offset, isPresent): the index is cut to a byte before it is marked. *)
(***************************************************************************)
RawPtrTo(offset, isPresent) ==
  SetRawPresent((offset \div VALUE_SIZE) % 256, isPresent)

(***************************************************************************)
(* The pointers that the asserts let a program construct.                  *)
(***************************************************************************)
ValidPtr ==
  [type : {"PRESENT", "DELETED"}, index : 0 .. MAX_PTR_INDEX]
    \cup {EMPTY_PTR, NONEXISTENT}

=============================================================================
