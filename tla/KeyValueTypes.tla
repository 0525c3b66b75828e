--------------------------- MODULE KeyValueTypes ---------------------------
(***************************************************************************)
(* The data the whole store is built from: keys, values, the one-byte      *)
(* pointers Ptr and the entries of the two hash tables.  A key or a value  *)
(* is an uninterpreted element of a set; a Ptr is what its byte decodes to: *)
(* a type and the index of a record of the values file.  A std::optional   *)
(* is a set with at most one element.                                      *)
(***************************************************************************)
EXTENDS Integers

CONSTANTS
  Key,             \* the keys clients use
  Value,           \* the values clients store
  MAX_PTR_INDEX    \* greatest index a Ptr to a value may hold (120)

(***************************************************************************)
(* 126 and 127 are the indices of the two special pointers.                *)
(***************************************************************************)
ASSUME MaxPtrIndexAssumption == MAX_PTR_INDEX \in 0 .. 125

EMPTY_PTR == [type |-> "EMPTY_PTR", index |-> 127]

NONEXISTENT == [type |-> "NONEXISTENT", index |-> 126]

Ptr ==
  [type : {"PRESENT", "DELETED"}, index : 0 .. 127] \cup {EMPTY_PTR, NONEXISTENT}

(***************************************************************************)
(* Ptr(offset, isPresent) and setValuePresent: the type of a pointer to a  *)
(* value is its control bit.                                               *)
(***************************************************************************)
PtrTo(index, isPresent) ==
  [type |-> IF isPresent THEN "PRESENT" ELSE "DELETED", index |-> index]

SetValuePresent(ptr, isPresent) == PtrTo(ptr.index, isPresent)

(***************************************************************************)
(* A pointer that has a record in the values file, alive or not.           *)
(***************************************************************************)
PointsToValue(ptr) == ptr.type \in {"PRESENT", "DELETED"}

Entry == [key : Key, ptr : Ptr]

IsOptional(o, S) == o \subseteq S /\ \A x, y \in o : x = y

=============================================================================
