----------------------------- MODULE IndexTable -----------------------------
(***************************************************************************)
(* What the index of one shard promises: a map from keys to pointers that  *)
(* refuses to grow beyond its load factor.  This is how module Shard uses  *)
(* it (storageHashTable, IndexOverflows).                                  *)
(***************************************************************************)
EXTENDS KeyValueTypes, FiniteSets

CONSTANTS
  STORAGE_HASH_TABLE_MAX_SIZE,   \* slots of an index that has been expanded
  OfferedPtr                     \* the pointers that are put

VARIABLES
  index,         \* index[key] is the Ptr kept for key
  terminated     \* the process has died of an overflow

Indexed == {key \in Key : index[key] # EMPTY_PTR}

Overflows(key) ==
  3 * Cardinality(Indexed \cup {key}) > 2 * STORAGE_HASH_TABLE_MAX_SIZE

Init == index = [key \in Key |-> EMPTY_PTR] /\ terminated = FALSE

Put(key) ==
  /\ ~Overflows(key)
  /\ index'[key] \in OfferedPtr
  /\ index' = [index EXCEPT ![key] = index'[key]]
  /\ UNCHANGED terminated

Overflow(key) == Overflows(key) /\ terminated' = TRUE /\ UNCHANGED index

Mark(key) ==
  /\ PointsToValue(index[key])
  /\ \E isPresent \in BOOLEAN :
       index' = [index EXCEPT ![key] = SetValuePresent(@, isPresent)]
  /\ UNCHANGED terminated

Renew == index' = [key \in Key |-> EMPTY_PTR] /\ UNCHANGED terminated

Next == Renew \/ \E key \in Key : Put(key) \/ Overflow(key) \/ Mark(key)

Spec == Init /\ [][Next]_<<index, terminated>>

=============================================================================
