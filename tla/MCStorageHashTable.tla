------------------------- MODULE MCStorageHashTable -------------------------
(***************************************************************************)
(* A small instance of StorageHashTable for TLC.                           *)
(***************************************************************************)
EXTENDS StorageHashTable, TLC

CONSTANTS k1, k2, k3, k4, k5

(***************************************************************************)
(* Keys that collide and wrap round the end of a table of 3 slots (homes   *)
(* 2, 2, 2, 0, 1) and of the expanded table of 6 (5, 2, 5, 0, 1).  Key k3  *)
(* is the key of a free slot.                                              *)
(***************************************************************************)
Colliding ==
  [key \in Key |->
     CASE key = k1 -> 5 [] key = k2 -> 2 [] key = k3 -> 11
       [] key = k4 -> 6 [] OTHER -> 1]

(***************************************************************************)
(* The first bytes of a key, where a short file has its counter: all zero  *)
(* for the key of a free slot.                                             *)
(***************************************************************************)
KeyBytes == [key \in Key |-> IF key = k3 THEN 0 ELSE 2 ^ 15]

(***************************************************************************)
(* The last record that a Ptr can hold.                                    *)
(***************************************************************************)
LastOnly == {VALUE_SIZE * MAX_PTR_INDEX}

=============================================================================
