----------------------------- MODULE MCCacheMap -----------------------------
(***************************************************************************)
(* A small instance of CacheMap for TLC.                                   *)
(***************************************************************************)
EXTENDS CacheMap, TLC

CONSTANTS k1, k2, k3, k4, k5, k6

(***************************************************************************)
(* Clusters that collide, run into each other and wrap round the end of a  *)
(* table of 7 slots: homes 5, 5, 6, 6, 0 and 3.                            *)
(***************************************************************************)
Colliding ==
  [key \in Key |->
     CASE key = k1 -> 5 [] key = k2 -> 12 [] key = k3 -> 6
       [] key = k4 -> 13 [] key = k5 -> 0 [] OTHER -> 3]

(***************************************************************************)
(* What is put is present; marking adds the removed records.  How an entry *)
(* is stored does not depend on its pointer.                               *)
(***************************************************************************)
PresentOnly == {PtrTo(0, TRUE)}

=============================================================================
