------------------------------ MODULE MCFaults ------------------------------
(***************************************************************************)
(* A small instance of KVSFaults for TLC: three keys of one shard, one     *)
(* value for each, and a cache of 2 slots, which gives up an entry for the *)
(* third key.                                                              *)
(***************************************************************************)
EXTENDS KVSFaults, TLC

CONSTANTS k1, k2, k3, v1, v2, v3, s1, s2, seed1

OwnerOfValue == v1 :> k1 @@ v2 :> k2 @@ v3 :> k3

OneShard == k1 :> s1 @@ k2 :> s1 @@ k3 :> s1

OneBit == seed1 :> [key \in Key |-> 0]

(***************************************************************************)
(* Keys may change places if their values do.                              *)
(***************************************************************************)
KeySymmetry ==
  {[x \in Key \cup Value |->
      IF x \in Key THEN p[x]
      ELSE CHOOSE value \in Value : OwnerOfValue[value] = p[OwnerOfValue[x]]] :
   p \in Permutations(Key)}

=============================================================================
