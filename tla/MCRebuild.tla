----------------------------- MODULE MCRebuild -----------------------------
(***************************************************************************)
(* An instance of KVS for rebuilds that copy more than one record.  A      *)
(* shard is due for one when more than half of its records are dead: it    *)
(* takes 5 keys to have 2 copied.  All keys are alike, those of one shard; *)
(* so are the values.                                                      *)
(***************************************************************************)
EXTENDS KVSCorrectness, TLC

CONSTANTS s1, seed1

OneShard == [key \in Key |-> s1]

OneBit == [seed \in {seed1} |-> [key \in Key |-> 0]]

Symmetry == Permutations(Key) \cup Permutations(Value)

=============================================================================
