------------------------------- MODULE MCKVS -------------------------------
(***************************************************************************)
(* Small instances of KVS for TLC.  With CACHE_MAP_SIZE = 4 the cache      *)
(* holds 3 keys and gives up one for the fourth.  (As CacheTable has it; a *)
(* CacheMap needs 7 slots for its probes to end, see ProbesEnd there.)     *)
(***************************************************************************)
EXTENDS KVSCorrectness, TLC

CONSTANTS k1, k2, k3, k4, k5, s1, s2, seed1, seed2

(***************************************************************************)
(* All keys but one in a shard, or two shards of two.                      *)
(***************************************************************************)
FourAndOne ==
  k1 :> s1 @@ k2 :> s1 @@ k3 :> s1 @@ k4 :> s1 @@ k5 :> s2

TwoAndTwo == k1 :> s1 @@ k2 :> s1 @@ k3 :> s2 @@ k4 :> s2

ThreeAndOne == k1 :> s1 @@ k2 :> s1 @@ k3 :> s1 @@ k4 :> s2

(***************************************************************************)
(* One seed with one bit for everything: the filter lets all through once  *)
(* a key has been added.  Two seeds that separate the keys differently.    *)
(***************************************************************************)
OneBit == seed1 :> [key \in Key |-> 0]

TwoSeeds ==
  seed1 :> (k1 :> 0 @@ k2 :> 1 @@ k3 :> 0 @@ k4 :> 1 @@ k5 :> 0) @@
  seed2 :> (k1 :> 1 @@ k2 :> 0 @@ k3 :> 0 @@ k4 :> 1 @@ k5 :> 1)

(***************************************************************************)
(* Bound of the runs without asserts: the byte counter has not wrapped.    *)
(***************************************************************************)
NotWrapped ==
  \A shard \in ShardIndex : aliveValuesCnt[shard] <= Cardinality(KeysOf(shard))

=============================================================================
