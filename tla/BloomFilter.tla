---------------------------- MODULE BloomFilter ----------------------------
(***************************************************************************)
(* The Bloom filter of a shard as a value: the seeds drawn when it was     *)
(* constructed and the set of bits that are on.  The hash of a key under a *)
(* seed, reduced to a bit position, is the constant function BloomHash.    *)
(***************************************************************************)
EXTENDS KeyValueTypes

CONSTANTS
  Seed,                                 \* the seeds a filter can draw
  BLOOM_FILTER_SIZE,                    \* number of bits
  BLOOM_FILTER_HASH_FUNCTIONS_NUMBER,   \* number of seeds drawn
  BloomHash                             \* BloomHash[seed][key] is a bit

Bit == 0 .. BLOOM_FILTER_SIZE - 1

ASSUME BloomFilterAssumption ==
  /\ BLOOM_FILTER_SIZE \in Nat \ {0}
  /\ BLOOM_FILTER_HASH_FUNCTIONS_NUMBER \in Nat \ {0}
  /\ BloomHash \in [Seed -> [Key -> Bit]]

(***************************************************************************)
(* The seeds are independent draws: a filter may draw a seed twice.        *)
(***************************************************************************)
SeedVector == [1 .. BLOOM_FILTER_HASH_FUNCTIONS_NUMBER -> Seed]

Filter == [seeds : SeedVector, bits : SUBSET Bit]

BitsOf(seeds, key) == {BloomHash[seeds[i]][key] : i \in DOMAIN seeds}

NewFilter(seeds) == [seeds |-> seeds, bits |-> {}]

(***************************************************************************)
(* add() for each key of a set, and checkExist().                          *)
(***************************************************************************)
AddKeys(f, keys) ==
  [f EXCEPT !.bits = @ \cup UNION {BitsOf(f.seeds, k) : k \in keys}]

CheckExist(f, key) == BitsOf(f.seeds, key) \subseteq f.bits

=============================================================================
