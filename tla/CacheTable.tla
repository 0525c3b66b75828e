----------------------------- MODULE CacheTable -----------------------------
(***************************************************************************)
(* What a CacheMap promises to its users: a bounded map from keys to       *)
(* pointers that gives up an entry of its own choice when it is asked to   *)
(* store one more than its load factor allows.  Where the entries lie and  *)
(* which one is given up is left open.                                     *)
(***************************************************************************)
EXTENDS KeyValueTypes, FiniteSets

CONSTANT
  CACHE_MAP_SIZE    \* number of slots of the table

ASSUME CacheMapSizeAssumption == CACHE_MAP_SIZE \in Nat

VARIABLE
  cacheMap          \* cacheMap[key] is the Ptr found for key

CacheTypeOK == cacheMap \in [Key -> Ptr]

CacheInit == cacheMap = [key \in Key |-> EMPTY_PTR]

Cached == {key \in Key : cacheMap[key] # EMPTY_PTR}

(***************************************************************************)
(* usedSize * MAP_LOAD_FACTOR > data.size(), with MAP_LOAD_FACTOR = 3/2.   *)
(***************************************************************************)
CacheIsFull == 3 * Cardinality(Cached) > 2 * CACHE_MAP_SIZE

(***************************************************************************)
(* putOrDisplace(entry) without, and with, a displaced entry.  The victim  *)
(* leaves the table before entry is stored, so it may be the old entry of  *)
(* the very key that is put.                                               *)
(***************************************************************************)
Put(entry) == cacheMap' = [cacheMap EXCEPT ![entry.key] = entry.ptr]

Displace(victim, entry) ==
  cacheMap' = [cacheMap EXCEPT ![victim] = EMPTY_PTR, ![entry.key] = entry.ptr]

(***************************************************************************)
(* An assignment through the Ptr& that get() returns for a key found.      *)
(***************************************************************************)
SetCached(key, ptr) == cacheMap' = [cacheMap EXCEPT ![key] = ptr]

(***************************************************************************)
(* clear().                                                                *)
(***************************************************************************)
CacheClear == cacheMap' = [key \in Key |-> EMPTY_PTR]

(***************************************************************************)
(* The table on its own: any entry may be put, any pointer to a value that *)
(* was found may be marked.                                                *)
(***************************************************************************)
CacheNext ==
  \/ /\ ~CacheIsFull
     /\ \E key \in Key :
          /\ cacheMap'[key] # EMPTY_PTR
          /\ Put([key |-> key, ptr |-> cacheMap'[key]])
  \/ /\ CacheIsFull
     /\ \E victim \in Cached, key \in Key :
          /\ cacheMap'[victim] = EMPTY_PTR \/ victim = key
          /\ cacheMap'[key] # EMPTY_PTR
          /\ Displace(victim, [key |-> key, ptr |-> cacheMap'[key]])
  \/ \E key \in Key :
       /\ PointsToValue(cacheMap[key])
       /\ cacheMap'[key] # EMPTY_PTR
       /\ SetCached(key, cacheMap'[key])
  \/ CacheClear

CacheSpec == CacheInit /\ [][CacheNext]_cacheMap

=============================================================================
