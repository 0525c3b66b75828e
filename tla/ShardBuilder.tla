---------------------------- MODULE ShardBuilder ----------------------------
(***************************************************************************)
(* ShardBuilder::rebuildShard: the values file and the index of a shard    *)
(* are written anew with the records that are still alive, judging by the  *)
(* cache first and by the old index where the cache knows nothing.         *)
(***************************************************************************)
EXTENDS Shard, CacheTable

(***************************************************************************)
(* The keys of the old index whose record is copied, and those that the    *)
(* cache holds as removed and already written down.                        *)
(***************************************************************************)
KeptKeysByIndex(shard) ==    \* mutant: lazy removals are not looked up
  {key \in IndexedKeys(shard) : storageHashTable[key].type = "PRESENT"}

KeptKeys(shard) ==
  {key \in IndexedKeys(shard) :
     \/ cacheMap[key].type = "PRESENT"
     \/ cacheMap[key] = EMPTY_PTR /\ storageHashTable[key].type = "PRESENT"}

SyncDeletedKeys(shard) ==
  {key \in IndexedKeys(shard) : cacheMap[key].type = "NONEXISTENT"}

(***************************************************************************)
(* The order in which getEntries() lists keys depends on the hash of each  *)
(* key and on the history of the table: any enumeration is possible.       *)
(***************************************************************************)
Enumerations(keys) ==
  {order \in [1 .. Cardinality(keys) -> keys] :
     \A key \in keys :
       \E i \in DOMAIN order :
         order[i] = key /\ \A j \in DOMAIN order : order[j] = key => j = i}

(***************************************************************************)
(* The records of the new values file.                                     *)
(***************************************************************************)
CopiedRecordsByNewPtr(order) ==    \* mutant: the pointer is replaced too early
  [i \in DOMAIN order |-> ReadValueDirectly(order[i], PtrTo(i - 1, TRUE))]

CopiedRecords(order) ==
  [i \in DOMAIN order |-> ReadValueDirectly(order[i], storageHashTable[order[i]])]

(***************************************************************************)
(* The new pointer of a copied key: the offset at which it was appended.   *)
(***************************************************************************)
RebuiltPtrStale(order, key) == PtrTo(0, TRUE)    \* mutant: file size not updated

RebuiltPtrAfterAppend(order, key) ==    \* mutant: the offset after the append
  PtrTo(CHOOSE i \in DOMAIN order : order[i] = key, TRUE)

RebuiltPtr(order, key) ==
  PtrTo((CHOOSE i \in DOMAIN order : order[i] = key) - 1, TRUE)

(***************************************************************************)
(* The constructor Shard(entries): a new filter that holds the copied keys. *)
(***************************************************************************)
RebuiltFilterEmpty(seeds, keys) == NewFilter(seeds)    \* mutant: nothing added

RebuiltFilter(seeds, keys) == AddKeys(NewFilter(seeds), keys)

(***************************************************************************)
(* The new files, renamed over the old ones, and the new Shard object.     *)
(***************************************************************************)
RebuiltTable(shard, order) ==
  [key \in Key |->
     CASE key \in KeptKeys(shard) -> RebuiltPtr(order, key)
       [] key \in KeysOf(shard) \ KeptKeys(shard) -> EMPTY_PTR
       [] OTHER -> storageHashTable[key]]

BuildShard(shard, order, seeds) ==
  LET kept == KeptKeys(shard) IN
  /\ valuesFile' = [valuesFile EXCEPT ![shard] = CopiedRecords(order)]
  /\ storageHashTable' = RebuiltTable(shard, order)
  /\ aliveValuesCnt' =
       [aliveValuesCnt EXCEPT ![shard] = Cardinality(kept) % 256]
  /\ filter' = [filter EXCEPT ![shard] = RebuiltFilter(seeds, kept)]

(***************************************************************************)
(* The cache entries to overwrite: lazy removals have been carried out,    *)
(* cached values have moved.  EMPTY_PTR where there is nothing to do.      *)
(***************************************************************************)
UpdatedEntriesPresentOnly(shard, order) ==    \* mutant: removals forgotten
  [key \in Key |->
     IF key \in IndexedKeys(shard) /\ cacheMap[key].type = "PRESENT"
       THEN RebuiltPtr(order, key)
       ELSE EMPTY_PTR]

UpdatedEntries(shard, order) ==
  [key \in Key |->
     CASE key \in IndexedKeys(shard) /\ cacheMap[key].type = "DELETED"
            -> NONEXISTENT
       [] key \in IndexedKeys(shard) /\ cacheMap[key].type = "PRESENT"
            -> RebuiltPtr(order, key)
       [] OTHER -> EMPTY_PTR]

=============================================================================
