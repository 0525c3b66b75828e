------------------------------- MODULE Shard -------------------------------
(***************************************************************************)
(* The shards: per shard a values file, an index file holding a serialized *)
(* StorageHashTable, a counter of alive values and a Bloom filter.  Every  *)
(* key belongs to one shard, so the index files of all shards are one      *)
(* function from keys to pointers.  A values file is the sequence of its   *)
(* VALUE_SIZE records; the record with index i is its element i + 1.       *)
(***************************************************************************)
EXTENDS BloomFilter, FiniteSets, Sequences

CONSTANTS
  ShardIndex,                      \* 0 .. SHARD_NUMBER - 1
  ShardOf,                         \* getShardIndex
  STORAGE_HASH_TABLE_MAX_SIZE      \* slots of an index that has been expanded

ASSUME ShardAssumption ==
  /\ IsFiniteSet(Key)
  /\ ShardOf \in [Key -> ShardIndex]
  /\ STORAGE_HASH_TABLE_MAX_SIZE \in Nat

(***************************************************************************)
(* An index overflows before the indices of its records leave the range of *)
(* a Ptr: 45 keys fit 68 slots, 121 records fit a values file.             *)
(***************************************************************************)
ASSUME PtrRangeAssumption ==
  2 * STORAGE_HASH_TABLE_MAX_SIZE <= 3 * MAX_PTR_INDEX + 5

VARIABLES
  storageHashTable,    \* storageHashTable[key] is the Ptr in the index file
  valuesFile,          \* valuesFile[shard] is a sequence of values
  aliveValuesCnt,      \* an 8-bit counter per shard
  filter               \* a Bloom filter per shard

shardVars == <<storageHashTable, valuesFile, aliveValuesCnt, filter>>

ShardTypeOK ==
  /\ storageHashTable \in [Key -> Ptr]
  /\ valuesFile \in [ShardIndex -> Seq(Value)]
  /\ aliveValuesCnt \in [ShardIndex -> 0 .. 255]
  /\ filter \in [ShardIndex -> Filter]

(***************************************************************************)
(* ShardBuilder::createShard for every shard, on empty files.              *)
(***************************************************************************)
ShardInit ==
  /\ storageHashTable = [key \in Key |-> EMPTY_PTR]
  /\ valuesFile = [s \in ShardIndex |-> <<>>]
  /\ aliveValuesCnt = [s \in ShardIndex |-> 0]
  /\ \E seeds \in [ShardIndex -> SeedVector] :
       filter = [s \in ShardIndex |-> NewFilter(seeds[s])]

KeysOf(shard) == {key \in Key : ShardOf[key] = shard}

(***************************************************************************)
(* getEntries() of a shard's index: what its file keeps a pointer for.     *)
(***************************************************************************)
IndexedKeys(shard) == {key \in KeysOf(shard) : storageHashTable[key] # EMPTY_PTR}

FilterHas(key) == CheckExist(filter[ShardOf[key]], key)

(***************************************************************************)
(* values_cnt_t is an unsigned byte: both updates wrap.                    *)
(***************************************************************************)
IncrementAliveValuesCnt(shard) ==
  aliveValuesCnt' = [aliveValuesCnt EXCEPT ![shard] = (@ + 1) % 256]

DecrementAliveValuesCnt(shard) ==
  aliveValuesCnt' = [aliveValuesCnt EXCEPT ![shard] = (@ - 1) % 256]

(***************************************************************************)
(* valuesCnt * MAX_OUTDATED_RECORDS_LOAD_FACTOR > aliveValuesCnt, with the *)
(* factor 1/2 and the file size converted to a byte.                       *)
(***************************************************************************)
IsRebuildRequired(shard) ==
  Len(valuesFile[shard]) % 256 > 2 * aliveValuesCnt[shard]

ReadValueDirectly(key, ptr) == valuesFile[ShardOf[key]][ptr.index + 1]

WriteValueDirectly(key, ptr, value) ==
  valuesFile' = [valuesFile EXCEPT ![ShardOf[key]][ptr.index + 1] = value]

(***************************************************************************)
(* readValue: the pointer it returns, which is EMPTY_PTR unless the filter *)
(* lets the search through, and the value.                                 *)
(***************************************************************************)
ReadValuePtr(key) == IF FilterHas(key) THEN storageHashTable[key] ELSE EMPTY_PTR

ReadValue(key) ==
  IF ReadValuePtr(key).type = "PRESENT"
    THEN {ReadValueDirectly(key, ReadValuePtr(key))}
    ELSE {}

(***************************************************************************)
(* StorageHashTable::put of a key that is not in the table: the table      *)
(* doubles once; when it would have to double again, expand() throws out   *)
(* of the noexcept put() and the process is terminated.                    *)
(***************************************************************************)
IndexOverflowsOneLate(shard) ==    \* mutant: the new key is not counted
  3 * Cardinality(IndexedKeys(shard)) > 2 * STORAGE_HASH_TABLE_MAX_SIZE

IndexOverflows(shard) ==
  3 * (Cardinality(IndexedKeys(shard)) + 1) > 2 * STORAGE_HASH_TABLE_MAX_SIZE

(***************************************************************************)
(* writeValue, by what the index holds for the key, and the pointer of the *)
(* entry that it returns.                                                  *)
(***************************************************************************)
WriteValuePtrByOffset(key) ==    \* mutant: an offset in bytes as an index
  IF storageHashTable[key] = EMPTY_PTR
    THEN PtrTo(2048 * Len(valuesFile[ShardOf[key]]), TRUE)
    ELSE SetValuePresent(storageHashTable[key], TRUE)

WriteValuePtr(key) ==
  IF storageHashTable[key] = EMPTY_PTR
    THEN PtrTo(Len(valuesFile[ShardOf[key]]), TRUE)
    ELSE SetValuePresent(storageHashTable[key], TRUE)

OverwriteValue(key, value) ==
  /\ storageHashTable[key].type = "PRESENT"
  /\ WriteValueDirectly(key, storageHashTable[key], value)
  /\ UNCHANGED <<storageHashTable, aliveValuesCnt, filter>>

ReviveValue(key, value) ==
  /\ storageHashTable[key].type = "DELETED"
  /\ WriteValueDirectly(key, storageHashTable[key], value)
  /\ IncrementAliveValuesCnt(ShardOf[key])
  /\ storageHashTable' = [storageHashTable EXCEPT ![key] = WriteValuePtr(key)]
  /\ UNCHANGED filter

AppendValue(key, value) ==
  LET s == ShardOf[key] IN
  /\ storageHashTable[key].type = "EMPTY_PTR"
  /\ valuesFile' = [valuesFile EXCEPT ![s] = Append(@, value)]
  /\ IncrementAliveValuesCnt(s)
  /\ filter' = [filter EXCEPT ![s] = AddKeys(@, {key})]
  /\ storageHashTable' = [storageHashTable EXCEPT ![key] = WriteValuePtr(key)]

WriteValue(key, value) ==
  \/ OverwriteValue(key, value)
  \/ ReviveValue(key, value)
  \/ AppendValue(key, value)

(***************************************************************************)
(* removeEntry, which owns the removal, and pushRemoveEntry, which writes  *)
(* down a removal that has been counted before.                            *)
(***************************************************************************)
FoundPresent(key) == FilterHas(key) /\ storageHashTable[key].type = "PRESENT"

MarkDeleted(key) ==
  storageHashTable' =
    [storageHashTable EXCEPT ![key] = SetValuePresent(@, FALSE)]

RemoveEntry(key) ==
  \/ /\ FoundPresent(key)
     /\ DecrementAliveValuesCnt(ShardOf[key])
     /\ MarkDeleted(key)
     /\ UNCHANGED <<valuesFile, filter>>
  \/ /\ ~FoundPresent(key)
     /\ UNCHANGED shardVars

PushRemoveEntryCounting(key) == RemoveEntry(key)    \* mutant: counted twice

PushRemoveEntry(key) ==
  \/ /\ FoundPresent(key)
     /\ MarkDeleted(key)
     /\ UNCHANGED <<valuesFile, aliveValuesCnt, filter>>
  \/ /\ ~FoundPresent(key)
     /\ UNCHANGED shardVars

-----------------------------------------------------------------------------
(***************************************************************************)
(* The records of a values file and the keys of its index are in bijection *)
(* through the pointers: an index holds pointers to values only (the class *)
(* invariant of StorageHashTable), none of them leaves the file, no two    *)
(* keys share a record, no record is out of reach.  (Shard::writeValue and *)
(* ShardBuilder::rebuildShard.)                                            *)
(***************************************************************************)
RecordsExact ==
  \A shard \in ShardIndex :
    LET keys == IndexedKeys(shard) IN
    /\ \A key \in keys :
         /\ PointsToValue(storageHashTable[key])
         /\ storageHashTable[key].index < Len(valuesFile[shard])
    /\ \A key, other \in keys :
         storageHashTable[key].index = storageHashTable[other].index
           => key = other
    /\ \A i \in 1 .. Len(valuesFile[shard]) :
         \E key \in keys : storageHashTable[key].index = i - 1

(***************************************************************************)
(* The filter never hides a key of the index from readValue, removeEntry   *)
(* or pushRemoveEntry, also after a rebuild has replaced the filter.       *)
(***************************************************************************)
FilterComplete ==
  \A key \in Key : storageHashTable[key] # EMPTY_PTR => FilterHas(key)

(***************************************************************************)
(* No record gets an index that a Ptr cannot hold, and no values file      *)
(* outgrows the byte that counts its records, because the index of the     *)
(* shard overflows first.  (The assert of Ptr::Ptr(size_t, bool).)         *)
(***************************************************************************)
PtrIndexInBounds ==
  \A shard \in ShardIndex : Len(valuesFile[shard]) <= MAX_PTR_INDEX + 1

=============================================================================
