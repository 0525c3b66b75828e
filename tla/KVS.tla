-------------------------------- MODULE KVS --------------------------------
(***************************************************************************)
(* The key-value store: the cache, the shards, and the calls add, get and  *)
(* remove that keep the two consistent.  The program is sequential: a call *)
(* runs to its end before the next one.  A call is split where the code    *)
(* goes from one of its parts to the next (shard, cache, push of the       *)
(* displaced entry, rebuild of a shard, update of the cache), so that the  *)
(* invariants are checked at those points too; pc says which part is next  *)
(* and nothing but that part can happen then.                              *)
(***************************************************************************)
EXTENDS ShardBuilder

CONSTANT
  AssertsEnabled    \* TRUE: assert() aborts; FALSE: compiled with NDEBUG

ASSUME AssertsEnabledAssumption == AssertsEnabled \in BOOLEAN

VARIABLES
  pc,            \* the part of the running call that is next
  entry,         \* the Entry to put into the cache, if any
  displaced,     \* the Entry that the cache gave up, if any
  target,        \* the shard to rebuild, if any
  newEntries,    \* the cache entries a rebuild still has to overwrite
  result,        \* what the last call returns
  failure        \* why the process died

vars == <<cacheMap, shardVars, pc, entry, displaced, target, newEntries,
          result, failure>>

NoEntries == [key \in Key |-> EMPTY_PTR]

TypeOK ==
  /\ CacheTypeOK
  /\ ShardTypeOK
  /\ pc \in {"idle", "put", "push", "rebuild", "install", "halted"}
  /\ IsOptional(entry, Entry)
  /\ IsOptional(displaced, Entry)
  /\ IsOptional(target, ShardIndex)
  /\ newEntries \in [Key -> Ptr]
  /\ IsOptional(result, Value)
  /\ failure \in {"none", "shard overflow", "ptr offset", "ptr index",
                  "sync deleted", "rebuild displaced"}

Init ==
  /\ CacheInit
  /\ ShardInit
  /\ pc = "idle"
  /\ entry = {}
  /\ displaced = {}
  /\ target = {}
  /\ newEntries = NoEntries
  /\ result = {}
  /\ failure = "none"

(***************************************************************************)
(* The ends of a part: the call returns; it goes on to put an entry into   *)
(* the cache; it rebuilds the shard if isRebuildRequired, evaluated on the *)
(* shard as this step leaves it; the process dies.                         *)
(***************************************************************************)
Return ==
  /\ pc' = "idle"
  /\ UNCHANGED <<entry, displaced, target, newEntries, failure>>

ThenPut(key, ptr) ==
  /\ pc' = "put"
  /\ entry' = {[key |-> key, ptr |-> ptr]}
  /\ UNCHANGED <<displaced, target, newEntries, failure>>

ThenRebuildAlways(shard) ==    \* mutant: the guard is missing
  /\ pc' = "rebuild"
  /\ target' = {shard}

ThenRebuildIfRequired(shard) ==
  \/ /\ IsRebuildRequired(shard)'
     /\ pc' = "rebuild"
     /\ target' = {shard}
  \/ /\ ~IsRebuildRequired(shard)'
     /\ pc' = "idle"
     /\ UNCHANGED target

Die(reason) ==
  /\ pc' = "halted"
  /\ failure' = reason
  /\ UNCHANGED <<cacheMap, shardVars, entry, displaced, target, newEntries,
                 result>>

(***************************************************************************)
(* add: a cached key is written in place, a lazily removed one is revived  *)
(* in the cache, any other goes through the index of its shard.            *)
(***************************************************************************)
AddCached(key, value) ==
  /\ pc = "idle"
  /\ cacheMap[key].type = "PRESENT"
  /\ WriteValueDirectly(key, cacheMap[key], value)
  /\ result' = {}
  /\ Return
  /\ UNCHANGED <<cacheMap, storageHashTable, aliveValuesCnt, filter>>

AddDeleted(key, value) ==
  /\ pc = "idle"
  /\ cacheMap[key].type = "DELETED"
  /\ WriteValueDirectly(key, cacheMap[key], value)
  /\ SetCached(key, SetValuePresent(cacheMap[key], TRUE))
  /\ IncrementAliveValuesCnt(ShardOf[key])
  /\ result' = {}
  /\ Return
  /\ UNCHANGED <<storageHashTable, filter>>

NeedsNewRecord(key) ==
  /\ cacheMap[key].type \in {"NONEXISTENT", "EMPTY_PTR"}
  /\ storageHashTable[key] = EMPTY_PTR

AddMissing(key, value) ==
  /\ pc = "idle"
  /\ cacheMap[key].type \in {"NONEXISTENT", "EMPTY_PTR"}
  /\ ~(NeedsNewRecord(key) /\ IndexOverflows(ShardOf[key]))
  /\ WriteValue(key, value)
  /\ result' = {}
  /\ ThenPut(key, WriteValuePtr(key))
  /\ UNCHANGED cacheMap

AddOverflows(key) ==
  /\ pc = "idle"
  /\ NeedsNewRecord(key)
  /\ IndexOverflows(ShardOf[key])
  /\ Die("shard overflow")

(***************************************************************************)
(* get: what the cache does not know is read from the shard and cached,    *)
(* absence included.                                                       *)
(***************************************************************************)
GetCached(key) ==
  /\ pc = "idle"
  /\ cacheMap[key].type = "PRESENT"
  /\ result' = {ReadValueDirectly(key, cacheMap[key])}
  /\ Return
  /\ UNCHANGED <<cacheMap, shardVars>>

GetAbsent(key) ==
  /\ pc = "idle"
  /\ cacheMap[key].type \in {"NONEXISTENT", "DELETED"}
  /\ result' = {}
  /\ Return
  /\ UNCHANGED <<cacheMap, shardVars>>

GetMissing(key) ==
  /\ pc = "idle"
  /\ cacheMap[key] = EMPTY_PTR
  /\ result' = ReadValue(key)
  /\ \/ /\ ReadValuePtr(key).type = "PRESENT"
        /\ ThenPut(key, ReadValuePtr(key))
     \/ /\ ReadValuePtr(key).type \in {"EMPTY_PTR", "DELETED"}
        /\ ThenPut(key, NONEXISTENT)
  /\ UNCHANGED <<cacheMap, shardVars>>

(***************************************************************************)
(* remove: lazy for a cached key; through the index for an unknown one.    *)
(***************************************************************************)
RemoveCached(key) ==
  /\ pc = "idle"
  /\ cacheMap[key].type = "PRESENT"
  /\ SetCached(key, SetValuePresent(cacheMap[key], FALSE))
  /\ DecrementAliveValuesCnt(ShardOf[key])
  /\ result' = {}
  /\ UNCHANGED <<storageHashTable, valuesFile, filter>>
  /\ ThenRebuildIfRequired(ShardOf[key])
  /\ UNCHANGED <<entry, displaced, newEntries, failure>>

RemoveAbsent(key) ==
  /\ pc = "idle"
  /\ cacheMap[key].type \in {"NONEXISTENT", "DELETED"}
  /\ result' = {}
  /\ Return
  /\ UNCHANGED <<cacheMap, shardVars>>

RemoveMissing(key) ==
  /\ pc = "idle"
  /\ cacheMap[key] = EMPTY_PTR
  /\ RemoveEntry(key)
  /\ result' = {}
  /\ ThenPut(key, NONEXISTENT)
  /\ UNCHANGED cacheMap

(***************************************************************************)
(* cacheMap.putOrDisplace(entry), the tail of the calls that missed.       *)
(***************************************************************************)
PutEntry ==
  /\ pc = "put"
  /\ \E e \in entry :
       \/ /\ ~CacheIsFull
          /\ Put(e)
          /\ pc' = "idle"
          /\ UNCHANGED displaced
       \/ /\ CacheIsFull
          /\ \E victim \in Cached :
               /\ Displace(victim, e)
               /\ displaced' = {[key |-> victim, ptr |-> cacheMap[victim]]}
          /\ pc' = "push"
  /\ entry' = {}
  /\ UNCHANGED <<shardVars, target, newEntries, result, failure>>

(***************************************************************************)
(* pushOperation(displaced): a lazy removal is written down before the     *)
(* shard of the displaced key is examined.                                 *)
(***************************************************************************)
PushOperation ==
  /\ pc = "push"
  /\ \E d \in displaced :
       /\ \/ d.ptr.type = "DELETED" /\ PushRemoveEntry(d.key)
          \/ d.ptr.type \in {"PRESENT", "NONEXISTENT"} /\ UNCHANGED shardVars
       /\ ThenRebuildIfRequired(ShardOf[d.key])
  /\ displaced' = {}
  /\ UNCHANGED <<cacheMap, entry, newEntries, result, failure>>

(***************************************************************************)
(* rebuildShard.  A key that the cache holds as removed and written down   *)
(* runs into an assert that its index entry is NONEXISTENT, which no entry *)
(* of an index ever is.                                                    *)
(***************************************************************************)
RebuildShard ==
  /\ pc = "rebuild"
  /\ \E shard \in target, seeds \in SeedVector :
       /\ AssertsEnabled => SyncDeletedKeys(shard) = {}
       /\ \E order \in Enumerations(KeptKeys(shard)) :
            /\ BuildShard(shard, order, seeds)
            /\ newEntries' = UpdatedEntries(shard, order)
  /\ pc' = IF newEntries' = NoEntries THEN "idle" ELSE "install"
  /\ target' = {}
  /\ UNCHANGED <<cacheMap, entry, displaced, result, failure>>

RebuildAborts ==
  /\ pc = "rebuild"
  /\ AssertsEnabled
  /\ \E shard \in target : SyncDeletedKeys(shard) # {}
  /\ Die("sync deleted")

(***************************************************************************)
(* The new entries are put into the cache one by one, in the order of the  *)
(* old index.  A cache at its load factor displaces an entry even though   *)
(* each put overwrites a key it holds: an assert says it does not, and     *)
(* where that is compiled out the displaced entry is dropped.              *)
(***************************************************************************)
InstallEntryAgain ==    \* mutant: the loop does not advance
  /\ pc = "install"
  /\ \E key \in Key :
       /\ newEntries[key] # EMPTY_PTR
       /\ ~CacheIsFull
       /\ Put([key |-> key, ptr |-> newEntries[key]])
  /\ UNCHANGED <<shardVars, pc, entry, displaced, target, newEntries, result,
                 failure>>

InstallEntry ==
  /\ pc = "install"
  /\ \E key \in Key :
       LET e == [key |-> key, ptr |-> newEntries[key]] IN
       /\ newEntries[key] # EMPTY_PTR
       /\ \/ ~CacheIsFull /\ Put(e)
          \/ /\ CacheIsFull /\ ~AssertsEnabled
             /\ \E victim \in Cached : Displace(victim, e)
       /\ newEntries' = [newEntries EXCEPT ![key] = EMPTY_PTR]
  /\ pc' = IF newEntries' = NoEntries THEN "idle" ELSE "install"
  /\ UNCHANGED <<shardVars, entry, displaced, target, result, failure>>

InstallAborts ==
  /\ pc = "install"
  /\ AssertsEnabled
  /\ CacheIsFull
  /\ Die("rebuild displaced")

(***************************************************************************)
(* A dead process stays dead.                                              *)
(***************************************************************************)
Halted == pc = "halted" /\ UNCHANGED vars

Call ==
  \E key \in Key :
    \/ \E value \in Value :
         AddCached(key, value) \/ AddDeleted(key, value) \/ AddMissing(key, value)
    \/ AddOverflows(key)
    \/ GetCached(key) \/ GetAbsent(key) \/ GetMissing(key)
    \/ RemoveCached(key) \/ RemoveAbsent(key) \/ RemoveMissing(key)

Continue ==
  \/ PutEntry \/ PushOperation
  \/ RebuildShard \/ RebuildAborts
  \/ InstallEntry \/ InstallAborts

Next == Call \/ Continue \/ Halted

(***************************************************************************)
(* A running call is not abandoned: the thread executes its next part.     *)
(* Clients may stop calling at any time.                                   *)
(***************************************************************************)
Spec == Init /\ [][Next]_vars /\ WF_vars(Continue)

=============================================================================
