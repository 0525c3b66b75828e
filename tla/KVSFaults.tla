----------------------------- MODULE KVSFaults -----------------------------
(***************************************************************************)
(* The key-value store when files fail.  Every file operation may throw;   *)
(* nothing between it and the client catches the exception, and nothing    *)
(* that was done before is undone.  The client may go on with the same     *)
(* object.  A call that does not fail is one of KVS; a call that fails     *)
(* stops between two of its effects, in the order of the code.             *)
(*                                                                         *)
(* What a failing operation leaves of a file is what Storage and           *)
(* StorageHashTable say.  An index that was cut short is taken for one     *)
(* that is rejected when it is read.                                       *)
(***************************************************************************)
EXTENDS KVSCorrectness

CONSTANTS
  Owner,           \* the key that a value belongs to: Owner tags the values
  MAX_FAILURES     \* bound: how many operations fail

ASSUME FaultsAssumption ==
  /\ Owner \in [Value -> Key]
  /\ MAX_FAILURES \in Nat

VARIABLES
  lostIndex,    \* the shards whose index file is cut short
  ragged,       \* the shards whose values file ends in a part of a record
  torn,         \* history: the shards whose rebuild failed after a rename
  failures,     \* how many operations have failed
  told          \* history: what the client has been told of a key, if anything

faultVars == <<lostIndex, ragged, torn, failures, told>>

FaultsTypeOK ==
  /\ TypeOK
  /\ lostIndex \subseteq ShardIndex
  /\ ragged \subseteq ShardIndex
  /\ torn \subseteq ShardIndex
  /\ failures \in 0 .. MAX_FAILURES
  /\ told \in [Key -> {"alive", "absent", "open"}]

FaultsInit ==
  /\ Init
  /\ lostIndex = {}
  /\ ragged = {}
  /\ torn = {}
  /\ failures = 0
  /\ told = [key \in Key |-> "absent"]

ValuesOf(key) == {value \in Value : Owner[value] = key}

IndexReadable(shard) == shard \notin lostIndex

InFile(key, ptr) == ptr.index < Len(valuesFile[ShardOf[key]])

(***************************************************************************)
(* The offset that append returned fits a Ptr: a whole number of records,  *)
(* and not too many.  Failed adds leave records behind that count too.     *)
(***************************************************************************)
IndexFits(shard) == Len(valuesFile[shard]) <= MAX_PTR_INDEX

OffsetFits(shard) == shard \notin ragged /\ IndexFits(shard)

-----------------------------------------------------------------------------
(***************************************************************************)
(* Calls and parts of calls in which nothing fails.                        *)
(***************************************************************************)
AddWorks(key) ==
  /\ \E value \in ValuesOf(key) :
       \/ InFile(key, cacheMap[key]) /\ (AddCached(key, value) \/ AddDeleted(key, value))
       \/ /\ IndexReadable(ShardOf[key])
          /\ IF storageHashTable[key] = EMPTY_PTR
               THEN OffsetFits(ShardOf[key])
               ELSE InFile(key, storageHashTable[key])
          /\ AddMissing(key, value)
  /\ told' = [told EXCEPT ![key] = "alive"]
  /\ UNCHANGED <<lostIndex, ragged, torn, failures>>

GetWorks(key) ==
  /\ \/ InFile(key, cacheMap[key]) /\ GetCached(key)
     \/ GetAbsent(key)
     \/ /\ FilterHas(key) => IndexReadable(ShardOf[key])
        /\ ReadValuePtr(key).type = "PRESENT" => InFile(key, ReadValuePtr(key))
        /\ GetMissing(key)
  /\ UNCHANGED faultVars

RemoveWorks(key) ==
  /\ \/ RemoveAbsent(key) /\ UNCHANGED told
     \/ /\ \/ RemoveCached(key)
           \/ RemoveMissing(key) /\ (FilterHas(key) => IndexReadable(ShardOf[key]))
        /\ told' = [told EXCEPT ![key] = "absent"]
  /\ UNCHANGED <<lostIndex, ragged, torn, failures>>

ReadsIndex(d) == d.ptr.type = "DELETED" /\ FilterHas(d.key)

PushWorks ==
  /\ PushOperation
  /\ \A d \in displaced : ReadsIndex(d) => IndexReadable(ShardOf[d.key])
  /\ UNCHANGED faultVars

CanRead(shard) ==
  /\ IndexReadable(shard)
  /\ \A key \in KeptKeys(shard) : InFile(key, storageHashTable[key])

RebuildWorks ==
  /\ \A shard \in target : CanRead(shard)
  /\ RebuildShard
  /\ ragged' = ragged \ target
  /\ UNCHANGED <<lostIndex, torn, failures, told>>

(***************************************************************************)
(* What ends the process: the asserts of Ptr(offset, isPresent), an index  *)
(* that overflows, and the asserts of a rebuild that has read its files.   *)
(***************************************************************************)
PtrAborts(key) ==
  /\ pc = "idle"
  /\ NeedsNewRecord(key)
  /\ IndexReadable(ShardOf[key])
  /\ \/ ShardOf[key] \in ragged /\ Die("ptr offset")
     \/ ShardOf[key] \notin ragged /\ ~IndexFits(ShardOf[key]) /\ Die("ptr index")
  /\ UNCHANGED faultVars

Overflows(key) ==
  /\ IndexReadable(ShardOf[key])
  /\ OffsetFits(ShardOf[key])
  /\ AddOverflows(key)
  /\ UNCHANGED faultVars

Aborts ==
  /\ \/ RebuildAborts /\ (\A shard \in target : IndexReadable(shard))
     \/ InstallAborts
  /\ UNCHANGED faultVars

-----------------------------------------------------------------------------
(***************************************************************************)
(* An exception leaves the call: what it had in hand is gone.  A failure   *)
(* of a working file counts against the bound, one of a broken file is     *)
(* bound to happen.                                                        *)
(***************************************************************************)
Throw ==
  /\ pc' = "idle"
  /\ entry' = {}
  /\ displaced' = {}
  /\ target' = {}
  /\ newEntries' = NoEntries
  /\ result' = {}
  /\ UNCHANGED <<failure, torn>>

Fault == failures < MAX_FAILURES /\ failures' = failures + 1

FaultUnless(works) ==
  \/ works /\ Fault
  \/ ~works /\ UNCHANGED failures

(***************************************************************************)
(* writeFile of an index fails: when it is opened, when it has been        *)
(* truncated, when all of it has been written.                             *)
(***************************************************************************)
IndexWriteFails(shard, newTable) ==
  \/ UNCHANGED <<storageHashTable, lostIndex>>
  \/ lostIndex' = lostIndex \cup {shard} /\ UNCHANGED storageHashTable
  \/ storageHashTable' = newTable /\ UNCHANGED lostIndex

(***************************************************************************)
(* A record that is overwritten may keep the old value, take the new one,  *)
(* or end up with parts of both: a value of the same key.                  *)
(***************************************************************************)
OverwriteFails(key, ptr) ==
  /\ InFile(key, ptr)
  /\ \/ UNCHANGED valuesFile
     \/ \E value \in ValuesOf(key) : WriteValueDirectly(key, ptr, value)
  /\ Fault
  /\ UNCHANGED <<storageHashTable, aliveValuesCnt, filter, lostIndex, ragged>>

AddCachedFails(key) ==
  /\ PointsToValue(cacheMap[key])
  /\ OverwriteFails(key, cacheMap[key])

(***************************************************************************)
(* writeValue fails: at the index, at the record, at the index again after *)
(* a removed record has been revived.                                      *)
(***************************************************************************)
MissesCache(key) == ~PointsToValue(cacheMap[key])

NothingDone == UNCHANGED <<shardVars, lostIndex, ragged>>

AddReadFails(key) ==
  /\ MissesCache(key)
  /\ FaultUnless(IndexReadable(ShardOf[key]))
  /\ NothingDone

AddOverwriteFails(key) ==
  /\ MissesCache(key)
  /\ IndexReadable(ShardOf[key])
  /\ PointsToValue(storageHashTable[key])
  /\ OverwriteFails(key, storageHashTable[key])

AddReviveFails(key) ==
  /\ MissesCache(key)
  /\ IndexReadable(ShardOf[key])
  /\ storageHashTable[key].type = "DELETED"
  /\ InFile(key, storageHashTable[key])
  /\ \E value \in ValuesOf(key) :
       WriteValueDirectly(key, storageHashTable[key], value)
  /\ IncrementAliveValuesCnt(ShardOf[key])
  /\ IndexWriteFails(ShardOf[key],
       [storageHashTable EXCEPT ![key] = WriteValuePtr(key)])
  /\ Fault
  /\ UNCHANGED <<filter, ragged>>

(***************************************************************************)
(* The append fails: nothing, a part of the record or all of it has been   *)
(* written.  It is not counted.                                            *)
(***************************************************************************)
AddAppendFailsIndexed(key) ==    \* mutant: the index is written first
  LET s == ShardOf[key] IN
  /\ MissesCache(key)
  /\ IndexReadable(s)
  /\ storageHashTable[key] = EMPTY_PTR
  /\ storageHashTable' = [storageHashTable EXCEPT ![key] = WriteValuePtr(key)]
  /\ Fault
  /\ UNCHANGED <<valuesFile, aliveValuesCnt, filter, lostIndex, ragged>>

AddAppendFails(key) ==
  LET s == ShardOf[key] IN
  /\ MissesCache(key)
  /\ IndexReadable(s)
  /\ storageHashTable[key] = EMPTY_PTR
  /\ \/ UNCHANGED <<valuesFile, ragged>>
     \/ ragged' = ragged \cup {s} /\ UNCHANGED valuesFile
     \/ /\ \E value \in ValuesOf(key) :
             valuesFile' = [valuesFile EXCEPT ![s] = Append(@, value)]
        /\ UNCHANGED ragged
  /\ Fault
  /\ UNCHANGED <<storageHashTable, aliveValuesCnt, filter, lostIndex>>

(***************************************************************************)
(* The index cannot be written after the value has been appended, counted  *)
(* and added to the filter.                                                *)
(***************************************************************************)
AddIndexFailsUnfiltered(key) ==    \* mutant: the filter is updated last
  LET s == ShardOf[key] IN
  /\ MissesCache(key)
  /\ IndexReadable(s)
  /\ storageHashTable[key] = EMPTY_PTR
  /\ ~IndexOverflows(s)
  /\ OffsetFits(s)
  /\ \E value \in ValuesOf(key) :
       valuesFile' = [valuesFile EXCEPT ![s] = Append(@, value)]
  /\ IncrementAliveValuesCnt(s)
  /\ IndexWriteFails(s, [storageHashTable EXCEPT ![key] = WriteValuePtr(key)])
  /\ Fault
  /\ UNCHANGED <<filter, ragged>>

AddIndexFails(key) ==
  LET s == ShardOf[key] IN
  /\ MissesCache(key)
  /\ IndexReadable(s)
  /\ storageHashTable[key] = EMPTY_PTR
  /\ ~IndexOverflows(s)
  /\ OffsetFits(s)
  /\ \E value \in ValuesOf(key) :
       valuesFile' = [valuesFile EXCEPT ![s] = Append(@, value)]
  /\ IncrementAliveValuesCnt(s)
  /\ filter' = [filter EXCEPT ![s] = AddKeys(@, {key})]
  /\ IndexWriteFails(s, [storageHashTable EXCEPT ![key] = WriteValuePtr(key)])
  /\ Fault
  /\ UNCHANGED ragged

AddFails(key) ==
  /\ pc = "idle"
  /\ \/ AddCachedFails(key) \/ AddReadFails(key) \/ AddOverwriteFails(key)
     \/ AddReviveFails(key) \/ AddAppendFails(key) \/ AddIndexFails(key)
  /\ Throw
  /\ told' = [told EXCEPT ![key] = "open"]
  /\ UNCHANGED cacheMap

-----------------------------------------------------------------------------
(***************************************************************************)
(* get fails: it has changed nothing.                                      *)
(***************************************************************************)
GetFails(key) ==
  /\ pc = "idle"
  /\ \/ /\ cacheMap[key].type = "PRESENT"
        /\ FaultUnless(InFile(key, cacheMap[key]))
     \/ /\ cacheMap[key] = EMPTY_PTR
        /\ FilterHas(key)
        /\ FaultUnless(/\ IndexReadable(ShardOf[key])
                       /\ storageHashTable[key].type = "PRESENT" =>
                            InFile(key, storageHashTable[key]))
  /\ Throw
  /\ UNCHANGED <<cacheMap, shardVars, lostIndex, ragged, told>>

(***************************************************************************)
(* remove fails: of a cached key, when the values file is examined, after  *)
(* the removal has been cached and counted; of another, at the index.      *)
(***************************************************************************)
RemoveCachedFails(key) ==
  /\ cacheMap[key].type = "PRESENT"
  /\ SetCached(key, SetValuePresent(cacheMap[key], FALSE))
  /\ DecrementAliveValuesCnt(ShardOf[key])
  /\ Fault
  /\ UNCHANGED <<storageHashTable, valuesFile, filter, lostIndex, ragged>>

RemoveMissingFails(key) ==
  /\ cacheMap[key] = EMPTY_PTR
  /\ FilterHas(key)
  /\ \/ FaultUnless(IndexReadable(ShardOf[key])) /\ NothingDone
     \/ /\ IndexReadable(ShardOf[key])
        /\ FoundPresent(key)
        /\ DecrementAliveValuesCnt(ShardOf[key])
        /\ IndexWriteFails(ShardOf[key],
             [storageHashTable EXCEPT ![key] = SetValuePresent(@, FALSE)])
        /\ Fault
        /\ UNCHANGED <<valuesFile, filter, ragged>>
  /\ UNCHANGED cacheMap

RemoveFails(key) ==
  /\ pc = "idle"
  /\ RemoveCachedFails(key) \/ RemoveMissingFails(key)
  /\ Throw
  /\ told' = [told EXCEPT ![key] = "open"]

(***************************************************************************)
(* A push fails, at the index or when the values file is examined.  The    *)
(* displaced entry is in no place any more: a lazy removal that has not    *)
(* reached the index is forgotten.                                         *)
(***************************************************************************)
PushIndexFails(d) ==
  /\ ReadsIndex(d)
  /\ \/ FaultUnless(IndexReadable(ShardOf[d.key])) /\ NothingDone
     \/ /\ IndexReadable(ShardOf[d.key])
        /\ FoundPresent(d.key)
        /\ IndexWriteFails(ShardOf[d.key],
             [storageHashTable EXCEPT ![d.key] = SetValuePresent(@, FALSE)])
        /\ Fault
        /\ UNCHANGED <<valuesFile, aliveValuesCnt, filter, ragged>>

PushExamineFails(d) ==
  /\ \/ d.ptr.type = "DELETED" /\ PushRemoveEntry(d.key)
     \/ d.ptr.type \in {"PRESENT", "NONEXISTENT"} /\ UNCHANGED shardVars
  /\ ReadsIndex(d) => IndexReadable(ShardOf[d.key])
  /\ Fault
  /\ UNCHANGED <<lostIndex, ragged>>

Forgotten == {key \in Key : \E d \in displaced : d.key = key /\ d.ptr.type = "DELETED"}

PushFails ==
  /\ pc = "push"
  /\ \E d \in displaced : PushIndexFails(d) \/ PushExamineFails(d)
  /\ Throw
  /\ told' = [key \in Key |->
               IF key \in Forgotten /\ storageHashTable'[key].type = "PRESENT"
                 THEN "open" ELSE told[key]]
  /\ UNCHANGED cacheMap

(***************************************************************************)
(* A rebuild fails: before the first rename, when nothing but new files    *)
(* has been written, which the next rebuild overwrites; between the two    *)
(* renames; or in its last assert, which examines the values file when     *)
(* both have been renamed.  The old Shard object and the cache stay.       *)
(***************************************************************************)
RebuildFailsEarly ==
  /\ pc = "rebuild"
  /\ \A shard \in target : FaultUnless(CanRead(shard))
  /\ Throw
  /\ UNCHANGED <<cacheMap, shardVars, lostIndex, ragged, told>>

RebuildFailsTorn ==
  /\ pc = "rebuild"
  /\ \E shard \in target :
       /\ CanRead(shard)
       /\ SyncDeletedKeys(shard) = {}
       /\ \E order \in Enumerations(KeptKeys(shard)) :
            /\ valuesFile' = [valuesFile EXCEPT ![shard] = CopiedRecords(order)]
            /\ \/ UNCHANGED storageHashTable
               \/ storageHashTable' = RebuiltTable(shard, order)
       /\ ragged' = ragged \ {shard}
       /\ torn' = torn \cup {shard}
  /\ Fault
  /\ pc' = "idle"
  /\ target' = {}
  /\ result' = {}
  /\ UNCHANGED <<cacheMap, aliveValuesCnt, filter, entry, displaced, newEntries,
                 failure, lostIndex, told>>

-----------------------------------------------------------------------------
FaultsNext ==
  \/ \E key \in Key :
       \/ AddWorks(key) \/ GetWorks(key) \/ RemoveWorks(key)
       \/ PtrAborts(key) \/ Overflows(key)
       \/ AddFails(key) \/ GetFails(key) \/ RemoveFails(key)
  \/ PushWorks \/ RebuildWorks \/ Aborts
  \/ (PutEntry \/ InstallEntry \/ Halted) /\ UNCHANGED faultVars
  \/ PushFails \/ RebuildFailsEarly \/ RebuildFailsTorn

FaultsSpec == FaultsInit /\ [][FaultsNext]_<<vars, faultVars>>

-----------------------------------------------------------------------------
(***************************************************************************)
(* What failures never do, as long as no rebuild is torn: no two keys of   *)
(* an index share a record and no pointer leaves the values file, though a *)
(* failed add may leave a record that nobody points to, and a failed       *)
(* removal may be half done.  (Shard::writeValue: the record comes first.) *)
(***************************************************************************)
RecordsOwned ==
  \A shard \in ShardIndex \ torn :
    \A key, other \in IndexedKeys(shard) :
      /\ PointsToValue(storageHashTable[key])
      /\ InFile(key, storageHashTable[key])
      /\ storageHashTable[key].index = storageHashTable[other].index => key = other

(***************************************************************************)
(* Nor does a get find a value of another key.  (KVS::get.)                *)
(***************************************************************************)
FindsOwnValue(key) ==
  IsAlive(key) /\ InFile(key, EffectivePtr(key)) =>
    ReadValueDirectly(key, EffectivePtr(key)) \in ValuesOf(key)

OwnValues == \A key \in Key : ShardOf[key] \notin torn => FindsOwnValue(key)

(***************************************************************************)
(* A cached pointer to a value is still the pointer of the index: whatever *)
(* fails after the index has been written leaves the key out of the cache, *)
(* or cached as nonexistent.  (KVS::add, remove, pushOperation.)           *)
(***************************************************************************)
CachedPtrsCurrent ==
  \A key \in Key :
    ShardOf[key] \notin torn /\ PointsToValue(CurrentPtr(key)) =>
      storageHashTable[key] = PtrTo(CurrentPtr(key).index, TRUE)

(***************************************************************************)
(* A rebuild that succeeds makes good for lost records and lost counts:    *)
(* afterwards the records of the shard, its counter and its bound keys are *)
(* as many, whatever has failed before.  (ShardBuilder::rebuildShard.)     *)
(***************************************************************************)
RebuildRepairs ==
  [][\A shard \in target \ torn :
       pc = "rebuild" /\ pc' # "halted" /\ UNCHANGED failures /\ CanRead(shard) =>
         /\ shard \notin ragged'
         /\ Len(valuesFile'[shard]) = aliveValuesCnt'[shard]
         /\ aliveValuesCnt'[shard] =
              Cardinality({key \in KeysOf(shard) : IsAlive(key)'})]_<<vars, faultVars>>

(***************************************************************************)
(* A failure is nobody's business but that of the key in hand: a key that  *)
(* was added stays, and one that was removed stays away, until a call for  *)
(* this very key fails.  (A call may throw in the meantime, because the    *)
(* index of its shard is lost, but it is not answered wrongly.)  A lazy    *)
(* removal that is displaced and whose push fails is the one exception:    *)
(* the key comes back, although its remove returned long ago.  And after a *)
(* failed call, a remove that is answered from the cache settles nothing:  *)
(* the index may have the key.  (KVS::add, remove, pushOperation,          *)
(* rebuildShard.)                                                          *)
(***************************************************************************)
AnsweredCallsLast ==
  \A key \in Key :
    ShardOf[key] \notin torn /\ told[key] # "open" =>
      (IsAlive(key) <=> told[key] = "alive")

=============================================================================
