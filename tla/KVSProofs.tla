----------------------------- MODULE KVSProofs -----------------------------
(***************************************************************************)
(* The safety of KVS, for every set of keys and values, every size of the  *)
(* cache, the index and the filter, with asserts and without.              *)
(***************************************************************************)
EXTENDS KVSCorrectness, ShardProofs

(***************************************************************************)
(* Where a call stands: which of its registers are in use, and what it has *)
(* found out before it came to this part.  An entry is put for a key that  *)
(* the cache does not hold as a value; a displaced lazy removal is in the  *)
(* cache no more.                                                          *)
(***************************************************************************)
PhaseInv ==
  /\ entry # {} => pc = "put"
  /\ displaced # {} => pc = "push"
  /\ newEntries # NoEntries => pc \in {"install", "halted"}
  /\ pc = "rebuild" => \A shard \in target : IsRebuildRequired(shard)
  /\ \A e \in entry : /\ e.ptr # EMPTY_PTR
                      /\ cacheMap[e.key].type \in {"EMPTY_PTR", "NONEXISTENT"}
  /\ \A d \in displaced : /\ d.ptr # EMPTY_PTR
                          /\ d.ptr.type = "DELETED" => cacheMap[d.key] = EMPTY_PTR

(***************************************************************************)
(* What the cache, an entry on its way into it and an entry on its way out *)
(* of it have to do with the index.                                        *)
(***************************************************************************)
Coherent(ptr, key) ==
  /\ PointsToValue(ptr) => storageHashTable[key] = PtrTo(ptr.index, TRUE)
  /\ ptr = NONEXISTENT => storageHashTable[key].type # "PRESENT"

CacheInv ==
  /\ \A key \in Key : Coherent(newEntries[key], key)
  /\ \A e \in entry : Coherent(e.ptr, e.key)
  /\ \A d \in displaced : cacheMap[d.key] = EMPTY_PTR => Coherent(d.ptr, d.key)
  /\ \A key \in Key :
       \/ newEntries[key] # EMPTY_PTR
       \/ \E e \in entry : e.key = key
       \/ Coherent(cacheMap[key], key)

(***************************************************************************)
(* The inductive invariant.                                                *)
(***************************************************************************)
IInv == TypeOK /\ ShardInv /\ PhaseInv /\ CacheInv

LEMMA CacheInvCoherent == CacheInv => CacheCoherent
<1> SUFFICES ASSUME CacheInv, NEW key \in Key
             PROVE  Coherent(CurrentPtr(key), key)
  BY DEF CacheCoherent, Coherent
<1> DEFINE incoming == {e \in entry : e.key = key}
           outgoing == {d \in displaced : d.key = key /\ cacheMap[key] = EMPTY_PTR}
<1>1. CASE newEntries[key] # EMPTY_PTR
  BY <1>1 DEF CacheInv, CurrentPtr
<1>2. CASE newEntries[key] = EMPTY_PTR /\ incoming # {}
  <2>1. CurrentPtr(key) = (CHOOSE e \in incoming : TRUE).ptr
    BY <1>2 DEF CurrentPtr
  <2>2. (CHOOSE e \in incoming : TRUE) \in incoming
    BY <1>2
  <2> QED BY <2>1, <2>2 DEF CacheInv
<1>3. CASE newEntries[key] = EMPTY_PTR /\ incoming = {} /\ outgoing # {}
  <2>1. CurrentPtr(key) = (CHOOSE d \in outgoing : TRUE).ptr
    BY <1>3 DEF CurrentPtr
  <2>2. (CHOOSE d \in outgoing : TRUE) \in outgoing
    BY <1>3
  <2> QED BY <2>1, <2>2 DEF CacheInv
<1>4. CASE newEntries[key] = EMPTY_PTR /\ incoming = {} /\ outgoing = {}
  <2>1. CurrentPtr(key) = cacheMap[key]
    BY <1>4 DEF CurrentPtr
  <2> QED BY <2>1, <1>4 DEF CacheInv
<1> QED BY <1>1, <1>2, <1>3, <1>4

LEMMA InitIInv == Init => IInv
<1> SUFFICES ASSUME Init PROVE IInv
  OBVIOUS
<1>1. ShardInv
  BY ShardInitInv DEF Init
<1>2. EMPTY_PTR \in Ptr
  BY DEF Ptr
<1>3. TypeOK
  BY <1>1, <1>2 DEF Init, CacheInit, TypeOK, CacheTypeOK, ShardInv, NoEntries, IsOptional
<1>4. PhaseInv
  BY DEF Init, PhaseInv
<1>5. CacheInv
  <2>1. \A key : Coherent(EMPTY_PTR, key)
    BY DEF Coherent, PointsToValue, EMPTY_PTR, NONEXISTENT
  <2> QED BY <2>1 DEF Init, CacheInit, NoEntries, CacheInv
<1> QED BY <1>1, <1>3, <1>4, <1>5 DEF IInv

(***************************************************************************)
(* Nothing is asked of EMPTY_PTR.                                          *)
(***************************************************************************)
LEMMA EmptyCoherent ==
  \A key : Coherent(EMPTY_PTR, key) /\ Coherent(EMPTY_PTR, key)'
BY DEF Coherent, PointsToValue, EMPTY_PTR, NONEXISTENT

(***************************************************************************)
(* Between calls, and when a shard is about to be examined or rebuilt, all *)
(* that is known of a key stands in the cache and in the index.            *)
(***************************************************************************)
LEMMA QuietFacts ==
  ASSUME IInv, pc \in {"idle", "push", "rebuild"}
  PROVE  /\ newEntries = NoEntries
         /\ entry = {}
         /\ \A key \in Key : Coherent(cacheMap[key], key)
BY DEF IInv, PhaseInv, CacheInv, NoEntries

LEMMA IdleFacts ==
  ASSUME IInv, pc \in {"idle", "rebuild", "install"}
  PROVE  entry = {} /\ displaced = {}
BY DEF IInv, PhaseInv

(***************************************************************************)
(* A cached pointer to a value and the index entry of its key agree.       *)
(***************************************************************************)
LEMMA CachedPtr ==
  ASSUME IInv, pc = "idle", NEW key \in Key,
         cacheMap[key].type \in {"PRESENT", "DELETED"}
  PROVE  /\ storageHashTable[key] = PtrTo(cacheMap[key].index, TRUE)
         /\ storageHashTable[key] # EMPTY_PTR
         /\ cacheMap[key].index = storageHashTable[key].index
         /\ cacheMap[key].index \in 0 .. 127
         /\ cacheMap[key] \in Ptr
<1>1. Coherent(cacheMap[key], key)
  BY QuietFacts
<1>2. storageHashTable[key] = PtrTo(cacheMap[key].index, TRUE)
  BY <1>1 DEF Coherent, PointsToValue
<1>3. cacheMap[key] \in Ptr
  BY DEF IInv, TypeOK, CacheTypeOK
<1> QED BY <1>2, <1>3, PtrCases DEF PtrTo, EMPTY_PTR

-----------------------------------------------------------------------------
(***************************************************************************)
(* The ways a part of a call can end.                                      *)
(***************************************************************************)
LEMMA ReturnIInv ==
  ASSUME IInv, pc = "idle", Return,
         ShardInv', CacheTypeOK', IsOptional(result', Value),
         \A key \in Key : Coherent(cacheMap[key], key)'
  PROVE  IInv'
<1>1. entry = {} /\ displaced = {} /\ newEntries = NoEntries
  BY QuietFacts, IdleFacts
<1>2. TypeOK'
  BY DEF IInv, TypeOK, ShardInv, Return
<1>3. PhaseInv'
  BY <1>1 DEF Return, PhaseInv, NoEntries
<1>4. CacheInv'
  BY <1>1, EmptyCoherent DEF Return, CacheInv, NoEntries
<1> QED BY <1>2, <1>3, <1>4 DEF IInv

LEMMA ThenPutIInv ==
  ASSUME IInv, pc = "idle", NEW key \in Key, NEW ptr \in Ptr, ThenPut(key, ptr),
         ptr # EMPTY_PTR,
         cacheMap[key].type \in {"EMPTY_PTR", "NONEXISTENT"},
         ShardInv', UNCHANGED cacheMap, IsOptional(result', Value),
         PointsToValue(ptr) => storageHashTable'[key] = PtrTo(ptr.index, TRUE),
         ptr = NONEXISTENT => storageHashTable'[key].type # "PRESENT",
         \A other \in Key \ {key} : storageHashTable'[other] = storageHashTable[other]
  PROVE  IInv'
<1>1. /\ displaced = {} /\ newEntries = NoEntries
      /\ \A k \in Key : Coherent(cacheMap[k], k)
  BY QuietFacts, IdleFacts
<1>2. TypeOK'
  <2>1. IsOptional(entry', Entry)
    BY DEF ThenPut, IsOptional, Entry
  <2> QED BY <2>1 DEF IInv, TypeOK, ShardInv, ThenPut, CacheTypeOK
<1>3. PhaseInv'
  BY <1>1 DEF ThenPut, PhaseInv, NoEntries
<1>4. CacheInv'
  <2>1. \A k \in Key : newEntries'[k] = EMPTY_PTR
    BY <1>1 DEF ThenPut, NoEntries
  <2>2. \A k \in Key : Coherent(newEntries[k], k)'
    BY <2>1, EmptyCoherent
  <2>3. \A e \in entry' : Coherent(e.ptr, e.key)'
    <3>1. \A e \in entry' : e.ptr = ptr /\ e.key = key
      BY DEF ThenPut
    <3>2. Coherent(ptr, key)'
      BY DEF Coherent
    <3> QED BY <3>1, <3>2 DEF Coherent
  <2>4. displaced' = {}
    BY <1>1 DEF ThenPut
  <2>5. \A k \in Key \ {key} : Coherent(cacheMap[k], k)'
    BY <1>1 DEF Coherent
  <2>6. \E e \in entry' : e.key = key
    BY DEF ThenPut
  <2> QED BY <2>2, <2>3, <2>4, <2>5, <2>6 DEF CacheInv
<1> QED BY <1>2, <1>3, <1>4 DEF IInv

LEMMA ThenRebuildIInv ==
  ASSUME IInv, pc \in {"idle", "push"}, NEW shard \in ShardIndex,
         ThenRebuildIfRequired(shard),
         UNCHANGED <<entry, newEntries, failure>>, displaced' = {},
         ShardInv', CacheTypeOK', IsOptional(result', Value),
         \A key \in Key : Coherent(cacheMap[key], key)'
  PROVE  IInv'
<1>1. entry = {} /\ newEntries = NoEntries
  BY QuietFacts
<1>2. TypeOK'
  <2>1. IsOptional(target', ShardIndex)
    BY DEF IInv, TypeOK, ThenRebuildIfRequired, IsOptional
  <2>2. pc' \in {"idle", "rebuild"}
    BY DEF ThenRebuildIfRequired
  <2>3. IsOptional({}, Entry)
    BY DEF IsOptional
  <2> QED BY <1>1, <2>1, <2>2, <2>3 DEF IInv, TypeOK, ShardInv
<1>3. PhaseInv'
  BY <1>1 DEF ThenRebuildIfRequired, PhaseInv, NoEntries
<1>4. CacheInv'
  BY <1>1, EmptyCoherent DEF CacheInv, NoEntries
<1> QED BY <1>2, <1>3, <1>4 DEF IInv

LEMMA DieIInv ==
  ASSUME IInv, pc \in {"idle", "rebuild", "install"}, NEW reason, Die(reason),
         reason \in {"shard overflow", "sync deleted", "rebuild displaced"}
  PROVE  IInv'
<1>1. entry = {} /\ displaced = {}
  BY IdleFacts
<1>2. ShardInv'
  BY ShardUnchangedInv DEF IInv, Die
<1>3. TypeOK'
  BY <1>2 DEF IInv, TypeOK, ShardInv, CacheTypeOK, Die
<1>4. PhaseInv'
  BY <1>1 DEF PhaseInv, Die
<1>5. CacheInv'
  BY DEF IInv, CacheInv, Coherent, Die, shardVars
<1> QED BY <1>2, <1>3, <1>4, <1>5 DEF IInv

-----------------------------------------------------------------------------
(***************************************************************************)
(* Calls that the cache answers.                                           *)
(***************************************************************************)
LEMMA WriteCachedInv ==
  ASSUME IInv, pc = "idle", NEW key \in Key, NEW value \in Value,
         cacheMap[key].type \in {"PRESENT", "DELETED"},
         WriteValueDirectly(key, cacheMap[key], value),
         aliveValuesCnt' \in [ShardIndex -> 0 .. 255],
         UNCHANGED <<storageHashTable, filter>>
  PROVE  ShardInv'
<1>1. /\ valuesFile' \in [ShardIndex -> Seq(Value)]
      /\ \A shard \in ShardIndex : Len(valuesFile'[shard]) = Len(valuesFile[shard])
  BY CachedPtr, WriteDirectly DEF IInv
<1> QED BY <1>1, SameIndexInv DEF IInv

LEMMA AddCachedIInv ==
  ASSUME IInv, NEW key \in Key, NEW value \in Value, AddCached(key, value)
  PROVE  IInv'
<1>1. pc = "idle" /\ \A k \in Key : Coherent(cacheMap[k], k)
  BY QuietFacts DEF AddCached
<1>2. ShardInv'
  <2>1. aliveValuesCnt' \in [ShardIndex -> 0 .. 255]
    BY DEF AddCached, IInv, ShardInv, ShardTypeOK
  <2> QED BY <1>1, <2>1, WriteCachedInv DEF AddCached
<1>3. \A k \in Key : Coherent(cacheMap[k], k)'
  BY <1>1 DEF AddCached, Coherent
<1>4. CacheTypeOK' /\ IsOptional(result', Value)
  BY DEF AddCached, IInv, TypeOK, CacheTypeOK, IsOptional
<1> QED BY <1>1, <1>2, <1>3, <1>4, ReturnIInv DEF AddCached

LEMMA AddDeletedIInv ==
  ASSUME IInv, NEW key \in Key, NEW value \in Value, AddDeleted(key, value)
  PROVE  IInv'
<1>1. pc = "idle" /\ \A k \in Key : Coherent(cacheMap[k], k)
  BY QuietFacts DEF AddDeleted
<1>2. ShardInv'
  <2>1. aliveValuesCnt' \in [ShardIndex -> 0 .. 255]
    BY CounterType, ShardAssumption DEF AddDeleted, IInv, ShardInv, ShardTypeOK
  <2> QED BY <1>1, <2>1, WriteCachedInv DEF AddDeleted
<1> DEFINE revived == SetValuePresent(cacheMap[key], TRUE)
<1>3. /\ revived \in Ptr /\ revived # NONEXISTENT
      /\ revived.index = cacheMap[key].index
  BY <1>1, CachedPtr, PtrToType DEF AddDeleted, SetValuePresent
<1>4. cacheMap' = [cacheMap EXCEPT ![key] = revived]
  BY DEF AddDeleted, SetCached
<1>5. cacheMap \in [Key -> Ptr]
  BY DEF IInv, TypeOK, CacheTypeOK
<1>6. storageHashTable[key] = PtrTo(revived.index, TRUE)
  BY <1>1, <1>3, CachedPtr DEF AddDeleted
<1> HIDE DEF revived
<1>7. \A k \in Key : Coherent(cacheMap[k], k)'
  <2> SUFFICES ASSUME NEW k \in Key PROVE Coherent(cacheMap[k], k)'
    OBVIOUS
  <2>1. CASE k = key
    BY <2>1, <1>3, <1>4, <1>5, <1>6 DEF AddDeleted, Coherent
  <2>2. CASE k # key
    BY <2>2, <1>1, <1>4, <1>5 DEF AddDeleted, Coherent
  <2> QED BY <2>1, <2>2
<1>8. CacheTypeOK' /\ IsOptional(result', Value)
  BY <1>3, <1>4, <1>5 DEF AddDeleted, CacheTypeOK, IsOptional
<1> QED BY <1>1, <1>2, <1>7, <1>8, ReturnIInv DEF AddDeleted

LEMMA GetCachedIInv ==
  ASSUME IInv, NEW key \in Key, GetCached(key)
  PROVE  IInv'
<1>1. pc = "idle" /\ \A k \in Key : Coherent(cacheMap[k], k)
  BY QuietFacts DEF GetCached
<1>2. ShardInv'
  BY ShardUnchangedInv DEF IInv, GetCached
<1>3. ReadValueDirectly(key, cacheMap[key]) \in Value
  BY <1>1, CachedPtr, ReadDirectly DEF IInv, GetCached
<1>4. CacheTypeOK' /\ IsOptional(result', Value)
  BY <1>3 DEF GetCached, IInv, TypeOK, CacheTypeOK, IsOptional
<1>5. \A k \in Key : Coherent(cacheMap[k], k)'
  BY <1>1 DEF GetCached, Coherent, shardVars
<1> QED BY <1>1, <1>2, <1>4, <1>5, ReturnIInv DEF GetCached

LEMMA AbsentIInv ==
  ASSUME IInv, NEW key \in Key, GetAbsent(key) \/ RemoveAbsent(key)
  PROVE  IInv'
<1>1. pc = "idle" /\ \A k \in Key : Coherent(cacheMap[k], k)
  BY QuietFacts DEF GetAbsent, RemoveAbsent
<1>2. ShardInv'
  BY ShardUnchangedInv DEF IInv, GetAbsent, RemoveAbsent
<1>3. CacheTypeOK' /\ IsOptional(result', Value)
  BY DEF GetAbsent, RemoveAbsent, IInv, TypeOK, CacheTypeOK, IsOptional
<1>4. \A k \in Key : Coherent(cacheMap[k], k)'
  BY <1>1 DEF GetAbsent, RemoveAbsent, Coherent, shardVars
<1> QED BY <1>1, <1>2, <1>3, <1>4, ReturnIInv DEF GetAbsent, RemoveAbsent

LEMMA RemoveCachedIInv ==
  ASSUME IInv, NEW key \in Key, RemoveCached(key)
  PROVE  IInv'
<1>1. /\ pc = "idle" /\ displaced = {}
      /\ \A k \in Key : Coherent(cacheMap[k], k)
  BY QuietFacts, IdleFacts DEF RemoveCached
<1> DEFINE removed == SetValuePresent(cacheMap[key], FALSE)
<1>2. ShardInv'
  <2>1. aliveValuesCnt' \in [ShardIndex -> 0 .. 255]
    BY CounterType, ShardAssumption DEF RemoveCached, IInv, ShardInv, ShardTypeOK
  <2>2. valuesFile' \in [ShardIndex -> Seq(Value)]
    BY DEF RemoveCached, IInv, ShardInv, ShardTypeOK
  <2> QED BY <2>1, <2>2, SameIndexInv DEF RemoveCached, IInv
<1>3. /\ removed \in Ptr /\ removed # NONEXISTENT
      /\ removed.index = cacheMap[key].index
  BY <1>1, CachedPtr, PtrToType DEF RemoveCached, SetValuePresent
<1>4. cacheMap' = [cacheMap EXCEPT ![key] = removed]
  BY DEF RemoveCached, SetCached
<1>5. cacheMap \in [Key -> Ptr]
  BY DEF IInv, TypeOK, CacheTypeOK
<1>6. storageHashTable[key] = PtrTo(removed.index, TRUE)
  BY <1>1, <1>3, CachedPtr DEF RemoveCached
<1> HIDE DEF removed
<1>7. \A k \in Key : Coherent(cacheMap[k], k)'
  <2> SUFFICES ASSUME NEW k \in Key PROVE Coherent(cacheMap[k], k)'
    OBVIOUS
  <2>1. CASE k = key
    BY <2>1, <1>3, <1>4, <1>5, <1>6 DEF RemoveCached, Coherent
  <2>2. CASE k # key
    BY <2>2, <1>1, <1>4, <1>5 DEF RemoveCached, Coherent
  <2> QED BY <2>1, <2>2
<1>8. CacheTypeOK' /\ IsOptional(result', Value)
  BY <1>3, <1>4, <1>5 DEF RemoveCached, CacheTypeOK, IsOptional
<1>9. ShardOf[key] \in ShardIndex
  BY ShardAssumption
<1> QED BY <1>1, <1>2, <1>7, <1>8, <1>9, ThenRebuildIInv DEF RemoveCached

-----------------------------------------------------------------------------
(***************************************************************************)
(* Calls that go through the shard, and the entry they end with.           *)
(***************************************************************************)
LEMMA AddMissingIInv ==
  ASSUME IInv, NEW key \in Key, NEW value \in Value, AddMissing(key, value)
  PROVE  IInv'
<1> DEFINE ptr == WriteValuePtr(key)
<1>1. /\ storageHashTable' = [storageHashTable EXCEPT ![key] = ptr]
      /\ ptr = PtrTo(ptr.index, TRUE)
  BY WriteValueResult DEF AddMissing, IInv
<1>2. ShardInv'
  <2>1. storageHashTable[key] = EMPTY_PTR => ~IndexOverflows(ShardOf[key])
    BY DEF AddMissing, NeedsNewRecord
  <2> QED BY <2>1, WriteValueInv DEF AddMissing, IInv
<1>3. storageHashTable \in [Key -> Ptr] /\ storageHashTable' \in [Key -> Ptr]
  BY <1>2 DEF IInv, ShardInv, ShardTypeOK
<1> HIDE DEF ptr
<1>4. storageHashTable'[key] = ptr /\ ptr \in Ptr
  BY <1>1, <1>3
<1>5. ptr # EMPTY_PTR /\ ptr # NONEXISTENT
  BY <1>1 DEF PtrTo, EMPTY_PTR, NONEXISTENT
<1>6. \A other \in Key \ {key} : storageHashTable'[other] = storageHashTable[other]
  BY <1>1, <1>3
<1>7. IsOptional(result', Value)
  BY DEF AddMissing, IsOptional
<1>8. ThenPut(key, ptr)
  BY DEF AddMissing, ptr
<1> QED
  BY <1>1, <1>2, <1>4, <1>5, <1>6, <1>7, <1>8, ThenPutIInv DEF AddMissing

(***************************************************************************)
(* A filter that is complete makes readValue as good as the index.         *)
(***************************************************************************)
LEMMA ReadValueResult ==
  ASSUME ShardInv, NEW key \in Key
  PROVE  /\ ReadValuePtr(key) = storageHashTable[key]
         /\ IsOptional(ReadValue(key), Value)
<1>1. ReadValuePtr(key) = storageHashTable[key]
  BY DEF ShardInv, FilterComplete, ReadValuePtr
<1>2. ASSUME storageHashTable[key].type = "PRESENT"
      PROVE  ReadValueDirectly(key, ReadValuePtr(key)) \in Value
  <2>1. storageHashTable[key] # EMPTY_PTR
    BY <1>2 DEF EMPTY_PTR
  <2> QED BY <2>1, <1>1, ReadDirectly
<1> QED BY <1>1, <1>2 DEF ReadValue, IsOptional

LEMMA GetMissingIInv ==
  ASSUME IInv, NEW key \in Key, GetMissing(key)
  PROVE  IInv'
<1>1. ReadValuePtr(key) = storageHashTable[key] /\ IsOptional(result', Value)
  BY ReadValueResult DEF IInv, GetMissing
<1>2. ShardInv' /\ storageHashTable' = storageHashTable
  BY ShardUnchangedInv DEF IInv, GetMissing, shardVars
<1>3. cacheMap[key].type = "EMPTY_PTR" /\ pc = "idle" /\ UNCHANGED cacheMap
  BY DEF GetMissing, EMPTY_PTR
<1>4. storageHashTable[key] \in Ptr
  BY DEF IInv, ShardInv, ShardTypeOK
<1>5. CASE storageHashTable[key].type = "PRESENT"
  <2> DEFINE ptr == storageHashTable[key]
  <2>1. ptr = PtrTo(ptr.index, TRUE)
    BY <1>4, <1>5 DEF Ptr, PtrTo, EMPTY_PTR, NONEXISTENT
  <2>2. ptr # EMPTY_PTR /\ ptr # NONEXISTENT /\ ThenPut(key, ptr)
    BY <1>1, <1>5 DEF GetMissing, EMPTY_PTR, NONEXISTENT
  <2> QED BY <1>1, <1>2, <1>3, <1>4, <2>1, <2>2, ThenPutIInv
<1>6. CASE storageHashTable[key].type # "PRESENT"
  <2>1. NONEXISTENT \in Ptr /\ NONEXISTENT # EMPTY_PTR /\ ~PointsToValue(NONEXISTENT)
    BY DEF Ptr, NONEXISTENT, EMPTY_PTR, PointsToValue
  <2>2. ThenPut(key, NONEXISTENT)
    BY <1>1, <1>6 DEF GetMissing
  <2> QED BY <1>1, <1>2, <1>3, <1>6, <2>1, <2>2, ThenPutIInv
<1> QED BY <1>5, <1>6

(***************************************************************************)
(* A removal that is written down: the key is not present afterwards.      *)
(***************************************************************************)
LEMMA RemoveEntryResult ==
  ASSUME ShardInv, NEW key \in Key, RemoveEntry(key) \/ PushRemoveEntry(key)
  PROVE  /\ storageHashTable'[key].type # "PRESENT"
         /\ \A other \in Key \ {key} : storageHashTable'[other] = storageHashTable[other]
<1>1. storageHashTable \in [Key -> Ptr]
  BY DEF ShardInv, ShardTypeOK
<1>2. CASE FoundPresent(key)
  <2>1. storageHashTable' =
          [storageHashTable EXCEPT ![key] = PtrTo(storageHashTable[key].index, FALSE)]
    BY <1>2 DEF RemoveEntry, PushRemoveEntry, MarkDeleted, SetValuePresent
  <2> QED BY <1>1, <2>1 DEF PtrTo
<1>3. CASE ~FoundPresent(key)
  <2>1. storageHashTable' = storageHashTable
    BY <1>3 DEF RemoveEntry, PushRemoveEntry, shardVars
  <2>2. storageHashTable[key].type # "PRESENT"
    BY <1>3 DEF FoundPresent, ShardInv, FilterComplete, EMPTY_PTR
  <2> QED BY <2>1, <2>2
<1> QED BY <1>2, <1>3

LEMMA RemoveMissingIInv ==
  ASSUME IInv, NEW key \in Key, RemoveMissing(key)
  PROVE  IInv'
<1>1. /\ storageHashTable'[key].type # "PRESENT"
      /\ \A other \in Key \ {key} : storageHashTable'[other] = storageHashTable[other]
  BY RemoveEntryResult DEF IInv, RemoveMissing
<1>2. ShardInv'
  BY RemoveEntryInv DEF IInv, RemoveMissing
<1>3. /\ NONEXISTENT \in Ptr /\ NONEXISTENT # EMPTY_PTR
      /\ ~PointsToValue(NONEXISTENT)
      /\ cacheMap[key].type = "EMPTY_PTR"
  BY DEF RemoveMissing, Ptr, NONEXISTENT, EMPTY_PTR, PointsToValue
<1>4. IsOptional(result', Value)
  BY DEF RemoveMissing, IsOptional
<1> QED BY <1>1, <1>2, <1>3, <1>4, ThenPutIInv DEF RemoveMissing

-----------------------------------------------------------------------------
(***************************************************************************)
(* The tail of a call: an entry comes into the cache and one may leave it. *)
(***************************************************************************)
LEMMA PutEntryIInv ==
  ASSUME IInv, PutEntry
  PROVE  IInv'
<1>1. PICK e \in entry :
        \/ /\ ~CacheIsFull
           /\ Put(e)
           /\ pc' = "idle"
           /\ UNCHANGED displaced
        \/ /\ CacheIsFull
           /\ \E victim \in Cached :
                /\ Displace(victim, e)
                /\ displaced' = {[key |-> victim, ptr |-> cacheMap[victim]]}
           /\ pc' = "push"
  BY DEF PutEntry
<1>2. /\ pc = "put" /\ entry' = {}
      /\ UNCHANGED <<shardVars, target, newEntries, result, failure>>
  BY DEF PutEntry
<1>3. /\ displaced = {} /\ newEntries = NoEntries
      /\ e.ptr # EMPTY_PTR
      /\ cacheMap[e.key].type \in {"EMPTY_PTR", "NONEXISTENT"}
      /\ Coherent(e.ptr, e.key)
  BY <1>2 DEF IInv, PhaseInv, CacheInv
<1>4. e.key \in Key /\ e.ptr \in Ptr /\ cacheMap \in [Key -> Ptr]
  BY DEF IInv, TypeOK, CacheTypeOK, IsOptional, Entry
<1>5. \A k \in Key \ {e.key} : Coherent(cacheMap[k], k)
  <2>1. \A k \in Key : newEntries[k] = EMPTY_PTR
    BY <1>3 DEF NoEntries
  <2>2. \A x \in entry : x = e
    BY DEF IInv, TypeOK, IsOptional
  <2> QED BY <2>1, <2>2 DEF IInv, CacheInv
<1>6. ShardInv' /\ storageHashTable' = storageHashTable
  BY <1>2, ShardUnchangedInv DEF IInv, shardVars
<1>7. \A k, p : Coherent(p, k) <=> Coherent(p, k)'
  BY <1>6 DEF Coherent
<1>8. \A k \in Key : newEntries'[k] = EMPTY_PTR
  BY <1>2, <1>3 DEF NoEntries
<1>9. EMPTY_PTR \in Ptr /\ IsOptional({}, Entry)
  BY DEF Ptr, IsOptional
<1>10. CASE ~CacheIsFull
  <2>1. /\ cacheMap' = [cacheMap EXCEPT ![e.key] = e.ptr]
        /\ pc' = "idle" /\ displaced' = {}
    BY <1>1, <1>3, <1>10 DEF Put
  <2>2. TypeOK'
    BY <1>2, <1>4, <1>6, <1>9, <2>1 DEF IInv, TypeOK, CacheTypeOK, ShardInv
  <2>3. PhaseInv'
    BY <1>2, <1>3, <2>1 DEF PhaseInv, NoEntries
  <2>4. \A k \in Key : Coherent(cacheMap'[k], k)
    BY <1>3, <1>4, <1>5, <2>1
  <2>5. CacheInv'
    BY <1>2, <1>7, <1>8, <2>1, <2>4, EmptyCoherent DEF CacheInv, Coherent
  <2> QED BY <1>6, <2>2, <2>3, <2>5 DEF IInv
<1>11. CASE CacheIsFull
  <2>1. PICK victim \in Cached :
          /\ Displace(victim, e)
          /\ displaced' = {[key |-> victim, ptr |-> cacheMap[victim]]}
    BY <1>1, <1>11
  <2>2. /\ victim \in Key /\ cacheMap[victim] \in Ptr
        /\ cacheMap[victim] # EMPTY_PTR
        /\ pc' = "push"
    BY <1>1, <1>4, <1>11 DEF Cached
  <2>3. /\ cacheMap' \in [Key -> Ptr]
        /\ cacheMap'[e.key] = e.ptr
        /\ victim # e.key => cacheMap'[victim] = EMPTY_PTR
        /\ \A k \in Key \ {e.key, victim} : cacheMap'[k] = cacheMap[k]
    BY <1>4, <1>9, <2>1, <2>2 DEF Displace
  <2>4. TypeOK'
    <3>1. IsOptional(displaced', Entry)
      BY <2>1, <2>2 DEF IsOptional, Entry
    <3> QED BY <1>2, <1>6, <1>9, <2>2, <2>3, <3>1 DEF IInv, TypeOK, CacheTypeOK, ShardInv
  <2>5. \A d \in displaced' : d.key = victim /\ d.ptr = cacheMap[victim]
    BY <2>1
  <2>6. PhaseInv'
    <3>1. \A d \in displaced' : d.ptr.type = "DELETED" => cacheMap'[d.key] = EMPTY_PTR
      BY <1>3, <2>3, <2>5
    <3> QED BY <1>2, <1>3, <2>2, <2>5, <3>1 DEF PhaseInv, NoEntries
  <2>7. CacheInv'
    <3>1. \A k \in Key : Coherent(newEntries[k], k)'
      BY <1>8, EmptyCoherent
    <3>2. \A k \in Key : Coherent(cacheMap[k], k)'
      <4> SUFFICES ASSUME NEW k \in Key PROVE Coherent(cacheMap'[k], k)
        BY <1>6 DEF Coherent
      <4>1. CASE k = e.key
        BY <4>1, <1>3, <2>3
      <4>2. CASE k # e.key /\ k = victim
        BY <4>2, <2>3, EmptyCoherent
      <4>3. CASE k # e.key /\ k # victim
        BY <4>3, <1>5, <2>3
      <4> QED BY <4>1, <4>2, <4>3
    <3>3. \A d \in displaced' : cacheMap'[d.key] = EMPTY_PTR => Coherent(d.ptr, d.key)
      <4>1. cacheMap'[victim] = EMPTY_PTR => victim # e.key
        BY <1>3, <2>3
      <4>2. victim # e.key => Coherent(cacheMap[victim], victim)
        BY <1>5, <2>2
      <4> QED BY <2>5, <4>1, <4>2
    <3>4. \A d \in displaced' : cacheMap'[d.key] = EMPTY_PTR => Coherent(d.ptr, d.key)'
      BY <3>3, <1>6 DEF Coherent
    <3> QED BY <1>2, <3>1, <3>2, <3>4 DEF CacheInv
  <2> QED BY <1>6, <2>4, <2>6, <2>7 DEF IInv
<1> QED BY <1>10, <1>11

LEMMA PushOperationIInv ==
  ASSUME IInv, PushOperation
  PROVE  IInv'
<1>1. PICK d \in displaced :
        /\ \/ d.ptr.type = "DELETED" /\ PushRemoveEntry(d.key)
           \/ d.ptr.type \in {"PRESENT", "NONEXISTENT"} /\ UNCHANGED shardVars
        /\ ThenRebuildIfRequired(ShardOf[d.key])
  BY DEF PushOperation
<1>2. /\ pc = "push" /\ displaced' = {}
      /\ UNCHANGED <<cacheMap, entry, newEntries, result, failure>>
  BY DEF PushOperation
<1>3. /\ \A k \in Key : Coherent(cacheMap[k], k)
      /\ d.ptr.type = "DELETED" => cacheMap[d.key] = EMPTY_PTR
  BY <1>2, QuietFacts DEF IInv, PhaseInv
<1>4. d.key \in Key /\ ShardOf[d.key] \in ShardIndex
  BY ShardAssumption DEF IInv, TypeOK, IsOptional, Entry
<1>5. ShardInv' /\ CacheTypeOK' /\ IsOptional(result', Value)
  BY <1>1, <1>2, <1>4, ShardUnchangedInv, RemoveEntryInv
     DEF IInv, TypeOK, CacheTypeOK
<1>6. \A k \in Key : Coherent(cacheMap[k], k)'
  <2>1. CASE d.ptr.type = "DELETED" /\ PushRemoveEntry(d.key)
    <3>1. \A k \in Key \ {d.key} : storageHashTable'[k] = storageHashTable[k]
      BY <2>1, <1>4, RemoveEntryResult DEF IInv
    <3>2. \A k \in Key \ {d.key} : Coherent(cacheMap[k], k)'
      BY <1>2, <1>3, <3>1 DEF Coherent
    <3>3. Coherent(cacheMap[d.key], d.key)'
      BY <1>2, <1>3, <2>1, EmptyCoherent
    <3> QED BY <3>2, <3>3
  <2>2. CASE UNCHANGED shardVars
    BY <2>2, <1>2, <1>3 DEF Coherent, shardVars
  <2> QED BY <1>1, <2>1, <2>2
<1> QED BY <1>1, <1>2, <1>4, <1>5, <1>6, ThenRebuildIInv

-----------------------------------------------------------------------------
(***************************************************************************)
(* A rebuild, and the entries it leaves to be put into the cache.          *)
(***************************************************************************)
LEMMA RebuildCoherent ==
  ASSUME IInv, pc = "rebuild", NEW shard \in ShardIndex, NEW seeds,
         NEW order \in Enumerations(KeptKeys(shard)),
         BuildShard(shard, order, seeds), UNCHANGED cacheMap,
         newEntries' = UpdatedEntries(shard, order), NEW key \in Key
  PROVE  /\ newEntries'[key] \in Ptr
         /\ Coherent(newEntries[key], key)'
         /\ newEntries'[key] = EMPTY_PTR => Coherent(cacheMap[key], key)'
<1>1. cacheMap[key] \in Ptr /\ Coherent(cacheMap[key], key)
  BY QuietFacts DEF IInv, TypeOK, CacheTypeOK
<1>2. /\ key \in KeptKeys(shard) =>
           /\ storageHashTable'[key] = RebuiltPtr(order, key)
           /\ RebuiltPtr(order, key) \in Ptr
           /\ RebuiltPtr(order, key) = PtrTo(RebuiltPtr(order, key).index, TRUE)
      /\ key \in KeysOf(shard) \ KeptKeys(shard) => storageHashTable'[key] = EMPTY_PTR
      /\ key \notin KeysOf(shard) => storageHashTable'[key] = storageHashTable[key]
  BY BuildShardIndex DEF IInv
<1>3. EMPTY_PTR \in Ptr /\ NONEXISTENT \in Ptr /\ EMPTY_PTR.type # "PRESENT"
  BY DEF Ptr, EMPTY_PTR, NONEXISTENT
<1>4. newEntries'[key] =
        CASE key \in IndexedKeys(shard) /\ cacheMap[key].type = "DELETED"
               -> NONEXISTENT
          [] key \in IndexedKeys(shard) /\ cacheMap[key].type = "PRESENT"
               -> RebuiltPtr(order, key)
          [] OTHER -> EMPTY_PTR
  BY DEF UpdatedEntries
<1>5. IndexedKeys(shard) \subseteq KeysOf(shard)
  BY DEF IndexedKeys
<1>6. CASE key \in IndexedKeys(shard) /\ cacheMap[key].type = "DELETED"
  <2>1. newEntries'[key] = NONEXISTENT
    BY <1>4, <1>6
  <2>2. key \in KeysOf(shard) \ KeptKeys(shard)
    BY <1>5, <1>6 DEF KeptKeys, EMPTY_PTR
  <2>3. NONEXISTENT # EMPTY_PTR /\ ~PointsToValue(NONEXISTENT)
    BY DEF NONEXISTENT, EMPTY_PTR, PointsToValue
  <2> QED BY <1>2, <1>3, <2>1, <2>2, <2>3 DEF Coherent
<1>7. CASE key \in IndexedKeys(shard) /\ cacheMap[key].type = "PRESENT"
  <2>1. newEntries'[key] = RebuiltPtr(order, key)
    BY <1>4, <1>7
  <2>2. key \in KeptKeys(shard)
    BY <1>7 DEF KeptKeys
  <2>3. RebuiltPtr(order, key) # EMPTY_PTR /\ RebuiltPtr(order, key) # NONEXISTENT
    BY <1>2, <2>2 DEF PtrTo, EMPTY_PTR, NONEXISTENT
  <2> QED BY <1>2, <2>1, <2>2, <2>3 DEF Coherent
<1>8. CASE ~(key \in IndexedKeys(shard) /\ cacheMap[key].type \in {"DELETED", "PRESENT"})
  <2>1. newEntries'[key] = EMPTY_PTR
    BY <1>4, <1>8
  <2>2. CASE cacheMap[key] = EMPTY_PTR
    BY <1>3, <2>1, <2>2, EmptyCoherent DEF Coherent
  <2>3. CASE key \notin KeysOf(shard)
    BY <1>1, <1>2, <1>3, <2>1, <2>3, EmptyCoherent DEF Coherent
  <2>4. CASE key \in KeysOf(shard) /\ cacheMap[key] # EMPTY_PTR
    <3>1. cacheMap[key] = NONEXISTENT
      <4>1. CASE key \in IndexedKeys(shard)
        BY <1>1, <1>8, <2>4, <4>1, PtrCases DEF PointsToValue
      <4>2. CASE key \notin IndexedKeys(shard)
        <5>1. storageHashTable[key] = EMPTY_PTR
          BY <2>4, <4>2 DEF IndexedKeys, KeysOf
        <5>2. ~PointsToValue(cacheMap[key])
          BY <1>1, <5>1 DEF Coherent, PtrTo, EMPTY_PTR
        <5> QED BY <1>1, <2>4, <5>2, PtrCases
      <4> QED BY <4>1, <4>2
    <3>2. key \notin KeptKeys(shard)
      BY <2>4, <3>1 DEF KeptKeys, NONEXISTENT, EMPTY_PTR
    <3>3. storageHashTable'[key].type # "PRESENT" /\ ~PointsToValue(NONEXISTENT)
      BY <1>2, <1>3, <2>4, <3>2 DEF PointsToValue, NONEXISTENT
    <3> QED BY <1>3, <2>1, <3>1, <3>3, EmptyCoherent DEF Coherent
  <2> QED BY <2>2, <2>3, <2>4
<1> QED BY <1>6, <1>7, <1>8

LEMMA RebuildShardIInv ==
  ASSUME IInv, RebuildShard
  PROVE  IInv'
<1>1. PICK shard \in target, seeds \in SeedVector :
        \E order \in Enumerations(KeptKeys(shard)) :
          /\ BuildShard(shard, order, seeds)
          /\ newEntries' = UpdatedEntries(shard, order)
  BY DEF RebuildShard
<1>2. PICK order \in Enumerations(KeptKeys(shard)) :
        /\ BuildShard(shard, order, seeds)
        /\ newEntries' = UpdatedEntries(shard, order)
  BY <1>1
<1>3. /\ pc = "rebuild" /\ target' = {}
      /\ pc' = IF newEntries' = NoEntries THEN "idle" ELSE "install"
      /\ UNCHANGED <<cacheMap, entry, displaced, result, failure>>
  BY DEF RebuildShard
<1>4. shard \in ShardIndex
  BY DEF IInv, TypeOK, IsOptional
<1>5. ShardInv'
  BY <1>2, <1>4, BuildShardInv DEF IInv
<1>6. \A key \in Key :
        /\ newEntries'[key] \in Ptr
        /\ Coherent(newEntries[key], key)'
        /\ newEntries'[key] = EMPTY_PTR => Coherent(cacheMap[key], key)'
  BY <1>2, <1>3, <1>4, RebuildCoherent
<1>7. entry' = {} /\ displaced' = {}
  BY <1>3, IdleFacts
<1>8. TypeOK'
  <2>1. newEntries' \in [Key -> Ptr]
    BY <1>2, <1>6 DEF UpdatedEntries
  <2>2. pc' \in {"idle", "install"} /\ IsOptional({}, ShardIndex)
    BY <1>3 DEF IsOptional
  <2> QED BY <1>3, <1>5, <2>1, <2>2 DEF IInv, TypeOK, CacheTypeOK, ShardInv
<1>9. PhaseInv'
  BY <1>3, <1>7 DEF PhaseInv
<1>10. CacheInv'
  BY <1>6, <1>7 DEF CacheInv
<1> QED BY <1>5, <1>8, <1>9, <1>10 DEF IInv

(***************************************************************************)
(* One entry of a rebuild is put into the cache.  Without asserts another  *)
(* entry may be lost; an entry that is not cached says nothing.            *)
(***************************************************************************)
LEMMA InstallEntryIInv ==
  ASSUME IInv, InstallEntry
  PROVE  IInv'
<1>1. PICK key \in Key :
        /\ newEntries[key] # EMPTY_PTR
        /\ \/ Put([key |-> key, ptr |-> newEntries[key]])
           \/ \E victim \in Cached :
                Displace(victim, [key |-> key, ptr |-> newEntries[key]])
        /\ newEntries' = [newEntries EXCEPT ![key] = EMPTY_PTR]
  BY DEF InstallEntry
<1>2. /\ pc = "install"
      /\ pc' = IF newEntries' = NoEntries THEN "idle" ELSE "install"
      /\ UNCHANGED <<shardVars, entry, displaced, target, result, failure>>
  BY DEF InstallEntry
<1>3. /\ cacheMap \in [Key -> Ptr] /\ newEntries \in [Key -> Ptr]
      /\ EMPTY_PTR \in Ptr
  BY DEF IInv, TypeOK, CacheTypeOK, Ptr
<1>4. /\ cacheMap' \in [Key -> Ptr]
      /\ cacheMap'[key] = newEntries[key]
      /\ \A k \in Key \ {key} : cacheMap'[k] \in {EMPTY_PTR, cacheMap[k]}
  <2>1. CASE Put([key |-> key, ptr |-> newEntries[key]])
    BY <1>3, <2>1 DEF Put
  <2>2. CASE \E victim \in Cached :
               Displace(victim, [key |-> key, ptr |-> newEntries[key]])
    BY <1>3, <2>2 DEF Displace, Cached
  <2> QED BY <1>1, <2>1, <2>2
<1>5. /\ newEntries' \in [Key -> Ptr]
      /\ newEntries'[key] = EMPTY_PTR
      /\ \A k \in Key \ {key} : newEntries'[k] = newEntries[k]
  BY <1>1, <1>3
<1>6. ShardInv' /\ storageHashTable' = storageHashTable
  BY <1>2, ShardUnchangedInv DEF IInv, shardVars
<1>7. entry' = {} /\ displaced' = {}
  BY <1>2, IdleFacts
<1>8. TypeOK'
  <2>1. pc' \in {"idle", "install"}
    BY <1>2
  <2> QED BY <1>2, <1>4, <1>5, <1>6, <2>1 DEF IInv, TypeOK, CacheTypeOK, ShardInv
<1>9. PhaseInv'
  BY <1>2, <1>7 DEF PhaseInv
<1>10. \A k \in Key : /\ Coherent(newEntries'[k], k)
                      /\ newEntries'[k] # EMPTY_PTR \/ Coherent(cacheMap'[k], k)
  <2>1. \A k \in Key : /\ Coherent(newEntries[k], k)
                       /\ newEntries[k] # EMPTY_PTR \/ Coherent(cacheMap[k], k)
    BY <1>2, IdleFacts DEF IInv, CacheInv
  <2>2. Coherent(newEntries'[key], key) /\ Coherent(cacheMap'[key], key)
    BY <1>4, <1>5, <2>1, EmptyCoherent
  <2>3. ASSUME NEW k \in Key \ {key}
        PROVE  /\ Coherent(newEntries'[k], k)
               /\ newEntries'[k] # EMPTY_PTR \/ Coherent(cacheMap'[k], k)
    BY <1>4, <1>5, <2>1, EmptyCoherent
  <2> QED BY <2>2, <2>3
<1>11. CacheInv'
  BY <1>6, <1>7, <1>10 DEF CacheInv, Coherent
<1> QED BY <1>6, <1>8, <1>9, <1>11 DEF IInv

-----------------------------------------------------------------------------
LEMMA StutterIInv ==
  ASSUME IInv, UNCHANGED vars
  PROVE  IInv'
<1>1. ShardInv'
  BY ShardUnchangedInv DEF IInv, vars
<1>2. TypeOK'
  BY <1>1 DEF IInv, TypeOK, CacheTypeOK, ShardInv, vars
<1>3. PhaseInv'
  BY DEF IInv, PhaseInv, IsRebuildRequired, vars, shardVars
<1>4. CacheInv'
  BY DEF IInv, CacheInv, Coherent, vars, shardVars
<1> QED BY <1>1, <1>2, <1>3, <1>4 DEF IInv

(***************************************************************************)
(* The invariant is inductive: no part of a call, nor the death of the     *)
(* process in it, breaks it.                                               *)
(***************************************************************************)
LEMMA NextIInv == IInv /\ [Next]_vars => IInv'
<1> SUFFICES ASSUME IInv, [Next]_vars PROVE IInv'
  OBVIOUS
<1>1. ASSUME NEW key \in Key, NEW value \in Value,
             AddCached(key, value) \/ AddDeleted(key, value) \/ AddMissing(key, value)
      PROVE  IInv'
  BY <1>1, AddCachedIInv, AddDeletedIInv, AddMissingIInv
<1>2. ASSUME NEW key \in Key, AddOverflows(key) PROVE IInv'
  BY <1>2, DieIInv DEF AddOverflows
<1>3. ASSUME NEW key \in Key, GetCached(key) \/ GetAbsent(key) \/ GetMissing(key)
      PROVE  IInv'
  BY <1>3, GetCachedIInv, AbsentIInv, GetMissingIInv
<1>4. ASSUME NEW key \in Key,
             RemoveCached(key) \/ RemoveAbsent(key) \/ RemoveMissing(key)
      PROVE  IInv'
  BY <1>4, RemoveCachedIInv, AbsentIInv, RemoveMissingIInv
<1>5. CASE Call
  BY <1>1, <1>2, <1>3, <1>4, <1>5 DEF Call
<1>6. CASE PutEntry
  BY <1>6, PutEntryIInv
<1>7. CASE PushOperation
  BY <1>7, PushOperationIInv
<1>8. CASE RebuildShard
  BY <1>8, RebuildShardIInv
<1>9. CASE InstallEntry
  BY <1>9, InstallEntryIInv
<1>10. CASE RebuildAborts \/ InstallAborts
  BY <1>10, DieIInv DEF RebuildAborts, InstallAborts
<1>11. CASE Halted \/ UNCHANGED vars
  BY <1>11, StutterIInv DEF Halted
<1> QED
  BY <1>5, <1>6, <1>7, <1>8, <1>9, <1>10, <1>11 DEF Next, Continue

(***************************************************************************)
(* In every reachable state the inductive invariant holds.                 *)
(***************************************************************************)
THEOREM Invariance == Spec => []IInv
<1>1. Init => IInv
  BY InitIInv
<1>2. IInv /\ [Next]_vars => IInv'
  BY NextIInv
<1> QED BY <1>1, <1>2, PTL DEF Spec

(***************************************************************************)
(* Every variable keeps to its type; in particular no call leaves two      *)
(* entries to be put, displaced or rebuilt at a time.                      *)
(***************************************************************************)
THEOREM TypeCorrect == Spec => []TypeOK
<1>1. IInv => TypeOK
  BY DEF IInv
<1> QED BY <1>1, Invariance, PTL

(***************************************************************************)
(* The cache never disagrees with the index about where, or whether, the   *)
(* value of a key is stored: KVS::add and get may trust a cached pointer.  *)
(***************************************************************************)
THEOREM CacheIsCoherent == Spec => []CacheCoherent
<1>1. IInv => CacheCoherent
  BY CacheInvCoherent DEF IInv
<1> QED BY <1>1, Invariance, PTL

(***************************************************************************)
(* Index entries and records stay in bijection through every write,        *)
(* removal and rebuild of a shard.                                         *)
(***************************************************************************)
THEOREM RecordsAreExact == Spec => []RecordsExact
<1>1. IInv => RecordsExact
  BY DEF IInv, ShardInv
<1> QED BY <1>1, Invariance, PTL

(***************************************************************************)
(* The Bloom filter has no false negatives, whatever its hash functions    *)
(* and seeds, also after a rebuild.                                        *)
(***************************************************************************)
THEOREM FilterIsComplete == Spec => []FilterComplete
<1>1. IInv => FilterComplete
  BY DEF IInv, ShardInv
<1> QED BY <1>1, Invariance, PTL

(***************************************************************************)
(* The index of a shard overflows before a record index leaves the range   *)
(* of a one-byte Ptr, for all sizes that satisfy PtrRangeAssumption.       *)
(***************************************************************************)
THEOREM PtrIndicesInBounds == Spec => []PtrIndexInBounds
<1>1. IInv => PtrIndexInBounds
  BY BoundedIndexFitsPtr DEF IInv, ShardInv
<1> QED BY <1>1, Invariance, PTL

(***************************************************************************)
(* The assertions of pushOperation and rebuildShard that AssertsHold names *)
(* never fail.                                                             *)
(***************************************************************************)
THEOREM AssertsAlwaysHold == Spec => []AssertsHold
<1>1. ASSUME IInv PROVE AssertsHold
  <2>1. \A d \in displaced : d.ptr # EMPTY_PTR
    BY <1>1 DEF IInv, PhaseInv
  <2>2. ASSUME pc = "rebuild", NEW shard \in target,
               NEW key \in IndexedKeys(shard), cacheMap[key].type = "PRESENT"
        PROVE  storageHashTable[key].type = "PRESENT"
    <3>1. Coherent(cacheMap[key], key)
      BY <1>1, <2>2, QuietFacts DEF IndexedKeys, KeysOf
    <3> QED BY <2>2, <3>1 DEF Coherent, PointsToValue, PtrTo
  <2> QED BY <1>1, <2>1, <2>2 DEF AssertsHold, IInv, PhaseInv
<1> QED BY <1>1, Invariance, PTL

(***************************************************************************)
(* The entries of the cache that a rebuild still has to overwrite are at   *)
(* most as many as there are keys, and one fewer after each update.        *)
(***************************************************************************)
LEMMA NewEntriesAreCounted ==
  LET left(entries) == {key \in Key : entries[key] # EMPTY_PTR} IN
  /\ Cardinality(Key) \in Nat
  /\ \A entries : Cardinality(left(entries)) \in 0 .. Cardinality(Key)
  /\ \A entries \in [Key -> Ptr], key \in Key :
       entries[key] # EMPTY_PTR =>
         Cardinality(left([entries EXCEPT ![key] = EMPTY_PTR]))
           = Cardinality(left(entries)) - 1
<1> DEFINE left(entries) == {key \in Key : entries[key] # EMPTY_PTR}
<1>1. IsFiniteSet(Key) /\ Cardinality(Key) \in Nat
  BY ShardAssumption, FS_CardinalityType
<1>2. ASSUME NEW entries
      PROVE  IsFiniteSet(left(entries)) /\ Cardinality(left(entries)) \in 0 .. Cardinality(Key)
  <2>1. left(entries) \in SUBSET Key  OBVIOUS
  <2> HIDE DEF left
  <2>2. IsFiniteSet(left(entries)) /\ Cardinality(left(entries)) <= Cardinality(Key)
    BY <1>1, <2>1, FS_Subset
  <2>3. Cardinality(left(entries)) \in Nat  BY <2>2, FS_CardinalityType
  <2> QED BY <1>1, <2>2, <2>3
<1>3. ASSUME NEW entries \in [Key -> Ptr], NEW key \in Key, entries[key] # EMPTY_PTR
      PROVE  Cardinality(left([entries EXCEPT ![key] = EMPTY_PTR]))
               = Cardinality(left(entries)) - 1
  <2>1. left([entries EXCEPT ![key] = EMPTY_PTR]) = left(entries) \ {key}
    OBVIOUS
  <2>2. key \in left(entries)  BY <1>3
  <2>3. IsFiniteSet(left(entries))  BY <1>2
  <2> HIDE DEF left
  <2> QED BY <2>1, <2>2, <2>3, FS_RemoveElement
<1> QED BY <1>1, <1>2, <1>3

(***************************************************************************)
(* An update of the cache is under way only as long as something is left   *)
(* to update.                                                              *)
(***************************************************************************)
InstallHasEntries == pc = "install" => newEntries # NoEntries

LEMMA InstallAlwaysHasEntries == Spec => []InstallHasEntries
<1>1. Init => InstallHasEntries  BY DEF Init, InstallHasEntries
<1>2. ASSUME InstallHasEntries, [Next]_vars PROVE InstallHasEntries'
  <2>1. CASE Call
    <3>1. PICK key \in Key :
            \/ \E value \in Value :
                 AddCached(key, value) \/ AddDeleted(key, value) \/ AddMissing(key, value)
            \/ AddOverflows(key)
            \/ GetCached(key) \/ GetAbsent(key) \/ GetMissing(key)
            \/ RemoveCached(key) \/ RemoveAbsent(key) \/ RemoveMissing(key)
      BY <2>1 DEF Call
    <3>2. pc' # "install"
      BY <3>1 DEF AddCached, AddDeleted, AddMissing, AddOverflows, GetCached, GetAbsent,
                  GetMissing, RemoveCached, RemoveAbsent, RemoveMissing,
                  Return, ThenPut, ThenRebuildIfRequired, Die
    <3> QED BY <3>2 DEF InstallHasEntries
  <2>2. CASE PutEntry \/ PushOperation \/ RebuildAborts \/ InstallAborts
    <3>1. pc' # "install"
      BY <2>2 DEF PutEntry, PushOperation, RebuildAborts, InstallAborts,
                  ThenRebuildIfRequired, Die
    <3> QED BY <3>1 DEF InstallHasEntries
  <2>3. CASE RebuildShard \/ InstallEntry
    <3>1. pc' = IF newEntries' = NoEntries THEN "idle" ELSE "install"
      BY <2>3 DEF RebuildShard, InstallEntry
    <3> QED BY <3>1 DEF InstallHasEntries, NoEntries
  <2>4. CASE Halted \/ UNCHANGED vars
    BY <1>2, <2>4 DEF Halted, vars, InstallHasEntries, NoEntries
  <2> QED BY <1>2, <2>1, <2>2, <2>3, <2>4 DEF Next, Continue
<1> QED BY <1>1, <1>2, PTL DEF Spec

(***************************************************************************)
(* A call is a chain of at most Cardinality(Key) + 4 parts, whatever it    *)
(* displaces, pushes and rebuilds: the update of the cache after a rebuild *)
(* starts nothing new.  (KVS::pushOperation, KVS::rebuildShard.)           *)
(***************************************************************************)
THEOREM EveryPartAdvances == Spec => CallAdvances
<1> DEFINE Advances == pc \notin {"idle", "halted"} =>
                         PartsLeft \in Nat /\ PartsLeft' \in 0 .. PartsLeft - 1
           left == {key \in Key : newEntries[key] # EMPTY_PTR}
<1>1. ASSUME IInv, InstallHasEntries, Next, pc \notin {"idle", "halted"}
      PROVE  PartsLeft \in Nat /\ PartsLeft' \in 0 .. PartsLeft - 1
  <2>1. /\ Cardinality(Key) \in Nat
        /\ Cardinality(left) \in 0 .. Cardinality(Key)
        /\ Cardinality(left') \in 0 .. Cardinality(Key)
    BY NewEntriesAreCounted
  <2>2. CASE PutEntry
    <3>1. pc = "put" /\ pc' \in {"idle", "push"}  BY <2>2 DEF PutEntry
    <3> QED BY <2>1, <3>1 DEF PartsLeft
  <2>3. CASE PushOperation
    <3>1. pc = "push" /\ pc' \in {"idle", "rebuild"}
      BY <2>3 DEF PushOperation, ThenRebuildIfRequired
    <3> QED BY <2>1, <3>1 DEF PartsLeft
  <2>4. CASE RebuildShard
    <3>1. pc = "rebuild" /\ pc' \in {"idle", "install"}  BY <2>4 DEF RebuildShard
    <3>2. pc' = "install" => PartsLeft' = Cardinality(left')  BY DEF PartsLeft
    <3>3. pc' = "idle" => PartsLeft' = 0  BY DEF PartsLeft
    <3>4. PartsLeft = Cardinality(Key) + 1  BY <3>1 DEF PartsLeft
    <3> HIDE DEF left
    <3> QED BY <2>1, <3>1, <3>2, <3>3, <3>4
  <2>5. CASE RebuildAborts
    <3>1. pc = "rebuild" /\ pc' = "halted"  BY <2>5 DEF RebuildAborts, Die
    <3> QED BY <2>1, <3>1 DEF PartsLeft
  <2>6. ASSUME pc = "install", NEW key \in Key, newEntries[key] # EMPTY_PTR
        PROVE  PartsLeft = Cardinality(left) /\ Cardinality(left) \in Nat \ {0}
    <3>1. PartsLeft = Cardinality(left)  BY <2>6 DEF PartsLeft
    <3>2. IsFiniteSet(left)
      <4>1. IsFiniteSet(Key) /\ left \in SUBSET Key  BY ShardAssumption
      <4> QED BY <4>1, FS_Subset
    <3>3. left # {}  BY <2>6
    <3> HIDE DEF left
    <3> QED BY <2>1, <3>1, <3>2, <3>3, FS_EmptySet
  <2>7. CASE InstallEntry
    <3>1. PICK key \in Key : /\ newEntries[key] # EMPTY_PTR
                             /\ newEntries' = [newEntries EXCEPT ![key] = EMPTY_PTR]
      BY <2>7 DEF InstallEntry
    <3>2. pc = "install" /\ pc' \in {"idle", "install"}  BY <2>7 DEF InstallEntry
    <3>3. newEntries \in [Key -> Ptr]  BY <1>1 DEF IInv, TypeOK
    <3>4. PartsLeft = Cardinality(left) /\ Cardinality(left) \in Nat \ {0}
      BY <2>6, <3>1, <3>2
    <3>5. Cardinality(left') = Cardinality(left) - 1
      BY <3>1, <3>3, NewEntriesAreCounted
    <3>6. pc' = "install" => PartsLeft' = Cardinality(left')  BY DEF PartsLeft
    <3>7. pc' = "idle" => PartsLeft' = 0  BY DEF PartsLeft
    <3> HIDE DEF left
    <3> QED BY <3>2, <3>4, <3>5, <3>6, <3>7
  <2>8. CASE InstallAborts
    <3>1. pc = "install" /\ pc' = "halted"  BY <2>8 DEF InstallAborts, Die
    <3>2. PICK key \in Key : newEntries[key] # EMPTY_PTR
      BY <1>1, <3>1 DEF InstallHasEntries, NoEntries, IInv, TypeOK
    <3>3. PartsLeft \in Nat \ {0}  BY <2>6, <3>1, <3>2
    <3>4. PartsLeft' = 0  BY <3>1 DEF PartsLeft
    <3> QED BY <3>3, <3>4
  <2>9. ~Call /\ ~Halted
    BY <1>1 DEF Call, Halted, AddCached, AddDeleted, AddMissing, AddOverflows,
                GetCached, GetAbsent, GetMissing, RemoveCached, RemoveAbsent, RemoveMissing
  <2> QED BY <1>1, <2>2, <2>3, <2>4, <2>5, <2>7, <2>8, <2>9 DEF Next, Continue
<1>2. IInv /\ InstallHasEntries /\ [Next]_vars => [Advances]_vars  BY <1>1
<1> QED BY <1>2, Invariance, InstallAlwaysHasEntries, PTL DEF Spec, CallAdvances

=============================================================================
