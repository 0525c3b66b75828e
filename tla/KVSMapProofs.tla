---------------------------- MODULE KVSMapProofs ----------------------------
(***************************************************************************)
(* The store is a map, and its counters count: what every part of a call   *)
(* does to the keys that are bound to a value, and to their values.  Where *)
(* asserts are compiled out, a rebuild can lose a lazy removal from a full *)
(* cache, and neither is true; hence AssertsEnabled.                       *)
(***************************************************************************)
EXTENDS KVSProofs

(***************************************************************************)
(* The record that the index keeps for a key.                              *)
(***************************************************************************)
Record(key) == ReadValueDirectly(key, storageHashTable[key])

(***************************************************************************)
(* A key is bound to a value if the index has it as present and nothing    *)
(* that decides about it is a lazy removal; its value is the record that   *)
(* the index points to, whoever is asked for the pointer.                  *)
(***************************************************************************)
AliveFacts ==
  \A key \in Key :
    /\ IsAlive(key) <=> /\ storageHashTable[key].type = "PRESENT"
                        /\ CurrentPtr(key).type # "DELETED"
    /\ Store[key] = IF IsAlive(key) THEN {Record(key)} ELSE {}

(***************************************************************************)
(* Whoever decides about a key, it is with a pointer.                      *)
(***************************************************************************)
LEMMA CurrentPtrType ==
  ASSUME TypeOK, NEW key \in Key
  PROVE  CurrentPtr(key) \in Ptr
<1> DEFINE incoming == {e \in entry : e.key = key}
           outgoing == {d \in displaced : d.key = key /\ cacheMap[key] = EMPTY_PTR}
<1>1. /\ newEntries[key] \in Ptr
      /\ cacheMap[key] \in Ptr
      /\ \A e \in incoming : e.ptr \in Ptr
      /\ \A d \in outgoing : d.ptr \in Ptr
  BY DEF TypeOK, CacheTypeOK, IsOptional, Entry
<1>2. incoming # {} => (CHOOSE e \in incoming : TRUE) \in incoming
  OBVIOUS
<1>3. outgoing # {} => (CHOOSE d \in outgoing : TRUE) \in outgoing
  OBVIOUS
<1> QED BY <1>1, <1>2, <1>3 DEF CurrentPtr

(***************************************************************************)
(* The invariant of the store says all of AliveFacts.                      *)
(***************************************************************************)
LEMMA AliveFactsHold == IInv => AliveFacts
<1> SUFFICES ASSUME IInv, NEW key \in Key
    PROVE  /\ IsAlive(key) <=> /\ storageHashTable[key].type = "PRESENT"
                               /\ CurrentPtr(key).type # "DELETED"
           /\ Store[key] = IF IsAlive(key) THEN {Record(key)} ELSE {}
  BY DEF AliveFacts
<1> DEFINE ptr == CurrentPtr(key)
<1>1. ptr \in Ptr /\ storageHashTable[key] \in Ptr
  BY CurrentPtrType DEF IInv, ShardInv, ShardTypeOK
<1>2. /\ PointsToValue(ptr) => storageHashTable[key] = PtrTo(ptr.index, TRUE)
      /\ ptr = NONEXISTENT => storageHashTable[key].type # "PRESENT"
  BY CacheInvCoherent DEF IInv, CacheCoherent
<1>3. EffectivePtr(key) = IF ptr = EMPTY_PTR THEN storageHashTable[key] ELSE ptr
  BY DEF EffectivePtr
<1> HIDE DEF ptr
<1>4. CASE ptr = EMPTY_PTR
  BY <1>3, <1>4 DEF IsAlive, Store, Record, ptr, EMPTY_PTR
<1>5. CASE ptr = NONEXISTENT
  BY <1>2, <1>3, <1>5 DEF IsAlive, Store, Record, ptr, EMPTY_PTR, NONEXISTENT
<1>6. CASE PointsToValue(ptr)
  <2>1. EffectivePtr(key) = ptr
    BY <1>3, <1>6 DEF PointsToValue, EMPTY_PTR
  <2>2. storageHashTable[key].type = "PRESENT"
    BY <1>2, <1>6 DEF PtrTo
  <2>3. IsAlive(key) <=> ptr.type # "DELETED"
    BY <1>6, <2>1 DEF IsAlive, PointsToValue
  <2>4. ReadValueDirectly(key, ptr) = Record(key)
    BY <1>2, <1>6 DEF Record, ReadValueDirectly, PtrTo
  <2> QED BY <2>1, <2>2, <2>3, <2>4 DEF Store, ptr
<1> QED BY <1>1, <1>4, <1>5, <1>6, PtrCases

(***************************************************************************)
(* What decides about a key, without CHOOSE.                               *)
(***************************************************************************)
DecisionFacts ==
  \A key \in Key :
    /\ newEntries[key] # EMPTY_PTR => CurrentPtr(key) = newEntries[key]
    /\ newEntries[key] = EMPTY_PTR =>
         /\ \A e \in entry : e.key = key => CurrentPtr(key) = e.ptr
         /\ (\A e \in entry : e.key # key) =>
              /\ \A d \in displaced :
                   d.key = key /\ cacheMap[key] = EMPTY_PTR => CurrentPtr(key) = d.ptr
              /\ (\A d \in displaced : d.key # key \/ cacheMap[key] # EMPTY_PTR) =>
                   CurrentPtr(key) = cacheMap[key]

(***************************************************************************)
(* The invariant of the store says all of DecisionFacts.                   *)
(***************************************************************************)
LEMMA DecisionFactsHold == IInv => DecisionFacts
<1> SUFFICES ASSUME IInv, NEW key \in Key, newEntries[key] = EMPTY_PTR
    PROVE  /\ \A e \in entry : e.key = key => CurrentPtr(key) = e.ptr
           /\ (\A e \in entry : e.key # key) =>
                /\ \A d \in displaced :
                     d.key = key /\ cacheMap[key] = EMPTY_PTR => CurrentPtr(key) = d.ptr
                /\ (\A d \in displaced : d.key # key \/ cacheMap[key] # EMPTY_PTR) =>
                     CurrentPtr(key) = cacheMap[key]
  BY DEF DecisionFacts, CurrentPtr
<1> DEFINE incoming == {e \in entry : e.key = key}
           outgoing == {d \in displaced : d.key = key /\ cacheMap[key] = EMPTY_PTR}
<1>1. CurrentPtr(key) =
        IF incoming # {} THEN (CHOOSE e \in incoming : TRUE).ptr
        ELSE IF outgoing # {} THEN (CHOOSE d \in outgoing : TRUE).ptr
        ELSE cacheMap[key]
  BY DEF CurrentPtr
<1>2. /\ incoming # {} => (CHOOSE e \in incoming : TRUE) \in incoming
      /\ outgoing # {} => (CHOOSE d \in outgoing : TRUE) \in outgoing
  OBVIOUS
<1>3. (\A e, f \in entry : e = f) /\ (\A d, f \in displaced : d = f)
  BY DEF IInv, TypeOK, IsOptional
<1> DEFINE first == CHOOSE e \in incoming : TRUE
           gone == CHOOSE d \in outgoing : TRUE
<1> HIDE DEF first, gone
<1>4. ASSUME NEW e \in entry, e.key = key PROVE CurrentPtr(key) = e.ptr
  <2>1. incoming # {}
    BY <1>4
  <2>2. first \in entry
    BY <2>1, <1>2 DEF first
  <2>3. first = e
    BY <2>2, <1>3
  <2> QED BY <1>1, <2>1, <2>3 DEF first
<1>5. ASSUME incoming = {}, NEW d \in displaced, d.key = key, cacheMap[key] = EMPTY_PTR
      PROVE  CurrentPtr(key) = d.ptr
  <2>1. outgoing # {}
    BY <1>5
  <2>2. gone \in displaced
    BY <2>1, <1>2 DEF gone
  <2>3. gone = d
    BY <2>2, <1>3
  <2> QED BY <1>1, <1>5, <2>1, <2>3 DEF gone
<1>6. ASSUME incoming = {},
             \A d \in displaced : d.key # key \/ cacheMap[key] # EMPTY_PTR
      PROVE  CurrentPtr(key) = cacheMap[key]
  BY <1>1, <1>6
<1> QED BY <1>4, <1>5, <1>6

(***************************************************************************)
(* Between the calls, and when a rebuild begins, the cache decides.        *)
(***************************************************************************)
LEMMA CacheDecides ==
  ASSUME IInv, pc \in {"idle", "rebuild"}, NEW key \in Key
  PROVE  CurrentPtr(key) = cacheMap[key]
<1>1. entry = {} /\ displaced = {} /\ newEntries[key] = EMPTY_PTR
  BY QuietFacts, IdleFacts DEF NoEntries
<1> QED BY <1>1, DecisionFactsHold DEF DecisionFacts

-----------------------------------------------------------------------------
(***************************************************************************)
(* The effect of a step on a key: nothing, a new value, no value any more. *)
(***************************************************************************)
Keeps(key) ==
  /\ IsAlive(key)' <=> IsAlive(key)
  /\ IsAlive(key) => Record(key)' = Record(key)

Binds(key, value) == IsAlive(key)' /\ Record(key)' = value

Unbinds(key) == ~IsAlive(key)'

(***************************************************************************)
(* The pointer of the index lies in the values file.                       *)
(***************************************************************************)
LEMMA IndexInFile ==
  ASSUME ShardInv, NEW key \in Key, storageHashTable[key] # EMPTY_PTR
  PROVE  /\ ShardOf[key] \in ShardIndex
         /\ key \in IndexedKeys(ShardOf[key])
         /\ storageHashTable[key].index \in 0 .. 127
         /\ storageHashTable[key].index < Len(valuesFile[ShardOf[key]])
         /\ storageHashTable[key].index + 1 \in DOMAIN valuesFile[ShardOf[key]]
<1> DEFINE file == valuesFile[ShardOf[key]]
           j == storageHashTable[key].index
<1>1. ShardOf[key] \in ShardIndex /\ key \in IndexedKeys(ShardOf[key])
  BY ShardAssumption DEF IndexedKeys, KeysOf
<1>2. file \in Seq(Value) /\ Len(file) \in Nat
  BY <1>1, LenProperties DEF ShardInv, ShardTypeOK
<1>3. j \in 0 .. 127 /\ j < Len(file)
  BY <1>1, PtrCases DEF ShardInv, ShardTypeOK, RecordsExact
<1> HIDE DEF file, j
<1>4. j + 1 \in DOMAIN file
  BY <1>2, <1>3
<1> QED BY <1>1, <1>3, <1>4 DEF file, j

(***************************************************************************)
(* A record that is overwritten is the record of one key only.             *)
(***************************************************************************)
LEMMA WriteRecord ==
  ASSUME ShardInv, NEW key \in Key, NEW ptr, NEW value \in Value,
         storageHashTable[key] # EMPTY_PTR,
         ptr.index = storageHashTable[key].index,
         WriteValueDirectly(key, ptr, value)
  PROVE  /\ valuesFile'[ShardOf[key]][storageHashTable[key].index + 1] = value
         /\ \A other \in Key \ {key} :
              storageHashTable[other] # EMPTY_PTR =>
                valuesFile'[ShardOf[other]][storageHashTable[other].index + 1]
                  = Record(other)
<1> DEFINE s == ShardOf[key]
           j == storageHashTable[key].index
<1>1. /\ s \in ShardIndex /\ valuesFile \in [ShardIndex -> Seq(Value)]
      /\ key \in IndexedKeys(s)
      /\ j \in 0 .. 127 /\ j + 1 \in DOMAIN valuesFile[s]
  BY IndexInFile DEF ShardInv, ShardTypeOK
<1>2. valuesFile' = [valuesFile EXCEPT ![s] = [valuesFile[s] EXCEPT ![j + 1] = value]]
  BY DEF WriteValueDirectly
<1>3. /\ valuesFile'[s] = [valuesFile[s] EXCEPT ![j + 1] = value]
      /\ \A t \in ShardIndex \ {s} : valuesFile'[t] = valuesFile[t]
  BY <1>1, <1>2
<1>4. valuesFile'[s][j + 1] = value
  BY <1>1, <1>3
<1>5. ASSUME NEW other \in Key \ {key}, storageHashTable[other] # EMPTY_PTR
      PROVE  valuesFile'[ShardOf[other]][storageHashTable[other].index + 1] = Record(other)
  <2> DEFINE i == storageHashTable[other].index
  <2>1. /\ ShardOf[other] \in ShardIndex
        /\ other \in IndexedKeys(ShardOf[other])
        /\ i \in 0 .. 127 /\ i + 1 \in DOMAIN valuesFile[ShardOf[other]]
    BY <1>5, IndexInFile
  <2>2. CASE ShardOf[other] = s
    <3>1. i # j
      BY <1>1, <2>1, <2>2 DEF ShardInv, RecordsExact
    <3> HIDE DEF i, j
    <3>2. i + 1 # j + 1
      BY <1>1, <2>1, <3>1
    <3>3. valuesFile'[s][i + 1] = valuesFile[s][i + 1]
      BY <1>3, <2>1, <2>2, <3>2
    <3> QED BY <2>2, <3>3 DEF Record, ReadValueDirectly, i
  <2>3. CASE ShardOf[other] # s
    BY <1>3, <2>1, <2>3 DEF Record, ReadValueDirectly
  <2> QED BY <2>2, <2>3
<1> QED BY <1>4, <1>5

(***************************************************************************)
(* A key whose index entry and record stay, and that is decided about as   *)
(* before, keeps its value.                                                *)
(***************************************************************************)
LEMMA SameRecordKeeps ==
  ASSUME IInv, IInv', NEW key \in Key,
         storageHashTable'[key] = storageHashTable[key],
         storageHashTable[key] # EMPTY_PTR =>
           valuesFile'[ShardOf[key]][storageHashTable[key].index + 1] = Record(key),
         CurrentPtr(key)'.type = "DELETED" <=> CurrentPtr(key).type = "DELETED"
  PROVE  Keeps(key)
<1>1. AliveFacts /\ AliveFacts'
  BY AliveFactsHold, PTL
<1>2. IsAlive(key)' <=> IsAlive(key)
  BY <1>1 DEF AliveFacts
<1>3. IsAlive(key) => storageHashTable[key] # EMPTY_PTR
  <2>1. IsAlive(key) => storageHashTable[key].type = "PRESENT"
    BY <1>1 DEF AliveFacts
  <2> QED BY <2>1 DEF EMPTY_PTR
<1>4. storageHashTable[key] # EMPTY_PTR => Record(key)' = Record(key)
  BY DEF Record, ReadValueDirectly
<1> QED BY <1>2, <1>3, <1>4 DEF Keeps

(***************************************************************************)
(* A part that changes neither the shards nor who decides about a key      *)
(* binds and unbinds nothing.                                              *)
(***************************************************************************)
LEMMA SameShardKeeps ==
  ASSUME IInv, IInv', NEW key \in Key, UNCHANGED shardVars,
         CurrentPtr(key)'.type = "DELETED" <=> CurrentPtr(key).type = "DELETED"
  PROVE  Keeps(key)
BY SameRecordKeeps DEF shardVars, Record, ReadValueDirectly

-----------------------------------------------------------------------------
(***************************************************************************)
(* What decides before and after a call that ends at once, and one that    *)
(* goes on to the cache.                                                   *)
(***************************************************************************)
LEMMA ReturnDecides ==
  ASSUME IInv, IInv', pc = "idle", UNCHANGED <<entry, displaced, newEntries>>
  PROVE  \A key \in Key : /\ CurrentPtr(key) = cacheMap[key]
                          /\ CurrentPtr(key)' = cacheMap'[key]
<1>1. /\ \A key \in Key : CurrentPtr(key) = cacheMap[key]
      /\ entry = {} /\ displaced = {} /\ newEntries = NoEntries
  BY CacheDecides, QuietFacts, IdleFacts
<1>2. DecisionFacts'
  BY DecisionFactsHold, PTL
<1> QED BY <1>1, <1>2 DEF DecisionFacts, NoEntries

(***************************************************************************)
(* The pointer about to be put into the cache decides about its key, and   *)
(* the other keys are decided as before.                                   *)
(***************************************************************************)
LEMMA ThenPutDecides ==
  ASSUME IInv, IInv', pc = "idle", NEW key \in Key, NEW ptr, ThenPut(key, ptr)
  PROVE  /\ \A k \in Key : CurrentPtr(k) = cacheMap[k]
         /\ CurrentPtr(key)' = ptr
         /\ \A k \in Key \ {key} : CurrentPtr(k)' = cacheMap'[k]
<1>1. /\ \A k \in Key : CurrentPtr(k) = cacheMap[k]
      /\ displaced = {} /\ newEntries = NoEntries
  BY CacheDecides, QuietFacts, IdleFacts
<1>2. DecisionFacts'
  BY DecisionFactsHold, PTL
<1>3. /\ \A k \in Key : newEntries'[k] = EMPTY_PTR
      /\ displaced' = {}
      /\ \A e \in entry' : e.key = key /\ e.ptr = ptr
      /\ \E e \in entry' : TRUE
  BY <1>1 DEF ThenPut, NoEntries
<1> QED BY <1>1, <1>2, <1>3 DEF DecisionFacts

(***************************************************************************)
(* add: the key has the value, whatever it had before.                     *)
(***************************************************************************)
LEMMA AddCachedEffect ==
  ASSUME IInv, IInv', NEW key \in Key, NEW value \in Value, AddCached(key, value)
  PROVE  /\ IsAlive(key)
         /\ Binds(key, value)
         /\ \A other \in Key \ {key} : Keeps(other)
<1>1. \A k \in Key : CurrentPtr(k) = cacheMap[k] /\ CurrentPtr(k)' = cacheMap'[k]
  BY ReturnDecides DEF AddCached, Return
<1>2. AliveFacts /\ AliveFacts'
  BY AliveFactsHold, PTL
<1>3. /\ storageHashTable[key] = PtrTo(cacheMap[key].index, TRUE)
      /\ storageHashTable[key] # EMPTY_PTR
      /\ cacheMap[key].index = storageHashTable[key].index
  BY CachedPtr DEF AddCached
<1>4. /\ valuesFile'[ShardOf[key]][storageHashTable[key].index + 1] = value
      /\ \A other \in Key \ {key} :
           storageHashTable[other] # EMPTY_PTR =>
             valuesFile'[ShardOf[other]][storageHashTable[other].index + 1] = Record(other)
  BY <1>3, WriteRecord DEF AddCached, IInv
<1>5. storageHashTable' = storageHashTable /\ cacheMap' = cacheMap
  BY DEF AddCached
<1>6. \A other \in Key \ {key} : Keeps(other)
  BY <1>1, <1>4, <1>5, SameRecordKeeps
<1>7. storageHashTable[key].type = "PRESENT" /\ cacheMap[key].type # "DELETED"
  BY <1>3 DEF AddCached, PtrTo
<1>8. IsAlive(key) /\ IsAlive(key)'
  BY <1>1, <1>2, <1>5, <1>7 DEF AliveFacts
<1>9. Record(key)' = value
  BY <1>4, <1>5 DEF Record, ReadValueDirectly
<1> QED BY <1>6, <1>8, <1>9 DEF Binds

(***************************************************************************)
(* add of a lazily removed key binds it to the value, and no other.        *)
(***************************************************************************)
LEMMA AddDeletedEffect ==
  ASSUME IInv, IInv', NEW key \in Key, NEW value \in Value, AddDeleted(key, value)
  PROVE  /\ ~IsAlive(key)
         /\ Binds(key, value)
         /\ \A other \in Key \ {key} : Keeps(other)
<1>1. \A k \in Key : CurrentPtr(k) = cacheMap[k] /\ CurrentPtr(k)' = cacheMap'[k]
  BY ReturnDecides DEF AddDeleted, Return
<1>2. AliveFacts /\ AliveFacts'
  BY AliveFactsHold, PTL
<1>3. /\ storageHashTable[key] = PtrTo(cacheMap[key].index, TRUE)
      /\ storageHashTable[key] # EMPTY_PTR
      /\ cacheMap[key].index = storageHashTable[key].index
  BY CachedPtr DEF AddDeleted
<1>4. /\ valuesFile'[ShardOf[key]][storageHashTable[key].index + 1] = value
      /\ \A other \in Key \ {key} :
           storageHashTable[other] # EMPTY_PTR =>
             valuesFile'[ShardOf[other]][storageHashTable[other].index + 1] = Record(other)
  BY <1>3, WriteRecord DEF AddDeleted, IInv
<1>5. /\ storageHashTable' = storageHashTable
      /\ cacheMap'[key].type = "PRESENT"
      /\ \A other \in Key \ {key} : cacheMap'[other] = cacheMap[other]
  BY DEF AddDeleted, SetCached, SetValuePresent, PtrTo, IInv, TypeOK, CacheTypeOK
<1>6. \A other \in Key \ {key} : Keeps(other)
  BY <1>1, <1>4, <1>5, SameRecordKeeps
<1>7. storageHashTable[key].type = "PRESENT" /\ cacheMap[key].type = "DELETED"
  BY <1>3 DEF AddDeleted, PtrTo
<1>8. ~IsAlive(key) /\ IsAlive(key)'
  BY <1>1, <1>2, <1>5, <1>7 DEF AliveFacts
<1>9. Record(key)' = value
  BY <1>4, <1>5 DEF Record, ReadValueDirectly
<1> QED BY <1>6, <1>8, <1>9 DEF Binds

(***************************************************************************)
(* After writeValue the index has the key as present, with the value as    *)
(* its record.                                                             *)
(***************************************************************************)
LEMMA WriteValueRecord ==
  ASSUME ShardInv, NEW key \in Key, NEW value \in Value, WriteValue(key, value)
  PROVE  /\ valuesFile'[ShardOf[key]][WriteValuePtr(key).index + 1] = value
         /\ \A other \in Key \ {key} :
              storageHashTable[other] # EMPTY_PTR =>
                valuesFile'[ShardOf[other]][storageHashTable[other].index + 1]
                  = Record(other)
<1>1. CASE OverwriteValue(key, value) \/ ReviveValue(key, value)
  <2>1. storageHashTable[key] # EMPTY_PTR
    BY <1>1 DEF OverwriteValue, ReviveValue, EMPTY_PTR
  <2>2. WriteValuePtr(key).index = storageHashTable[key].index
    BY <2>1 DEF WriteValuePtr, SetValuePresent, PtrTo
  <2>3. WriteValueDirectly(key, storageHashTable[key], value)
    BY <1>1 DEF OverwriteValue, ReviveValue
  <2> QED BY <2>1, <2>2, <2>3, WriteRecord
<1>2. CASE AppendValue(key, value)
  <2> DEFINE s == ShardOf[key]
             n == Len(valuesFile[s])
  <2>1. s \in ShardIndex /\ valuesFile \in [ShardIndex -> Seq(Value)] /\ n \in Nat
    BY ShardAssumption, LenProperties DEF ShardInv, ShardTypeOK
  <2>2. storageHashTable[key] = EMPTY_PTR
    BY <1>2, PtrCases DEF AppendValue, ShardInv, ShardTypeOK
  <2>3. WriteValuePtr(key).index = n
    BY <2>2 DEF WriteValuePtr, PtrTo
  <2>4. /\ valuesFile'[s] = Append(valuesFile[s], value)
        /\ \A t \in ShardIndex \ {s} : valuesFile'[t] = valuesFile[t]
    BY <1>2, <2>1 DEF AppendValue
  <2>5. /\ Append(valuesFile[s], value)[n + 1] = value
        /\ \A i \in 1 .. n : Append(valuesFile[s], value)[i] = valuesFile[s][i]
    BY <2>1, AppendProperties
  <2>6. ASSUME NEW other \in Key \ {key}, storageHashTable[other] # EMPTY_PTR
        PROVE  valuesFile'[ShardOf[other]][storageHashTable[other].index + 1] = Record(other)
    <3>1. /\ ShardOf[other] \in ShardIndex
          /\ storageHashTable[other].index + 1 \in DOMAIN valuesFile[ShardOf[other]]
      BY <2>6, IndexInFile
    <3>2. DOMAIN valuesFile[s] = 1 .. n
      BY <2>1
    <3> HIDE DEF n
    <3>3. CASE ShardOf[other] = s
      BY <2>4, <2>5, <3>1, <3>2, <3>3 DEF Record, ReadValueDirectly
    <3>4. CASE ShardOf[other] # s
      BY <2>4, <3>1, <3>4 DEF Record, ReadValueDirectly
    <3> QED BY <3>3, <3>4
  <2> QED BY <2>3, <2>4, <2>5, <2>6
<1> QED BY <1>1, <1>2 DEF WriteValue

(***************************************************************************)
(* add of a key that is not cached with a value binds it, and no other.    *)
(***************************************************************************)
LEMMA AddMissingEffect ==
  ASSUME IInv, IInv', NEW key \in Key, NEW value \in Value, AddMissing(key, value)
  PROVE  /\ IsAlive(key) <=> storageHashTable[key].type = "PRESENT"
         /\ Binds(key, value)
         /\ \A other \in Key \ {key} : Keeps(other)
<1>1. /\ \A k \in Key : CurrentPtr(k) = cacheMap[k]
      /\ CurrentPtr(key)' = WriteValuePtr(key)
      /\ \A k \in Key \ {key} : CurrentPtr(k)' = cacheMap'[k]
  BY ThenPutDecides DEF AddMissing
<1>2. AliveFacts /\ AliveFacts'
  BY AliveFactsHold, PTL
<1>3. /\ valuesFile'[ShardOf[key]][WriteValuePtr(key).index + 1] = value
      /\ \A other \in Key \ {key} :
           storageHashTable[other] # EMPTY_PTR =>
             valuesFile'[ShardOf[other]][storageHashTable[other].index + 1] = Record(other)
  BY WriteValueRecord DEF AddMissing, IInv
<1>4. /\ storageHashTable \in [Key -> Ptr]
      /\ storageHashTable' = [storageHashTable EXCEPT ![key] = WriteValuePtr(key)]
      /\ WriteValuePtr(key) = PtrTo(WriteValuePtr(key).index, TRUE)
      /\ cacheMap' = cacheMap
      /\ cacheMap[key].type # "DELETED"
  BY WriteValueResult DEF AddMissing, IInv, ShardInv, ShardTypeOK
<1>5. /\ storageHashTable'[key] = WriteValuePtr(key)
      /\ \A other \in Key \ {key} : storageHashTable'[other] = storageHashTable[other]
  BY <1>4
<1>6. \A other \in Key \ {key} : Keeps(other)
  BY <1>1, <1>3, <1>4, <1>5, SameRecordKeeps
<1>7. IsAlive(key) <=> storageHashTable[key].type = "PRESENT"
  BY <1>1, <1>2, <1>4 DEF AliveFacts
<1>8. WriteValuePtr(key).type = "PRESENT"
  BY <1>4 DEF PtrTo
<1>9. IsAlive(key)'
  BY <1>1, <1>2, <1>5, <1>8 DEF AliveFacts
<1>10. Record(key)' = value
  BY <1>3, <1>5 DEF Record, ReadValueDirectly
<1> QED BY <1>6, <1>7, <1>9, <1>10 DEF Binds

(***************************************************************************)
(* get: every key keeps its value, and the result is the value of the key. *)
(***************************************************************************)
LEMMA GetCachedEffect ==
  ASSUME IInv, IInv', NEW key \in Key, GetCached(key)
  PROVE  result' = Store[key] /\ \A k \in Key : Keeps(k)
<1>1. \A k \in Key : CurrentPtr(k) = cacheMap[k] /\ CurrentPtr(k)' = cacheMap'[k]
  BY ReturnDecides DEF GetCached, Return
<1>2. \A k \in Key : Keeps(k)
  BY <1>1, SameShardKeeps DEF GetCached
<1>3. /\ storageHashTable[key] = PtrTo(cacheMap[key].index, TRUE)
      /\ cacheMap[key].index = storageHashTable[key].index
      /\ cacheMap[key].type = "PRESENT"
  BY CachedPtr DEF GetCached
<1>4. storageHashTable[key].type = "PRESENT"
  BY <1>3 DEF PtrTo
<1>5. Store[key] = {Record(key)}
  BY <1>1, <1>3, <1>4, AliveFactsHold DEF AliveFacts
<1>6. result' = {Record(key)}
  BY <1>3 DEF GetCached, Record, ReadValueDirectly
<1> QED BY <1>2, <1>5, <1>6

(***************************************************************************)
(* What the cache knows to be removed or absent is not bound.              *)
(***************************************************************************)
LEMMA AbsentEffect ==
  ASSUME IInv, IInv', NEW key \in Key, GetAbsent(key) \/ RemoveAbsent(key)
  PROVE  /\ ~IsAlive(key) /\ Store[key] = {} /\ result' = {}
         /\ \A k \in Key : Keeps(k)
<1>1. pc = "idle" /\ \A k \in Key : CurrentPtr(k) = cacheMap[k] /\ CurrentPtr(k)' = cacheMap'[k]
  BY ReturnDecides DEF GetAbsent, RemoveAbsent, Return
<1>2. \A k \in Key : Keeps(k)
  BY <1>1, SameShardKeeps DEF GetAbsent, RemoveAbsent
<1>3. /\ cacheMap[key] \in Ptr
      /\ cacheMap[key].type = "DELETED" \/ cacheMap[key] = NONEXISTENT
  BY PtrCases DEF GetAbsent, RemoveAbsent, IInv, TypeOK, CacheTypeOK
<1>4. cacheMap[key] = NONEXISTENT => storageHashTable[key].type # "PRESENT"
  BY <1>1, QuietFacts DEF Coherent
<1>5. ~IsAlive(key) /\ Store[key] = {}
  BY <1>1, <1>3, <1>4, AliveFactsHold DEF AliveFacts
<1> QED BY <1>2, <1>5 DEF GetAbsent, RemoveAbsent

(***************************************************************************)
(* get through the shard returns the value that the key is bound to.       *)
(***************************************************************************)
LEMMA GetMissingEffect ==
  ASSUME IInv, IInv', NEW key \in Key, GetMissing(key)
  PROVE  result' = Store[key] /\ \A k \in Key : Keeps(k)
<1>1. ReadValuePtr(key) = storageHashTable[key]
  BY ReadValueResult DEF IInv
<1>2. PICK ptr \in {storageHashTable[key], NONEXISTENT} : ThenPut(key, ptr)
  BY <1>1 DEF GetMissing
<1>3. /\ \A k \in Key : CurrentPtr(k) = cacheMap[k]
      /\ CurrentPtr(key)' = ptr
      /\ \A k \in Key \ {key} : CurrentPtr(k)' = cacheMap'[k]
      /\ cacheMap[key] = EMPTY_PTR /\ cacheMap' = cacheMap
  BY <1>2, ThenPutDecides DEF GetMissing
<1>4. ptr.type # "DELETED"
  <2>1. CASE storageHashTable[key].type = "PRESENT"
    <3>1. ThenPut(key, storageHashTable[key])
      BY <1>1, <2>1 DEF GetMissing
    <3>2. CurrentPtr(key)' = storageHashTable[key]
      BY <3>1, ThenPutDecides DEF GetMissing
    <3> QED BY <1>3, <2>1, <3>2
  <2>2. CASE storageHashTable[key].type # "PRESENT"
    <3>1. ThenPut(key, NONEXISTENT)
      BY <1>1, <2>2 DEF GetMissing
    <3>2. CurrentPtr(key)' = NONEXISTENT
      BY <3>1, ThenPutDecides DEF GetMissing
    <3> QED BY <1>3, <3>2 DEF NONEXISTENT
  <2> QED BY <2>1, <2>2
<1>5. \A k \in Key : CurrentPtr(k)'.type = "DELETED" <=> CurrentPtr(k).type = "DELETED"
  BY <1>3, <1>4 DEF EMPTY_PTR
<1>6. \A k \in Key : Keeps(k)
  BY <1>5, SameShardKeeps DEF GetMissing
<1>7. Store[key] = IF storageHashTable[key].type = "PRESENT" THEN {Record(key)} ELSE {}
  BY <1>3, AliveFactsHold DEF AliveFacts, EMPTY_PTR
<1>8. result' = IF storageHashTable[key].type = "PRESENT" THEN {Record(key)} ELSE {}
  BY <1>1 DEF GetMissing, ReadValue, Record
<1> QED BY <1>6, <1>7, <1>8

(***************************************************************************)
(* remove: the key has no value any more.                                  *)
(***************************************************************************)
LEMMA RemoveCachedEffect ==
  ASSUME IInv, IInv', NEW key \in Key, RemoveCached(key)
  PROVE  IsAlive(key) /\ Unbinds(key) /\ \A other \in Key \ {key} : Keeps(other)
<1>1. pc = "idle" /\ \A k \in Key : CurrentPtr(k) = cacheMap[k] /\ CurrentPtr(k)' = cacheMap'[k]
  BY ReturnDecides DEF RemoveCached
<1>2. AliveFacts /\ AliveFacts'
  BY AliveFactsHold, PTL
<1>3. /\ cacheMap'[key].type = "DELETED"
      /\ \A other \in Key \ {key} : cacheMap'[other] = cacheMap[other]
  BY DEF RemoveCached, SetCached, SetValuePresent, PtrTo, IInv, TypeOK, CacheTypeOK
<1>4. \A other \in Key \ {key} : Keeps(other)
  BY <1>1, <1>3, SameRecordKeeps DEF RemoveCached, Record, ReadValueDirectly
<1>5. storageHashTable[key].type = "PRESENT" /\ cacheMap[key].type = "PRESENT"
  <2>1. cacheMap[key].type = "PRESENT" /\ pc = "idle"
    BY DEF RemoveCached
  <2>2. storageHashTable[key] = PtrTo(cacheMap[key].index, TRUE)
    BY <2>1, CachedPtr
  <2> QED BY <2>1, <2>2 DEF PtrTo
<1>6. IsAlive(key) /\ ~IsAlive(key)'
  BY <1>1, <1>2, <1>3, <1>5 DEF AliveFacts
<1> QED BY <1>4, <1>6 DEF Unbinds

(***************************************************************************)
(* remove through the shard unbinds the key, and no other.                 *)
(***************************************************************************)
LEMMA RemoveMissingEffect ==
  ASSUME IInv, IInv', NEW key \in Key, RemoveMissing(key)
  PROVE  /\ IsAlive(key) <=> FoundPresent(key)
         /\ Unbinds(key)
         /\ \A other \in Key \ {key} : Keeps(other)
<1>1. /\ \A k \in Key : CurrentPtr(k) = cacheMap[k]
      /\ CurrentPtr(key)' = NONEXISTENT
      /\ \A k \in Key \ {key} : CurrentPtr(k)' = cacheMap'[k]
      /\ cacheMap[key] = EMPTY_PTR /\ cacheMap' = cacheMap
  BY ThenPutDecides DEF RemoveMissing
<1>2. AliveFacts /\ AliveFacts'
  BY AliveFactsHold, PTL
<1>3. /\ storageHashTable'[key].type # "PRESENT"
      /\ \A other \in Key \ {key} : storageHashTable'[other] = storageHashTable[other]
      /\ valuesFile' = valuesFile
  BY RemoveEntryResult DEF IInv, RemoveMissing, RemoveEntry, shardVars
<1>4. \A other \in Key \ {key} : Keeps(other)
  BY <1>1, <1>3, SameRecordKeeps DEF Record, ReadValueDirectly
<1>5. ~IsAlive(key)'
  BY <1>2, <1>3 DEF AliveFacts
<1>6. IsAlive(key) <=> storageHashTable[key].type = "PRESENT"
  <2>1. CurrentPtr(key).type # "DELETED"
    BY <1>1 DEF EMPTY_PTR
  <2> QED BY <1>2, <2>1 DEF AliveFacts
<1>7. storageHashTable[key].type = "PRESENT" => FilterHas(key)
  BY DEF IInv, ShardInv, FilterComplete, EMPTY_PTR
<1> QED BY <1>4, <1>5, <1>6, <1>7 DEF Unbinds, FoundPresent

-----------------------------------------------------------------------------
(***************************************************************************)
(* The rest of a call changes no key's value.                              *)
(***************************************************************************)
LEMMA PutEntryEffect ==
  ASSUME IInv, IInv', PutEntry, NEW key \in Key
  PROVE  Keeps(key)
<1>1. PICK e \in entry :
        \/ /\ ~CacheIsFull
           /\ Put(e)
           /\ UNCHANGED displaced
        \/ \E victim \in Cached :
             /\ Displace(victim, e)
             /\ displaced' = {[key |-> victim, ptr |-> cacheMap[victim]]}
  BY DEF PutEntry
<1>2. /\ pc = "put" /\ entry' = {}
      /\ UNCHANGED shardVars
      /\ newEntries' = newEntries
  BY DEF PutEntry
<1>3. /\ displaced = {} /\ newEntries[key] = EMPTY_PTR
      /\ e.ptr # EMPTY_PTR
      /\ \A x \in entry : x = e
      /\ e.key \in Key /\ cacheMap \in [Key -> Ptr]
  BY <1>2 DEF IInv, PhaseInv, NoEntries, TypeOK, CacheTypeOK, IsOptional, Entry
<1>4. DecisionFacts /\ DecisionFacts'
  BY DecisionFactsHold, PTL
<1>5. CurrentPtr(key) = IF key = e.key THEN e.ptr ELSE cacheMap[key]
  BY <1>3, <1>4 DEF DecisionFacts
<1>6. CurrentPtr(key)' = CurrentPtr(key)
  <2>1. CASE Put(e) /\ UNCHANGED displaced
    <3>1. cacheMap'[key] = IF key = e.key THEN e.ptr ELSE cacheMap[key]
      BY <1>3, <2>1 DEF Put
    <3> QED BY <1>2, <1>3, <1>4, <1>5, <2>1, <3>1 DEF DecisionFacts
  <2>2. CASE \E victim \in Cached :
               /\ Displace(victim, e)
               /\ displaced' = {[key |-> victim, ptr |-> cacheMap[victim]]}
    <3>1. PICK victim \in Cached :
            /\ Displace(victim, e)
            /\ displaced' = {[key |-> victim, ptr |-> cacheMap[victim]]}
      BY <2>2
    <3>2. cacheMap'[key] = IF key = e.key THEN e.ptr
                           ELSE IF key = victim THEN EMPTY_PTR ELSE cacheMap[key]
      BY <1>3, <3>1 DEF Displace, Cached
    <3>3. \A d \in displaced' : d.key = victim /\ d.ptr = cacheMap[victim]
      BY <3>1
    <3>4. \E d \in displaced' : TRUE
      BY <3>1
    <3>5. CASE key = victim /\ key # e.key
      BY <1>2, <1>3, <1>4, <1>5, <3>2, <3>3, <3>4, <3>5 DEF DecisionFacts
    <3>6. CASE key = e.key \/ key # victim
      BY <1>2, <1>3, <1>4, <1>5, <3>2, <3>3, <3>6 DEF DecisionFacts
    <3> QED BY <3>5, <3>6
  <2> QED BY <1>1, <2>1, <2>2
<1> QED BY <1>2, <1>6, SameShardKeeps

(***************************************************************************)
(* Writing a lazy removal down binds and unbinds nothing.                  *)
(***************************************************************************)
LEMMA PushOperationEffect ==
  ASSUME IInv, IInv', PushOperation, NEW key \in Key
  PROVE  Keeps(key)
<1>1. PICK d \in displaced :
        \/ d.ptr.type = "DELETED" /\ PushRemoveEntry(d.key)
        \/ d.ptr.type # "DELETED" /\ UNCHANGED shardVars
  BY DEF PushOperation
<1>2. /\ pc = "push" /\ displaced' = {}
      /\ UNCHANGED <<cacheMap, entry, newEntries>>
  BY DEF PushOperation
<1>3. /\ entry = {} /\ newEntries[key] = EMPTY_PTR
      /\ d.ptr.type = "DELETED" => cacheMap[d.key] = EMPTY_PTR
      /\ \A x \in displaced : x = d
      /\ d.key \in Key
  BY <1>2, QuietFacts DEF IInv, PhaseInv, NoEntries, TypeOK, IsOptional, Entry
<1>4. DecisionFacts /\ DecisionFacts' /\ AliveFacts /\ AliveFacts'
  BY DecisionFactsHold, AliveFactsHold, PTL
<1>5. CurrentPtr(key)' = cacheMap[key]
  BY <1>2, <1>3, <1>4 DEF DecisionFacts
<1>6. CurrentPtr(key) =
        IF key = d.key /\ cacheMap[key] = EMPTY_PTR THEN d.ptr ELSE cacheMap[key]
  BY <1>3, <1>4 DEF DecisionFacts
<1>7. CASE d.ptr.type # "DELETED" /\ UNCHANGED shardVars
  <2>1. CurrentPtr(key)'.type = "DELETED" <=> CurrentPtr(key).type = "DELETED"
    BY <1>5, <1>6, <1>7 DEF EMPTY_PTR
  <2> QED BY <1>7, <2>1, SameShardKeeps
<1>8. CASE d.ptr.type = "DELETED" /\ PushRemoveEntry(d.key)
  <2>1. /\ storageHashTable'[d.key].type # "PRESENT"
        /\ \A k \in Key \ {d.key} : storageHashTable'[k] = storageHashTable[k]
        /\ valuesFile' = valuesFile
    BY <1>3, <1>8, RemoveEntryResult DEF IInv, PushRemoveEntry, shardVars
  <2>2. CASE key = d.key
    <3>1. CurrentPtr(key) = d.ptr
      BY <1>3, <1>6, <1>8, <2>2
    <3>2. ~IsAlive(key)
      BY <1>4, <1>8, <3>1 DEF AliveFacts
    <3>3. ~IsAlive(key)'
      BY <1>4, <2>1, <2>2 DEF AliveFacts
    <3> QED BY <3>2, <3>3 DEF Keeps
  <2>3. CASE key # d.key
    BY <1>5, <1>6, <2>1, <2>3, SameRecordKeeps DEF Record, ReadValueDirectly
  <2> QED BY <2>2, <2>3
<1> QED BY <1>1, <1>7, <1>8

(***************************************************************************)
(* A rebuild copies the records of the keys that are bound to a value.     *)
(***************************************************************************)
LEMMA KeptIsAlive ==
  ASSUME IInv, pc = "rebuild", NEW shard, NEW key \in KeysOf(shard)
  PROVE  IsAlive(key) <=> key \in KeptKeys(shard)
<1>1. /\ key \in Key /\ CurrentPtr(key) = cacheMap[key]
      /\ cacheMap[key] \in Ptr
      /\ Coherent(cacheMap[key], key)
  BY CacheDecides, QuietFacts DEF KeysOf, IInv, TypeOK, CacheTypeOK
<1>2. IsAlive(key) <=> /\ storageHashTable[key].type = "PRESENT"
                       /\ cacheMap[key].type # "DELETED"
  BY <1>1, AliveFactsHold DEF AliveFacts
<1>3. storageHashTable[key].type = "PRESENT" => key \in IndexedKeys(shard)
  BY <1>1 DEF IndexedKeys, EMPTY_PTR
<1>4. CASE cacheMap[key] = EMPTY_PTR
  BY <1>2, <1>3, <1>4 DEF KeptKeys, EMPTY_PTR
<1>5. CASE cacheMap[key] = NONEXISTENT
  <2>1. storageHashTable[key].type # "PRESENT"
    BY <1>1, <1>5 DEF Coherent
  <2> QED BY <1>2, <1>5, <2>1 DEF KeptKeys, EMPTY_PTR, NONEXISTENT
<1>6. CASE PointsToValue(cacheMap[key])
  <2>1. storageHashTable[key].type = "PRESENT"
    BY <1>1, <1>6 DEF Coherent, PtrTo
  <2>2. cacheMap[key].type # "DELETED" <=> cacheMap[key].type = "PRESENT"
    BY <1>6 DEF PointsToValue
  <2>3. cacheMap[key] # EMPTY_PTR
    BY <1>6 DEF PointsToValue, EMPTY_PTR
  <2> QED BY <1>2, <1>3, <2>1, <2>2, <2>3 DEF KeptKeys
<1> QED BY <1>1, <1>4, <1>5, <1>6, PtrCases

(***************************************************************************)
(* The kept keys of a shard have room in a new file.                       *)
(***************************************************************************)
LEMMA KeptFits ==
  ASSUME ShardInv, NEW shard \in ShardIndex
  PROVE  /\ IsFiniteSet(KeptKeys(shard))
         /\ Cardinality(KeptKeys(shard)) \in 0 .. 126
<1>1. /\ IsFiniteSet(IndexedKeys(shard)) /\ Cardinality(IndexedKeys(shard)) \in Nat
      /\ KeptKeys(shard) \in SUBSET IndexedKeys(shard)
  BY IndexedKeysFinite DEF KeptKeys
<1>2. /\ IsFiniteSet(KeptKeys(shard))
      /\ Cardinality(KeptKeys(shard)) <= Cardinality(IndexedKeys(shard))
      /\ Cardinality(KeptKeys(shard)) \in Nat
  BY <1>1, FS_Subset, FS_CardinalityType
<1>3. Cardinality(IndexedKeys(shard)) <= MAX_PTR_INDEX + 1
  BY BoundedIndexFitsPtr DEF ShardInv, PtrIndexInBounds, IndexBounded
<1> QED BY <1>1, <1>2, <1>3, MaxPtrIndexAssumption

(***************************************************************************)
(* The new pointer of a key leads to the copy of its record.               *)
(***************************************************************************)
LEMMA CopiedRecord ==
  ASSUME ShardInv, NEW shard \in ShardIndex,
         NEW order \in Enumerations(KeptKeys(shard)), NEW key \in KeptKeys(shard)
  PROVE  CopiedRecords(order)[RebuiltPtr(order, key).index + 1] = Record(key)
<1> DEFINE kept == KeptKeys(shard)
           i == RebuiltPtr(order, key).index + 1
<1>1. IsFiniteSet(kept) /\ Cardinality(kept) <= 126 /\ order \in Enumerations(kept)
  BY KeptFits
<1>2. key \in kept
  OBVIOUS
<1> HIDE DEF kept
<1>3. /\ order \in [1 .. Cardinality(kept) -> kept]
      /\ \A k \in kept :
           /\ RebuiltPtr(order, k) \in Ptr
           /\ RebuiltPtr(order, k) = PtrTo(RebuiltPtr(order, k).index, TRUE)
           /\ RebuiltPtr(order, k).index + 1 \in 1 .. Cardinality(kept)
           /\ order[RebuiltPtr(order, k).index + 1] = k
      /\ \A j \in 1 .. Cardinality(kept) : RebuiltPtr(order, order[j]).index = j - 1
  BY <1>1, RebuiltPtrProperties
<1>4. i \in DOMAIN order /\ order[i] = key
  BY <1>2, <1>3
<1> HIDE DEF i
<1> QED BY <1>4 DEF CopiedRecords, Record, i

(***************************************************************************)
(* A rebuild binds and unbinds nothing.                                    *)
(***************************************************************************)
LEMMA RebuildShardEffect ==
  ASSUME IInv, IInv', RebuildShard, NEW key \in Key
  PROVE  Keeps(key)
<1>1. PICK shard \in target, seeds \in SeedVector :
        \E order \in Enumerations(KeptKeys(shard)) :
          /\ BuildShard(shard, order, seeds)
          /\ newEntries' = UpdatedEntries(shard, order)
  BY DEF RebuildShard
<1>2. PICK order \in Enumerations(KeptKeys(shard)) :
        /\ BuildShard(shard, order, seeds)
        /\ newEntries' = UpdatedEntries(shard, order)
  BY <1>1
<1>3. /\ pc = "rebuild" /\ shard \in ShardIndex
      /\ entry' = {} /\ displaced' = {} /\ cacheMap' = cacheMap
  BY IdleFacts DEF RebuildShard, IInv, TypeOK, IsOptional
<1>4. DecisionFacts' /\ AliveFacts /\ AliveFacts'
  BY DecisionFactsHold, AliveFactsHold, PTL
<1>5. CurrentPtr(key) = cacheMap[key]
  BY <1>3, CacheDecides
<1>6. CurrentPtr(key)' =
        IF newEntries'[key] # EMPTY_PTR THEN newEntries'[key] ELSE cacheMap[key]
  BY <1>3, <1>4 DEF DecisionFacts
<1>7. /\ key \in KeptKeys(shard) =>
           /\ storageHashTable'[key] = RebuiltPtr(order, key)
           /\ RebuiltPtr(order, key) \in Ptr
           /\ RebuiltPtr(order, key) = PtrTo(RebuiltPtr(order, key).index, TRUE)
      /\ key \in KeysOf(shard) \ KeptKeys(shard) => storageHashTable'[key] = EMPTY_PTR
      /\ key \notin KeysOf(shard) => storageHashTable'[key] = storageHashTable[key]
  BY <1>2, <1>3, BuildShardIndex DEF IInv
<1>8. CASE key \notin KeysOf(shard)
  <2>1. newEntries'[key] = EMPTY_PTR
    BY <1>2, <1>8 DEF UpdatedEntries, IndexedKeys
  <2>2. valuesFile'[ShardOf[key]] = valuesFile[ShardOf[key]]
    <3>1. ShardOf[key] \in ShardIndex /\ ShardOf[key] # shard
      BY <1>8, ShardAssumption DEF KeysOf
    <3> QED BY <1>2, <3>1 DEF BuildShard, IInv, ShardInv, ShardTypeOK
  <2> QED BY <1>5, <1>6, <1>7, <1>8, <2>1, <2>2, SameRecordKeeps
          DEF Record, ReadValueDirectly
<1>9. CASE key \in KeysOf(shard) \ KeptKeys(shard)
  <2>1. ~IsAlive(key)
    BY <1>3, <1>9, KeptIsAlive
  <2>2. storageHashTable'[key].type # "PRESENT"
    BY <1>7, <1>9 DEF EMPTY_PTR
  <2>3. ~IsAlive(key)'
    BY <1>4, <2>2 DEF AliveFacts
  <2> QED BY <2>1, <2>3 DEF Keeps
<1>10. CASE key \in KeptKeys(shard)
  <2>1. key \in KeysOf(shard) /\ ShardOf[key] = shard
    BY <1>10 DEF KeptKeys, IndexedKeys, KeysOf
  <2>2. IsAlive(key) /\ cacheMap[key].type # "DELETED"
    BY <1>3, <1>4, <1>5, <1>10, <2>1, KeptIsAlive DEF AliveFacts
  <2>3. newEntries'[key] \in {EMPTY_PTR, RebuiltPtr(order, key)}
    <3>1. newEntries'[key] =
            CASE key \in IndexedKeys(shard) /\ cacheMap[key].type = "DELETED"
                   -> NONEXISTENT
              [] key \in IndexedKeys(shard) /\ cacheMap[key].type = "PRESENT"
                   -> RebuiltPtr(order, key)
              [] OTHER -> EMPTY_PTR
      BY <1>2 DEF UpdatedEntries
    <3> QED BY <2>2, <3>1
  <2>4. storageHashTable'[key].type = "PRESENT" /\ RebuiltPtr(order, key).type = "PRESENT"
    BY <1>7, <1>10 DEF PtrTo
  <2>5. CurrentPtr(key)'.type # "DELETED"
    BY <1>6, <2>2, <2>3, <2>4
  <2>6. IsAlive(key)'
    BY <1>4, <2>4, <2>5 DEF AliveFacts
  <2>7. Record(key)' = Record(key)
    <3>1. valuesFile'[shard] = CopiedRecords(order)
      BY <1>2, <1>3 DEF BuildShard, IInv, ShardInv, ShardTypeOK
    <3>2. CopiedRecords(order)[RebuiltPtr(order, key).index + 1] = Record(key)
      BY <1>2, <1>3, <1>10, CopiedRecord DEF IInv
    <3>3. Record(key)' = valuesFile'[shard][RebuiltPtr(order, key).index + 1]
      BY <1>7, <1>10, <2>1 DEF Record, ReadValueDirectly
    <3> QED BY <3>1, <3>2, <3>3
  <2> QED BY <2>2, <2>6, <2>7 DEF Keeps
<1> QED BY <1>8, <1>9, <1>10 DEF KeptKeys, IndexedKeys

(***************************************************************************)
(* With asserts no entry of a rebuild displaces another one.               *)
(***************************************************************************)
LEMMA InstallEntryEffect ==
  ASSUME IInv, IInv', InstallEntry, AssertsEnabled, NEW key \in Key
  PROVE  Keeps(key)
<1>1. PICK k \in Key :
        /\ newEntries[k] # EMPTY_PTR
        /\ Put([key |-> k, ptr |-> newEntries[k]])
        /\ newEntries' = [newEntries EXCEPT ![k] = EMPTY_PTR]
  BY DEF InstallEntry
<1>2. /\ pc = "install" /\ UNCHANGED <<shardVars, entry, displaced>>
      /\ entry = {} /\ displaced = {}
  BY IdleFacts DEF InstallEntry
<1>3. cacheMap \in [Key -> Ptr] /\ newEntries \in [Key -> Ptr]
  BY DEF IInv, TypeOK, CacheTypeOK
<1>4. /\ cacheMap'[key] = IF key = k THEN newEntries[k] ELSE cacheMap[key]
      /\ newEntries'[key] = IF key = k THEN EMPTY_PTR ELSE newEntries[key]
  BY <1>1, <1>3 DEF Put
<1>5. DecisionFacts /\ DecisionFacts'
  BY DecisionFactsHold, PTL
<1>6. CurrentPtr(key)' = CurrentPtr(key)
  BY <1>1, <1>2, <1>4, <1>5 DEF DecisionFacts
<1> QED BY <1>2, <1>6, SameShardKeeps

(***************************************************************************)
(* A step that leaves the cache, the shards and the entries on their way   *)
(* alone.                                                                  *)
(***************************************************************************)
LEMMA StutterEffect ==
  ASSUME IInv, IInv', NEW key \in Key,
         UNCHANGED <<cacheMap, shardVars, entry, displaced, newEntries>>
  PROVE  Keeps(key)
<1>1. CurrentPtr(key)' = CurrentPtr(key)
  BY DEF CurrentPtr
<1> QED BY <1>1, SameShardKeeps

-----------------------------------------------------------------------------
(***************************************************************************)
(* What any step does to the store: it is an operation of the map that     *)
(* counts what it binds and unbinds, or a part of a call that changes no   *)
(* value and does not touch a counter, except to count the bound keys of a *)
(* shard anew.                                                             *)
(***************************************************************************)
AliveKeys(shard) == {key \in KeysOf(shard) : IsAlive(key)}

AddStep(key, value) ==
  /\ Binds(key, value)
  /\ \A other \in Key \ {key} : Keeps(other)
  /\ IF IsAlive(key) THEN UNCHANGED aliveValuesCnt
                     ELSE IncrementAliveValuesCnt(ShardOf[key])
  /\ result' = {}

GetStep(key) ==
  /\ \A k \in Key : Keeps(k)
  /\ UNCHANGED aliveValuesCnt
  /\ result' = Store[key]

RemoveStep(key) ==
  /\ Unbinds(key)
  /\ \A other \in Key \ {key} : Keeps(other)
  /\ IF IsAlive(key) THEN DecrementAliveValuesCnt(ShardOf[key])
                     ELSE UNCHANGED aliveValuesCnt
  /\ result' = {}

InnerStep ==
  /\ \A k \in Key : Keeps(k)
  /\ \/ UNCHANGED aliveValuesCnt
     \/ \E shard \in ShardIndex :
          aliveValuesCnt' =
            [aliveValuesCnt EXCEPT ![shard] = Cardinality(AliveKeys(shard))]
  /\ UNCHANGED result

Effect ==
  \/ \E key \in Key :
       (\E value \in Value : AddStep(key, value)) \/ GetStep(key) \/ RemoveStep(key)
  \/ InnerStep

(***************************************************************************)
(* So does every call of a client.                                         *)
(***************************************************************************)
LEMMA CallEffect ==
  ASSUME IInv, IInv', Call
  PROVE  Effect
<1>1. ASSUME NEW key \in Key, NEW value \in Value, AddCached(key, value)
      PROVE  AddStep(key, value)
  BY <1>1, AddCachedEffect DEF AddCached, AddStep
<1>2. ASSUME NEW key \in Key, NEW value \in Value, AddDeleted(key, value)
      PROVE  AddStep(key, value)
  BY <1>2, AddDeletedEffect DEF AddDeleted, AddStep
<1>3. ASSUME NEW key \in Key, NEW value \in Value, AddMissing(key, value)
      PROVE  AddStep(key, value)
  <2>1. IF IsAlive(key) THEN UNCHANGED aliveValuesCnt
                        ELSE IncrementAliveValuesCnt(ShardOf[key])
    <3>1. WriteValue(key, value) /\ (IsAlive(key) <=> storageHashTable[key].type = "PRESENT")
      BY <1>3, AddMissingEffect DEF AddMissing
    <3> QED BY <3>1 DEF WriteValue, OverwriteValue, ReviveValue, AppendValue
  <2>2. result' = {}
    BY <1>3 DEF AddMissing
  <2> QED BY <1>3, <2>1, <2>2, AddMissingEffect DEF AddStep
<1>4. ASSUME NEW key \in Key, AddOverflows(key) PROVE InnerStep
  <2>1. UNCHANGED <<cacheMap, shardVars, entry, displaced, newEntries, result>>
    BY <1>4 DEF AddOverflows, Die
  <2> QED BY <2>1, StutterEffect DEF InnerStep, shardVars
<1>5. ASSUME NEW key \in Key, GetCached(key) PROVE GetStep(key)
  BY <1>5, GetCachedEffect DEF GetCached, GetStep, shardVars
<1>6. ASSUME NEW key \in Key, GetAbsent(key) PROVE GetStep(key)
  BY <1>6, AbsentEffect DEF GetAbsent, GetStep, shardVars
<1>7. ASSUME NEW key \in Key, GetMissing(key) PROVE GetStep(key)
  BY <1>7, GetMissingEffect DEF GetMissing, GetStep, shardVars
<1>8. ASSUME NEW key \in Key, RemoveCached(key) PROVE RemoveStep(key)
  BY <1>8, RemoveCachedEffect DEF RemoveCached, RemoveStep
<1>9. ASSUME NEW key \in Key, RemoveAbsent(key) PROVE RemoveStep(key)
  <2>1. ~IsAlive(key) /\ \A k \in Key : Keeps(k)
    BY <1>9, AbsentEffect
  <2>2. UNCHANGED aliveValuesCnt /\ result' = {}
    BY <1>9 DEF RemoveAbsent, shardVars
  <2> QED BY <2>1, <2>2 DEF RemoveStep, Unbinds, Keeps
<1>10. ASSUME NEW key \in Key, RemoveMissing(key) PROVE RemoveStep(key)
  <2>1. IF IsAlive(key) THEN DecrementAliveValuesCnt(ShardOf[key])
                        ELSE UNCHANGED aliveValuesCnt
    <3>1. RemoveEntry(key) /\ (IsAlive(key) <=> FoundPresent(key))
      BY <1>10, RemoveMissingEffect DEF RemoveMissing
    <3> QED BY <3>1 DEF RemoveEntry, shardVars
  <2>2. result' = {}
    BY <1>10 DEF RemoveMissing
  <2> QED BY <1>10, <2>1, <2>2, RemoveMissingEffect DEF RemoveStep
<1> QED
  BY <1>1, <1>2, <1>3, <1>4, <1>5, <1>6, <1>7, <1>8, <1>9, <1>10 DEF Call, Effect

(***************************************************************************)
(* Every step of the store has one of the effects.                         *)
(***************************************************************************)
LEMMA NextEffect ==
  ASSUME IInv, IInv', [Next]_vars, AssertsEnabled
  PROVE  Effect
<1>1. CASE Call
  BY <1>1, CallEffect
<1>2. CASE PutEntry
  <2>1. UNCHANGED <<aliveValuesCnt, result>>
    BY <1>2 DEF PutEntry, shardVars
  <2> QED BY <1>2, <2>1, PutEntryEffect DEF InnerStep, Effect
<1>3. CASE PushOperation
  <2>1. UNCHANGED <<aliveValuesCnt, result>>
    BY <1>3 DEF PushOperation, PushRemoveEntry, shardVars
  <2> QED BY <1>3, <2>1, PushOperationEffect DEF InnerStep, Effect
<1>4. CASE RebuildShard
  <2>1. PICK shard \in target :
          aliveValuesCnt' =
            [aliveValuesCnt EXCEPT ![shard] = Cardinality(KeptKeys(shard)) % 256]
    BY <1>4 DEF RebuildShard, BuildShard
  <2>2. pc = "rebuild" /\ shard \in ShardIndex /\ UNCHANGED result
    BY <1>4 DEF RebuildShard, IInv, TypeOK, IsOptional
  <2>3. KeptKeys(shard) = AliveKeys(shard)
    <3>1. KeptKeys(shard) \subseteq KeysOf(shard)
      BY DEF KeptKeys, IndexedKeys
    <3> QED BY <2>2, <3>1, KeptIsAlive DEF AliveKeys
  <2>4. Cardinality(KeptKeys(shard)) % 256 = Cardinality(KeptKeys(shard))
    <3>1. Cardinality(KeptKeys(shard)) \in 0 .. 126
      BY <2>2, KeptFits DEF IInv
    <3> QED BY <3>1
  <2> QED BY <1>4, <2>1, <2>2, <2>3, <2>4, RebuildShardEffect DEF InnerStep, Effect
<1>5. CASE InstallEntry
  <2>1. UNCHANGED <<aliveValuesCnt, result>>
    BY <1>5 DEF InstallEntry, shardVars
  <2> QED BY <1>5, <2>1, InstallEntryEffect DEF InnerStep, Effect
<1>6. CASE RebuildAborts \/ InstallAborts \/ Halted \/ UNCHANGED vars
  <2>1. UNCHANGED <<cacheMap, shardVars, entry, displaced, newEntries, result>>
    BY <1>6 DEF RebuildAborts, InstallAborts, Die, Halted, vars
  <2> QED BY <2>1, StutterEffect DEF InnerStep, Effect, shardVars
<1> QED BY <1>1, <1>2, <1>3, <1>4, <1>5, <1>6 DEF Next, Continue

-----------------------------------------------------------------------------
(***************************************************************************)
(* The keys of a shard that are bound to a value are too few for a byte to *)
(* wrap: all of them are in its index.                                     *)
(***************************************************************************)
AliveBounded ==
  \A shard \in ShardIndex :
    /\ IsFiniteSet(AliveKeys(shard))
    /\ Cardinality(AliveKeys(shard)) \in 0 .. 126

(***************************************************************************)
(* No shard has more keys alive than keys.                                 *)
(***************************************************************************)
LEMMA AliveBoundedHolds == IInv => AliveBounded
<1> SUFFICES ASSUME IInv, NEW shard \in ShardIndex
    PROVE  /\ IsFiniteSet(AliveKeys(shard))
           /\ Cardinality(AliveKeys(shard)) \in 0 .. 126
  BY DEF AliveBounded
<1>1. AliveKeys(shard) \in SUBSET IndexedKeys(shard)
  <2> SUFFICES ASSUME NEW key \in KeysOf(shard), IsAlive(key)
               PROVE  storageHashTable[key] # EMPTY_PTR
    BY DEF AliveKeys, IndexedKeys
  <2>1. storageHashTable[key].type = "PRESENT"
    BY AliveFactsHold DEF AliveFacts, KeysOf
  <2> QED BY <2>1 DEF EMPTY_PTR
<1>2. IsFiniteSet(IndexedKeys(shard)) /\ Cardinality(IndexedKeys(shard)) \in Nat
  BY IndexedKeysFinite
<1>3. /\ IsFiniteSet(AliveKeys(shard))
      /\ Cardinality(AliveKeys(shard)) <= Cardinality(IndexedKeys(shard))
      /\ Cardinality(AliveKeys(shard)) \in Nat
  BY <1>1, <1>2, FS_Subset, FS_CardinalityType
<1>4. Cardinality(IndexedKeys(shard)) <= MAX_PTR_INDEX + 1
  BY BoundedIndexFitsPtr DEF IInv, ShardInv, PtrIndexInBounds, IndexBounded
<1> QED BY <1>2, <1>3, <1>4, MaxPtrIndexAssumption

(***************************************************************************)
(* One key more, or one key less.                                          *)
(***************************************************************************)
LEMMA OneMore ==
  ASSUME NEW S, NEW T, NEW x, IsFiniteSet(S), IsFiniteSet(T),
         Cardinality(T) \in 0 .. 126, x \notin S, T = S \cup {x}
  PROVE  (Cardinality(S) + 1) % 256 = Cardinality(T)
<1>1. Cardinality(T) = Cardinality(S) + 1
  BY FS_AddElement
<1> QED BY <1>1

(***************************************************************************)
(* Taking an element away makes a finite set one smaller.                  *)
(***************************************************************************)
LEMMA OneLess ==
  ASSUME NEW S, NEW T, NEW x, IsFiniteSet(S),
         Cardinality(S) \in 0 .. 126, x \in S, T = S \ {x}
  PROVE  (Cardinality(S) - 1) % 256 = Cardinality(T)
<1>1. Cardinality(T) = Cardinality(S) - 1
  BY FS_RemoveElement
<1>2. Cardinality(T) \in Nat
  BY FS_RemoveElement, FS_CardinalityType
<1> QED BY <1>1, <1>2

(***************************************************************************)
(* A shard whose keys stay alive or dead keeps their number.               *)
(***************************************************************************)
LEMMA SameAliveKeys ==
  ASSUME NEW shard, \A key \in KeysOf(shard) : Keeps(key)
  PROVE  AliveKeys(shard)' = AliveKeys(shard)
BY DEF AliveKeys, KeysOf, Keeps

(***************************************************************************)
(* Every step counts what it binds and what it unbinds.                    *)
(***************************************************************************)
LEMMA NextCounts ==
  ASSUME IInv, IInv', [Next]_vars, AssertsEnabled, AliveCountExact
  PROVE  AliveCountExact'
<1> SUFFICES ASSUME NEW shard \in ShardIndex
             PROVE  aliveValuesCnt'[shard] = Cardinality(AliveKeys(shard)')
  BY DEF AliveCountExact, AliveKeys, KeysOf
<1>1. /\ aliveValuesCnt[shard] = Cardinality(AliveKeys(shard))
      /\ aliveValuesCnt \in [ShardIndex -> 0 .. 255]
  BY DEF AliveCountExact, AliveKeys, IInv, ShardInv, ShardTypeOK
<1>2. AliveBounded /\ AliveBounded'
  BY AliveBoundedHolds, PTL
<1>3. /\ IsFiniteSet(AliveKeys(shard)) /\ Cardinality(AliveKeys(shard)) \in 0 .. 126
      /\ IsFiniteSet(AliveKeys(shard)') /\ Cardinality(AliveKeys(shard)') \in 0 .. 126
  BY <1>2 DEF AliveBounded
<1>4. ASSUME NEW key \in Key, NEW value \in Value, AddStep(key, value)
      PROVE  aliveValuesCnt'[shard] = Cardinality(AliveKeys(shard)')
  <2>1. CASE ShardOf[key] # shard \/ IsAlive(key)
    <3>1. \A k \in KeysOf(shard) : IsAlive(k)' <=> IsAlive(k)
      BY <1>4, <2>1 DEF AddStep, Binds, Keeps, KeysOf
    <3>2. AliveKeys(shard)' = AliveKeys(shard)
      BY <3>1 DEF AliveKeys, KeysOf
    <3>3. aliveValuesCnt'[shard] = aliveValuesCnt[shard]
      BY <1>1, <1>4, <2>1 DEF AddStep, IncrementAliveValuesCnt
    <3> QED BY <1>1, <3>2, <3>3
  <2>2. CASE ShardOf[key] = shard /\ ~IsAlive(key)
    <3>1. AliveKeys(shard)' = AliveKeys(shard) \cup {key} /\ key \notin AliveKeys(shard)
      BY <1>4, <2>2 DEF AddStep, Binds, Keeps, AliveKeys, KeysOf
    <3>2. aliveValuesCnt'[shard] = (aliveValuesCnt[shard] + 1) % 256
      BY <1>1, <1>4, <2>2 DEF AddStep, IncrementAliveValuesCnt
    <3> QED BY <1>1, <1>3, <3>1, <3>2, OneMore
  <2> QED BY <2>1, <2>2
<1>5. ASSUME NEW key \in Key, GetStep(key)
      PROVE  aliveValuesCnt'[shard] = Cardinality(AliveKeys(shard)')
  <2>1. AliveKeys(shard)' = AliveKeys(shard)
    BY <1>5, SameAliveKeys DEF GetStep, KeysOf
  <2> QED BY <1>1, <1>5, <2>1 DEF GetStep
<1>6. ASSUME NEW key \in Key, RemoveStep(key)
      PROVE  aliveValuesCnt'[shard] = Cardinality(AliveKeys(shard)')
  <2>1. CASE ShardOf[key] # shard \/ ~IsAlive(key)
    <3>1. \A k \in KeysOf(shard) : IsAlive(k)' <=> IsAlive(k)
      BY <1>6, <2>1 DEF RemoveStep, Unbinds, Keeps, KeysOf
    <3>2. AliveKeys(shard)' = AliveKeys(shard)
      BY <3>1 DEF AliveKeys, KeysOf
    <3>3. aliveValuesCnt'[shard] = aliveValuesCnt[shard]
      BY <1>1, <1>6, <2>1 DEF RemoveStep, DecrementAliveValuesCnt
    <3> QED BY <1>1, <3>2, <3>3
  <2>2. CASE ShardOf[key] = shard /\ IsAlive(key)
    <3>1. AliveKeys(shard)' = AliveKeys(shard) \ {key} /\ key \in AliveKeys(shard)
      BY <1>6, <2>2 DEF RemoveStep, Unbinds, Keeps, AliveKeys, KeysOf
    <3>2. aliveValuesCnt'[shard] = (aliveValuesCnt[shard] - 1) % 256
      BY <1>1, <1>6, <2>2 DEF RemoveStep, DecrementAliveValuesCnt
    <3> QED BY <1>1, <1>3, <3>1, <3>2, OneLess
  <2> QED BY <2>1, <2>2
<1>7. CASE InnerStep
  <2>1. AliveKeys(shard)' = AliveKeys(shard)
    BY <1>7, SameAliveKeys DEF InnerStep, KeysOf
  <2>2. aliveValuesCnt'[shard] \in {aliveValuesCnt[shard], Cardinality(AliveKeys(shard))}
    BY <1>1, <1>7 DEF InnerStep
  <2> QED BY <1>1, <2>1, <2>2
<1> QED BY <1>4, <1>5, <1>6, <1>7, NextEffect DEF Effect

(***************************************************************************)
(* An empty store has no key alive.                                        *)
(***************************************************************************)
LEMMA InitCounts == Init => AliveCountExact
<1> SUFFICES ASSUME Init, NEW shard \in ShardIndex
             PROVE  aliveValuesCnt[shard] = Cardinality(AliveKeys(shard))
  BY DEF AliveCountExact, AliveKeys
<1>1. AliveKeys(shard) = {}
  <2>1. \A key \in Key : storageHashTable[key].type # "PRESENT"
    BY DEF Init, ShardInit, EMPTY_PTR
  <2>2. \A key \in Key : ~IsAlive(key)
    BY <2>1, InitIInv, AliveFactsHold DEF AliveFacts
  <2> QED BY <2>2 DEF AliveKeys, KeysOf
<1>2. aliveValuesCnt[shard] = 0
  BY DEF Init, ShardInit
<1> QED BY <1>1, <1>2, FS_EmptySet

(***************************************************************************)
(* The byte counter of a shard is the number of its keys that are bound to *)
(* a value, however adds, lazy removals, their pushes and rebuilds follow  *)
(* one another; it never wraps.  (KVS::add, remove, pushOperation,         *)
(* ShardBuilder::rebuildShard.)                                            *)
(***************************************************************************)
THEOREM AliveCountIsExact == AssertsEnabled => (Spec => []AliveCountExact)
<1> SUFFICES ASSUME AssertsEnabled PROVE Spec => []AliveCountExact
  OBVIOUS
<1>1. Init => AliveCountExact
  BY InitCounts
<1>2. IInv /\ IInv' /\ AliveCountExact /\ [Next]_vars => AliveCountExact'
  BY NextCounts
<1> QED BY <1>1, <1>2, Invariance, PTL DEF Spec

(***************************************************************************)
(* A rebuild leaves exactly the records of the bound keys, does not need   *)
(* to be repeated and touches no other shard.  (rebuildShard.)             *)
(***************************************************************************)
LEMMA RebuildShardCompacts ==
  ASSUME IInv, AliveCountExact, RebuildShard, NEW shard \in target
  PROVE  /\ Len(valuesFile'[shard]) = aliveValuesCnt'[shard]
         /\ aliveValuesCnt'[shard] = aliveValuesCnt[shard]
         /\ ~IsRebuildRequired(shard)'
         /\ \A other \in ShardIndex \ {shard} : valuesFile'[other] = valuesFile[other]
<1> DEFINE kept == KeptKeys(shard)
           n == Cardinality(kept)
<1>1. /\ pc = "rebuild" /\ shard \in ShardIndex
      /\ \A other \in target : other = shard
      /\ valuesFile \in [ShardIndex -> Seq(Value)]
      /\ aliveValuesCnt \in [ShardIndex -> 0 .. 255]
  BY DEF RebuildShard, IInv, TypeOK, IsOptional, ShardInv, ShardTypeOK
<1>2. PICK order \in Enumerations(kept) :
        /\ valuesFile' = [valuesFile EXCEPT ![shard] = CopiedRecords(order)]
        /\ aliveValuesCnt' = [aliveValuesCnt EXCEPT ![shard] = n % 256]
  BY <1>1 DEF RebuildShard, BuildShard
<1>3. n \in 0 .. 126
  BY <1>1, KeptFits DEF IInv
<1>4. n = aliveValuesCnt[shard]
  <2>1. kept = AliveKeys(shard)
    <3>1. kept \subseteq KeysOf(shard)
      BY DEF KeptKeys, IndexedKeys
    <3> QED BY <1>1, <3>1, KeptIsAlive DEF AliveKeys
  <2> QED BY <1>1, <2>1 DEF AliveCountExact, AliveKeys
<1>5. Len(valuesFile'[shard]) = n
  <2>1. order \in [1 .. n -> kept]
    BY <1>2 DEF Enumerations
  <2>2. CopiedRecords(order) = [i \in 1 .. n |-> ReadValueDirectly(order[i], storageHashTable[order[i]])]
    BY <2>1 DEF CopiedRecords
  <2> HIDE DEF n, kept
  <2>3. Len(CopiedRecords(order)) = n
    BY <1>3, <2>2
  <2> QED BY <1>1, <1>2, <2>3
<1>6. aliveValuesCnt'[shard] = n
  <2> HIDE DEF n
  <2>1. n % 256 = n
    BY <1>3
  <2> QED BY <1>1, <1>2, <2>1
<1>7. ~IsRebuildRequired(shard)'
  <2> HIDE DEF n
  <2>1. ~(n % 256 > 2 * n)
    BY <1>3
  <2> QED BY <1>5, <1>6, <2>1 DEF IsRebuildRequired
<1> QED BY <1>1, <1>2, <1>4, <1>5, <1>6, <1>7

(***************************************************************************)
(* A rebuild leaves the shard with one record for each of its keys that is *)
(* alive, in the values file and in the index.                             *)
(***************************************************************************)
THEOREM RebuildsCompact == AssertsEnabled => (Spec => RebuildCompacts)
<1> SUFFICES ASSUME AssertsEnabled PROVE Spec => RebuildCompacts
  OBVIOUS
<1> DEFINE compacts ==
             \A shard \in target :
               pc = "rebuild" /\ pc' # "halted" =>
                 /\ Len(valuesFile'[shard]) = aliveValuesCnt'[shard]
                 /\ aliveValuesCnt'[shard] = aliveValuesCnt[shard]
                 /\ ~IsRebuildRequired(shard)'
                 /\ \A other \in ShardIndex \ {shard} :
                      valuesFile'[other] = valuesFile[other]
<1>1. IInv /\ AliveCountExact /\ [Next]_vars => [compacts]_vars
  <2> SUFFICES ASSUME IInv, AliveCountExact, Next, pc = "rebuild", pc' # "halted"
               PROVE  compacts
    OBVIOUS
  <2>1. RebuildShard
    BY DEF Next, Call, AddCached, AddDeleted, AddMissing, AddOverflows,
           GetCached, GetAbsent, GetMissing, RemoveCached, RemoveAbsent,
           RemoveMissing, Continue, PutEntry, PushOperation, RebuildAborts,
           InstallEntry, InstallAborts, Halted, Die
  <2> QED BY <2>1, RebuildShardCompacts
<1>2. Spec => []AliveCountExact
  BY AliveCountIsExact
<1> QED BY <1>1, <1>2, Invariance, PTL DEF Spec, RebuildCompacts

-----------------------------------------------------------------------------
(***************************************************************************)
(* The effects of the steps are the steps of the map.                      *)
(***************************************************************************)
LEMMA KeptStore ==
  ASSUME AliveFacts, AliveFacts', NEW key \in Key, Keeps(key)
  PROVE  Store'[key] = Store[key]
BY DEF AliveFacts, Keeps

(***************************************************************************)
(* The effect of a step on the keys that are alive is a step of the map.   *)
(***************************************************************************)
LEMMA EffectImplementsMap ==
  ASSUME IInv, IInv', Effect
  PROVE  [Map!Next]_<<Store, result>>
<1>1. AliveFacts /\ AliveFacts'
  BY AliveFactsHold, PTL
<1>2. Store = [key \in Key |-> Store[key]] /\ Store' = [key \in Key |-> Store'[key]]
  BY DEF Store
<1>3. ASSUME NEW key \in Key, NEW value \in Value, AddStep(key, value)
      PROVE  Map!Add(key, value)
  <2>1. Store'[key] = {value}
    BY <1>1, <1>3 DEF AddStep, Binds, AliveFacts
  <2>2. \A other \in Key \ {key} : Store'[other] = Store[other]
    BY <1>1, <1>3, KeptStore DEF AddStep
  <2>3. Store' = [Store EXCEPT ![key] = {value}]
    BY <1>2, <2>1, <2>2
  <2> QED BY <1>3, <2>3 DEF AddStep, Map!Add
<1>4. ASSUME NEW key \in Key, GetStep(key)
      PROVE  Map!Get(key)
  <2>1. \A k \in Key : Store'[k] = Store[k]
    BY <1>1, <1>4, KeptStore DEF GetStep
  <2>2. Store' = Store
    BY <1>2, <2>1
  <2> QED BY <1>4, <2>2 DEF GetStep, Map!Get
<1>5. ASSUME NEW key \in Key, RemoveStep(key)
      PROVE  Map!Remove(key)
  <2>1. Store'[key] = {}
    BY <1>1, <1>5 DEF RemoveStep, Unbinds, AliveFacts
  <2>2. \A other \in Key \ {key} : Store'[other] = Store[other]
    BY <1>1, <1>5, KeptStore DEF RemoveStep
  <2>3. Store' = [Store EXCEPT ![key] = {}]
    BY <1>2, <2>1, <2>2
  <2> QED BY <1>5, <2>3 DEF RemoveStep, Map!Remove
<1>6. CASE InnerStep
  <2>1. \A k \in Key : Store'[k] = Store[k]
    BY <1>1, <1>6, KeptStore DEF InnerStep
  <2>2. Store' = Store
    BY <1>2, <2>1
  <2> QED BY <1>6, <2>2 DEF InnerStep
<1> QED BY <1>3, <1>4, <1>5, <1>6 DEF Effect, Map!Next

(***************************************************************************)
(* A new store is the empty map.                                           *)
(***************************************************************************)
LEMMA InitImplementsMap == Init => Map!Init
<1> SUFFICES ASSUME Init PROVE Map!Init
  OBVIOUS
<1>1. \A key \in Key : ~IsAlive(key)
  <2>1. \A key \in Key : storageHashTable[key].type # "PRESENT"
    BY DEF Init, ShardInit, EMPTY_PTR
  <2> QED BY <2>1, InitIInv, AliveFactsHold DEF AliveFacts
<1> QED BY <1>1 DEF Map!Init, Store, Init

(***************************************************************************)
(* The store is a map: whatever is cached, displaced, pushed, rebuilt or   *)
(* put back in between, a get returns what the last add of its key wrote,  *)
(* and nothing after a remove.  (KVS::add, get, remove.)                   *)
(***************************************************************************)
THEOREM StoreIsAMap == AssertsEnabled => (Spec => ImplementsMap)
<1> SUFFICES ASSUME AssertsEnabled PROVE Spec => ImplementsMap
  OBVIOUS
<1>1. Init => Map!Init
  BY InitImplementsMap
<1>2. IInv /\ IInv' /\ [Next]_vars => [Map!Next]_<<Store, result>>
  BY NextEffect, EffectImplementsMap
<1> QED BY <1>1, <1>2, Invariance, PTL DEF Spec, ImplementsMap, Map!Spec

=============================================================================
