---------------------------- MODULE ShardProofs ----------------------------
(***************************************************************************)
(* What every operation on the shards preserves: the bookkeeping that ties *)
(* the index, the values file and the filter of a shard together.          *)
(***************************************************************************)
EXTENDS ShardBuilder, FiniteSetTheorems, SequenceTheorems, TLAPS

(***************************************************************************)
(* A values file has one record per key of the index, dead ones included,  *)
(* and the index has not overflowed.                                       *)
(***************************************************************************)
IndexBounded ==
  \A shard \in ShardIndex :
    /\ Len(valuesFile[shard]) = Cardinality(IndexedKeys(shard))
    /\ 3 * Cardinality(IndexedKeys(shard)) <= 2 * STORAGE_HASH_TABLE_MAX_SIZE

ShardInv == ShardTypeOK /\ RecordsExact /\ FilterComplete /\ IndexBounded

(***************************************************************************)
(* A pointer is one of the two special ones or points to a value.          *)
(***************************************************************************)
LEMMA PtrCases ==
  ASSUME NEW p \in Ptr
  PROVE  /\ p.index \in 0 .. 127
         /\ p = EMPTY_PTR \/ p = NONEXISTENT \/ PointsToValue(p)
         /\ p = EMPTY_PTR <=> p.type = "EMPTY_PTR"
         /\ p = NONEXISTENT <=> p.type = "NONEXISTENT"
<1>1. CASE p \in [type : {"PRESENT", "DELETED"}, index : 0 .. 127]
  BY <1>1 DEF PointsToValue, EMPTY_PTR, NONEXISTENT
<1>2. CASE p = EMPTY_PTR
  BY <1>2 DEF PointsToValue, EMPTY_PTR, NONEXISTENT
<1>3. CASE p = NONEXISTENT
  BY <1>3 DEF PointsToValue, EMPTY_PTR, NONEXISTENT
<1> QED BY <1>1, <1>2, <1>3 DEF Ptr

LEMMA PtrToType ==
  ASSUME NEW index \in 0 .. 127, NEW isPresent \in BOOLEAN
  PROVE  /\ PtrTo(index, isPresent) \in Ptr
         /\ PtrTo(index, isPresent) # EMPTY_PTR
         /\ PtrTo(index, isPresent) # NONEXISTENT
         /\ PointsToValue(PtrTo(index, isPresent))
         /\ PtrTo(index, isPresent).index = index
BY DEF PtrTo, Ptr, PointsToValue, EMPTY_PTR, NONEXISTENT

(***************************************************************************)
(* The keys of an index can be counted, whatever the index holds.          *)
(***************************************************************************)
LEMMA IndexedKeysFinite ==
  ASSUME NEW shard
  PROVE  IsFiniteSet(IndexedKeys(shard)) /\ Cardinality(IndexedKeys(shard)) \in Nat
<1>1. IndexedKeys(shard) \in SUBSET Key
  BY DEF IndexedKeys, KeysOf
<1>2. IsFiniteSet(IndexedKeys(shard))
  BY <1>1, ShardAssumption, FS_Subset
<1> QED BY <1>2, FS_CardinalityType

(***************************************************************************)
(* An index of at most STORAGE_HASH_TABLE_MAX_SIZE * 2/3 keys leaves every *)
(* record within reach of a Ptr.                                           *)
(***************************************************************************)
LEMMA BoundedIndexFitsPtr == IndexBounded /\ ShardTypeOK => PtrIndexInBounds
<1> SUFFICES ASSUME IndexBounded, ShardTypeOK, NEW shard \in ShardIndex
             PROVE  Len(valuesFile[shard]) <= MAX_PTR_INDEX + 1
  BY DEF PtrIndexInBounds
<1>1. Cardinality(IndexedKeys(shard)) \in Nat
  BY IndexedKeysFinite
<1>2. /\ Len(valuesFile[shard]) = Cardinality(IndexedKeys(shard))
      /\ 3 * Cardinality(IndexedKeys(shard)) <= 2 * STORAGE_HASH_TABLE_MAX_SIZE
  BY DEF IndexBounded
<1> QED
  BY <1>1, <1>2, PtrRangeAssumption, MaxPtrIndexAssumption, ShardAssumption

(***************************************************************************)
(* createShard for every shard.                                            *)
(***************************************************************************)
LEMMA ShardInitInv == ShardInit => ShardInv
<1> SUFFICES ASSUME ShardInit PROVE ShardInv
  OBVIOUS
<1>1. ShardTypeOK
  <2>1. PICK seeds \in [ShardIndex -> SeedVector] :
          filter = [s \in ShardIndex |-> NewFilter(seeds[s])]
    BY DEF ShardInit
  <2>2. filter \in [ShardIndex -> Filter]
    BY <2>1 DEF NewFilter, Filter
  <2>3. \A s \in ShardIndex : valuesFile[s] \in Seq(Value)
    BY EmptySeq DEF ShardInit
  <2> QED BY <2>2, <2>3 DEF ShardInit, ShardTypeOK, Ptr
<1>2. \A shard : IndexedKeys(shard) = {}
  BY DEF ShardInit, IndexedKeys, KeysOf
<1>3. \A shard \in ShardIndex : Len(valuesFile[shard]) = 0
  BY DEF ShardInit
<1>4. RecordsExact
  BY <1>2, <1>3 DEF RecordsExact
<1>5. FilterComplete
  BY DEF ShardInit, FilterComplete
<1>6. IndexBounded
  <2>1. \A shard : Cardinality(IndexedKeys(shard)) = 0
    BY <1>2, FS_EmptySet
  <2>2. 3 * 0 <= 2 * STORAGE_HASH_TABLE_MAX_SIZE
    BY ShardAssumption
  <2> QED BY <2>1, <2>2, <1>3 DEF IndexBounded
<1> QED BY <1>1, <1>4, <1>5, <1>6 DEF ShardInv

(***************************************************************************)
(* Steps that write no new record and lose none: they may overwrite values *)
(* and turn PRESENT into DELETED and back, but every pointer stays where   *)
(* it is.                                                                  *)
(***************************************************************************)
SameRecords ==
  /\ \A shard \in ShardIndex : Len(valuesFile'[shard]) = Len(valuesFile[shard])
  /\ \A key \in Key :
       /\ storageHashTable[key] = EMPTY_PTR <=> storageHashTable'[key] = EMPTY_PTR
       /\ storageHashTable[key] # EMPTY_PTR =>
            /\ PointsToValue(storageHashTable'[key])
            /\ storageHashTable'[key].index = storageHashTable[key].index
  /\ filter' = filter

LEMMA SameRecordsInv ==
  ASSUME ShardInv, ShardTypeOK', SameRecords
  PROVE  ShardInv'
<1>1. \A shard : IndexedKeys(shard)' = IndexedKeys(shard)
  BY DEF SameRecords, IndexedKeys, KeysOf
<1>2. RecordsExact'
  <2> SUFFICES ASSUME NEW shard \in ShardIndex
        PROVE  /\ \A key \in IndexedKeys(shard) :
                    /\ PointsToValue(storageHashTable'[key])
                    /\ storageHashTable'[key].index < Len(valuesFile'[shard])
               /\ \A key, other \in IndexedKeys(shard) :
                    storageHashTable'[key].index = storageHashTable'[other].index
                      => key = other
               /\ \A i \in 1 .. Len(valuesFile'[shard]) :
                    \E key \in IndexedKeys(shard) : storageHashTable'[key].index = i - 1
    BY <1>1 DEF RecordsExact
  <2>1. \A key \in IndexedKeys(shard) :
          /\ PointsToValue(storageHashTable'[key])
          /\ storageHashTable'[key].index = storageHashTable[key].index
    BY DEF SameRecords, IndexedKeys, KeysOf
  <2>2. Len(valuesFile'[shard]) = Len(valuesFile[shard])
    BY DEF SameRecords
  <2> QED BY <2>1, <2>2 DEF ShardInv, RecordsExact
<1>3. FilterComplete'
  BY DEF ShardInv, FilterComplete, SameRecords, FilterHas
<1>4. IndexBounded'
  BY <1>1 DEF ShardInv, IndexBounded, SameRecords
<1> QED BY <1>2, <1>3, <1>4 DEF ShardInv

(***************************************************************************)
(* The counter stays a byte.                                               *)
(***************************************************************************)
LEMMA CounterType ==
  ASSUME aliveValuesCnt \in [ShardIndex -> 0 .. 255], NEW shard \in ShardIndex,
         \/ IncrementAliveValuesCnt(shard)
         \/ DecrementAliveValuesCnt(shard)
         \/ UNCHANGED aliveValuesCnt
  PROVE  aliveValuesCnt' \in [ShardIndex -> 0 .. 255]
<1>1. \A n \in 0 .. 255 : (n + 1) % 256 \in 0 .. 255 /\ (n - 1) % 256 \in 0 .. 255
  OBVIOUS
<1> QED BY <1>1 DEF IncrementAliveValuesCnt, DecrementAliveValuesCnt

(***************************************************************************)
(* writeValueDirectly overwrites one record and moves none.                *)
(***************************************************************************)
LEMMA WriteDirectly ==
  ASSUME ShardInv, NEW key \in Key, NEW ptr, NEW value \in Value,
         storageHashTable[key] # EMPTY_PTR,
         ptr.index = storageHashTable[key].index,
         WriteValueDirectly(key, ptr, value)
  PROVE  /\ valuesFile' \in [ShardIndex -> Seq(Value)]
         /\ \A shard \in ShardIndex : Len(valuesFile'[shard]) = Len(valuesFile[shard])
<1> DEFINE s == ShardOf[key]
           i == ptr.index + 1
<1>1. s \in ShardIndex /\ valuesFile \in [ShardIndex -> Seq(Value)]
  BY ShardAssumption DEF ShardInv, ShardTypeOK
<1>2. key \in IndexedKeys(s)
  BY DEF IndexedKeys, KeysOf
<1>3. i \in 1 .. Len(valuesFile[s])
  <2>1. storageHashTable[key].index < Len(valuesFile[s])
    BY <1>1, <1>2 DEF ShardInv, RecordsExact
  <2>2. storageHashTable[key].index \in 0 .. 127
    BY PtrCases DEF ShardInv, ShardTypeOK
  <2>3. Len(valuesFile[s]) \in Nat
    BY <1>1, LenProperties
  <2> DEFINE j == storageHashTable[key].index
             len == Len(valuesFile[s])
  <2>4. j \in 0 .. 127 /\ len \in Nat /\ j < len /\ i = j + 1
    BY <2>1, <2>2, <2>3
  <2> HIDE DEF i, j, len
  <2>5. i \in 1 .. len
    BY <2>4
  <2> QED BY <2>5 DEF len
<1>4. /\ [valuesFile[s] EXCEPT ![i] = value] \in Seq(Value)
      /\ Len([valuesFile[s] EXCEPT ![i] = value]) = Len(valuesFile[s])
  BY <1>1, <1>3, ExceptSeq
<1>5. valuesFile' = [valuesFile EXCEPT ![s] = [valuesFile[s] EXCEPT ![i] = value]]
  BY <1>1 DEF WriteValueDirectly
<1> HIDE DEF s, i
<1> QED BY <1>1, <1>4, <1>5

LEMMA ReadDirectly ==
  ASSUME ShardInv, NEW key \in Key, NEW ptr,
         storageHashTable[key] # EMPTY_PTR,
         ptr.index = storageHashTable[key].index
  PROVE  ReadValueDirectly(key, ptr) \in Value
<1> DEFINE file == valuesFile[ShardOf[key]]
           j == ptr.index
<1>1. ShardOf[key] \in ShardIndex /\ key \in IndexedKeys(ShardOf[key])
  BY ShardAssumption DEF IndexedKeys, KeysOf
<1>2. file \in Seq(Value) /\ Len(file) \in Nat
  BY <1>1, LenProperties DEF ShardInv, ShardTypeOK
<1>3. j \in 0 .. 127 /\ j < Len(file)
  <2>1. storageHashTable[key].index \in 0 .. 127
    BY PtrCases DEF ShardInv, ShardTypeOK
  <2>2. storageHashTable[key].index < Len(file)
    BY <1>1 DEF ShardInv, RecordsExact
  <2> QED BY <2>1, <2>2
<1>4. ReadValueDirectly(key, ptr) = file[j + 1]
  BY DEF ReadValueDirectly
<1> HIDE DEF file, j
<1>5. j + 1 \in 1 .. Len(file)
  BY <1>2, <1>3
<1> QED BY <1>2, <1>4, <1>5, ElementOfSeq

(***************************************************************************)
(* The three ways to write a value through the index.                      *)
(***************************************************************************)
(***************************************************************************)
(* A record overwritten in place, or a removal that only the cache knows.  *)
(***************************************************************************)
LEMMA SameIndexInv ==
  ASSUME ShardInv, UNCHANGED <<storageHashTable, filter>>,
         valuesFile' \in [ShardIndex -> Seq(Value)],
         \A shard \in ShardIndex : Len(valuesFile'[shard]) = Len(valuesFile[shard]),
         aliveValuesCnt' \in [ShardIndex -> 0 .. 255]
  PROVE  ShardInv'
<1>1. ShardTypeOK'
  BY DEF ShardInv, ShardTypeOK
<1>2. \A k \in Key : storageHashTable[k] # EMPTY_PTR => PointsToValue(storageHashTable[k])
  BY ShardAssumption DEF ShardInv, RecordsExact, IndexedKeys, KeysOf
<1>3. SameRecords
  BY <1>2 DEF SameRecords
<1> QED BY <1>1, <1>3, SameRecordsInv

LEMMA OverwriteValueInv ==
  ASSUME ShardInv, NEW key \in Key, NEW value \in Value, OverwriteValue(key, value)
  PROVE  ShardInv'
<1>1. storageHashTable[key] # EMPTY_PTR
  BY DEF OverwriteValue, EMPTY_PTR
<1>2. /\ valuesFile' \in [ShardIndex -> Seq(Value)]
      /\ \A shard \in ShardIndex : Len(valuesFile'[shard]) = Len(valuesFile[shard])
  BY <1>1, WriteDirectly DEF OverwriteValue
<1> QED BY <1>2, SameIndexInv DEF OverwriteValue, ShardInv, ShardTypeOK

LEMMA ReviveValueInv ==
  ASSUME ShardInv, NEW key \in Key, NEW value \in Value, ReviveValue(key, value)
  PROVE  ShardInv'
<1>1. storageHashTable[key] # EMPTY_PTR /\ storageHashTable[key].type = "DELETED"
  BY DEF ReviveValue, EMPTY_PTR
<1>2. /\ valuesFile' \in [ShardIndex -> Seq(Value)]
      /\ \A shard \in ShardIndex : Len(valuesFile'[shard]) = Len(valuesFile[shard])
  BY <1>1, WriteDirectly DEF ReviveValue
<1>3. storageHashTable' = [storageHashTable EXCEPT ![key] = PtrTo(storageHashTable[key].index, TRUE)]
  BY <1>1 DEF ReviveValue, WriteValuePtr, SetValuePresent
<1>4. aliveValuesCnt' \in [ShardIndex -> 0 .. 255]
  BY CounterType, ShardAssumption DEF ReviveValue, ShardInv, ShardTypeOK
<1>5. storageHashTable[key].index \in 0 .. 127
  BY PtrCases DEF ShardInv, ShardTypeOK
<1>6. PtrTo(storageHashTable[key].index, TRUE) \in Ptr
  BY <1>5, PtrToType
<1>7. ShardTypeOK'
  BY <1>2, <1>3, <1>4, <1>6 DEF ReviveValue, ShardInv, ShardTypeOK
<1>8. \A k \in Key : storageHashTable[k] # EMPTY_PTR => PointsToValue(storageHashTable[k])
  BY ShardAssumption DEF ShardInv, RecordsExact, IndexedKeys, KeysOf
<1>9. SameRecords
  BY <1>1, <1>2, <1>3, <1>8
     DEF ReviveValue, SameRecords, PointsToValue, PtrTo, EMPTY_PTR, ShardInv, ShardTypeOK
<1> QED BY <1>7, <1>9, SameRecordsInv

(***************************************************************************)
(* Marking a present entry of the index as deleted, by whichever removal.  *)
(***************************************************************************)
LEMMA MarkDeletedInv ==
  ASSUME ShardInv, NEW key \in Key, MarkDeleted(key),
         storageHashTable[key].type = "PRESENT",
         aliveValuesCnt' \in [ShardIndex -> 0 .. 255],
         UNCHANGED <<valuesFile, filter>>
  PROVE  ShardInv'
<1>1. storageHashTable' = [storageHashTable EXCEPT ![key] = PtrTo(storageHashTable[key].index, FALSE)]
  BY DEF MarkDeleted, SetValuePresent
<1>2. storageHashTable[key].index \in 0 .. 127
  BY PtrCases DEF ShardInv, ShardTypeOK
<1>3. PtrTo(storageHashTable[key].index, FALSE) \in Ptr
  BY <1>2, PtrToType
<1>4. ShardTypeOK'
  BY <1>1, <1>3 DEF ShardInv, ShardTypeOK
<1>5. \A k \in Key : storageHashTable[k] # EMPTY_PTR => PointsToValue(storageHashTable[k])
  BY ShardAssumption DEF ShardInv, RecordsExact, IndexedKeys, KeysOf
<1>6. SameRecords
  BY <1>1, <1>5
     DEF SameRecords, PointsToValue, PtrTo, EMPTY_PTR, ShardInv, ShardTypeOK
<1> QED BY <1>4, <1>6, SameRecordsInv

LEMMA ShardUnchangedInv ==
  ASSUME ShardInv, UNCHANGED shardVars
  PROVE  ShardInv'
BY DEF shardVars, ShardInv, ShardTypeOK, RecordsExact, FilterComplete, FilterHas,
       IndexBounded, IndexedKeys, KeysOf

LEMMA RemoveEntryInv ==
  ASSUME ShardInv, NEW key \in Key, RemoveEntry(key) \/ PushRemoveEntry(key)
  PROVE  ShardInv'
<1>1. CASE UNCHANGED shardVars
  BY <1>1, ShardUnchangedInv
<1>2. CASE /\ storageHashTable[key].type = "PRESENT"
           /\ MarkDeleted(key)
           /\ DecrementAliveValuesCnt(ShardOf[key]) \/ UNCHANGED aliveValuesCnt
           /\ UNCHANGED <<valuesFile, filter>>
  <2>1. aliveValuesCnt' \in [ShardIndex -> 0 .. 255]
    BY <1>2, CounterType, ShardAssumption DEF ShardInv, ShardTypeOK
  <2> QED BY <1>2, <2>1, MarkDeletedInv
<1> QED BY <1>1, <1>2 DEF RemoveEntry, PushRemoveEntry, FoundPresent

(***************************************************************************)
(* A filter finds the keys added to it, and those it has found before.     *)
(***************************************************************************)
LEMMA AddKeysProperties ==
  ASSUME NEW f \in Filter, NEW keys \in SUBSET Key
  PROVE  /\ AddKeys(f, keys) \in Filter
         /\ \A key \in keys : CheckExist(AddKeys(f, keys), key)
         /\ \A key : CheckExist(f, key) => CheckExist(AddKeys(f, keys), key)
<1> DEFINE g == AddKeys(f, keys)
<1>1. /\ f.seeds \in SeedVector
      /\ f.bits \in SUBSET Bit
  BY DEF Filter
<1>2. /\ g.seeds = f.seeds
      /\ g.bits = f.bits \cup UNION {BitsOf(f.seeds, k) : k \in keys}
      /\ g = [seeds |-> g.seeds, bits |-> g.bits]
  BY DEF AddKeys, Filter
<1>3. \A k \in keys : BitsOf(f.seeds, k) \in SUBSET Bit
  BY <1>1, BloomFilterAssumption DEF BitsOf, SeedVector
<1>4. g.bits \in SUBSET Bit
  BY <1>1, <1>2, <1>3
<1>5. g \in Filter
  BY <1>1, <1>2, <1>4 DEF Filter
<1> QED BY <1>2, <1>5 DEF CheckExist

(***************************************************************************)
(* The arithmetic of the bound: one more key fits the table, so its record *)
(* fits a Ptr.                                                             *)
(***************************************************************************)
LEMMA NextIndexFits ==
  ASSUME NEW n \in Nat, 3 * (n + 1) <= 2 * STORAGE_HASH_TABLE_MAX_SIZE
  PROVE  n \in 0 .. 127
BY PtrRangeAssumption, MaxPtrIndexAssumption, ShardAssumption

(***************************************************************************)
(* A new record takes the index behind the last one, which a Ptr can hold. *)
(***************************************************************************)
LEMMA AppendValueInv ==
  ASSUME ShardInv, NEW key \in Key, NEW value \in Value, AppendValue(key, value),
         ~IndexOverflows(ShardOf[key])
  PROVE  ShardInv'
<1> DEFINE s == ShardOf[key]
           n == Len(valuesFile[s])
<1>1. /\ s \in ShardIndex
      /\ valuesFile \in [ShardIndex -> Seq(Value)]
      /\ storageHashTable \in [Key -> Ptr]
      /\ filter \in [ShardIndex -> Filter]
  BY ShardAssumption DEF ShardInv, ShardTypeOK
<1>2. storageHashTable[key] = EMPTY_PTR /\ key \notin IndexedKeys(s)
  <2>1. storageHashTable[key] \in Ptr /\ storageHashTable[key].type = "EMPTY_PTR"
    BY <1>1 DEF AppendValue
  <2> QED BY <2>1, PtrCases DEF IndexedKeys
<1>3. /\ n = Cardinality(IndexedKeys(s))
      /\ n \in Nat
      /\ 3 * (n + 1) <= 2 * STORAGE_HASH_TABLE_MAX_SIZE
  BY <1>1, IndexedKeysFinite, ShardAssumption DEF ShardInv, IndexBounded, IndexOverflows
<1>4. n \in 0 .. 127
  BY <1>3, NextIndexFits
<1>5. storageHashTable' = [storageHashTable EXCEPT ![key] = PtrTo(n, TRUE)]
  BY <1>2 DEF AppendValue, WriteValuePtr
<1>6. /\ valuesFile' = [valuesFile EXCEPT ![s] = Append(valuesFile[s], value)]
      /\ Append(valuesFile[s], value) \in Seq(Value)
      /\ Len(Append(valuesFile[s], value)) = n + 1
  BY <1>1, AppendProperties DEF AppendValue
<1>7. /\ filter' = [filter EXCEPT ![s] = AddKeys(filter[s], {key})]
      /\ AddKeys(filter[s], {key}) \in Filter
      /\ CheckExist(AddKeys(filter[s], {key}), key)
      /\ \A k : CheckExist(filter[s], k) => CheckExist(AddKeys(filter[s], {key}), k)
  BY <1>1, AddKeysProperties DEF AppendValue
<1>8. /\ PtrTo(n, TRUE) \in Ptr
      /\ PtrTo(n, TRUE) # EMPTY_PTR
      /\ PointsToValue(PtrTo(n, TRUE))
      /\ PtrTo(n, TRUE).index = n
  BY <1>4, PtrToType
<1>9. \A t : IndexedKeys(t)' = IF t = s THEN IndexedKeys(t) \cup {key} ELSE IndexedKeys(t)
  BY <1>1, <1>5, <1>8 DEF IndexedKeys, KeysOf
<1>10. ShardTypeOK'
  <2>1. aliveValuesCnt' \in [ShardIndex -> 0 .. 255]
    BY <1>1, CounterType DEF AppendValue, ShardInv, ShardTypeOK
  <2> QED BY <2>1, <1>1, <1>5, <1>6, <1>7, <1>8 DEF ShardTypeOK
<1>11. RecordsExact'
  <2> SUFFICES ASSUME NEW t \in ShardIndex
        PROVE  /\ \A k \in IndexedKeys(t)' :
                    /\ PointsToValue(storageHashTable'[k])
                    /\ storageHashTable'[k].index < Len(valuesFile'[t])
               /\ \A k, other \in IndexedKeys(t)' :
                    storageHashTable'[k].index = storageHashTable'[other].index
                      => k = other
               /\ \A i \in 1 .. Len(valuesFile'[t]) :
                    \E k \in IndexedKeys(t)' : storageHashTable'[k].index = i - 1
    BY DEF RecordsExact
  <2>0. \A k \in IndexedKeys(t) : PointsToValue(storageHashTable[k])
    BY DEF ShardInv, RecordsExact
  <2>1. /\ \A k \in IndexedKeys(t) :
             /\ storageHashTable[k].index < Len(valuesFile[t])
             /\ storageHashTable[k].index \in 0 .. 127
        /\ \A k, other \in IndexedKeys(t) :
             storageHashTable[k].index = storageHashTable[other].index => k = other
        /\ \A i \in 1 .. Len(valuesFile[t]) :
             \E k \in IndexedKeys(t) : storageHashTable[k].index = i - 1
    BY <1>1, PtrCases DEF ShardInv, RecordsExact, IndexedKeys, KeysOf
  <2>2. \A k \in IndexedKeys(t) : k # key /\ storageHashTable'[k] = storageHashTable[k]
    BY <1>1, <1>2, <1>5 DEF IndexedKeys, KeysOf
  <2>3. CASE t # s
    <3>1. IndexedKeys(t)' = IndexedKeys(t) /\ valuesFile'[t] = valuesFile[t]
      BY <2>3, <1>6, <1>9, <1>1
    <3> QED BY <3>1, <2>0, <2>1, <2>2
  <2>4. CASE t = s
    <3>1. /\ IndexedKeys(t)' = IndexedKeys(t) \cup {key}
          /\ Len(valuesFile'[t]) = n + 1
          /\ Len(valuesFile[t]) = n
          /\ storageHashTable'[key] = PtrTo(n, TRUE)
      BY <2>4, <1>1, <1>5, <1>6, <1>9
    <3>2a. \A k \in IndexedKeys(t)' :
             \/ k = key /\ storageHashTable'[k] = PtrTo(n, TRUE)
             \/ k \in IndexedKeys(t) /\ storageHashTable'[k] = storageHashTable[k]
      BY <3>1, <2>2
    <3> HIDE DEF n, s
    <3>2. \A k \in IndexedKeys(t)' : PointsToValue(storageHashTable'[k])
      BY <3>2a, <2>0, <1>8
    <3>2b. PtrTo(n, TRUE).index = n /\ n \in Nat /\ Len(valuesFile[t]) = n
      BY <3>1, <1>3, <1>8
    <3> DEFINE old(k) == storageHashTable[k].index
               new(k) == storageHashTable'[k].index
    <3>2d. \A k \in IndexedKeys(t)' :
             \/ k = key /\ new(k) = n
             \/ k \in IndexedKeys(t) /\ new(k) = old(k)
      BY <3>2a, <3>2b
    <3>2e. /\ \A k \in IndexedKeys(t) : old(k) \in 0 .. 127 /\ old(k) < n
           /\ \A k, other \in IndexedKeys(t) : old(k) = old(other) => k = other
      BY <2>1, <3>2b
    <3> HIDE DEF old, new
    <3>2c. ASSUME NEW k \in IndexedKeys(t)'
           PROVE  new(k) < n + 1
      <4>0. n \in Nat
        BY <3>2b
      <4>1. CASE k = key /\ new(k) = n
        BY <4>0, <4>1
      <4>2. CASE k \in IndexedKeys(t) /\ new(k) = old(k)
        <5>1. old(k) \in 0 .. 127 /\ old(k) < n
          BY <4>2, <3>2e
        <5> QED BY <4>0, <4>2, <5>1
      <4> QED BY <4>1, <4>2, <3>2d
    <3>3. \A k, other \in IndexedKeys(t)' : new(k) = new(other) => k = other
      BY <3>2b, <3>2d, <3>2e
    <3> USE DEF old, new
    <3>4. \A i \in 1 .. n + 1 :
            \E k \in IndexedKeys(t)' : storageHashTable'[k].index = i - 1
      <4> SUFFICES ASSUME NEW i \in 1 .. n + 1
                   PROVE  \E k \in IndexedKeys(t)' : storageHashTable'[k].index = i - 1
        OBVIOUS
      <4>1. CASE i = n + 1
        <5>1. key \in IndexedKeys(t)' /\ storageHashTable'[key].index = n
          BY <3>1, <1>8
        <5> QED BY <4>1, <5>1, <1>3
      <4>2. CASE i \in 1 .. n
        BY <4>2, <3>1, <2>1, <2>2
      <4> QED BY <4>1, <4>2, <1>3
    <3> QED BY <3>1, <3>2, <3>2c, <3>3, <3>4
  <2> QED BY <2>3, <2>4
<1>12. FilterComplete'
  <2> SUFFICES ASSUME NEW k \in Key, storageHashTable'[k] # EMPTY_PTR
               PROVE  CheckExist(filter'[ShardOf[k]], k)
    BY DEF FilterComplete, FilterHas
  <2>1. ShardOf[k] \in ShardIndex
    BY ShardAssumption
  <2>2. CASE k = key
    BY <2>2, <1>1, <1>7
  <2>3. CASE k # key
    <3>1. CheckExist(filter[ShardOf[k]], k)
      BY <2>3, <1>1, <1>5 DEF ShardInv, FilterComplete, FilterHas
    <3> QED BY <3>1, <2>1, <1>1, <1>7
  <2> QED BY <2>2, <2>3
<1>13. IndexBounded'
  <2> SUFFICES ASSUME NEW t \in ShardIndex
        PROVE  /\ Len(valuesFile'[t]) = Cardinality(IndexedKeys(t)')
               /\ 3 * Cardinality(IndexedKeys(t)') <= 2 * STORAGE_HASH_TABLE_MAX_SIZE
    BY DEF IndexBounded
  <2>1. CASE t = s
    <3>1. Cardinality(IndexedKeys(s) \cup {key}) = Cardinality(IndexedKeys(s)) + 1
      BY <1>2, IndexedKeysFinite, FS_AddElement
    <3> QED BY <3>1, <2>1, <1>1, <1>3, <1>6, <1>9
  <2>2. CASE t # s
    BY <2>2, <1>1, <1>6, <1>9 DEF ShardInv, IndexBounded
  <2> QED BY <2>1, <2>2
<1> QED BY <1>10, <1>11, <1>12, <1>13 DEF ShardInv

LEMMA WriteValueInv ==
  ASSUME ShardInv, NEW key \in Key, NEW value \in Value, WriteValue(key, value),
         storageHashTable[key] = EMPTY_PTR => ~IndexOverflows(ShardOf[key])
  PROVE  ShardInv'
<1>1. CASE AppendValue(key, value)
  <2>1. storageHashTable[key] = EMPTY_PTR
    BY <1>1, PtrCases DEF AppendValue, ShardInv, ShardTypeOK
  <2> QED BY <1>1, <2>1, AppendValueInv
<1> QED BY <1>1, OverwriteValueInv, ReviveValueInv DEF WriteValue

LEMMA WriteValueResult ==
  ASSUME ShardInv, NEW key \in Key, NEW value, WriteValue(key, value)
  PROVE  /\ storageHashTable' = [storageHashTable EXCEPT ![key] = WriteValuePtr(key)]
         /\ WriteValuePtr(key) = PtrTo(WriteValuePtr(key).index, TRUE)
<1>1. WriteValuePtr(key) = PtrTo(WriteValuePtr(key).index, TRUE)
  BY DEF WriteValuePtr, SetValuePresent, PtrTo
<1>2. CASE OverwriteValue(key, value)
  <2>1. /\ storageHashTable \in [Key -> Ptr]
        /\ storageHashTable[key].type = "PRESENT"
        /\ storageHashTable' = storageHashTable
    BY <1>2 DEF OverwriteValue, ShardInv, ShardTypeOK
  <2>2. storageHashTable[key] = PtrTo(storageHashTable[key].index, TRUE)
    BY <2>1 DEF Ptr, PtrTo, EMPTY_PTR, NONEXISTENT
  <2>3. storageHashTable[key] # EMPTY_PTR
    BY <2>1 DEF EMPTY_PTR
  <2> QED BY <1>1, <2>1, <2>2, <2>3 DEF WriteValuePtr, SetValuePresent
<1>3. CASE ReviveValue(key, value) \/ AppendValue(key, value)
  BY <1>1, <1>3 DEF ReviveValue, AppendValue
<1> QED BY <1>2, <1>3 DEF WriteValue

(***************************************************************************)
(* The order in which a rebuild copies the kept keys numbers them without  *)
(* gaps, and RebuiltPtr points each to its number.                         *)
(***************************************************************************)
LEMMA RebuiltPtrProperties ==
  ASSUME NEW keys, IsFiniteSet(keys), Cardinality(keys) <= 126,
         NEW order \in Enumerations(keys)
  PROVE  /\ Cardinality(keys) \in Nat
         /\ order \in [1 .. Cardinality(keys) -> keys]
         /\ \A key \in keys :
              /\ RebuiltPtr(order, key) \in Ptr
              /\ RebuiltPtr(order, key) = PtrTo(RebuiltPtr(order, key).index, TRUE)
              /\ RebuiltPtr(order, key).index + 1 \in 1 .. Cardinality(keys)
              /\ order[RebuiltPtr(order, key).index + 1] = key
         /\ \A i \in 1 .. Cardinality(keys) : RebuiltPtr(order, order[i]).index = i - 1
<1> DEFINE n == Cardinality(keys)
<1>1. n \in Nat
  BY FS_CardinalityType
<1>2. /\ order \in [1 .. n -> keys]
      /\ DOMAIN order = 1 .. n
      /\ \A key \in keys :
           \E i \in 1 .. n :
             order[i] = key /\ \A j \in 1 .. n : order[j] = key => j = i
  BY DEF Enumerations
<1> DEFINE place(key) == CHOOSE i \in 1 .. n : order[i] = key
<1>3. \A key \in keys :
        /\ place(key) \in 1 .. n
        /\ order[place(key)] = key
        /\ \A j \in 1 .. n : order[j] = key => j = place(key)
  BY <1>2
<1>4. \A key : RebuiltPtr(order, key) = PtrTo(place(key) - 1, TRUE)
  BY <1>2 DEF RebuiltPtr
<1> HIDE DEF n, place
<1>5. \A key \in keys : place(key) - 1 \in 0 .. 127 /\ place(key) - 1 + 1 = place(key)
  BY <1>1, <1>3 DEF n
<1>6. \A key \in keys :
        /\ RebuiltPtr(order, key) \in Ptr
        /\ RebuiltPtr(order, key).index = place(key) - 1
  BY <1>4, <1>5, PtrToType
<1>7. \A i \in 1 .. n : order[i] \in keys /\ place(order[i]) = i
  BY <1>2, <1>3
<1>8. \A key \in keys :
        /\ RebuiltPtr(order, key) = PtrTo(RebuiltPtr(order, key).index, TRUE)
        /\ RebuiltPtr(order, key).index + 1 = place(key)
  BY <1>4, <1>5, <1>6
<1>9. \A key \in keys : RebuiltPtr(order, key).index + 1 \in 1 .. n
  BY <1>3, <1>8
<1>10. \A key \in keys : order[RebuiltPtr(order, key).index + 1] = key
  BY <1>3, <1>8
<1>11. \A i \in 1 .. n : RebuiltPtr(order, order[i]).index = i - 1
  BY <1>6, <1>7
<1> QED BY <1>1, <1>2, <1>6, <1>8, <1>9, <1>10, <1>11 DEF n

(***************************************************************************)
(* The index that a rebuild writes.                                        *)
(***************************************************************************)
LEMMA BuildShardIndex ==
  ASSUME ShardInv, NEW shard \in ShardIndex, NEW seeds,
         NEW order \in Enumerations(KeptKeys(shard)),
         BuildShard(shard, order, seeds)
  PROVE  /\ \A key \in KeptKeys(shard) :
              /\ storageHashTable'[key] = RebuiltPtr(order, key)
              /\ RebuiltPtr(order, key) \in Ptr
              /\ RebuiltPtr(order, key) = PtrTo(RebuiltPtr(order, key).index, TRUE)
         /\ \A key \in KeysOf(shard) \ KeptKeys(shard) :
              storageHashTable'[key] = EMPTY_PTR
         /\ \A key \in Key \ KeysOf(shard) :
              storageHashTable'[key] = storageHashTable[key]
<1> DEFINE kept == KeptKeys(shard)
<1>1. kept \subseteq IndexedKeys(shard) /\ kept \subseteq KeysOf(shard) /\ kept \subseteq Key
  BY DEF KeptKeys, IndexedKeys, KeysOf
<1>2. IsFiniteSet(kept) /\ Cardinality(kept) <= 126
  <2>1. /\ IsFiniteSet(kept)
        /\ Cardinality(kept) \in Nat
        /\ Cardinality(kept) <= Cardinality(IndexedKeys(shard))
    BY <1>1, IndexedKeysFinite, FS_Subset, FS_CardinalityType
  <2>2. /\ Cardinality(IndexedKeys(shard)) \in Nat
        /\ 3 * Cardinality(IndexedKeys(shard)) <= 2 * STORAGE_HASH_TABLE_MAX_SIZE
    BY IndexedKeysFinite DEF ShardInv, IndexBounded
  <2> HIDE DEF kept
  <2> QED
    BY <2>1, <2>2, PtrRangeAssumption, MaxPtrIndexAssumption, ShardAssumption
<1>3. storageHashTable' =
        [key \in Key |->
           CASE key \in kept -> RebuiltPtr(order, key)
             [] key \in KeysOf(shard) \ kept -> EMPTY_PTR
             [] OTHER -> storageHashTable[key]]
  BY DEF BuildShard, RebuiltTable
<1>4. \A key \in kept :
        /\ RebuiltPtr(order, key) \in Ptr
        /\ RebuiltPtr(order, key) = PtrTo(RebuiltPtr(order, key).index, TRUE)
  <2>1. IsFiniteSet(kept) /\ Cardinality(kept) <= 126 /\ order \in Enumerations(kept)
    BY <1>2
  <2> HIDE DEF kept
  <2>2. \A key \in kept :
          /\ RebuiltPtr(order, key) \in Ptr
          /\ RebuiltPtr(order, key) = PtrTo(RebuiltPtr(order, key).index, TRUE)
          /\ RebuiltPtr(order, key).index + 1 \in 1 .. Cardinality(kept)
          /\ order[RebuiltPtr(order, key).index + 1] = key
    BY <2>1, RebuiltPtrProperties
  <2> QED BY <2>2
<1>5. \A key \in KeysOf(shard) : key \in Key
  BY DEF KeysOf
<1> QED BY <1>1, <1>3, <1>4, <1>5 DEF kept

LEMMA BuildShardInv ==
  ASSUME ShardInv, NEW shard \in ShardIndex, NEW seeds \in SeedVector,
         NEW order \in Enumerations(KeptKeys(shard)),
         BuildShard(shard, order, seeds)
  PROVE  ShardInv'
<1> DEFINE kept == KeptKeys(shard)
           n == Cardinality(kept)
           index(key) == RebuiltPtr(order, key).index
<1>1. /\ valuesFile \in [ShardIndex -> Seq(Value)]
      /\ storageHashTable \in [Key -> Ptr]
      /\ filter \in [ShardIndex -> Filter]
      /\ aliveValuesCnt \in [ShardIndex -> 0 .. 255]
  BY DEF ShardInv, ShardTypeOK
<1>2. /\ kept \subseteq IndexedKeys(shard)
      /\ kept \subseteq KeysOf(shard)
      /\ kept \subseteq Key
  BY DEF KeptKeys, IndexedKeys, KeysOf
<1>3. IsFiniteSet(kept) /\ n \in Nat /\ n <= Cardinality(IndexedKeys(shard))
  BY <1>2, IndexedKeysFinite, FS_Subset, FS_CardinalityType
<1>4. n <= 126 /\ 3 * n <= 2 * STORAGE_HASH_TABLE_MAX_SIZE
  <2>1. /\ Cardinality(IndexedKeys(shard)) \in Nat
        /\ 3 * Cardinality(IndexedKeys(shard)) <= 2 * STORAGE_HASH_TABLE_MAX_SIZE
    BY IndexedKeysFinite DEF ShardInv, IndexBounded
  <2> HIDE DEF n
  <2> QED
    BY <2>1, <1>3, PtrRangeAssumption, MaxPtrIndexAssumption, ShardAssumption
<1>5. /\ order \in [1 .. n -> kept]
      /\ \A key \in kept :
           /\ RebuiltPtr(order, key) \in Ptr
           /\ RebuiltPtr(order, key) = PtrTo(index(key), TRUE)
           /\ index(key) + 1 \in 1 .. n
           /\ order[index(key) + 1] = key
      /\ \A i \in 1 .. n : index(order[i]) = i - 1
  <2>1. IsFiniteSet(kept) /\ Cardinality(kept) <= 126 /\ order \in Enumerations(kept)
    BY <1>3, <1>4
  <2> HIDE DEF kept
  <2> QED BY <2>1, RebuiltPtrProperties
<1> DEFINE record(i) == ReadValueDirectly(order[i], storageHashTable[order[i]])
<1>6. /\ valuesFile' = [valuesFile EXCEPT ![shard] = [i \in 1 .. n |-> record(i)]]
      /\ storageHashTable' =
           [key \in Key |->
              CASE key \in kept -> RebuiltPtr(order, key)
                [] key \in KeysOf(shard) \ kept -> EMPTY_PTR
                [] OTHER -> storageHashTable[key]]
      /\ aliveValuesCnt' = [aliveValuesCnt EXCEPT ![shard] = n % 256]
      /\ filter' = [filter EXCEPT ![shard] = AddKeys(NewFilter(seeds), kept)]
  BY <1>5 DEF BuildShard, RebuiltTable, CopiedRecords, RebuiltFilter
<1>7. /\ [i \in 1 .. n |-> record(i)] \in Seq(Value)
      /\ Len([i \in 1 .. n |-> record(i)]) = n
  <2>1. ASSUME NEW i \in 1 .. n PROVE record(i) \in Value
    <3>1. order[i] \in Key /\ storageHashTable[order[i]] # EMPTY_PTR
      BY <1>2, <1>5 DEF IndexedKeys
    <3> QED BY <3>1, ReadDirectly
  <2> HIDE DEF n, record
  <2> QED BY <2>1, <1>3
<1>8. /\ \A key \in kept : storageHashTable'[key] = RebuiltPtr(order, key)
      /\ \A key \in KeysOf(shard) \ kept : storageHashTable'[key] = EMPTY_PTR
      /\ \A key \in Key \ KeysOf(shard) : storageHashTable'[key] = storageHashTable[key]
  BY <1>2, <1>6 DEF KeysOf
<1>9. \A key \in kept : /\ RebuiltPtr(order, key) # EMPTY_PTR
                        /\ PointsToValue(RebuiltPtr(order, key))
  BY <1>5 DEF PtrTo, EMPTY_PTR, PointsToValue
<1>10. \A t : IndexedKeys(t)' = IF t = shard THEN kept ELSE IndexedKeys(t)
  <2> HIDE DEF kept
  <2> QED BY <1>2, <1>8, <1>9 DEF IndexedKeys, KeysOf
<1>11. /\ NewFilter(seeds) \in Filter
       /\ AddKeys(NewFilter(seeds), kept) \in Filter
       /\ \A key \in kept : CheckExist(AddKeys(NewFilter(seeds), kept), key)
  <2>1. NewFilter(seeds) \in Filter
    BY DEF NewFilter, Filter
  <2> QED BY <2>1, <1>2, AddKeysProperties
<1> HIDE DEF kept, n, index, record
<1>12. ShardTypeOK'
  <2>1. n % 256 \in 0 .. 255
    BY <1>3
  <2>2. storageHashTable' \in [Key -> Ptr]
    <3>1. \A key \in Key : storageHashTable'[key] \in Ptr
      <4>1. EMPTY_PTR \in Ptr
        BY DEF Ptr
      <4> QED BY <4>1, <1>1, <1>5, <1>8
    <3> QED BY <3>1, <1>6
  <2> QED BY <1>1, <1>6, <1>7, <1>11, <2>1, <2>2 DEF ShardTypeOK
<1>13. RecordsExact'
  <2> SUFFICES ASSUME NEW t \in ShardIndex
        PROVE  /\ \A k \in IndexedKeys(t)' :
                    /\ PointsToValue(storageHashTable'[k])
                    /\ storageHashTable'[k].index < Len(valuesFile'[t])
               /\ \A k, other \in IndexedKeys(t)' :
                    storageHashTable'[k].index = storageHashTable'[other].index
                      => k = other
               /\ \A i \in 1 .. Len(valuesFile'[t]) :
                    \E k \in IndexedKeys(t)' : storageHashTable'[k].index = i - 1
    BY DEF RecordsExact
  <2>1. CASE t # shard
    <3>1. IndexedKeys(t)' = IndexedKeys(t) /\ valuesFile'[t] = valuesFile[t]
      BY <2>1, <1>1, <1>6, <1>10
    <3>2. \A k \in IndexedKeys(t) : storageHashTable'[k] = storageHashTable[k]
      BY <2>1, <1>8 DEF IndexedKeys, KeysOf
    <3> QED BY <3>1, <3>2 DEF ShardInv, RecordsExact
  <2>2. CASE t = shard
    <3>1. IndexedKeys(t)' = kept /\ Len(valuesFile'[t]) = n
      BY <2>2, <1>1, <1>6, <1>7, <1>10
    <3>2. \A k \in kept : storageHashTable'[k].index = index(k)
      BY <1>8 DEF index
    <3>3. \A k \in kept : PointsToValue(storageHashTable'[k])
      BY <1>8, <1>9
    <3>4. \A k \in kept : index(k) < n
      <4> SUFFICES ASSUME NEW k \in kept PROVE index(k) < n
        OBVIOUS
      <4>1. index(k) \in 0 .. 127 /\ index(k) + 1 \in 1 .. n
        BY <1>5, PtrCases DEF index
      <4> QED BY <4>1, <1>3
    <3>5. \A k, other \in kept : index(k) = index(other) => k = other
      BY <1>5
    <3>6. \A i \in 1 .. n : \E k \in kept : index(k) = i - 1
      BY <1>5
    <3> QED BY <3>1, <3>2, <3>3, <3>4, <3>5, <3>6
  <2> QED BY <2>1, <2>2
<1>14. FilterComplete'
  <2> SUFFICES ASSUME NEW k \in Key, storageHashTable'[k] # EMPTY_PTR
               PROVE  CheckExist(filter'[ShardOf[k]], k)
    BY DEF FilterComplete, FilterHas
  <2>1. CASE k \in KeysOf(shard)
    BY <2>1, <1>1, <1>6, <1>8, <1>11 DEF KeysOf
  <2>2. CASE k \notin KeysOf(shard)
    <3>1. filter'[ShardOf[k]] = filter[ShardOf[k]]
      BY <2>2, <1>1, <1>6, ShardAssumption DEF KeysOf
    <3> QED BY <3>1, <2>2, <1>8 DEF ShardInv, FilterComplete, FilterHas
  <2> QED BY <2>1, <2>2
<1>15. IndexBounded'
  <2> SUFFICES ASSUME NEW t \in ShardIndex
        PROVE  /\ Len(valuesFile'[t]) = Cardinality(IndexedKeys(t)')
               /\ 3 * Cardinality(IndexedKeys(t)') <= 2 * STORAGE_HASH_TABLE_MAX_SIZE
    BY DEF IndexBounded
  <2>1. CASE t = shard
    BY <2>1, <1>1, <1>4, <1>6, <1>7, <1>10 DEF n
  <2>2. CASE t # shard
    BY <2>2, <1>1, <1>6, <1>10 DEF ShardInv, IndexBounded
  <2> QED BY <2>1, <2>2
<1> QED BY <1>12, <1>13, <1>14, <1>15 DEF ShardInv

=============================================================================
