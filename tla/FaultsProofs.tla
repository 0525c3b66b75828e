---------------------------- MODULE FaultsProofs ----------------------------
(***************************************************************************)
(* The safety of KVSFaults: what holds after any number of file operations *)
(* have failed, at any place of any call.  Much of what KVSProofs shows of *)
(* working files does not hold any more: records that nobody points to     *)
(* pile up, counters are wrong, a rebuild may leave a shard with one new   *)
(* file and one old file.                                                  *)
(***************************************************************************)
EXTENDS KVSFaults, KVSProofs

(***************************************************************************)
(* The key belongs to a shard whose files fit one another.                 *)
(***************************************************************************)
Whole(key) == ShardOf[key] \notin torn

(***************************************************************************)
(* No index has overflowed, and none holds NONEXISTENT, also in a torn     *)
(* shard: the next rebuild of any shard numbers its records with pointers. *)
(***************************************************************************)
IndexWithinBounds ==
  \A shard \in ShardIndex :
    3 * Cardinality(IndexedKeys(shard)) <= 2 * STORAGE_HASH_TABLE_MAX_SIZE

IndexHoldsValues ==
  \A key \in Key :
    storageHashTable[key] = EMPTY_PTR \/ PointsToValue(storageHashTable[key])

(***************************************************************************)
(* The record that an index has for a key holds a value of that key.       *)
(***************************************************************************)
RecordsOfOwner ==
  \A key \in Key :
    Whole(key) /\ storageHashTable[key] # EMPTY_PTR =>
      ReadValueDirectly(key, storageHashTable[key]) \in ValuesOf(key)

RecordsInv ==
  /\ ShardTypeOK
  /\ IndexWithinBounds
  /\ IndexHoldsValues
  /\ FilterComplete
  /\ RecordsOwned
  /\ RecordsOfOwner

-----------------------------------------------------------------------------
(***************************************************************************)
(* What RecordsInv says of one key.                                        *)
(***************************************************************************)
LEMMA OwnRecord ==
  ASSUME RecordsInv, NEW key \in Key, Whole(key), storageHashTable[key] # EMPTY_PTR
  PROVE  LET file == valuesFile[ShardOf[key]]
             i == storageHashTable[key].index + 1 IN
         /\ i \in 1 .. Len(file)
         /\ file[i] \in ValuesOf(key)
         /\ \A other \in Key :
              ShardOf[other] = ShardOf[key] /\ storageHashTable[other] # EMPTY_PTR /\
              storageHashTable[other].index = storageHashTable[key].index => other = key
<1> DEFINE file == valuesFile[ShardOf[key]]
           j == storageHashTable[key].index
<1>1. ShardOf[key] \in ShardIndex \ torn  BY ShardAssumption DEF Whole
<1>2. key \in IndexedKeys(ShardOf[key])  BY DEF IndexedKeys, KeysOf
<1>3. Len(file) \in Nat /\ j \in 0 .. 127
  BY <1>1, PtrCases, LenProperties DEF RecordsInv, ShardTypeOK
<1>4. j < Len(file)  BY <1>1, <1>2 DEF RecordsInv, RecordsOwned, InFile
<1>5. file[j + 1] \in ValuesOf(key)
  BY DEF RecordsInv, RecordsOfOwner, ReadValueDirectly
<1>6. ASSUME NEW other \in Key, ShardOf[other] = ShardOf[key],
             storageHashTable[other] # EMPTY_PTR,
             storageHashTable[other].index = j
      PROVE  other = key
  <2>1. other \in IndexedKeys(ShardOf[key])  BY <1>6 DEF IndexedKeys, KeysOf
  <2> QED  BY <1>1, <1>2, <1>6, <2>1 DEF RecordsInv, RecordsOwned
<1> HIDE DEF file, j
<1>7. j + 1 \in 1 .. Len(file)  BY <1>3, <1>4
<1> QED  BY <1>5, <1>6, <1>7 DEF file, j

(***************************************************************************)
(* Steps after which the index has the same keys with the same records,    *)
(* and these hold values of their keys: values are overwritten, PRESENT    *)
(* becomes DELETED and back, records that nobody points to are appended,   *)
(* and a filter takes in a key.                                            *)
(***************************************************************************)
LEMMA SameRecordsFaults ==
  ASSUME RecordsInv, ShardTypeOK', torn \subseteq torn',
         \A k \in Key :
           /\ storageHashTable[k] = EMPTY_PTR <=> storageHashTable'[k] = EMPTY_PTR
           /\ storageHashTable[k] # EMPTY_PTR =>
                /\ PointsToValue(storageHashTable'[k])
                /\ storageHashTable'[k].index = storageHashTable[k].index,
         \A shard \in ShardIndex : Len(valuesFile'[shard]) >= Len(valuesFile[shard]),
         \A k \in Key : FilterHas(k) => FilterHas(k)',
         \A k \in Key :
           Whole(k) /\ storageHashTable[k] # EMPTY_PTR =>
             valuesFile'[ShardOf[k]][storageHashTable[k].index + 1] \in ValuesOf(k)
  PROVE  RecordsInv'
<1>1. \A shard : IndexedKeys(shard)' = IndexedKeys(shard)
  BY DEF IndexedKeys, KeysOf
<1>2. IndexWithinBounds'  BY <1>1 DEF RecordsInv, IndexWithinBounds
<1>3. IndexHoldsValues'  BY DEF IndexHoldsValues
<1>4. FilterComplete'  BY DEF RecordsInv, FilterComplete
<1>5. RecordsOwned'
  <2> SUFFICES ASSUME NEW shard \in ShardIndex \ torn',
                      NEW key \in IndexedKeys(shard), NEW other \in IndexedKeys(shard)
               PROVE  /\ PointsToValue(storageHashTable'[key])
                      /\ InFile(key, storageHashTable[key])'
                      /\ storageHashTable'[key].index = storageHashTable'[other].index
                           => key = other
    BY <1>1 DEF RecordsOwned
  <2>1. /\ key \in Key /\ ShardOf[key] = shard /\ storageHashTable[key] # EMPTY_PTR
        /\ other \in Key /\ ShardOf[other] = shard /\ storageHashTable[other] # EMPTY_PTR
    BY DEF IndexedKeys, KeysOf
  <2>2. storageHashTable[key].index < Len(valuesFile[shard])
    BY <2>1 DEF RecordsInv, RecordsOwned, InFile
  <2>3. /\ storageHashTable[key].index \in 0 .. 127
        /\ Len(valuesFile[shard]) \in Nat /\ Len(valuesFile'[shard]) \in Nat
    BY <2>1, PtrCases, LenProperties DEF RecordsInv, ShardTypeOK
  <2>4. Len(valuesFile'[shard]) >= Len(valuesFile[shard])  OBVIOUS
  <2>5. storageHashTable[key].index < Len(valuesFile'[shard])
    <3> DEFINE i == storageHashTable[key].index
               m == Len(valuesFile[shard])
               n == Len(valuesFile'[shard])
    <3>1. i \in 0 .. 127 /\ m \in Nat /\ n \in Nat /\ i < m /\ n >= m
      BY <2>2, <2>3, <2>4
    <3> HIDE DEF i, m, n
    <3>2. i < n  BY <3>1
    <3> QED  BY <3>2 DEF i, n
  <2>6. storageHashTable[key].index = storageHashTable[other].index => key = other
    BY DEF RecordsInv, RecordsOwned
  <2> QED  BY <2>1, <2>5, <2>6 DEF InFile
<1>6. RecordsOfOwner'
  <2> SUFFICES ASSUME NEW key \in Key, Whole(key)', storageHashTable'[key] # EMPTY_PTR
               PROVE  ReadValueDirectly(key, storageHashTable[key])' \in ValuesOf(key)
    BY DEF RecordsOfOwner, ValuesOf
  <2>1. Whole(key) /\ storageHashTable[key] # EMPTY_PTR  BY DEF Whole
  <2> QED  BY <2>1 DEF ReadValueDirectly
<1> QED  BY <1>2, <1>3, <1>4, <1>5, <1>6 DEF RecordsInv

(***************************************************************************)
(* A step that leaves the shards alone.                                    *)
(***************************************************************************)
LEMMA ShardUnchangedFaults ==
  ASSUME RecordsInv, UNCHANGED shardVars, torn \subseteq torn'
  PROVE  RecordsInv'
<1>1. ShardTypeOK'  BY DEF RecordsInv, ShardTypeOK, shardVars
<1>2. \A k \in Key : storageHashTable[k] # EMPTY_PTR => PointsToValue(storageHashTable[k])
  BY DEF RecordsInv, IndexHoldsValues
<1>3. \A shard \in ShardIndex : Len(valuesFile[shard]) \in Nat
  BY LenProperties DEF RecordsInv, ShardTypeOK
<1>4. \A k \in Key :
        Whole(k) /\ storageHashTable[k] # EMPTY_PTR =>
          valuesFile[ShardOf[k]][storageHashTable[k].index + 1] \in ValuesOf(k)
  BY OwnRecord
<1>5. /\ UNCHANGED <<storageHashTable, valuesFile>>
      /\ \A k \in Key : FilterHas(k) => FilterHas(k)'
  BY DEF shardVars, FilterHas
<1>6. \A shard \in ShardIndex : Len(valuesFile'[shard]) >= Len(valuesFile[shard])
  BY <1>3, <1>5
<1> QED  BY <1>1, <1>2, <1>4, <1>5, <1>6, SameRecordsFaults


-----------------------------------------------------------------------------
(***************************************************************************)
(* writeValueDirectly and an append, on a values file of any shape: the    *)
(* records that belong to other keys stay where and what they are.         *)
(***************************************************************************)
LEMMA WriteRecord ==
  ASSUME RecordsInv, NEW key \in Key, NEW ptr \in Ptr, InFile(key, ptr),
         Whole(key) =>
           storageHashTable[key] # EMPTY_PTR /\ storageHashTable[key].index = ptr.index,
         NEW value \in ValuesOf(key), WriteValueDirectly(key, ptr, value)
  PROVE  /\ valuesFile' \in [ShardIndex -> Seq(Value)]
         /\ \A shard \in ShardIndex : Len(valuesFile'[shard]) >= Len(valuesFile[shard])
         /\ \A k \in Key :
              Whole(k) /\ storageHashTable[k] # EMPTY_PTR =>
                valuesFile'[ShardOf[k]][storageHashTable[k].index + 1] \in ValuesOf(k)
<1> DEFINE s == ShardOf[key]
           i == ptr.index + 1
           file == [valuesFile[s] EXCEPT ![i] = value]
<1>1. s \in ShardIndex /\ valuesFile \in [ShardIndex -> Seq(Value)] /\ value \in Value
  BY ShardAssumption DEF RecordsInv, ShardTypeOK, ValuesOf
<1>2. ptr.index \in 0 .. 127 /\ ptr.index < Len(valuesFile[s]) /\ Len(valuesFile[s]) \in Nat
  BY <1>1, PtrCases, LenProperties DEF InFile
<1>3. valuesFile' = [valuesFile EXCEPT ![s] = file]
  BY <1>1 DEF WriteValueDirectly
<1>4. i \in 1 .. Len(valuesFile[s])
  <2>1. \A j \in 0 .. 127, n \in Nat : j < n => j + 1 \in 1 .. n  OBVIOUS
  <2> QED  BY <1>2, <2>1
<1> HIDE DEF i
<1>5. file \in Seq(Value) /\ Len(file) = Len(valuesFile[s])
  BY <1>1, <1>4, ExceptSeq
<1>6. \A j \in 1 .. Len(valuesFile[s]) : file[j] = IF j = i THEN value ELSE valuesFile[s][j]
  BY <1>1, <1>4, ExceptSeq
<1>7. ASSUME NEW k \in Key, Whole(k), storageHashTable[k] # EMPTY_PTR
      PROVE  valuesFile'[ShardOf[k]][storageHashTable[k].index + 1] \in ValuesOf(k)
  <2> DEFINE j == storageHashTable[k].index + 1
  <2>1. /\ j \in 1 .. Len(valuesFile[ShardOf[k]])
        /\ valuesFile[ShardOf[k]][j] \in ValuesOf(k)
        /\ ShardOf[k] \in ShardIndex
    BY <1>7, OwnRecord, ShardAssumption
  <2>2. CASE ShardOf[k] # s
    BY <1>1, <1>3, <2>1, <2>2
  <2>3. CASE k = key
    <3>1. j = i  BY <1>7, <2>3 DEF i
    <3> QED  BY <1>1, <1>3, <1>6, <2>1, <2>3, <3>1
  <2>4. CASE ShardOf[k] = s /\ k # key
    <3>1. Whole(key)  BY <1>7, <2>4 DEF Whole
    <3>2. storageHashTable[key].index # storageHashTable[k].index
      BY <1>7, <2>4, <3>1, OwnRecord
    <3>3. storageHashTable[k].index \in 0 .. 127
      BY PtrCases DEF RecordsInv, ShardTypeOK
    <3>4. j # i
      <4>1. ptr.index # storageHashTable[k].index  BY <3>1, <3>2
      <4>2. \A m, n \in 0 .. 127 : m # n => m + 1 # n + 1  OBVIOUS
      <4> QED  BY <1>2, <3>3, <4>1, <4>2 DEF i
    <3> QED  BY <1>1, <1>3, <1>6, <2>1, <2>4, <3>4
  <2> QED  BY <2>2, <2>3, <2>4
<1>8. valuesFile' \in [ShardIndex -> Seq(Value)]  BY <1>1, <1>3, <1>5
<1>9. ASSUME NEW shard \in ShardIndex
      PROVE  Len(valuesFile'[shard]) >= Len(valuesFile[shard])
  <2>1. Len(valuesFile'[shard]) = Len(valuesFile[shard])  BY <1>1, <1>3, <1>5
  <2>2. Len(valuesFile[shard]) \in Nat  BY <1>1, LenProperties
  <2> QED  BY <2>1, <2>2
<1> QED  BY <1>7, <1>8, <1>9

(***************************************************************************)
(* Storage::append adds one record behind the others.                      *)
(***************************************************************************)
LEMMA AppendRecord ==
  ASSUME RecordsInv, NEW s \in ShardIndex, NEW value \in Value,
         valuesFile' = [valuesFile EXCEPT ![s] = Append(@, value)]
  PROVE  /\ valuesFile' \in [ShardIndex -> Seq(Value)]
         /\ \A shard \in ShardIndex : Len(valuesFile'[shard]) >= Len(valuesFile[shard])
         /\ Len(valuesFile'[s]) = Len(valuesFile[s]) + 1
         /\ valuesFile'[s][Len(valuesFile[s]) + 1] = value
         /\ \A k \in Key :
              Whole(k) /\ storageHashTable[k] # EMPTY_PTR =>
                valuesFile'[ShardOf[k]][storageHashTable[k].index + 1] \in ValuesOf(k)
<1> DEFINE file == Append(valuesFile[s], value)
<1>1. valuesFile \in [ShardIndex -> Seq(Value)]  BY DEF RecordsInv, ShardTypeOK
<1>2. valuesFile' = [valuesFile EXCEPT ![s] = file]  BY <1>1
<1>3. /\ file \in Seq(Value)
      /\ Len(file) = Len(valuesFile[s]) + 1
      /\ file[Len(valuesFile[s]) + 1] = value
      /\ \A j \in 1 .. Len(valuesFile[s]) : file[j] = valuesFile[s][j]
      /\ Len(valuesFile[s]) \in Nat
  BY <1>1, AppendProperties, LenProperties
<1> HIDE DEF file
<1>4. ASSUME NEW k \in Key, Whole(k), storageHashTable[k] # EMPTY_PTR
      PROVE  valuesFile'[ShardOf[k]][storageHashTable[k].index + 1] \in ValuesOf(k)
  <2> DEFINE j == storageHashTable[k].index + 1
  <2>1. /\ j \in 1 .. Len(valuesFile[ShardOf[k]])
        /\ valuesFile[ShardOf[k]][j] \in ValuesOf(k)
        /\ ShardOf[k] \in ShardIndex
    BY <1>4, OwnRecord, ShardAssumption
  <2> HIDE DEF j
  <2>2. valuesFile'[ShardOf[k]][j] = valuesFile[ShardOf[k]][j]
    BY <1>1, <1>2, <1>3, <2>1
  <2> QED  BY <2>1, <2>2 DEF j
<1>5. ASSUME NEW shard \in ShardIndex
      PROVE  Len(valuesFile'[shard]) >= Len(valuesFile[shard])
  <2>1. Len(valuesFile[shard]) \in Nat  BY <1>1, LenProperties
  <2>2. Len(valuesFile'[shard]) = IF shard = s THEN Len(valuesFile[shard]) + 1
                                               ELSE Len(valuesFile[shard])
    BY <1>1, <1>2, <1>3
  <2> QED  BY <2>1, <2>2
<1> QED  BY <1>1, <1>2, <1>3, <1>4, <1>5


(***************************************************************************)
(* A new record, its key in the filter and perhaps in the index: the value *)
(* is appended first, so that the pointer never leads out of the file.     *)
(***************************************************************************)
LEMMA NewRecord ==
  ASSUME RecordsInv, NEW key \in Key, NEW value \in ValuesOf(key),
         storageHashTable[key] = EMPTY_PTR,
         ~IndexOverflows(ShardOf[key]), OffsetFits(ShardOf[key]),
         valuesFile' = [valuesFile EXCEPT ![ShardOf[key]] = Append(@, value)],
         aliveValuesCnt' \in [ShardIndex -> 0 .. 255],
         filter' = [filter EXCEPT ![ShardOf[key]] = AddKeys(@, {key})],
         \/ storageHashTable' = [storageHashTable EXCEPT ![key] = WriteValuePtr(key)]
         \/ UNCHANGED storageHashTable,
         torn \subseteq torn'
  PROVE  RecordsInv'
<1> DEFINE s == ShardOf[key]
           n == Len(valuesFile[s])
<1>1. /\ s \in ShardIndex /\ value \in Value
      /\ valuesFile \in [ShardIndex -> Seq(Value)]
      /\ storageHashTable \in [Key -> Ptr]
      /\ filter \in [ShardIndex -> Filter]
  BY ShardAssumption DEF RecordsInv, ShardTypeOK, ValuesOf
<1>2. /\ valuesFile' \in [ShardIndex -> Seq(Value)]
      /\ \A shard \in ShardIndex : Len(valuesFile'[shard]) >= Len(valuesFile[shard])
      /\ Len(valuesFile'[s]) = n + 1
      /\ valuesFile'[s][n + 1] = value
      /\ \A k \in Key :
           Whole(k) /\ storageHashTable[k] # EMPTY_PTR =>
             valuesFile'[ShardOf[k]][storageHashTable[k].index + 1] \in ValuesOf(k)
  BY <1>1, AppendRecord
<1>3. /\ AddKeys(filter[s], {key}) \in Filter
      /\ CheckExist(AddKeys(filter[s], {key}), key)
      /\ \A k : CheckExist(filter[s], k) => CheckExist(AddKeys(filter[s], {key}), k)
  <2>1. filter[s] \in Filter /\ {key} \in SUBSET Key  BY <1>1
  <2> HIDE DEF s
  <2> QED  BY <2>1, AddKeysProperties
<1>4. /\ filter' \in [ShardIndex -> Filter]
      /\ \A k \in Key : FilterHas(k) => FilterHas(k)'
      /\ FilterHas(key)'
  BY <1>1, <1>3, ShardAssumption DEF FilterHas
<1>5. CASE UNCHANGED storageHashTable
  <2>1. ShardTypeOK'  BY <1>1, <1>2, <1>4, <1>5 DEF ShardTypeOK
  <2>2. \A k \in Key : storageHashTable[k] # EMPTY_PTR => PointsToValue(storageHashTable[k])
    BY DEF RecordsInv, IndexHoldsValues
  <2> QED  BY <1>2, <1>4, <1>5, <2>1, <2>2, SameRecordsFaults
<1>6. CASE storageHashTable' = [storageHashTable EXCEPT ![key] = WriteValuePtr(key)]
  <2>1. n \in Nat /\ n <= MAX_PTR_INDEX
    BY <1>1, LenProperties DEF OffsetFits, IndexFits
  <2>2. n \in 0 .. 127
    <3> HIDE DEF n
    <3> QED  BY <2>1, MaxPtrIndexAssumption
  <2>3. /\ WriteValuePtr(key) = PtrTo(n, TRUE)
        /\ PtrTo(n, TRUE) \in Ptr
        /\ PtrTo(n, TRUE) # EMPTY_PTR
        /\ PointsToValue(PtrTo(n, TRUE))
        /\ PtrTo(n, TRUE).index = n
    BY <2>2, PtrToType DEF WriteValuePtr
  <2>4. /\ storageHashTable' \in [Key -> Ptr]
        /\ storageHashTable'[key] = PtrTo(n, TRUE)
        /\ \A k \in Key \ {key} : storageHashTable'[k] = storageHashTable[k]
    BY <1>1, <1>6, <2>3
  <2>5. \A t : IndexedKeys(t)' = IF t = s THEN IndexedKeys(t) \cup {key} ELSE IndexedKeys(t)
    BY <2>3, <2>4 DEF IndexedKeys, KeysOf
  <2>6. ShardTypeOK'  BY <1>1, <1>2, <1>4, <2>4 DEF ShardTypeOK
  <2>7. IndexWithinBounds'
    <3>1. Cardinality(IndexedKeys(s) \cup {key}) = Cardinality(IndexedKeys(s)) + 1
      BY IndexedKeysFinite, FS_AddElement DEF IndexedKeys
    <3>2. 3 * (Cardinality(IndexedKeys(s)) + 1) <= 2 * STORAGE_HASH_TABLE_MAX_SIZE
      BY IndexedKeysFinite, ShardAssumption DEF IndexOverflows
    <3> QED  BY <2>5, <3>1, <3>2 DEF RecordsInv, IndexWithinBounds
  <2>8. IndexHoldsValues'  BY <2>3, <2>4 DEF RecordsInv, IndexHoldsValues
  <2>9. FilterComplete'
    BY <1>4, <2>4 DEF RecordsInv, FilterComplete
  <2>10. ASSUME NEW k \in Key \ {key}, Whole(k), storageHashTable[k] # EMPTY_PTR,
                ShardOf[k] = s
         PROVE  storageHashTable[k].index \in 0 .. 127 /\ storageHashTable[k].index < n
    <3>1. storageHashTable[k].index \in 0 .. 127
      BY PtrCases DEF RecordsInv, ShardTypeOK
    <3>2. storageHashTable[k].index + 1 \in 1 .. n  BY <2>10, OwnRecord
    <3> DEFINE j == storageHashTable[k].index
    <3> HIDE DEF j, n
    <3>3. j + 1 \in 1 .. n /\ j \in 0 .. 127 /\ n \in Nat  BY <2>1, <3>1, <3>2 DEF j, n
    <3>4. j < n  BY <3>3
    <3> QED  BY <3>1, <3>4 DEF j
  <2>11. RecordsOwned'
    <3> SUFFICES ASSUME NEW shard \in ShardIndex \ torn',
                        NEW k \in IndexedKeys(shard)', NEW other \in IndexedKeys(shard)'
                 PROVE  /\ PointsToValue(storageHashTable'[k])
                        /\ InFile(k, storageHashTable[k])'
                        /\ storageHashTable'[k].index = storageHashTable'[other].index
                             => k = other
      BY DEF RecordsOwned
    <3>1. /\ k \in Key /\ ShardOf[k] = shard /\ storageHashTable'[k] # EMPTY_PTR
          /\ other \in Key /\ ShardOf[other] = shard /\ storageHashTable'[other] # EMPTY_PTR
          /\ Whole(k) /\ Whole(other)
      BY DEF IndexedKeys, KeysOf, Whole
    <3>2. PointsToValue(storageHashTable'[k])  BY <2>8, <3>1 DEF IndexHoldsValues
    <3>3. CASE shard # s
      <4>1. /\ storageHashTable'[k] = storageHashTable[k]
            /\ storageHashTable'[other] = storageHashTable[other]
            /\ k \in IndexedKeys(shard) /\ other \in IndexedKeys(shard)
            /\ valuesFile'[shard] = valuesFile[shard]
        BY <1>1, <2>4, <3>1, <3>3 DEF IndexedKeys, KeysOf
      <4>2. shard \in ShardIndex \ torn  BY <3>1 DEF Whole
      <4>3. /\ storageHashTable[k].index < Len(valuesFile[shard])
            /\ storageHashTable[k].index = storageHashTable[other].index => k = other
        BY <3>1, <4>1, <4>2 DEF RecordsInv, RecordsOwned, InFile
      <4> QED  BY <3>1, <3>2, <4>1, <4>3 DEF InFile
    <3>4. CASE shard = s
      <4> DEFINE index(x) == storageHashTable'[x].index
      <4>1. index(key) = n  BY <2>3, <2>4
      <4>2. \A x \in {k, other} \ {key} :
              index(x) = storageHashTable[x].index /\ index(x) \in 0 .. 127 /\ index(x) < n
        <5>1. TAKE x \in {k, other} \ {key}
        <5>2. /\ x \in Key \ {key} /\ Whole(x) /\ ShardOf[x] = s
              /\ storageHashTable'[x] = storageHashTable[x]
              /\ storageHashTable[x] # EMPTY_PTR
          BY <2>4, <3>1, <3>4
        <5> QED  BY <2>10, <5>2
      <4>3. k # key /\ other # key /\ index(k) = index(other) => k = other
        BY <2>4, <3>1, OwnRecord
      <4> HIDE DEF index, n
      <4>4. index(k) < n + 1
        <5>1. index(k) = n \/ (index(k) \in 0 .. 127 /\ index(k) < n)  BY <4>1, <4>2
        <5>2. n \in Nat  BY <2>1
        <5>3. \A m \in Nat : m < m + 1 /\ \A i \in 0 .. 127 : i < m => i < m + 1
          OBVIOUS
        <5> QED  BY <5>1, <5>2, <5>3
      <4>5. index(k) = index(other) => k = other  BY <2>1, <4>1, <4>2, <4>3
      <4> QED  BY <1>2, <3>1, <3>2, <3>4, <4>4, <4>5 DEF InFile, index
    <3> QED  BY <3>3, <3>4
  <2>12. RecordsOfOwner'
    <3> SUFFICES ASSUME NEW k \in Key, Whole(k)', storageHashTable'[k] # EMPTY_PTR
                 PROVE  ReadValueDirectly(k, storageHashTable[k])' \in ValuesOf(k)
      BY DEF RecordsOfOwner, ValuesOf
    <3>1. CASE k = key
      BY <1>2, <2>3, <2>4, <3>1 DEF ReadValueDirectly
    <3>2. CASE k # key
      BY <1>2, <2>4, <3>2 DEF ReadValueDirectly, Whole
    <3> QED  BY <3>1, <3>2
  <2> QED  BY <2>6, <2>7, <2>8, <2>9, <2>11, <2>12 DEF RecordsInv
<1> QED  BY <1>5, <1>6


-----------------------------------------------------------------------------
(***************************************************************************)
(* The files that a rebuild writes, if it can read the old ones: the kept  *)
(* keys are numbered within the range of a Ptr, though the file that they  *)
(* are copied from may be longer than that.                                *)
(***************************************************************************)
LEMMA RebuiltFiles ==
  ASSUME RecordsInv, NEW shard \in ShardIndex, CanRead(shard),
         NEW order \in Enumerations(KeptKeys(shard))
  PROVE  LET kept == KeptKeys(shard)
             n == Cardinality(kept)
             index(key) == RebuiltPtr(order, key).index
             table == RebuiltTable(shard, order) IN
         /\ kept \subseteq IndexedKeys(shard)
         /\ n \in 0 .. 126 /\ 3 * n <= 2 * STORAGE_HASH_TABLE_MAX_SIZE
         /\ CopiedRecords(order) \in Seq(Value)
         /\ Len(CopiedRecords(order)) = n
         /\ \A key \in kept :
              /\ RebuiltPtr(order, key) \in Ptr
              /\ RebuiltPtr(order, key) = PtrTo(index(key), TRUE)
              /\ index(key) \in 0 .. 127 /\ index(key) < n
              /\ CopiedRecords(order)[index(key) + 1]
                   = ReadValueDirectly(key, storageHashTable[key])
              /\ table[key] = RebuiltPtr(order, key)
         /\ \A key, other \in kept : index(key) = index(other) => key = other
         /\ table \in [Key -> Ptr]
         /\ \A key \in KeysOf(shard) \ kept : table[key] = EMPTY_PTR
         /\ \A key \in Key \ KeysOf(shard) : table[key] = storageHashTable[key]
<1> DEFINE kept == KeptKeys(shard)
           n == Cardinality(kept)
           index(key) == RebuiltPtr(order, key).index
           record(i) == ReadValueDirectly(order[i], storageHashTable[order[i]])
<1>1. /\ kept \subseteq IndexedKeys(shard)
      /\ kept \subseteq KeysOf(shard)
      /\ kept \subseteq Key
  BY DEF KeptKeys, IndexedKeys, KeysOf
<1>2. IsFiniteSet(kept) /\ n \in Nat /\ n <= Cardinality(IndexedKeys(shard))
  BY <1>1, IndexedKeysFinite, FS_Subset, FS_CardinalityType
<1>3. n <= 126 /\ 3 * n <= 2 * STORAGE_HASH_TABLE_MAX_SIZE
  <2>1. /\ Cardinality(IndexedKeys(shard)) \in Nat
        /\ 3 * Cardinality(IndexedKeys(shard)) <= 2 * STORAGE_HASH_TABLE_MAX_SIZE
    BY IndexedKeysFinite DEF RecordsInv, IndexWithinBounds
  <2> HIDE DEF n
  <2> QED
    BY <2>1, <1>2, PtrRangeAssumption, MaxPtrIndexAssumption, ShardAssumption
<1>4. /\ order \in [1 .. n -> kept]
      /\ \A key \in kept :
           /\ RebuiltPtr(order, key) \in Ptr
           /\ RebuiltPtr(order, key) = PtrTo(index(key), TRUE)
           /\ index(key) + 1 \in 1 .. n
           /\ order[index(key) + 1] = key
  <2>1. IsFiniteSet(kept) /\ Cardinality(kept) <= 126 /\ order \in Enumerations(kept)
    BY <1>2, <1>3
  <2> HIDE DEF kept
  <2> QED  BY <2>1, RebuiltPtrProperties
<1>5. CopiedRecords(order) = [i \in 1 .. n |-> record(i)]
  BY <1>4 DEF CopiedRecords
<1>6. \A key \in kept : ReadValueDirectly(key, storageHashTable[key]) \in Value
  <2> SUFFICES ASSUME NEW key \in kept
               PROVE  ReadValueDirectly(key, storageHashTable[key]) \in Value
    OBVIOUS
  <2> DEFINE file == valuesFile[shard]
             j == storageHashTable[key].index
  <2>1. key \in Key /\ ShardOf[key] = shard  BY <1>1 DEF KeysOf
  <2>2. j < Len(file)  BY <2>1 DEF CanRead, InFile
  <2>3. file \in Seq(Value) /\ Len(file) \in Nat /\ j \in 0 .. 127
    BY <2>1, PtrCases, LenProperties DEF RecordsInv, ShardTypeOK
  <2>4. ReadValueDirectly(key, storageHashTable[key]) = file[j + 1]
    BY <2>1 DEF ReadValueDirectly
  <2> HIDE DEF file, j
  <2>5. j + 1 \in 1 .. Len(file)  BY <2>2, <2>3
  <2> QED  BY <2>3, <2>4, <2>5, ElementOfSeq
<1>7. /\ CopiedRecords(order) \in Seq(Value)
      /\ Len(CopiedRecords(order)) = n
      /\ \A i \in 1 .. n : CopiedRecords(order)[i] = record(i)
  <2>1. \A i \in 1 .. n : record(i) \in Value  BY <1>4, <1>6
  <2> HIDE DEF n, record
  <2> QED  BY <2>1, <1>2, <1>5
<1>8. \A key \in kept :
        CopiedRecords(order)[index(key) + 1] = ReadValueDirectly(key, storageHashTable[key])
  BY <1>4, <1>7
<1>9. \A key \in kept : index(key) \in 0 .. 127 /\ index(key) < n
  <2> SUFFICES ASSUME NEW key \in kept PROVE index(key) \in 0 .. 127 /\ index(key) < n
    OBVIOUS
  <2>1. index(key) \in 0 .. 127 /\ index(key) + 1 \in 1 .. n  BY <1>4, PtrCases
  <2> HIDE DEF index, n
  <2> QED  BY <2>1, <1>2
<1>10. \A key, other \in kept : index(key) = index(other) => key = other
  BY <1>4
<1> DEFINE table == RebuiltTable(shard, order)
<1>11. /\ \A key \in kept : table[key] = RebuiltPtr(order, key)
       /\ \A key \in KeysOf(shard) \ kept : table[key] = EMPTY_PTR
       /\ \A key \in Key \ KeysOf(shard) : table[key] = storageHashTable[key]
       /\ DOMAIN table = Key
  BY <1>1 DEF RebuiltTable, KeysOf
<1>12. table \in [Key -> Ptr]
  <2>1. EMPTY_PTR \in Ptr /\ storageHashTable \in [Key -> Ptr]
    BY DEF Ptr, RecordsInv, ShardTypeOK
  <2>2. \A key \in Key : table[key] \in Ptr
    BY <1>4, <1>11, <2>1
  <2>3. table = [key \in Key |-> table[key]]  BY DEF RebuiltTable
  <2> HIDE DEF table
  <2> QED  BY <2>2, <2>3
<1>13. n \in 0 .. 126
  <2> HIDE DEF n
  <2> QED  BY <1>2, <1>3
<1> QED
  BY <1>1, <1>3, <1>4, <1>7, <1>8, <1>9, <1>10, <1>11, <1>12, <1>13


(***************************************************************************)
(* Both files of a shard are new: all that belongs to its kept keys is in  *)
(* them, and nothing else.                                                 *)
(***************************************************************************)
LEMMA RebuiltRecords ==
  ASSUME RecordsInv, NEW shard \in ShardIndex, CanRead(shard),
         NEW order \in Enumerations(KeptKeys(shard)),
         valuesFile' = [valuesFile EXCEPT ![shard] = CopiedRecords(order)],
         storageHashTable' = RebuiltTable(shard, order),
         aliveValuesCnt' \in [ShardIndex -> 0 .. 255],
         filter' \in [ShardIndex -> Filter],
         \A key \in KeptKeys(shard) : FilterHas(key)',
         \A key \in Key \ KeysOf(shard) : FilterHas(key) => FilterHas(key)',
         \A key \in KeptKeys(shard) :
           Whole(key)' => ReadValueDirectly(key, storageHashTable[key]) \in ValuesOf(key),
         torn \subseteq torn'
  PROVE  RecordsInv'
<1> DEFINE kept == KeptKeys(shard)
           n == Cardinality(kept)
           index(key) == RebuiltPtr(order, key).index
<1> DEFINE table == RebuiltTable(shard, order)
<1>a. /\ kept \subseteq IndexedKeys(shard)
      /\ n \in 0 .. 126 /\ 3 * n <= 2 * STORAGE_HASH_TABLE_MAX_SIZE
      /\ CopiedRecords(order) \in Seq(Value)
      /\ Len(CopiedRecords(order)) = n
      /\ \A key \in kept :
           /\ RebuiltPtr(order, key) \in Ptr
           /\ RebuiltPtr(order, key) = PtrTo(index(key), TRUE)
           /\ index(key) \in 0 .. 127 /\ index(key) < n
           /\ CopiedRecords(order)[index(key) + 1]
                = ReadValueDirectly(key, storageHashTable[key])
           /\ table[key] = RebuiltPtr(order, key)
      /\ \A key, other \in kept : index(key) = index(other) => key = other
      /\ table \in [Key -> Ptr]
      /\ \A key \in KeysOf(shard) \ kept : table[key] = EMPTY_PTR
      /\ \A key \in Key \ KeysOf(shard) : table[key] = storageHashTable[key]
  BY RebuiltFiles
<1>b. storageHashTable' = table  OBVIOUS
<1> HIDE DEF table
<1>1. /\ kept \subseteq IndexedKeys(shard)
      /\ n \in 0 .. 126 /\ 3 * n <= 2 * STORAGE_HASH_TABLE_MAX_SIZE
      /\ CopiedRecords(order) \in Seq(Value)
      /\ Len(CopiedRecords(order)) = n
      /\ \A key \in kept :
           /\ RebuiltPtr(order, key) \in Ptr
           /\ RebuiltPtr(order, key) = PtrTo(index(key), TRUE)
           /\ index(key) \in 0 .. 127 /\ index(key) < n
           /\ CopiedRecords(order)[index(key) + 1]
                = ReadValueDirectly(key, storageHashTable[key])
           /\ storageHashTable'[key] = RebuiltPtr(order, key)
      /\ \A key, other \in kept : index(key) = index(other) => key = other
      /\ storageHashTable' \in [Key -> Ptr]
      /\ \A key \in KeysOf(shard) \ kept : storageHashTable'[key] = EMPTY_PTR
      /\ \A key \in Key \ KeysOf(shard) : storageHashTable'[key] = storageHashTable[key]
  BY <1>a, <1>b
<1>2. kept \subseteq KeysOf(shard) /\ kept \subseteq Key
  BY <1>1 DEF IndexedKeys, KeysOf
<1>3. /\ valuesFile' \in [ShardIndex -> Seq(Value)]
      /\ valuesFile'[shard] = CopiedRecords(order)
      /\ \A t \in ShardIndex \ {shard} : valuesFile'[t] = valuesFile[t]
  BY <1>1 DEF RecordsInv, ShardTypeOK
<1>4. \A key \in kept : /\ RebuiltPtr(order, key) # EMPTY_PTR
                        /\ PointsToValue(RebuiltPtr(order, key))
  BY <1>1 DEF PtrTo, EMPTY_PTR, PointsToValue
<1> HIDE DEF kept, n, index
<1>5. \A t : IndexedKeys(t)' = IF t = shard THEN kept ELSE IndexedKeys(t)
  <2>1. \A k \in Key :
          storageHashTable'[k] # EMPTY_PTR <=>
            IF k \in KeysOf(shard) THEN k \in kept ELSE storageHashTable[k] # EMPTY_PTR
    BY <1>1, <1>2, <1>4
  <2>2. \A t : IndexedKeys(t)' = {k \in KeysOf(t) : storageHashTable'[k] # EMPTY_PTR}
    BY DEF IndexedKeys, KeysOf
  <2>3. \A t : t # shard => KeysOf(t) \cap KeysOf(shard) = {} /\ KeysOf(t) \subseteq Key
    BY DEF KeysOf
  <2>4. IndexedKeys(shard)' = kept
    BY <1>2, <2>1, <2>2 DEF KeysOf
  <2>5. \A t : t # shard => IndexedKeys(t)' = IndexedKeys(t)
    BY <2>1, <2>2, <2>3 DEF IndexedKeys
  <2> QED  BY <2>4, <2>5
<1>6. ShardTypeOK'  BY <1>1, <1>3 DEF ShardTypeOK
<1>7. IndexWithinBounds'
  BY <1>1, <1>5 DEF RecordsInv, IndexWithinBounds, n
<1>8. IndexHoldsValues'
  <2> SUFFICES ASSUME NEW k \in Key
               PROVE  storageHashTable'[k] = EMPTY_PTR \/ PointsToValue(storageHashTable'[k])
    BY DEF IndexHoldsValues
  <2>1. CASE k \in kept  BY <2>1, <1>1, <1>4
  <2>2. CASE k \in KeysOf(shard) \ kept  BY <2>2, <1>1
  <2>3. CASE k \notin KeysOf(shard)  BY <2>3, <1>1 DEF RecordsInv, IndexHoldsValues
  <2> QED  BY <2>1, <2>2, <2>3
<1>9. FilterComplete'
  <2> SUFFICES ASSUME NEW k \in Key, storageHashTable'[k] # EMPTY_PTR
               PROVE  FilterHas(k)'
    BY DEF FilterComplete
  <2>1. CASE k \in kept  BY <2>1 DEF kept
  <2>2. CASE k \notin KeysOf(shard)  BY <2>2, <1>1 DEF RecordsInv, FilterComplete
  <2> QED  BY <1>1, <2>1, <2>2
<1>10. RecordsOwned'
  <2> SUFFICES ASSUME NEW t \in ShardIndex \ torn',
                      NEW k \in IndexedKeys(t)', NEW other \in IndexedKeys(t)'
               PROVE  /\ PointsToValue(storageHashTable'[k])
                      /\ InFile(k, storageHashTable[k])'
                      /\ storageHashTable'[k].index = storageHashTable'[other].index
                           => k = other
    BY DEF RecordsOwned
  <2>1. CASE t # shard
    <3>1. /\ k \in IndexedKeys(t) /\ other \in IndexedKeys(t) /\ t \in ShardIndex \ torn
          /\ valuesFile'[t] = valuesFile[t]
      BY <2>1, <1>3, <1>5
    <3>2. /\ k \in Key /\ other \in Key /\ ShardOf[k] = t /\ ShardOf[other] = t
          /\ k \notin KeysOf(shard) /\ other \notin KeysOf(shard)
      BY <2>1, <3>1 DEF IndexedKeys, KeysOf
    <3>3. /\ storageHashTable'[k] = storageHashTable[k]
          /\ storageHashTable'[other] = storageHashTable[other]
      BY <1>1, <3>2
    <3>4. /\ PointsToValue(storageHashTable[k])
          /\ storageHashTable[k].index < Len(valuesFile[t])
          /\ storageHashTable[k].index = storageHashTable[other].index => k = other
      BY <3>1, <3>2 DEF RecordsInv, RecordsOwned, InFile
    <3> QED  BY <3>1, <3>2, <3>3, <3>4 DEF InFile
  <2>2. CASE t = shard
    <3>1. /\ k \in kept /\ other \in kept /\ ShardOf[k] = shard
          /\ storageHashTable'[k].index = index(k)
          /\ storageHashTable'[other].index = index(other)
      BY <2>2, <1>1, <1>2, <1>5 DEF index, KeysOf
    <3>2. storageHashTable'[k].index < Len(valuesFile'[ShardOf[k]])
      BY <3>1, <1>1, <1>3 DEF kept, n, index
    <3>3. PointsToValue(storageHashTable'[k])  BY <3>1, <1>1, <1>4 DEF kept
    <3>4. index(k) = index(other) => k = other  BY <3>1, <1>1 DEF kept, index
    <3> QED  BY <3>1, <3>2, <3>3, <3>4 DEF InFile
  <2> QED  BY <2>1, <2>2
<1>11. RecordsOfOwner'
  <2> SUFFICES ASSUME NEW k \in Key, Whole(k)', storageHashTable'[k] # EMPTY_PTR
               PROVE  ReadValueDirectly(k, storageHashTable[k])' \in ValuesOf(k)
    BY DEF RecordsOfOwner, ValuesOf
  <2>1. CASE k \in kept
    <3>1. ShardOf[k] = shard /\ storageHashTable'[k].index = index(k)
      BY <2>1, <1>1, <1>2 DEF index, KeysOf
    <3>2. ReadValueDirectly(k, storageHashTable[k])' = CopiedRecords(order)[index(k) + 1]
      BY <1>3, <3>1 DEF ReadValueDirectly
    <3> QED  BY <1>1, <2>1, <3>2 DEF kept
  <2>2. CASE k \notin KeysOf(shard)
    <3>1. /\ Whole(k) /\ storageHashTable'[k] = storageHashTable[k]
          /\ valuesFile'[ShardOf[k]] = valuesFile[ShardOf[k]]
      BY <2>2, <1>1, <1>3, ShardAssumption DEF Whole, KeysOf
    <3> QED  BY <3>1 DEF RecordsInv, RecordsOfOwner, ReadValueDirectly
  <2> QED  BY <1>1, <2>1, <2>2
<1> QED  BY <1>6, <1>7, <1>8, <1>9, <1>10, <1>11 DEF RecordsInv

(***************************************************************************)
(* The values file is new and the index is old: all that is left of the    *)
(* shard is that its index holds pointers to values and its filter has the *)
(* keys of the index.                                                      *)
(***************************************************************************)
LEMMA TornRecords ==
  ASSUME RecordsInv, NEW shard \in ShardIndex, NEW file \in Seq(Value),
         valuesFile' = [valuesFile EXCEPT ![shard] = file],
         UNCHANGED <<storageHashTable, aliveValuesCnt, filter>>,
         torn' = torn \cup {shard}
  PROVE  RecordsInv'
<1>1. /\ valuesFile' \in [ShardIndex -> Seq(Value)]
      /\ \A t \in ShardIndex \ {shard} : valuesFile'[t] = valuesFile[t]
  BY DEF RecordsInv, ShardTypeOK
<1>2. ShardTypeOK'  BY <1>1 DEF RecordsInv, ShardTypeOK
<1>3. \A t : IndexedKeys(t)' = IndexedKeys(t)  BY DEF IndexedKeys
<1>4. IndexWithinBounds' /\ IndexHoldsValues' /\ FilterComplete'
  BY <1>3 DEF RecordsInv, IndexWithinBounds, IndexHoldsValues, FilterComplete, FilterHas
<1>5. RecordsOwned'
  <2> SUFFICES ASSUME NEW t \in ShardIndex \ torn',
                      NEW k \in IndexedKeys(t), NEW other \in IndexedKeys(t)
               PROVE  /\ PointsToValue(storageHashTable[k])
                      /\ InFile(k, storageHashTable[k])'
                      /\ storageHashTable[k].index = storageHashTable[other].index
                           => k = other
    BY <1>3 DEF RecordsOwned
  <2>1. t \in ShardIndex \ torn /\ t # shard /\ ShardOf[k] = t
    BY DEF IndexedKeys, KeysOf
  <2> QED  BY <1>1, <2>1 DEF RecordsInv, RecordsOwned, InFile
<1>6. RecordsOfOwner'
  <2> SUFFICES ASSUME NEW k \in Key, Whole(k)', storageHashTable[k] # EMPTY_PTR
               PROVE  ReadValueDirectly(k, storageHashTable[k])' \in ValuesOf(k)
    BY DEF RecordsOfOwner, ValuesOf
  <2>1. Whole(k) /\ valuesFile'[ShardOf[k]] = valuesFile[ShardOf[k]]
    BY <1>1, ShardAssumption DEF Whole
  <2> QED  BY <2>1 DEF RecordsInv, RecordsOfOwner, ReadValueDirectly
<1> QED  BY <1>2, <1>4, <1>5, <1>6 DEF RecordsInv


-----------------------------------------------------------------------------
(***************************************************************************)
(* What a pointer in the cache, or on its way into it or out of it, has to *)
(* do with the index: a pointer to a value is right whatever has failed;   *)
(* NONEXISTENT is right unless a call for the key failed since it was last *)
(* settled.                                                                *)
(***************************************************************************)
Agrees(ptr, key) ==
  Whole(key) =>
    /\ PointsToValue(ptr) => storageHashTable[key] = PtrTo(ptr.index, TRUE)
    /\ ptr = NONEXISTENT /\ told[key] # "open" => storageHashTable[key].type # "PRESENT"

CachedInv ==
  /\ \A key \in Key : Agrees(newEntries[key], key)
  /\ \A e \in entry : Agrees(e.ptr, e.key)
  /\ \A d \in displaced : cacheMap[d.key] = EMPTY_PTR => Agrees(d.ptr, d.key)
  /\ \A key \in Key :
       \/ newEntries[key] # EMPTY_PTR
       \/ \E e \in entry : e.key = key
       \/ Agrees(cacheMap[key], key)

FaultVarsOK ==
  /\ lostIndex \subseteq ShardIndex
  /\ ragged \subseteq ShardIndex
  /\ torn \subseteq ShardIndex
  /\ failures \in 0 .. MAX_FAILURES
  /\ told \in [Key -> {"alive", "absent", "open"}]

(***************************************************************************)
(* A rebuild that fails counts its failure by the shard it works on.       *)
(***************************************************************************)
RebuildHasTarget == pc = "rebuild" => target # {}

(***************************************************************************)
(* The inductive invariant.                                                *)
(***************************************************************************)
FaultsInv ==
  /\ TypeOK
  /\ RebuildHasTarget
  /\ FaultVarsOK
  /\ RecordsInv
  /\ PhaseInv
  /\ CachedInv
  /\ AssertsEnabled => AnsweredCallsLast

(***************************************************************************)
(* The same for a key when no part of a call has anything in hand.         *)
(***************************************************************************)
Answered(key, alive) ==
  AssertsEnabled /\ Whole(key) /\ told[key] # "open" => (alive <=> told[key] = "alive")

FoundAlive(key) ==
  \/ cacheMap[key].type = "PRESENT"
  \/ cacheMap[key] = EMPTY_PTR /\ storageHashTable[key].type = "PRESENT"

QuietKey(key) == Agrees(cacheMap[key], key) /\ Answered(key, FoundAlive(key))

NothingInHand == entry = {} /\ displaced = {} /\ newEntries = NoEntries

Quiet == NothingInHand /\ CacheTypeOK /\ \A key \in Key : QuietKey(key)

CallsInv == CachedInv /\ (AssertsEnabled => AnsweredCallsLast)

(***************************************************************************)
(* The pointer that decides about a key, place by place.                   *)
(***************************************************************************)
CurrentPtrRules ==
  \A key \in Key :
    /\ newEntries[key] # EMPTY_PTR => CurrentPtr(key) = newEntries[key]
    /\ \A e \in entry :
         newEntries[key] = EMPTY_PTR /\ e.key = key /\ (\A x \in entry : x = e) =>
           CurrentPtr(key) = e.ptr
    /\ newEntries[key] = EMPTY_PTR /\ (\A e \in entry : e.key # key) =>
         /\ \A d \in displaced :
              d.key = key /\ cacheMap[key] = EMPTY_PTR /\ (\A x \in displaced : x = d) =>
                CurrentPtr(key) = d.ptr
         /\ cacheMap[key] # EMPTY_PTR \/ (\A d \in displaced : d.key # key) =>
              CurrentPtr(key) = cacheMap[key]

(***************************************************************************)
(* CurrentPtr follows these rules in every state.                          *)
(***************************************************************************)
LEMMA CurrentPtrValid == CurrentPtrRules
<1> SUFFICES ASSUME NEW key \in Key PROVE CurrentPtrRules!(key)
  BY DEF CurrentPtrRules
<1> DEFINE incoming == {e \in entry : e.key = key}
           outgoing == {d \in displaced : d.key = key /\ cacheMap[key] = EMPTY_PTR}
<1>1. ASSUME NEW e \in entry, newEntries[key] = EMPTY_PTR, e.key = key,
             \A x \in entry : x = e
      PROVE  CurrentPtr(key) = e.ptr
  <2>1. incoming = {e}  BY <1>1
  <2>2. (CHOOSE x \in incoming : TRUE) = e  BY <2>1
  <2> QED  BY <1>1, <2>1, <2>2 DEF CurrentPtr
<1>2. ASSUME NEW d \in displaced, newEntries[key] = EMPTY_PTR, \A e \in entry : e.key # key,
             d.key = key, cacheMap[key] = EMPTY_PTR, \A x \in displaced : x = d
      PROVE  CurrentPtr(key) = d.ptr
  <2>1. incoming = {} /\ outgoing = {d}  BY <1>2
  <2>2. (CHOOSE x \in outgoing : TRUE) = d  BY <2>1
  <2> QED  BY <1>2, <2>1, <2>2 DEF CurrentPtr
<1>3. ASSUME newEntries[key] = EMPTY_PTR, \A e \in entry : e.key # key,
             cacheMap[key] # EMPTY_PTR \/ (\A d \in displaced : d.key # key)
      PROVE  CurrentPtr(key) = cacheMap[key]
  <2>1. incoming = {} /\ outgoing = {}  BY <1>3
  <2> QED  BY <1>3, <2>1 DEF CurrentPtr
<1>4. newEntries[key] # EMPTY_PTR => CurrentPtr(key) = newEntries[key]
  BY DEF CurrentPtr
<1> QED  BY <1>1, <1>2, <1>3, <1>4

(***************************************************************************)
(* The same before and after a step.                                       *)
(***************************************************************************)
LEMMA CurrentPtrBoth == CurrentPtrRules /\ CurrentPtrRules'
BY CurrentPtrValid, PTL

(***************************************************************************)
(* Between calls the cache decides about a key, and else the index.        *)
(***************************************************************************)
LEMMA QuietCurrent ==
  ASSUME NothingInHand, NEW key \in Key, cacheMap \in [Key -> Ptr]
  PROVE  CurrentPtr(key) = cacheMap[key] /\ (IsAlive(key) <=> FoundAlive(key))
<1>1. CurrentPtr(key) = cacheMap[key]
  BY CurrentPtrValid DEF CurrentPtrRules, NothingInHand, NoEntries
<1>2. cacheMap[key] = EMPTY_PTR => cacheMap[key].type # "PRESENT"  BY DEF EMPTY_PTR
<1> QED  BY <1>1, <1>2 DEF IsAlive, EffectivePtr, FoundAlive

(***************************************************************************)
(* A key that the cache does not know disagrees with nothing.              *)
(***************************************************************************)
LEMMA EmptyAgrees == \A key : Agrees(EMPTY_PTR, key) /\ Agrees(EMPTY_PTR, key)'
BY DEF Agrees, PointsToValue, EMPTY_PTR, NONEXISTENT

(***************************************************************************)
(* Between calls, and when a shard is about to be rebuilt, the invariant   *)
(* speaks of the cache and the index alone.                                *)
(***************************************************************************)
LEMMA QuietEnough == Quiet => CallsInv
<1> SUFFICES ASSUME NothingInHand, CacheTypeOK, \A key \in Key : QuietKey(key)
             PROVE  CachedInv /\ (AssertsEnabled => AnsweredCallsLast)
  BY DEF Quiet, CallsInv
<1>1. CachedInv
  BY EmptyAgrees DEF NothingInHand, NoEntries, QuietKey, CachedInv
<1>2. ASSUME AssertsEnabled PROVE AnsweredCallsLast
  BY <1>2, QuietCurrent DEF CacheTypeOK, QuietKey, Answered, AnsweredCallsLast, Whole
<1> QED  BY <1>1, <1>2

(***************************************************************************)
(* What FaultsInv says between calls and before a rebuild.                 *)
(***************************************************************************)
LEMMA QuietBefore ==
  ASSUME FaultsInv, pc \in {"idle", "rebuild"}
  PROVE  NothingInHand /\ \A key \in Key : QuietKey(key)
<1>1. NothingInHand  BY DEF FaultsInv, PhaseInv, NothingInHand
<1>2. \A key \in Key : Agrees(cacheMap[key], key)
  BY <1>1 DEF FaultsInv, CachedInv, NothingInHand, NoEntries
<1>3. \A key \in Key : Answered(key, FoundAlive(key))
  BY <1>1, QuietCurrent
     DEF FaultsInv, TypeOK, CacheTypeOK, Answered, AnsweredCallsLast, Whole
<1> QED  BY <1>1, <1>2, <1>3 DEF QuietKey

(***************************************************************************)
(* A step that concerns one key leaves what is known of the others.        *)
(***************************************************************************)
LEMMA OtherKeysQuiet ==
  ASSUME NEW key \in Key, \A k \in Key : QuietKey(k), torn \subseteq torn',
         \A k \in Key \ {key} : /\ cacheMap'[k] = cacheMap[k]
                                /\ storageHashTable'[k] = storageHashTable[k]
                                /\ told'[k] = told[k],
         QuietKey(key)'
  PROVE  \A k \in Key : QuietKey(k)'
<1> SUFFICES ASSUME NEW k \in Key \ {key} PROVE QuietKey(k)'
  OBVIOUS
<1>1. QuietKey(k)  OBVIOUS
<1>2. Whole(k)' => Whole(k)  BY DEF Whole
<1> QED  BY <1>1, <1>2 DEF QuietKey, Agrees, Answered, FoundAlive


-----------------------------------------------------------------------------
(***************************************************************************)
(* The ways a part of a call can end: with nothing in hand, with an entry  *)
(* for the cache, or with the death of the process.                        *)
(***************************************************************************)
LEMMA EndQuiet ==
  ASSUME FaultsInv, pc' \in {"idle", "rebuild"}, NothingInHand',
         pc' = "rebuild" =>
           target' # {} /\ \A shard \in target' : IsRebuildRequired(shard)',
         RecordsInv', CacheTypeOK', FaultVarsOK', UNCHANGED failure,
         IsOptional(target, ShardIndex)', IsOptional(result, Value)',
         \A key \in Key : QuietKey(key)'
  PROVE  FaultsInv'
<1>1. TypeOK'
  <2>1. IsOptional({}, Entry) /\ NoEntries \in [Key -> Ptr]
    BY DEF IsOptional, NoEntries, Ptr
  <2> QED  BY <2>1 DEF FaultsInv, TypeOK, RecordsInv, NothingInHand
<1>2. PhaseInv'  BY DEF PhaseInv, NothingInHand
<1>3. CachedInv' /\ (AssertsEnabled => AnsweredCallsLast')
  <2>1. Quiet'  BY DEF Quiet
  <2>2. CallsInv'  BY <2>1, QuietEnough, PTL
  <2> QED  BY <2>2 DEF CallsInv
<1>4. RebuildHasTarget'  BY DEF RebuildHasTarget
<1> QED  BY <1>1, <1>2, <1>3, <1>4 DEF FaultsInv

(***************************************************************************)
(* A call that returns with its work done.                                 *)
(***************************************************************************)
LEMMA EndReturn ==
  ASSUME FaultsInv, pc = "idle", Return,
         RecordsInv', CacheTypeOK', FaultVarsOK', IsOptional(result, Value)',
         \A key \in Key : QuietKey(key)'
  PROVE  FaultsInv'
<1>1. NothingInHand  BY QuietBefore
<1>2. NothingInHand' /\ pc' = "idle"  BY <1>1 DEF NothingInHand, Return, NoEntries
<1>3. IsOptional(target, ShardIndex)'  BY DEF FaultsInv, TypeOK, Return, IsOptional
<1> QED  BY <1>2, <1>3, EndQuiet DEF Return

(***************************************************************************)
(* A call that an exception ends.                                          *)
(***************************************************************************)
LEMMA EndThrow ==
  ASSUME FaultsInv, Throw, RecordsInv', CacheTypeOK', FaultVarsOK',
         \A key \in Key : QuietKey(key)'
  PROVE  FaultsInv'
<1>1. NothingInHand' /\ pc' = "idle"  BY DEF NothingInHand, Throw, NoEntries
<1>2. IsOptional(target, ShardIndex)' /\ IsOptional(result, Value)'
  BY DEF Throw, IsOptional
<1> QED  BY <1>1, <1>2, EndQuiet DEF Throw

(***************************************************************************)
(* A part after which the shard is examined, and perhaps rebuilt.          *)
(***************************************************************************)
LEMMA EndRebuild ==
  ASSUME FaultsInv, pc \in {"idle", "push"}, NEW shard \in ShardIndex,
         ThenRebuildIfRequired(shard),
         UNCHANGED <<entry, newEntries, failure>>, displaced' = {},
         RecordsInv', CacheTypeOK', FaultVarsOK', IsOptional(result, Value)',
         \A key \in Key : QuietKey(key)'
  PROVE  FaultsInv'
<1>1. entry = {} /\ newEntries = NoEntries  BY DEF FaultsInv, PhaseInv
<1>2. NothingInHand'  BY <1>1 DEF NothingInHand, NoEntries
<1>3. /\ pc' \in {"idle", "rebuild"}
      /\ pc' = "rebuild" =>
           target' # {} /\ \A s \in target' : IsRebuildRequired(s)'
      /\ IsOptional(target, ShardIndex)'
  BY DEF ThenRebuildIfRequired, IsOptional, FaultsInv, TypeOK
<1> QED  BY <1>2, <1>3, EndQuiet

(***************************************************************************)
(* A part after which the pointer of the key is put into the cache: the    *)
(* key was not cached with a value, and the pointer agrees with its shard. *)
(***************************************************************************)
LEMMA EndPut ==
  ASSUME FaultsInv, pc = "idle", NEW key \in Key, NEW ptr \in Ptr, ptr # EMPTY_PTR,
         ThenPut(key, ptr), cacheMap[key].type \in {"EMPTY_PTR", "NONEXISTENT"},
         UNCHANGED <<cacheMap, torn>>,
         RecordsInv', FaultVarsOK', IsOptional(result, Value)',
         \A k \in Key \ {key} : /\ storageHashTable'[k] = storageHashTable[k]
                                /\ told'[k] = told[k],
         Agrees(ptr, key)', Answered(key, ptr.type = "PRESENT")'
  PROVE  FaultsInv'
<1>1. NothingInHand /\ \A k \in Key : QuietKey(k)  BY QuietBefore
<1>2. /\ entry' = {[key |-> key, ptr |-> ptr]} /\ displaced' = {}
      /\ newEntries' = NoEntries /\ pc' = "put"
  BY <1>1 DEF ThenPut, NothingInHand
<1>3. \A k \in Key \ {key} : QuietKey(k)'
  <2>1. ASSUME NEW k \in Key \ {key} PROVE QuietKey(k)'
    <3>1. QuietKey(k) /\ (Whole(k)' <=> Whole(k))  BY <1>1 DEF Whole
    <3> QED  BY <3>1 DEF QuietKey, Agrees, Answered, FoundAlive
  <2> QED  BY <2>1
<1>4. TypeOK'
  <2>1. IsOptional(entry, Entry)'  BY <1>2 DEF IsOptional, Entry
  <2> QED  BY <1>2, <2>1 DEF FaultsInv, TypeOK, RecordsInv, ThenPut, CacheTypeOK
<1>5. PhaseInv'  BY <1>2 DEF PhaseInv
<1>6. CachedInv'
  <2>1. \A k \in Key : Agrees(newEntries[k], k)'
    <3>1. \A k \in Key : newEntries'[k] = EMPTY_PTR  BY <1>2 DEF NoEntries
    <3> QED  BY <3>1, EmptyAgrees
  <2>2. \A e \in entry' : Agrees(e.ptr, e.key)'
    <3>1. \A e \in entry' : e.ptr = ptr /\ e.key = key  BY <1>2
    <3> QED  BY <3>1 DEF Agrees
  <2>3. \A k \in Key : (\E e \in entry' : e.key = k) \/ Agrees(cacheMap[k], k)'
    BY <1>2, <1>3 DEF QuietKey
  <2> QED  BY <1>2, <2>1, <2>2, <2>3 DEF CachedInv
<1>7. ASSUME AssertsEnabled PROVE AnsweredCallsLast'
  <2> SUFFICES ASSUME NEW k \in Key, Whole(k)', told'[k] # "open"
               PROVE  IsAlive(k)' <=> told'[k] = "alive"
    BY DEF AnsweredCallsLast, Whole
  <2>1. newEntries'[k] = EMPTY_PTR  BY <1>2 DEF NoEntries
  <2>2. CASE k = key
    <3> DEFINE e == [key |-> key, ptr |-> ptr]
    <3>1. CurrentPtr(k)' = ptr
      <4>1. {x \in entry' : x.key = k} = {e}  BY <1>2, <2>2
      <4>2. (CHOOSE x \in {e} : TRUE) = e /\ e.ptr = ptr  OBVIOUS
      <4> HIDE DEF e
      <4> QED  BY <2>1, <4>1, <4>2 DEF CurrentPtr
    <3> QED  BY <1>7, <2>2, <3>1 DEF IsAlive, EffectivePtr, Answered
  <2>3. CASE k # key
    <3>1. CurrentPtr(k)' = cacheMap'[k]
      <4>1. {x \in entry' : x.key = k} = {}  BY <1>2, <2>3
      <4> QED  BY <1>2, <2>1, <4>1 DEF CurrentPtr
    <3>2. QuietKey(k)'  BY <1>3, <2>3
    <3>3. cacheMap'[k] = EMPTY_PTR => cacheMap'[k].type # "PRESENT"  BY DEF EMPTY_PTR
    <3> QED  BY <1>7, <3>1, <3>2, <3>3 DEF QuietKey, Answered, IsAlive, EffectivePtr, FoundAlive
  <2> QED  BY <2>2, <2>3
<1>8. RebuildHasTarget'  BY <1>2 DEF RebuildHasTarget
<1> QED  BY <1>4, <1>5, <1>6, <1>7, <1>8 DEF FaultsInv

(***************************************************************************)
(* An assert, or an exception in a noexcept function, ends the process.    *)
(***************************************************************************)
LEMMA EndDeath ==
  ASSUME FaultsInv, pc \in {"idle", "rebuild", "install"}, NEW reason, Die(reason),
         reason \in {"shard overflow", "ptr offset", "ptr index", "sync deleted",
                     "rebuild displaced"},
         UNCHANGED faultVars
  PROVE  FaultsInv'
<1>1. entry = {} /\ displaced = {}  BY DEF FaultsInv, PhaseInv
<1>2. FaultVarsOK' /\ RecordsInv'
  <2>1. FaultVarsOK'  BY DEF FaultsInv, FaultVarsOK, faultVars
  <2>2. UNCHANGED shardVars /\ torn' = torn  BY DEF Die, faultVars
  <2> QED  BY <2>1, <2>2, ShardUnchangedFaults DEF FaultsInv
<1>3. TypeOK'  BY <1>2 DEF FaultsInv, RecordsInv, TypeOK, CacheTypeOK, Die
<1>4. PhaseInv'  BY <1>1 DEF FaultsInv, PhaseInv, Die
<1>5. CachedInv'
  BY DEF FaultsInv, CachedInv, Agrees, Whole, Die, shardVars, faultVars
<1>6. AssertsEnabled => AnsweredCallsLast'
  <2>1. UNCHANGED <<cacheMap, storageHashTable, entry, displaced, newEntries, torn, told>>
    BY DEF Die, shardVars, faultVars
  <2>2. \A k \in Key : IsAlive(k)' <=> IsAlive(k)
    BY <2>1 DEF IsAlive, EffectivePtr, CurrentPtr
  <2> QED  BY <2>1, <2>2 DEF FaultsInv, AnsweredCallsLast
<1>7. RebuildHasTarget'  BY DEF RebuildHasTarget, Die
<1> QED  BY <1>2, <1>3, <1>4, <1>5, <1>6, <1>7 DEF FaultsInv

-----------------------------------------------------------------------------
(***************************************************************************)
(* The records of the keys in the index stay, as every write but that of a *)
(* rebuild leaves them.                                                    *)
(***************************************************************************)
FileKept ==
  /\ valuesFile' \in [ShardIndex -> Seq(Value)]
  /\ \A shard \in ShardIndex : Len(valuesFile'[shard]) >= Len(valuesFile[shard])
  /\ \A k \in Key :
       Whole(k) /\ storageHashTable[k] # EMPTY_PTR =>
         valuesFile'[ShardOf[k]][storageHashTable[k].index + 1] \in ValuesOf(k)

(***************************************************************************)
(* No values file is touched.                                              *)
(***************************************************************************)
LEMMA SameFile ==
  ASSUME RecordsInv, UNCHANGED valuesFile
  PROVE  FileKept
<1>1. \A shard \in ShardIndex : Len(valuesFile[shard]) \in Nat
  BY LenProperties DEF RecordsInv, ShardTypeOK
<1>2. \A shard \in ShardIndex : Len(valuesFile'[shard]) >= Len(valuesFile[shard])
  BY <1>1
<1>3. \A k \in Key :
        Whole(k) /\ storageHashTable[k] # EMPTY_PTR =>
          valuesFile[ShardOf[k]][storageHashTable[k].index + 1] \in ValuesOf(k)
  BY OwnRecord
<1>4. valuesFile' \in [ShardIndex -> Seq(Value)]  BY DEF RecordsInv, ShardTypeOK
<1> QED  BY <1>2, <1>3, <1>4 DEF FileKept

(***************************************************************************)
(* At most the presence of one key changes in the index.                   *)
(***************************************************************************)
LEMMA MarkRecord ==
  ASSUME RecordsInv, FileKept, UNCHANGED filter, torn \subseteq torn',
         aliveValuesCnt' \in [ShardIndex -> 0 .. 255],
         NEW key \in Key, NEW isPresent \in BOOLEAN,
         \/ UNCHANGED storageHashTable
         \/ /\ PointsToValue(storageHashTable[key])
            /\ storageHashTable' =
                 [storageHashTable EXCEPT ![key] = PtrTo(@.index, isPresent)]
  PROVE  RecordsInv'
<1>1. /\ storageHashTable \in [Key -> Ptr]
      /\ \A k \in Key : storageHashTable[k] # EMPTY_PTR =>
                          PointsToValue(storageHashTable[k])
  BY DEF RecordsInv, ShardTypeOK, IndexHoldsValues
<1> DEFINE marked == PtrTo(storageHashTable[key].index, isPresent)
<1>2. /\ marked \in Ptr /\ marked # EMPTY_PTR
      /\ PointsToValue(marked) /\ marked.index = storageHashTable[key].index
  BY <1>1, PtrCases, PtrToType
<1>3. PointsToValue(storageHashTable[key]) => storageHashTable[key] # EMPTY_PTR
  BY DEF PointsToValue, EMPTY_PTR
<1>4. /\ storageHashTable' \in [Key -> Ptr]
      /\ \A k \in Key :
           /\ storageHashTable[k] = EMPTY_PTR <=> storageHashTable'[k] = EMPTY_PTR
           /\ storageHashTable[k] # EMPTY_PTR =>
                /\ PointsToValue(storageHashTable'[k])
                /\ storageHashTable'[k].index = storageHashTable[k].index
  <2> HIDE DEF marked
  <2>1. CASE UNCHANGED storageHashTable  BY <1>1, <2>1
  <2>2. CASE /\ PointsToValue(storageHashTable[key])
             /\ storageHashTable' = [storageHashTable EXCEPT ![key] = marked]
    BY <1>1, <1>2, <1>3, <2>2
  <2> QED  BY <2>1, <2>2 DEF marked
<1>5. ShardTypeOK'  BY <1>4 DEF FileKept, RecordsInv, ShardTypeOK
<1>6. \A k \in Key : FilterHas(k) => FilterHas(k)'  BY DEF FilterHas
<1> QED  BY <1>4, <1>5, <1>6, SameRecordsFaults DEF FileKept

(***************************************************************************)
(* A read at a pointer within the file returns a value.                    *)
(***************************************************************************)
LEMMA ReadInFile ==
  ASSUME RecordsInv, NEW key \in Key, NEW ptr \in Ptr, InFile(key, ptr)
  PROVE  ReadValueDirectly(key, ptr) \in Value
<1> DEFINE file == valuesFile[ShardOf[key]]
           j == ptr.index
<1>1. file \in Seq(Value) /\ Len(file) \in Nat /\ j \in 0 .. 127 /\ j < Len(file)
  BY ShardAssumption, PtrCases, LenProperties DEF RecordsInv, ShardTypeOK, InFile
<1>2. ReadValueDirectly(key, ptr) = file[j + 1]  BY DEF ReadValueDirectly
<1> HIDE DEF file, j
<1>3. j + 1 \in 1 .. Len(file)  BY <1>1
<1> QED  BY <1>1, <1>2, <1>3, ElementOfSeq

(***************************************************************************)
(* removeEntry and pushRemoveEntry leave no present entry of the key: the  *)
(* filter does not hide it from them.                                      *)
(***************************************************************************)
LEMMA RemovedRecord ==
  ASSUME RecordsInv, NEW key \in Key, RemoveEntry(key) \/ PushRemoveEntry(key),
         UNCHANGED torn
  PROVE  /\ RecordsInv'
         /\ storageHashTable'[key].type # "PRESENT"
         /\ \A k \in Key \ {key} : storageHashTable'[k] = storageHashTable[k]
<1>1. storageHashTable \in [Key -> Ptr] /\ aliveValuesCnt \in [ShardIndex -> 0 .. 255]
  BY DEF RecordsInv, ShardTypeOK
<1>2. CASE ~FoundPresent(key) /\ UNCHANGED shardVars
  <2>1. RecordsInv'  BY <1>2, ShardUnchangedFaults
  <2>2. storageHashTable[key].type # "PRESENT"
    BY <1>2 DEF FoundPresent, RecordsInv, FilterComplete, EMPTY_PTR
  <2> QED  BY <1>2, <2>1, <2>2 DEF shardVars
<1>3. CASE /\ FoundPresent(key) /\ MarkDeleted(key)
           /\ DecrementAliveValuesCnt(ShardOf[key]) \/ UNCHANGED aliveValuesCnt
           /\ UNCHANGED <<valuesFile, filter>>
  <2>1. aliveValuesCnt' \in [ShardIndex -> 0 .. 255]
    BY <1>1, <1>3, CounterType, ShardAssumption
  <2>2. /\ PointsToValue(storageHashTable[key])
        /\ storageHashTable' = [storageHashTable EXCEPT ![key] = PtrTo(@.index, FALSE)]
    BY <1>3 DEF FoundPresent, PointsToValue, MarkDeleted, SetValuePresent
  <2>3. RecordsInv'  BY <1>3, <2>1, <2>2, SameFile, MarkRecord
  <2>4. /\ storageHashTable'[key] = PtrTo(storageHashTable[key].index, FALSE)
        /\ \A k \in Key \ {key} : storageHashTable'[k] = storageHashTable[k]
    BY <1>1, <2>2
  <2>5. PtrTo(storageHashTable[key].index, FALSE).type # "PRESENT"  BY DEF PtrTo
  <2> QED  BY <2>3, <2>4, <2>5
<1> QED  BY <1>2, <1>3 DEF RemoveEntry, PushRemoveEntry

-----------------------------------------------------------------------------
(***************************************************************************)
(* Calls in which nothing fails.                                           *)
(***************************************************************************)
LEMMA IdleFactsFaults ==
  ASSUME FaultsInv, pc \in {"idle", "rebuild"}, NEW key \in Key
  PROVE  /\ RecordsInv /\ CacheTypeOK /\ FaultVarsOK
         /\ ShardOf[key] \in ShardIndex
         /\ cacheMap \in [Key -> Ptr] /\ cacheMap[key] \in Ptr
         /\ storageHashTable \in [Key -> Ptr] /\ storageHashTable[key] \in Ptr
         /\ aliveValuesCnt \in [ShardIndex -> 0 .. 255]
         /\ NothingInHand
         /\ QuietKey(key) /\ \A k \in Key : QuietKey(k)
         /\ PointsToValue(cacheMap[key]) /\ Whole(key) =>
              /\ storageHashTable[key] = PtrTo(cacheMap[key].index, TRUE)
              /\ storageHashTable[key] # EMPTY_PTR
              /\ storageHashTable[key].index = cacheMap[key].index
<1>1. NothingInHand /\ \A k \in Key : QuietKey(k)  BY QuietBefore
<1>2. PointsToValue(cacheMap[key]) /\ Whole(key) =>
        storageHashTable[key] = PtrTo(cacheMap[key].index, TRUE)
  BY <1>1 DEF QuietKey, Agrees
<1>3. /\ PtrTo(cacheMap[key].index, TRUE) # EMPTY_PTR
      /\ PtrTo(cacheMap[key].index, TRUE).index = cacheMap[key].index
  BY DEF PtrTo, EMPTY_PTR
<1> QED
  BY <1>1, <1>2, <1>3, ShardAssumption
     DEF FaultsInv, TypeOK, CacheTypeOK, RecordsInv, ShardTypeOK

(***************************************************************************)
(* What a step does not touch stays as quiet as it was.                    *)
(***************************************************************************)
LEMMA SameKeyQuiet ==
  ASSUME NEW key \in Key, QuietKey(key), torn \subseteq torn',
         cacheMap'[key] = cacheMap[key],
         storageHashTable'[key] = storageHashTable[key],
         told'[key] \in {told[key], "open"}
  PROVE  QuietKey(key)'
<1>1. Whole(key)' => Whole(key)  BY DEF Whole
<1> QED  BY <1>1 DEF QuietKey, Agrees, Answered, FoundAlive

(***************************************************************************)
(* The client is told of one key.                                          *)
(***************************************************************************)
LEMMA ToldOne ==
  ASSUME FaultVarsOK, NEW key \in Key, NEW word \in {"alive", "absent", "open"},
         told' = [told EXCEPT ![key] = word],
         UNCHANGED <<lostIndex, ragged, torn, failures>>
  PROVE  /\ FaultVarsOK'
         /\ told'[key] = word
         /\ \A k \in Key \ {key} : told'[k] = told[k]
BY DEF FaultVarsOK

(***************************************************************************)
(* A cached key is overwritten in its record, and a lazily removed one     *)
(* comes back in the cache alone: the index never saw it go.               *)
(***************************************************************************)
LEMMA AddHitFaults ==
  ASSUME FaultsInv, NEW key \in Key, NEW value \in ValuesOf(key),
         InFile(key, cacheMap[key]),
         AddCached(key, value) \/ AddDeleted(key, value),
         told' = [told EXCEPT ![key] = "alive"],
         UNCHANGED <<lostIndex, ragged, torn, failures>>
  PROVE  FaultsInv'
<1>1. /\ pc = "idle" /\ Return /\ UNCHANGED <<storageHashTable, filter>>
      /\ PointsToValue(cacheMap[key])
      /\ WriteValueDirectly(key, cacheMap[key], value)
      /\ result' = {}
  BY DEF AddCached, AddDeleted, PointsToValue
<1> DEFINE alive == PtrTo(cacheMap[key].index, TRUE)
<1>2. /\ RecordsInv /\ FaultVarsOK /\ cacheMap \in [Key -> Ptr] /\ cacheMap[key] \in Ptr
      /\ aliveValuesCnt \in [ShardIndex -> 0 .. 255] /\ ShardOf[key] \in ShardIndex
      /\ \A k \in Key : QuietKey(k)
      /\ Whole(key) => /\ storageHashTable[key] = alive
                       /\ storageHashTable[key] # EMPTY_PTR
                       /\ storageHashTable[key].index = cacheMap[key].index
  BY <1>1, IdleFactsFaults
<1>3. alive \in Ptr /\ alive.type = "PRESENT" /\ alive.index = cacheMap[key].index
  BY <1>2, PtrCases, PtrToType DEF PtrTo
<1>4. cacheMap' = [cacheMap EXCEPT ![key] = alive]
  <2>1. CASE AddCached(key, value)
    <3>1. cacheMap[key] = alive
      BY <2>1, <1>2 DEF AddCached, Ptr, PtrTo, EMPTY_PTR, NONEXISTENT
    <3> HIDE DEF alive
    <3> QED  BY <2>1, <1>2, <3>1 DEF AddCached
  <2>2. CASE AddDeleted(key, value)
    BY <2>2 DEF AddDeleted, SetCached, SetValuePresent
  <2> QED  BY <2>1, <2>2
<1> HIDE DEF alive
<1>5. RecordsInv'
  <2>1. FileKept
    BY <1>1, <1>2, WriteRecord DEF FileKept
  <2>2. aliveValuesCnt' \in [ShardIndex -> 0 .. 255]
    BY <1>2, CounterType DEF AddCached, AddDeleted
  <2> QED  BY <1>1, <1>2, <2>1, <2>2, MarkRecord
<1>6. /\ FaultVarsOK' /\ told'[key] = "alive"
      /\ \A k \in Key \ {key} : told'[k] = told[k]
  BY <1>2, ToldOne
<1>7. CacheTypeOK' /\ IsOptional(result, Value)'
  BY <1>1, <1>2, <1>3, <1>4 DEF CacheTypeOK, IsOptional
<1>8. QuietKey(key)'
  <2>1. cacheMap'[key] = alive /\ (Whole(key)' => Whole(key))
    BY <1>2, <1>4 DEF Whole
  <2>2. alive # NONEXISTENT  BY <1>3 DEF NONEXISTENT
  <2> QED  BY <1>1, <1>2, <1>3, <1>6, <2>1, <2>2 DEF QuietKey, Agrees, Answered, FoundAlive, alive
<1>9. \A k \in Key : QuietKey(k)'
  <2>1. \A k \in Key \ {key} : cacheMap'[k] = cacheMap[k]  BY <1>2, <1>4
  <2> QED  BY <1>1, <1>2, <1>6, <1>8, <2>1, OtherKeysQuiet
<1> QED  BY <1>1, <1>5, <1>6, <1>7, <1>9, EndReturn

(***************************************************************************)
(* add: the cache does not know the key to be present or deleted, and      *)
(* writeValue succeeds.                                                    *)
(***************************************************************************)
LEMMA AddMissFaults ==
  ASSUME FaultsInv, NEW key \in Key, NEW value \in ValuesOf(key),
         IF storageHashTable[key] = EMPTY_PTR
           THEN OffsetFits(ShardOf[key])
           ELSE InFile(key, storageHashTable[key]),
         AddMissing(key, value),
         told' = [told EXCEPT ![key] = "alive"],
         UNCHANGED <<lostIndex, ragged, torn, failures>>
  PROVE  FaultsInv'
<1> DEFINE ptr == WriteValuePtr(key)
<1>1. /\ pc = "idle" /\ UNCHANGED cacheMap /\ result' = {}
      /\ cacheMap[key].type \in {"EMPTY_PTR", "NONEXISTENT"}
      /\ ThenPut(key, ptr)
      /\ storageHashTable[key] = EMPTY_PTR => ~IndexOverflows(ShardOf[key])
  BY DEF AddMissing, NeedsNewRecord
<1>2. /\ RecordsInv /\ FaultVarsOK /\ storageHashTable \in [Key -> Ptr]
      /\ storageHashTable[key] \in Ptr
      /\ aliveValuesCnt \in [ShardIndex -> 0 .. 255] /\ ShardOf[key] \in ShardIndex
      /\ valuesFile \in [ShardIndex -> Seq(Value)]
  BY <1>1, IdleFactsFaults DEF RecordsInv, ShardTypeOK
<1>3. /\ FaultVarsOK' /\ told'[key] = "alive"
      /\ \A k \in Key \ {key} : told'[k] = told[k]
  BY <1>2, ToldOne
<1>4. /\ RecordsInv'
      /\ storageHashTable' = [storageHashTable EXCEPT ![key] = ptr]
      /\ ptr \in Ptr /\ ptr = PtrTo(ptr.index, TRUE)
  <2>1. CASE OverwriteValue(key, value) \/ ReviveValue(key, value)
    <3>1. /\ PointsToValue(storageHashTable[key])
          /\ WriteValueDirectly(key, storageHashTable[key], value)
          /\ UNCHANGED filter
      BY <2>1 DEF OverwriteValue, ReviveValue, PointsToValue
    <3>2. storageHashTable[key] # EMPTY_PTR  BY <3>1 DEF PointsToValue, EMPTY_PTR
    <3>3. ptr = PtrTo(storageHashTable[key].index, TRUE) /\ ptr \in Ptr
          /\ ptr.index = storageHashTable[key].index
      BY <1>2, <3>2, PtrCases, PtrToType DEF WriteValuePtr, SetValuePresent
    <3>4. storageHashTable' = [storageHashTable EXCEPT ![key] = ptr]
      <4>1. CASE OverwriteValue(key, value)
        <5>1. /\ storageHashTable[key].type = "PRESENT"
              /\ storageHashTable' = storageHashTable
          BY <4>1 DEF OverwriteValue
        <5>2. storageHashTable[key] = PtrTo(storageHashTable[key].index, TRUE)
          BY <1>2, <5>1 DEF Ptr, PtrTo, EMPTY_PTR, NONEXISTENT
        <5> HIDE DEF ptr
        <5> QED  BY <1>2, <3>3, <5>1, <5>2
      <4>2. CASE ReviveValue(key, value)  BY <4>2 DEF ReviveValue
      <4> QED  BY <2>1, <4>1, <4>2
    <3>5. aliveValuesCnt' \in [ShardIndex -> 0 .. 255]
      BY <1>2, <2>1, CounterType DEF OverwriteValue, ReviveValue
    <3>6. FileKept  BY <1>2, <3>1, <3>2, WriteRecord DEF FileKept
    <3>7. storageHashTable' = [storageHashTable EXCEPT ![key] = PtrTo(@.index, TRUE)]
      BY <3>3, <3>4
    <3>8. RecordsInv'  BY <1>2, <3>1, <3>5, <3>6, <3>7, MarkRecord
    <3> QED  BY <3>3, <3>4, <3>8
  <2>2. CASE AppendValue(key, value)
    <3>1. storageHashTable[key] = EMPTY_PTR
      BY <1>2, <2>2, PtrCases DEF AppendValue
    <3>2. aliveValuesCnt' \in [ShardIndex -> 0 .. 255]
      BY <1>2, <2>2, CounterType DEF AppendValue
    <3>3. RecordsInv'  BY <1>1, <1>2, <2>2, <3>1, <3>2, NewRecord DEF AppendValue
    <3>4. storageHashTable' = [storageHashTable EXCEPT ![key] = ptr]
      BY <2>2 DEF AppendValue
    <3> DEFINE n == Len(valuesFile[ShardOf[key]])
    <3>5. ptr = PtrTo(n, TRUE)  BY <3>1 DEF WriteValuePtr
    <3>6. n \in Nat /\ n <= MAX_PTR_INDEX
      BY <1>2, <3>1, LenProperties DEF OffsetFits, IndexFits
    <3> HIDE DEF n
    <3>7. n \in 0 .. 127  BY <3>6, MaxPtrIndexAssumption
    <3>8. ptr \in Ptr /\ ptr.index = n  BY <3>5, <3>7, PtrToType
    <3> QED  BY <3>3, <3>4, <3>5, <3>8
  <2> QED  BY <2>1, <2>2 DEF AddMissing, WriteValue
<1> HIDE DEF ptr
<1>5. /\ storageHashTable'[key] = ptr
      /\ \A k \in Key \ {key} : storageHashTable'[k] = storageHashTable[k]
  BY <1>2, <1>4
<1>6. ptr.type = "PRESENT" /\ ptr # EMPTY_PTR /\ ptr # NONEXISTENT
  <2>1. \A i : /\ PtrTo(i, TRUE).type = "PRESENT"
               /\ PtrTo(i, TRUE) # EMPTY_PTR /\ PtrTo(i, TRUE) # NONEXISTENT
    BY DEF PtrTo, EMPTY_PTR, NONEXISTENT
  <2> QED  BY <1>4, <2>1
<1>7. PICK p \in Ptr : p = ptr  BY <1>4
<1>8. Agrees(p, key)' /\ Answered(key, p.type = "PRESENT")'
  BY <1>3, <1>4, <1>5, <1>6, <1>7 DEF Agrees, Answered
<1>9. IsOptional(result, Value)'  BY <1>1 DEF IsOptional
<1> QED  BY <1>1, <1>3, <1>4, <1>5, <1>6, <1>7, <1>8, <1>9, EndPut

(***************************************************************************)
(* KVS::add, when every file operation succeeds.                           *)
(***************************************************************************)
LEMMA AddWorksFaults ==
  ASSUME FaultsInv, NEW key \in Key, AddWorks(key)
  PROVE  FaultsInv'
<1>1. PICK value \in ValuesOf(key) :
        \/ InFile(key, cacheMap[key]) /\ (AddCached(key, value) \/ AddDeleted(key, value))
        \/ /\ IndexReadable(ShardOf[key])
           /\ IF storageHashTable[key] = EMPTY_PTR
                THEN OffsetFits(ShardOf[key])
                ELSE InFile(key, storageHashTable[key])
           /\ AddMissing(key, value)
  BY DEF AddWorks
<1>2. told' = [told EXCEPT ![key] = "alive"] /\ UNCHANGED <<lostIndex, ragged, torn, failures>>
  BY DEF AddWorks
<1> QED  BY <1>1, <1>2, AddHitFaults, AddMissFaults

(***************************************************************************)
(* get, answered from the cache or from the index.                         *)
(***************************************************************************)
LEMMA AllQuietKept ==
  ASSUME \A k \in Key : QuietKey(k), torn \subseteq torn',
         UNCHANGED <<cacheMap, storageHashTable, told>>
  PROVE  \A k \in Key : QuietKey(k)'
BY SameKeyQuiet

(***************************************************************************)
(* A get or remove that the cache answers changes no shard.                *)
(***************************************************************************)
LEMMA CachedAnswerFaults ==
  ASSUME FaultsInv, NEW key \in Key, UNCHANGED faultVars,
         \/ InFile(key, cacheMap[key]) /\ GetCached(key)
         \/ GetAbsent(key) \/ RemoveAbsent(key)
  PROVE  FaultsInv'
<1>1. pc = "idle" /\ Return /\ UNCHANGED <<cacheMap, shardVars>>
  BY DEF GetCached, GetAbsent, RemoveAbsent
<1>2. /\ RecordsInv /\ FaultVarsOK /\ CacheTypeOK /\ cacheMap[key] \in Ptr
      /\ \A k \in Key : QuietKey(k)
  BY <1>1, IdleFactsFaults
<1>3. RecordsInv' /\ FaultVarsOK' /\ CacheTypeOK'
  <2>1. torn \subseteq torn'  BY DEF faultVars
  <2> QED  BY <1>1, <1>2, <2>1, ShardUnchangedFaults DEF FaultVarsOK, CacheTypeOK, faultVars
<1>4. IsOptional(result, Value)'
  BY <1>2, ReadInFile DEF GetCached, GetAbsent, RemoveAbsent, IsOptional
<1>5. \A k \in Key : QuietKey(k)'
  BY <1>1, <1>2, AllQuietKept DEF shardVars, faultVars
<1> QED  BY <1>1, <1>3, <1>4, <1>5, EndReturn

(***************************************************************************)
(* get: the shard is asked and its answer is cached.                       *)
(***************************************************************************)
LEMMA GetMissFaults ==
  ASSUME FaultsInv, NEW key \in Key, UNCHANGED faultVars,
         ReadValuePtr(key).type = "PRESENT" => InFile(key, ReadValuePtr(key)),
         GetMissing(key)
  PROVE  FaultsInv'
<1>1. /\ pc = "idle" /\ UNCHANGED <<cacheMap, shardVars>>
      /\ cacheMap[key] = EMPTY_PTR
      /\ result' = ReadValue(key)
      /\ UNCHANGED <<torn, told, storageHashTable>>
  BY DEF GetMissing, shardVars, faultVars
<1>2. /\ RecordsInv /\ FaultVarsOK /\ CacheTypeOK
      /\ storageHashTable[key] \in Ptr /\ EMPTY_PTR \in Ptr /\ NONEXISTENT \in Ptr
      /\ QuietKey(key)
  BY <1>1, IdleFactsFaults DEF Ptr
<1>3. RecordsInv' /\ FaultVarsOK'
  BY <1>1, <1>2, ShardUnchangedFaults DEF FaultVarsOK, faultVars
<1>4. ReadValuePtr(key) \in Ptr  BY <1>2 DEF ReadValuePtr
<1>5. IsOptional(result, Value)'
  BY <1>1, <1>2, <1>4, ReadInFile DEF ReadValue, IsOptional
<1>6. cacheMap[key].type \in {"EMPTY_PTR", "NONEXISTENT"}
      /\ cacheMap[key].type # "PRESENT"
  BY <1>1 DEF EMPTY_PTR
<1>7. Answered(key, storageHashTable[key].type = "PRESENT")
  BY <1>1, <1>2, <1>6 DEF QuietKey, Answered, FoundAlive
<1>8. ASSUME NEW ptr \in Ptr, ptr # EMPTY_PTR, ThenPut(key, ptr),
             ptr.type = "PRESENT" => ptr = storageHashTable[key],
             ptr.type # "PRESENT" => ptr = NONEXISTENT /\
                                     storageHashTable[key].type # "PRESENT"
      PROVE  FaultsInv'
  <2>1. PointsToValue(ptr) => ptr.type = "PRESENT"
    BY <1>8 DEF PointsToValue, NONEXISTENT
  <2>2. ptr.type = "PRESENT" => ptr = PtrTo(ptr.index, TRUE) /\ ptr # NONEXISTENT
    BY DEF Ptr, PtrTo, EMPTY_PTR, NONEXISTENT
  <2>3. Agrees(ptr, key)'  BY <1>1, <1>8, <2>1, <2>2 DEF Agrees
  <2>4. Answered(key, ptr.type = "PRESENT")'
    BY <1>1, <1>7, <1>8 DEF Answered, Whole
  <2> QED  BY <1>1, <1>3, <1>5, <1>6, <1>8, <2>3, <2>4, EndPut
<1>9. CASE ReadValuePtr(key).type = "PRESENT" /\ ThenPut(key, ReadValuePtr(key))
  <2>1. ReadValuePtr(key) = storageHashTable[key] /\ ReadValuePtr(key) # EMPTY_PTR
    BY <1>9 DEF ReadValuePtr, EMPTY_PTR
  <2>2. PICK p \in Ptr : p = ReadValuePtr(key)  BY <1>4
  <2> QED  BY <1>8, <1>9, <2>1, <2>2
<1>10. CASE ReadValuePtr(key).type \in {"EMPTY_PTR", "DELETED"} /\ ThenPut(key, NONEXISTENT)
  <2>1. storageHashTable[key].type # "PRESENT"
    BY <1>2, <1>10 DEF ReadValuePtr, RecordsInv, FilterComplete, EMPTY_PTR
  <2>2. NONEXISTENT # EMPTY_PTR /\ NONEXISTENT.type # "PRESENT"
    BY DEF NONEXISTENT, EMPTY_PTR
  <2> QED  BY <1>2, <1>8, <1>10, <2>1, <2>2
<1> QED  BY <1>9, <1>10 DEF GetMissing

(***************************************************************************)
(* KVS::get, when every file operation succeeds.                           *)
(***************************************************************************)
LEMMA GetWorksFaults ==
  ASSUME FaultsInv, NEW key \in Key, GetWorks(key)
  PROVE  FaultsInv'
BY CachedAnswerFaults, GetMissFaults DEF GetWorks

(***************************************************************************)
(* remove: the index still has a key that is removed in the cache.         *)
(***************************************************************************)
LEMMA RemoveHitFaults ==
  ASSUME FaultsInv, NEW key \in Key, RemoveCached(key),
         told' = [told EXCEPT ![key] = "absent"],
         UNCHANGED <<lostIndex, ragged, torn, failures>>
  PROVE  FaultsInv'
<1>1. /\ pc = "idle" /\ UNCHANGED <<storageHashTable, valuesFile, filter>>
      /\ PointsToValue(cacheMap[key])
      /\ ThenRebuildIfRequired(ShardOf[key])
      /\ DecrementAliveValuesCnt(ShardOf[key])
      /\ UNCHANGED <<entry, displaced, newEntries, failure>>
      /\ result' = {}
  BY DEF RemoveCached, PointsToValue
<1> DEFINE removed == PtrTo(cacheMap[key].index, FALSE)
<1>2. /\ RecordsInv /\ FaultVarsOK /\ cacheMap \in [Key -> Ptr] /\ cacheMap[key] \in Ptr
      /\ aliveValuesCnt \in [ShardIndex -> 0 .. 255] /\ ShardOf[key] \in ShardIndex
      /\ \A k \in Key : QuietKey(k)
      /\ Whole(key) => storageHashTable[key] = PtrTo(cacheMap[key].index, TRUE)
      /\ NothingInHand
  BY <1>1, IdleFactsFaults
<1>3. /\ removed \in Ptr /\ removed.type = "DELETED"
      /\ removed.index = cacheMap[key].index
  BY <1>2, PtrCases, PtrToType DEF PtrTo
<1>4. cacheMap' = [cacheMap EXCEPT ![key] = removed]
  BY DEF RemoveCached, SetCached, SetValuePresent
<1>5. RecordsInv'
  <2>1. aliveValuesCnt' \in [ShardIndex -> 0 .. 255]  BY <1>1, <1>2, CounterType
  <2> QED  BY <1>1, <1>2, <2>1, SameFile, MarkRecord
<1>6. /\ FaultVarsOK' /\ told'[key] = "absent"
      /\ \A k \in Key \ {key} : told'[k] = told[k]
  BY <1>2, ToldOne
<1> HIDE DEF removed
<1>7. CacheTypeOK' /\ IsOptional(result, Value)'
  BY <1>1, <1>2, <1>3, <1>4 DEF CacheTypeOK, IsOptional
<1>8. QuietKey(key)'
  <2>1. cacheMap'[key] = removed /\ (Whole(key)' => Whole(key))
    BY <1>2, <1>4 DEF Whole
  <2>2. removed # NONEXISTENT /\ removed # EMPTY_PTR  BY <1>3 DEF NONEXISTENT, EMPTY_PTR
  <2> QED  BY <1>1, <1>2, <1>3, <1>6, <2>1, <2>2 DEF QuietKey, Agrees, Answered, FoundAlive
<1>9. \A k \in Key : QuietKey(k)'
  <2>1. \A k \in Key \ {key} : cacheMap'[k] = cacheMap[k]  BY <1>2, <1>4
  <2> QED  BY <1>1, <1>2, <1>6, <1>8, <2>1, OtherKeysQuiet
<1>10. displaced' = {}  BY <1>1, <1>2 DEF NothingInHand
<1> QED  BY <1>1, <1>2, <1>5, <1>6, <1>7, <1>9, <1>10, EndRebuild

(***************************************************************************)
(* remove: the index entry is marked and the absence is cached.            *)
(***************************************************************************)
LEMMA RemoveMissFaults ==
  ASSUME FaultsInv, NEW key \in Key, RemoveMissing(key),
         told' = [told EXCEPT ![key] = "absent"],
         UNCHANGED <<lostIndex, ragged, torn, failures>>
  PROVE  FaultsInv'
<1>1. /\ pc = "idle" /\ UNCHANGED cacheMap
      /\ cacheMap[key] = EMPTY_PTR /\ RemoveEntry(key)
      /\ result' = {} /\ ThenPut(key, NONEXISTENT)
  BY DEF RemoveMissing
<1>2. RecordsInv /\ FaultVarsOK  BY <1>1, IdleFactsFaults
<1>3. /\ RecordsInv'
      /\ storageHashTable'[key].type # "PRESENT"
      /\ \A k \in Key \ {key} : storageHashTable'[k] = storageHashTable[k]
  BY <1>1, <1>2, RemovedRecord
<1>4. /\ FaultVarsOK' /\ told'[key] = "absent"
      /\ \A k \in Key \ {key} : told'[k] = told[k]
  BY <1>2, ToldOne
<1>5. /\ NONEXISTENT \in Ptr /\ NONEXISTENT # EMPTY_PTR
      /\ NONEXISTENT.type # "PRESENT" /\ ~PointsToValue(NONEXISTENT)
      /\ EMPTY_PTR.type = "EMPTY_PTR"
  BY DEF Ptr, NONEXISTENT, EMPTY_PTR, PointsToValue
<1>6. Agrees(NONEXISTENT, key)' /\ Answered(key, NONEXISTENT.type = "PRESENT")'
  BY <1>3, <1>4, <1>5 DEF Agrees, Answered, PointsToValue, NONEXISTENT
<1>7. IsOptional(result, Value)'  BY <1>1 DEF IsOptional
<1>8. cacheMap[key].type \in {"EMPTY_PTR", "NONEXISTENT"}  BY <1>1, <1>5
<1> QED  BY <1>1, <1>3, <1>4, <1>5, <1>6, <1>7, <1>8, EndPut

(***************************************************************************)
(* KVS::remove, when every file operation succeeds.                        *)
(***************************************************************************)
LEMMA RemoveWorksFaults ==
  ASSUME FaultsInv, NEW key \in Key, RemoveWorks(key)
  PROVE  FaultsInv'
BY CachedAnswerFaults, RemoveHitFaults, RemoveMissFaults DEF RemoveWorks, faultVars

(***************************************************************************)
(* The process dies, or nothing happens.                                   *)
(***************************************************************************)
LEMMA DeathFaults ==
  ASSUME FaultsInv,
         \/ \E key \in Key : PtrAborts(key) \/ Overflows(key)
         \/ Aborts
  PROVE  FaultsInv'
BY EndDeath DEF PtrAborts, Overflows, AddOverflows, Aborts, RebuildAborts, InstallAborts

(***************************************************************************)
(* A step in which nothing happens.                                        *)
(***************************************************************************)
LEMMA StutterFaults ==
  ASSUME FaultsInv, UNCHANGED <<vars, faultVars>>
  PROVE  FaultsInv'
<1>1. /\ UNCHANGED <<cacheMap, shardVars, pc, entry, displaced, target, newEntries,
                     result, failure>>
      /\ UNCHANGED <<storageHashTable, valuesFile, aliveValuesCnt, filter>>
      /\ UNCHANGED <<lostIndex, ragged, torn, failures, told>>
  BY DEF vars, shardVars, faultVars
<1>2. RecordsInv' /\ FaultVarsOK'
  BY <1>1, ShardUnchangedFaults DEF FaultsInv, FaultVarsOK
<1>3. TypeOK'  BY <1>1, <1>2 DEF FaultsInv, RecordsInv, TypeOK, CacheTypeOK
<1>4. PhaseInv'  BY <1>1 DEF FaultsInv, PhaseInv, IsRebuildRequired
<1>5. CachedInv'  BY <1>1 DEF FaultsInv, CachedInv, Agrees, Whole
<1>6. AssertsEnabled => AnsweredCallsLast'
  <2>1. \A k \in Key : IsAlive(k)' <=> IsAlive(k)
    BY <1>1 DEF IsAlive, EffectivePtr, CurrentPtr
  <2> QED  BY <1>1, <2>1 DEF FaultsInv, AnsweredCallsLast
<1>7. RebuildHasTarget'  BY <1>1 DEF FaultsInv, RebuildHasTarget
<1> QED  BY <1>2, <1>3, <1>4, <1>5, <1>6, <1>7 DEF FaultsInv

-----------------------------------------------------------------------------
(***************************************************************************)
(* Calls that fail.  Of the key in hand nothing is claimed but that its    *)
(* cached pointer, if it points to a value, is still that of the index.    *)
(***************************************************************************)
LEMMA FailureCounted ==
  ASSUME FaultVarsOK, Fault \/ UNCHANGED failures
  PROVE  failures' \in 0 .. MAX_FAILURES
<1>1. failures \in 0 .. MAX_FAILURES /\ MAX_FAILURES \in Nat
  BY FaultsAssumption DEF FaultVarsOK
<1> QED  BY <1>1 DEF Fault

(***************************************************************************)
(* A failed call with the key in hand: whatever it left of that key, the   *)
(* others are as they were, and the client was told that the call failed.  *)
(***************************************************************************)
LEMMA ThrowOpenFaults ==
  ASSUME FaultsInv, pc = "idle", NEW key \in Key, Throw,
         told' = [told EXCEPT ![key] = "open"],
         RecordsInv', CacheTypeOK',
         lostIndex' \subseteq ShardIndex, ragged' \subseteq ShardIndex,
         Fault \/ UNCHANGED failures,
         \A k \in Key \ {key} : /\ cacheMap'[k] = cacheMap[k]
                                /\ storageHashTable'[k] = storageHashTable[k],
         PointsToValue(cacheMap'[key]) /\ Whole(key) =>
           storageHashTable'[key] = PtrTo(cacheMap'[key].index, TRUE)
  PROVE  FaultsInv'
<1>1. FaultVarsOK /\ \A k \in Key : QuietKey(k)  BY IdleFactsFaults
<1>2. /\ FaultVarsOK' /\ told'[key] = "open" /\ torn' = torn
      /\ \A k \in Key \ {key} : told'[k] = told[k]
  BY <1>1, FailureCounted DEF FaultVarsOK, Throw
<1>3. QuietKey(key)'  BY <1>2 DEF QuietKey, Agrees, Answered, Whole
<1>4. \A k \in Key : QuietKey(k)'  BY <1>1, <1>2, <1>3, OtherKeysQuiet
<1> QED  BY <1>2, <1>4, EndThrow

(***************************************************************************)
(* What the failed write of an index leaves.                               *)
(***************************************************************************)
LEMMA IndexWriteLeaves ==
  ASSUME FaultVarsOK, NEW shard \in ShardIndex, NEW newTable,
         IndexWriteFails(shard, newTable)
  PROVE  /\ lostIndex' \subseteq ShardIndex
         /\ UNCHANGED storageHashTable \/ storageHashTable' = newTable
BY DEF FaultVarsOK, IndexWriteFails

(***************************************************************************)
(* writeValueDirectly fails: the record of the key holds its old value or  *)
(* its new one.                                                            *)
(***************************************************************************)
LEMMA OverwriteFailsKeeps ==
  ASSUME RecordsInv, NEW key \in Key, NEW ptr \in Ptr, OverwriteFails(key, ptr),
         Whole(key) =>
           storageHashTable[key] # EMPTY_PTR /\ storageHashTable[key].index = ptr.index,
         UNCHANGED torn
  PROVE  RecordsInv'
<1>1. /\ UNCHANGED valuesFile \/ \E value \in ValuesOf(key) : WriteValueDirectly(key, ptr, value)
      /\ InFile(key, ptr)
      /\ UNCHANGED <<storageHashTable, aliveValuesCnt, filter>>
  BY DEF OverwriteFails
<1>2. aliveValuesCnt' \in [ShardIndex -> 0 .. 255]  BY <1>1 DEF RecordsInv, ShardTypeOK
<1>3. FileKept
  <2>1. ASSUME NEW value \in ValuesOf(key), WriteValueDirectly(key, ptr, value)
        PROVE  FileKept
    BY <1>1, <2>1, WriteRecord DEF FileKept
  <2> QED  BY <1>1, <2>1, SameFile
<1> QED  BY <1>1, <1>2, <1>3, MarkRecord

(***************************************************************************)
(* A failed add changes no index entry but that of its key, and that one   *)
(* only if the cache does not have a pointer to it.                        *)
(***************************************************************************)
LEMMA AddFailsKeeps ==
  ASSUME FaultsInv, NEW key \in Key, AddFails(key)
  PROVE  /\ RecordsInv'
         /\ lostIndex' \subseteq ShardIndex /\ ragged' \subseteq ShardIndex
         /\ Fault \/ UNCHANGED failures
         /\ \A k \in Key \ {key} : storageHashTable'[k] = storageHashTable[k]
         /\ UNCHANGED storageHashTable \/ MissesCache(key)
<1>1. pc = "idle" /\ UNCHANGED torn  BY DEF AddFails, Throw
<1>2. /\ RecordsInv /\ FaultVarsOK /\ ShardOf[key] \in ShardIndex
      /\ cacheMap[key] \in Ptr
      /\ storageHashTable \in [Key -> Ptr] /\ storageHashTable[key] \in Ptr
      /\ aliveValuesCnt \in [ShardIndex -> 0 .. 255]
      /\ PointsToValue(cacheMap[key]) /\ Whole(key) =>
           /\ storageHashTable[key] # EMPTY_PTR
           /\ storageHashTable[key].index = cacheMap[key].index
      /\ lostIndex \subseteq ShardIndex /\ ragged \subseteq ShardIndex
      /\ PointsToValue(storageHashTable[key]) => storageHashTable[key] # EMPTY_PTR
  <2>1. PointsToValue(storageHashTable[key]) => storageHashTable[key] # EMPTY_PTR
    BY DEF PointsToValue, EMPTY_PTR
  <2>2. FaultVarsOK => lostIndex \subseteq ShardIndex /\ ragged \subseteq ShardIndex
    BY DEF FaultVarsOK
  <2> QED  BY <1>1, <2>1, <2>2, IdleFactsFaults
<1>3. CASE AddCachedFails(key)
  <2>1. /\ PointsToValue(cacheMap[key]) /\ OverwriteFails(key, cacheMap[key])
        /\ UNCHANGED <<storageHashTable, lostIndex, ragged>> /\ Fault
    BY <1>3 DEF AddCachedFails, OverwriteFails
  <2>2. RecordsInv'  BY <1>1, <1>2, <2>1, OverwriteFailsKeeps
  <2> QED  BY <1>2, <2>1, <2>2
<1>4. CASE AddReadFails(key)
  <2>1. UNCHANGED <<shardVars, lostIndex, ragged>> /\ (Fault \/ UNCHANGED failures)
    BY <1>4 DEF AddReadFails, NothingDone, FaultUnless
  <2>2. RecordsInv'  BY <1>1, <1>2, <2>1, ShardUnchangedFaults
  <2> QED  BY <1>2, <2>1, <2>2 DEF shardVars
<1>5. CASE AddOverwriteFails(key)
  <2>1. /\ PointsToValue(storageHashTable[key]) /\ OverwriteFails(key, storageHashTable[key])
        /\ UNCHANGED <<storageHashTable, lostIndex, ragged>> /\ Fault
    BY <1>5 DEF AddOverwriteFails, OverwriteFails
  <2>2. RecordsInv'  BY <1>1, <1>2, <2>1, OverwriteFailsKeeps
  <2> QED  BY <1>2, <2>1, <2>2
<1>6. CASE AddReviveFails(key)
  <2>1. PICK value \in ValuesOf(key) : WriteValueDirectly(key, storageHashTable[key], value)
    BY <1>6 DEF AddReviveFails
  <2>2. /\ PointsToValue(storageHashTable[key]) /\ MissesCache(key)
        /\ InFile(key, storageHashTable[key])
        /\ IncrementAliveValuesCnt(ShardOf[key])
        /\ IndexWriteFails(ShardOf[key],
             [storageHashTable EXCEPT ![key] = WriteValuePtr(key)])
        /\ Fault /\ UNCHANGED <<filter, ragged>>
    BY <1>6 DEF AddReviveFails, PointsToValue
  <2>3. WriteValuePtr(key) = PtrTo(storageHashTable[key].index, TRUE)
    BY <1>2, <2>2 DEF WriteValuePtr, SetValuePresent
  <2>4. /\ lostIndex' \subseteq ShardIndex
        /\ \/ UNCHANGED storageHashTable
           \/ storageHashTable' = [storageHashTable EXCEPT ![key] = PtrTo(@.index, TRUE)]
    BY <1>2, <2>2, <2>3, IndexWriteLeaves
  <2>5. aliveValuesCnt' \in [ShardIndex -> 0 .. 255]  BY <1>2, <2>2, CounterType
  <2>6. FileKept  BY <1>2, <2>1, <2>2, WriteRecord DEF FileKept
  <2>7. RecordsInv'  BY <1>1, <1>2, <2>2, <2>4, <2>5, <2>6, MarkRecord
  <2> QED  BY <1>2, <2>2, <2>4, <2>7
<1>7. CASE AddAppendFails(key)
  <2>1. /\ storageHashTable[key] = EMPTY_PTR /\ MissesCache(key)
        /\ Fault
        /\ UNCHANGED <<storageHashTable, aliveValuesCnt, filter, lostIndex>>
        /\ ragged' \subseteq ragged \cup {ShardOf[key]}
        /\ \/ UNCHANGED valuesFile
           \/ \E value \in ValuesOf(key) :
                valuesFile' = [valuesFile EXCEPT ![ShardOf[key]] = Append(@, value)]
    BY <1>7 DEF AddAppendFails
  <2>2. FileKept
    <3>1. ASSUME NEW value \in ValuesOf(key),
                 valuesFile' = [valuesFile EXCEPT ![ShardOf[key]] = Append(@, value)]
          PROVE  FileKept
      <4>1. value \in Value  BY DEF ValuesOf
      <4> QED  BY <1>2, <3>1, <4>1, AppendRecord DEF FileKept
    <3> QED  BY <1>2, <2>1, <3>1, SameFile
  <2>3. RecordsInv'  BY <1>1, <1>2, <2>1, <2>2, MarkRecord
  <2> QED  BY <1>2, <2>1, <2>3
<1>8. CASE AddIndexFails(key)
  <2>1. PICK value \in ValuesOf(key) :
          valuesFile' = [valuesFile EXCEPT ![ShardOf[key]] = Append(@, value)]
    BY <1>8 DEF AddIndexFails
  <2>2. /\ storageHashTable[key] = EMPTY_PTR /\ MissesCache(key)
        /\ ~IndexOverflows(ShardOf[key]) /\ OffsetFits(ShardOf[key])
        /\ IncrementAliveValuesCnt(ShardOf[key])
        /\ filter' = [filter EXCEPT ![ShardOf[key]] = AddKeys(@, {key})]
        /\ IndexWriteFails(ShardOf[key],
             [storageHashTable EXCEPT ![key] = WriteValuePtr(key)])
        /\ Fault /\ UNCHANGED ragged
    BY <1>8 DEF AddIndexFails
  <2>3. /\ lostIndex' \subseteq ShardIndex
        /\ \/ UNCHANGED storageHashTable
           \/ storageHashTable' = [storageHashTable EXCEPT ![key] = WriteValuePtr(key)]
    BY <1>2, <2>2, IndexWriteLeaves
  <2>4. aliveValuesCnt' \in [ShardIndex -> 0 .. 255]  BY <1>2, <2>2, CounterType
  <2>5. RecordsInv'  BY <1>1, <1>2, <2>1, <2>2, <2>3, <2>4, NewRecord
  <2> QED  BY <1>2, <2>2, <2>3, <2>5
<1> QED  BY <1>3, <1>4, <1>5, <1>6, <1>7, <1>8 DEF AddFails

(***************************************************************************)
(* KVS::add, stopped by an exception.                                      *)
(***************************************************************************)
LEMMA AddFailsFaults ==
  ASSUME FaultsInv, NEW key \in Key, AddFails(key)
  PROVE  FaultsInv'
<1>1. /\ pc = "idle" /\ Throw /\ UNCHANGED cacheMap
      /\ told' = [told EXCEPT ![key] = "open"]
  BY DEF AddFails
<1>2. /\ CacheTypeOK
      /\ PointsToValue(cacheMap[key]) /\ Whole(key) =>
           storageHashTable[key] = PtrTo(cacheMap[key].index, TRUE)
  BY <1>1, IdleFactsFaults
<1>3. CacheTypeOK'  BY <1>1, <1>2 DEF CacheTypeOK
<1> QED  BY <1>1, <1>2, <1>3, AddFailsKeeps, ThrowOpenFaults DEF MissesCache

(***************************************************************************)
(* KVS::get, stopped by an exception.                                      *)
(***************************************************************************)
LEMMA GetFailsFaults ==
  ASSUME FaultsInv, NEW key \in Key, GetFails(key)
  PROVE  FaultsInv'
<1>1. /\ pc = "idle" /\ Throw
      /\ UNCHANGED <<cacheMap, shardVars, lostIndex, ragged, told>>
      /\ Fault \/ UNCHANGED failures
      /\ UNCHANGED torn
  BY DEF GetFails, FaultUnless, Throw
<1>2. RecordsInv /\ FaultVarsOK /\ CacheTypeOK /\ \A k \in Key : QuietKey(k)
  BY <1>1, IdleFactsFaults
<1>3. RecordsInv' /\ FaultVarsOK' /\ CacheTypeOK'
  BY <1>1, <1>2, ShardUnchangedFaults, FailureCounted DEF FaultVarsOK, CacheTypeOK
<1>4. \A k \in Key : QuietKey(k)'  BY <1>1, <1>2, AllQuietKept DEF shardVars
<1> QED  BY <1>1, <1>3, <1>4, EndThrow

(***************************************************************************)
(* KVS::remove, stopped by an exception.                                   *)
(***************************************************************************)
LEMMA RemoveFailsFaults ==
  ASSUME FaultsInv, NEW key \in Key, RemoveFails(key)
  PROVE  FaultsInv'
<1>1. /\ pc = "idle" /\ Throw /\ UNCHANGED torn
      /\ told' = [told EXCEPT ![key] = "open"]
      /\ RemoveCachedFails(key) \/ RemoveMissingFails(key)
  BY DEF RemoveFails, Throw
<1>2. /\ RecordsInv /\ FaultVarsOK /\ CacheTypeOK /\ ShardOf[key] \in ShardIndex
      /\ cacheMap \in [Key -> Ptr] /\ cacheMap[key] \in Ptr
      /\ storageHashTable \in [Key -> Ptr]
      /\ aliveValuesCnt \in [ShardIndex -> 0 .. 255]
      /\ PointsToValue(cacheMap[key]) /\ Whole(key) =>
           storageHashTable[key] = PtrTo(cacheMap[key].index, TRUE)
      /\ lostIndex \subseteq ShardIndex /\ ragged \subseteq ShardIndex
  BY <1>1, IdleFactsFaults DEF FaultVarsOK
<1>3. CASE RemoveCachedFails(key)
  <2> DEFINE removed == PtrTo(cacheMap[key].index, FALSE)
  <2>1. /\ PointsToValue(cacheMap[key])
        /\ cacheMap' = [cacheMap EXCEPT ![key] = removed]
        /\ DecrementAliveValuesCnt(ShardOf[key]) /\ Fault
        /\ UNCHANGED <<storageHashTable, valuesFile, filter, lostIndex, ragged>>
    BY <1>3 DEF RemoveCachedFails, SetCached, SetValuePresent, PointsToValue
  <2>2. removed \in Ptr /\ removed.index = cacheMap[key].index
    BY <1>2, PtrCases, PtrToType
  <2> HIDE DEF removed
  <2>3. aliveValuesCnt' \in [ShardIndex -> 0 .. 255]  BY <1>2, <2>1, CounterType
  <2>4. RecordsInv'  BY <1>1, <1>2, <2>1, <2>3, SameFile, MarkRecord
  <2>5. /\ CacheTypeOK' /\ cacheMap'[key] = removed
        /\ \A k \in Key \ {key} : cacheMap'[k] = cacheMap[k]
    BY <1>2, <2>1, <2>2 DEF CacheTypeOK
  <2> QED  BY <1>1, <1>2, <2>1, <2>2, <2>4, <2>5, ThrowOpenFaults
<1>4. CASE RemoveMissingFails(key)
  <2>1. UNCHANGED cacheMap /\ ~PointsToValue(cacheMap[key])
    BY <1>4 DEF RemoveMissingFails, PointsToValue, EMPTY_PTR
  <2>2. /\ RecordsInv'
        /\ lostIndex' \subseteq ShardIndex /\ ragged' \subseteq ShardIndex
        /\ Fault \/ UNCHANGED failures
        /\ \A k \in Key \ {key} : storageHashTable'[k] = storageHashTable[k]
    <3>1. CASE (Fault \/ UNCHANGED failures) /\ NothingDone
      <4>1. RecordsInv'  BY <1>1, <1>2, <3>1, ShardUnchangedFaults DEF NothingDone
      <4> QED  BY <1>2, <3>1, <4>1 DEF NothingDone, shardVars
    <3>2. CASE /\ FoundPresent(key)
               /\ DecrementAliveValuesCnt(ShardOf[key])
               /\ IndexWriteFails(ShardOf[key],
                    [storageHashTable EXCEPT ![key] = SetValuePresent(@, FALSE)])
               /\ Fault
               /\ UNCHANGED <<valuesFile, filter, ragged>>
      <4>1. PointsToValue(storageHashTable[key])
        BY <3>2 DEF FoundPresent, PointsToValue
      <4>2. /\ lostIndex' \subseteq ShardIndex
            /\ \/ UNCHANGED storageHashTable
               \/ storageHashTable' = [storageHashTable EXCEPT ![key] = PtrTo(@.index, FALSE)]
        BY <1>2, <3>2, IndexWriteLeaves DEF SetValuePresent
      <4>3. aliveValuesCnt' \in [ShardIndex -> 0 .. 255]  BY <1>2, <3>2, CounterType
      <4>4. RecordsInv'  BY <1>1, <1>2, <3>2, <4>1, <4>2, <4>3, SameFile, MarkRecord
      <4> QED  BY <1>2, <3>2, <4>2, <4>4
    <3> QED  BY <1>4, <3>1, <3>2 DEF RemoveMissingFails, FaultUnless
  <2>3. CacheTypeOK'  BY <1>2, <2>1 DEF CacheTypeOK
  <2> QED  BY <1>1, <2>1, <2>2, <2>3, ThrowOpenFaults
<1> QED  BY <1>1, <1>3, <1>4

(***************************************************************************)
(* A rebuild that fails: before its files have been renamed, nothing has   *)
(* happened; after that, the shard is torn.                                *)
(***************************************************************************)
LEMMA RebuildFailsEarlyFaults ==
  ASSUME FaultsInv, RebuildFailsEarly
  PROVE  FaultsInv'
<1>1. /\ pc = "rebuild" /\ Throw
      /\ \A shard \in target : FaultUnless(CanRead(shard))
      /\ UNCHANGED <<cacheMap, shardVars, lostIndex, ragged, told, torn>>
  BY DEF RebuildFailsEarly, Throw
<1>2. Fault \/ UNCHANGED failures
  <2>1. target # {}  BY <1>1 DEF FaultsInv, RebuildHasTarget
  <2> QED  BY <1>1, <2>1 DEF FaultUnless
<1>3. RecordsInv /\ FaultVarsOK /\ CacheTypeOK /\ \A k \in Key : QuietKey(k)
  BY <1>1, QuietBefore DEF FaultsInv, TypeOK
<1>4. RecordsInv' /\ FaultVarsOK' /\ CacheTypeOK'
  BY <1>1, <1>2, <1>3, ShardUnchangedFaults, FailureCounted DEF FaultVarsOK, CacheTypeOK
<1>5. \A k \in Key : QuietKey(k)'  BY <1>1, <1>3, AllQuietKept DEF shardVars
<1> QED  BY <1>1, <1>4, <1>5, EndThrow

(***************************************************************************)
(* A rebuild stopped after the first rename or after the second: the shard *)
(* is torn, the others are as they were.                                   *)
(***************************************************************************)
LEMMA RebuildFailsTornFaults ==
  ASSUME FaultsInv, RebuildFailsTorn
  PROVE  FaultsInv'
<1>1. PICK shard \in target :
        /\ CanRead(shard)
        /\ \E order \in Enumerations(KeptKeys(shard)) :
             /\ valuesFile' = [valuesFile EXCEPT ![shard] = CopiedRecords(order)]
             /\ \/ UNCHANGED storageHashTable
                \/ storageHashTable' = RebuiltTable(shard, order)
        /\ ragged' = ragged \ {shard}
        /\ torn' = torn \cup {shard}
  BY DEF RebuildFailsTorn
<1>2. PICK order \in Enumerations(KeptKeys(shard)) :
        /\ valuesFile' = [valuesFile EXCEPT ![shard] = CopiedRecords(order)]
        /\ \/ UNCHANGED storageHashTable
           \/ storageHashTable' = RebuiltTable(shard, order)
  BY <1>1
<1>3. /\ pc = "rebuild" /\ pc' = "idle" /\ target' = {} /\ result' = {} /\ Fault
      /\ UNCHANGED <<cacheMap, aliveValuesCnt, filter, entry, displaced, newEntries,
                     failure, lostIndex, told>>
  BY DEF RebuildFailsTorn
<1>4. /\ RecordsInv /\ FaultVarsOK /\ CacheTypeOK /\ NothingInHand
      /\ \A k \in Key : QuietKey(k)
      /\ shard \in ShardIndex
  BY <1>3, QuietBefore DEF FaultsInv, TypeOK, IsOptional
<1>5. /\ KeptKeys(shard) \subseteq IndexedKeys(shard)
      /\ CopiedRecords(order) \in Seq(Value)
      /\ \A key \in Key \ KeysOf(shard) :
           RebuiltTable(shard, order)[key] = storageHashTable[key]
  BY <1>1, <1>4, RebuiltFiles
<1>6. RecordsInv'
  <2>1. CASE UNCHANGED storageHashTable
    BY <1>1, <1>2, <1>3, <1>4, <1>5, <2>1, TornRecords
  <2>2. CASE storageHashTable' = RebuiltTable(shard, order)
    <3>1. \A key \in Key : FilterHas(key) => FilterHas(key)'  BY <1>3 DEF FilterHas
    <3>2. \A key \in KeptKeys(shard) : FilterHas(key)'
      BY <1>4, <1>5, <3>1 DEF IndexedKeys, KeysOf, RecordsInv, FilterComplete
    <3>3. \A key \in KeptKeys(shard) : ~Whole(key)'
      BY <1>1, <1>5 DEF IndexedKeys, KeysOf, Whole
    <3>4. /\ aliveValuesCnt' \in [ShardIndex -> 0 .. 255]
          /\ filter' \in [ShardIndex -> Filter]
          /\ torn \subseteq torn'
      BY <1>1, <1>3, <1>4 DEF RecordsInv, ShardTypeOK
    <3> QED  BY <1>1, <1>2, <1>4, <2>2, <3>1, <3>2, <3>3, <3>4, RebuiltRecords
  <2> QED  BY <1>2, <2>1, <2>2
<1>7. FaultVarsOK'
  BY <1>1, <1>3, <1>4, FailureCounted DEF FaultVarsOK
<1>8. ASSUME NEW k \in Key PROVE QuietKey(k)'
  <2>1. CASE k \in KeysOf(shard)
    <3>1. ~Whole(k)'  BY <1>1, <2>1 DEF KeysOf, Whole
    <3> QED  BY <3>1 DEF QuietKey, Agrees, Answered
  <2>2. CASE k \notin KeysOf(shard)
    <3>1. storageHashTable'[k] = storageHashTable[k]  BY <1>2, <1>5, <2>2
    <3> QED  BY <1>1, <1>3, <1>4, <3>1, SameKeyQuiet
  <2> QED  BY <2>1, <2>2
<1>9. NothingInHand' /\ CacheTypeOK' /\ IsOptional(target, ShardIndex)' /\ IsOptional(result, Value)'
  BY <1>3, <1>4 DEF NothingInHand, NoEntries, CacheTypeOK, IsOptional
<1> QED  BY <1>3, <1>6, <1>7, <1>8, <1>9, EndQuiet

-----------------------------------------------------------------------------
(***************************************************************************)
(* The parts of a call that have something in hand.                        *)
(***************************************************************************)
LEMMA PutEntryFaults ==
  ASSUME FaultsInv, PutEntry, UNCHANGED faultVars
  PROVE  FaultsInv'
<1>1. PICK e \in entry :
        \/ /\ ~CacheIsFull
           /\ Put(e)
           /\ pc' = "idle"
           /\ UNCHANGED displaced
        \/ /\ CacheIsFull
           /\ \E victim \in Cached :
                /\ Displace(victim, e)
                /\ displaced' = {[key |-> victim, ptr |-> cacheMap[victim]]}
           /\ pc' = "push"
  BY DEF PutEntry
<1>2. /\ pc = "put" /\ entry' = {}
      /\ UNCHANGED <<shardVars, target, newEntries, result, failure>>
      /\ UNCHANGED <<storageHashTable, told, torn>>
  BY DEF PutEntry, shardVars, faultVars
<1>3. /\ displaced = {} /\ newEntries = NoEntries
      /\ \A k \in Key : newEntries[k] = EMPTY_PTR
      /\ e.ptr # EMPTY_PTR
      /\ Agrees(e.ptr, e.key)
      /\ \A x \in entry : x = e
  BY <1>2 DEF FaultsInv, PhaseInv, CachedInv, TypeOK, IsOptional, NoEntries
<1>4. e.key \in Key /\ e.ptr \in Ptr /\ cacheMap \in [Key -> Ptr] /\ EMPTY_PTR \in Ptr
  BY DEF FaultsInv, TypeOK, CacheTypeOK, IsOptional, Entry, Ptr
<1>5. \A k \in Key \ {e.key} : Agrees(cacheMap[k], k)
  BY <1>3 DEF FaultsInv, CachedInv
<1>6. /\ CurrentPtr(e.key) = e.ptr
      /\ \A k \in Key \ {e.key} : CurrentPtr(k) = cacheMap[k]
  BY <1>3, <1>4, CurrentPtrBoth DEF CurrentPtrRules
<1>7. \A k \in Key : AssertsEnabled /\ Whole(k) /\ told[k] # "open" =>
                       (IsAlive(k) <=> told[k] = "alive")
  BY DEF FaultsInv, AnsweredCallsLast, Whole
<1>8. RecordsInv' /\ FaultVarsOK'
  BY <1>2, ShardUnchangedFaults DEF FaultsInv, FaultVarsOK, faultVars
<1>9. \A k \in Key : Whole(k)' <=> Whole(k)  BY <1>2 DEF Whole
<1>10. \A k, p : Agrees(p, k)' <=> Agrees(p, k)  BY <1>2 DEF Agrees, Whole
<1>11. CASE ~CacheIsFull
  <2>1. /\ cacheMap' \in [Key -> Ptr] /\ cacheMap'[e.key] = e.ptr
        /\ \A k \in Key \ {e.key} : cacheMap'[k] = cacheMap[k]
        /\ pc' = "idle" /\ displaced' = {}
    BY <1>1, <1>3, <1>4, <1>11 DEF Put
  <2>2. ASSUME NEW k \in Key PROVE QuietKey(k)'
    <3>1. Agrees(cacheMap[k], k)'
      BY <1>2, <1>3, <1>5, <2>1 DEF Agrees, Whole
    <3>2. FoundAlive(k)' <=> IsAlive(k)
      <4>1. CurrentPtr(k) = cacheMap'[k]  BY <1>6, <2>1
      <4>2. EMPTY_PTR.type # "PRESENT"  BY DEF EMPTY_PTR
      <4> QED  BY <1>2, <4>1, <4>2 DEF FoundAlive, IsAlive, EffectivePtr
    <3>3. Answered(k, FoundAlive(k))'
      BY <1>2, <1>7, <1>9, <3>2 DEF Answered
    <3> QED  BY <3>1, <3>3 DEF QuietKey
  <2>3. NothingInHand' /\ CacheTypeOK'
    BY <1>2, <1>3, <2>1 DEF NothingInHand, NoEntries, CacheTypeOK
  <2>4. IsOptional(target, ShardIndex)' /\ IsOptional(result, Value)'
    BY <1>2 DEF FaultsInv, TypeOK, IsOptional
  <2> QED  BY <1>2, <1>8, <2>1, <2>2, <2>3, <2>4, EndQuiet
<1>12. CASE CacheIsFull
  <2>1. PICK victim \in Cached :
          /\ Displace(victim, e)
          /\ displaced' = {[key |-> victim, ptr |-> cacheMap[victim]]}
    BY <1>1, <1>12
  <2>2. /\ victim \in Key /\ cacheMap[victim] \in Ptr
        /\ cacheMap[victim] # EMPTY_PTR
        /\ pc' = "push"
    BY <1>1, <1>4, <1>12 DEF Cached
  <2>3. /\ cacheMap' \in [Key -> Ptr]
        /\ cacheMap'[e.key] = e.ptr
        /\ victim # e.key => cacheMap'[victim] = EMPTY_PTR
        /\ \A k \in Key \ {e.key, victim} : cacheMap'[k] = cacheMap[k]
    BY <1>4, <2>1, <2>2 DEF Displace
  <2>4. \A d \in displaced' : d.key = victim /\ d.ptr = cacheMap[victim]
    BY <2>1
  <2>5. TypeOK'
    <3>1. IsOptional(displaced, Entry)' /\ IsOptional(entry, Entry)'
      BY <1>2, <2>1, <2>2 DEF IsOptional, Entry
    <3> QED  BY <1>2, <1>8, <2>2, <2>3, <3>1 DEF FaultsInv, TypeOK, CacheTypeOK, RecordsInv
  <2>6. PhaseInv'
    <3>1. cacheMap[e.key].type \in {"EMPTY_PTR", "NONEXISTENT"}
      BY DEF FaultsInv, PhaseInv
    <3>2. \A d \in displaced' : d.ptr.type = "DELETED" => cacheMap'[d.key] = EMPTY_PTR
      BY <2>3, <2>4, <3>1
    <3> QED  BY <1>2, <1>3, <2>2, <2>4, <3>2 DEF PhaseInv, NoEntries
  <2>7. CachedInv'
    <3>1. \A k \in Key : Agrees(newEntries[k], k)'
      <4>1. \A k \in Key : newEntries'[k] = EMPTY_PTR  BY <1>2, <1>3
      <4> QED  BY <4>1, EmptyAgrees
    <3>2. \A k \in Key : Agrees(cacheMap[k], k)'
      <4>1. ASSUME NEW k \in Key PROVE Agrees(cacheMap'[k], k)
        <5>1. CASE k = e.key  BY <5>1, <1>3, <2>3
        <5>2. CASE k # e.key /\ k = victim  BY <5>2, <2>3, EmptyAgrees
        <5>3. CASE k # e.key /\ k # victim  BY <5>3, <1>5, <2>3
        <5> QED  BY <5>1, <5>2, <5>3
      <4> QED  BY <1>2, <4>1 DEF Agrees, Whole
    <3>3. \A d \in displaced' : cacheMap'[d.key] = EMPTY_PTR => Agrees(d.ptr, d.key)
      BY <1>3, <1>5, <2>2, <2>3, <2>4
    <3>4. \A d \in displaced' : cacheMap'[d.key] = EMPTY_PTR => Agrees(d.ptr, d.key)'
      BY <1>2, <3>3 DEF Agrees, Whole
    <3> QED  BY <1>2, <3>1, <3>2, <3>4 DEF CachedInv
  <2>8. AssertsEnabled => AnsweredCallsLast'
    <3>1. ASSUME NEW k \in Key PROVE CurrentPtr(k)' = CurrentPtr(k)
      <4>1. newEntries'[k] = EMPTY_PTR /\ entry' = {}  BY <1>2, <1>3
      <4>2. CASE k = e.key
        BY <1>3, <1>6, <2>3, <4>1, <4>2, CurrentPtrBoth DEF CurrentPtrRules
      <4>3. CASE k # e.key /\ k = victim
        <5>1. \A d \in displaced' : d.key = k /\ \A x \in displaced' : x = d
          BY <2>1, <2>4, <4>3
        <5>2. displaced' # {}  BY <2>1
        <5> QED
          BY <1>6, <2>2, <2>3, <2>4, <4>1, <4>3, <5>1, <5>2, CurrentPtrBoth
             DEF CurrentPtrRules
      <4>4. CASE k # e.key /\ k # victim
        BY <1>6, <2>3, <2>4, <4>1, <4>4, CurrentPtrBoth DEF CurrentPtrRules
      <4> QED  BY <4>2, <4>3, <4>4
    <3>2. \A k \in Key : IsAlive(k)' <=> IsAlive(k)
      BY <1>2, <3>1 DEF IsAlive, EffectivePtr
    <3> QED  BY <1>2, <1>7, <1>9, <3>2 DEF AnsweredCallsLast, Whole
  <2>9. RebuildHasTarget'  BY <2>2 DEF RebuildHasTarget
  <2> QED  BY <1>8, <2>5, <2>6, <2>7, <2>8, <2>9 DEF FaultsInv
<1> QED  BY <1>11, <1>12

(***************************************************************************)
(* A push leaves nothing in hand: a removal that reaches the index is      *)
(* answered by it; a removal that does not leaves the key present in the   *)
(* index, and then the key is open.                                        *)
(***************************************************************************)
LEMMA PushQuiet ==
  ASSUME FaultsInv, pc = "push", NEW d \in displaced, UNCHANGED <<cacheMap, torn>>,
         \A k \in Key \ {d.key} : /\ storageHashTable'[k] = storageHashTable[k]
                                  /\ told'[k] = told[k],
         \/ /\ d.ptr.type = "DELETED"
            /\ \/ told'[d.key] = "open"
               \/ /\ told'[d.key] = told[d.key]
                  /\ storageHashTable'[d.key].type # "PRESENT"
         \/ /\ d.ptr.type \in {"PRESENT", "NONEXISTENT"}
            /\ told'[d.key] = told[d.key]
            /\ storageHashTable'[d.key] = storageHashTable[d.key]
  PROVE  \A k \in Key : QuietKey(k)'
<1>1. /\ entry = {} /\ newEntries = NoEntries
      /\ \A k \in Key : newEntries[k] = EMPTY_PTR
      /\ \A x \in displaced : x = d
      /\ d.key \in Key /\ d.ptr \in Ptr
      /\ \A k \in Key : Agrees(cacheMap[k], k)
      /\ d.ptr.type = "DELETED" => cacheMap[d.key] = EMPTY_PTR
      /\ cacheMap[d.key] = EMPTY_PTR => Agrees(d.ptr, d.key)
      /\ d.ptr # EMPTY_PTR
  BY DEF FaultsInv, PhaseInv, CachedInv, TypeOK, IsOptional, NoEntries, Entry
<1>2. \A k \in Key : AssertsEnabled /\ Whole(k) /\ told[k] # "open" =>
                       (IsAlive(k) <=> told[k] = "alive")
  BY DEF FaultsInv, AnsweredCallsLast, Whole
<1>3. EMPTY_PTR.type # "PRESENT"  BY DEF EMPTY_PTR
<1>4. \A k \in Key : Whole(k)' <=> Whole(k)  BY DEF Whole
<1>5. \A k \in Key : k # d.key \/ cacheMap[k] # EMPTY_PTR =>
                       (IsAlive(k) <=> FoundAlive(k))
  <2> SUFFICES ASSUME NEW k \in Key, k # d.key \/ cacheMap[k] # EMPTY_PTR
               PROVE  IsAlive(k) <=> FoundAlive(k)
    OBVIOUS
  <2>1. CurrentPtr(k) = cacheMap[k]
    BY <1>1, CurrentPtrBoth DEF CurrentPtrRules
  <2> QED  BY <1>3, <2>1 DEF IsAlive, EffectivePtr, FoundAlive
<1>6. cacheMap[d.key] = EMPTY_PTR => (IsAlive(d.key) <=> d.ptr.type = "PRESENT")
  <2> SUFFICES ASSUME cacheMap[d.key] = EMPTY_PTR
               PROVE  IsAlive(d.key) <=> d.ptr.type = "PRESENT"
    OBVIOUS
  <2>1. CurrentPtr(d.key) = d.ptr
    BY <1>1, CurrentPtrBoth DEF CurrentPtrRules
  <2> QED  BY <1>1, <2>1 DEF IsAlive, EffectivePtr
<1>7. \A k \in Key \ {d.key} : QuietKey(k)'
  <2> SUFFICES ASSUME NEW k \in Key \ {d.key} PROVE QuietKey(k)'
    OBVIOUS
  <2>1. QuietKey(k)  BY <1>1, <1>2, <1>5 DEF QuietKey, Answered
  <2> QED  BY <2>1, SameKeyQuiet
<1>8. QuietKey(d.key)'
  <2>1. CASE cacheMap[d.key] # EMPTY_PTR
    <3>1. d.ptr.type \in {"PRESENT", "NONEXISTENT"}  BY <1>1, <2>1
    <3>2. QuietKey(d.key)  BY <1>1, <1>2, <1>5, <2>1 DEF QuietKey, Answered
    <3>3. /\ told'[d.key] = told[d.key]
          /\ storageHashTable'[d.key] = storageHashTable[d.key]
      BY <3>1
    <3> QED  BY <1>1, <3>2, <3>3, SameKeyQuiet
  <2>2. CASE cacheMap[d.key] = EMPTY_PTR
    <3>1. Agrees(cacheMap[d.key], d.key)'  BY <2>2, EmptyAgrees DEF Agrees
    <3>2. FoundAlive(d.key)' <=> storageHashTable'[d.key].type = "PRESENT"
      BY <1>3, <2>2 DEF FoundAlive
    <3>3. Answered(d.key, d.ptr.type = "PRESENT")
      BY <1>1, <1>2, <1>6, <2>2 DEF Answered
    <3>4. Answered(d.key, FoundAlive(d.key))'
      <4> USE <3>2, <3>3 DEF Answered
      <4>0. Whole(d.key)' <=> Whole(d.key)  BY <1>1, <1>4
      <4>1. CASE d.ptr.type = "DELETED"
        <5>1. \/ told'[d.key] = "open"
              \/ /\ told'[d.key] = told[d.key]
                 /\ storageHashTable'[d.key].type # "PRESENT"
          BY <4>1
        <5> QED  BY <4>0, <4>1, <5>1
      <4>2. CASE d.ptr.type \in {"PRESENT", "NONEXISTENT"}
        <5>1. /\ told'[d.key] = told[d.key]
              /\ storageHashTable'[d.key] = storageHashTable[d.key]
          BY <4>2
        <5>2. Agrees(d.ptr, d.key)  BY <1>1, <2>2
        <5>3. d.ptr.type = "PRESENT" /\ Whole(d.key) =>
                storageHashTable[d.key].type = "PRESENT"
          BY <5>2 DEF Agrees, PointsToValue, PtrTo
        <5>4. d.ptr.type = "NONEXISTENT" => d.ptr = NONEXISTENT  BY <1>1, PtrCases
        <5>5. d.ptr.type = "NONEXISTENT" /\ Whole(d.key) /\ told[d.key] # "open" =>
                storageHashTable[d.key].type # "PRESENT"
          BY <5>2, <5>4 DEF Agrees
        <5> QED  BY <4>0, <4>2, <5>1, <5>3, <5>5
      <4> QED  BY <4>1, <4>2
    <3> QED  BY <3>1, <3>4 DEF QuietKey
  <2> QED  BY <2>1, <2>2
<1> QED  BY <1>7, <1>8

(***************************************************************************)
(* pushOperation, when every file operation succeeds.                      *)
(***************************************************************************)
LEMMA PushWorksFaults ==
  ASSUME FaultsInv, PushWorks
  PROVE  FaultsInv'
<1>1. PICK d \in displaced :
        /\ \/ d.ptr.type = "DELETED" /\ PushRemoveEntry(d.key)
           \/ d.ptr.type \in {"PRESENT", "NONEXISTENT"} /\ UNCHANGED shardVars
        /\ ThenRebuildIfRequired(ShardOf[d.key])
  BY DEF PushWorks, PushOperation
<1>2. /\ pc = "push" /\ displaced' = {}
      /\ UNCHANGED <<cacheMap, entry, newEntries, result, failure>>
      /\ UNCHANGED <<torn, told>>
  BY DEF PushWorks, PushOperation, faultVars
<1>3. /\ d.key \in Key /\ ShardOf[d.key] \in ShardIndex
      /\ RecordsInv /\ CacheTypeOK /\ IsOptional(result, Value)
  BY ShardAssumption DEF FaultsInv, TypeOK, IsOptional, Entry
<1>4. /\ RecordsInv'
      /\ \A k \in Key \ {d.key} : storageHashTable'[k] = storageHashTable[k]
      /\ d.ptr.type = "DELETED" => storageHashTable'[d.key].type # "PRESENT"
      /\ d.ptr.type # "DELETED" => UNCHANGED storageHashTable
  <2>1. CASE d.ptr.type = "DELETED" /\ PushRemoveEntry(d.key)
    BY <1>2, <1>3, <2>1, RemovedRecord
  <2>2. CASE d.ptr.type \in {"PRESENT", "NONEXISTENT"} /\ UNCHANGED shardVars
    <3>1. RecordsInv'  BY <1>2, <1>3, <2>2, ShardUnchangedFaults
    <3> QED  BY <2>2, <3>1 DEF shardVars
  <2> QED  BY <1>1, <2>1, <2>2
<1>5. \A k \in Key : QuietKey(k)'  BY <1>1, <1>2, <1>4, PushQuiet
<1>6. FaultVarsOK'  BY DEF PushWorks, FaultsInv, FaultVarsOK, faultVars
<1>7. CacheTypeOK' /\ IsOptional(result, Value)'
  BY <1>2, <1>3 DEF CacheTypeOK, IsOptional
<1> QED  BY <1>1, <1>2, <1>3, <1>4, <1>5, <1>6, <1>7, EndRebuild

(***************************************************************************)
(* pushOperation stopped before its removal is in the index, or when it    *)
(* examines the shard.                                                     *)
(***************************************************************************)
LEMMA PushFailsFaults ==
  ASSUME FaultsInv, PushFails
  PROVE  FaultsInv'
<1>1. PICK d \in displaced : PushIndexFails(d) \/ PushExamineFails(d)
  BY DEF PushFails
<1>2. /\ pc = "push" /\ Throw /\ UNCHANGED <<cacheMap, torn>>
      /\ told' = [key \in Key |->
                    IF key \in Forgotten /\ storageHashTable'[key].type = "PRESENT"
                      THEN "open" ELSE told[key]]
  BY DEF PushFails, Throw
<1>3. /\ d.key \in Key /\ ShardOf[d.key] \in ShardIndex
      /\ RecordsInv /\ CacheTypeOK /\ FaultVarsOK
      /\ aliveValuesCnt \in [ShardIndex -> 0 .. 255]
      /\ storageHashTable \in [Key -> Ptr]
      /\ \A x \in displaced : x = d
  BY ShardAssumption DEF FaultsInv, TypeOK, IsOptional, Entry, RecordsInv, ShardTypeOK
<1>4. /\ RecordsInv'
      /\ lostIndex' \subseteq ShardIndex /\ ragged' = ragged
      /\ Fault \/ UNCHANGED failures
      /\ \A k \in Key \ {d.key} : storageHashTable'[k] = storageHashTable[k]
      /\ d.ptr.type # "DELETED" => /\ d.ptr.type \in {"PRESENT", "NONEXISTENT"}
                                   /\ UNCHANGED storageHashTable
  <2>1. CASE PushIndexFails(d)
    <3>1. d.ptr.type = "DELETED"  BY <2>1 DEF PushIndexFails, ReadsIndex
    <3>2. CASE (Fault \/ UNCHANGED failures) /\ NothingDone
      <4>1. RecordsInv'  BY <1>2, <1>3, <3>2, ShardUnchangedFaults DEF NothingDone
      <4> QED  BY <1>3, <3>1, <3>2, <4>1 DEF NothingDone, shardVars, FaultVarsOK
    <3>3. CASE /\ FoundPresent(d.key)
               /\ IndexWriteFails(ShardOf[d.key],
                    [storageHashTable EXCEPT ![d.key] = SetValuePresent(@, FALSE)])
               /\ Fault
               /\ UNCHANGED <<valuesFile, aliveValuesCnt, filter, ragged>>
      <4>1. PointsToValue(storageHashTable[d.key])
        BY <3>3 DEF FoundPresent, PointsToValue
      <4>2. /\ lostIndex' \subseteq ShardIndex
            /\ \/ UNCHANGED storageHashTable
               \/ storageHashTable' = [storageHashTable EXCEPT ![d.key] = PtrTo(@.index, FALSE)]
        BY <1>3, <3>3, IndexWriteLeaves DEF SetValuePresent
      <4>3. aliveValuesCnt' \in [ShardIndex -> 0 .. 255]  BY <1>3, <3>3
      <4>4. RecordsInv'  BY <1>2, <1>3, <3>3, <4>1, <4>2, <4>3, SameFile, MarkRecord
      <4> QED  BY <1>3, <3>1, <3>3, <4>2, <4>4
    <3> QED  BY <2>1, <3>2, <3>3 DEF PushIndexFails, FaultUnless
  <2>2. CASE PushExamineFails(d)
    <3>1. Fault /\ UNCHANGED <<lostIndex, ragged>>  BY <2>2 DEF PushExamineFails
    <3>2. CASE d.ptr.type = "DELETED" /\ PushRemoveEntry(d.key)
      BY <1>2, <1>3, <3>1, <3>2, RemovedRecord DEF FaultVarsOK
    <3>3. CASE d.ptr.type \in {"PRESENT", "NONEXISTENT"} /\ UNCHANGED shardVars
      <4>1. RecordsInv'  BY <1>2, <1>3, <3>3, ShardUnchangedFaults
      <4> QED  BY <1>3, <3>1, <3>3, <4>1 DEF shardVars, FaultVarsOK
    <3> QED  BY <2>2, <3>2, <3>3 DEF PushExamineFails
  <2> QED  BY <1>1, <2>1, <2>2
<1>5. FaultVarsOK'
  <2>1. told' \in [Key -> {"alive", "absent", "open"}]
    BY <1>2, <1>3 DEF FaultVarsOK
  <2> QED  BY <1>2, <1>3, <1>4, <2>1, FailureCounted DEF FaultVarsOK
<1>6. \A k \in Key : QuietKey(k)'
  <2>1. \A k \in Key \ {d.key} : told'[k] = told[k]
    BY <1>2, <1>3 DEF Forgotten
  <2>2. d.ptr.type = "DELETED" => d.key \in Forgotten
    BY <1>3 DEF Forgotten
  <2>3. d.ptr.type # "DELETED" => d.key \notin Forgotten
    BY <1>3 DEF Forgotten
  <2> QED  BY <1>2, <1>3, <1>4, <2>1, <2>2, <2>3, PushQuiet
<1>7. CacheTypeOK'  BY <1>2, <1>3 DEF CacheTypeOK
<1> QED  BY <1>2, <1>4, <1>5, <1>6, <1>7, EndThrow

(***************************************************************************)
(* An entry of a rebuild moves into the cache.                             *)
(***************************************************************************)
LEMMA InstallEntryFaults ==
  ASSUME FaultsInv, InstallEntry, UNCHANGED faultVars
  PROVE  FaultsInv'
<1>1. PICK key \in Key :
        /\ newEntries[key] # EMPTY_PTR
        /\ \/ Put([key |-> key, ptr |-> newEntries[key]])
           \/ /\ ~AssertsEnabled
              /\ \E victim \in Cached :
                   Displace(victim, [key |-> key, ptr |-> newEntries[key]])
        /\ newEntries' = [newEntries EXCEPT ![key] = EMPTY_PTR]
  BY DEF InstallEntry
<1>2. /\ pc = "install"
      /\ pc' = IF newEntries' = NoEntries THEN "idle" ELSE "install"
      /\ UNCHANGED <<shardVars, entry, displaced, target, result, failure>>
      /\ UNCHANGED <<storageHashTable, told, torn>>
  BY DEF InstallEntry, shardVars, faultVars
<1>3. /\ cacheMap \in [Key -> Ptr] /\ newEntries \in [Key -> Ptr]
      /\ EMPTY_PTR \in Ptr
      /\ entry = {} /\ displaced = {}
  BY <1>2 DEF FaultsInv, PhaseInv, TypeOK, CacheTypeOK, Ptr
<1>4. /\ cacheMap' \in [Key -> Ptr]
      /\ cacheMap'[key] = newEntries[key]
      /\ \A k \in Key \ {key} : cacheMap'[k] \in {EMPTY_PTR, cacheMap[k]}
      /\ AssertsEnabled => \A k \in Key \ {key} : cacheMap'[k] = cacheMap[k]
  <2>1. CASE Put([key |-> key, ptr |-> newEntries[key]])
    BY <1>3, <2>1 DEF Put
  <2>2. CASE /\ ~AssertsEnabled
             /\ \E victim \in Cached :
                  Displace(victim, [key |-> key, ptr |-> newEntries[key]])
    BY <1>3, <2>2 DEF Displace, Cached
  <2> QED  BY <1>1, <2>1, <2>2
<1>5. /\ newEntries' \in [Key -> Ptr]
      /\ newEntries'[key] = EMPTY_PTR
      /\ \A k \in Key \ {key} : newEntries'[k] = newEntries[k]
  BY <1>1, <1>3
<1>6. RecordsInv' /\ FaultVarsOK'
  BY <1>2, ShardUnchangedFaults DEF FaultsInv, FaultVarsOK, faultVars
<1>7. entry' = {} /\ displaced' = {} /\ pc' \in {"idle", "install"}
  BY <1>2, <1>3
<1>8. TypeOK'
  BY <1>2, <1>4, <1>5, <1>6, <1>7 DEF FaultsInv, TypeOK, CacheTypeOK, RecordsInv
<1>9. PhaseInv'  BY <1>2, <1>7 DEF PhaseInv
<1>10. \A k \in Key : /\ Agrees(newEntries'[k], k)
                      /\ newEntries'[k] # EMPTY_PTR \/ Agrees(cacheMap'[k], k)
  <2>1. \A k \in Key : /\ Agrees(newEntries[k], k)
                       /\ newEntries[k] # EMPTY_PTR \/ Agrees(cacheMap[k], k)
    BY <1>3 DEF FaultsInv, CachedInv
  <2>2. Agrees(newEntries'[key], key) /\ Agrees(cacheMap'[key], key)
    BY <1>4, <1>5, <2>1, EmptyAgrees
  <2>3. ASSUME NEW k \in Key \ {key}
        PROVE  /\ Agrees(newEntries'[k], k)
               /\ newEntries'[k] # EMPTY_PTR \/ Agrees(cacheMap'[k], k)
    BY <1>4, <1>5, <2>1, EmptyAgrees
  <2> QED  BY <2>2, <2>3
<1>11. CachedInv'  BY <1>2, <1>7, <1>10 DEF CachedInv, Agrees, Whole
<1>12. AssertsEnabled => AnsweredCallsLast'
  <2> SUFFICES ASSUME AssertsEnabled PROVE AnsweredCallsLast'
    OBVIOUS
  <2>1. ASSUME NEW k \in Key PROVE CurrentPtr(k)' = CurrentPtr(k)
    BY <1>1, <1>3, <1>4, <1>5, <1>7, CurrentPtrBoth DEF CurrentPtrRules
  <2>2. \A k \in Key : IsAlive(k)' <=> IsAlive(k)
    BY <1>2, <2>1 DEF IsAlive, EffectivePtr
  <2> QED  BY <1>2, <2>2 DEF FaultsInv, AnsweredCallsLast
<1>13. RebuildHasTarget'  BY <1>7 DEF RebuildHasTarget
<1> QED  BY <1>6, <1>8, <1>9, <1>11, <1>12, <1>13 DEF FaultsInv

-----------------------------------------------------------------------------
(***************************************************************************)
(* A rebuild that works, key by key: the cached pointer or its new entry   *)
(* agrees with the new index, and whoever was alive is.                    *)
(***************************************************************************)
LEMMA RebuiltKey ==
  ASSUME FaultsInv, pc = "rebuild", NEW shard \in ShardIndex, CanRead(shard),
         NEW order \in Enumerations(KeptKeys(shard)),
         storageHashTable' = RebuiltTable(shard, order),
         newEntries' = UpdatedEntries(shard, order),
         UNCHANGED <<cacheMap, entry, displaced, torn, told>>, NEW key \in Key
  PROVE  /\ newEntries'[key] \in Ptr
         /\ Agrees(newEntries[key], key)'
         /\ newEntries'[key] = EMPTY_PTR => Agrees(cacheMap[key], key)'
         /\ Whole(key) => (IsAlive(key)' <=> FoundAlive(key))
<1>1. /\ cacheMap[key] \in Ptr /\ storageHashTable[key] \in Ptr
      /\ RecordsInv /\ NothingInHand
      /\ Agrees(cacheMap[key], key)
  BY IdleFactsFaults DEF QuietKey
<1>2. /\ key \in KeptKeys(shard) =>
           /\ storageHashTable'[key] = RebuiltPtr(order, key)
           /\ RebuiltPtr(order, key) \in Ptr
           /\ RebuiltPtr(order, key) = PtrTo(RebuiltPtr(order, key).index, TRUE)
      /\ key \in KeysOf(shard) \ KeptKeys(shard) => storageHashTable'[key] = EMPTY_PTR
      /\ key \notin KeysOf(shard) => storageHashTable'[key] = storageHashTable[key]
  <2> DEFINE table == RebuiltTable(shard, order)
  <2>1. /\ \A k \in KeptKeys(shard) :
             /\ table[k] = RebuiltPtr(order, k)
             /\ RebuiltPtr(order, k) \in Ptr
             /\ RebuiltPtr(order, k) = PtrTo(RebuiltPtr(order, k).index, TRUE)
        /\ \A k \in KeysOf(shard) \ KeptKeys(shard) : table[k] = EMPTY_PTR
        /\ \A k \in Key \ KeysOf(shard) : table[k] = storageHashTable[k]
    BY <1>1, RebuiltFiles
  <2>2. storageHashTable' = table  OBVIOUS
  <2> HIDE DEF table
  <2> QED  BY <2>1, <2>2
<1>3. /\ EMPTY_PTR \in Ptr /\ NONEXISTENT \in Ptr /\ EMPTY_PTR.type = "EMPTY_PTR"
      /\ NONEXISTENT.type = "NONEXISTENT" /\ EMPTY_PTR # NONEXISTENT
  BY DEF Ptr, EMPTY_PTR, NONEXISTENT
<1>4. newEntries'[key] =
        CASE key \in IndexedKeys(shard) /\ cacheMap[key].type = "DELETED"
               -> NONEXISTENT
          [] key \in IndexedKeys(shard) /\ cacheMap[key].type = "PRESENT"
               -> RebuiltPtr(order, key)
          [] OTHER -> EMPTY_PTR
  BY DEF UpdatedEntries
<1>5. IndexedKeys(shard) \subseteq KeysOf(shard) /\ KeptKeys(shard) \subseteq IndexedKeys(shard)
  BY DEF IndexedKeys, KeptKeys
<1>6. /\ newEntries'[key] # EMPTY_PTR => CurrentPtr(key)' = newEntries'[key]
      /\ newEntries'[key] = EMPTY_PTR => CurrentPtr(key)' = cacheMap[key]
  BY <1>1, CurrentPtrBoth DEF CurrentPtrRules, NothingInHand
<1>7. CASE key \in IndexedKeys(shard) /\ cacheMap[key].type = "DELETED"
  <2>1. newEntries'[key] = NONEXISTENT  BY <1>4, <1>7
  <2>2. key \in KeysOf(shard) \ KeptKeys(shard)
    BY <1>3, <1>5, <1>7 DEF KeptKeys
  <2>3. Agrees(newEntries[key], key)'
    BY <1>2, <1>3, <2>1, <2>2 DEF Agrees, PointsToValue
  <2>4. ~IsAlive(key)'
    BY <1>3, <1>6, <2>1 DEF IsAlive, EffectivePtr
  <2>5. ~FoundAlive(key)  BY <1>3, <1>7 DEF FoundAlive
  <2> QED  BY <1>3, <2>1, <2>3, <2>4, <2>5
<1>8. CASE key \in IndexedKeys(shard) /\ cacheMap[key].type = "PRESENT"
  <2>1. newEntries'[key] = RebuiltPtr(order, key)  BY <1>4, <1>8
  <2>2. key \in KeptKeys(shard)  BY <1>8 DEF KeptKeys
  <2>3. /\ RebuiltPtr(order, key) # EMPTY_PTR /\ RebuiltPtr(order, key) # NONEXISTENT
        /\ RebuiltPtr(order, key).type = "PRESENT"
    BY <1>2, <2>2 DEF PtrTo, EMPTY_PTR, NONEXISTENT
  <2>4. Agrees(newEntries[key], key)'
    BY <1>2, <2>1, <2>2, <2>3 DEF Agrees
  <2>5. IsAlive(key)'
    BY <1>6, <2>1, <2>3 DEF IsAlive, EffectivePtr
  <2>6. FoundAlive(key)  BY <1>8 DEF FoundAlive
  <2> QED  BY <1>2, <2>1, <2>2, <2>3, <2>4, <2>5, <2>6
<1>9. CASE ~(key \in IndexedKeys(shard) /\ cacheMap[key].type \in {"DELETED", "PRESENT"})
  <2>1. newEntries'[key] = EMPTY_PTR  BY <1>4, <1>9
  <2>2. Agrees(newEntries[key], key)'  BY <2>1, EmptyAgrees DEF Agrees
  <2>3. IsAlive(key)' <=> IF cacheMap[key] = EMPTY_PTR
                            THEN storageHashTable'[key].type = "PRESENT"
                            ELSE cacheMap[key].type = "PRESENT"
    BY <1>6, <2>1 DEF IsAlive, EffectivePtr
  <2>4. CASE cacheMap[key] = EMPTY_PTR
    <3>1. Agrees(cacheMap[key], key)'  BY <2>4, EmptyAgrees DEF Agrees
    <3>2. storageHashTable'[key].type = "PRESENT" <=> storageHashTable[key].type = "PRESENT"
      <4>1. CASE key \notin KeysOf(shard)  BY <1>2, <4>1
      <4>2. CASE key \in KeptKeys(shard)
        <5>1. storageHashTable[key].type = "PRESENT"
          BY <1>3, <2>4, <4>2 DEF KeptKeys
        <5>2. storageHashTable'[key].type = "PRESENT"  BY <1>2, <4>2 DEF PtrTo
        <5> QED  BY <5>1, <5>2
      <4>3. CASE key \in KeysOf(shard) \ KeptKeys(shard)
        <5>1. storageHashTable[key].type # "PRESENT"
          BY <1>3, <2>4, <4>3 DEF KeptKeys, IndexedKeys
        <5> QED  BY <1>2, <1>3, <4>3, <5>1
      <4> QED  BY <4>1, <4>2, <4>3
    <3>3. FoundAlive(key) <=> storageHashTable[key].type = "PRESENT"
      BY <1>3, <2>4 DEF FoundAlive
    <3> QED  BY <1>3, <2>1, <2>2, <2>3, <2>4, <3>1, <3>2, <3>3
  <2>5. CASE cacheMap[key] # EMPTY_PTR
    <3>1. IsAlive(key)' <=> FoundAlive(key)  BY <2>3, <2>5 DEF FoundAlive
    <3>2. Agrees(cacheMap[key], key)'
      <4>1. CASE key \notin KeysOf(shard)
        BY <1>1, <1>2, <4>1 DEF Agrees, Whole
      <4>2. CASE key \in KeysOf(shard)
        <5> SUFFICES ASSUME Whole(key) PROVE Agrees(cacheMap[key], key)'
          BY DEF Agrees, Whole
        <5>1. ~PointsToValue(cacheMap[key])
          <6>1. CASE key \in IndexedKeys(shard)  BY <1>9, <6>1 DEF PointsToValue
          <6>2. CASE key \notin IndexedKeys(shard)
            <7>1. storageHashTable[key] = EMPTY_PTR
              BY <4>2, <6>2 DEF IndexedKeys
            <7>2. \A i : PtrTo(i, TRUE) # EMPTY_PTR  BY DEF PtrTo, EMPTY_PTR
            <7> QED  BY <1>1, <7>1, <7>2 DEF Agrees
          <6> QED  BY <6>1, <6>2
        <5>2. key \notin KeptKeys(shard)
          BY <2>5, <5>1 DEF KeptKeys, PointsToValue
        <5>3. storageHashTable'[key].type # "PRESENT"  BY <1>2, <1>3, <4>2, <5>2
        <5> QED  BY <5>1, <5>3 DEF Agrees, PointsToValue
      <4> QED  BY <4>1, <4>2
    <3> QED  BY <1>3, <2>1, <2>2, <3>1, <3>2
  <2> QED  BY <2>4, <2>5
<1> QED  BY <1>7, <1>8, <1>9

(***************************************************************************)
(* A rebuild that succeeds: file, index, filter and counter are new and    *)
(* fit one another, also in a shard that was torn.                         *)
(***************************************************************************)
LEMMA RebuildWorksFaults ==
  ASSUME FaultsInv, RebuildWorks
  PROVE  FaultsInv'
<1>1. PICK shard \in target, seeds \in SeedVector :
        \E order \in Enumerations(KeptKeys(shard)) :
          /\ BuildShard(shard, order, seeds)
          /\ newEntries' = UpdatedEntries(shard, order)
  BY DEF RebuildWorks, RebuildShard
<1>2. PICK order \in Enumerations(KeptKeys(shard)) :
        /\ BuildShard(shard, order, seeds)
        /\ newEntries' = UpdatedEntries(shard, order)
  BY <1>1
<1>3. /\ pc = "rebuild" /\ target' = {} /\ CanRead(shard)
      /\ pc' = IF newEntries' = NoEntries THEN "idle" ELSE "install"
      /\ UNCHANGED <<cacheMap, entry, displaced, result, failure>>
      /\ ragged' \subseteq ragged
      /\ UNCHANGED <<lostIndex, torn, failures, told>>
  BY DEF RebuildWorks, RebuildShard
<1>4. /\ RecordsInv /\ FaultVarsOK /\ NothingInHand
      /\ \A k \in Key : QuietKey(k)
      /\ shard \in ShardIndex
  BY <1>3, QuietBefore DEF FaultsInv, TypeOK, IsOptional
<1> DEFINE kept == KeptKeys(shard)
<1>5. kept \subseteq IndexedKeys(shard) /\ kept \subseteq KeysOf(shard) /\ kept \subseteq Key
  BY DEF KeptKeys, IndexedKeys, KeysOf
<1>6. RecordsInv'
  <2>1. /\ valuesFile' = [valuesFile EXCEPT ![shard] = CopiedRecords(order)]
        /\ storageHashTable' = RebuiltTable(shard, order)
        /\ aliveValuesCnt' = [aliveValuesCnt EXCEPT ![shard] = Cardinality(kept) % 256]
        /\ filter' = [filter EXCEPT ![shard] = AddKeys(NewFilter(seeds), kept)]
    BY <1>2 DEF BuildShard, RebuiltFilter
  <2>2. aliveValuesCnt' \in [ShardIndex -> 0 .. 255]
    <3> DEFINE n == Cardinality(kept)
    <3>1. n \in 0 .. 126  BY <1>2, <1>3, <1>4, RebuiltFiles
    <3> HIDE DEF n
    <3>2. n % 256 \in 0 .. 255  BY <3>1
    <3> QED  BY <1>4, <2>1, <3>2 DEF RecordsInv, ShardTypeOK, n
  <2>3. /\ AddKeys(NewFilter(seeds), kept) \in Filter
        /\ \A key \in kept : CheckExist(AddKeys(NewFilter(seeds), kept), key)
    <3>1. NewFilter(seeds) \in Filter /\ kept \in SUBSET Key
      BY <1>5 DEF NewFilter, Filter
    <3> HIDE DEF kept
    <3> QED  BY <3>1, AddKeysProperties
  <2>4. filter \in [ShardIndex -> Filter]  BY <1>4 DEF RecordsInv, ShardTypeOK
  <2> HIDE DEF kept
  <2>5. /\ filter' \in [ShardIndex -> Filter]
        /\ \A key \in kept : FilterHas(key)'
        /\ \A key \in Key \ KeysOf(shard) : FilterHas(key) => FilterHas(key)'
    BY <1>4, <1>5, <2>1, <2>3, <2>4, ShardAssumption DEF FilterHas, KeysOf
  <2>6. \A key \in kept :
          Whole(key)' => ReadValueDirectly(key, storageHashTable[key]) \in ValuesOf(key)
    BY <1>3, <1>4, <1>5 DEF RecordsInv, RecordsOfOwner, Whole, IndexedKeys
  <2> QED  BY <1>2, <1>3, <1>4, <2>1, <2>2, <2>5, <2>6, RebuiltRecords DEF kept
<1>7. FaultVarsOK'  BY <1>3, <1>4 DEF FaultVarsOK
<1>8. \A key \in Key :
        /\ newEntries'[key] \in Ptr
        /\ Agrees(newEntries[key], key)'
        /\ newEntries'[key] = EMPTY_PTR => Agrees(cacheMap[key], key)'
        /\ Whole(key) => (IsAlive(key)' <=> FoundAlive(key))
  BY <1>2, <1>3, <1>4, RebuiltKey DEF BuildShard
<1>9. /\ entry' = {} /\ displaced' = {} /\ pc' \in {"idle", "install"}
      /\ newEntries' # NoEntries => pc' = "install"
  BY <1>3, <1>4 DEF NothingInHand
<1>10. TypeOK'
  <2>1. newEntries' \in [Key -> Ptr]
    BY <1>2, <1>8 DEF UpdatedEntries
  <2> QED
    BY <1>3, <1>6, <1>9, <2>1 DEF FaultsInv, TypeOK, CacheTypeOK, RecordsInv, IsOptional
<1>11. PhaseInv'  BY <1>9 DEF PhaseInv
<1>12. CachedInv'  BY <1>8, <1>9 DEF CachedInv
<1>13. AssertsEnabled => AnsweredCallsLast'
  <2>1. ASSUME AssertsEnabled, NEW k \in Key, Whole(k)', told'[k] # "open"
        PROVE  IsAlive(k)' <=> told'[k] = "alive"
    <3>1. Whole(k) /\ told'[k] = told[k]  BY <1>3, <2>1 DEF Whole
    <3>2. FoundAlive(k) <=> told[k] = "alive"
      BY <1>4, <2>1, <3>1 DEF QuietKey, Answered
    <3> QED  BY <1>8, <3>1, <3>2
  <2> QED  BY <2>1 DEF AnsweredCallsLast, Whole
<1>14. RebuildHasTarget'  BY <1>9 DEF RebuildHasTarget
<1> QED  BY <1>6, <1>7, <1>10, <1>11, <1>12, <1>13, <1>14 DEF FaultsInv

-----------------------------------------------------------------------------
(***************************************************************************)
(* The invariant is inductive.                                             *)
(***************************************************************************)
LEMMA FaultsInitInv == FaultsInit => FaultsInv
<1> SUFFICES ASSUME FaultsInit PROVE FaultsInv
  OBVIOUS
<1>1. /\ \A key \in Key : storageHashTable[key] = EMPTY_PTR /\ cacheMap[key] = EMPTY_PTR
      /\ cacheMap \in [Key -> Ptr]
      /\ told = [key \in Key |-> "absent"] /\ pc = "idle"
      /\ NothingInHand
  <2>1. EMPTY_PTR \in Ptr  BY DEF Ptr
  <2> QED  BY <2>1 DEF FaultsInit, Init, CacheInit, ShardInit, NothingInHand
<1>2. ShardInv  BY ShardInitInv DEF FaultsInit, Init
<1>3. TypeOK  BY InitIInv DEF FaultsInit, IInv
<1>4. RecordsInv
  <2>1. IndexWithinBounds  BY <1>2 DEF ShardInv, IndexBounded, IndexWithinBounds
  <2>2. RecordsOwned  BY <1>1 DEF RecordsOwned, IndexedKeys, KeysOf
  <2> QED
    BY <1>1, <1>2, <2>1, <2>2
       DEF RecordsInv, ShardInv, IndexHoldsValues, RecordsOfOwner
<1>5. FaultVarsOK  BY <1>1, FaultsAssumption DEF FaultsInit, FaultVarsOK
<1>6. PhaseInv  BY <1>1 DEF PhaseInv, NothingInHand
<1>7. EMPTY_PTR.type = "EMPTY_PTR"  BY DEF EMPTY_PTR
<1>8. \A key \in Key : QuietKey(key)
  BY <1>1, <1>7, EmptyAgrees DEF QuietKey, Answered, FoundAlive
<1>9. CallsInv  BY <1>1, <1>8, QuietEnough DEF Quiet, CacheTypeOK
<1>10. RebuildHasTarget  BY <1>1 DEF RebuildHasTarget
<1> QED  BY <1>3, <1>4, <1>5, <1>6, <1>9, <1>10 DEF FaultsInv, CallsInv

(***************************************************************************)
(* Every step, one action after the other.                                 *)
(***************************************************************************)
LEMMA FaultsNextInv == FaultsInv /\ [FaultsNext]_<<vars, faultVars>> => FaultsInv'
<1> SUFFICES ASSUME FaultsInv, [FaultsNext]_<<vars, faultVars>> PROVE FaultsInv'
  OBVIOUS
<1>1. ASSUME NEW key \in Key, AddWorks(key) PROVE FaultsInv'
  BY <1>1, AddWorksFaults
<1>2. ASSUME NEW key \in Key, GetWorks(key) PROVE FaultsInv'
  BY <1>2, GetWorksFaults
<1>3. ASSUME NEW key \in Key, RemoveWorks(key) PROVE FaultsInv'
  BY <1>3, RemoveWorksFaults
<1>4. ASSUME NEW key \in Key, PtrAborts(key) \/ Overflows(key) PROVE FaultsInv'
  BY <1>4, DeathFaults
<1>5. ASSUME NEW key \in Key, AddFails(key) PROVE FaultsInv'
  BY <1>5, AddFailsFaults
<1>6. ASSUME NEW key \in Key, GetFails(key) PROVE FaultsInv'
  BY <1>6, GetFailsFaults
<1>7. ASSUME NEW key \in Key, RemoveFails(key) PROVE FaultsInv'
  BY <1>7, RemoveFailsFaults
<1>8. CASE PushWorks  BY <1>8, PushWorksFaults
<1>9. CASE RebuildWorks  BY <1>9, RebuildWorksFaults
<1>10. CASE Aborts  BY <1>10, DeathFaults
<1>11. CASE PutEntry /\ UNCHANGED faultVars  BY <1>11, PutEntryFaults
<1>12. CASE InstallEntry /\ UNCHANGED faultVars  BY <1>12, InstallEntryFaults
<1>13. CASE Halted /\ UNCHANGED faultVars  BY <1>13, StutterFaults DEF Halted
<1>14. CASE PushFails  BY <1>14, PushFailsFaults
<1>15. CASE RebuildFailsEarly  BY <1>15, RebuildFailsEarlyFaults
<1>16. CASE RebuildFailsTorn  BY <1>16, RebuildFailsTornFaults
<1>17. CASE UNCHANGED <<vars, faultVars>>  BY <1>17, StutterFaults
<1> QED
  BY <1>1, <1>2, <1>3, <1>4, <1>5, <1>6, <1>7, <1>8, <1>9, <1>10, <1>11, <1>12,
     <1>13, <1>14, <1>15, <1>16, <1>17 DEF FaultsNext

(***************************************************************************)
(* Whatever fails, and however often, the inductive invariant holds.       *)
(***************************************************************************)
THEOREM FaultsInvariance == FaultsSpec => []FaultsInv
<1>1. FaultsInit => FaultsInv  BY FaultsInitInv
<1>2. FaultsInv /\ [FaultsNext]_<<vars, faultVars>> => FaultsInv'  BY FaultsNextInv
<1> QED  BY <1>1, <1>2, PTL DEF FaultsSpec

-----------------------------------------------------------------------------
(***************************************************************************)
(* Every variable keeps to its type, whatever fails.                       *)
(***************************************************************************)
THEOREM FaultsTypeCorrect == FaultsSpec => []FaultsTypeOK
<1>1. FaultsInv => FaultsTypeOK
  BY DEF FaultsInv, FaultVarsOK, FaultsTypeOK
<1> QED  BY <1>1, FaultsInvariance, PTL

(***************************************************************************)
(* No failed write or removal, however far it came, makes two keys share a *)
(* record, or leaves a pointer that leads out of the values file; only a   *)
(* torn rebuild can.                                                       *)
(***************************************************************************)
THEOREM RecordsStayOwned == FaultsSpec => []RecordsOwned
<1>1. FaultsInv => RecordsOwned  BY DEF FaultsInv, RecordsInv
<1> QED  BY <1>1, FaultsInvariance, PTL

(***************************************************************************)
(* The Bloom filter has no false negatives, also after failures, and also  *)
(* in a torn shard: whatever readValue finds in the index it is let        *)
(* through to.                                                             *)
(***************************************************************************)
THEOREM FilterStaysComplete == FaultsSpec => []FilterComplete
<1>1. FaultsInv => FilterComplete  BY DEF FaultsInv, RecordsInv
<1> QED  BY <1>1, FaultsInvariance, PTL

(***************************************************************************)
(* The pointer that decides about a key agrees with its shard.             *)
(***************************************************************************)
LEMMA CurrentAgrees ==
  ASSUME FaultsInv, NEW key \in Key
  PROVE  Agrees(CurrentPtr(key), key)
<1> DEFINE incoming == {e \in entry : e.key = key}
           outgoing == {d \in displaced : d.key = key /\ cacheMap[key] = EMPTY_PTR}
<1>1. CASE newEntries[key] # EMPTY_PTR
  BY <1>1 DEF FaultsInv, CachedInv, CurrentPtr
<1>2. CASE newEntries[key] = EMPTY_PTR /\ incoming # {}
  <2>1. CurrentPtr(key) = (CHOOSE e \in incoming : TRUE).ptr  BY <1>2 DEF CurrentPtr
  <2>2. (CHOOSE e \in incoming : TRUE) \in incoming  BY <1>2
  <2> QED  BY <2>1, <2>2 DEF FaultsInv, CachedInv
<1>3. CASE newEntries[key] = EMPTY_PTR /\ incoming = {} /\ outgoing # {}
  <2>1. CurrentPtr(key) = (CHOOSE d \in outgoing : TRUE).ptr  BY <1>3 DEF CurrentPtr
  <2>2. (CHOOSE d \in outgoing : TRUE) \in outgoing  BY <1>3
  <2> QED  BY <2>1, <2>2 DEF FaultsInv, CachedInv
<1>4. CASE newEntries[key] = EMPTY_PTR /\ incoming = {} /\ outgoing = {}
  <2>1. CurrentPtr(key) = cacheMap[key]  BY <1>4 DEF CurrentPtr
  <2> QED  BY <2>1, <1>4 DEF FaultsInv, CachedInv
<1> QED  BY <1>1, <1>2, <1>3, <1>4

(***************************************************************************)
(* Whatever fails after the index has been written, KVS::add and get may   *)
(* trust a cached pointer to a value.                                      *)
(***************************************************************************)
THEOREM CachedPtrsStayCurrent == FaultsSpec => []CachedPtrsCurrent
<1>1. FaultsInv => CachedPtrsCurrent
  BY CurrentAgrees DEF CachedPtrsCurrent, Agrees, Whole
<1> QED  BY <1>1, FaultsInvariance, PTL

(***************************************************************************)
(* A get never finds the value of another key: neither a record that a     *)
(* failed add left behind nor one written half is ever reached through the *)
(* pointer of another key.                                                 *)
(***************************************************************************)
THEOREM ValuesStayWithTheirKeys == FaultsSpec => []OwnValues
<1>1. ASSUME FaultsInv PROVE OwnValues
  <2> SUFFICES ASSUME NEW key \in Key, Whole(key), IsAlive(key)
               PROVE  ReadValueDirectly(key, EffectivePtr(key)) \in ValuesOf(key)
    BY DEF OwnValues, FindsOwnValue, Whole
  <2>1. storageHashTable[key] # EMPTY_PTR /\ EffectivePtr(key).index = storageHashTable[key].index
    <3>1. CASE CurrentPtr(key) = EMPTY_PTR
      BY <3>1 DEF IsAlive, EffectivePtr, EMPTY_PTR
    <3>2. CASE CurrentPtr(key) # EMPTY_PTR
      <4>1. EffectivePtr(key) = CurrentPtr(key) /\ PointsToValue(CurrentPtr(key))
        BY <3>2 DEF IsAlive, EffectivePtr, PointsToValue
      <4>2. storageHashTable[key] = PtrTo(CurrentPtr(key).index, TRUE)
        BY <1>1, <4>1, CurrentAgrees DEF Agrees
      <4> QED  BY <4>1, <4>2 DEF PtrTo, EMPTY_PTR
    <3> QED  BY <3>1, <3>2
  <2>2. ReadValueDirectly(key, storageHashTable[key]) \in ValuesOf(key)
    BY <1>1, <2>1 DEF FaultsInv, RecordsInv, RecordsOfOwner
  <2> QED  BY <2>1, <2>2 DEF ReadValueDirectly
<1> QED  BY <1>1, FaultsInvariance, PTL

(***************************************************************************)
(* A failure is nobody's business but that of the key in hand, and of the  *)
(* key of a lazy removal whose push fails: any other key stays as the      *)
(* client left it.  Where asserts are compiled out, a rebuild that         *)
(* displaces an entry forgets the lazy removal of another key without any  *)
(* failure at all.                                                         *)
(***************************************************************************)
THEOREM AnsweredCallsStay == AssertsEnabled => (FaultsSpec => []AnsweredCallsLast)
<1> SUFFICES ASSUME AssertsEnabled PROVE FaultsSpec => []AnsweredCallsLast
  OBVIOUS
<1>1. FaultsInv => AnsweredCallsLast  BY DEF FaultsInv
<1> QED  BY <1>1, FaultsInvariance, PTL

-----------------------------------------------------------------------------
(***************************************************************************)
(* The rebuild of a whole shard keeps the keys that are alive, no others,  *)
(* and one record for each.                                                *)
(***************************************************************************)
LEMMA RebuildKeepsTheAlive ==
  ASSUME FaultsInv, RebuildWorks, NEW shard \in target \ torn
  PROVE  /\ shard \notin ragged'
         /\ Len(valuesFile'[shard]) = aliveValuesCnt'[shard]
         /\ aliveValuesCnt'[shard] = Cardinality({key \in KeysOf(shard) : IsAlive(key)'})
<1>1. /\ pc = "rebuild" /\ CanRead(shard)
      /\ ragged' = ragged \ target
      /\ UNCHANGED <<cacheMap, entry, displaced, torn, told>>
  BY DEF RebuildWorks, RebuildShard
<1>2. shard \in ShardIndex /\ \A other \in target : other = shard
  BY DEF FaultsInv, TypeOK, IsOptional
<1>3. PICK seeds \in SeedVector, order \in Enumerations(KeptKeys(shard)) :
        /\ BuildShard(shard, order, seeds)
        /\ newEntries' = UpdatedEntries(shard, order)
  BY <1>2 DEF RebuildWorks, RebuildShard
<1> DEFINE kept == KeptKeys(shard)
           n == Cardinality(kept)
<1>4. /\ RecordsInv /\ \A k \in Key : QuietKey(k)
      /\ valuesFile \in [ShardIndex -> Seq(Value)]
      /\ aliveValuesCnt \in [ShardIndex -> 0 .. 255]
  BY <1>1, QuietBefore DEF FaultsInv, RecordsInv, ShardTypeOK
<1>5. n \in 0 .. 126 /\ Len(CopiedRecords(order)) = n
  BY <1>1, <1>2, <1>3, <1>4, RebuiltFiles
<1>6. Len(valuesFile'[shard]) = n /\ aliveValuesCnt'[shard] = n
  <2>1. /\ valuesFile' = [valuesFile EXCEPT ![shard] = CopiedRecords(order)]
        /\ aliveValuesCnt' = [aliveValuesCnt EXCEPT ![shard] = n % 256]
    BY <1>3 DEF BuildShard
  <2> HIDE DEF n
  <2>2. n % 256 = n  BY <1>5
  <2> QED  BY <1>2, <1>4, <1>5, <2>1, <2>2
<1>7. {key \in KeysOf(shard) : IsAlive(key)'} = kept
  <2>1. kept \subseteq KeysOf(shard)  BY DEF KeptKeys, IndexedKeys
  <2>2. ASSUME NEW key \in KeysOf(shard) PROVE IsAlive(key)' <=> key \in kept
    <3>1. key \in Key /\ Whole(key) /\ Agrees(cacheMap[key], key)
      BY <1>4 DEF KeysOf, Whole, QuietKey
    <3>2. IsAlive(key)' <=> FoundAlive(key)
      BY <1>1, <1>2, <1>3, <3>1, RebuiltKey DEF BuildShard
    <3>3. FoundAlive(key) => storageHashTable[key] # EMPTY_PTR
      BY <3>1 DEF FoundAlive, Agrees, PointsToValue, PtrTo, EMPTY_PTR
    <3>4. key \in kept <=> storageHashTable[key] # EMPTY_PTR /\ FoundAlive(key)
      BY DEF KeptKeys, IndexedKeys, FoundAlive
    <3> QED  BY <3>2, <3>3, <3>4
  <2> HIDE DEF kept
  <2> QED  BY <2>1, <2>2
<1>8. shard \notin ragged'  BY <1>1
<1> QED  BY <1>6, <1>7, <1>8

(***************************************************************************)
(* A rebuild that succeeds makes good for lost records and lost counts:    *)
(* the records of the shard, its counter and its bound keys are as many    *)
(* afterwards, whatever has failed before.                                 *)
(***************************************************************************)
THEOREM RebuildMakesGood == FaultsSpec => RebuildRepairs
<1>1. ASSUME FaultsInv, FaultsNext, NEW shard \in target \ torn,
             pc = "rebuild", pc' # "halted", UNCHANGED failures, CanRead(shard)
      PROVE  RebuildWorks
  <2>1. ~Fault
    <3>1. failures \in Nat  BY <1>1 DEF FaultsInv, FaultVarsOK
    <3> QED  BY <1>1, <3>1 DEF Fault
  <2>2. ~RebuildFailsEarly /\ ~RebuildFailsTorn
    BY <1>1, <2>1 DEF RebuildFailsEarly, RebuildFailsTorn, FaultUnless
  <2>3. ~Aborts  BY <1>1 DEF Aborts, RebuildAborts, InstallAborts, Die
  <2>4. ASSUME NEW key \in Key
        PROVE  ~(\/ AddWorks(key) \/ GetWorks(key) \/ RemoveWorks(key)
                 \/ PtrAborts(key) \/ Overflows(key)
                 \/ AddFails(key) \/ GetFails(key) \/ RemoveFails(key))
    BY <1>1 DEF AddWorks, AddCached, AddDeleted, AddMissing, GetWorks, GetCached, GetAbsent,
                GetMissing, RemoveWorks, RemoveCached, RemoveAbsent, RemoveMissing,
                PtrAborts, Overflows, AddOverflows, AddFails, GetFails, RemoveFails
  <2>5. ~PushWorks /\ ~PutEntry /\ ~InstallEntry /\ ~Halted /\ ~PushFails
    BY <1>1 DEF PushWorks, PushOperation, PutEntry, InstallEntry, Halted, PushFails
  <2> QED  BY <1>1, <2>2, <2>3, <2>4, <2>5 DEF FaultsNext
<1>2. FaultsInv /\ [FaultsNext]_<<vars, faultVars>> =>
        [\A shard \in target \ torn :
           pc = "rebuild" /\ pc' # "halted" /\ UNCHANGED failures /\ CanRead(shard) =>
             /\ shard \notin ragged'
             /\ Len(valuesFile'[shard]) = aliveValuesCnt'[shard]
             /\ aliveValuesCnt'[shard] =
                  Cardinality({key \in KeysOf(shard) : IsAlive(key)'})]_<<vars, faultVars>>
  BY <1>1, RebuildKeepsTheAlive
<1> QED  BY <1>2, FaultsInvariance, PTL DEF FaultsSpec, RebuildRepairs

=============================================================================
